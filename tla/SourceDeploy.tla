----------------------------- MODULE SourceDeploy -----------------------------
(***************************************************************************)
(* Deploys from a source that hyper watches itself: bundles of an image tar *)
(* and manifests in R2, and git refs.  CI publishes versions, the poller    *)
(* compares the newest with the recorded one and enqueues a deploy, and the *)
(* job's worker downloads, brings the image to the nodes (itself, or with   *)
(* one import Job per node of a remote cluster), applies and records.       *)
(*                                                                         *)
(* Every await of a worker and of the poller is a point where others run.   *)
(* A worker that loses its lease goes on without the lock, while its job is *)
(* run again; its writes to the cluster are not fenced, its record is.      *)
(*                                                                         *)
(* A version stands for a tag and for a commit.  Rows of the deployments    *)
(* table, the env step (EnvGuard) and the order of retries (JobQueue) are   *)
(* left out; one service of one cluster, with poller.autoDeploy.            *)
(***************************************************************************)
EXTENDS Naturals, Sequences, SequencesExt, FiniteSets

CONSTANTS
    LastVersion,    \* CI publishes the versions 1 .. LastVersion, in this order
    Node,           \* nodes of the cluster
    Home,           \* the node that hyper runs on, if it is one of the cluster
    Unpinned,            \* the node segment of an unpinned import Job
    MaxAttempts,    \* max_attempts of a job
    MaxEvents       \* bound: faults, crashes, lapses, requests, node changes

ASSUME SourceAssumption ==
    /\ LastVersion \in Nat \ {0} /\ MaxAttempts \in Nat \ {0} /\ MaxEvents \in Nat
    /\ Home \in Node /\ IsFiniteSet(Node) /\ Unpinned \notin Node

Version == 1 .. LastVersion
Part == {"tar", "yaml"}
Kind == {"local", "remote", "scoped", "git"}    \* how the source reaches the cluster
Status == {"none", "active", "done", "failed"}

VARIABLES
    kind,           \* r2-bundle on hyper's own node, on a remote cluster, on one whose
                    \* nodes we may not list; git-sync
    tars,           \* versions whose tar (whose commit) is published: 1 .. tars
    yamls,          \* versions whose manifests are published
    disk,           \* the work directory of each tag: the parts downloaded so far
    clone,          \* the version in the service's clone directory, 0 when it is empty
    ready,          \* nodes that are Ready and schedulable
    image,          \* the versions in each node's containerd
    jobs,           \* import Jobs in the cluster, by version and node
    queue,          \* deploy jobs that wait
    workers,        \* handlers that run, by fencing token
    held,           \* does the youngest hold the lock and its job?
    poll,           \* the poller: 0 between two looks, or the version it saw
    live,           \* the version whose deployment was applied last
    others,         \* the version whose other manifests were applied last
    stray,          \* history: which of the two was applied without the lock
    recorded,       \* current_deployment, 0 when its tag is no version
    events          \* bound

sourceVars == <<kind, tars, yamls, disk, clone, ready, image, jobs, queue,
                workers, held, poll, live, others, stray, recorded, events>>
upstream == <<tars, yamls>>
cluster == <<image, jobs, ready>>
applied == <<live, others, stray, recorded>>

Targets == Node \cup {Unpinned}
Worker == [at : {"download", "clone", "rev", "import", "list", "clear", "create",
                 "poll", "clean", "apply", "rest"},
           tag : Version, sha : 0 .. LastVersion, tries : 1 .. MaxAttempts, targets : SUBSET Targets,
           pending : SUBSET Targets, ok : BOOLEAN, beaten : BOOLEAN]

\* The first version is published and was deployed.
SourceInit ==
    /\ kind \in Kind
    /\ tars = 1 /\ yamls = IF kind = "git" THEN Version ELSE {1}
    /\ disk = [v \in Version |-> IF kind # "git" /\ v = 1 THEN Part ELSE {}]
    /\ clone = IF kind = "git" THEN 1 ELSE 0
    /\ ready = Node
    /\ image = [n \in Node |-> IF kind = "remote" \/ (kind # "git" /\ n = Home) THEN {1} ELSE {}]
    /\ jobs = [p \in Version \X Targets |-> "none"]
    /\ queue = <<>> /\ workers = <<>> /\ held = FALSE /\ poll = 0
    /\ live = 1 /\ others = 1 /\ stray = {} /\ recorded = 1 /\ events = 0

Event == events < MaxEvents /\ events' = events + 1
Calm == UNCHANGED events

-------------------------------------------------------------------------------
(* The source, the poller, the requests *)

PublishTar ==
    /\ tars < LastVersion /\ tars' = tars + 1
    /\ UNCHANGED <<kind, yamls, disk, clone, cluster, queue, workers, held, poll, applied, events>>

\* The objects of a bundle are uploaded one by one.
PublishManifests(v) ==
    /\ v \notin yamls /\ yamls' = yamls \cup {v}
    /\ UNCHANGED <<kind, tars, disk, clone, cluster, queue, workers, held, poll, applied, events>>

\* The newest tag has a tar; that its manifests are there is not asked.
Newest == tars

\* listVersions or ls-remote; when it fails, the service is left for the next tick.
PollLooks ==
    /\ poll = 0 /\ Newest # 0
    /\ poll' = Newest
    /\ UNCHANGED <<kind, upstream, disk, clone, cluster, queue, workers, held, applied, events>>

HasActiveJob == held \/ queue # <<>>

\* What follows the await in one go: compare, ask the queue, record and enqueue.
PollDecides ==
    /\ poll # 0 /\ poll' = 0
    /\ queue' = IF recorded # poll /\ ~HasActiveJob
                THEN <<[tag |-> poll, tries |-> 0]>> ELSE queue
    /\ UNCHANGED <<kind, upstream, disk, clone, cluster, workers, held, applied, events>>

\* The poller's process is started again in the middle of a look.
PollDies ==
    /\ poll # 0 /\ poll' = 0 /\ Event
    /\ UNCHANGED <<kind, upstream, disk, clone, cluster, queue, workers, held, applied>>

\* POST deploy takes any tag and does not ask whether a deploy is active.
Request(v) ==
    /\ Event
    /\ queue' = Append(queue, [tag |-> v, tries |-> 0])
    /\ UNCHANGED <<kind, upstream, disk, clone, cluster, workers, held, poll, applied>>

-------------------------------------------------------------------------------
(* Jobs and their workers *)

Holds(i) == held /\ (i = Len(workers))

\* A second worker runs while the first goes on without the lock.
Claim(k) ==
    /\ ~held /\ Len(workers) < 2
    /\ k \in DOMAIN queue
    /\ queue' = RemoveAt(queue, k)
    /\ workers' = Append(workers,
           [at |-> "download", tag |-> queue[k].tag, sha |-> queue[k].tag, tries |-> queue[k].tries + 1,
            targets |-> {}, pending |-> {}, ok |-> FALSE, beaten |-> FALSE])
    /\ held' = TRUE
    /\ UNCHANGED <<kind, upstream, disk, clone, cluster, poll, applied, events>>

Retried(w) == w.tries < MaxAttempts

Again(w) == IF Retried(w) THEN Append(queue, [tag |-> w.tag, tries |-> w.tries]) ELSE queue

\* complete and fail only settle a job that is still the worker's own.
Settles(i, ok) ==
    /\ held' = (held /\ ~Holds(i))
    /\ queue' = IF Holds(i) /\ ~ok THEN Again(workers[i]) ELSE queue

Ends(i, ok) == workers' = RemoveAt(workers, i) /\ Settles(i, ok)

Becomes(i, w) == workers' = [workers EXCEPT ![i] = w] /\ UNCHANGED <<held, queue>>
Goes(i, step) == Becomes(i, [workers[i] EXCEPT !.at = step])

\* The lease runs out, the reaper hands the job to another attempt.
Lapse ==
    /\ held /\ Event
    /\ held' = FALSE /\ queue' = Again(Last(workers))
    /\ UNCHANGED <<kind, upstream, disk, clone, cluster, workers, poll, applied>>

\* The process dies: no finally runs.
HandlerDies(i) ==
    /\ Event /\ Ends(i, FALSE)
    /\ UNCHANGED <<kind, upstream, disk, clone, image, jobs, ready, poll, applied>>

-------------------------------------------------------------------------------
(* r2-bundle: the bundle and its image *)

\* The objects that the listing finds.
Listed(v) == {p \in Part : IF p = "tar" THEN v <= tars ELSE v \in yamls}

\* clusterImageLoad: on the node, or by Jobs in a remote cluster.
ImageLoad == IF kind = "local" THEN "import" ELSE "list"

\* The work directory keeps what an earlier attempt left; then the tar is looked for.
Download(i) ==
    LET w == workers[i]
        got == disk[w.tag] \cup Listed(w.tag)
    IN  /\ kind # "git" /\ w.at = "download"
        /\ disk' = [disk EXCEPT ![w.tag] = got]
        /\ IF Listed(w.tag) = {} \/ "tar" \notin got THEN Ends(i, FALSE)
           ELSE Goes(i, ImageLoad)
        /\ UNCHANGED <<kind, upstream, clone, cluster, poll, applied, events>>

DownloadBreaks(i) ==
    /\ kind # "git" /\ workers[i].at = "download" /\ Event
    /\ \E some \in SUBSET Listed(workers[i].tag) :
           disk' = [disk EXCEPT ![workers[i].tag] = @ \cup some]
    /\ Ends(i, FALSE)
    /\ UNCHANGED <<kind, upstream, clone, cluster, poll, applied>>

ImportLocally(i) ==
    LET w == workers[i]
    IN  /\ w.at = "import"
        /\ image' = [image EXCEPT ![Home] = @ \cup {w.tag}]
        /\ Goes(i, "apply")
        /\ UNCHANGED <<kind, upstream, disk, clone, ready, jobs, poll, applied, events>>

-------------------------------------------------------------------------------
(* The import Jobs of a remote cluster *)

Own(w) == {w.tag} \X w.targets

\* One Job per node; a single one that is not pinned when the list is forbidden.
ListNodes(i) ==
    LET targets == IF kind = "scoped" THEN {Unpinned} ELSE ready
    IN  /\ workers[i].at = "list"
        /\ IF targets = {} THEN Ends(i, FALSE)
           ELSE Becomes(i, [workers[i] EXCEPT !.at = "clear", !.targets = targets])
        /\ UNCHANGED <<kind, upstream, disk, clone, cluster, poll, applied, events>>

\* Deletions are best effort: those of `failing` are not carried out.
Deletes(doomed, failing) ==
    /\ jobs' = [p \in DOMAIN jobs |-> IF p \in doomed \ failing THEN "none" ELSE jobs[p]]
    /\ failing \subseteq {p \in doomed : jobs[p] # "none"}
    /\ IF failing = {} THEN Calm ELSE Event

Teardown(i, doomed, failing) ==
    /\ Deletes(doomed, failing)
    /\ UNCHANGED <<kind, upstream, disk, clone, image, ready, poll, applied>>

\* A leftover Job would make the apply fail, its template is immutable.
ClearJobs(i) ==
    /\ workers[i].at = "clear"
    /\ \E failing \in SUBSET Own(workers[i]) : Teardown(i, Own(workers[i]), failing)
    /\ Goes(i, "create")

\* All are applied, then the answers are looked at; one that was refused or whose
\* answer is lost fails the import, and it may have been created none the less.
CreateJobs(i) ==
    LET w == workers[i]
        free == {p \in Own(w) : jobs[p] = "none"}
    IN  /\ w.at = "create"
        /\ \E created, lost \in SUBSET free :
             /\ free \ created \subseteq lost
             /\ IF lost = {} THEN Calm ELSE Event
             /\ jobs' = [p \in DOMAIN jobs |-> IF p \in created THEN "active" ELSE jobs[p]]
             /\ Becomes(i, [w EXCEPT !.at = IF lost = {} /\ free = Own(w) THEN "poll" ELSE "clean",
                                     !.pending = w.targets])
        /\ UNCHANGED <<kind, upstream, disk, clone, image, ready, poll, applied>>

\* Mutant: the first success is enough.
AllImportedAny(w, pending) == pending # w.targets

AllImported(w, pending) == pending = {}

\* One round over the Jobs that are pending; one that is gone is read as an error,
\* and after five of them as lost.
PollJobs(i) ==
    LET w == workers[i]
        In(s) == {n \in w.pending : jobs[<<w.tag, n>>] \in s}
        pending == w.pending \ In({"done"})
    IN  /\ w.at = "poll"
        /\ In({"done", "failed", "none"}) # {}
        /\ Becomes(i, IF In({"failed", "none"}) # {} THEN [w EXCEPT !.at = "clean", !.pending = {}]
                      ELSE [w EXCEPT !.pending = pending,
                                     !.ok = AllImported(w, pending),
                                     !.at = IF AllImported(w, pending) THEN "clean" ELSE "poll"])
        /\ UNCHANGED <<kind, upstream, disk, clone, cluster, poll, applied, events>>

\* The reads fail five times in a row, or the budget is over.
PollGivesUp(i) ==
    /\ workers[i].at = "poll" /\ Event
    /\ Becomes(i, [workers[i] EXCEPT !.at = "clean", !.pending = {}])
    /\ UNCHANGED <<kind, upstream, disk, clone, cluster, poll, applied>>

\* The finally of the import, then its result.
CleanJobs(i) ==
    LET w == workers[i]
    IN  /\ w.at = "clean"
        /\ \E failing \in SUBSET Own(w) : Teardown(i, Own(w), failing)
        /\ IF w.ok THEN Goes(i, "apply") ELSE Ends(i, FALSE)

\* A pinned Job needs its node; one without runs where the scheduler puts it.
JobEnds(p) ==
    /\ jobs[p] = "active"
    /\ \/ /\ jobs' = [jobs EXCEPT ![p] = "done"]
          /\ \E n \in IF p[2] = Unpinned THEN ready ELSE {p[2]} :
                 image' = [image EXCEPT ![n] = @ \cup {p[1]}]
          /\ Calm
       \/ /\ jobs' = [jobs EXCEPT ![p] = "failed"]
          /\ IF p[2] \in ready \cup {Unpinned} THEN Event ELSE Calm
          /\ UNCHANGED image
    /\ UNCHANGED <<kind, upstream, disk, clone, ready, queue, workers, held, poll, applied>>

\* ttlSecondsAfterFinished, much longer than the time between two polls.
JobExpires(p) ==
    /\ jobs[p] \in {"done", "failed"}
    /\ \A i \in DOMAIN workers : workers[i].at = "poll" => p \notin Own(workers[i])
    /\ jobs' = [jobs EXCEPT ![p] = "none"]
    /\ UNCHANGED <<kind, upstream, disk, clone, image, ready, queue, workers, held, poll, applied, events>>

NodeChanges(n) ==
    /\ Event
    /\ ready' = (ready \ {n}) \cup ({n} \ ready) /\ ready' # {}
    /\ UNCHANGED <<kind, upstream, disk, clone, image, jobs, queue, workers, held, poll, applied>>

-------------------------------------------------------------------------------
(* git-sync: one clone directory per service *)

Wipe(i) ==
    /\ kind = "git" /\ workers[i].at = "download"
    /\ clone' = 0 /\ Goes(i, "clone")
    /\ UNCHANGED <<kind, upstream, disk, cluster, poll, applied, events>>

\* Clones the tip, whatever tag was asked for; git refuses a directory in use.
Clone(i) ==
    /\ workers[i].at = "clone"
    /\ IF clone = 0 /\ tars # 0 THEN clone' = tars /\ Goes(i, "rev")
       ELSE UNCHANGED clone /\ Ends(i, FALSE)
    /\ UNCHANGED <<kind, upstream, disk, cluster, poll, applied, events>>

\* rev-parse, and the ref itself, which is no version, when it fails.
RevParse(i) ==
    /\ workers[i].at = "rev"
    /\ \E rev \in {clone, 0} :
         /\ IF rev = clone THEN Calm ELSE Event
         /\ IF clone = 0 THEN Ends(i, FALSE)
            ELSE Becomes(i, [workers[i] EXCEPT !.at = "apply", !.sha = rev])
    /\ UNCHANGED <<kind, upstream, disk, clone, cluster, poll, applied>>

-------------------------------------------------------------------------------
(* Apply and record *)

\* What the apply reads: the directory of the tag, or the clone as it is now.
Manifests(w) == IF kind = "git" THEN clone
                ELSE IF "yaml" \in disk[w.tag] THEN w.tag ELSE 0

Stray(i, parts) == stray' = IF Holds(i) THEN stray \ parts ELSE stray \cup parts

\* Namespace, env, expose and the deployment; a git-sync applies all at once.
Applies(i) ==
    LET w == workers[i]
    IN  /\ Manifests(w) # 0
        /\ live' = Manifests(w)
        /\ others' = IF kind = "git" THEN Manifests(w) ELSE others
        /\ Stray(i, {"live"} \cup IF kind = "git" THEN {"others"} ELSE {})

ApplyDeployment(i) ==
    /\ workers[i].at = "apply"
    /\ IF Manifests(workers[i]) = 0 THEN Ends(i, FALSE) /\ UNCHANGED <<live, others, stray>>
       ELSE Applies(i) /\ Goes(i, "rest")
    /\ UNCHANGED <<kind, upstream, disk, clone, cluster, poll, recorded, events>>

\* One of these calls fails, perhaps after the cluster carried it out.
ApplyBreaks(i) ==
    /\ workers[i].at = "apply" /\ Event
    /\ Applies(i) \/ UNCHANGED <<live, others, stray>>
    /\ Ends(i, FALSE)
    /\ UNCHANGED <<kind, upstream, disk, clone, cluster, poll, recorded>>

\* Mutant: a manifest that fails is only a warning.
RecordsAnyway(ok) == TRUE

Records(ok) == ok

\* setCurrentFenced: refused once a younger worker has recorded.
Finish(i, ok) ==
    LET w == workers[i]
        left == RemoveAt(workers, i)
    IN  /\ IF Records(ok) /\ ~w.beaten
           THEN /\ recorded' = w.sha
                /\ workers' = [j \in DOMAIN left |->
                       IF j < i THEN [left[j] EXCEPT !.beaten = TRUE] ELSE left[j]]
           ELSE recorded' = recorded /\ workers' = left
        /\ Settles(i, Records(ok))

\* The other manifests of the bundle, and the record.
ApplyRest(i) ==
    /\ workers[i].at = "rest"
    /\ IF kind = "git" THEN UNCHANGED <<others, stray>>
       ELSE others' = workers[i].tag /\ Stray(i, {"others"})
    /\ Finish(i, TRUE)
    /\ UNCHANGED <<kind, upstream, disk, clone, cluster, poll, live, events>>

RestBreaks(i) ==
    /\ kind # "git" /\ workers[i].at = "rest" /\ Event
    /\ Finish(i, FALSE)
    /\ UNCHANGED <<kind, upstream, disk, clone, cluster, poll, live, others, stray>>

-------------------------------------------------------------------------------
WorkerSteps(i) ==
    \/ Download(i) \/ ImportLocally(i)
    \/ ListNodes(i) \/ ClearJobs(i) \/ CreateJobs(i) \/ PollJobs(i) \/ CleanJobs(i)
    \/ Wipe(i) \/ Clone(i) \/ RevParse(i)
    \/ ApplyDeployment(i) \/ ApplyRest(i)

WorkerFails(i) ==
    DownloadBreaks(i) \/ PollGivesUp(i) \/ ApplyBreaks(i) \/ RestBreaks(i) \/ HandlerDies(i)

\* deployExisting: whatever is thrown fails the deployment.
Throws(i) == Event /\ Ends(i, FALSE)

\* A call of a worker that has no failing case of its own; the namespace or the URL of a
\* remote import.
CallBreaks(i) ==
    /\ workers[i].at \in {"clone", "import", "list"} /\ Throws(i)
    /\ UNCHANGED <<kind, upstream, disk, clone, cluster, poll, applied>>

SourceNext ==
    \/ PublishTar \/ PollLooks \/ PollDecides \/ PollDies \/ Lapse
    \/ \E v \in Version : PublishManifests(v) \/ Request(v)
    \/ \E k \in DOMAIN queue : Claim(k)
    \/ \E i \in DOMAIN workers : WorkerSteps(i) \/ WorkerFails(i) \/ CallBreaks(i)
    \/ \E p \in DOMAIN jobs : JobEnds(p) \/ JobExpires(p)
    \/ \E n \in Node : NodeChanges(n)

\* CI goes on, the poller ticks, workers claim and go on, Jobs end and expire.
SourceFairness ==
    /\ WF_sourceVars(PublishTar) /\ \A v \in Version : WF_sourceVars(PublishManifests(v))
    /\ WF_sourceVars(PollLooks) /\ WF_sourceVars(PollDecides)
    /\ WF_sourceVars(\E k \in DOMAIN queue : Claim(k))
    /\ \A i \in 1 .. 2 : WF_sourceVars(i \in DOMAIN workers /\ WorkerSteps(i))
    /\ \A p \in Version \X Targets : WF_sourceVars(JobEnds(p)) /\ WF_sourceVars(JobExpires(p))

SourceSpec == SourceInit /\ [][SourceNext]_sourceVars /\ SourceFairness

-------------------------------------------------------------------------------
(* Properties *)

\* Attempts stay within max_attempts, recorded tags are versions or a ref's name.
SourceTypeOK ==
    /\ kind \in Kind /\ tars \in 0 .. LastVersion /\ yamls \subseteq Version
    /\ disk \in [Version -> SUBSET Part] /\ clone \in 0 .. LastVersion
    /\ ready \in (SUBSET Node) \ {{}} /\ image \in [Node -> SUBSET Version]
    /\ jobs \in [Version \X Targets -> Status]
    /\ \A k \in DOMAIN queue : queue[k].tag \in Version /\ queue[k].tries \in 0 .. MaxAttempts - 1
    /\ Len(workers) <= 2 /\ \A i \in DOMAIN workers : workers[i] \in Worker
    /\ held \in BOOLEAN /\ poll \in 0 .. LastVersion
    /\ {live, others, recorded} \subseteq 0 .. LastVersion
    /\ stray \subseteq {"live", "others"} /\ events \in 0 .. MaxEvents

\* Every node that was listed has the image before the manifests that need it are
\* applied, whatever Jobs of earlier or concurrent attempts were in the cluster
\* (bundle-import.ts:189: one failure fails the deploy).
ImageOnEveryNode ==
    \A i \in DOMAIN workers :
        LET w == workers[i]
        IN  kind # "git" /\ w.at \in {"apply", "rest"} =>
                CASE kind = "local" -> w.tag \in image[Home]
                  [] kind = "remote" -> \A n \in w.targets : w.tag \in image[n]
                  [] OTHER -> \E n \in Node : w.tag \in image[n]

\* Whatever fails on the way, in the end the newest version is recorded and all of
\* it runs, unless a worker without the lock was the last to apply.
AutoDeployConverges ==
    <>[](stray # {} \/ {recorded, live, others} = {LastVersion})

===============================================================================

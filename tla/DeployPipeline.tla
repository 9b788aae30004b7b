---------------------------- MODULE DeployPipeline ----------------------------
(***************************************************************************)
(* What happens to one registry-pull service: the routes that enqueue a    *)
(* deploy, a rollback or a helm upgrade, the three job handlers, the       *)
(* degraded mark, the deployments rows, current_deployment and the image   *)
(* history the cluster keeps.  deployMode is rolling, healthGate and       *)
(* autoRollback are on; a gate failure without the latter ends the deploy  *)
(* the way a failed rollout does.                                          *)
(*                                                                         *)
(* The queue is the one of JobQueue seen from a single process: one loop,  *)
(* one job at a time, lowest id first among those that are due.  Delays    *)
(* are "not due yet"; the lock and the fencing token are left to JobQueue, *)
(* where a process that runs alone always holds the highest token.         *)
(*                                                                         *)
(* Granularity.  A handler is cut at its awaits: one action is the code    *)
(* from the answer of a kubectl or helm call to the next call.  A crash    *)
(* can also fall between two statements of one such stretch; the stretches *)
(* where that matters have a crash action of their own (MidCrash).         *)
(***************************************************************************)
EXTENDS Naturals, Sequences, FiniteSets

CONSTANTS
    Tag,           \* image tags
    Asked,         \* the tags an operator or a webhook may ask for
    AskedHelm,     \* the tags an operator may ask helm for
    Notices,       \* what registries may post to the webhook, see Pushed
    ImageRef,      \* the service's image, a host and a repository
    Bad,           \* tags whose pods never pass the health gate
    Adopted,       \* how the service may have come to hyper, see Init
    First, Older,  \* tags: what runs at the start, and what ran before it
    MaxId,         \* bound: rows and jobs; the first two are given
    MaxAttempts,   \* DEFAULT_MAX_ATTEMPTS
    MidCrash,      \* may a crash fall between two statements of one stretch?
    Revision,      \* the tag "rollback-rev-N" or "rollback-rev-unknown"
    None           \* no tag

ASSUME PipelineAssumption ==
    /\ Asked \subseteq Tag /\ AskedHelm \subseteq Tag
    /\ Bad \subseteq Tag /\ First \in Tag \ Bad /\ Older \in Tag \ Bad /\ First # Older
    /\ \A n \in Notices : n.tags \in Seq(Asked \cup {"digest"})
    /\ MaxId \in Nat /\ MaxId >= 2
    /\ MaxAttempts \in Nat \ {0}
    /\ Adopted \subseteq BOOLEAN /\ MidCrash \in BOOLEAN
    /\ Revision \notin Tag /\ None \notin Tag /\ Revision # None

Id == 1..MaxId
Kinds == {"deploy", "rollback", "helm"}
Active == {"pending", "running"}
Job == [kind : Kinds, state : {"absent", "done", "failed", "dead", "deleted"} \cup Active,
        attempts : 0..MaxAttempts, max : 0..MaxAttempts, due : BOOLEAN,
        tag : Tag \cup {Revision, None}, rev : Nat, auto : BOOLEAN, cause : {0} \cup Id]
Row == [tag : Tag \cup {Revision, None},
        status : {"absent", "pending", "applying", "done", "failed", "cancelled"}]

VARIABLES
    job,       \* table jobs
    row,       \* table deployments, one row per id
    current,   \* table current_deployment: the tag, or None
    degraded,  \* table service_degraded: is there a row?
    history,   \* the cluster's revisions of the workload, oldest first
    worker,    \* what the loop is waiting for
    asking     \* a rollback request waiting for kubectl rollout history

vars == <<job, row, current, degraded, history, worker, asking>>

NoJob == [kind |-> "deploy", state |-> "absent", attempts |-> 0,
          max |-> MaxAttempts, due |-> FALSE, tag |-> None, rev |-> 0,
          auto |-> FALSE, cause |-> 0]
NoRow == [tag |-> None, status |-> "absent"]
Idle == [pc |-> "idle", job |-> 0]

Rev(n, t) == [rev |-> n, tag |-> t]
LiveRev(h) == h[Len(h)].rev
Live == history[Len(history)].tag

\* Either hyper itself deployed Older and then First, rows 1 and 2, or it adopted
\* the service with First running: those ids are then another service's.
Init ==
    /\ \E adopted \in Adopted :
         /\ row = [i \in Id |-> IF adopted \/ i > 2 THEN NoRow
                                ELSE [tag |-> IF i = 1 THEN Older ELSE First,
                                      status |-> "done"]]
         /\ job = [i \in Id |-> IF adopted \/ i > 2 THEN NoJob
                                ELSE [NoJob EXCEPT !.state = "done"]]
         /\ current = IF adopted THEN None ELSE First
         /\ history = IF adopted THEN <<Rev(1, First)>>
                      ELSE <<Rev(1, Older), Rev(2, First)>>
    /\ degraded = FALSE
    /\ worker = Idle
    /\ asking = FALSE

-------------------------------------------------------------------------------
(* The cluster: kubectl set image, rollout undo, rollout history.  A        *)
(* template that comes back takes the next revision number, and so no tag   *)
(* is twice in the history.                                                 *)

Without(h, t) ==
    LET at == {i \in 1..Len(h) : h[i].tag = t}
        i == CHOOSE i \in at : TRUE
    IN  IF at = {} THEN h ELSE SubSeq(h, 1, i - 1) \o SubSeq(h, i + 1, Len(h))

Patched(h, t) == IF h[Len(h)].tag = t THEN h
                 ELSE Append(Without(h, t), Rev(LiveRev(h) + 1, t))

\* The revision before the live one: Source B, and what a bare undo goes to.
HasPrevious(h) == Len(h) >= 2
Previous(h) == h[Len(h) - 1]

HasRevision(h, n) == \E i \in 1..Len(h) : h[i].rev = n
TagAt(h, n) == LET i == CHOOSE i \in 1..Len(h) : h[i].rev = n IN h[i].tag

\* rollout undo, with --to-revision when a revision is named.
CanUndo(h, n) == IF n = 0 THEN HasPrevious(h) ELSE HasRevision(h, n)
Undone(h, n) == Patched(h, IF n = 0 THEN Previous(h).tag ELSE TagAt(h, n))

-------------------------------------------------------------------------------
(* Queries and statements on the tables *)

\* The newest done row of another tag, or None.
PreviousDoneTag(t) ==
    LET done == {i \in Id : row[i].status = "done" /\ row[i].tag # t}
    IN  IF done = {} THEN None
        ELSE row[CHOOSE i \in done : \A k \in done : k <= i].tag

\* Mutant: no rollback is ever seen to be active.
HasActiveBlind(kind) == FALSE

HasActive(kind) == \E i \in Id : job[i].kind = kind /\ job[i].state \in Active

Fresh == {i \in Id \ {1, 2} : row[i].status = "absent"}
NextId == CHOOSE i \in Fresh : \A k \in Fresh : i <= k

\* recordDeploymentStart, then enqueue under the row's id.
Recorded(r, i, t) == [r EXCEPT ![i] = [tag |-> t, status |-> "pending"]]
Enqueued(q, i, j) == [q EXCEPT ![i] = [j EXCEPT !.state = "pending"]]

Rollback(tag, rev, auto, cause) ==
    [NoJob EXCEPT !.kind = "rollback", !.tag = tag, !.rev = rev, !.auto = auto,
                  !.cause = cause, !.due = ~auto]

Status(r, i, s) == [r EXCEPT ![i].status = s]

\* ensureDeploymentRow finds the row of the one who enqueued.
Applying(i) == row' = Status(row, i, "applying")

\* setServiceDegraded, for an automatic rollback only.
Degrades(auto) == degraded' = (degraded \/ auto)

\* finalizeRollback: register, row and degraded mark in one transaction.
Finalized(i, tag) == /\ current' = tag
                     /\ row' = Status(row, i, "done")
                     /\ degraded' = FALSE

\* A job in a terminal state: nothing reads its other columns again.
Ended(q, i, s) ==
    [q EXCEPT ![i] = [NoJob EXCEPT !.state = s, !.kind = q[i].kind,
                                   !.auto = q[i].auto, !.cause = q[i].cause]]

Completed(q, i) == Ended(q, i, "done")

\* fail(): terminal when the attempts are spent, otherwise pending and not due.
Failed(q, i) ==
    IF q[i].attempts >= q[i].max THEN Ended(q, i, "failed")
    ELSE [q EXCEPT ![i].state = "pending"]

\* Mutant: the deploy keeps its remaining attempts.
NoRetryForgotten(q, i) == q

NoRetry(q, i) == [q EXCEPT ![i].max = q[i].attempts]

-------------------------------------------------------------------------------
(* Requests *)

PostDeploy(t) ==
    /\ Fresh # {} /\ ~degraded
    /\ row' = Recorded(row, NextId, t)
    /\ job' = Enqueued(job, NextId, [NoJob EXCEPT !.tag = t, !.due = TRUE])
    /\ UNCHANGED <<current, degraded, history, worker, asking>>

\* Docker Hub is the registry of an image that names none.
Normalized(ref) == IF ref.host \in {"", "docker.io", "index.docker.io"}
                   THEN [ref EXCEPT !.host = ""] ELSE ref

\* parseRegistryPush: what a registry says was pushed.  GHCR leaves its host out, only
\* the generic form can hold more than one tag, a digest is no tag, ACR also tells of
\* deletions.  Of the tags, the first one counts.
Pushed(n) ==
    LET ref == IF n.kind = "ghcr" THEN [n.ref EXCEPT !.host = "ghcr.io"] ELSE n.ref
        told == IF n.kind = "generic" \/ n.tags = <<>> THEN n.tags ELSE <<n.tags[1]>>
        tags == IF n.kind = "acr" /\ ~n.push THEN {}
                ELSE {i \in DOMAIN told : told[i] # "digest"}
    IN  [ref |-> Normalized(ref),
         first |-> IF tags = {} THEN None ELSE told[CHOOSE i \in tags : \A k \in tags : i <= k]]

\* A push is for the service if it is signed, its webhook's scope has the service, and
\* the image is the service's.
Concerns(n) == /\ n.signed /\ n.inScope
               /\ Pushed(n).ref = Normalized(ImageRef) /\ Pushed(n).first # None

\* The first tag gets a job, and is what makes the others skipped: a deploy is active.
PushWebhook(n) ==
    /\ Fresh # {} /\ ~degraded /\ ~HasActive("deploy")
    /\ Concerns(n)
    /\ LET t == Pushed(n).first IN
         /\ row' = Recorded(row, NextId, t)
         /\ job' = Enqueued(job, NextId, [NoJob EXCEPT !.tag = t, !.due = TRUE])
    /\ UNCHANGED <<current, degraded, history, worker, asking>>

PostHelm(t) ==
    /\ Fresh # {}
    /\ row' = Recorded(row, NextId, t)
    /\ job' = Enqueued(job, NextId,
                       [NoJob EXCEPT !.kind = "helm", !.tag = t, !.due = TRUE])
    /\ UNCHANGED <<current, degraded, history, worker, asking>>

\* The target is in hyper's own history (Source A).
PostRollback ==
    /\ Fresh # {}
    /\ LET t == PreviousDoneTag(current) IN
         /\ t # None
         /\ row' = Recorded(row, NextId, t)
         /\ job' = Enqueued(job, NextId, Rollback(t, 0, FALSE, 0))
    /\ UNCHANGED <<current, degraded, history, worker, asking>>

\* It is not: the request waits for the cluster's history (Source B).
AskHistory ==
    /\ ~asking /\ Fresh # {}
    /\ PreviousDoneTag(current) = None
    /\ asking' = TRUE
    /\ UNCHANGED <<job, row, current, degraded, history, worker>>

HistoryAnswers ==
    /\ asking /\ asking' = FALSE
    /\ \/ /\ HasPrevious(history) /\ Fresh # {}
          /\ row' = Recorded(row, NextId, Revision)
          /\ job' = Enqueued(job, NextId,
                             Rollback(None, Previous(history).rev, FALSE, 0))
       \/ UNCHANGED <<job, row>>
    /\ UNCHANGED <<current, degraded, history, worker>>

\* Mutant: a rollback that runs can be cancelled, too.
CancellableActive(i) == /\ job[i].kind = "rollback" /\ job[i].auto
                        /\ job[i].state \in Active

Cancellable(i) == /\ job[i].kind = "rollback" /\ job[i].auto
                  /\ job[i].state = "pending"

CancelAutoRollback(i) ==
    /\ Cancellable(i)
    /\ job' = Ended(job, i, "deleted")
    /\ row' = Status(row, i, "cancelled")
    /\ UNCHANGED <<current, degraded, history, worker, asking>>

Undegrade ==
    /\ degraded
    /\ degraded' = FALSE
    /\ UNCHANGED <<job, row, current, history, worker, asking>>

-------------------------------------------------------------------------------
(* The loop: reap what a dead process left, then claim and start a handler *)

\* A grace window or a backoff ends.
BecomesDue(i) ==
    /\ job[i].state = "pending" /\ ~job[i].due
    /\ job' = [job EXCEPT ![i].due = TRUE]
    /\ UNCHANGED <<row, current, degraded, history, worker, asking>>

\* An idle loop's running job belongs to a process that died; it is found once its
\* lease has expired.
Orphans == {i \in Id : job[i].state = "running"}

Reap(i) ==
    /\ worker.pc = "idle" /\ i \in Orphans
    /\ job' = IF job[i].attempts >= job[i].max THEN Ended(job, i, "dead")
              ELSE [job EXCEPT ![i].state = "pending", ![i].due = TRUE]
    /\ UNCHANGED <<row, current, degraded, history, worker, asking>>

Due == {i \in Id : job[i].state = "pending" /\ job[i].due}

\* An orphan does not hold the others up: its lock lapses before its lease.
Claimable(i) == worker.pc = "idle" /\ i \in Due /\ \A k \in Due : i <= k

Claimed(i) == [job EXCEPT ![i].state = "running", ![i].due = FALSE,
                          ![i].attempts = @ + 1]

At(pc) == [worker EXCEPT !.pc = pc]

\* Mutant: the handler does not look at the degraded mark.
RefusesNothing == FALSE

RefusesDeploys == degraded

StartDeploy(i) ==
    /\ Claimable(i) /\ job[i].kind = "deploy"
    /\ IF RefusesDeploys
       THEN /\ job' = Failed(NoRetry(Claimed(i), i), i)
            /\ row' = Status(row, i, "failed")
            /\ UNCHANGED worker
       ELSE /\ job' = Claimed(i)
            /\ Applying(i)
            /\ worker' = [pc |-> "image", job |-> i]
    /\ UNCHANGED <<current, degraded, history, asking>>

StartRollback(i) ==
    /\ Claimable(i) /\ job[i].kind = "rollback"
    /\ job' = Claimed(i)
    /\ Applying(i)
    /\ worker' = [pc |-> "undo", job |-> i]
    /\ UNCHANGED <<current, degraded, history, asking>>

StartHelm(i) ==
    /\ Claimable(i) /\ job[i].kind = "helm"
    /\ job' = Claimed(i)
    /\ Applying(i)
    /\ worker' = [pc |-> "helm", job |-> i]
    /\ UNCHANGED <<current, degraded, history, asking>>

-------------------------------------------------------------------------------
(* The deploy handler *)

\* deployRegistryPull's fail(), and the handler throws.
DeployFails ==
    /\ row' = Status(row, worker.job, "failed")
    /\ job' = Failed(job, worker.job)
    /\ worker' = Idle

\* kubectl may report an error after the API server took the change.
SetImage ==
    /\ worker.pc = "image"
    /\ \/ /\ history' = Patched(history, job[worker.job].tag)
          /\ worker' = At("gate")
          /\ UNCHANGED <<job, row>>
       \/ /\ history' \in {history, Patched(history, job[worker.job].tag)}
          /\ DeployFails
    /\ UNCHANGED <<current, degraded, asking>>

\* The rollout's status and the gate's samples change no state: one wait.
RolloutFails ==
    /\ worker.pc = "gate"
    /\ DeployFails
    /\ UNCHANGED <<current, degraded, history, asking>>

\* Mutant: the gate holds whatever its samples say.
GateIgnored == TRUE

GatePasses == Live \notin Bad

\* The gate holds: the tag is committed, then the row, then the job.
DeployCommits ==
    /\ worker.pc = "gate" /\ GatePasses
    /\ current' = job[worker.job].tag
    /\ row' = Status(row, worker.job, "done")
    /\ job' = Completed(job, worker.job)
    /\ worker' = Idle
    /\ UNCHANGED <<degraded, history, asking>>

\* The automatic rollback is enqueued and the deploy made terminal.
EnqueueAutoRollback(target, rev) ==
    /\ Fresh # {}
    /\ LET w == worker.job IN
         /\ row' = Recorded(Status(row, w, "failed"), NextId,
                            IF rev = 0 THEN target ELSE Revision)
         /\ job' = Enqueued(Failed(NoRetry(job, w), w), NextId,
                            Rollback(target, rev, TRUE, w))

GateFails ==
    /\ worker.pc = "gate"
    /\ LET target == PreviousDoneTag(current) IN
         \/ /\ HasActive("rollback")
            /\ row' = Status(row, worker.job, "failed")
            /\ job' = Failed(NoRetry(job, worker.job), worker.job)
            /\ worker' = Idle
         \/ /\ ~HasActive("rollback") /\ target # None
            /\ EnqueueAutoRollback(target, 0)
            /\ worker' = Idle
         \/ /\ ~HasActive("rollback") /\ target = None
            /\ row' = Status(row, worker.job, "failed")
            /\ worker' = At("history")
            /\ UNCHANGED job
    /\ UNCHANGED <<current, degraded, history, asking>>

\* Source B for the handler: no answer or no earlier revision means no rollback.
TargetAnswers ==
    /\ worker.pc = "history"
    /\ \/ HasPrevious(history) /\ EnqueueAutoRollback(None, Previous(history).rev)
       \/ DeployFails
    /\ worker' = Idle
    /\ UNCHANGED <<current, degraded, history, asking>>

-------------------------------------------------------------------------------
(* The rollback handler *)

\* The catch of makeRollbackHandler: the row keeps the status it has.
RollbackFails ==
    /\ Degrades(job[worker.job].auto)
    /\ job' = Failed(job, worker.job)
    /\ worker' = Idle

\* kubectl may report an error after the API server took the undo.
Undo ==
    /\ worker.pc = "undo"
    /\ LET n == job[worker.job].rev IN
         \/ /\ CanUndo(history, n) /\ history' = Undone(history, n)
            /\ worker' = At("status")
            /\ UNCHANGED <<job, degraded>>
         \/ /\ RollbackFails
            /\ \/ UNCHANGED history
               \/ CanUndo(history, n) /\ history' = Undone(history, n)
    /\ UNCHANGED <<row, current, asking>>

\* Neither the status nor the read of the pod template change state: one wait.
StatusFails ==
    /\ worker.pc = "status"
    /\ RollbackFails
    /\ UNCHANGED <<row, current, history, asking>>

\* Mutant: the tag that was expected, whatever the pod template says.
FinalTagExpected(expected, got) == IF expected # None THEN expected ELSE Revision

\* What is recorded once the pod template's tag was read (None: it was not).
FinalTag(expected, got) == IF got # None THEN got ELSE Revision

RollbackCommits ==
    /\ worker.pc = "status"
    /\ \E got \in {Live, None} : Finalized(worker.job, FinalTag(job[worker.job].tag, got))
    /\ job' = Completed(job, worker.job)
    /\ worker' = Idle
    /\ UNCHANGED <<history, asking>>

-------------------------------------------------------------------------------
(* The helm handler *)

HelmTookEffect(h) == h[Len(h)].tag = job[worker.job].tag

\* The upgrade, with the read that verifies it.  A wrong values path makes an
\* upgrade that changes nothing; a failure leaves the row as it is.
HelmUpgrade ==
    /\ worker.pc = "helm"
    /\ history' \in {history, Patched(history, job[worker.job].tag)}
    /\ \/ /\ HelmTookEffect(history')
          /\ current' = job[worker.job].tag
          /\ row' = Status(row, worker.job, "done")
          /\ job' = Completed(job, worker.job)
       \/ /\ job' = Failed(job, worker.job)
          /\ UNCHANGED <<row, current>>
    /\ worker' = Idle
    /\ UNCHANGED <<degraded, asking>>

-------------------------------------------------------------------------------
(* Crashes.  The process dies and is started again: what it kept in memory  *)
(* is gone, what the tables and the cluster hold stays.                     *)

Waiting == worker.pc # "idle"

\* While something waits; a call in flight may still reach the API server.
Crash ==
    /\ Waiting \/ asking
    /\ worker' = Idle /\ asking' = FALSE
    /\ \/ UNCHANGED history
       \/ /\ worker.pc \in {"image", "helm"}
          /\ history' = Patched(history, job[worker.job].tag)
       \/ /\ worker.pc = "undo" /\ CanUndo(history, job[worker.job].rev)
          /\ history' = Undone(history, job[worker.job].rev)
    /\ UNCHANGED <<job, row, current, degraded>>

\* After the rollback was enqueued, before noRetry: it ended no deploy.
CrashBeforeNoRetry ==
    /\ MidCrash /\ worker.pc = "gate"
    /\ ~HasActive("rollback") /\ Fresh # {}
    /\ LET t == PreviousDoneTag(current) IN
         /\ t # None
         /\ row' = Recorded(Status(row, worker.job, "failed"), NextId, t)
         /\ job' = Enqueued(job, NextId, Rollback(t, 0, TRUE, 0))
    /\ worker' = Idle /\ asking' = FALSE
    /\ UNCHANGED <<current, degraded, history>>

\* After the deploy or the rollback committed, before complete().
CrashBeforeComplete ==
    /\ MidCrash
    /\ \/ /\ worker.pc = "gate" /\ GatePasses
          /\ current' = job[worker.job].tag
          /\ row' = Status(row, worker.job, "done")
          /\ UNCHANGED degraded
       \/ /\ worker.pc = "status"
          /\ Finalized(worker.job, FinalTag(job[worker.job].tag, Live))
    /\ worker' = Idle /\ asking' = FALSE
    /\ UNCHANGED <<job, history>>

Next ==
    \/ \E t \in Asked : PostDeploy(t)
    \/ \E t \in AskedHelm : PostHelm(t)
    \/ \E n \in Notices : PushWebhook(n)
    \/ PostRollback \/ AskHistory \/ HistoryAnswers \/ Undegrade
    \/ \E i \in Id : \/ CancelAutoRollback(i) \/ BecomesDue(i) \/ Reap(i)
                     \/ StartDeploy(i) \/ StartRollback(i) \/ StartHelm(i)
    \/ SetImage \/ RolloutFails \/ DeployCommits \/ GateFails \/ TargetAnswers
    \/ Undo \/ StatusFails \/ RollbackCommits
    \/ HelmUpgrade
    \/ Crash \/ CrashBeforeNoRetry \/ CrashBeforeComplete

Spec == Init /\ [][Next]_vars

-------------------------------------------------------------------------------
(* Properties *)

MovesCluster(pc) == worker.pc = pc /\ history' # history
AutoJob(i) == job[i].kind = "rollback" /\ job[i].auto

\* The tables hold what their columns allow, no job exceeds its attempts, and a
\* waiting loop names a running job of the kind its handler is for.
TypeOK ==
    /\ job \in [Id -> Job] /\ row \in [Id -> Row]
    /\ current \in Tag \cup {Revision, None}
    /\ degraded \in BOOLEAN /\ asking \in BOOLEAN
    /\ history \in Seq([rev : Nat, tag : Tag]) /\ history # <<>>
    /\ worker \in [pc : {"idle", "image", "gate", "history", "undo", "status", "helm"},
                  job : {0} \cup Id]
    /\ ~Waiting <=> worker.job = 0
    /\ Waiting => /\ job[worker.job].state = "running"
                  /\ worker.pc \in {"image", "gate", "history"}
                       <=> job[worker.job].kind = "deploy"
                  /\ worker.pc \in {"undo", "status"}
                       <=> job[worker.job].kind = "rollback"

\* Automatic rollbacks of a service do not stack, whatever is retried, cancelled
\* or run again after a crash (hasActiveJob, queue/handlers/deploy.ts:64-66).
OneAutoRollback ==
    Cardinality({i \in Id : AutoJob(i) /\ job[i].state \in Active}) <= 1

\* A job that succeeds leaves on record the tag that is in the cluster, or that
\* it is not known: "record the truth", "never a fake tag", also when a retry or
\* a crash moved the cluster (queue/handlers/rollback.ts:147-148).
RecordedIsLive ==
    [][(\E i \in Id : job[i].state = "running" /\ job'[i].state = "done")
         => current' \in {Live', Revision}]_vars

\* A deploy never reaches the cluster of a degraded service, however long it was queued
\* or retried: "the degraded gate at the chokepoint" (queue/handlers/deploy.ts:43-45).
\* And one that a rollback ended (its cause) never touches the cluster again: "the image
\* is bad, so a retry would just re-apply it and race the rollback" (deploy.ts:86-88).
BadImageNotReapplied ==
    [][MovesCluster("image")
         => ~degraded /\ \A k \in Id : AutoJob(k) => job[k].cause # worker.job]_vars

\* A row and its job, as the contract sees them.
Unasked == [kind |-> "none", auto |-> FALSE, tag |-> Revision, status |-> "absent"]
AsRequest(q, r, i) ==
    IF r[i].status = "absent" THEN Unasked
    ELSE [kind |-> q[i].kind, auto |-> q[i].auto, tag |-> r[i].tag, status |-> r[i].status]
Requests == [i \in Id |-> AsRequest(job, row, i)]

\* The pipeline implements DeployContract: whatever is retried, cancelled or interrupted
\* anywhere, one request is worked on at a time, the image changes for it alone and to
\* what it asked for, a cancelled one is never begun again, only healthy tags are
\* committed by a deploy, and the degraded mark comes from failed automatic rollbacks and
\* goes with a rollback that is done, or by hand.
Contract == INSTANCE DeployContract WITH
    Request <- Id, Unknown <- Revision, rows <- Requests,
    working <- worker.job, live <- Live, record <- current
ContractSpec == Contract!Spec

===============================================================================

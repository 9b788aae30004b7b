------------------------------ MODULE DeployModes ------------------------------
(***************************************************************************)
(* How one deploy of a registry-pull Deployment moves the cluster: the     *)
(* modes rolling, recreate, canary and blue-green of deployRegistryPull,   *)
(* the steady-state gate they end in, and the rollback that undoes the     *)
(* main workload whatever the mode was.                                    *)
(*                                                                         *)
(* The service's lock lets one handler run at a time, so there is one      *)
(* handler here and requests are the choice of the next one.  Attempts,    *)
(* rows and delays are in DeployPipeline.                                  *)
(*                                                                         *)
(* Granularity.  One action is one answer of kubectl and the code up to    *)
(* the next call.  The call takes effect when it answers, or on its own    *)
(* when it reports an error all the same or the process dies waiting.      *)
(* Reads that only feed the next write are part of it.                     *)
(***************************************************************************)
EXTENDS Naturals

CONSTANTS
    Tag,            \* image tags
    First, Older,   \* what runs at the start, and what ran before it, if anything
    Flaky,          \* tags whose pods get ready and may crash later
    Broken,         \* tags whose pods never get ready
    Mode,           \* the deployModes the service may be given
    Attempts,       \* healthGate.attempts
    Threshold,      \* healthGate.successThreshold
    CanaryTicks,    \* canaryConfig.successThreshold
    AutoRollback,   \* service.autoRollback
    MayExpose,      \* may the service have an expose section?
    MaxStarts,      \* bound: handlers started
    MaxRestarts,    \* bound: restarts of a pod
    None            \* no tag

ASSUME ModesAssumption ==
    /\ {First, Older} \subseteq Tag /\ Flaky \subseteq Tag /\ Broken \subseteq Tag \ {First}
    /\ Flaky \cap Broken = {} /\ None \notin Tag
    /\ Mode \subseteq {"rolling", "recreate", "canary", "blue-green"}
    /\ Attempts \in Nat \ {0} /\ Threshold \in Nat \ {0} /\ CanaryTicks \in Nat \ {0}
    /\ AutoRollback \in BOOLEAN /\ MayExpose \in BOOLEAN
    /\ MaxStarts \in Nat /\ MaxRestarts \in Nat

Workload == {"main", "canary", "green"}

VARIABLES
    wl,         \* the Deployments
    selector,   \* what the Service selects: labels "app", "color", or "both"
    handler,    \* the running handler and the kubectl call it waits for
    current,    \* table current_deployment
    last,       \* the last handler that ended: did it succeed, and as what?
    pending,    \* the tag whose failed gate enqueued an automatic rollback, or None
    starts,     \* bound: handlers started so far
    littered    \* history: was a canary left when the deploy began, or since?

vars == <<wl, selector, handler, current, last, pending, starts, littered>>

\* prev is the revision before the live one; podTag is what the pods run.
Absent == [exists |-> FALSE, tag |-> None, prev |-> None, replicas |-> 0,
           podTag |-> None, ready |-> FALSE, restarts |-> 0,
           recreate |-> FALSE, labels |-> "app"]

Idle == [pc |-> "idle", tag |-> None, mode |-> "rolling", gated |-> FALSE,
         n |-> 0, ready |-> 0, base |-> None]

Init ==
    /\ \E p \in {Older, None} :
         wl = [w \in Workload |->
                 IF w = "main" THEN [Absent EXCEPT !.exists = TRUE, !.tag = First, !.prev = p,
                                                   !.replicas = 1, !.podTag = First,
                                                   !.ready = TRUE]
                 ELSE Absent]
    /\ selector = "app"
    /\ handler = Idle
    /\ current = First
    /\ last = [ok |-> TRUE, mode |-> "rolling"]
    /\ pending = None
    /\ starts = 0 /\ littered = FALSE

-------------------------------------------------------------------------------
(* The cluster *)

Routed == {w \in Workload : wl[w].exists /\ wl[w].labels = selector}
Serving == \E w \in Routed : wl[w].ready

\* A template that changes: the old pods stay until new ones are ready, unless the
\* strategy is Recreate.
Template(d, t) ==
    LET e == IF d.tag = t THEN d ELSE [d EXCEPT !.tag = t, !.prev = d.tag]
    IN  IF e.recreate /\ e.podTag # t
        THEN [e EXCEPT !.podTag = t, !.ready = FALSE, !.restarts = 0] ELSE e

\* kubectl apply of a sibling: created, or updated in place when it exists.
Applied(w, t, recreate, replicas, labels) ==
    LET d == IF wl[w].exists THEN wl[w]
             ELSE [Absent EXCEPT !.exists = TRUE, !.tag = t, !.podTag = t]
    IN  Template([d EXCEPT !.recreate = recreate, !.replicas = replicas,
                           !.labels = labels], t)

\* kubectl rollout status has nothing to wait for.
RolledOut(w) ==
    /\ wl[w].exists
    /\ wl[w].replicas = 0 \/ (wl[w].ready /\ wl[w].podTag = wl[w].tag)

\* Pods of the template get ready: new ones, or crashed ones that restarted.
PodsReady(w) ==
    /\ wl[w].exists /\ wl[w].replicas > 0 /\ wl[w].tag \notin Broken
    /\ ~(wl[w].ready /\ wl[w].podTag = wl[w].tag)
    /\ wl' = [wl EXCEPT ![w].ready = TRUE, ![w].podTag = wl[w].tag,
                        ![w].restarts = IF wl[w].podTag = wl[w].tag THEN @ ELSE 0]
    /\ UNCHANGED <<selector, handler, current, last, pending, starts, littered>>

Gated == handler.pc \in {"sample", "greenSample"}
Watched == IF handler.pc = "greenSample" THEN "green" ELSE "main"

PodsCrash(w) ==
    /\ wl[w].ready /\ wl[w].podTag \in Flaky /\ wl[w].restarts < MaxRestarts
    /\ wl' = [wl EXCEPT ![w].ready = FALSE, ![w].restarts = @ + 1]
    /\ UNCHANGED <<selector, handler, current, last, pending, starts, littered>>

-------------------------------------------------------------------------------
(* Manifests *)

\* Mutant: the clone keeps the app's labels.
ColorLabelsKept == "app"

\* buildColorManifest: a fresh label set.
ColorLabels == "color"

\* Mutant: the clone keeps the replicas of what it clones.
ColorReplicasKept(n) == n

\* buildColorManifest: Math.max(1, replicas); a drained blue is cloned too.
ColorReplicas(n) == IF n = 0 THEN 1 ELSE n

CanaryManifest == Applied("canary", handler.tag, wl["main"].recreate, 1, "app")

GreenManifest == Applied("green", handler.tag, wl["main"].recreate,
                         ColorReplicas(wl["main"].replicas), ColorLabels)

\* The cluster once the call that the handler waits for has taken effect.
Sent ==
    LET main == wl["main"]
        With(w, d) == [wl EXCEPT ![w] = d]
    IN  CASE handler.pc = "strategy" -> With("main", [main EXCEPT !.recreate = TRUE])
          [] handler.pc = "canaryCreate" -> With("canary", CanaryManifest)
          [] handler.pc = "canaryDelete" -> With("canary", Absent)
          [] handler.pc = "image" -> With("main", Template(main, handler.tag))
          [] handler.pc = "greenCreate" -> With("green", GreenManifest)
          [] handler.pc \in {"greenDelete", "greenAbort"} -> With("green", Absent)
          [] handler.pc = "drain" -> With("main", [main EXCEPT !.replicas = 0,
                                                     !.ready = FALSE, !.restarts = 0])
          [] handler.pc = "undo" /\ main.prev # None ->
               With("main", Template(main, main.prev))
          [] OTHER -> wl

\* patchServiceSelector: a JSON patch that replaces the selector.
Flipped(s) == ColorLabels

\* buildExposeYaml's Service, applied: keys the manifest does not name stay.
Exposed(s) == IF s = "app" THEN "app" ELSE "both"

SentSelector == CASE handler.pc = "flip" -> Flipped(selector)
                  [] handler.pc = "expose" -> Exposed(selector)
                  [] OTHER -> selector

-------------------------------------------------------------------------------
(* Handlers *)

Goto(pc) == handler' = [handler EXCEPT !.pc = pc, !.n = 0, !.ready = 0, !.base = None]

\* fail(), and the handler throws.
Fails ==
    /\ handler' = Idle
    /\ last' = [ok |-> FALSE, mode |-> handler.mode]
    /\ UNCHANGED <<current, pending>>

\* applyCurrent and the row's last status.
Commits(t) ==
    /\ handler' = Idle
    /\ current' = t
    /\ last' = [ok |-> TRUE, mode |-> handler.mode]
    /\ UNCHANGED pending

FirstCall(m) == CASE m = "recreate" -> "strategy"
                  [] m = "canary" -> "canaryCreate"
                  [] m = "blue-green" -> "greenCreate"
                  [] OTHER -> "image"

\* The service as the handler finds it: PATCH may have given it another mode, or
\* taken its health gate or its expose section away.
StartDeploy(t, m, gated, exposed) ==
    /\ handler.pc = "idle" /\ starts < MaxStarts
    /\ handler' = [Idle EXCEPT !.pc = IF exposed THEN "expose" ELSE FirstCall(m),
                               !.tag = t, !.mode = m,
                               !.gated = gated]
    /\ starts' = starts + 1
    /\ littered' = wl["canary"].exists
    /\ UNCHANGED <<wl, selector, current, last, pending>>

Quiet == UNCHANGED <<current, last, pending>>

ApplyExpose ==
    /\ handler.pc = "expose"
    /\ \/ selector' = SentSelector /\ Goto(FirstCall(handler.mode)) /\ Quiet
       \/ selector' \in {selector, SentSelector} /\ Fails
    /\ UNCHANGED <<wl, starts, littered>>

\* A write that fails the handler when kubectl reports an error.
Write(pc, next) ==
    /\ handler.pc = pc
    /\ \/ wl' = Sent /\ Goto(next) /\ Quiet
       \/ wl' \in {wl, Sent} /\ Fails
    /\ UNCHANGED <<selector, starts>>

PatchStrategy == Write("strategy", "image") /\ UNCHANGED littered
SetImage == Write("image", "rollout") /\ UNCHANGED littered
CreateGreen == Write("greenCreate", "greenRollout") /\ UNCHANGED littered

\* Its failure comes before the try whose finally deletes the canary.
CreateCanary ==
    /\ Write("canaryCreate", "observe")
    /\ littered' = (littered \/ (handler'.pc = "idle" /\ wl'["canary"].exists))

\* readyReplicas of the canary: pods of an older template count too.
CanaryReady == wl["canary"].exists /\ wl["canary"].ready

\* One tick of the soak; a read that fails counts as not ready.
Observe ==
    /\ handler.pc = "observe"
    /\ \/ /\ CanaryReady
          /\ IF handler.n + 1 < CanaryTicks
             THEN handler' = [handler EXCEPT !.n = @ + 1]
             ELSE handler' = [handler EXCEPT !.pc = "canaryDelete", !.ready = 1]
          /\ UNCHANGED last
       \/ /\ handler' = [handler EXCEPT !.pc = "canaryDelete", !.ready = 0]
          /\ last' = [ok |-> FALSE, mode |-> handler.mode]
    /\ UNCHANGED <<wl, selector, current, pending, starts, littered>>

\* Mutant: only a canary that passed is deleted.
TornDownWhenPassed == handler.ready = 1

\* The finally of runCanaryGate.
TornDown == TRUE

\* The canary is deleted, or the deletion's error ignored.
DeleteCanary ==
    /\ handler.pc = "canaryDelete"
    /\ IF TornDown THEN wl' \in {wl, Sent} ELSE wl' = wl
    /\ littered' = (littered \/ (TornDown /\ wl'["canary"].exists))
    /\ IF handler.ready = 1 THEN Goto("image") ELSE handler' = Idle
    /\ UNCHANGED <<selector, starts>> /\ Quiet

\* Mutant: nobody waits for the rollout.
GreenReadyAlways == TRUE

GreenReady == RolledOut("green")

\* After the rollout: the gate, or what follows it.
Rollout ==
    /\ handler.pc = "rollout"
    /\ \/ RolledOut("main") /\ handler.gated /\ Goto("sample") /\ Quiet
       \/ RolledOut("main") /\ ~handler.gated /\ Commits(handler.tag)
       \/ Fails
    /\ UNCHANGED <<wl, selector, starts, littered>>

GreenRollout ==
    /\ handler.pc = "greenRollout"
    /\ \/ GreenReady /\ Goto(IF handler.gated THEN "greenSample" ELSE "flip")
       \/ Goto("greenDelete")
    /\ UNCHANGED <<wl, selector, starts, littered>> /\ Quiet

-------------------------------------------------------------------------------
(* The health gate *)

\* The pods that the workload's own selector finds: the canary keeps the app's labels.
Sampled == IF Watched = "main" THEN {w \in {"main", "canary"} : wl[w].exists}
           ELSE {"green"}

SeenRestarts ==
    LET seen == {wl[w].restarts : w \in Sampled}
    IN  CHOOSE r \in seen : \A q \in seen : q <= r

\* A waiting reason or an OOM kill may be there to see.
MayBeFatal == \E w \in Sampled : ~wl[w].ready \/ wl[w].podTag # wl[w].tag

\* The restarts that the first sample saw.
Baseline(seen) == IF handler.base = None THEN seen ELSE handler.base

RestartsJumped(seen) == handler.base # None /\ seen >= handler.base + 2

SampleReady == wl[Watched].replicas > 0 /\ wl[Watched].ready

\* autoRollback: at most one is enqueued; it is for the failed tag.
EnqueuedRollback ==
    IF AutoRollback /\ pending = None THEN handler.tag ELSE pending

\* A failed gate: the deploy fails, or green is torn down first.
GateFails ==
    IF handler.pc = "sample"
    THEN /\ handler' = Idle
         /\ last' = [ok |-> FALSE, mode |-> handler.mode]
         /\ pending' = EnqueuedRollback
         /\ UNCHANGED current
    ELSE Goto("greenAbort") /\ Quiet

GatePasses == 
    IF handler.pc = "sample" THEN Commits(handler.tag) ELSE Goto("flip") /\ Quiet

LastAttempt == handler.n + 1 >= Attempts

\* One sample of runHealthGate; when the pods cannot be listed none are seen.
SampleAnswers(restarts, fatal) ==
    LET ready == IF SampleReady THEN handler.ready + 1 ELSE 0
    IN  \/ fatal /\ GateFails
        \/ RestartsJumped(restarts) /\ GateFails
        \/ /\ ~fatal /\ ~RestartsJumped(restarts)
           /\ \/ ready >= Threshold /\ GatePasses
              \/ ready < Threshold /\ LastAttempt /\ GateFails
              \/ /\ ready < Threshold /\ ~LastAttempt
                 /\ handler' = [handler EXCEPT !.n = @ + 1, !.ready = ready,
                                               !.base = Baseline(restarts)]
                 /\ Quiet

\* The workload's read fails.
SampleErrs ==
    \/ LastAttempt /\ GateFails
    \/ /\ ~LastAttempt
       /\ handler' = [handler EXCEPT !.n = @ + 1, !.ready = 0]
       /\ Quiet

Sample ==
    /\ Gated
    /\ \/ SampleAnswers(SeenRestarts, FALSE)
       \/ MayBeFatal /\ SampleAnswers(SeenRestarts, TRUE)
       \/ SampleAnswers(0, FALSE)
       \/ SampleErrs
    /\ UNCHANGED <<wl, selector, starts, littered>>

-------------------------------------------------------------------------------
(* The end of a blue-green deploy *)

Flip ==
    /\ handler.pc = "flip"
    /\ \/ selector' = SentSelector /\ Goto("drain")
       \/ selector' \in {selector, SentSelector} /\ Goto("greenDelete")
    /\ UNCHANGED <<wl, starts, littered>> /\ Quiet

\* Green goes after a failed rollout, gate or flip; the deletion's error is ignored.
DeleteGreen ==
    /\ handler.pc \in {"greenDelete", "greenAbort"}
    /\ wl' \in {wl, Sent}
    /\ handler' = Idle
    /\ last' = [ok |-> FALSE, mode |-> handler.mode]
    /\ pending' = IF handler.pc = "greenAbort" THEN EnqueuedRollback ELSE pending
    /\ UNCHANGED <<selector, current, starts, littered>>

\* A drain that fails is only noted in the steps.
Drain ==
    /\ handler.pc = "drain"
    /\ wl' \in {wl, Sent}
    /\ Commits(handler.tag)
    /\ UNCHANGED <<selector, starts, littered>>

-------------------------------------------------------------------------------
(* Rollbacks: a bare undo of the main workload, whatever the mode *)

StartRollback(tag) ==
    /\ handler.pc = "idle" /\ starts < MaxStarts
    /\ handler' = [Idle EXCEPT !.pc = "undo", !.tag = tag, !.mode = "rollback"]
    /\ starts' = starts + 1
    /\ pending' = IF tag = None THEN pending ELSE None
    /\ UNCHANGED <<wl, selector, current, last, littered>>

ManualRollback == StartRollback(None)
AutomaticRollback == pending # None /\ StartRollback(pending)

Undo == wl["main"].prev # None /\ Write("undo", "undoRollout") /\ UNCHANGED littered

\* Mutant: the image was read before the undo.
UndoneTagStale == wl["main"].prev

\* readWorkloadImageTag, after the rollout.
UndoneTag == wl["main"].tag

\* The image that the workload then has is what is recorded.
UndoRollout ==
    /\ handler.pc = "undoRollout"
    /\ \/ RolledOut("main") /\ Commits(UndoneTag)
       \/ Fails
    /\ UNCHANGED <<wl, selector, starts, littered>>

NothingToUndo ==
    /\ handler.pc = "undo" /\ wl["main"].prev = None
    /\ Fails
    /\ UNCHANGED <<wl, selector, starts, littered>>

\* The process dies; the call it waited for may still take effect.
Crash ==
    /\ handler.pc # "idle"
    /\ \/ wl' = Sent /\ selector' = SentSelector
       \/ UNCHANGED <<wl, selector>>
    /\ handler' = Idle
    /\ last' = [ok |-> FALSE, mode |-> handler.mode]
    /\ littered' = (littered \/ wl'["canary"].exists)
    /\ UNCHANGED <<current, pending, starts>>

Next ==
    \/ \E w \in Workload : PodsReady(w) \/ PodsCrash(w)
    \/ \E t \in Tag, m \in Mode, gated \in BOOLEAN, exposed \in {FALSE, MayExpose} :
         StartDeploy(t, m, gated, exposed)
    \/ ApplyExpose
    \/ ManualRollback \/ AutomaticRollback
    \/ PatchStrategy \/ SetImage \/ Rollout \/ Sample
    \/ CreateCanary \/ Observe \/ DeleteCanary
    \/ CreateGreen \/ GreenRollout \/ Flip \/ DeleteGreen \/ Drain
    \/ Undo \/ UndoRollout \/ NothingToUndo
    \/ Crash

Spec == Init /\ [][Next]_vars

-------------------------------------------------------------------------------
(* Properties *)

\* Every variable keeps to its type.
TypeOK ==
    /\ wl \in [Workload ->
                [exists : BOOLEAN, tag : Tag \cup {None}, prev : Tag \cup {None},
                 replicas : {0, 1}, podTag : Tag \cup {None}, ready : BOOLEAN,
                 restarts : 0..MaxRestarts, recreate : BOOLEAN,
                 labels : {"app", "color"}]]
    /\ selector \in {"app", "color", "both"}
    /\ handler \in [pc : {"idle", "expose", "strategy", "image", "rollout", "sample",
                          "canaryCreate", "observe", "canaryDelete",
                          "greenCreate", "greenRollout", "greenSample", "flip",
                          "drain", "greenDelete", "greenAbort", "undo", "undoRollout"},
                    tag : Tag \cup {None}, mode : Mode \cup {"rolling", "rollback"},
                    gated : BOOLEAN,
                    n : IF handler.pc = "observe" THEN 0..(CanaryTicks - 1)
                        ELSE 0..(Attempts - 1),
                    ready : 0..(Threshold + 1), base : 0..MaxRestarts \cup {None}]
    /\ current \in Tag
    /\ last \in [ok : BOOLEAN, mode : Mode \cup {"rolling", "rollback"}]
    /\ pending \in Tag \cup {None}
    /\ starts \in 0..MaxStarts
    /\ littered \in BOOLEAN

\* While the Service is on the app's labels, nothing a blue-green deploy does before
\* its flip changes which pods the Service reaches (no pre-cutover traffic split).
NoTrafficBeforeFlip ==
    [][handler.pc \in {"greenCreate", "greenRollout", "greenSample"}
       /\ selector = "app" /\ selector' = "app"
       => Routed' = Routed]_vars

\* A service whose main workload is up goes dark only because pods crash, because the
\* strategy is Recreate, or because green's pods crashed after they were looked at:
\* no step of a rolling, canary or first blue-green deploy, failed, retried or
\* interrupted as it may be, takes the last ready pods away.
StaysUp ==
    [][selector = "app" /\ wl["main"].ready /\ ~wl["main"].recreate /\ ~Serving'
       => \/ wl'["main"].restarts > wl["main"].restarts
          \/ (handler.pc = "flip" /\ wl["green"].tag \in Flaky)]_vars

\* The Service is never flipped to, or left on, a green that is scaled to zero, even
\* when the blue it was cloned from is drained.
FlippedHasReplicas ==
    selector = "color" /\ wl["green"].exists => wl["green"].replicas > 0

\* A canary outlives its deploy only when a process died, or when kubectl reported an
\* error for its creation or its deletion.
CanaryIsTornDown ==
    handler.pc = "idle" /\ wl["canary"].exists => littered

\* After a handler that succeeded, the record is the template of the workload it
\* worked on: green, behind the Service, for a blue-green deploy, main for all others.
RecordIsTheWorkload ==
    handler.pc = "idle" /\ last.ok =>
        IF last.mode = "blue-green"
        THEN selector = "color" /\ wl["green"].exists /\ wl["green"].tag = current
        ELSE wl["main"].tag = current

===============================================================================

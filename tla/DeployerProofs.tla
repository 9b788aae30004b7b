--------------------------- MODULE DeployerProofs ---------------------------
(*****************************************************************************)
(* The deployer, for any constants. Of its modes: green never takes          *)
(* traffic before its flip, and has replicas when it does; the canary does   *)
(* not outlive its deploy; the record names what the deploy left behind;     *)
(* no deploy takes a service down that its main workload serves. Inductive   *)
(* is the invariant behind all of them: what each program counter of the     *)
(* handler knows about the cluster it works on.                              *)
(* Of its sources: no manifest is applied before its image is on the nodes.  *)
(*****************************************************************************)
EXTENDS DeployModes, SourceDeploy, SequenceTheorems, TLAPS

Tags == Tag \cup {None}

Deployment ==
    [exists : BOOLEAN, tag : Tags, prev : Tags, replicas : {0, 1}, podTag : Tags,
     ready : BOOLEAN, restarts : Nat, recreate : BOOLEAN, labels : {"app", "color"}]

GreenPcs == {"greenCreate", "greenRollout", "greenSample", "flip", "drain",
             "greenDelete", "greenAbort"}
MainPcs == {"strategy", "canaryCreate", "observe", "canaryDelete", "image", "rollout",
            "sample", "undo", "undoRollout"}
Modes == Mode \cup {"rolling", "rollback"}

\* Counters and baseline may be anything here.  (TypeOK bounds them.)
Shaped ==
    /\ wl \in [Workload -> Deployment]
    /\ handler \in [pc : {"idle", "expose"} \cup GreenPcs \cup MainPcs, tag : Tags,
                    mode : Modes, gated : BOOLEAN, n : {handler.n},
                    ready : {handler.ready}, base : {handler.base}]

\* Green has replicas and a label set of its own.
GreenIsColored ==
    wl["green"].exists => wl["green"].replicas > 0 /\ wl["green"].labels = "color"

\* A canary is there while it is observed, or was left.
CanaryIsOwned ==
    wl["canary"].exists => littered \/ handler.pc \in {"observe", "canaryDelete"}

\* The blue-green steps belong to blue-green deploys, and to no others.
ModeOfPc ==
    /\ handler.pc \in GreenPcs => handler.mode = "blue-green"
    /\ handler.pc \in MainPcs => handler.mode # "blue-green"

\* From its write on, a deploy finds its tag on the workload it works on.
WorksOnItsTag ==
    /\ handler.pc \in {"rollout", "sample"} => wl["main"].tag = handler.tag
    /\ handler.pc \in {"greenRollout", "greenSample", "flip", "drain"} =>
         wl["green"].exists /\ wl["green"].tag = handler.tag
    /\ handler.pc = "drain" => selector = "color"
    /\ handler.pc = "canaryDelete" => handler.ready = 1 \/ ~last.ok

Inductive == /\ Shaped /\ GreenIsColored /\ CanaryIsOwned
             /\ ModeOfPc /\ WorksOnItsTag /\ RecordIsTheWorkload

-------------------------------------------------------------------------------
(* The cluster *)

\* A template gets its tag and keeps what is not its own.
LEMMA TemplateChanges ==
    ASSUME NEW d \in Deployment, NEW t \in Tags
    PROVE  /\ Template(d, t) \in Deployment
           /\ Template(d, t).tag = t
           /\ Template(d, t).exists = d.exists
           /\ Template(d, t).replicas = d.replicas
           /\ Template(d, t).labels = d.labels
<1> DEFINE e == IF d.tag = t THEN d ELSE [d EXCEPT !.tag = t, !.prev = d.tag]
<1>1. /\ e \in Deployment /\ e.tag = t /\ e.exists = d.exists
      /\ e.replicas = d.replicas /\ e.labels = d.labels
  BY DEF Deployment
<1>2. Template(d, t) = IF e.recreate /\ e.podTag # t
                       THEN [e EXCEPT !.podTag = t, !.ready = FALSE, !.restarts = 0] ELSE e
  BY DEF Template
<1> HIDE DEF e
<1> DEFINE f == [e EXCEPT !.podTag = t, !.ready = FALSE, !.restarts = 0]
<1>3. /\ f \in Deployment /\ f.tag = e.tag /\ f.exists = e.exists
      /\ f.replicas = e.replicas /\ f.labels = e.labels
  BY <1>1 DEF Deployment
<1>4. Template(d, t) \in {e, f}
  BY <1>2
<1> HIDE DEF f
<1> QED BY <1>1, <1>3, <1>4

LEMMA AbsentDeployment == Absent \in Deployment /\ ~Absent.exists
BY DEF Absent, Deployment, Tags

\* A sibling that is applied exists with what the manifest says.
LEMMA AppliedSibling ==
    ASSUME Shaped, NEW w \in Workload, NEW t \in Tags, NEW recreate \in BOOLEAN,
           NEW replicas \in {0, 1}, NEW labels \in {"app", "color"}
    PROVE  LET d == Applied(w, t, recreate, replicas, labels)
           IN  d \in Deployment /\ d.exists /\ d.tag = t
               /\ d.replicas = replicas /\ d.labels = labels
<1> DEFINE d == IF wl[w].exists THEN wl[w]
                ELSE [Absent EXCEPT !.exists = TRUE, !.tag = t, !.podTag = t]
           e == [d EXCEPT !.recreate = recreate, !.replicas = replicas, !.labels = labels]
<1>1. d \in Deployment /\ d.exists
  BY AbsentDeployment DEF Shaped, Deployment
<1>2. /\ e \in Deployment /\ e.exists /\ e.replicas = replicas /\ e.labels = labels
  BY <1>1 DEF Deployment
<1>3. Applied(w, t, recreate, replicas, labels) = Template(e, t)
  BY DEF Applied
<1> HIDE DEF d, e
<1> QED BY <1>2, <1>3, TemplateChanges

\* The call that the handler waits for changes the workload it is for, as it says.
LEMMA SentChanges ==
    ASSUME Shaped
    PROVE  /\ Sent \in [Workload -> Deployment]
           /\ handler.pc \notin {"canaryCreate", "canaryDelete"} =>
                Sent["canary"] = wl["canary"]
           /\ handler.pc = "canaryDelete" => ~Sent["canary"].exists
           /\ handler.pc \notin {"greenCreate", "greenDelete", "greenAbort"} =>
                Sent["green"] = wl["green"]
           /\ handler.pc \in {"greenDelete", "greenAbort"} => ~Sent["green"].exists
           /\ handler.pc = "greenCreate" =>
                /\ Sent["green"].exists /\ Sent["green"].tag = handler.tag
                /\ Sent["green"].replicas > 0 /\ Sent["green"].labels = "color"
           /\ handler.pc \notin {"image", "undo"} => Sent["main"].tag = wl["main"].tag
           /\ handler.pc = "image" => Sent["main"].tag = handler.tag
<1> DEFINE main == wl["main"]
<1>0. main \in Deployment /\ handler.tag \in Tags /\ main.prev \in Tags
  BY DEF Shaped, Workload, Deployment
<1>1. CASE handler.pc \in {"strategy", "drain"}
  <2>1. /\ [main EXCEPT !.recreate = TRUE] \in Deployment
        /\ [main EXCEPT !.recreate = TRUE].tag = main.tag
        /\ [main EXCEPT !.replicas = 0, !.ready = FALSE, !.restarts = 0] \in Deployment
        /\ [main EXCEPT !.replicas = 0, !.ready = FALSE, !.restarts = 0].tag = main.tag
    BY <1>0 DEF Deployment
  <2>2. \/ Sent = [wl EXCEPT !["main"] = [main EXCEPT !.recreate = TRUE]]
        \/ Sent = [wl EXCEPT !["main"] =
                      [main EXCEPT !.replicas = 0, !.ready = FALSE, !.restarts = 0]]
    BY <1>1 DEF Sent
  <2> QED BY <1>1, <2>1, <2>2 DEF Shaped, Workload
<1>2. CASE handler.pc = "canaryCreate"
  <2>1. CanaryManifest \in Deployment
    BY <1>0, AppliedSibling DEF CanaryManifest, Deployment, Workload
  <2>2. Sent = [wl EXCEPT !["canary"] = CanaryManifest]
    BY <1>2 DEF Sent
  <2> QED BY <1>2, <2>1, <2>2 DEF Shaped, Workload
<1>3. CASE handler.pc \in {"canaryDelete", "greenDelete", "greenAbort"}
  <2>1. \/ handler.pc = "canaryDelete" /\ Sent = [wl EXCEPT !["canary"] = Absent]
        \/ handler.pc # "canaryDelete" /\ Sent = [wl EXCEPT !["green"] = Absent]
    BY <1>3 DEF Sent
  <2> QED BY <1>3, <2>1, AbsentDeployment DEF Shaped, Workload
<1>4. CASE handler.pc = "greenCreate"
  <2>1. ColorReplicas(main.replicas) \in {0, 1} /\ ColorReplicas(main.replicas) > 0
    BY <1>0 DEF ColorReplicas, Deployment
  <2>2. /\ GreenManifest \in Deployment
        /\ GreenManifest.exists /\ GreenManifest.tag = handler.tag
        /\ GreenManifest.replicas > 0 /\ GreenManifest.labels = "color"
    BY <1>0, <2>1, AppliedSibling DEF GreenManifest, ColorLabels, Deployment, Workload
  <2>3. Sent = [wl EXCEPT !["green"] = GreenManifest]
    BY <1>4 DEF Sent
  <2> QED BY <1>4, <2>2, <2>3 DEF Shaped, Workload
<1>5. CASE handler.pc = "image"
  <2>1. Sent = [wl EXCEPT !["main"] = Template(main, handler.tag)]
    BY <1>5 DEF Sent
  <2> QED BY <1>0, <1>5, <2>1, TemplateChanges DEF Shaped, Workload
<1>6. CASE handler.pc = "undo"
  <2>1. Sent \in {wl, [wl EXCEPT !["main"] = Template(main, main.prev)]}
    BY <1>6 DEF Sent
  <2> QED BY <1>0, <1>6, <2>1, TemplateChanges DEF Shaped, Workload
<1>7. CASE handler.pc \notin {"strategy", "drain", "canaryCreate", "canaryDelete",
                             "greenDelete", "greenAbort", "greenCreate", "image", "undo"}
  <2>1. Sent = wl
    BY <1>7 DEF Sent
  <2> QED BY <1>7, <2>1 DEF Shaped
<1> QED BY <1>1, <1>2, <1>3, <1>4, <1>5, <1>6, <1>7

-------------------------------------------------------------------------------
(* The handler *)

HandlerShaped ==
    handler \in [pc : {"idle", "expose"} \cup GreenPcs \cup MainPcs, tag : Tags,
                 mode : Modes, gated : BOOLEAN, n : {handler.n},
                 ready : {handler.ready}, base : {handler.base}]

LEMMA GotoChanges ==
    ASSUME Shaped, NEW pc \in {"idle", "expose"} \cup GreenPcs \cup MainPcs, Goto(pc)
    PROVE  /\ HandlerShaped'
           /\ handler'.pc = pc /\ handler'.tag = handler.tag /\ handler'.mode = handler.mode
BY DEF Shaped, HandlerShaped, Goto

LEMMA IdleShaped ==
    ASSUME handler' = Idle
    PROVE  HandlerShaped' /\ handler'.pc = "idle"
BY DEF HandlerShaped, Idle, Tags, Modes

LEMMA InductiveInit == Init => Inductive
<1> SUFFICES ASSUME Init PROVE Inductive
  OBVIOUS
<1>0. First \in Tag /\ Older \in Tag
  BY ModesAssumption
<1> PICK p \in {Older, None} :
         wl = [w \in Workload |->
                 IF w = "main" THEN [Absent EXCEPT !.exists = TRUE, !.tag = First, !.prev = p,
                                                   !.replicas = 1, !.podTag = First,
                                                   !.ready = TRUE]
                 ELSE Absent]
  BY DEF Init
<1> DEFINE Main == [Absent EXCEPT !.exists = TRUE, !.tag = First, !.prev = p,
                                  !.replicas = 1, !.podTag = First, !.ready = TRUE]
<1>1. Main \in Deployment /\ Main.tag = First
  BY <1>0, AbsentDeployment DEF Deployment, Tags
<1>2. /\ wl = [w \in Workload |-> IF w = "main" THEN Main ELSE Absent]
      /\ handler = Idle /\ current = First /\ last = [ok |-> TRUE, mode |-> "rolling"]
  BY DEF Init
<1> HIDE DEF Main
<1>3. Shaped
  BY <1>1, <1>2, AbsentDeployment DEF Shaped, Idle, Tags, Modes
<1>4. /\ ~wl["green"].exists /\ ~wl["canary"].exists /\ wl["main"].tag = current
      /\ handler.pc = "idle"
  BY <1>1, <1>2, AbsentDeployment DEF Workload, Idle
<1>5. /\ GreenIsColored /\ CanaryIsOwned /\ ModeOfPc /\ WorksOnItsTag
  BY <1>4 DEF GreenIsColored, CanaryIsOwned, ModeOfPc, WorksOnItsTag, GreenPcs, MainPcs
<1>6. RecordIsTheWorkload
  BY <1>2, <1>4 DEF RecordIsTheWorkload
<1> QED BY <1>3, <1>5, <1>6 DEF Inductive

\* Pods that get ready or crash: no Deployment changes in what the invariant reads.
LEMMA PodsInductive ==
    ASSUME Inductive, NEW w \in Workload, PodsReady(w) \/ PodsCrash(w)
    PROVE  Inductive'
<1>1. /\ wl' \in [Workload -> Deployment]
      /\ \A x \in Workload : /\ wl'[x].exists = wl[x].exists /\ wl'[x].tag = wl[x].tag
                             /\ wl'[x].replicas = wl[x].replicas
                             /\ wl'[x].labels = wl[x].labels
  <2> DEFINE d == [wl[w] EXCEPT !.ready = TRUE, !.podTag = wl[w].tag,
                     !.restarts = IF wl[w].podTag = wl[w].tag THEN @ ELSE 0]
             e == [wl[w] EXCEPT !.ready = FALSE, !.restarts = @ + 1]
  <2>1. wl[w] \in Deployment
    BY DEF Inductive, Shaped
  <2>2. /\ d \in Deployment /\ d.exists = wl[w].exists /\ d.tag = wl[w].tag
        /\ d.replicas = wl[w].replicas /\ d.labels = wl[w].labels
    BY <2>1 DEF Deployment
  <2>3. /\ e \in Deployment /\ e.exists = wl[w].exists /\ e.tag = wl[w].tag
        /\ e.replicas = wl[w].replicas /\ e.labels = wl[w].labels
    <3>1. PICK n \in Nat : n = wl[w].restarts + 1
      BY <2>1 DEF Deployment
    <3>2. e = [wl[w] EXCEPT !.ready = FALSE, !.restarts = n]
      BY <3>1
    <3> QED BY <2>1, <3>2 DEF Deployment
  <2>4. wl' = [wl EXCEPT ![w] = d] \/ wl' = [wl EXCEPT ![w] = e]
    <3>1. CASE PodsReady(w)
      BY <2>1, <3>1 DEF PodsReady, Inductive, Shaped, Deployment
    <3>2. CASE PodsCrash(w)
      BY <2>1, <3>2 DEF PodsCrash, Inductive, Shaped, Deployment
    <3> QED BY <3>1, <3>2
  <2> HIDE DEF d, e
  <2> QED BY <2>2, <2>3, <2>4 DEF Inductive, Shaped
<1>2. UNCHANGED <<selector, handler, current, last, littered>>
  BY DEF PodsReady, PodsCrash
<1>3. {"main", "canary", "green"} = Workload
  BY DEF Workload
<1>4. Shaped'
  BY <1>1, <1>2 DEF Inductive, Shaped
<1>5. GreenIsColored' /\ CanaryIsOwned' /\ ModeOfPc'
  BY <1>1, <1>2, <1>3 DEF Inductive, GreenIsColored, CanaryIsOwned, ModeOfPc
<1>6. WorksOnItsTag' /\ RecordIsTheWorkload'
  BY <1>1, <1>2, <1>3 DEF Inductive, WorksOnItsTag, RecordIsTheWorkload
<1> QED BY <1>4, <1>5, <1>6 DEF Inductive

\* A call that took effect or not leaves green with its labels and replicas.
LEMMA EffectKeepsGreen ==
    ASSUME Inductive, wl' \in {wl, Sent}
    PROVE  wl' \in [Workload -> Deployment] /\ GreenIsColored'
<1>1. Shaped /\ GreenIsColored
  BY DEF Inductive
<1>2. Sent \in [Workload -> Deployment]
  BY <1>1, SentChanges
<1>3. Sent["green"].exists => Sent["green"].replicas > 0 /\ Sent["green"].labels = "color"
  <2>1. CASE handler.pc = "greenCreate"
    BY <1>1, <2>1, SentChanges
  <2>2. CASE handler.pc \in {"greenDelete", "greenAbort"}
    BY <1>1, <2>2, SentChanges
  <2>3. CASE handler.pc \notin {"greenCreate", "greenDelete", "greenAbort"}
    <3>1. Sent["green"] = wl["green"]
      BY <1>1, <2>3, SentChanges
    <3> QED BY <1>1, <3>1 DEF GreenIsColored
  <2> QED BY <2>1, <2>2, <2>3
<1>4. CASE wl' = wl
  BY <1>1, <1>4 DEF Shaped, GreenIsColored
<1>5. CASE wl' = Sent
  BY <1>2, <1>3, <1>5 DEF GreenIsColored
<1> QED BY <1>4, <1>5

\* Outside the steps of the canary no call brings one, or takes one away.
LEMMA EffectKeepsCanary ==
    ASSUME Inductive, wl' \in {wl, Sent}, littered' = littered,
           handler.pc \notin {"canaryCreate", "observe", "canaryDelete"}
    PROVE  CanaryIsOwned'
<1>1. Shaped /\ CanaryIsOwned
  BY DEF Inductive
<1>2. Sent["canary"] = wl["canary"]
  BY <1>1, SentChanges
<1> QED BY <1>1, <1>2 DEF CanaryIsOwned

\* A handler that ended in failure promises nothing.
LEMMA FailureInductive ==
    ASSUME Inductive, handler' = Idle, ~last'.ok, wl' \in {wl, Sent}, CanaryIsOwned'
    PROVE  Inductive'
<1>1. HandlerShaped' /\ handler'.pc = "idle"
  BY IdleShaped
<1>2. Shaped' /\ GreenIsColored'
  BY <1>1, EffectKeepsGreen DEF Shaped, HandlerShaped
<1>3. ModeOfPc' /\ WorksOnItsTag' /\ RecordIsTheWorkload'
  BY <1>1 DEF ModeOfPc, WorksOnItsTag, RecordIsTheWorkload, GreenPcs, MainPcs
<1> QED BY <1>2, <1>3 DEF Inductive

\* A write of the main workload or of green, and the step it leads to.
LEMMA WriteInductive ==
    ASSUME Inductive, NEW pc \in GreenPcs \cup MainPcs, NEW next \in GreenPcs \cup MainPcs,
           Write(pc, next), littered' = littered,
           \/ pc = "strategy" /\ next = "image"
           \/ pc = "image" /\ next = "rollout"
           \/ pc = "greenCreate" /\ next = "greenRollout"
           \/ pc = "undo" /\ next = "undoRollout"
    PROVE  Inductive'
<1>1. /\ handler.pc = pc /\ UNCHANGED selector
      /\ \/ wl' = Sent /\ Goto(next) /\ Quiet
         \/ wl' \in {wl, Sent} /\ Fails
  BY DEF Write
<1>2. CanaryIsOwned'
  BY <1>1, EffectKeepsCanary DEF GreenPcs, MainPcs
<1>3. CASE wl' \in {wl, Sent} /\ Fails
  BY <1>2, <1>3, FailureInductive DEF Fails
<1>4. CASE wl' = Sent /\ Goto(next) /\ Quiet
  <2>1. Shaped /\ ModeOfPc
    BY DEF Inductive
  <2>2. /\ HandlerShaped' /\ handler'.pc = next
        /\ handler'.tag = handler.tag /\ handler'.mode = handler.mode
    BY <1>4, <2>1, GotoChanges
  <2>3. Shaped' /\ GreenIsColored'
    BY <1>4, <2>2, EffectKeepsGreen DEF Shaped, HandlerShaped
  <2>4. ModeOfPc'
    BY <1>1, <2>1, <2>2 DEF ModeOfPc, GreenPcs, MainPcs
  <2>5. WorksOnItsTag'
    <3>1. CASE pc = "image"
      BY <1>1, <1>4, <2>1, <2>2, <3>1, SentChanges DEF WorksOnItsTag
    <3>2. CASE pc = "greenCreate"
      BY <1>1, <1>4, <2>1, <2>2, <3>2, SentChanges DEF WorksOnItsTag
    <3>3. CASE pc \in {"strategy", "undo"}
      BY <2>2, <3>3 DEF WorksOnItsTag
    <3> QED BY <3>1, <3>2, <3>3
  <2>6. RecordIsTheWorkload'
    BY <2>2 DEF RecordIsTheWorkload
  <2> QED BY <1>2, <2>3, <2>4, <2>5, <2>6 DEF Inductive
<1> QED BY <1>1, <1>3, <1>4

\* A step of the handler that leaves the cluster alone.
LEMMA QuietInductive ==
    ASSUME Inductive, UNCHANGED <<wl, littered>>, HandlerShaped', ModeOfPc', WorksOnItsTag',
           RecordIsTheWorkload',
           handler.pc \in {"observe", "canaryDelete"} => handler'.pc \in {"observe", "canaryDelete"}
    PROVE  Inductive'
BY DEF Inductive, Shaped, HandlerShaped, GreenIsColored, CanaryIsOwned

\* A deploy that succeeded, on the workload its mode is about.
LEMMA CommitInductive ==
    ASSUME Inductive, NEW t, Commits(t), wl' \in {wl, Sent}, CanaryIsOwned',
           IF handler.mode = "blue-green"
           THEN selector' = "color" /\ wl'["green"].exists /\ wl'["green"].tag = t
           ELSE wl'["main"].tag = t
    PROVE  Inductive'
<1>1. HandlerShaped' /\ handler'.pc = "idle"
  BY IdleShaped DEF Commits
<1>2. Shaped' /\ GreenIsColored'
  BY <1>1, EffectKeepsGreen DEF Shaped, HandlerShaped
<1>3. last' = [ok |-> TRUE, mode |-> handler.mode] /\ current' = t
  BY DEF Commits
<1>4. ModeOfPc' /\ WorksOnItsTag' /\ RecordIsTheWorkload'
  BY <1>1, <1>3 DEF ModeOfPc, WorksOnItsTag, RecordIsTheWorkload, GreenPcs, MainPcs
<1> QED BY <1>2, <1>4 DEF Inductive

LEMMA StartInductive ==
    ASSUME Inductive,
           \/ \E t \in Tag, m \in Mode, gated \in BOOLEAN, exposed \in {FALSE, MayExpose} :
                StartDeploy(t, m, gated, exposed)
           \/ ManualRollback \/ (pending \in Tags /\ AutomaticRollback)
    PROVE  Inductive'
<1>1. Shaped /\ GreenIsColored /\ CanaryIsOwned /\ handler.pc = "idle" /\ UNCHANGED wl
  BY DEF Inductive, StartDeploy, ManualRollback, AutomaticRollback, StartRollback
<1>2. CASE \E t \in Tag, m \in Mode, gated \in BOOLEAN, exposed \in {FALSE, MayExpose} :
             StartDeploy(t, m, gated, exposed)
  <2>1. PICK t \in Tag, m \in Mode, gated \in BOOLEAN, exposed \in {FALSE, MayExpose} :
          StartDeploy(t, m, gated, exposed)
    BY <1>2
  <2>2. /\ FirstCall(m) \in {"strategy", "canaryCreate", "greenCreate", "image"}
        /\ (FirstCall(m) = "greenCreate") = (m = "blue-green")
    BY DEF FirstCall
  <2>3. /\ handler'.pc \in {"expose", FirstCall(m)} /\ handler'.tag = t
        /\ handler'.mode = m /\ HandlerShaped'
    <3>1. PICK pc \in {"expose", FirstCall(m)} :
            handler' = [Idle EXCEPT !.pc = pc, !.tag = t, !.mode = m, !.gated = gated]
      BY <2>1 DEF StartDeploy
    <3>2. /\ handler'.pc = pc /\ handler'.tag = t /\ handler'.mode = m
          /\ handler' = [pc |-> pc, tag |-> t, mode |-> m, gated |-> gated, n |-> handler'.n,
                         ready |-> handler'.ready, base |-> handler'.base]
      BY <3>1 DEF Idle
    <3>3. /\ pc \in {"idle", "expose"} \cup GreenPcs \cup MainPcs
          /\ t \in Tags /\ m \in Modes
      BY <2>2 DEF Tags, Modes, GreenPcs, MainPcs
    <3> QED BY <3>2, <3>3 DEF HandlerShaped
  <2>4. Shaped' /\ GreenIsColored'
    BY <1>1, <2>3 DEF Shaped, HandlerShaped, GreenIsColored
  <2>5. CanaryIsOwned'
    BY <1>1, <2>1 DEF CanaryIsOwned, StartDeploy
  <2>6. ModeOfPc' /\ WorksOnItsTag' /\ RecordIsTheWorkload'
    BY <2>2, <2>3 DEF ModeOfPc, WorksOnItsTag, RecordIsTheWorkload, GreenPcs, MainPcs
  <2> QED BY <2>4, <2>5, <2>6 DEF Inductive
<1>3. CASE ManualRollback \/ (pending \in Tags /\ AutomaticRollback)
  <2>1. PICK t \in Tags : StartRollback(t)
    BY <1>3 DEF ManualRollback, AutomaticRollback, Tags
  <2>2. handler'.pc = "undo" /\ handler'.mode = "rollback" /\ HandlerShaped'
    BY <2>1 DEF StartRollback, Idle, HandlerShaped, Tags, Modes, GreenPcs, MainPcs
  <2>3. Shaped' /\ GreenIsColored' /\ CanaryIsOwned'
    BY <1>1, <2>1, <2>2 DEF Shaped, HandlerShaped, GreenIsColored, CanaryIsOwned, StartRollback
  <2>4. ModeOfPc' /\ WorksOnItsTag' /\ RecordIsTheWorkload'
    BY <2>2 DEF ModeOfPc, WorksOnItsTag, RecordIsTheWorkload, GreenPcs, MainPcs
  <2> QED BY <2>3, <2>4 DEF Inductive
<1> QED BY <1>2, <1>3

LEMMA CanaryInductive ==
    ASSUME Inductive, CreateCanary \/ Observe \/ DeleteCanary
    PROVE  Inductive'
<1>0. Shaped /\ GreenIsColored /\ CanaryIsOwned /\ ModeOfPc /\ WorksOnItsTag
  BY DEF Inductive
<1>1. CASE CreateCanary
  <2>1. CASE wl' = Sent /\ Goto("observe") /\ Quiet
    <3>1. HandlerShaped' /\ handler'.pc = "observe" /\ handler'.mode = handler.mode
      BY <1>0, <2>1, GotoChanges DEF MainPcs
    <3>2. Shaped' /\ GreenIsColored'
      BY <2>1, <3>1, EffectKeepsGreen DEF Shaped, HandlerShaped
    <3>3. CanaryIsOwned' /\ ModeOfPc' /\ WorksOnItsTag' /\ RecordIsTheWorkload'
      BY <1>0, <1>1, <3>1 DEF CreateCanary, Write, CanaryIsOwned, ModeOfPc, WorksOnItsTag,
                              RecordIsTheWorkload, GreenPcs, MainPcs
    <3> QED BY <3>2, <3>3 DEF Inductive
  <2>2. CASE wl' \in {wl, Sent} /\ Fails
    <3>1. handler' = Idle /\ handler'.pc = "idle" /\ ~last'.ok
      BY <2>2, IdleShaped DEF Fails
    <3>2. CanaryIsOwned'
      BY <1>1, <3>1 DEF CreateCanary, CanaryIsOwned
    <3> QED BY <2>2, <3>1, <3>2, FailureInductive
  <2> QED BY <1>1, <2>1, <2>2 DEF CreateCanary, Write
<1>2. CASE Observe
  <2>1. /\ handler.pc = "observe" /\ UNCHANGED <<wl, selector, littered>>
        /\ handler'.pc \in {"observe", "canaryDelete"} /\ handler'.mode = handler.mode
        /\ HandlerShaped'
        /\ handler'.pc = "canaryDelete" => handler'.ready = 1 \/ ~last'.ok
    <3>1. /\ handler.pc = "observe" /\ UNCHANGED <<wl, selector, littered>>
          /\ \/ handler' = [handler EXCEPT !.n = handler.n + 1]
             \/ handler' = [handler EXCEPT !.pc = "canaryDelete", !.ready = 1]
             \/ handler' = [handler EXCEPT !.pc = "canaryDelete", !.ready = 0] /\ ~last'.ok
      BY <1>2 DEF Observe
    <3>2. CASE handler' = [handler EXCEPT !.n = handler.n + 1]
      <4>1. PICK k : k = handler.n + 1
        OBVIOUS
      <4>2. handler' = [handler EXCEPT !.n = k]
        BY <3>2, <4>1
      <4> QED BY <1>0, <3>1, <4>2 DEF Shaped, HandlerShaped
    <3>3. CASE \/ handler' = [handler EXCEPT !.pc = "canaryDelete", !.ready = 1]
               \/ handler' = [handler EXCEPT !.pc = "canaryDelete", !.ready = 0] /\ ~last'.ok
      BY <1>0, <3>1, <3>3 DEF Shaped, HandlerShaped, MainPcs
    <3> QED BY <3>1, <3>2, <3>3
  <2>2. ModeOfPc' /\ WorksOnItsTag' /\ RecordIsTheWorkload'
    BY <1>0, <2>1 DEF ModeOfPc, WorksOnItsTag, RecordIsTheWorkload, GreenPcs, MainPcs
  <2> QED BY <2>1, <2>2, QuietInductive
<1>3. CASE DeleteCanary
  <2>1. /\ handler.pc = "canaryDelete" /\ wl' \in {wl, Sent} /\ Quiet
        /\ wl'["canary"].exists => littered'
        /\ \/ handler.ready = 1 /\ Goto("image")
           \/ handler.ready # 1 /\ handler' = Idle
    BY <1>3 DEF DeleteCanary, TornDown
  <2>2. CanaryIsOwned'
    BY <2>1 DEF CanaryIsOwned
  <2>3. CASE Goto("image")
    <3>1. HandlerShaped' /\ handler'.pc = "image" /\ handler'.mode = handler.mode
      BY <1>0, <2>3, GotoChanges DEF MainPcs
    <3>2. Shaped' /\ GreenIsColored'
      BY <2>1, <3>1, EffectKeepsGreen DEF Shaped, HandlerShaped
    <3>3. ModeOfPc' /\ WorksOnItsTag' /\ RecordIsTheWorkload'
      BY <1>0, <2>1, <3>1 DEF ModeOfPc, WorksOnItsTag, RecordIsTheWorkload, GreenPcs, MainPcs
    <3> QED BY <2>2, <3>2, <3>3 DEF Inductive
  <2>4. CASE handler.ready # 1 /\ handler' = Idle
    <3>1. ~last'.ok
      BY <1>0, <2>1, <2>4 DEF WorksOnItsTag, Quiet
    <3> QED BY <2>1, <2>2, <2>4, <3>1, FailureInductive
  <2> QED BY <2>1, <2>3, <2>4
<1> QED BY <1>1, <1>2, <1>3

\* A step from a call to the next one that leaves the cluster alone.
LEMMA GotoInductive ==
    ASSUME Inductive, NEW pc \in {"expose"} \cup GreenPcs \cup MainPcs, Goto(pc),
           UNCHANGED <<wl, littered>>,
           handler.pc \notin {"observe", "canaryDelete"}, pc # "canaryDelete",
           pc \in GreenPcs => handler.mode = "blue-green",
           pc \in MainPcs => handler.mode # "blue-green",
           pc \in {"rollout", "sample"} => wl["main"].tag = handler.tag,
           pc \in {"greenRollout", "greenSample", "flip", "drain"} =>
             wl["green"].exists /\ wl["green"].tag = handler.tag,
           pc = "drain" => selector' = "color"
    PROVE  Inductive'
<1>1. /\ HandlerShaped' /\ handler'.pc = pc
      /\ handler'.tag = handler.tag /\ handler'.mode = handler.mode
  BY GotoChanges DEF Inductive
<1>2. ModeOfPc' /\ WorksOnItsTag' /\ RecordIsTheWorkload'
  BY <1>1 DEF ModeOfPc, WorksOnItsTag, RecordIsTheWorkload, GreenPcs, MainPcs
<1> QED BY <1>1, <1>2, QuietInductive

LEMMA ExposeInductive ==
    ASSUME Inductive, ApplyExpose
    PROVE  Inductive'
<1>0. Shaped /\ handler.pc = "expose" /\ UNCHANGED <<wl, littered>>
  BY DEF Inductive, ApplyExpose
<1>1. CASE Goto(FirstCall(handler.mode))
  <2>1. /\ FirstCall(handler.mode) \in {"strategy", "canaryCreate", "greenCreate", "image"}
        /\ (FirstCall(handler.mode) = "greenCreate") = (handler.mode = "blue-green")
    BY DEF FirstCall
  <2> QED BY <1>0, <1>1, <2>1, GotoInductive DEF GreenPcs, MainPcs
<1>2. CASE Fails
  <2>1. CanaryIsOwned'
    BY <1>0, EffectKeepsCanary
  <2> QED BY <1>0, <1>2, <2>1, FailureInductive DEF Fails
<1> QED BY <1>1, <1>2 DEF ApplyExpose

LEMMA RolloutInductive ==
    ASSUME Inductive, Rollout \/ GreenRollout \/ UndoRollout \/ NothingToUndo
    PROVE  Inductive'
<1>0. Shaped /\ ModeOfPc /\ WorksOnItsTag /\ UNCHANGED <<wl, selector, littered>>
  BY DEF Inductive, Rollout, GreenRollout, UndoRollout, NothingToUndo
<1>1. handler.pc \in {"rollout", "greenRollout", "undo", "undoRollout"}
  BY DEF Rollout, GreenRollout, UndoRollout, NothingToUndo
<1>2. CanaryIsOwned'
  BY <1>0, <1>1, EffectKeepsCanary
<1>3. CASE Rollout
  <2>1. /\ handler.pc = "rollout" /\ wl["main"].tag = handler.tag
        /\ handler.mode # "blue-green"
    BY <1>0, <1>3 DEF Rollout, ModeOfPc, WorksOnItsTag, MainPcs
  <2>2. CASE Goto("sample")
    BY <1>0, <2>1, <2>2, GotoInductive DEF GreenPcs, MainPcs
  <2>3. CASE Commits(handler.tag)
    BY <1>0, <1>2, <2>1, <2>3, CommitInductive
  <2>4. CASE Fails
    BY <1>0, <1>2, <2>4, FailureInductive DEF Fails
  <2> QED BY <1>3, <2>2, <2>3, <2>4 DEF Rollout
<1>4. CASE GreenRollout
  <2>1. /\ handler.pc = "greenRollout" /\ handler.mode = "blue-green"
        /\ wl["green"].exists /\ wl["green"].tag = handler.tag
    BY <1>0, <1>4 DEF GreenRollout, ModeOfPc, WorksOnItsTag, GreenPcs
  <2>2. PICK pc \in {"greenSample", "flip", "greenDelete"} : Goto(pc)
    BY <1>4 DEF GreenRollout
  <2> QED BY <1>0, <2>1, <2>2, GotoInductive DEF GreenPcs, MainPcs
<1>5. CASE UndoRollout
  <2>1. handler.mode # "blue-green"
    BY <1>0, <1>5 DEF UndoRollout, ModeOfPc, MainPcs
  <2>2. CASE Commits(UndoneTag)
    BY <1>0, <1>2, <2>1, <2>2, CommitInductive DEF UndoneTag
  <2>3. CASE Fails
    BY <1>0, <1>2, <2>3, FailureInductive DEF Fails
  <2> QED BY <1>5, <2>2, <2>3 DEF UndoRollout
<1>6. CASE NothingToUndo
  BY <1>0, <1>2, <1>6, FailureInductive DEF NothingToUndo, Fails
<1> QED BY <1>3, <1>4, <1>5, <1>6

\* A sample fails the gate, passes it, or asks for another one.
SamplesOn == /\ Quiet /\ HandlerShaped'
             /\ handler'.pc = handler.pc /\ handler'.tag = handler.tag
             /\ handler'.mode = handler.mode

LEMMA SampleOutcome ==
    ASSUME Shaped, Sample
    PROVE  GateFails \/ GatePasses \/ SamplesOn
<1>1. ASSUME NEW n, NEW good, NEW base, Quiet,
             handler' = [handler EXCEPT !.n = n, !.ready = good, !.base = base]
      PROVE  SamplesOn
  BY <1>1 DEF SamplesOn, Shaped, HandlerShaped
<1>2. ASSUME NEW restarts, NEW fatal, SampleAnswers(restarts, fatal)
      PROVE  GateFails \/ GatePasses \/ SamplesOn
  <2>1. PICK n : n = handler.n + 1
    OBVIOUS
  <2>2. PICK good : good = IF SampleReady THEN handler.ready + 1 ELSE 0
    OBVIOUS
  <2>3. \/ GateFails \/ GatePasses
        \/ Quiet /\ handler' = [handler EXCEPT !.n = n, !.ready = good,
                                              !.base = Baseline(restarts)]
    BY <1>2, <2>1, <2>2 DEF SampleAnswers
  <2> QED BY <1>1, <2>3
<1>3. ASSUME SampleErrs
      PROVE  GateFails \/ SamplesOn
  <2>1. PICK n : n = handler.n + 1
    OBVIOUS
  <2>2. GateFails \/ (Quiet /\ handler' = [handler EXCEPT !.n = n, !.ready = 0])
    BY <1>3, <2>1 DEF SampleErrs
  <2> QED BY <2>2 DEF SamplesOn, Shaped, HandlerShaped
<1> QED BY <1>2, <1>3 DEF Sample

LEMMA SampleInductive ==
    ASSUME Inductive, Sample
    PROVE  Inductive'
<1>0. /\ Shaped /\ ModeOfPc /\ WorksOnItsTag /\ UNCHANGED <<wl, selector, littered>>
      /\ handler.pc \in {"sample", "greenSample"}
  BY DEF Inductive, Sample, Gated
<1>1. CanaryIsOwned'
  BY <1>0, EffectKeepsCanary
<1>2. CASE SamplesOn
  <2>1. ModeOfPc' /\ WorksOnItsTag' /\ RecordIsTheWorkload'
    BY <1>0, <1>2 DEF SamplesOn, ModeOfPc, WorksOnItsTag, RecordIsTheWorkload, GreenPcs, MainPcs
  <2> QED BY <1>0, <1>2, <2>1, QuietInductive DEF SamplesOn
<1>3. CASE handler.pc = "sample" /\ (GateFails \/ GatePasses)
  <2>1. wl["main"].tag = handler.tag /\ handler.mode # "blue-green"
    BY <1>0, <1>3 DEF ModeOfPc, WorksOnItsTag, MainPcs
  <2>2. CASE GateFails
    <3>1. handler' = Idle /\ ~last'.ok
      BY <1>3, <2>2 DEF GateFails
    <3> QED BY <1>0, <1>1, <3>1, FailureInductive
  <2>3. CASE GatePasses
    <3>1. Commits(handler.tag)
      BY <1>3, <2>3 DEF GatePasses
    <3> QED BY <1>0, <1>1, <2>1, <3>1, CommitInductive
  <2> QED BY <1>3, <2>2, <2>3
<1>4. CASE handler.pc = "greenSample" /\ (GateFails \/ GatePasses)
  <2>1. /\ wl["green"].exists /\ wl["green"].tag = handler.tag
        /\ handler.mode = "blue-green"
    BY <1>0, <1>4 DEF ModeOfPc, WorksOnItsTag, GreenPcs
  <2>2. PICK pc \in {"greenAbort", "flip"} : Goto(pc)
    BY <1>4 DEF GateFails, GatePasses
  <2> QED BY <1>0, <1>4, <2>1, <2>2, GotoInductive DEF GreenPcs, MainPcs
<1> QED BY <1>0, <1>2, <1>3, <1>4, SampleOutcome

LEMMA FlipInductive ==
    ASSUME Inductive, Flip
    PROVE  Inductive'
<1>1. /\ Shaped /\ handler.pc = "flip" /\ UNCHANGED <<wl, littered>>
      /\ wl["green"].exists /\ wl["green"].tag = handler.tag
      /\ handler.mode = "blue-green"
  BY DEF Inductive, Flip, ModeOfPc, WorksOnItsTag, GreenPcs
<1>2. \/ Goto("drain") /\ selector' = "color"
      \/ Goto("greenDelete")
  BY <1>1 DEF Flip, SentSelector, Flipped, ColorLabels
<1>3. CASE Goto("drain") /\ selector' = "color"
  BY <1>1, <1>3, GotoInductive DEF GreenPcs, MainPcs
<1>4. CASE Goto("greenDelete")
  BY <1>1, <1>4, GotoInductive DEF GreenPcs, MainPcs
<1> QED BY <1>2, <1>3, <1>4

LEMMA GreenEndsInductive ==
    ASSUME Inductive, DeleteGreen \/ Drain
    PROVE  Inductive'
<1>0. /\ Shaped /\ ModeOfPc /\ WorksOnItsTag /\ wl' \in {wl, Sent}
      /\ UNCHANGED <<selector, littered>> /\ handler.pc \in {"greenDelete", "greenAbort", "drain"}
  BY DEF Inductive, DeleteGreen, Drain
<1>1. CanaryIsOwned'
  BY <1>0, EffectKeepsCanary
<1>2. CASE DeleteGreen
  BY <1>0, <1>1, <1>2, FailureInductive DEF DeleteGreen
<1>3. CASE Drain
  <2>1. /\ handler.pc = "drain" /\ Commits(handler.tag) /\ selector = "color"
        /\ wl["green"].exists /\ wl["green"].tag = handler.tag
    BY <1>0, <1>3 DEF Drain, WorksOnItsTag
  <2>2. wl'["green"] = wl["green"]
    BY <1>0, <2>1, SentChanges
  <2>3. handler.mode = "blue-green"
    BY <1>0, <2>1 DEF ModeOfPc, GreenPcs
  <2> QED BY <1>0, <1>1, <2>1, <2>2, <2>3, CommitInductive
<1> QED BY <1>2, <1>3

LEMMA CrashInductive ==
    ASSUME Inductive, Crash
    PROVE  Inductive'
<1>1. /\ handler' = Idle /\ ~last'.ok /\ wl' \in {wl, Sent}
      /\ littered' = (littered \/ wl'["canary"].exists)
  BY DEF Crash
<1>2. CanaryIsOwned'
  BY <1>1 DEF CanaryIsOwned
<1> QED BY <1>1, <1>2, FailureInductive

\* The rollback that waits is for a tag that was deployed.
LEMMA PendingStep ==
    ASSUME Shaped, pending \in Tags, [Next]_vars
    PROVE  pending' \in Tags
<1>1. handler.tag \in Tags /\ EnqueuedRollback \in Tags /\ None \in Tags
  BY DEF Shaped, EnqueuedRollback, Tags
<1>2. Sample => pending' \in Tags
  <2> SUFFICES ASSUME Sample PROVE pending' \in Tags
    OBVIOUS
  <2>1. GateFails \/ GatePasses \/ SamplesOn
    BY SampleOutcome
  <2> QED BY <1>1, <2>1 DEF GateFails, GatePasses, SamplesOn, Commits, Quiet
<1>3. pending' \in {pending, EnqueuedRollback, None} \/ pending' \in Tags
  BY <1>2 DEF Next, vars, PodsReady, PodsCrash, StartDeploy, ApplyExpose, ManualRollback,
     AutomaticRollback, StartRollback, PatchStrategy, SetImage, Rollout, CreateCanary,
     Observe, DeleteCanary, CreateGreen, GreenRollout, Flip, DeleteGreen, Drain, Undo,
     UndoRollout, NothingToUndo, Crash, Write, Quiet, Fails, Commits
<1> QED BY <1>1, <1>3

IInv == Inductive /\ pending \in Tags

LEMMA InvariantStep == IInv /\ [Next]_vars => IInv'
<1> SUFFICES ASSUME IInv, [Next]_vars PROVE IInv'
  OBVIOUS
<1>0. Inductive /\ Shaped /\ pending \in Tags
  BY DEF IInv, Inductive
<1>1. pending' \in Tags
  BY <1>0, PendingStep
<1>2. ASSUME NEW w \in Workload, PodsReady(w) \/ PodsCrash(w) PROVE Inductive'
  BY <1>0, <1>2, PodsInductive
<1>3. ASSUME \/ \E t \in Tag, m \in Mode, gated \in BOOLEAN, exposed \in {FALSE, MayExpose} :
                  StartDeploy(t, m, gated, exposed)
             \/ ManualRollback \/ AutomaticRollback
      PROVE  Inductive'
  BY <1>0, <1>3, StartInductive
<1>4. ASSUME PatchStrategy \/ SetImage \/ CreateGreen \/ Undo PROVE Inductive'
  <2>1. CASE PatchStrategy
    BY <1>0, <2>1, WriteInductive DEF PatchStrategy, GreenPcs, MainPcs
  <2>2. CASE SetImage
    BY <1>0, <2>2, WriteInductive DEF SetImage, GreenPcs, MainPcs
  <2>3. CASE CreateGreen
    BY <1>0, <2>3, WriteInductive DEF CreateGreen, GreenPcs, MainPcs
  <2>4. CASE Undo
    BY <1>0, <2>4, WriteInductive DEF Undo, GreenPcs, MainPcs
  <2> QED BY <1>4, <2>1, <2>2, <2>3, <2>4
<1>5. ASSUME CreateCanary \/ Observe \/ DeleteCanary PROVE Inductive'
  BY <1>0, <1>5, CanaryInductive
<1>6. ASSUME Rollout \/ GreenRollout \/ UndoRollout \/ NothingToUndo PROVE Inductive'
  BY <1>0, <1>6, RolloutInductive
<1>7. ASSUME ApplyExpose \/ Sample \/ Flip \/ DeleteGreen \/ Drain \/ Crash PROVE Inductive'
  BY <1>0, <1>7, ExposeInductive, SampleInductive, FlipInductive, GreenEndsInductive,
     CrashInductive
<1>8. ASSUME UNCHANGED vars PROVE Inductive'
  BY <1>0, <1>8 DEF vars, Inductive, Shaped, GreenIsColored, CanaryIsOwned, ModeOfPc,
                    WorksOnItsTag, RecordIsTheWorkload
<1>9. Inductive'
  BY <1>2, <1>3, <1>4, <1>5, <1>6, <1>7, <1>8 DEF Next
<1> QED BY <1>1, <1>9 DEF IInv

LEMMA Invariant == Spec => []IInv
<1>1. Init => IInv
  BY InductiveInit DEF IInv, Init, Tags
<1> QED BY <1>1, InvariantStep, PTL DEF Spec

-------------------------------------------------------------------------------
(* What keeps a service up *)

\* Every step is one of the pods, or leaves the call without or with its effect.
LEMMA StepEffects ==
    ASSUME [Next]_vars
    PROVE  /\ wl' \in {wl, Sent} \/ \E w \in Workload : PodsReady(w) \/ PodsCrash(w)
           /\ selector' \in {selector, SentSelector}
BY DEF Next, vars, StartDeploy, ApplyExpose, ManualRollback, AutomaticRollback,
   StartRollback, PatchStrategy, SetImage, Rollout, Sample, CreateCanary, Observe,
   DeleteCanary, CreateGreen, GreenRollout, Flip, DeleteGreen, Drain, Undo, UndoRollout,
   NothingToUndo, Crash, Write, PodsReady, PodsCrash

\* The main workload is always there, behind the app's labels.
MainIsThere == wl["main"].exists /\ wl["main"].labels = "app"

\* A green that was looked at runs its template, and is ready unless it crashes at times.
GreenWasReady ==
    handler.pc \in {"greenSample", "flip"} =>
        /\ wl["green"].podTag = wl["green"].tag
        /\ wl["green"].ready \/ wl["green"].tag \in Flaky

\* Only a drain, or the strategy Recreate, takes the main workload's ready pods away.
LEMMA SentMain ==
    ASSUME Shaped, MainIsThere
    PROVE  /\ Sent["main"].exists /\ Sent["main"].labels = "app"
           /\ handler.pc # "drain" /\ ~wl["main"].recreate /\ wl["main"].ready
                => Sent["main"].ready
<1> DEFINE main == wl["main"]
<1>0. main \in Deployment /\ handler.tag \in Tags /\ main.prev \in Tags
  BY DEF Shaped, Workload, Deployment
<1>1. CASE handler.pc = "strategy"
  <2>1. Sent["main"] = [main EXCEPT !.recreate = TRUE]
    BY <1>1 DEF Sent, Shaped, Workload
  <2> QED BY <1>0, <2>1 DEF MainIsThere, Deployment
<1>2. CASE handler.pc = "drain"
  <2>1. Sent["main"] = [main EXCEPT !.replicas = 0, !.ready = FALSE, !.restarts = 0]
    BY <1>2 DEF Sent, Shaped, Workload
  <2> QED BY <1>0, <1>2, <2>1 DEF MainIsThere, Deployment
<1>3. CASE handler.pc \in {"image", "undo"}
  <2>1. ASSUME NEW t \in Tags
        PROVE  /\ Template(main, t).exists = main.exists
               /\ Template(main, t).labels = main.labels
               /\ ~main.recreate => Template(main, t).ready = main.ready
    <3>1. ~main.recreate => Template(main, t).ready = main.ready
      BY <1>0 DEF Template, Deployment
    <3> QED BY <1>0, <3>1, TemplateChanges
  <2>2. Sent["main"] \in {main, Template(main, handler.tag), Template(main, main.prev)}
    BY <1>3 DEF Sent, Shaped, Workload
  <2> QED BY <1>0, <2>1, <2>2 DEF MainIsThere
<1>4. CASE handler.pc \notin {"strategy", "drain", "image", "undo"}
  <2>1. Sent["main"] = main
    BY <1>4 DEF Sent, Shaped, Workload
  <2> QED BY <2>1 DEF MainIsThere
<1> QED BY <1>1, <1>2, <1>3, <1>4

\* Pods only come and go: a ready one stays unless it crashes.
LEMMA PodsChange ==
    ASSUME Shaped, NEW w \in Workload, PodsReady(w) \/ PodsCrash(w), NEW x \in Workload
    PROVE  /\ wl'[x].exists = wl[x].exists /\ wl'[x].labels = wl[x].labels
           /\ wl'[x].tag = wl[x].tag
           /\ wl[x].ready => wl'[x].ready \/ (/\ wl'[x].restarts > wl[x].restarts
                                              /\ wl[x].podTag \in Flaky)
           /\ wl[x].podTag = wl[x].tag => wl'[x].podTag = wl[x].tag
<1>1. wl[x] \in Deployment /\ wl[w] \in Deployment
  BY DEF Shaped
<1>2. CASE x # w
  <2>1. wl'[x] = wl[x]
    BY <1>2 DEF PodsReady, PodsCrash, Shaped
  <2> QED BY <2>1
<1>3. CASE x = w /\ PodsReady(w)
  BY <1>1, <1>3 DEF PodsReady, Shaped, Deployment
<1>4. CASE x = w /\ PodsCrash(w)
  <2>1. PICK n \in Nat : n = wl[w].restarts + 1
    BY <1>1 DEF Deployment
  <2>2. wl'[w] = [wl[w] EXCEPT !.ready = FALSE, !.restarts = n]
    BY <1>4, <2>1 DEF PodsCrash, Shaped
  <2>3. n > wl[w].restarts
    BY <1>1, <2>1 DEF Deployment
  <2>4. /\ wl'[w].exists = wl[w].exists /\ wl'[w].labels = wl[w].labels
        /\ wl'[w].tag = wl[w].tag /\ wl'[w].podTag = wl[w].podTag /\ wl'[w].restarts = n
    BY <1>1, <2>2 DEF Deployment
  <2>5. wl[w].podTag \in Flaky
    BY <1>4 DEF PodsCrash
  <2> QED BY <1>4, <2>3, <2>4, <2>5
<1> QED BY <1>2, <1>3, <1>4

\* The gate of green, and the flip, are reached from a rollout that has nothing left to
\* wait for, and leave the cluster alone.
LEMMA GateSteps ==
    ASSUME Shaped, Next, handler'.pc \in {"greenSample", "flip"}
    PROVE  \/ (\E w \in Workload : PodsReady(w) \/ PodsCrash(w)) /\ handler' = handler
           \/ /\ wl' = wl
              /\ handler.pc \in {"greenSample", "flip"} \/ RolledOut("green")
<1>a. /\ handler' # Idle
      /\ \A pc \in {"expose"} \cup GreenPcs \cup MainPcs : Goto(pc) => handler'.pc = pc
      /\ ~Fails /\ \A t : ~Commits(t)
  BY GotoChanges DEF Idle, Fails, Commits
<1>b. ASSUME NEW pc, NEW next \in {"image", "rollout", "greenRollout", "undoRollout", "observe"}
      PROVE  ~Write(pc, next)
  BY <1>a DEF Write, GreenPcs, MainPcs
<1>1. CASE \E w \in Workload : PodsReady(w) \/ PodsCrash(w)
  BY <1>1 DEF PodsReady, PodsCrash
<1>2. CASE Sample
  <2>1. GateFails \/ GatePasses \/ SamplesOn
    BY <1>2, SampleOutcome
  <2>2. handler.pc = "greenSample"
    BY <1>a, <1>2, <2>1 DEF Sample, Gated, GateFails, GatePasses, SamplesOn
  <2> QED BY <1>2, <2>2 DEF Sample
<1>3. CASE GreenRollout
  BY <1>a, <1>3 DEF GreenRollout, GreenReady, GreenPcs
<1>4. ~(PatchStrategy \/ SetImage \/ CreateGreen \/ Undo \/ CreateCanary)
  BY <1>b DEF PatchStrategy, SetImage, CreateGreen, Undo, CreateCanary
<1>5. ~DeleteCanary
  BY <1>a DEF DeleteCanary, MainPcs
<1>6. ~Observe
  <2> SUFFICES ASSUME Observe PROVE FALSE
    OBVIOUS
  <2>1. PICK n : n = handler.n + 1
    OBVIOUS
  <2>2. \/ handler' = [handler EXCEPT !.n = n]
        \/ handler' = [handler EXCEPT !.pc = "canaryDelete", !.ready = 1]
        \/ handler' = [handler EXCEPT !.pc = "canaryDelete", !.ready = 0]
    BY <2>1 DEF Observe
  <2> QED BY <2>2 DEF Observe, Shaped
<1>7. ASSUME NEW t \in Tag, NEW m \in Mode, NEW gated \in BOOLEAN,
             NEW exposed \in {FALSE, MayExpose}
      PROVE  ~StartDeploy(t, m, gated, exposed)
  BY DEF StartDeploy, FirstCall, Idle
<1>8. ~ApplyExpose
  <2>1. FirstCall(handler.mode) \in {"strategy", "canaryCreate", "greenCreate", "image"}
    BY DEF FirstCall
  <2> QED BY <1>a, <2>1 DEF ApplyExpose, GreenPcs, MainPcs
<1>9. ~(ManualRollback \/ AutomaticRollback)
  BY DEF ManualRollback, AutomaticRollback, StartRollback, Idle
<1>10. ~(Rollout \/ DeleteGreen \/ Drain \/ UndoRollout \/ NothingToUndo \/ Crash \/ Flip)
  <2>1. ~Goto("sample") /\ ~Goto("drain") /\ ~Goto("greenDelete")
    BY <1>a DEF GreenPcs, MainPcs
  <2> QED BY <1>a, <2>1 DEF Rollout, DeleteGreen, Drain, UndoRollout, NothingToUndo, Crash, Flip
<1> QED BY <1>1, <1>2, <1>3, <1>4, <1>5, <1>6, <1>7, <1>8, <1>9, <1>10 DEF Next

\* A step that moves the selector leaves the workloads alone.
LEMMA FlipKeepsGreen ==
    ASSUME [Next]_vars, handler.pc = "flip", selector' # selector
    PROVE  wl'["green"] = wl["green"]
<1>1. Sent = wl
  BY DEF Sent
<1> QED BY <1>1, StepEffects DEF PodsReady, PodsCrash

UpInv == IInv /\ MainIsThere /\ GreenWasReady

LEMMA UpStep == UpInv /\ [Next]_vars => UpInv'
<1> SUFFICES ASSUME UpInv, [Next]_vars PROVE UpInv'
  OBVIOUS
<1>0. Shaped /\ GreenIsColored /\ MainIsThere /\ GreenWasReady /\ IInv'
  BY InvariantStep DEF UpInv, IInv, Inductive
<1>1. {"main", "canary", "green"} = Workload
  BY DEF Workload
<1>2. MainIsThere'
  <2>1. CASE wl' \in {wl, Sent}
    BY <1>0, <2>1, SentMain DEF MainIsThere
  <2>2. ASSUME NEW w \in Workload, PodsReady(w) \/ PodsCrash(w) PROVE MainIsThere'
    BY <1>0, <1>1, <2>2, PodsChange DEF MainIsThere
  <2> QED BY <2>1, <2>2, StepEffects
<1>3. GreenWasReady'
  <2>1. CASE UNCHANGED vars
    BY <1>0, <2>1 DEF vars, GreenWasReady
  <2>2. ASSUME NEW w \in Workload, PodsReady(w) \/ PodsCrash(w), handler' = handler
        PROVE  GreenWasReady'
    <3>1. /\ wl'["green"].tag = wl["green"].tag
          /\ wl["green"].podTag = wl["green"].tag => wl'["green"].podTag = wl["green"].tag
          /\ wl["green"].ready => wl'["green"].ready \/ wl["green"].podTag \in Flaky
      BY <1>0, <1>1, <2>2, PodsChange
    <3> QED BY <1>0, <2>2, <3>1 DEF GreenWasReady
  <2>3. ASSUME wl' = wl, handler.pc \in {"greenSample", "flip"} \/ RolledOut("green")
        PROVE  GreenWasReady'
    <3>1. RolledOut("green") => wl["green"].ready /\ wl["green"].podTag = wl["green"].tag
      BY <1>0 DEF RolledOut, GreenIsColored
    <3> QED BY <1>0, <2>3, <3>1 DEF GreenWasReady
  <2>4. ASSUME Next, handler'.pc \in {"greenSample", "flip"} PROVE GreenWasReady'
    BY <1>0, <2>2, <2>3, <2>4, GateSteps
  <2> QED BY <2>1, <2>4 DEF GreenWasReady
<1> QED BY <1>0, <1>2, <1>3 DEF UpInv

LEMMA UpInvariant == Spec => []UpInv
<1>1. Init => UpInv
  <2> SUFFICES ASSUME Init PROVE UpInv
    OBVIOUS
  <2>1. Inductive /\ pending \in Tags /\ handler.pc = "idle"
    BY InductiveInit DEF Init, Tags, Idle
  <2>2. PICK p : wl["main"] = [Absent EXCEPT !.exists = TRUE, !.tag = First, !.prev = p,
                                             !.replicas = 1, !.podTag = First, !.ready = TRUE]
    BY DEF Init, Workload
  <2>3. MainIsThere
    BY <2>2 DEF MainIsThere, Absent
  <2> QED BY <2>1, <2>3 DEF UpInv, IInv, GreenWasReady
<1> QED BY <1>1, UpStep, PTL DEF Spec

-------------------------------------------------------------------------------
(* The theorems *)

\* The Service is never on a green without replicas, though blue-green clones a blue
\* that an earlier blue-green deploy drained (deploy-manifest.ts:86-88).
THEOREM GreenScaled == Spec => []FlippedHasReplicas
<1>1. IInv => FlippedHasReplicas
  BY DEF IInv, Inductive, GreenIsColored, FlippedHasReplicas
<1> QED BY <1>1, Invariant, PTL

\* Whatever fails, a canary that outlives its deploy was left by a crash or by an error
\* of its creation or deletion (deploy.ts:628-653).
THEOREM CanaryRemoved == Spec => []CanaryIsTornDown
<1>1. IInv => CanaryIsTornDown
  BY DEF IInv, Inductive, CanaryIsOwned, CanaryIsTornDown
<1> QED BY <1>1, Invariant, PTL

\* After any sequence of deploys and rollbacks, in any modes and with any failures, a
\* handler that succeeded recorded the tag of the workload it worked on
\* (deploy.ts:611-615, 707-716; rollback.ts:134-163).
THEOREM RecordTrue == Spec => []RecordIsTheWorkload
<1>1. IInv => RecordIsTheWorkload
  BY DEF IInv, Inductive
<1> QED BY <1>1, Invariant, PTL

\* No step of a blue-green deploy before its flip changes which Deployments the Service
\* reaches (deploy.ts:657-700).
THEOREM NoEarlyTraffic == Spec => NoTrafficBeforeFlip
<1> DEFINE Before == /\ handler.pc \in {"greenCreate", "greenRollout", "greenSample"}
                     /\ selector = "app" /\ selector' = "app"
<1>1. ASSUME IInv, [Next]_vars, Before PROVE Routed' = Routed
  <2>0. Shaped /\ GreenIsColored
    BY <1>1 DEF IInv, Inductive
  <2>1. ASSUME wl' \in {wl, Sent} PROVE Routed' = Routed
    <3>1. CASE wl' = wl
      BY <1>1, <3>1 DEF Routed
    <3>2. CASE wl' = Sent /\ handler.pc # "greenCreate"
      BY <1>1, <3>2 DEF Routed, Sent
    <3>3. CASE wl' = Sent /\ handler.pc = "greenCreate"
      <4>1. /\ wl'["canary"] = wl["canary"]
            /\ wl'["green"].labels = "color"
        BY <2>0, <3>3, SentChanges
      <4>2. wl'["main"] = wl["main"]
        BY <2>0, <3>3 DEF Sent, Shaped, Workload
      <4>3. ~(wl["green"].exists /\ wl["green"].labels = "app")
        BY <2>0 DEF GreenIsColored
      <4>4. \A w \in Workload : (wl'[w].exists /\ wl'[w].labels = "app")
                               = (wl[w].exists /\ wl[w].labels = "app")
        BY <4>1, <4>2, <4>3 DEF Workload
      <4> QED BY <1>1, <4>4 DEF Routed
    <3> QED BY <2>1, <3>1, <3>2, <3>3
  <2>2. ASSUME NEW w \in Workload, PodsReady(w) \/ PodsCrash(w) PROVE Routed' = Routed
    <3>1. \A x \in Workload : wl'[x].exists = wl[x].exists /\ wl'[x].labels = wl[x].labels
      BY <2>0, <2>2 DEF PodsReady, PodsCrash, Shaped, Deployment
    <3> QED BY <1>1, <3>1 DEF Routed
  <2>3. wl' \in {wl, Sent} \/ \E w \in Workload : PodsReady(w) \/ PodsCrash(w)
    BY <1>1, StepEffects
  <2> QED BY <2>1, <2>2, <2>3
<1>2. IInv /\ [Next]_vars =>
        [handler.pc \in {"greenCreate", "greenRollout", "greenSample"}
         /\ selector = "app" /\ selector' = "app" => Routed' = Routed]_vars
  BY <1>1
<1> QED BY <1>2, Invariant, PTL DEF Spec, NoTrafficBeforeFlip

\* While a service is on its main workload's ready pods, nothing a rolling, canary or
\* blue-green deploy does, no failure, retry, crash or rollback, takes the last of them
\* away: the service goes dark only because
\* its pods crash, because of Recreate, or because a green whose pods crash at times is
\* flipped to (deploy.ts:560-706; rollback.ts:110-133).
THEOREM ServiceStaysUp == Spec => StaysUp
<1> DEFINE Up == selector = "app" /\ wl["main"].ready /\ ~wl["main"].recreate /\ ~Serving'
           Excused == \/ wl'["main"].restarts > wl["main"].restarts
                      \/ (handler.pc = "flip" /\ wl["green"].tag \in Flaky)
<1>1. ASSUME UpInv, [Next]_vars, Up, ~Excused PROVE FALSE
  <2>0. /\ Shaped /\ GreenIsColored /\ WorksOnItsTag /\ MainIsThere /\ GreenWasReady
        /\ MainIsThere' /\ (IInv')
    BY <1>1, UpStep DEF UpInv, IInv, Inductive
  <2>1. wl'["main"].ready
    <3>1. CASE wl' \in {wl, Sent}
      BY <1>1, <2>0, <3>1, SentMain DEF WorksOnItsTag
    <3>2. ASSUME NEW w \in Workload, PodsReady(w) \/ PodsCrash(w) PROVE wl'["main"].ready
      BY <1>1, <2>0, <3>2, PodsChange DEF Workload
    <3> QED BY <1>1, <3>1, <3>2, StepEffects
  <2>2. selector' # "app"
    BY <1>1, <2>0, <2>1 DEF Serving, Routed, MainIsThere, Workload
  <2>3. handler.pc = "flip" /\ selector' = "color"
    BY <1>1, <2>2, StepEffects DEF SentSelector, Flipped, ColorLabels, Exposed
  <2>4. wl["green"].ready
    BY <1>1, <2>0, <2>3 DEF GreenWasReady
  <2>5. wl["green"].exists /\ wl["green"].labels = "color"
    BY <2>0, <2>3 DEF WorksOnItsTag, GreenIsColored
  <2>6. wl'["green"] = wl["green"]
    BY <1>1, <2>2, <2>3, FlipKeepsGreen
  <2> QED BY <1>1, <2>3, <2>4, <2>5, <2>6 DEF Serving, Routed, Workload
<1>2. UpInv /\ [Next]_vars =>
        [selector = "app" /\ wl["main"].ready /\ ~wl["main"].recreate /\ ~Serving'
         => \/ wl'["main"].restarts > wl["main"].restarts
            \/ (handler.pc = "flip" /\ wl["green"].tag \in Flaky)]_vars
  BY <1>1
<1> QED BY <1>2, UpInvariant, PTL DEF Spec, StaysUp

-------------------------------------------------------------------------------
(*****************************************************************************)
(* Source deploys: bundles that CI uploads and repositories that are synced  *)
(*                                                                           *)
(* What has to be carried along is what a handler believes of the cluster    *)
(* while others act: an import Job it counted as done put the image on its   *)
(* node, whatever happened to the Job since, and images stay.                *)
(*****************************************************************************)

\* What is left when one element of a sequence is taken out.
LEMMA TakenOut ==
    ASSUME NEW S, NEW s \in Seq(S), NEW i \in 1 .. Len(s)
    PROVE  LET r == RemoveAt(s, i)
           IN  /\ r \in Seq(S) /\ Len(r) = Len(s) - 1
               /\ \A j \in 1 .. Len(r) : \E k \in 1 .. Len(s) : r[j] = s[k]
<1> DEFINE a == SubSeq(s, 1, i - 1)
           b == SubSeq(s, i + 1, Len(s))
           r == a \o b
<1>1. /\ a \in Seq(S) /\ Len(a) = i - 1
      /\ \A j \in 1 .. i - 1 : a[j] = s[j]
  OBVIOUS
<1>2. /\ b \in Seq(S) /\ Len(b) = Len(s) - i
      /\ \A j \in 1 .. Len(s) - i : b[j] = s[i + j]
  OBVIOUS
<1>3. RemoveAt(s, i) = r
  BY DEF RemoveAt
<1> HIDE DEF a, b
<1>4. /\ r \in Seq(S) /\ Len(r) = Len(a) + Len(b)
      /\ \A j \in 1 .. Len(a) : r[j] = a[j]
      /\ \A j \in 1 .. Len(b) : r[Len(a) + j] = b[j]
  <2>1. a \in Seq(S) /\ b \in Seq(S)
    BY <1>1, <1>2
  <2> QED BY <2>1, ConcatProperties
<1> HIDE DEF r
<1>5. ASSUME NEW j \in 1 .. Len(r) PROVE \E k \in 1 .. Len(s) : r[j] = s[k]
  <2>1. CASE j < i
    BY <1>1, <1>2, <1>4, <2>1
  <2>2. CASE j >= i
    <3>1. j - Len(a) \in 1 .. Len(b) /\ j = Len(a) + (j - Len(a))
      BY <1>1, <1>2, <1>4, <2>2
    <3>2. r[j] = b[j - Len(a)] /\ b[j - Len(a)] = s[i + (j - Len(a))]
      BY <1>2, <1>4, <3>1
    <3> QED BY <1>1, <1>2, <3>1, <3>2
  <2> QED BY <2>1, <2>2
<1> QED BY <1>1, <1>2, <1>3, <1>4, <1>5

Entry == [tag : Version, tries : 0 .. MaxAttempts - 1]

\* Queue and workers are sequences of entries and of handlers.
Jobs == /\ queue \in Seq(Entry)
        /\ workers \in Seq(Worker) /\ Len(workers) <= 2
        /\ held \in BOOLEAN /\ (held => workers # <<>>)

\* The rest of the state has its types.
Places == /\ kind \in Kind
          /\ tars \in 0 .. LastVersion /\ yamls \subseteq Version
          /\ disk \in [Version -> SUBSET Part] /\ clone \in 0 .. LastVersion
          /\ ready \in (SUBSET Node) \ {{}} /\ image \in [Node -> SUBSET Version]
          /\ jobs \in [Version \X Targets -> Status]
          /\ poll \in 0 .. LastVersion
          /\ {live, others, recorded} \subseteq 0 .. LastVersion
          /\ stray \subseteq {"live", "others"} /\ events \in 0 .. MaxEvents

\* What a step leaves of the workers: who goes on keeps what it knows.
SameWork(v, w) == /\ v \in Worker
                  /\ v.at = w.at /\ v.tag = w.tag /\ v.targets = w.targets
                  /\ v.pending = w.pending /\ v.ok = w.ok
Remain == \A j \in DOMAIN workers' : \E k \in DOMAIN workers : SameWork(workers'[j], workers[k])

LEMMA EndsJobs ==
    ASSUME Jobs, NEW i \in DOMAIN workers, NEW ok \in BOOLEAN, Ends(i, ok)
    PROVE  Jobs' /\ Remain
<1>1. i \in 1 .. Len(workers) /\ workers[i] \in Worker
  BY DEF Jobs
<1>2. /\ workers' \in Seq(Worker) /\ Len(workers') = Len(workers) - 1 /\ Len(workers') <= 2
      /\ \A j \in 1 .. Len(workers') : \E k \in 1 .. Len(workers) : workers'[j] = workers[k]
  BY <1>1, TakenOut DEF Jobs, Ends
<1>3. queue' \in Seq(Entry) /\ held' \in BOOLEAN /\ (held' => i # Len(workers))
  <2>1. Again(workers[i]) \in Seq(Entry)
    <3>1. Retried(workers[i]) => [tag |-> workers[i].tag, tries |-> workers[i].tries] \in Entry
      BY <1>1, SourceAssumption DEF Retried, Worker, Entry
    <3> QED BY <3>1 DEF Again, Jobs
  <2> QED BY <2>1 DEF Ends, Settles, Holds, Jobs
<1>4. DOMAIN workers' = 1 .. Len(workers') /\ DOMAIN workers = 1 .. Len(workers)
  BY <1>2 DEF Jobs
<1>5. held' => workers' # <<>>
  BY <1>1, <1>2, <1>3
<1> QED BY <1>2, <1>3, <1>4, <1>5, ElementOfSeq DEF Jobs, Remain, SameWork

LEMMA BecomesJobs ==
    ASSUME Jobs, NEW i \in DOMAIN workers, NEW w \in Worker, Becomes(i, w)
    PROVE  /\ Jobs' /\ DOMAIN workers' = DOMAIN workers /\ workers'[i] = w
           /\ \A j \in DOMAIN workers : j # i => workers'[j] = workers[j]
<1>1. /\ workers' = [workers EXCEPT ![i] = w] /\ UNCHANGED <<held, queue>>
      /\ workers \in Seq(Worker) /\ i \in 1 .. Len(workers)
  BY DEF Becomes, Jobs
<1>2. workers' \in Seq(Worker) /\ Len(workers') = Len(workers)
  BY <1>1
<1> QED BY <1>1, <1>2 DEF Jobs

\* Whoever records beats the older ones: nothing else of them changes.
LEMMA FinishJobs ==
    ASSUME Jobs, NEW i \in DOMAIN workers, NEW ok \in BOOLEAN, Finish(i, ok)
    PROVE  Jobs' /\ Remain /\ recorded' \in {recorded, workers[i].sha}
<1> DEFINE left == RemoveAt(workers, i)
           beaten == [j \in DOMAIN left |->
                        IF j < i THEN [left[j] EXCEPT !.beaten = TRUE] ELSE left[j]]
<1>1. i \in 1 .. Len(workers) /\ workers[i] \in Worker
  BY DEF Jobs
<1>2. /\ left \in Seq(Worker) /\ Len(left) = Len(workers) - 1 /\ Len(left) <= 2
      /\ \A j \in 1 .. Len(left) : \E k \in 1 .. Len(workers) : left[j] = workers[k]
  BY <1>1, TakenOut DEF Jobs
<1>3. /\ Settles(i, Records(ok)) /\ workers' \in {left, beaten}
      /\ recorded' \in {recorded, workers[i].sha}
  BY DEF Finish
<1> HIDE DEF left
<1>4. queue' \in Seq(Entry) /\ held' \in BOOLEAN /\ (held' => i # Len(workers))
  <2>1. Again(workers[i]) \in Seq(Entry)
    <3>1. Retried(workers[i]) => [tag |-> workers[i].tag, tries |-> workers[i].tries] \in Entry
      BY <1>1, SourceAssumption DEF Retried, Worker, Entry
    <3> QED BY <3>1 DEF Again, Jobs
  <2> QED BY <2>1, <1>3 DEF Settles, Holds, Jobs
<1>5. DOMAIN left = 1 .. Len(left) /\ DOMAIN workers = 1 .. Len(workers)
  BY <1>2 DEF Jobs
<1>6. \A j \in 1 .. Len(left) : SameWork(left[j], left[j]) /\ SameWork(beaten[j], left[j])
  <2> SUFFICES ASSUME NEW j \in 1 .. Len(left)
               PROVE  SameWork(left[j], left[j]) /\ SameWork(beaten[j], left[j])
    OBVIOUS
  <2>1. left[j] \in Worker
    BY <1>2
  <2>2. beaten[j] \in {left[j], [left[j] EXCEPT !.beaten = TRUE]}
    BY <1>5
  <2> HIDE DEF beaten
  <2> QED BY <2>1, <2>2 DEF SameWork, Worker
<1>7. /\ beaten \in Seq(Worker) /\ Len(beaten) = Len(left) /\ DOMAIN beaten = 1 .. Len(left)
  <2>1. beaten \in [1 .. Len(left) -> Worker] /\ Len(left) \in Nat
    BY <1>2, <1>5, <1>6 DEF SameWork
  <2> HIDE DEF beaten
  <2> QED BY <2>1, SeqDef
<1> HIDE DEF beaten
<1>8. held' => workers' # <<>>
  BY <1>1, <1>2, <1>3, <1>4, <1>7
<1> QED BY <1>2, <1>3, <1>4, <1>5, <1>6, <1>7, <1>8 DEF Jobs, Remain

\* What an import Job that is done says of its node; of one that is not pinned, only
\* that some node has the image.
Reached(v, t, img) == IF t = Unpinned THEN \E n \in Node : v \in img[n] ELSE v \in img[t]
JobsTell == \A v \in Version, t \in Targets : jobs[<<v, t>>] = "done" => Reached(v, t, image)

\* What a handler knows at each of its steps.
Good(w, k, img) ==
    /\ w.at = "import" => k = "local"
    /\ w.at \in {"clone", "rev"} => k = "git"
    /\ w.at \in {"list", "clear", "create", "poll", "clean"} => k \in {"remote", "scoped"}
    /\ w.at \in {"clear", "create", "poll", "clean", "apply", "rest"} =>
          /\ k = "remote" => w.targets \subseteq Node
          /\ k = "scoped" => w.targets = {Unpinned}
    /\ w.at \in {"download", "list", "clear", "create", "poll"} => ~w.ok
    /\ w.at = "poll" => \A t \in w.targets \ w.pending : Reached(w.tag, t, img)
    /\ w.at = "clean" /\ w.ok => \A t \in w.targets : Reached(w.tag, t, img)
    /\ w.at \in {"apply", "rest"} =>
          /\ k = "local" => w.tag \in img[Home]
          /\ k \in {"remote", "scoped"} => \A t \in w.targets : Reached(w.tag, t, img)
AllGood == \A j \in DOMAIN workers : Good(workers[j], kind, image)

Grown == kind' = kind /\ \A n \in Node : image[n] \subseteq image'[n]
\* Inductive: types, what a Job that is done says of its node, and what a handler knows.
SInv == Jobs /\ Places /\ JobsTell /\ AllGood

LEMMA ReachedStays ==
    ASSUME Grown, NEW v, NEW t \in Targets, Reached(v, t, image)
    PROVE  Reached(v, t, image')
BY DEF Reached, Grown, Targets

LEMMA GoodStays ==
    ASSUME Grown, NEW v \in Worker, NEW w \in Worker,
           SameWork(v, w), Good(w, kind, image)
    PROVE  Good(v, kind', image')
<1>1. \A t \in v.targets : Reached(w.tag, t, image) => Reached(v.tag, t, image')
  BY ReachedStays DEF SameWork, Worker
<1>2. Home \in Node /\ image[Home] \subseteq image'[Home] /\ kind' = kind
  BY SourceAssumption DEF Grown
<1> QED BY <1>1, <1>2 DEF Good, SameWork

LEMMA OthersGood ==
    ASSUME Jobs, AllGood, Grown, Remain, DOMAIN workers' = 1 .. Len(workers')
    PROVE  AllGood'
<1> SUFFICES ASSUME NEW j \in DOMAIN workers' PROVE Good(workers'[j], kind', image')
  BY DEF AllGood
<1>1. PICK k \in DOMAIN workers : SameWork(workers'[j], workers[k])
  BY DEF Remain
<1>2. workers[k] \in Worker /\ workers'[j] \in Worker
  BY <1>1, ElementOfSeq DEF Jobs, SameWork
<1>3. Good(workers[k], kind, image)
  BY DEF AllGood
<1> QED BY <1>1, <1>2, <1>3, GoodStays

\* One worker goes on, the others stay.
LEMMA GoesGood ==
    ASSUME Jobs, AllGood, Grown, NEW i \in DOMAIN workers,
           NEW w \in Worker, Becomes(i, w), Good(w, kind, image')
    PROVE  Jobs' /\ AllGood'
<1>1. /\ Jobs' /\ DOMAIN workers' = DOMAIN workers /\ workers'[i] = w
      /\ \A j \in DOMAIN workers : j # i => workers'[j] = workers[j]
  BY BecomesJobs
<1> SUFFICES ASSUME NEW j \in DOMAIN workers' PROVE Good(workers'[j], kind', image')
  BY <1>1 DEF AllGood
<1>2. CASE j = i
  BY <1>1, <1>2 DEF Grown
<1>3. CASE j # i
  <2>1. workers'[j] = workers[j] /\ workers[j] \in Worker /\ Good(workers[j], kind, image)
    BY <1>1, <1>3, ElementOfSeq DEF Jobs, AllGood
  <2>2. SameWork(workers'[j], workers[j])
    BY <2>1 DEF SameWork
  <2> QED BY <2>1, <2>2, GoodStays
<1> QED BY <1>2, <1>3

\* One worker stops.
LEMMA EndsGood ==
    ASSUME Jobs, AllGood, Grown, NEW i \in DOMAIN workers,
           NEW ok \in BOOLEAN, Ends(i, ok) \/ Finish(i, ok)
    PROVE  Jobs' /\ AllGood'
<1>1. Jobs' /\ Remain
  BY EndsJobs, FinishJobs
<1>2. DOMAIN workers' = 1 .. Len(workers')
  BY <1>1 DEF Jobs
<1> QED BY <1>1, <1>2, OthersGood

LEMMA StillGood ==
    ASSUME Jobs, AllGood, Grown, UNCHANGED workers
    PROVE  AllGood'
<1>1. Remain
  BY ElementOfSeq DEF Remain, SameWork, Jobs
<1> QED BY <1>1, OthersGood DEF Jobs

LEMMA TellStays ==
    ASSUME JobsTell, Grown,
           \A v \in Version, t \in Targets :
               jobs'[<<v, t>>] = "done" => jobs[<<v, t>>] = "done"
    PROVE  JobsTell'
BY ReachedStays DEF JobsTell

LEMMA SInit ==
    ASSUME SourceInit PROVE SInv
<1>1. Jobs
  <2>1. queue = <<>> /\ workers = <<>> /\ held = FALSE
    BY DEF SourceInit
  <2>2. <<>> \in Seq(Entry) /\ <<>> \in Seq(Worker) /\ Len(<<>>) = 0
    BY EmptySeq
  <2>3. Len(workers) <= 2
    BY <2>1, <2>2
  <2>4. queue \in Seq(Entry) /\ workers \in Seq(Worker)
    BY <2>1, <2>2
  <2> QED BY <2>1, <2>3, <2>4 DEF Jobs
<1>2. Places
  <2>1. LastVersion \in Nat \ {0} /\ MaxEvents \in Nat /\ 1 \in Version /\ Home \in Node
    BY SourceAssumption DEF Version
  <2>2. jobs \in [Version \X Targets -> Status]
    BY DEF SourceInit, Status
  <2>3. image \in [Node -> SUBSET Version] /\ disk \in [Version -> SUBSET Part]
    BY <2>1 DEF SourceInit
  <2>4. ready \in (SUBSET Node) \ {{}} /\ kind \in Kind /\ yamls \subseteq Version
    BY <2>1 DEF SourceInit
  <2> QED BY <2>1, <2>2, <2>3, <2>4 DEF SourceInit, Places
<1>3. JobsTell
  BY DEF SourceInit, JobsTell
<1>4. AllGood
  BY DEF SourceInit, AllGood
<1> QED BY <1>1, <1>2, <1>3, <1>4 DEF SInv

\* CI, the poller, requests, claims and lapses.
LEMMA SRequests ==
    ASSUME SInv,
           \/ PublishTar \/ PollLooks \/ PollDecides \/ PollDies \/ Lapse
           \/ \E v \in Version : PublishManifests(v) \/ Request(v)
           \/ \E k \in DOMAIN queue : Claim(k)
    PROVE  SInv'
<1> USE DEF SInv
<1>1. LastVersion \in Nat \ {0} /\ MaxEvents \in Nat /\ MaxAttempts \in Nat \ {0}
  BY SourceAssumption
<1>2. UNCHANGED <<kind, image, jobs>> /\ Grown
  BY DEF PublishTar, PollLooks, PollDecides, PollDies, Lapse,
         PublishManifests, Request, Claim, cluster, Grown
<1>3. JobsTell'
  BY <1>2, TellStays
<1>4. Places'
  <2>1. CASE PublishTar
    BY <1>1, <2>1 DEF PublishTar, cluster, applied, Places
  <2>2. CASE PollLooks
    BY <1>1, <2>2 DEF PollLooks, Newest, upstream, cluster, applied, Places
  <2>3. CASE PollDecides
    BY <1>1, <2>3 DEF PollDecides, upstream, cluster, applied, Places
  <2>4. CASE PollDies
    BY <1>1, <2>4 DEF PollDies, Event, upstream, cluster, applied, Places
  <2>5. CASE Lapse
    BY <1>1, <2>5 DEF Lapse, Event, upstream, cluster, applied, Places
  <2>6. ASSUME NEW v \in Version, PublishManifests(v) PROVE Places'
    BY <1>1, <2>6 DEF PublishManifests, cluster, applied, Places
  <2>7. ASSUME NEW v \in Version, Request(v) PROVE Places'
    BY <1>1, <2>7 DEF Request, Event, upstream, cluster, applied, Places
  <2>8. ASSUME NEW k \in DOMAIN queue, Claim(k) PROVE Places'
    BY <1>1, <2>8 DEF Claim, upstream, cluster, applied, Places
  <2> QED BY <2>1, <2>2, <2>3, <2>4, <2>5, <2>6, <2>7, <2>8
<1>5. Jobs' /\ AllGood'
  <2>1. CASE PublishTar \/ PollLooks \/ PollDies
             \/ \E v \in Version : PublishManifests(v)
    <3>1. UNCHANGED <<queue, workers, held>>
      BY <2>1 DEF PublishTar, PollLooks, PollDies, PublishManifests
    <3> QED BY <1>2, <3>1, StillGood DEF Jobs
  <2>2. CASE PollDecides
    <3>1. poll # 0 => [tag |-> poll, tries |-> 0] \in Entry
      BY <1>1 DEF Places, Entry, Version
    <3>2. UNCHANGED <<workers, held>> /\ queue' \in Seq(Entry)
      BY <2>2, <3>1 DEF PollDecides, Jobs
    <3> QED BY <1>2, <3>2, StillGood DEF Jobs
  <2>3. CASE Lapse
    <3>1. Again(Last(workers)) \in Seq(Entry)
      <4>1. workers # <<>>
        BY <2>3 DEF Lapse, Jobs
      <4>2. Last(workers) \in Worker
        BY <4>1, ElementOfSeq DEF Jobs, Last
      <4>3. Retried(Last(workers)) =>
               [tag |-> Last(workers).tag, tries |-> Last(workers).tries] \in Entry
        BY <1>1, <4>2 DEF Retried, Worker, Entry
      <4> QED BY <4>3 DEF Again, Jobs
    <3>2. UNCHANGED workers /\ held' = FALSE /\ queue' \in Seq(Entry)
      BY <2>3, <3>1 DEF Lapse
    <3> QED BY <1>2, <3>2, StillGood DEF Jobs
  <2>4. ASSUME NEW v \in Version, Request(v) PROVE Jobs' /\ AllGood'
    <3>1. [tag |-> v, tries |-> 0] \in Entry
      BY <1>1 DEF Entry
    <3>2. UNCHANGED <<workers, held>> /\ queue' \in Seq(Entry)
      BY <2>4, <3>1 DEF Request, Jobs
    <3> QED BY <1>2, <3>2, StillGood DEF Jobs
  <2>5. ASSUME NEW k \in DOMAIN queue, Claim(k) PROVE Jobs' /\ AllGood'
    <3> DEFINE w == [at |-> "download", tag |-> queue[k].tag, sha |-> queue[k].tag,
                     tries |-> queue[k].tries + 1, targets |-> {}, pending |-> {},
                     ok |-> FALSE, beaten |-> FALSE]
    <3>1. k \in 1 .. Len(queue) /\ queue[k] \in Entry
      BY ElementOfSeq DEF Jobs
    <3>2. w \in Worker
      BY <1>1, <3>1 DEF Entry, Worker, Version
    <3>3. Good(w, kind, image)
      BY DEF Good
    <3>4. queue' \in Seq(Entry)
      BY <2>5, <3>1, TakenOut DEF Claim, Jobs
    <3>5. workers' = Append(workers, w) /\ held' = TRUE /\ Len(workers) < 2
      BY <2>5 DEF Claim
    <3> HIDE DEF w
    <3>6. /\ workers' \in Seq(Worker) /\ Len(workers') = Len(workers) + 1
          /\ workers'[Len(workers) + 1] = w
          /\ \A j \in 1 .. Len(workers) : workers'[j] = workers[j]
      BY <3>2, <3>5, AppendProperties DEF Jobs
    <3>7. Jobs'
      BY <3>4, <3>5, <3>6 DEF Jobs
    <3>8. ASSUME NEW j \in DOMAIN workers' PROVE Good(workers'[j], kind', image')
      <4>1. j \in 1 .. Len(workers) + 1 /\ Len(workers) \in Nat /\ DOMAIN workers = 1 .. Len(workers)
        BY <3>6 DEF Jobs
      <4>2. CASE j = Len(workers) + 1
        BY <1>2, <3>3, <3>6, <4>2
      <4>3. CASE j \in DOMAIN workers
        BY <1>2, <3>6, <4>1, <4>3 DEF AllGood
      <4> QED BY <4>1, <4>2, <4>3
    <3> QED BY <3>7, <3>8 DEF AllGood
  <2> QED BY <2>1, <2>2, <2>3, <2>4, <2>5
<1> QED BY <1>3, <1>4, <1>5

\* The steps that end a worker, whatever they leave behind.
LEMMA SEnds ==
    ASSUME SInv, NEW i \in DOMAIN workers, Ends(i, FALSE),
           UNCHANGED <<kind, image>>, Places',
           \A v \in Version, t \in Targets :
               jobs'[<<v, t>>] = "done" => jobs[<<v, t>>] = "done"
    PROVE  SInv'
<1>1. Grown
  BY DEF Grown
<1>2. Jobs' /\ AllGood'
  BY <1>1, EndsGood DEF SInv
<1> QED BY <1>1, <1>2, TellStays DEF SInv

\* The bundle: its download and the import on hyper's own node.
LEMMA SBundle ==
    ASSUME SInv, NEW i \in DOMAIN workers,
           Download(i) \/ DownloadBreaks(i) \/ ImportLocally(i)
    PROVE  SInv'
<1>1. /\ LastVersion \in Nat \ {0} /\ MaxEvents \in Nat /\ Home \in Node
      /\ workers[i] \in Worker /\ Good(workers[i], kind, image)
  BY ElementOfSeq, SourceAssumption DEF SInv, Jobs, AllGood
<1>2. CASE Download(i)
  <2>1. UNCHANGED <<kind, image, jobs>> /\ Grown
    BY <1>2 DEF Download, cluster, Grown
  <2>2. Places'
    <3>1. disk' \in [Version -> SUBSET Part]
      BY <1>1, <1>2 DEF Download, Listed, Worker, SInv, Places
    <3> QED BY <1>2, <3>1 DEF Download, upstream, cluster, applied, SInv, Places
  <2>3. CASE Ends(i, FALSE)
    BY <2>1, <2>2, <2>3, SEnds
  <2>4. CASE Goes(i, ImageLoad)
    <3> DEFINE w == [workers[i] EXCEPT !.at = ImageLoad]
    <3>1. w \in Worker /\ w.at = ImageLoad /\ ImageLoad \in {"import", "list"}
      BY <1>1 DEF ImageLoad, Worker
    <3>2. workers[i].at = "download" /\ kind # "git" /\ w.ok = workers[i].ok
      BY <1>1, <1>2 DEF Download, Worker
    <3>3. Good(w, kind, image')
      <4>1. kind \in Kind
        BY DEF SInv, Places
      <4> QED BY <1>1, <3>1, <3>2, <4>1 DEF Good, ImageLoad, Kind
    <3>4. Becomes(i, w)
      BY <2>4 DEF Goes
    <3> HIDE DEF w
    <3>5. Jobs' /\ AllGood'
      BY <2>1, <3>1, <3>3, <3>4, GoesGood DEF SInv
    <3> QED BY <2>1, <2>2, <3>5, TellStays DEF SInv
  <2> QED BY <1>2, <2>3, <2>4 DEF Download
<1>3. CASE DownloadBreaks(i)
  <2>1. UNCHANGED <<kind, image, jobs>> /\ Ends(i, FALSE)
    BY <1>3 DEF DownloadBreaks, cluster
  <2>2. Places'
    <3>1. disk' \in [Version -> SUBSET Part]
      BY <1>1, <1>3 DEF DownloadBreaks, Listed, Worker, SInv, Places
    <3> QED BY <1>1, <1>3, <3>1
        DEF DownloadBreaks, Event, upstream, cluster, applied, SInv, Places
  <2> QED BY <2>1, <2>2, SEnds
<1>4. CASE ImportLocally(i)
  <2> DEFINE w == [workers[i] EXCEPT !.at = "apply"]
  <2>1. w \in Worker /\ w.at = "apply" /\ w.tag = workers[i].tag /\ w.tag \in Version
    BY <1>1 DEF Worker
  <2>2. /\ kind = "local" /\ kind' = kind /\ jobs' = jobs
        /\ image' = [image EXCEPT ![Home] = @ \cup {workers[i].tag}]
        /\ image \in [Node -> SUBSET Version]
    BY <1>1, <1>4 DEF ImportLocally, Good, SInv, Places
  <2>3. Becomes(i, w)
    BY <1>4 DEF ImportLocally, Goes
  <2> HIDE DEF w
  <2>4. Grown /\ w.tag \in image'[Home] /\ image' \in [Node -> SUBSET Version]
    BY <1>1, <2>1, <2>2 DEF Grown
  <2>5. Good(w, kind, image')
    BY <2>1, <2>2, <2>4 DEF Good
  <2>6. Jobs' /\ AllGood'
    BY <2>1, <2>3, <2>4, <2>5, GoesGood DEF SInv
  <2>7. Places'
    BY <1>4, <2>4 DEF ImportLocally, upstream, applied, SInv, Places
  <2> QED BY <2>2, <2>4, <2>6, <2>7, TellStays DEF SInv
<1> QED BY <1>2, <1>3, <1>4

\* git-sync, and the calls that break.
LEMMA SGit ==
    ASSUME SInv, NEW i \in DOMAIN workers,
           \/ Wipe(i) \/ Clone(i) \/ RevParse(i)
           \/ CallBreaks(i) \/ HandlerDies(i)
    PROVE  SInv'
<1>1. /\ LastVersion \in Nat \ {0} /\ MaxEvents \in Nat /\ Home \in Node
      /\ workers[i] \in Worker /\ Good(workers[i], kind, image)
  BY ElementOfSeq, SourceAssumption DEF SInv, Jobs, AllGood
<1>2. UNCHANGED <<kind, image, jobs, tars, yamls, disk, ready, poll, live, others, stray, recorded>>
  BY DEF Wipe, Clone, RevParse, CallBreaks, HandlerDies, upstream, cluster,
         applied
<1>3. Grown /\ JobsTell'
  BY <1>2, TellStays DEF Grown, SInv
<1>4. clone' \in {clone, 0, tars}
  <2>1. RevParse(i) => clone' = clone
    BY DEF RevParse
  <2> QED BY <2>1 DEF Wipe, Clone, CallBreaks, HandlerDies
<1>5. Calm \/ Event
  <2>1. RevParse(i) => Calm \/ Event
    BY DEF RevParse
  <2> QED BY <2>1 DEF Wipe, Clone, CallBreaks, Throws, HandlerDies, Calm
<1>6. Places'
  <2>1. clone' \in 0 .. LastVersion /\ events' \in 0 .. MaxEvents
    BY <1>1, <1>4, <1>5 DEF Calm, Event, SInv, Places
  <2> QED BY <1>2, <2>1 DEF SInv, Places
<1>7. CASE Ends(i, FALSE)
  BY <1>2, <1>6, <1>7, SEnds
<1>8. ASSUME NEW w \in Worker, Becomes(i, w), Good(w, kind, image) PROVE SInv'
  BY <1>2, <1>3, <1>6, <1>8, GoesGood DEF SInv
<1>9. CASE Wipe(i)
  <2>1. [workers[i] EXCEPT !.at = "clone"] \in Worker
    BY <1>1 DEF Worker
  <2>2. Good([workers[i] EXCEPT !.at = "clone"], kind, image)
    BY <1>1, <1>9 DEF Wipe, Good, Worker
  <2> QED BY <1>8, <1>9, <2>1, <2>2 DEF Wipe, Goes
<1>10. CASE Clone(i)
  <2>1. [workers[i] EXCEPT !.at = "rev"] \in Worker
    BY <1>1 DEF Worker
  <2>2. Good([workers[i] EXCEPT !.at = "rev"], kind, image)
    BY <1>1, <1>10 DEF Clone, Good, Worker
  <2> QED BY <1>7, <1>8, <1>10, <2>1, <2>2 DEF Clone, Goes
<1>11. CASE RevParse(i)
  <2>1. PICK rev \in {clone, 0} :
            Ends(i, FALSE) \/ Becomes(i, [workers[i] EXCEPT !.at = "apply", !.sha = rev])
    BY <1>11 DEF RevParse
  <2>2. [workers[i] EXCEPT !.at = "apply", !.sha = rev] \in Worker
    <3>1. rev \in 0 .. LastVersion
      BY <1>1 DEF SInv, Places
    <3> QED BY <1>1, <3>1 DEF Worker
  <2>3. Good([workers[i] EXCEPT !.at = "apply", !.sha = rev], kind, image)
    BY <1>1, <1>11 DEF RevParse, Good, Worker
  <2> QED BY <1>7, <1>8, <2>1, <2>2, <2>3
<1> QED BY <1>7, <1>9, <1>10, <1>11 DEF CallBreaks, Throws, HandlerDies

\* The apply and the record.
LEMMA SApply ==
    ASSUME SInv, NEW i \in DOMAIN workers,
           ApplyDeployment(i) \/ ApplyBreaks(i) \/ ApplyRest(i) \/ RestBreaks(i)
    PROVE  SInv'
<1>1. /\ LastVersion \in Nat \ {0} /\ MaxEvents \in Nat /\ Home \in Node
      /\ workers[i] \in Worker /\ Good(workers[i], kind, image)
  BY ElementOfSeq, SourceAssumption DEF SInv, Jobs, AllGood
<1>2. UNCHANGED <<kind, image, jobs, tars, yamls, disk, clone, ready, poll>>
  BY DEF ApplyDeployment, ApplyBreaks, ApplyRest, RestBreaks, upstream, cluster
<1>3. Grown /\ JobsTell'
  BY <1>2, TellStays DEF Grown, SInv
<1>4. events' \in 0 .. MaxEvents
  <2>1. events' = events \/ Event
    BY DEF ApplyDeployment, ApplyBreaks, ApplyRest, RestBreaks
  <2> QED BY <1>1, <2>1 DEF Event, SInv, Places
<1>5. Manifests(workers[i]) \in 0 .. LastVersion /\ workers[i].tag \in 0 .. LastVersion
  BY <1>1 DEF Manifests, Worker, Version, SInv, Places
<1>6. ASSUME NEW parts \in SUBSET {"live", "others"}, Stray(i, parts)
      PROVE  stray' \subseteq {"live", "others"}
  BY <1>6 DEF Stray, SInv, Places
<1>7. ASSUME Applies(i)
      PROVE  {live', others'} \subseteq 0 .. LastVersion /\ stray' \subseteq {"live", "others"}
  <2>1. {live', others'} \subseteq 0 .. LastVersion
    BY <1>5, <1>7 DEF Applies, SInv, Places
  <2>2. {"live"} \cup (IF kind = "git" THEN {"others"} ELSE {}) \in SUBSET {"live", "others"}
    OBVIOUS
  <2>3. stray' \subseteq {"live", "others"}
    BY <1>6, <1>7, <2>2 DEF Applies
  <2> QED BY <2>1, <2>3
<1>8. ASSUME NEW ok \in BOOLEAN, Ends(i, ok) \/ Finish(i, ok) PROVE Jobs' /\ AllGood'
  BY <1>3, <1>8, EndsGood DEF SInv
<1>9. ASSUME NEW ok \in BOOLEAN, Finish(i, ok) PROVE recorded' \in 0 .. LastVersion
  <2>1. recorded' \in {recorded, workers[i].sha}
    BY <1>9, FinishJobs DEF SInv
  <2> QED BY <1>1, <2>1 DEF Worker, SInv, Places
<1>10. CASE ApplyDeployment(i)
  <2>1. Places'
    BY <1>2, <1>4, <1>7, <1>10 DEF ApplyDeployment, SInv, Places
  <2>2. [workers[i] EXCEPT !.at = "rest"] \in Worker
    BY <1>1 DEF Worker
  <2>3. Good([workers[i] EXCEPT !.at = "rest"], kind, image)
    BY <1>1, <1>10 DEF ApplyDeployment, Good, Worker
  <2>4. CASE Ends(i, FALSE)
    BY <1>2, <2>1, <2>4, SEnds
  <2>5. CASE Goes(i, "rest")
    <3>1. Jobs' /\ AllGood'
      BY <1>2, <1>3, <2>2, <2>3, <2>5, GoesGood DEF Goes, SInv
    <3> QED BY <1>3, <2>1, <3>1 DEF SInv
  <2> QED BY <1>10, <2>4, <2>5 DEF ApplyDeployment
<1>11. CASE ApplyBreaks(i)
  <2>1. Places'
    BY <1>2, <1>4, <1>7, <1>11 DEF ApplyBreaks, SInv, Places
  <2> QED BY <1>2, <1>11, <2>1, SEnds DEF ApplyBreaks
<1>12. CASE ApplyRest(i)
  <2>1. {live', others'} \subseteq 0 .. LastVersion
    BY <1>5, <1>12 DEF ApplyRest, SInv, Places
  <2>2. stray' \subseteq {"live", "others"}
    BY <1>6, <1>12 DEF ApplyRest, SInv, Places
  <2>3. Places'
    BY <1>2, <1>4, <1>9, <1>12, <2>1, <2>2 DEF ApplyRest, SInv, Places
  <2> QED BY <1>3, <1>8, <1>12, <2>3 DEF ApplyRest, SInv
<1>13. CASE RestBreaks(i)
  <2>1. Places'
    BY <1>2, <1>4, <1>9, <1>13 DEF RestBreaks, SInv, Places
  <2> QED BY <1>3, <1>8, <1>13, <2>1 DEF RestBreaks, SInv
<1> QED BY <1>10, <1>11, <1>12, <1>13

\* The import Jobs: their nodes, their creation, the rounds over them, their removal.
LEMMA SImport ==
    ASSUME SInv, NEW i \in DOMAIN workers,
           \/ ListNodes(i) \/ ClearJobs(i) \/ CreateJobs(i)
           \/ PollJobs(i) \/ PollGivesUp(i) \/ CleanJobs(i)
    PROVE  SInv'
<1> DEFINE w == workers[i]
<1>1. /\ LastVersion \in Nat \ {0} /\ MaxEvents \in Nat
      /\ w \in Worker /\ Good(w, kind, image) /\ kind \in Kind
  BY ElementOfSeq, SourceAssumption DEF SInv, Jobs, AllGood, Places
<1>2. UNCHANGED <<kind, image, tars, yamls, disk, clone, ready, poll, live, others, stray, recorded>>
  <2>1. ClearJobs(i) \/ CleanJobs(i) =>
           UNCHANGED <<kind, image, tars, yamls, disk, clone, ready, poll, live, others, stray, recorded>>
    BY DEF ClearJobs, CleanJobs, Teardown, upstream, applied
  <2>2. CreateJobs(i) =>
           UNCHANGED <<kind, image, tars, yamls, disk, clone, ready, poll, live, others, stray, recorded>>
    BY DEF CreateJobs, upstream, applied
  <2> QED BY <2>1, <2>2 DEF ListNodes, PollJobs, PollGivesUp, upstream, cluster,
                            applied
<1>3. Grown
  BY <1>2 DEF Grown
<1>4. Calm \/ Event
  <2>1. ClearJobs(i) \/ CleanJobs(i) => Calm \/ Event
    BY DEF ClearJobs, CleanJobs, Teardown, Deletes
  <2>2. CreateJobs(i) => Calm \/ Event
    BY DEF CreateJobs
  <2> QED BY <2>1, <2>2 DEF ListNodes, PollJobs, PollGivesUp, Calm
<1>5. /\ jobs' \in [Version \X Targets -> Status]
      /\ \A v \in Version, t \in Targets :
             jobs'[<<v, t>>] = "done" => jobs[<<v, t>>] = "done"
  <2>1. jobs \in [Version \X Targets -> Status]
    BY DEF SInv, Places
  <2>2. CASE ClearJobs(i) \/ CleanJobs(i)
    <3>1. PICK doomed, failing :
              jobs' = [p \in DOMAIN jobs |-> IF p \in doomed \ failing THEN "none" ELSE jobs[p]]
      BY <2>2 DEF ClearJobs, CleanJobs, Teardown, Deletes
    <3> QED BY <2>1, <3>1 DEF Status
  <2>3. CASE CreateJobs(i)
    <3>1. PICK created :
              jobs' = [p \in DOMAIN jobs |-> IF p \in created THEN "active" ELSE jobs[p]]
      BY <2>3 DEF CreateJobs
    <3> QED BY <2>1, <3>1 DEF Status
  <2>4. CASE ListNodes(i) \/ PollJobs(i) \/ PollGivesUp(i)
    BY <2>1, <2>4 DEF ListNodes, PollJobs, PollGivesUp, cluster
  <2> QED BY <2>2, <2>3, <2>4
<1>6. Places'
  <2>1. events' \in 0 .. MaxEvents
    BY <1>1, <1>4 DEF Calm, Event, SInv, Places
  <2> QED BY <1>2, <1>5, <2>1 DEF SInv, Places
<1>7. CASE Ends(i, FALSE)
  BY <1>2, <1>5, <1>6, <1>7, SEnds
<1>8. ASSUME NEW v \in Worker, Becomes(i, v), Good(v, kind, image) PROVE SInv'
  <2>1. Jobs' /\ AllGood'
    BY <1>2, <1>3, <1>8, GoesGood DEF SInv
  <2> QED BY <1>3, <1>5, <1>6, <2>1, TellStays DEF SInv
<1>9. CASE ListNodes(i)
  <2> DEFINE targets == IF kind = "scoped" THEN {Unpinned} ELSE ready
             v == [w EXCEPT !.at = "clear", !.targets = targets]
  <2>1. targets \in SUBSET Targets /\ (kind = "scoped" => targets = {Unpinned})
        /\ (kind # "scoped" => targets \subseteq Node)
    BY DEF Targets, SInv, Places
  <2>2. Ends(i, FALSE) \/ Becomes(i, v)
    BY <1>9 DEF ListNodes
  <2> HIDE DEF targets
  <2>3. v \in Worker
    BY <1>1, <2>1 DEF Worker
  <2>4. Good(v, kind, image)
    BY <1>1, <1>9, <2>1 DEF ListNodes, Good, Worker
  <2> QED BY <1>7, <1>8, <2>2, <2>3, <2>4
<1>10. CASE ClearJobs(i)
  <2>1. [w EXCEPT !.at = "create"] \in Worker
    BY <1>1 DEF Worker
  <2>2. Good([w EXCEPT !.at = "create"], kind, image)
    BY <1>1, <1>10 DEF ClearJobs, Good, Worker
  <2> QED BY <1>8, <1>10, <2>1, <2>2 DEF ClearJobs, Goes
<1>11. CASE CreateJobs(i)
  <2>1. PICK at \in {"poll", "clean"} :
            Becomes(i, [w EXCEPT !.at = at, !.pending = w.targets])
    BY <1>11 DEF CreateJobs
  <2>2. [w EXCEPT !.at = at, !.pending = w.targets] \in Worker
    BY <1>1 DEF Worker
  <2>3. Good([w EXCEPT !.at = at, !.pending = w.targets], kind, image)
    BY <1>1, <1>11 DEF CreateJobs, Good, Worker
  <2> QED BY <1>8, <2>1, <2>2, <2>3
<1>12. CASE PollJobs(i)
  <2> DEFINE ends == {n \in w.pending : jobs[<<w.tag, n>>] \in {"done"}}
             unsettled == w.pending \ ends
             lost == [w EXCEPT !.at = "clean", !.pending = {}]
             goes == [w EXCEPT !.pending = unsettled, !.ok = AllImported(w, unsettled),
                               !.at = IF AllImported(w, unsettled) THEN "clean" ELSE "poll"]
  <2>1. w.at = "poll" /\ (Becomes(i, lost) \/ Becomes(i, goes))
    BY <1>12 DEF PollJobs
  <2>2. lost \in Worker /\ Good(lost, kind, image)
    <3>1. lost \in Worker
      BY <1>1 DEF Worker
    <3> QED BY <1>1, <2>1, <3>1 DEF Good, Worker
  <2>3. /\ \A t \in w.targets \ unsettled : Reached(w.tag, t, image)
        /\ w.targets \in SUBSET Targets /\ unsettled \in SUBSET Targets
    <3>1. w.targets \in SUBSET Targets /\ w.pending \in SUBSET Targets /\ w.tag \in Version
      BY <1>1 DEF Worker
    <3>2. \A t \in ends : Reached(w.tag, t, image)
      BY <3>1 DEF SInv, JobsTell
    <3>3. \A t \in w.targets \ w.pending : Reached(w.tag, t, image)
      BY <1>1, <2>1 DEF Good
    <3> QED BY <3>1, <3>2, <3>3
  <2> HIDE DEF unsettled
  <2>4. goes \in Worker
    BY <1>1, <2>3 DEF Worker, AllImported
  <2>5. Good(goes, kind, image)
    <3>1. /\ goes.targets = w.targets /\ goes.pending = unsettled /\ goes.tag = w.tag
          /\ goes.ok = (unsettled = {}) /\ goes.at = IF unsettled = {} THEN "clean" ELSE "poll"
      BY <1>1 DEF Worker, AllImported
    <3> HIDE DEF goes
    <3> QED BY <1>1, <2>1, <2>3, <3>1 DEF Good
  <2> QED BY <1>8, <2>1, <2>2, <2>4, <2>5
<1>13. CASE PollGivesUp(i)
  <2>1. [w EXCEPT !.at = "clean", !.pending = {}] \in Worker
    BY <1>1 DEF Worker
  <2>2. Good([w EXCEPT !.at = "clean", !.pending = {}], kind, image)
    BY <1>1, <1>13 DEF PollGivesUp, Good, Worker
  <2> QED BY <1>8, <1>13, <2>1, <2>2 DEF PollGivesUp
<1>14. CASE CleanJobs(i)
  <2>1. [w EXCEPT !.at = "apply"] \in Worker
    BY <1>1 DEF Worker
  <2>2. w.ok => Good([w EXCEPT !.at = "apply"], kind, image)
    BY <1>1, <1>14 DEF CleanJobs, Good, Worker
  <2> QED BY <1>7, <1>8, <1>14, <2>1, <2>2 DEF CleanJobs, Goes
<1> QED BY <1>9, <1>10, <1>11, <1>12, <1>13, <1>14

\* The cluster: Jobs end and expire, nodes come and go.
LEMMA SCluster ==
    ASSUME SInv,
           \/ \E p \in DOMAIN jobs : JobEnds(p) \/ JobExpires(p)
           \/ \E n \in Node : NodeChanges(n)
    PROVE  SInv'
<1>1. /\ MaxEvents \in Nat /\ Unpinned \notin Node
      /\ jobs \in [Version \X Targets -> Status]
      /\ image \in [Node -> SUBSET Version] /\ ready \in (SUBSET Node) \ {{}}
  BY SourceAssumption DEF SInv, Places
<1>2. UNCHANGED <<kind, tars, yamls, disk, clone, poll, live, others, stray, recorded, queue, workers, held>>
  BY DEF JobEnds, JobExpires, NodeChanges, upstream, applied
<1>3. ASSUME Grown, JobsTell', jobs' \in [Version \X Targets -> Status],
             image' \in [Node -> SUBSET Version], ready' \in (SUBSET Node) \ {{}},
             Calm \/ Event
      PROVE  SInv'
  <2>1. Places'
    BY <1>1, <1>2, <1>3 DEF Calm, Event, SInv, Places
  <2>2. Jobs' /\ AllGood'
    BY <1>2, <1>3, StillGood DEF SInv, Jobs
  <2> QED BY <1>3, <2>1, <2>2 DEF SInv
<1>4. ASSUME NEW p \in DOMAIN jobs, JobEnds(p) PROVE SInv'
  <2>1. p = <<p[1], p[2]>> /\ p[1] \in Version /\ p[2] \in Targets /\ jobs[p] = "active"
    BY <1>1, <1>4 DEF JobEnds
  <2>2. ready' = ready /\ kind' = kind
    BY <1>4 DEF JobEnds
  <2>3. CASE jobs' = [jobs EXCEPT ![p] = "done"] /\ Calm
             /\ \E n \in IF p[2] = Unpinned THEN ready ELSE {p[2]} :
                    image' = [image EXCEPT ![n] = @ \cup {p[1]}]
    <3>1. PICK n \in IF p[2] = Unpinned THEN ready ELSE {p[2]} :
              image' = [image EXCEPT ![n] = @ \cup {p[1]}]
      BY <2>3
    <3>2. n \in Node
      BY <1>1, <2>1 DEF Targets
    <3>3. Grown /\ image' \in [Node -> SUBSET Version] /\ p[1] \in image'[n]
      BY <1>1, <2>1, <2>2, <3>1, <3>2 DEF Grown
    <3>4. Reached(p[1], p[2], image')
      BY <2>1, <3>1, <3>2, <3>3 DEF Reached
    <3>5. jobs' \in [Version \X Targets -> Status]
      BY <1>1, <2>3 DEF Status
    <3>6. ASSUME NEW v \in Version, NEW t \in Targets, jobs'[<<v, t>>] = "done"
          PROVE  Reached(v, t, image')
      <4>1. CASE <<v, t>> = p
        BY <2>1, <3>4, <4>1
      <4>2. CASE <<v, t>> # p
        <5>1. jobs[<<v, t>>] = "done"
          BY <1>1, <2>3, <3>6, <4>2
        <5> QED BY <3>3, <5>1, ReachedStays DEF SInv, JobsTell
      <4> QED BY <4>1, <4>2
    <3> QED BY <1>1, <1>3, <2>2, <2>3, <3>3, <3>5, <3>6 DEF JobsTell
  <2>4. CASE jobs' = [jobs EXCEPT ![p] = "failed"] /\ UNCHANGED image /\ (Calm \/ Event)
    <3>1. jobs' \in [Version \X Targets -> Status]
      BY <1>1, <2>4 DEF Status
    <3>2. Grown
      BY <2>2, <2>4 DEF Grown
    <3>3. \A v \in Version, t \in Targets :
              jobs'[<<v, t>>] = "done" => jobs[<<v, t>>] = "done"
      BY <1>1, <2>4
    <3> QED BY <1>1, <1>3, <2>2, <2>4, <3>1, <3>2, <3>3, TellStays DEF SInv
  <2> QED BY <1>4, <2>3, <2>4 DEF JobEnds
<1>5. ASSUME NEW p \in DOMAIN jobs, JobExpires(p) PROVE SInv'
  <2>1. UNCHANGED <<kind, image, ready>> /\ Calm /\ jobs' = [jobs EXCEPT ![p] = "none"]
    BY <1>5 DEF JobExpires, Calm
  <2>2. jobs' \in [Version \X Targets -> Status] /\ Grown
    BY <1>1, <2>1 DEF Status, Grown
  <2>3. \A v \in Version, t \in Targets :
            jobs'[<<v, t>>] = "done" => jobs[<<v, t>>] = "done"
    BY <1>1, <2>1
  <2> QED BY <1>1, <1>3, <2>1, <2>2, <2>3, TellStays DEF SInv
<1>6. ASSUME NEW n \in Node, NodeChanges(n) PROVE SInv'
  <2>1. UNCHANGED <<kind, image, jobs>> /\ Event /\ ready' \in (SUBSET Node) \ {{}} /\ Grown
    BY <1>1, <1>6 DEF NodeChanges, Grown
  <2> QED BY <1>1, <1>3, <2>1, TellStays DEF SInv
<1> QED BY <1>4, <1>5, <1>6

\* The four parts together are inductive.
LEMMA SourceInvariant == SourceSpec => []SInv
<1>1. SourceInit => SInv
  BY SInit
<1>2. SInv /\ [SourceNext]_sourceVars => SInv'
  <2> SUFFICES ASSUME SInv, [SourceNext]_sourceVars PROVE SInv'
    OBVIOUS
  <2>1. CASE UNCHANGED sourceVars
    <3>1. Jobs' /\ Places' /\ JobsTell'
      BY <2>1 DEF sourceVars, SInv, Jobs, Places, JobsTell
    <3>2. AllGood'
      BY <2>1 DEF sourceVars, SInv, AllGood
    <3> QED BY <3>1, <3>2 DEF SInv
  <2>2. ASSUME NEW i \in DOMAIN workers,
               WorkerSteps(i) \/ WorkerFails(i) \/ CallBreaks(i)
        PROVE  SInv'
    BY <2>2, SBundle, SImport, SGit, SApply DEF WorkerSteps, WorkerFails
  <2> QED BY <2>1, <2>2, SRequests, SCluster DEF SourceNext
<1> QED BY <1>1, <1>2, PTL DEF SourceSpec

\* Attempts stay below max_attempts, a handler has a version, targets and pending Jobs, two work
\* at most and the tables have their entries, through requests, retries, lapses of a lock and
\* calls that break (queue.ts, worker.ts, deploy.ts, bundle-import.ts).
THEOREM SourceTypeCorrect == SourceSpec => []SourceTypeOK
<1>1. SInv => SourceTypeOK
  <2> SUFFICES ASSUME SInv PROVE SourceTypeOK
    OBVIOUS
  <2>1. \A k \in DOMAIN queue : queue[k].tag \in Version /\ queue[k].tries \in 0 .. MaxAttempts - 1
    <3>1. \A k \in DOMAIN queue : queue[k] \in Entry
      BY ElementOfSeq DEF SInv, Jobs
    <3> QED BY <3>1 DEF Entry
  <2>2. \A i \in DOMAIN workers : workers[i] \in Worker
    BY ElementOfSeq DEF SInv, Jobs
  <2> QED BY <2>1, <2>2 DEF SInv, Jobs, Places, SourceTypeOK
<1> QED BY <1>1, SourceInvariant, PTL

\* Who applies manifests has the image on every node that was listed, whatever Jobs of earlier or
\* concurrent attempts were in the cluster, replaced, expired or deleted (bundle-import.ts:189:
\* one failure fails the deploy).
THEOREM ImagesBeforeManifests == SourceSpec => []ImageOnEveryNode
<1>1. SInv => ImageOnEveryNode
  <2> SUFFICES ASSUME SInv, NEW i \in DOMAIN workers,
                      kind # "git", workers[i].at \in {"apply", "rest"}
               PROVE  CASE kind = "local" -> workers[i].tag \in image[Home]
                        [] kind = "remote" -> \A n \in workers[i].targets : workers[i].tag \in image[n]
                        [] OTHER -> \E n \in Node : workers[i].tag \in image[n]
    BY DEF ImageOnEveryNode
  <2>1. Good(workers[i], kind, image) /\ kind \in {"local", "remote", "scoped"} /\ Unpinned \notin Node
    BY SourceAssumption DEF SInv, AllGood, Places, Kind
  <2> QED BY <2>1 DEF Good, Reached
<1> QED BY <1>1, SourceInvariant, PTL
===============================================================================

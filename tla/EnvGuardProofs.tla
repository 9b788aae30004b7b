---------------------------- MODULE EnvGuardProofs ----------------------------
(***************************************************************************)
(* The environment of a service, for any values and any number of editors: *)
(* an edit reaches the cluster or is left for a reason, the pods run what  *)
(* the files say, and nobody's change is overwritten unseen.               *)
(***************************************************************************)
EXTENDS EnvGuard, TLAPS

IsJob(j) ==
    /\ j \in [at : {j.at}, allow : BOOLEAN, read : [Kind -> {j.read[k] : k \in Kind}],
              digests : BOOLEAN, hash : {j.hash}, seen : [Kind -> {j.seen[k] : k \in Kind}]]

ShapeInv == /\ file = [k \in Kind |-> file[k]] /\ live = [k \in Kind |-> live[k]]
            /\ baseline = [k \in Kind |-> baseline[k]] /\ pods = [k \in Kind |-> pods[k]]
            /\ template = EnvHash(template["config"], template["secret"])
            /\ edits = [s \in Slot |-> edits[s]]
            /\ rolling \in BOOLEAN /\ hashSkew \in BOOLEAN
            /\ IsJob(job)

\* The steps of a deploy at which the object of a kind is still to be applied.
Before(k) ==
    {"queued", "touchConfig", "readSecret", "touchSecret", "guardConfig", "guardSecret", "applyConfig"}
      \cup (IF k = "secret" THEN {"applySecret"} ELSE {})

\* Somebody is going to see to it: the request that wrote the file, or the deploy.
Owed(k) == \/ \E s \in Slot : edits[s].at = "redeploy" /\ edits[s].kind = k
           \/ job.at \in Before(k)

SettleInv == \A k \in Kind :
    live[k] # Missing /\ k \notin pending /\ live[k] # Held(k) => Owed(k)

\* Pods that were started with what the hash was taken of run it until the next rollout.
PodInv == rolling = FALSE /\ hashSkew = FALSE => \A k \in Kind : Meaning(template[k]) = pods[k]

\* What the guard saw was nobody else's, or nothing it could tell.
Clear(k) == \/ job.seen[k] = Missing \/ baseline[k] = None
            \/ job.seen[k] = baseline[k] \/ job.read[k] # baseline[k]

GuardInv == job.digests = TRUE /\ mode = "block" /\ job.allow = FALSE =>
    /\ job.at \in {"guardSecret", "applyConfig"} => Clear("config")
    /\ job.at \in {"applyConfig", "applySecret"} => Clear("secret")

Inv == ShapeInv /\ SettleInv /\ PodInv /\ GuardInv

-------------------------------------------------------------------------------

LEMMA NewJobs ==
    ASSUME NEW step, NEW allow \in BOOLEAN
    PROVE  IsJob(JobAt(step, allow)) /\ JobAt(step, allow).at = step
<1> DEFINE none == [k \in Kind |-> None]
           j == JobAt(step, allow)
<1>1. j = [at |-> step, allow |-> allow, read |-> none, digests |-> FALSE, hash |-> None,
           seen |-> none]
  BY DEF JobAt
<1>2. none \in [Kind -> {none[k] : k \in Kind}]
  OBVIOUS
<1> HIDE DEF none, j
<1>3. /\ j.at = step /\ j.allow = allow /\ j.read = none /\ j.hash = None
      /\ j.digests = FALSE /\ j.seen = none
  BY <1>1
<1>4. j \in [at : {step}, allow : BOOLEAN, read : [Kind -> {none[k] : k \in Kind}],
             digests : BOOLEAN, hash : {None}, seen : [Kind -> {none[k] : k \in Kind}]]
  BY <1>1, <1>2
<1>5. IsJob(j) /\ j.at = step
  BY <1>3, <1>4 DEF IsJob
<1>6. QED
  BY <1>5 DEF j

LEMMA InitInv == Init => Inv
<1> SUFFICES ASSUME Init PROVE Inv
  OBVIOUS
<1>1. IsJob(job) /\ job.at = "none"
  BY NewJobs DEF Init, NoJob
<1>2. ShapeInv
  BY <1>1 DEF Init, ShapeInv, EnvHash
<1>3. SettleInv
  BY DEF Init, SettleInv
<1>4. PodInv
  <2>1. ASSUME NEW k \in Kind PROVE Meaning(template[k]) = pods[k]
    <3>1. template[k] = Missing /\ pods[k] = Missing
      BY DEF Init, EnvHash, Kind
    <3>2. QED
      BY <3>1 DEF Meaning
  <2>2. QED
    BY <2>1 DEF PodInv
<1>5. GuardInv
  BY <1>1 DEF GuardInv
<1>6. QED
  BY <1>2, <1>3, <1>4, <1>5 DEF Inv

\* A request goes on that has not written its file: nothing else changes.
LEMMA EditSteps ==
    ASSUME Inv, NEW s \in Slot, edits[s].at # "redeploy",
           edits' = [q \in Slot |-> edits'[q]], \A q \in Slot : q # s => edits'[q] = edits[q],
           UNCHANGED <<mode, file, live, baseline, template, rolling, pods, job, pending, hashSkew>>
    PROVE  Inv'
<1>1. ShapeInv'
  BY DEF Inv, ShapeInv, EnvHash, IsJob
<1>2. SettleInv'
  <2>1. \A k \in Kind : Held(k)' = Held(k)
    BY DEF Held, Meaning
  <2>2. \A k \in Kind : Owed(k) => Owed(k)'
    BY DEF Owed, Before
  <2>3. QED
    BY <2>1, <2>2 DEF Inv, SettleInv
<1>3. PodInv' /\ GuardInv'
  BY DEF Inv, PodInv, GuardInv, Clear, Meaning
<1>4. QED
  BY <1>1, <1>2, <1>3 DEF Inv

\* A deploy goes on that has not applied anything yet, or it begins.
LEMMA JobSteps ==
    ASSUME Inv, IsJob(job)', GuardInv',
           UNCHANGED <<file, live, baseline, template, rolling, pods, edits, hashSkew>>,
           pending \subseteq pending',
           \A k \in Kind : \/ job'.at \in Before(k) \/ job.at \notin Before(k)
                           \/ live[k] = Held(k) \/ k \in pending'
    PROVE  Inv'
<1>1. ShapeInv'
  BY DEF Inv, ShapeInv, EnvHash
<1>2. SettleInv'
  <2>1. \A k \in Kind : Held(k)' = Held(k)
    BY DEF Held, Meaning
  <2>2. ASSUME NEW k \in Kind, live[k] # Missing, k \notin pending', live[k] # Held(k)
        PROVE  Owed(k)'
    <3>1. Owed(k)
      BY <2>2 DEF Inv, SettleInv
    <3>2. Before(k)' = Before(k)
      BY DEF Before
    <3>3. QED
      BY <2>2, <3>1, <3>2 DEF Owed
  <2>3. QED
    BY <2>1, <2>2 DEF SettleInv
<1>3. PodInv'
  BY DEF Inv, PodInv, Meaning
<1>4. QED
  BY <1>1, <1>2, <1>3 DEF Inv

LEMMA FailSteps ==
    ASSUME Inv, NEW retry \in BOOLEAN, Fails(retry),
           UNCHANGED <<file, live, baseline, template, rolling, pods, edits, hashSkew>>
    PROVE  Inv'
<1>1. job.allow \in BOOLEAN
  BY DEF Inv, ShapeInv, IsJob
<1>2. /\ job' = NoJob \/ job' = NewJob(job.allow)
      /\ pending' = pending \cup {k \in Kind : Held(k) # live[k]}
  BY DEF Fails
<1>3. IsJob(job') /\ job'.at \in {"none", "queued"}
  BY <1>1, <1>2, NewJobs DEF NoJob, NewJob
<1>4. GuardInv'
  BY <1>3 DEF GuardInv
<1>5. IsJob(job)'
  BY <1>3 DEF IsJob
<1>6. QED
  BY <1>2, <1>4, <1>5, JobSteps

\* A deploy that goes on to another step keeps what it knows.
LEMMA AtSteps ==
    ASSUME NEW j, IsJob(j), NEW step
    PROVE  LET n == [j EXCEPT !.at = step]
           IN  /\ IsJob(n) /\ n.at = step /\ n.allow = j.allow /\ n.digests = j.digests
               /\ n.read = j.read /\ n.seen = j.seen
<1> DEFINE n == [j EXCEPT !.at = step]
<1>1. /\ n \in [at : {step}, allow : BOOLEAN, read : [Kind -> {j.read[k] : k \in Kind}],
                digests : BOOLEAN, hash : {j.hash}, seen : [Kind -> {j.seen[k] : k \in Kind}]]
      /\ n.at = step /\ n.allow = j.allow /\ n.digests = j.digests /\ n.hash = j.hash
      /\ n.read = j.read /\ n.seen = j.seen
  BY DEF IsJob
<1> HIDE DEF n
<1>2. IsJob(n)
  BY <1>1 DEF IsJob
<1>3. QED
  BY <1>1, <1>2 DEF n

LEMMA PutWrittenSteps == ASSUME Inv, NEW s \in Slot, PutWritten(s) PROVE Inv'
<1> DEFINE r == edits[s]
<1>1. /\ UNCHANGED <<mode, live, baseline, template, rolling, pods, job, pending, hashSkew>>
      /\ \E text : file' = [file EXCEPT ![r.kind] = text]
      /\ edits' = [edits EXCEPT ![s] = Edit("redeploy", r.kind, None, None)]
  BY DEF PutWritten, cluster
<1>2. /\ edits'[s] = Edit("redeploy", r.kind, None, None)
      /\ \A q \in Slot : q # s => edits'[q] = edits[q]
      /\ edits' = [q \in Slot |-> edits'[q]]
  BY <1>1 DEF Inv, ShapeInv
<1>3. edits'[s].at = "redeploy" /\ edits'[s].kind = r.kind
  BY <1>2 DEF Edit
<1>4. /\ file' = [k \in Kind |-> file'[k]]
      /\ \A k \in Kind : k # r.kind => file'[k] = file[k]
  BY <1>1 DEF Inv, ShapeInv
<1>5. ShapeInv'
  BY <1>1, <1>2, <1>4 DEF Inv, ShapeInv, EnvHash, IsJob
<1>6. SettleInv'
  <2>1. ASSUME NEW k \in Kind, live[k] # Missing, k \notin pending, live[k] # Held(k)'
        PROVE  Owed(k)'
    <3>1. CASE k = r.kind
      BY <1>3, <3>1 DEF Owed
    <3>2. CASE k # r.kind
      <4>1. Held(k)' = Held(k)
        BY <1>4, <3>2 DEF Held, Meaning
      <4>2. Owed(k)
        BY <2>1, <4>1 DEF Inv, SettleInv
      <4>3. CASE job.at \in Before(k)
        BY <1>1, <4>3 DEF Owed, Before
      <4>4. CASE \E q \in Slot : edits[q].at = "redeploy" /\ edits[q].kind = k
        <5>1. PICK q \in Slot : edits[q].at = "redeploy" /\ edits[q].kind = k
          BY <4>4
        <5>2. q # s
          BY <3>2, <5>1
        <5>3. QED
          BY <1>2, <5>1, <5>2 DEF Owed
      <4>5. QED
        BY <4>2, <4>3, <4>4 DEF Owed
    <3>3. QED
      BY <3>1, <3>2
  <2>2. QED
    BY <1>1, <2>1 DEF SettleInv
<1>7. PodInv' /\ GuardInv'
  BY <1>1 DEF Inv, PodInv, GuardInv, Clear, Meaning
<1>8. QED
  BY <1>5, <1>6, <1>7 DEF Inv

LEMMA PutAnsweredSteps ==
    ASSUME Inv, NEW s \in Slot, NEW declined \in BOOLEAN, PutAnswered(s, declined) PROVE Inv'
<1> DEFINE w == edits[s].kind
<1>1. /\ UNCHANGED <<mode, file, live, baseline, template, rolling, pods, hashSkew>>
      /\ IF RedeployDue(w) /\ ~declined THEN job' = NewJob(FALSE) ELSE UNCHANGED job
      /\ pending' = IF declined \/ ~tagged \/ ~At("none") THEN pending \cup {w} ELSE pending
      /\ edits' = [edits EXCEPT ![s] = NoEdit]
  BY DEF PutAnswered, cluster
<1>2. /\ \A q \in Slot : q # s => edits'[q] = edits[q]
      /\ edits' = [q \in Slot |-> edits'[q]]
  BY <1>1 DEF Inv, ShapeInv
<1>3. /\ IsJob(job)' /\ (job' = job \/ job'.at = "queued") /\ GuardInv'
  <2>1. CASE job' = job
    BY <1>1, <2>1 DEF Inv, ShapeInv, IsJob, GuardInv, Clear
  <2>2. CASE job' = NewJob(FALSE)
    <3>1. IsJob(job') /\ job'.at = "queued"
      BY <2>2, NewJobs DEF NewJob
    <3>2. QED
      BY <3>1 DEF IsJob, GuardInv
  <2>3. QED
    BY <1>1, <2>1, <2>2
<1>4. ShapeInv'
  BY <1>1, <1>2, <1>3 DEF Inv, ShapeInv, EnvHash
<1>5. SettleInv'
  <2>1. ASSUME NEW k \in Kind, live[k] # Missing, k \notin pending', live[k] # Held(k)'
        PROVE  Owed(k)'
    <3>1. CASE job'.at = "queued"
      BY <3>1 DEF Owed, Before
    <3>2. CASE job' = job /\ k = w
      <4>1. CASE RedeployDue(w) /\ ~declined
        <5>1. job'.at = "queued"
          BY <1>1, <4>1, NewJobs DEF NewJob
        <5>2. QED
          BY <3>1, <5>1
      <4>2. CASE ~(RedeployDue(w) /\ ~declined)
        BY <1>1, <2>1, <3>2, <4>2 DEF RedeployDue
      <4>3. QED
        BY <4>1, <4>2
    <3>3. CASE job' = job /\ k # w
      <4>1. Held(k)' = Held(k) /\ k \notin pending
        BY <1>1, <2>1 DEF Held, Meaning
      <4>2. Owed(k)
        BY <2>1, <4>1 DEF Inv, SettleInv
      <4>3. CASE job.at \in Before(k)
        BY <3>3, <4>3 DEF Owed, Before
      <4>4. CASE \E q \in Slot : edits[q].at = "redeploy" /\ edits[q].kind = k
        <5>1. PICK q \in Slot : edits[q].at = "redeploy" /\ edits[q].kind = k
          BY <4>4
        <5>2. q # s
          BY <3>3, <5>1
        <5>3. QED
          BY <1>2, <5>1, <5>2 DEF Owed
      <4>5. QED
        BY <4>2, <4>3, <4>4 DEF Owed
    <3>4. QED
      BY <1>3, <3>1, <3>2, <3>3
  <2>2. QED
    BY <1>1, <2>1 DEF SettleInv
<1>6. PodInv'
  BY <1>1 DEF Inv, PodInv, Meaning
<1>7. QED
  BY <1>3, <1>4, <1>5, <1>6 DEF Inv

\* Others change the cluster, and pods start with what it holds.
LEMMA OtherSteps ==
    ASSUME Inv, (\E k \in Kind : \E v : Outside(k, v)) \/ PodsStart
    PROVE  Inv'
<1>a. UNCHANGED <<mode, file, baseline, template, edits, job>>
  BY DEF Outside, PodsStart
<1>b. GuardInv' /\ IsJob(job)'
  BY <1>a DEF Inv, ShapeInv, GuardInv, Clear, IsJob
<1>c. \A k \in Kind : Held(k)' = Held(k) /\ (Owed(k) => Owed(k)')
  BY <1>a DEF Held, Meaning, Owed, Before
<1>1. ASSUME NEW c \in Kind, NEW v, Outside(c, v) PROVE Inv'
  <2>1. /\ live' = [live EXCEPT ![c] = v] /\ pending' = pending \cup {c}
        /\ UNCHANGED <<rolling, pods, hashSkew>>
    BY <1>1 DEF Outside
  <2>2. ShapeInv'
    BY <1>a, <1>b, <2>1 DEF Inv, ShapeInv, EnvHash
  <2>3. SettleInv'
    <3>1. \A k \in Kind : k # c => live'[k] = live[k]
      BY <2>1 DEF Inv, ShapeInv
    <3>2. QED
      BY <1>c, <2>1, <3>1 DEF Inv, SettleInv
  <2>4. PodInv'
    BY <1>a, <2>1 DEF Inv, PodInv, Meaning
  <2>5. QED
    BY <1>b, <2>2, <2>3, <2>4 DEF Inv
<1>2. CASE PodsStart
  <2>1. /\ pods' = live /\ rolling' = FALSE /\ UNCHANGED <<live, pending>>
        /\ hashSkew' = (\E k \in Kind : Meaning(template[k]) # live[k])
    BY <1>2 DEF PodsStart
  <2>2. ShapeInv'
    BY <1>a, <1>b, <2>1 DEF Inv, ShapeInv, EnvHash
  <2>3. SettleInv'
    BY <1>c, <2>1 DEF Inv, SettleInv
  <2>4. PodInv'
    <3>1. ASSUME hashSkew' = FALSE, NEW k \in Kind PROVE Meaning(template'[k]) = pods'[k]
      BY <1>a, <2>1, <3>1
    <3>2. QED
      BY <3>1 DEF PodInv, Meaning
  <2>5. QED
    BY <1>b, <2>2, <2>3, <2>4 DEF Inv
<1>3. QED
  BY <1>1, <1>2

LEMMA RestartSteps == ASSUME Inv, NEW m \in Modes, Restart(m) PROVE Inv'
<1>1. /\ UNCHANGED <<file, live, baseline, template, rolling, pods, hashSkew>>
      /\ edits' = [s \in Slot |-> NoEdit]
      /\ job' = IF At("none") THEN NoJob ELSE NewJob(job.allow)
      /\ pending' = pending \cup {k \in Kind : Held(k) # live[k]}
  BY DEF Restart, cluster
<1>2. IsJob(job') /\ job'.at \in {"none", "queued"}
  <2>1. job.allow \in BOOLEAN
    BY DEF Inv, ShapeInv, IsJob
  <2>2. QED
    BY <1>1, <2>1, NewJobs DEF NoJob, NewJob
<1>3. ShapeInv'
  BY <1>1, <1>2 DEF Inv, ShapeInv, EnvHash, IsJob
<1>4. SettleInv'
  <2>1. \A k \in Kind : Held(k)' = Held(k)
    BY <1>1 DEF Held, Meaning
  <2>2. QED
    BY <1>1, <2>1 DEF SettleInv
<1>5. PodInv'
  BY <1>1 DEF Inv, PodInv, Meaning
<1>6. GuardInv'
  BY <1>2 DEF GuardInv
<1>7. QED
  BY <1>3, <1>4, <1>5, <1>6 DEF Inv

LEMMA TouchSteps == ASSUME Inv, NEW c \in Kind, Touch(c) PROVE Inv'
<1>1. /\ UNCHANGED <<mode, live, baseline, template, rolling, pods, edits, pending, hashSkew>>
      /\ file' = [file EXCEPT ![c] = None]
      /\ \E step \in {"queued", "readSecret"} : job' = [job EXCEPT !.at = step]
  BY DEF Touch, cluster, history
<1>2. PICK step \in {"queued", "readSecret"} : job' = [job EXCEPT !.at = step]
  BY <1>1
<1>3. IsJob(job') /\ job'.at = step
  <2>1. IsJob(job)
    BY DEF Inv, ShapeInv
  <2>2. IsJob([job EXCEPT !.at = step]) /\ [job EXCEPT !.at = step].at = step
    BY <2>1, AtSteps
  <2>3. QED
    BY <1>2, <2>2
<1>4. ShapeInv'
  BY <1>1, <1>3 DEF Inv, ShapeInv, EnvHash, IsJob
<1>5. SettleInv'
  BY <1>3 DEF SettleInv, Owed, Before
<1>6. PodInv' /\ GuardInv'
  BY <1>1, <1>3 DEF Inv, PodInv, GuardInv, Meaning
<1>7. QED
  BY <1>4, <1>5, <1>6 DEF Inv

\* The steps of a deploy up to the guard.
LEMMA ReadSteps ==
    ASSUME Inv,
           \/ \E allow \in BOOLEAN : Deploy(allow)
           \/ \E k \in Kind : FileMissing(k)
           \/ ReadConfig \/ ReadSecret
    PROVE  Inv'
<1>a. /\ UNCHANGED <<mode, file, live, baseline, template, rolling, pods, edits, hashSkew>>
      /\ IsJob(job)
  BY DEF Deploy, FileMissing, ReadConfig, ReadSecret, cluster, history, Inv, ShapeInv
<1>b. ASSUME IsJob(job'), pending' = pending,
             job'.at \in {"queued", "touchConfig", "touchSecret", "readSecret", "guardConfig"}
               \/ (job'.at = "applyConfig" /\ job'.digests = FALSE)
      PROVE  Inv'
  <2>1. GuardInv' /\ IsJob(job)'
    BY <1>b DEF GuardInv, IsJob
  <2>2. \A k \in Kind : job'.at \in Before(k)
    BY <1>b DEF Before
  <2>3. QED
    BY <1>a, <1>b, <2>1, <2>2, JobSteps
<1>1. ASSUME NEW allow \in BOOLEAN, Deploy(allow) PROVE Inv'
  <2>1. job' = NewJob(allow) /\ pending' = pending
    BY <1>1 DEF Deploy, history
  <2>2. QED
    BY <1>b, <2>1, NewJobs DEF NewJob
<1>2. ASSUME NEW k \in Kind, FileMissing(k) PROVE Inv'
  <2>1. PICK step \in {"touchConfig", "touchSecret"} : job' = [job EXCEPT !.at = step]
    BY <1>2 DEF FileMissing
  <2>2. IsJob([job EXCEPT !.at = step]) /\ [job EXCEPT !.at = step].at = step
    BY <1>a, AtSteps
  <2>3. pending' = pending
    BY <1>2 DEF FileMissing, history
  <2>4. QED
    BY <1>b, <2>1, <2>2, <2>3
<1>3. CASE ReadConfig
  <2>1. CASE Fails(TRUE)
    BY <1>a, <2>1, FailSteps
  <2>2. CASE /\ job' = [job EXCEPT !.at = "readSecret", !.read["config"] = Stored("config")]
             /\ UNCHANGED pending
    <3> DEFINE x == Stored("config")
    <3>1. /\ job' = [job EXCEPT !.at = "readSecret", !.read = [job.read EXCEPT !["config"] = x]]
      BY <2>2
    <3> DEFINE read == [job.read EXCEPT !["config"] = x]
               n == [job EXCEPT !.at = "readSecret", !.read = read]
    <3>2. read \in [Kind -> {read[k] : k \in Kind}]
      <4> HIDE DEF x
      <4>1. QED
        BY <1>a DEF IsJob
    <3> HIDE DEF read
    <3>3. /\ n \in [at : {"readSecret"}, allow : BOOLEAN, read : [Kind -> {read[k] : k \in Kind}],
                    digests : BOOLEAN, hash : {job.hash}, seen : [Kind -> {job.seen[k] : k \in Kind}]]
          /\ n.at = "readSecret" /\ n.hash = job.hash /\ n.read = read /\ n.seen = job.seen
      BY <1>a, <3>2 DEF IsJob
    <3>4. job' = n
      BY <3>1 DEF read
    <3> HIDE DEF n
    <3>5. IsJob(job') /\ job'.at = "readSecret"
      BY <3>3, <3>4 DEF IsJob
    <3>6. QED
      BY <1>b, <2>2, <3>5
  <2>3. QED
    BY <1>3, <2>1, <2>2 DEF ReadConfig
<1>4. CASE ReadSecret
  <2> DEFINE read == [job.read EXCEPT !["secret"] = Stored("secret")]
             goOn(guard) == /\ job' = [job EXCEPT !.at = IF guard THEN "guardConfig" ELSE "applyConfig",
                                                  !.read = read, !.digests = guard]
                            /\ UNCHANGED <<pending, events>>
  <2>1. \/ \E retry \in BOOLEAN : Fails(retry)
        \/ goOn(TRUE) \/ goOn(FALSE)
    BY <1>4 DEF ReadSecret
  <2>2. ASSUME NEW retry \in BOOLEAN, Fails(retry) PROVE Inv'
    BY <1>a, <2>2, FailSteps
  <2>3. ASSUME NEW guard \in BOOLEAN, goOn(guard) PROVE Inv'
    <3> DEFINE step == IF guard THEN "guardConfig" ELSE "applyConfig"
               n == [job EXCEPT !.at = step, !.read = read, !.digests = guard]
    <3>1. job' = n /\ pending' = pending
      BY <2>3
    <3>2. read \in [Kind -> {read[k] : k \in Kind}]
      <4> DEFINE x == Stored("secret")
      <4> HIDE DEF x
      <4>1. QED
        BY <1>a DEF IsJob
    <3> HIDE DEF read, step
    <3>3. /\ n \in [at : {step}, allow : BOOLEAN, read : [Kind -> {read[k] : k \in Kind}],
                    digests : BOOLEAN, hash : {job.hash}, seen : [Kind -> {job.seen[k] : k \in Kind}]]
          /\ n.at = step /\ n.hash = job.hash /\ n.read = read /\ n.seen = job.seen
          /\ n.digests = guard
      BY <1>a, <3>2 DEF IsJob
    <3> HIDE DEF n
    <3>4. IsJob(job') /\ job'.at = step /\ job'.digests = guard
      BY <3>1, <3>3 DEF IsJob
    <3>5. QED
      BY <1>b, <3>1, <3>4 DEF step
  <2> HIDE DEF goOn
  <2>4. QED
    BY <2>1, <2>2, <2>3
<1>5. QED
  BY <1>1, <1>2, <1>3, <1>4

\* The guard looks at the live object, and goes on if it is clear or need not be.
LEMMA GuardSteps == ASSUME Inv, NEW c \in Kind, GuardEnv(c) PROVE Inv'
<1>a. /\ UNCHANGED <<mode, file, live, baseline, template, rolling, pods, edits, hashSkew>>
      /\ IsJob(job) /\ c \in {"config", "secret"}
      /\ job.at = IF c = "config" THEN "guardConfig" ELSE "guardSecret"
  BY DEF GuardEnv, cluster, Inv, ShapeInv, At, Kind
<1>1. CASE \E retry \in BOOLEAN : Fails(retry)
  BY <1>a, <1>1, FailSteps
<1>2. CASE /\ ~(mode = "block" /\ ~job.allow /\ Drift(c))
           /\ job' = [job EXCEPT !.at = IF c = "config" THEN "guardSecret" ELSE "applyConfig",
                                 !.seen[c] = live[c]]
           /\ UNCHANGED pending
  <2> DEFINE x == live[c]
             seen == [job.seen EXCEPT ![c] = x]
             step == IF c = "config" THEN "guardSecret" ELSE "applyConfig"
             n == [job EXCEPT !.at = step, !.seen = seen]
  <2>1. job' = n
    BY <1>2
  <2>2. /\ seen \in [Kind -> {seen[k] : k \in Kind}] /\ seen[c] = x
        /\ \A k \in Kind : k # c => seen[k] = job.seen[k]
    <3> HIDE DEF x
    <3>1. QED
      BY <1>a DEF IsJob
  <2> HIDE DEF seen, step
  <2>3. /\ n \in [at : {step}, allow : BOOLEAN, read : [Kind -> {job.read[k] : k \in Kind}],
                  digests : BOOLEAN, hash : {job.hash}, seen : [Kind -> {seen[k] : k \in Kind}]]
        /\ n.at = step /\ n.hash = job.hash /\ n.read = job.read /\ n.seen = seen
        /\ n.digests = job.digests /\ n.allow = job.allow
    BY <1>a, <2>2 DEF IsJob
  <2> HIDE DEF n
  <2>4. /\ IsJob(job') /\ job'.at = step /\ job'.digests = job.digests /\ job'.allow = job.allow
        /\ job'.read = job.read /\ job'.seen[c] = live[c]
        /\ \A k \in Kind : k # c => job'.seen[k] = job.seen[k]
    BY <2>1, <2>2, <2>3 DEF IsJob
  <2>5. GuardInv'
    <3>1. ASSUME job'.digests = TRUE, mode' = "block", job'.allow = FALSE
          PROVE  Clear(c)'
      <4>1. ~Drift(c)
        BY <1>2, <1>a, <2>4, <3>1
      <4>2. \/ live[c] = Missing \/ baseline[c] = None \/ live[c] = baseline[c]
            \/ job.read[c] # baseline[c]
        BY <4>1 DEF Drift
      <4>3. QED
        BY <1>a, <2>4, <4>2 DEF Clear
    <3>2. CASE c = "config"
      BY <2>4, <3>1, <3>2 DEF GuardInv, step
    <3>3. CASE c = "secret"
      <4>1. job.at = "guardSecret" /\ job'.at = "applyConfig"
        BY <1>a, <2>4, <3>3 DEF step
      <4>2. ASSUME job'.digests = TRUE, mode' = "block", job'.allow = FALSE
            PROVE  Clear("config")'
        <5>1. Clear("config")
          BY <1>a, <2>4, <4>1, <4>2 DEF Inv, GuardInv
        <5>2. job'.seen["config"] = job.seen["config"]
          BY <2>4, <3>3 DEF Kind
        <5>3. QED
          BY <1>a, <2>4, <5>1, <5>2 DEF Clear
      <4>3. QED
        BY <3>1, <3>3, <4>2 DEF GuardInv
    <3>4. QED
      BY <1>a, <3>2, <3>3
  <2>6. \A k \in Kind : job'.at \in Before(k)
    BY <2>4 DEF Before, step
  <2>7. IsJob(job)'
    BY <2>4 DEF IsJob
  <2>8. QED
    BY <1>2, <1>a, <2>5, <2>6, <2>7, JobSteps
<1>3. QED
  <2>1. PICK got \in ReadLiveEnv(c) :
          IF mode = "block" /\ ~job.allow /\ (got = Failed \/ Drift(c))
          THEN Fails(got = Failed)
          ELSE /\ job' = [job EXCEPT !.at = IF c = "config" THEN "guardSecret" ELSE "applyConfig",
                                     !.seen[c] = live[c]]
               /\ UNCHANGED <<pending, events>>
    BY DEF GuardEnv
  <2>2. QED
    BY <1>1, <1>2, <2>1

LEMMA UpsertSteps == ASSUME Inv, NEW c \in Kind, UpsertEnv(c) PROVE Inv'
<1>a. /\ UNCHANGED <<mode, file, template, rolling, pods, edits, hashSkew>>
      /\ IsJob(job) /\ c \in {"config", "secret"}
      /\ job.at = IF c = "config" THEN "applyConfig" ELSE "applySecret"
  BY DEF UpsertEnv, Inv, ShapeInv, At, Kind
<1>1. CASE Fails(TRUE) /\ UNCHANGED <<live, baseline>>
  BY <1>a, <1>1, FailSteps
<1>2. CASE /\ live' = [live EXCEPT ![c] = LiveAfter(c)]
           /\ SetEnvBaseline(c)
           /\ pending' = IF live'[c] = Held(c) THEN pending \ {c} ELSE pending \cup {c}
           /\ job' = IF c = "config"
                     THEN [job EXCEPT !.at = "applySecret", !.read[c] = None, !.seen[c] = None]
                     ELSE JobAt("hash", job.allow)
  <2>1. /\ live' = [k \in Kind |-> live'[k]] /\ \A k \in Kind : k # c => live'[k] = live[k]
        /\ baseline' = [k \in Kind |-> baseline'[k]]
        /\ \A k \in Kind : k # c => baseline'[k] = baseline[k]
    BY <1>2 DEF Inv, ShapeInv, SetEnvBaseline
  <2>2. /\ IsJob(job')
        /\ c = "config" => /\ job'.at = "applySecret" /\ job'.digests = job.digests
                           /\ job'.allow = job.allow
                           /\ job'.read["secret"] = job.read["secret"]
                           /\ job'.seen["secret"] = job.seen["secret"]
        /\ c = "secret" => job'.at = "hash"
    <3>1. CASE c = "config"
      <4> DEFINE read == [job.read EXCEPT ![c] = None]
                 seen == [job.seen EXCEPT ![c] = None]
                 n == [job EXCEPT !.at = "applySecret", !.read = read, !.seen = seen]
      <4>1. job' = n
        BY <1>2, <3>1
      <4>2. /\ seen \in [Kind -> {seen[k] : k \in Kind}] /\ seen["secret"] = job.seen["secret"]
            /\ read \in [Kind -> {read[k] : k \in Kind}] /\ read["secret"] = job.read["secret"]
        BY <1>a, <3>1 DEF IsJob, Kind
      <4> HIDE DEF read, seen
      <4>3. /\ n \in [at : {"applySecret"}, allow : BOOLEAN, read : [Kind -> {read[k] : k \in Kind}],
                      digests : BOOLEAN, hash : {job.hash}, seen : [Kind -> {seen[k] : k \in Kind}]]
            /\ n.at = "applySecret" /\ n.hash = job.hash /\ n.read = read /\ n.seen = seen
            /\ n.digests = job.digests /\ n.allow = job.allow
        BY <1>a, <4>2 DEF IsJob
      <4> HIDE DEF n
      <4>4. QED
        BY <3>1, <4>1, <4>2, <4>3 DEF IsJob
    <3>2. CASE c = "secret"
      <4>1. job' = JobAt("hash", job.allow) /\ job.allow \in BOOLEAN
        BY <1>2, <1>a, <3>2 DEF IsJob
      <4>2. QED
        BY <3>2, <4>1, NewJobs
    <3>3. QED
      BY <1>a, <3>1, <3>2
  <2>3. ShapeInv'
    BY <1>a, <2>1, <2>2 DEF Inv, ShapeInv, EnvHash, IsJob
  <2>4. SettleInv'
    <3>1. \A k \in Kind : Held(k)' = Held(k)
      BY <1>a DEF Held, Meaning
    <3>2. ASSUME NEW k \in Kind, live'[k] # Missing, k \notin pending', live'[k] # Held(k)
          PROVE  Owed(k)'
      <4>1. k # c
        BY <1>2, <3>2
      <4>2. Owed(k)
        BY <1>2, <2>1, <3>2, <4>1 DEF Inv, SettleInv
      <4>3. CASE c = "config"
        <5>1. k = "secret"
          BY <4>1, <4>3 DEF Kind
        <5>2. QED
          BY <2>2, <4>3, <5>1 DEF Owed, Before
      <4>4. CASE c = "secret"
        <5>1. k = "config"
          BY <4>1, <4>4 DEF Kind
        <5>2. job.at \notin Before(k)
          BY <1>a, <4>4, <5>1 DEF Before
        <5>3. QED
          BY <1>a, <4>2, <5>2 DEF Owed
      <4>5. QED
        BY <1>a, <4>3, <4>4
    <3>3. QED
      BY <3>1, <3>2 DEF SettleInv
  <2>5. PodInv'
    BY <1>a DEF Inv, PodInv, Meaning
  <2>6. GuardInv'
    <3>1. CASE c = "config"
      <4>1. ASSUME job'.digests = TRUE, mode' = "block", job'.allow = FALSE
            PROVE  Clear("secret")'
        <5>1. Clear("secret")
          BY <1>a, <2>2, <3>1, <4>1 DEF Inv, GuardInv
        <5>2. baseline'["secret"] = baseline["secret"]
          BY <2>1, <3>1 DEF Kind
        <5>3. QED
          BY <2>2, <3>1, <5>1, <5>2 DEF Clear
      <4>2. QED
        BY <2>2, <3>1, <4>1 DEF GuardInv
    <3>2. CASE c = "secret"
      BY <2>2, <3>2 DEF GuardInv
    <3>3. QED
      BY <1>a, <3>1, <3>2
  <2>7. QED
    BY <2>3, <2>4, <2>5, <2>6 DEF Inv
<1>3. QED
  BY <1>1, <1>2 DEF UpsertEnv

\* The hash is taken and the Deployment applied: both objects have been applied by then.
LEMMA RolloutSteps == ASSUME Inv, HashConfig \/ ApplyDeployment PROVE Inv'
<1>a. /\ UNCHANGED <<mode, file, live, baseline, pods, edits, hashSkew>>
      /\ IsJob(job) /\ job.allow \in BOOLEAN
      /\ \A k \in Kind : job.at \notin Before(k)
  BY DEF HashConfig, ApplyDeployment, cluster, Inv, ShapeInv, IsJob, At, Before
<1>1. CASE Fails(TRUE) /\ UNCHANGED <<template, rolling>>
  BY <1>a, <1>1, FailSteps
<1>2. CASE HashConfig /\ ~Fails(TRUE)
  <2>1. /\ UNCHANGED <<template, rolling, pending>>
        /\ job' = [job EXCEPT !.at = "deployment", !.hash = file["config"]]
    BY <1>2 DEF HashConfig, cluster
  <2> DEFINE h == file["config"]
             n == [job EXCEPT !.at = "deployment", !.hash = h]
  <2>2. /\ n \in [at : {"deployment"}, allow : BOOLEAN, read : [Kind -> {job.read[k] : k \in Kind}],
                  digests : BOOLEAN, hash : {h}, seen : [Kind -> {job.seen[k] : k \in Kind}]]
        /\ n.at = "deployment" /\ n.hash = h /\ n.read = job.read /\ n.seen = job.seen
    <3> HIDE DEF h
    <3>1. QED
      BY <1>a DEF IsJob
  <2>3. job' = n
    BY <2>1
  <2> HIDE DEF n, h
  <2>4. IsJob(job') /\ job'.at = "deployment"
    BY <2>2, <2>3 DEF IsJob
  <2>5. GuardInv' /\ IsJob(job)'
    BY <2>4 DEF GuardInv, IsJob
  <2>6. QED
    BY <1>a, <2>1, <2>5, JobSteps
<1>3. CASE /\ template' = EnvHash(job.hash, file["secret"])
           /\ rolling' = (rolling \/ template # EnvHash(job.hash, file["secret"]))
           /\ \/ job' = NoJob /\ UNCHANGED pending
              \/ Fails(TRUE)
  <2>1. /\ IsJob(job') /\ job'.at \in {"none", "queued"}
        /\ pending' = pending \/ pending' = pending \cup {k \in Kind : Held(k) # live[k]}
    BY <1>a, <1>3, NewJobs DEF Fails, NoJob, NewJob
  <2>2. ShapeInv'
    BY <1>a, <1>3, <2>1 DEF Inv, ShapeInv, EnvHash, IsJob
  <2>3. SettleInv'
    <3>1. \A k \in Kind : Held(k)' = Held(k)
      BY <1>a DEF Held, Meaning
    <3>2. \A k \in Kind : Owed(k) => Owed(k)'
      BY <1>a DEF Owed
    <3>3. QED
      BY <1>a, <2>1, <3>1, <3>2 DEF Inv, SettleInv
  <2>4. PodInv'
    <3>1. ASSUME rolling' = FALSE
          PROVE  rolling = FALSE /\ template' = template
      BY <1>3, <3>1 DEF Inv, ShapeInv
    <3>2. QED
      BY <1>a, <3>1 DEF Inv, PodInv, Meaning
  <2>5. GuardInv'
    BY <2>1 DEF GuardInv
  <2>6. QED
    BY <2>2, <2>3, <2>4, <2>5 DEF Inv
<1>4. CASE HashConfig
  BY <1>1, <1>2, <1>4 DEF HashConfig, cluster
<1>5. CASE ApplyDeployment
  BY <1>1, <1>3, <1>5 DEF ApplyDeployment
<1>6. QED
  BY <1>4, <1>5

\* What a request does before its file is written concerns only its own slot.
LEMMA RequestSteps ==
    ASSUME Inv, NEW s \in Slot,
           \/ \E k \in Kind : \E v : Put(s, k, v) \/ PutText(s, k, v)
           \/ \E k \in Kind : Open(s, k)
           \/ \E v : Save(s, v)
           \/ PutMerged(s)
    PROVE  Inv'
<1>1. /\ UNCHANGED <<mode, file, live, baseline, template, rolling, pods, job, pending, hashSkew>>
      /\ edits[s].at # "redeploy"
  BY DEF Put, PutText, Open, Save, PutMerged, cluster, history, Free
<1>2. \E e : edits' = [edits EXCEPT ![s] = e]
  BY DEF Put, PutText, Open, Save, PutMerged
<1>3. /\ \A q \in Slot : q # s => edits'[q] = edits[q]
      /\ edits' = [q \in Slot |-> edits'[q]]
  BY <1>2 DEF Inv, ShapeInv
<1>4. QED
  BY <1>1, <1>3, EditSteps

LEMMA NextInv == Inv /\ [Next]_vars => Inv'
<1> SUFFICES ASSUME Inv, [Next]_vars PROVE Inv'
  OBVIOUS
<1>1. ASSUME NEW s \in Slot, NEW k \in Kind,
             \/ \E v \in Val \cup {Blank, None} : Put(s, k, v)
             \/ \E text \in Raw \cup {Bad} : PutText(s, k, text)
             \/ Open(s, k)
      PROVE  Inv'
  BY <1>1, RequestSteps
<1>2. ASSUME NEW s \in Slot, (\E v \in RowsPut : Save(s, v)) \/ PutMerged(s) PROVE Inv'
  BY <1>2, RequestSteps
<1>3. ASSUME NEW s \in Slot, PutWritten(s) \/ \E declined \in BOOLEAN : PutAnswered(s, declined)
      PROVE  Inv'
  BY <1>3, PutWrittenSteps, PutAnsweredSteps
<1>4. ASSUME NEW k \in Kind,
             \/ \E v \in Val \cup {None, Missing} : Outside(k, v)
             \/ FileMissing(k) \/ Touch(k) \/ GuardEnv(k) \/ UpsertEnv(k)
      PROVE  Inv'
  BY <1>4, OtherSteps, ReadSteps, TouchSteps, GuardSteps, UpsertSteps
<1>5. CASE PodsStart \/ \E m \in Modes : Restart(m)
  BY <1>5, OtherSteps, RestartSteps
<1>6. CASE (\E allow \in BOOLEAN : Deploy(allow)) \/ ReadConfig \/ ReadSecret
  BY <1>6, ReadSteps
<1>7. CASE HashConfig \/ ApplyDeployment
  BY <1>7, RolloutSteps
<1>8. CASE UNCHANGED vars
  <2>1. UNCHANGED <<mode, file, live, baseline, template, rolling, pods, edits, job, pending, hashSkew>>
    BY <1>8 DEF vars
  <2>2. IsJob(job)' /\ GuardInv'
    BY <2>1 DEF Inv, ShapeInv, GuardInv, Clear, IsJob
  <2>3. QED
    BY <2>1, <2>2, JobSteps
<1>9. QED
  BY <1>1, <1>2, <1>3, <1>4, <1>5, <1>6, <1>7, <1>8 DEF Next

LEMMA Invariant == Spec => []Inv
BY InitInv, NextInv, PTL DEF Spec

-------------------------------------------------------------------------------
(* The theorems                                                            *)

\* When nothing is in flight, a file that differs from the cluster was left for a
\* reason that is on record (routes/env.ts, services/deploy.ts syncEnv).
THEOREM EditsArrive == Spec => []EditsReachTheCluster
<1>1. Inv => EditsReachTheCluster
  <2> SUFFICES ASSUME Inv, At("none"), \A s \in Slot : Free(s), NEW k \in Kind,
                      live[k] # Missing, k \notin pending
               PROVE  live[k] = Held(k)
    BY DEF EditsReachTheCluster
  <2>1. ~Owed(k)
    BY DEF Owed, At, Free, Before
  <2>2. QED
    BY <2>1 DEF Inv, SettleInv
<1>2. QED
  BY <1>1, Invariant, PTL

\* Files, cluster and pod template that agree mean pods that run what these hold,
\* unless they were started in between (services/deploy.ts deployR2Bundle).
THEOREM PodsRunTheFiles == Spec => []PodsFollow
<1>1. Inv => PodsFollow
  <2> SUFFICES ASSUME Inv, ~rolling, \A k \in Kind : live[k] = Held(k),
                      template = EnvHash(file["config"], file["secret"]), ~hashSkew
               PROVE  pods = live
    BY DEF PodsFollow
  <2>1. ASSUME NEW k \in Kind PROVE pods[k] = live[k]
    <3>1. template[k] = file[k]
      BY DEF EnvHash, Kind
    <3>2. rolling = FALSE /\ hashSkew = FALSE
      BY DEF Inv, ShapeInv
    <3>3. Meaning(template[k]) = pods[k]
      BY <3>2 DEF Inv, PodInv
    <3>4. QED
      BY <3>1, <3>3 DEF Held
  <2>2. QED
    BY <2>1 DEF Inv, ShapeInv
<1>2. QED
  BY <1>1, Invariant, PTL

\* With the guard on block, what someone else put into the cluster is overwritten only
\* by a deploy that could not have seen it (services/env-guard.ts evaluateDrift).
THEOREM OutsideEditsAreKept == Spec => KeepsOutsideEdits
<1>1. Inv /\ [Next]_vars =>
        [\A k \in Kind :
            UpsertEnv(k) /\ live'[k] # live[k] /\ job.digests /\ mode = "block" /\ ~job.allow
            => \/ live[k] = Missing \/ baseline[k] = None
               \/ live[k] = baseline[k]
               \/ job.read[k] # baseline[k]
               \/ job.seen[k] # live[k]]_vars
  <2> SUFFICES ASSUME Inv, NEW k \in Kind, UpsertEnv(k), job.digests, mode = "block", ~job.allow
               PROVE  \/ live[k] = Missing \/ baseline[k] = None
                      \/ live[k] = baseline[k]
                      \/ job.read[k] # baseline[k]
                      \/ job.seen[k] # live[k]
    OBVIOUS
  <2>1. job.digests = TRUE /\ job.allow = FALSE
    BY DEF Inv, ShapeInv, IsJob
  <2>2. Clear(k)
    BY <2>1 DEF UpsertEnv, At, Inv, GuardInv, Kind
  <2>3. QED
    BY <2>2 DEF Clear
<1>2. QED
  BY <1>1, Invariant, PTL DEF Spec, KeepsOutsideEdits

===============================================================================

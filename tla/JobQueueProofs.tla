---------------------------- MODULE JobQueueProofs ----------------------------
(* Theorems about JobQueue, for every value of its constants.             *)
EXTENDS JobQueue, WellFoundedInduction, TLAPS

-------------------------------------------------------------------------------
(* The statements of queue.ts keep the jobs table well typed.              *)

JobTable == [Job -> JobRow]

\* A countdown that loses a unit stays within its range.
LEMMA Countdowns ==
    /\ 0 \in 0..LeaseTtl /\ LeaseTtl \in 0..LeaseTtl
    /\ 0 \in 0..HeartbeatEvery /\ HeartbeatEvery \in 0..HeartbeatEvery
    /\ \A n \in 0..LeaseTtl : Less(n) \in 0..LeaseTtl
    /\ \A n \in 0..HeartbeatEvery : Less(n) \in 0..HeartbeatEvery
    /\ \A n \in Nat : Less(n) \in Nat
BY TimersAssumption DEF Less

LEMMA BackoffType == ASSUME NEW n PROVE BackoffMs(n) \in Nat
BY TimersAssumption DEF BackoffMs

\* Every set of naturals that is not empty has a least element, so claim()
\* returns a claimable job whenever there is one.
LEMMA OldestIn ==
    ASSUME NEW S \in SUBSET Job, S # {}
    PROVE  Oldest(S) \in S /\ \A k \in S : Oldest(S) <= k
<1> DEFINE Less2 == {p \in Nat \X Nat : p[1] < p[2]}
<1>1. IsWellFoundedOn(Less2, Nat)
  BY NatLessThanWellFounded DEF OpToRel
<1>2. S \subseteq Nat
  BY JobsAssumption
<1> HIDE DEF Less2
<1>3. PICK j \in S : \A k \in S : ~ (<<k, j>> \in Less2)
  BY <1>1, <1>2, WFMin
<1>4. ASSUME NEW k \in S PROVE j <= k
  <2>1. j \in Nat /\ k \in Nat
    BY <1>2
  <2>2. ~ (<<k, j>> \in Less2)
    BY <1>3
  <2>3. ~ (k < j)
    BY <2>1, <2>2 DEF Less2
  <2>4. QED
    BY <2>1, <2>3
<1>5. QED
  BY <1>4 DEF Oldest

\* What each statement does to the one row it names.
LEMMA RowUpdates ==
    ASSUME NEW r \in JobRow, NEW w \in Worker, NEW n \in Nat
    PROVE  /\ [r EXCEPT !.state = "running", !.lease = LeaseTtl,
                        !.holder = w, !.attempts = @ + 1] \in JobRow
           /\ r.attempts > 0 =>
                [r EXCEPT !.state = "pending", !.attempts = @ - 1, !.lease = 0,
                          !.holder = None, !.wait = n] \in JobRow
           /\ [r EXCEPT !.token = n] \in JobRow
           /\ [r EXCEPT !.lease = LeaseTtl] \in JobRow
           /\ [r EXCEPT !.max = r.attempts] \in JobRow
           /\ \A st \in Terminal :
                [r EXCEPT !.state = st, !.lease = 0, !.holder = None] \in JobRow
           /\ [r EXCEPT !.state = "pending", !.lease = 0, !.holder = None,
                        !.wait = n] \in JobRow
<1>1. [r EXCEPT !.state = "running", !.lease = LeaseTtl,
                !.holder = w, !.attempts = @ + 1] \in JobRow
  <2>1. r.attempts + 1 \in Nat
    BY DEF JobRow
  <2>2. QED
    BY <2>1, Countdowns DEF JobRow, Live
<1>2. ASSUME r.attempts > 0
      PROVE  [r EXCEPT !.state = "pending", !.attempts = @ - 1, !.lease = 0,
                       !.holder = None, !.wait = n] \in JobRow
  <2>1. r.attempts - 1 \in Nat
    BY <1>2 DEF JobRow
  <2>2. QED
    BY <2>1, Countdowns DEF JobRow, Live
<1>3. [r EXCEPT !.token = n] \in JobRow /\ [r EXCEPT !.max = r.attempts] \in JobRow
  BY DEF JobRow
<1>4. [r EXCEPT !.lease = LeaseTtl] \in JobRow
  BY Countdowns DEF JobRow
<1>5. \A st \in Terminal :
        [r EXCEPT !.state = st, !.lease = 0, !.holder = None] \in JobRow
  BY Countdowns DEF JobRow
<1>6. [r EXCEPT !.state = "pending", !.lease = 0, !.holder = None,
                !.wait = n] \in JobRow
  BY Countdowns DEF JobRow, Live
<1>7. QED
  BY <1>1, <1>2, <1>3, <1>4, <1>5, <1>6

LEMMA ClaimType ==
    ASSUME NEW q \in JobTable, NEW j \in Job, NEW w \in Worker, NEW t \in Nat
    PROVE  /\ Claim(q, j, w) \in JobTable
           /\ SetFencingToken(Claim(q, j, w), j, t) \in JobTable
           /\ DeferClaim(Claim(q, j, w), j) \in JobTable
<1> DEFINE r == [q[j] EXCEPT !.state = "running", !.lease = LeaseTtl,
                             !.holder = w, !.attempts = @ + 1]
           u == [r EXCEPT !.state = "pending", !.attempts = @ - 1, !.lease = 0,
                          !.holder = None, !.wait = PollDelay]
<1>1. q[j] \in JobRow
  BY DEF JobTable
<1>2. r \in JobRow /\ r.attempts > 0
  <2>1. r \in JobRow
    BY <1>1, RowUpdates
  <2>2. r.attempts = q[j].attempts + 1 /\ q[j].attempts \in Nat
    BY <1>1 DEF JobRow
  <2>3. QED
    BY <2>1, <2>2
<1>3. u \in JobRow /\ [r EXCEPT !.token = t] \in JobRow
  BY <1>2, RowUpdates, TimersAssumption
<1>4. Claim(q, j, w) = [q EXCEPT ![j] = r]
  BY <1>1 DEF Claim, JobTable, JobRow
<1>5. Claim(q, j, w) \in JobTable /\ Claim(q, j, w)[j] = r
  BY <1>2, <1>4 DEF JobTable
<1>6. SetFencingToken(Claim(q, j, w), j, t)
        = [Claim(q, j, w) EXCEPT ![j] = [r EXCEPT !.token = t]]
  BY <1>5 DEF SetFencingToken, JobTable
<1>7. DeferClaim(Claim(q, j, w), j) = [Claim(q, j, w) EXCEPT ![j] = u]
  BY <1>5 DEF DeferClaim, JobTable
<1> HIDE DEF r, u
<1>8. QED
  BY <1>3, <1>5, <1>6, <1>7 DEF JobTable

LEMMA SettleType ==
    ASSUME NEW q \in JobTable, NEW j \in Job, NEW w \in Worker
    PROVE  /\ Heartbeat(q, j) \in JobTable
           /\ Complete(q, j, w) \in JobTable
           /\ NoRetry(q, j) \in JobTable
           /\ Fail(q, j, w) \in JobTable
<1>1. q[j] \in JobRow /\ BackoffMs(q[j].attempts) \in Nat
  BY BackoffType DEF JobTable
<1>2. ASSUME NEW r \in JobRow PROVE [q EXCEPT ![j] = r] \in JobTable
  BY DEF JobTable
<1>3. Heartbeat(q, j) \in {q, [q EXCEPT ![j] = [q[j] EXCEPT !.lease = LeaseTtl]]}
  BY DEF Heartbeat, JobTable
<1>4. Complete(q, j, w) \in
        {q, [q EXCEPT ![j] = [q[j] EXCEPT !.state = "done", !.lease = 0,
                                          !.holder = None]]}
  BY DEF Complete, JobTable
<1>5. NoRetry(q, j) = [q EXCEPT ![j] = [q[j] EXCEPT !.max = q[j].attempts]]
  BY DEF NoRetry, JobTable
<1>6. Fail(q, j, w) \in
        {q, [q EXCEPT ![j] = [q[j] EXCEPT !.state = "failed", !.lease = 0,
                                          !.holder = None]],
            [q EXCEPT ![j] = [q[j] EXCEPT !.state = "pending", !.lease = 0,
                                          !.holder = None,
                                          !.wait = BackoffMs(q[j].attempts)]]}
  <2>1. q[j].attempts \in Nat /\ q[j].max \in Nat
    BY <1>1 DEF JobRow
  <2>2. CASE ~OwnerGuard(q, j, w)
    BY <2>2 DEF Fail
  <2>3. CASE OwnerGuard(q, j, w) /\ q[j].attempts >= q[j].max
    BY <2>1, <2>3 DEF Fail, JobTable
  <2>4. CASE OwnerGuard(q, j, w) /\ q[j].attempts < q[j].max
    BY <2>1, <2>4 DEF Fail, JobTable
  <2>5. QED
    BY <2>1, <2>2, <2>3, <2>4
<1>7. Heartbeat(q, j) \in JobTable
  BY <1>1, <1>2, <1>3, RowUpdates
<1>8. Complete(q, j, w) \in JobTable /\ NoRetry(q, j) \in JobTable
  BY <1>1, <1>2, <1>4, <1>5, RowUpdates DEF Terminal
<1>9. Fail(q, j, w) \in JobTable
  BY <1>1, <1>2, <1>6, RowUpdates DEF Terminal
<1>10. QED
  BY <1>7, <1>8, <1>9

LEMMA ReapType ==
    ASSUME NEW q \in JobTable
    PROVE  ReapExpiredLeases(q) \in JobTable
<1>1. ASSUME NEW j \in Job PROVE ReapExpiredLeases(q)[j] \in JobRow
  <2>1. q[j] \in JobRow
    BY DEF JobTable
  <2>2. /\ [q[j] EXCEPT !.state = "dead", !.holder = None] \in JobRow
        /\ [q[j] EXCEPT !.state = "pending", !.holder = None, !.wait = 0] \in JobRow
    BY <2>1 DEF JobRow, Live, Terminal
  <2>3. QED
    BY <2>1, <2>2 DEF ReapExpiredLeases
<1>2. QED
  BY <1>1 DEF ReapExpiredLeases, JobTable

LEMMA NextClaim ==
    ASSUME NEW q \in JobTable, Claimable(q) # {}
    PROVE  LET j == Oldest(Claimable(q)) IN
             j \in Job /\ q[j].state = "pending"
<1>1. Claimable(q) \in SUBSET Job
  BY DEF Claimable
<1>2. Oldest(Claimable(q)) \in Claimable(q)
  BY <1>1, OldestIn
<1>3. QED
  BY <1>2 DEF Claimable


Loops == /\ worker \in [Worker -> Process]
         /\ \A w \in Worker : Running(w) => worker[w].job \in Job

\* An action that touches one loop leaves the others as they were.
LEMMA OneLoopMoves ==
    ASSUME Loops, NEW w \in Worker, NEW p \in Process,
           p.pc = "running" => p.job \in Job,
           worker' = [worker EXCEPT ![w] = p]
    PROVE  Loops'
BY DEF Loops, Running

LEMMA LockType ==
    ASSUME lock \in [Service -> LockRow], NEW s \in Service, NEW w \in Worker,
           NEW t \in Nat,
           AcquireLock(s, w) \/ ReleaseLock(s, w) \/ RenewLock(s, w, t)
    PROVE  lock' \in [Service -> LockRow]
<1>1. lock[s] \in LockRow
  OBVIOUS
<1>2. ASSUME NEW l \in LockRow PROVE [lock EXCEPT ![s] = l] \in [Service -> LockRow]
  OBVIOUS
<1>3. CASE AcquireLock(s, w)
  <2>1. [holder |-> w, token |-> lock[s].token + 1, ttl |-> LeaseTtl] \in LockRow
    <3>1. lock[s].token + 1 \in Nat
      BY <1>1 DEF LockRow
    <3>2. QED
      BY <3>1, Countdowns DEF LockRow
  <2>2. QED
    BY <1>2, <1>3, <2>1 DEF AcquireLock
<1>4. CASE ReleaseLock(s, w)
  <2>1. lock' \in {lock, [lock EXCEPT ![s] = [lock[s] EXCEPT !.ttl = 0]]}
    BY <1>4 DEF ReleaseLock
  <2>2. [lock[s] EXCEPT !.ttl = 0] \in LockRow
    BY <1>1, Countdowns DEF LockRow
  <2>3. QED
    BY <1>2, <2>1, <2>2
<1>5. CASE RenewLock(s, w, t)
  <2>1. lock' \in {lock, [lock EXCEPT ![s] = [lock[s] EXCEPT !.ttl = LeaseTtl]]}
    BY <1>5 DEF RenewLock
  <2>2. [lock[s] EXCEPT !.ttl = LeaseTtl] \in LockRow
    BY <1>1, Countdowns DEF LockRow
  <2>3. QED
    BY <1>2, <2>1, <2>2
<1>6. QED
  BY <1>3, <1>4, <1>5

-------------------------------------------------------------------------------
(* Type correctness                                                        *)

\* Every step leaves every table well typed: the queue's rows, the locks, the
\* fenced register and what each loop holds (migrations 0005 and 0004).
THEOREM TypeCorrect == Spec => []TypeOK
<1>1. Init => TypeOK
  <2> SUFFICES ASSUME Init PROVE TypeOK
    OBVIOUS
  <2>1. [state |-> "new", attempts |-> 0, max |-> MaxAttempts, wait |-> 0,
         lease |-> 0, holder |-> None, token |-> 0] \in JobRow
    BY JobsAssumption, Countdowns DEF JobRow
  <2>2. [holder |-> None, token |-> 0, ttl |-> 0] \in LockRow
    BY Countdowns DEF LockRow
  <2>3. Idle \in Process /\ Idle.pc = "idle"
    <3>1. Down \in Process
      BY Countdowns DEF Down, Process
    <3>2. QED
      BY <3>1 DEF Idle, Process
  <2>4. QED
    BY <2>1, <2>2, <2>3 DEF Init, TypeOK, Running
<1>2. TypeOK /\ [Next]_vars => TypeOK'
  <2> SUFFICES ASSUME TypeOK, [Next]_vars PROVE TypeOK'
    OBVIOUS
  <2>a. /\ job \in JobTable /\ Reaped \in JobTable
        /\ \A j \in Job : ServiceOf[j] \in Service
    BY ReapType, JobsAssumption DEF TypeOK, JobTable, Reaped
  <2>b. Loops /\ lock \in [Service -> LockRow] /\ postponed \in [Job -> BOOLEAN]
    BY DEF TypeOK, Loops
  <2>c. ASSUME NEW w \in Worker
        PROVE  /\ worker[w] \in Process /\ worker[w].token \in Nat
               /\ Running(w) => /\ worker[w].job \in Job
                                /\ ServiceOf[worker[w].job] \in Service
    BY <2>a, <2>b DEF Loops, Process
  <2>d. ASSUME job' \in JobTable, lock' \in [Service -> LockRow], Loops',
               postponed' \in [Job -> BOOLEAN], UNCHANGED current
        PROVE  TypeOK'
    BY <2>d DEF TypeOK, Loops, JobTable
  <2>e. UNCHANGED worker => Loops'
    BY <2>b DEF Loops, Running
  <2>f. Idle \in Process /\ Down \in Process /\ Idle.pc = "idle" /\ Down.pc = "down"
    <3>1. Down \in Process /\ Down.pc = "down"
      BY Countdowns DEF Down, Process
    <3>2. QED
      BY <3>1 DEF Idle, Process
  <2>g. ASSUME NEW w \in Worker, LoopAgain(w) PROVE Loops'
    <3>1. PICK p \in {Down, Idle} : worker' = [worker EXCEPT ![w] = p]
      BY <2>g DEF LoopAgain
    <3>2. QED
      BY <2>b, <2>f, <3>1, OneLoopMoves
  <2>1. ASSUME NEW j \in Job, NEW delay \in StartDelays, Enqueue(j, delay)
        PROVE  TypeOK'
    <3>1. job' = [job EXCEPT ![j] = [job[j] EXCEPT !.state = "pending",
                                                   !.wait = delay]]
      BY <2>1, <2>a DEF Enqueue, JobTable
    <3>2. [job[j] EXCEPT !.state = "pending", !.wait = delay] \in JobRow
      BY <2>a, TimersAssumption DEF JobTable, JobRow, Live
    <3>3. job' \in JobTable
      BY <2>a, <3>1, <3>2 DEF JobTable
    <3>4. QED
      BY <2>1, <2>b, <2>d, <2>e, <3>3 DEF Enqueue
  <2>2. ASSUME NEW j \in Job, CancelPending(j) PROVE TypeOK'
    <3>1. job' = [job EXCEPT ![j] = [job[j] EXCEPT !.state = "deleted"]]
      BY <2>2, <2>a DEF CancelPending, JobTable
    <3>2. [job[j] EXCEPT !.state = "deleted"] \in JobRow
      BY <2>a DEF JobTable, JobRow, Terminal
    <3>3. job' \in JobTable
      BY <2>a, <3>1, <3>2 DEF JobTable
    <3>4. QED
      BY <2>2, <2>b, <2>d, <2>e, <3>3 DEF CancelPending
  <2>3. ASSUME NEW w \in Worker, TickNothing(w) PROVE TypeOK'
    BY <2>3, <2>a, <2>b, <2>d, <2>e DEF TickNothing, NotePostponed
  <2>4. ASSUME NEW w \in Worker, TickDefer(w) PROVE TypeOK'
    <3>1. job' \in JobTable
      BY <2>4, <2>a, NextClaim, ClaimType DEF TickDefer
    <3>2. postponed' \in [Job -> BOOLEAN]
      BY <2>4, <2>b DEF TickDefer, Expired
    <3>3. QED
      BY <2>4, <2>b, <2>d, <2>e, <3>1, <3>2 DEF TickDefer
  <2>5. ASSUME NEW w \in Worker, TickRun(w) PROVE TypeOK'
    <3> DEFINE j == Oldest(Claimable(Reaped))
               s == ServiceOf[j]
               t == lock[s].token + 1
               p == [worker[w] EXCEPT !.pc = "running", !.job = j, !.token = t,
                                      !.attempt = Reaped[j].attempts + 1,
                                      !.beat = HeartbeatEvery]
    <3>1. j \in Job /\ s \in Service
      BY <2>5, <2>a, NextClaim DEF TickRun
    <3>2. /\ AcquireLock(s, w)
          /\ job' = SetFencingToken(Claim(Reaped, j, w), j, t)
          /\ worker' = [worker EXCEPT ![w].pc = "running", ![w].job = j,
                            ![w].token = t, ![w].attempt = Reaped[j].attempts + 1,
                            ![w].beat = HeartbeatEvery]
          /\ NotePostponed(Reaped) /\ UNCHANGED current
      BY <2>5 DEF TickRun
    <3> HIDE DEF j
    <3>3. t \in Nat /\ Reaped[j].attempts + 1 \in Nat
      BY <3>1, <2>a, <2>b DEF LockRow, JobTable, JobRow
    <3>4. job' \in JobTable
      BY <2>a, <3>1, <3>2, <3>3, ClaimType
    <3>5. lock' \in [Service -> LockRow]
      BY <2>b, <3>1, <3>2, <3>3, LockType
    <3>6. p \in Process /\ p.job = j
      BY <2>c, <3>1, <3>3, Countdowns DEF Process
    <3>7. worker' = [worker EXCEPT ![w] = p]
      BY <2>b, <3>2 DEF Loops
    <3>8. Loops'
      BY <2>b, <3>1, <3>6, <3>7, OneLoopMoves
    <3>9. postponed' \in [Job -> BOOLEAN]
      BY <2>b, <3>1, <3>2 DEF NotePostponed, TypeOK
    <3>10. QED
      BY <3>2, <3>4, <3>5, <3>8, <3>9 DEF TypeOK, Loops, JobTable
  <2>6. ASSUME NEW w \in Worker, HandlerWrites(w) PROVE TypeOK'
    <3>1. current' \in [Service -> [job : Job \cup {0}, token : Nat]]
      BY <2>6, <2>c DEF HandlerWrites, FencedSetCurrent, TypeOK, Running
    <3>2. QED
      BY <2>6, <3>1 DEF HandlerWrites, TypeOK, Running
  <2>7. ASSUME NEW w \in Worker, HandlerReturns(w) PROVE TypeOK'
    <3>1. worker[w].job \in Job /\ ServiceOf[worker[w].job] \in Service
      BY <2>7, <2>c DEF HandlerReturns, Running
    <3>2. job' \in JobTable
      BY <2>7, <2>a, <3>1, SettleType DEF HandlerReturns
    <3>3. lock' \in [Service -> LockRow]
      BY <2>7, <2>b, <2>c, <3>1, LockType DEF HandlerReturns
    <3>4. Loops'
      BY <2>7, <2>g DEF HandlerReturns
    <3>5. QED
      BY <2>7, <2>b, <2>d, <3>2, <3>3, <3>4 DEF HandlerReturns
  <2>8. ASSUME NEW w \in Worker, NEW nr \in BOOLEAN, HandlerThrows(w, nr)
        PROVE  TypeOK'
    <3>1. worker[w].job \in Job /\ ServiceOf[worker[w].job] \in Service
      BY <2>8, <2>c DEF HandlerThrows, Running
    <3>2. (IF nr THEN NoRetry(job, worker[w].job) ELSE job) \in JobTable
      BY <2>a, <3>1, SettleType
    <3>3. job' \in JobTable
      BY <2>8, <3>1, <3>2, SettleType DEF HandlerThrows
    <3>4. lock' \in [Service -> LockRow]
      BY <2>8, <2>b, <2>c, <3>1, LockType DEF HandlerThrows
    <3>5. Loops'
      BY <2>8, <2>g DEF HandlerThrows
    <3>6. postponed' \in [Job -> BOOLEAN]
      BY <2>8, <2>b DEF HandlerThrows, NotePostponed
    <3>7. QED
      BY <2>8, <2>d, <3>3, <3>4, <3>5, <3>6 DEF HandlerThrows
  <2>9. ASSUME NEW w \in Worker, Beat(w) PROVE TypeOK'
    <3> DEFINE p == [worker[w] EXCEPT !.beat = HeartbeatEvery]
    <3>1. worker[w].job \in Job /\ ServiceOf[worker[w].job] \in Service
      BY <2>9, <2>c DEF Beat, Running
    <3>2. job' \in JobTable
      BY <2>9, <2>a, <3>1, SettleType DEF Beat
    <3>3. lock' \in [Service -> LockRow]
      BY <2>9, <2>b, <2>c, <3>1, LockType DEF Beat
    <3>4. p \in Process /\ p.job = worker[w].job
      BY <2>c, Countdowns DEF Process
    <3>5. worker' = [worker EXCEPT ![w] = p]
      BY <2>9, <2>b DEF Beat, Loops
    <3>6. Loops'
      BY <2>b, <3>1, <3>4, <3>5, OneLoopMoves
    <3>7. QED
      BY <2>9, <2>b, <2>d, <3>2, <3>3, <3>6 DEF Beat
  <2>10. ASSUME NEW w \in Worker, Stop(w) \/ Crash(w) \/ Start(w) PROVE TypeOK'
    <3>1. PICK p \in {Down, Idle, [worker[w] EXCEPT !.stopping = TRUE]} :
            worker' = [worker EXCEPT ![w] = p]
      BY <2>10, <2>b DEF Stop, Crash, Start, Loops
    <3>2. p \in Process /\ (p.pc = "running" => p.job \in Job)
      <4>1. LET u == [worker[w] EXCEPT !.stopping = TRUE]
            IN  u \in Process /\ (u.pc = "running" => u.job \in Job)
        BY <2>c DEF Process, Running
      <4>2. QED
        BY <3>1, <4>1, <2>f
    <3>3. Loops'
      BY <2>b, <3>1, <3>2, OneLoopMoves
    <3>4. QED
      BY <2>10, <2>a, <2>b, <2>d, <3>3 DEF Stop, Crash, Start
  <2>11. ASSUME Advance PROVE TypeOK'
    <3>1. ASSUME NEW j \in Job
          PROVE  [job[j] EXCEPT !.wait = Less(@), !.lease = Less(@)] \in JobRow
      <4>1. job[j] \in JobRow
        BY <2>a DEF JobTable
      <4>2. QED
        BY <4>1, Countdowns DEF JobRow
    <3>2. job' \in JobTable
      BY <2>11, <3>1 DEF Advance, JobTable
    <3>3. ASSUME NEW s \in Service PROVE [lock[s] EXCEPT !.ttl = Less(@)] \in LockRow
      <4>1. lock[s] \in LockRow
        BY <2>b
      <4>2. QED
        BY <4>1, Countdowns DEF LockRow
    <3>4. lock' \in [Service -> LockRow]
      BY <2>11, <3>3 DEF Advance
    <3>5. ASSUME NEW w \in Worker
          PROVE  LET u == [worker[w] EXCEPT !.beat = Less(@)]
                 IN  u \in Process /\ u.pc = worker[w].pc /\ u.job = worker[w].job
      BY <2>c, Countdowns DEF Process
    <3>6. Loops'
      BY <2>11, <2>b, <3>5 DEF Advance, Loops, Running
    <3>7. QED
      BY <2>11, <2>b, <2>d, <3>2, <3>4, <3>6 DEF Advance
  <2>12. CASE UNCHANGED vars
    BY <2>12 DEF vars, TypeOK, Running
  <2>13. QED
    BY <2>1, <2>2, <2>3, <2>4, <2>5, <2>6, <2>7, <2>8, <2>9, <2>10, <2>11, <2>12
    DEF Next, Tick, HandlerSettles
<1>3. QED
  BY <1>1, <1>2, PTL DEF Spec

-------------------------------------------------------------------------------
(* Fencing                                                                 *)

\* The register never holds a token its service's lock has not handed out; a
\* running loop holds one that was handed out, that no other loop running for
\* the service holds, and under which only its own job can have been committed.
FenceInv ==
    /\ \A s \in Service : current[s].token <= lock[s].token
    /\ \A w \in Worker : Running(w) =>
         LET s == ServiceOf[worker[w].job] IN
           /\ 0 < worker[w].token /\ worker[w].token <= lock[s].token
           /\ current[s].token = worker[w].token => current[s].job = worker[w].job
    /\ \A v, w \in Worker :
         (/\ Running(v) /\ Running(w) /\ v # w
          /\ ServiceOf[worker[v].job] = ServiceOf[worker[w].job])
           => worker[v].token # worker[w].token

\* A step that hands out no token, commits nothing and starts no handler.
Quiet == /\ \A s \in Service : lock'[s].token = lock[s].token
         /\ UNCHANGED current
         /\ \A w \in Worker : Running(w)' => /\ Running(w)
                                             /\ worker'[w].job = worker[w].job
                                             /\ worker'[w].token = worker[w].token

LEMMA QuietFence == ASSUME TypeOK, FenceInv, Quiet PROVE FenceInv'
<1>1. \A s \in Service : current'[s].token <= lock'[s].token
  BY DEF FenceInv, Quiet
<1>2. ASSUME NEW w \in Worker, Running(w)'
      PROVE  LET s == ServiceOf[worker'[w].job] IN
               /\ 0 < worker'[w].token /\ worker'[w].token <= lock'[s].token
               /\ current'[s].token = worker'[w].token
                    => current'[s].job = worker'[w].job
  <2>1. /\ Running(w) /\ worker'[w].job = worker[w].job
        /\ worker'[w].token = worker[w].token
    BY <1>2 DEF Quiet
  <2>2. ServiceOf[worker[w].job] \in Service
    BY <2>1, JobsAssumption DEF TypeOK
  <2>3. QED
    BY <2>1, <2>2 DEF FenceInv, Quiet
<1>3. ASSUME NEW v \in Worker, NEW w \in Worker, Running(v)', Running(w)', v # w,
             ServiceOf[worker'[v].job] = ServiceOf[worker'[w].job]
      PROVE  worker'[v].token # worker'[w].token
  BY <1>3 DEF FenceInv, Quiet
<1>4. QED
  BY <1>1, <1>2, <1>3 DEF FenceInv

\* Only a tick that takes the lock and a commit are not quiet.
LEMMA QuietSteps ==
    ASSUME TypeOK, [Next]_vars,
           ~ \E w \in Worker : TickRun(w) \/ HandlerWrites(w)
    PROVE  Quiet
<1> USE JobsAssumption
<1>a. /\ worker \in [Worker -> Process] /\ lock \in [Service -> LockRow]
      /\ Idle.pc = "idle" /\ Down.pc = "down"
  BY DEF TypeOK, Idle, Down
<1>b. ASSUME UNCHANGED <<lock, current, worker>> PROVE Quiet
  BY <1>b DEF Quiet, Running
<1>c. ASSUME NEW w \in Worker, NEW p, UNCHANGED <<lock, current>>,
             worker' = [worker EXCEPT ![w] = p],
             p.pc = "running" => /\ Running(w) /\ p.job = worker[w].job
                                 /\ p.token = worker[w].token
      PROVE  Quiet
  BY <1>a, <1>c DEF Quiet, Running
<1>d. ASSUME NEW w \in Worker, UNCHANGED current, LoopAgain(w),
             \A s \in Service : lock'[s].token = lock[s].token
      PROVE  Quiet
  <2>1. PICK p \in {Down, Idle} : worker' = [worker EXCEPT ![w] = p]
    BY <1>d DEF LoopAgain
  <2>2. QED
    BY <1>a, <1>d, <2>1 DEF Quiet, Running
<1>e. ASSUME NEW s \in Service, NEW w \in Worker, ReleaseLock(s, w)
      PROVE  \A u \in Service : lock'[u].token = lock[u].token
  BY <1>a, <1>e DEF ReleaseLock, LockRow
<1>f. ASSUME NEW w \in Worker, Running(w) PROVE ServiceOf[worker[w].job] \in Service
  BY <1>f DEF TypeOK
<1>1. ASSUME NEW j \in Job, NEW delay \in StartDelays, Enqueue(j, delay) PROVE Quiet
  BY <1>1, <1>b DEF Enqueue
<1>2. ASSUME NEW j \in Job, CancelPending(j) PROVE Quiet
  BY <1>2, <1>b DEF CancelPending
<1>3. ASSUME NEW w \in Worker, TickNothing(w) \/ TickDefer(w) PROVE Quiet
  BY <1>3, <1>b DEF TickNothing, TickDefer
<1>4. ASSUME NEW w \in Worker, HandlerReturns(w) PROVE Quiet
  BY <1>4, <1>d, <1>e, <1>f DEF HandlerReturns, Running
<1>5. ASSUME NEW w \in Worker, NEW nr \in BOOLEAN, HandlerThrows(w, nr) PROVE Quiet
  BY <1>5, <1>d, <1>e, <1>f DEF HandlerThrows, Running
<1>6. ASSUME NEW w \in Worker, Beat(w) PROVE Quiet
  <2>1. \A u \in Service : lock'[u].token = lock[u].token
    BY <1>6, <1>a DEF Beat, RenewLock, LockRow
  <2>2. \A v \in Worker : /\ worker'[v].pc = worker[v].pc
                          /\ worker'[v].job = worker[v].job
                          /\ worker'[v].token = worker[v].token
    BY <1>6, <1>a DEF Beat, Process
  <2>3. QED
    BY <1>6, <2>1, <2>2 DEF Beat, Quiet, Running
<1>7. ASSUME NEW w \in Worker, Stop(w) \/ Crash(w) \/ Start(w) PROVE Quiet
  <2>1. PICK p \in {Down, Idle, [worker[w] EXCEPT !.stopping = TRUE]} :
          worker' = [worker EXCEPT ![w] = p]
    BY <1>7, <1>a DEF Stop, Crash, Start
  <2>2. p.pc = "running" => /\ Running(w) /\ p.job = worker[w].job
                            /\ p.token = worker[w].token
    BY <1>a, <2>1 DEF Running, Process
  <2>3. QED
    BY <1>7, <1>c, <2>1, <2>2 DEF Stop, Crash, Start
<1>8. ASSUME Advance PROVE Quiet
  <2>1. \A u \in Service : lock'[u].token = lock[u].token
    BY <1>8, <1>a DEF Advance, LockRow
  <2>2. \A v \in Worker : /\ worker'[v].pc = worker[v].pc
                          /\ worker'[v].job = worker[v].job
                          /\ worker'[v].token = worker[v].token
    BY <1>8, <1>a DEF Advance, Process
  <2>3. QED
    BY <1>8, <2>1, <2>2 DEF Advance, Quiet, Running
<1>9. CASE UNCHANGED vars
  BY <1>9, <1>b DEF vars
<1>10. QED
  BY <1>1, <1>2, <1>3, <1>4, <1>5, <1>6, <1>7, <1>8, <1>9
  DEF Next, Tick, HandlerSettles

LEMMA FenceInvariant == Spec => []FenceInv
<1>1. Init => FenceInv
  BY DEF Init, FenceInv, Running, Idle, Down
<1>2. TypeOK /\ FenceInv /\ [Next]_vars => FenceInv'
  <2> SUFFICES ASSUME TypeOK, FenceInv, [Next]_vars PROVE FenceInv'
    OBVIOUS
  <2> USE JobsAssumption
  <2>a. /\ worker \in [Worker -> Process] /\ lock \in [Service -> LockRow]
        /\ current \in [Service -> [job : Job \cup {0}, token : Nat]]
    BY DEF TypeOK
  <2>1. CASE ~ \E w \in Worker : TickRun(w) \/ HandlerWrites(w)
    BY <2>1, QuietSteps, QuietFence
  <2>2. ASSUME NEW w \in Worker, TickRun(w) PROVE FenceInv'
    <3> DEFINE j == Oldest(Claimable(Reaped))
               s == ServiceOf[j]
               t == lock[s].token + 1
    <3>1. j \in Job /\ s \in Service
      <4>1. Reaped \in JobTable
        BY ReapType DEF TypeOK, JobTable, Reaped
      <4>2. QED
        BY <2>2, <4>1, NextClaim DEF TickRun
    <3>2. /\ lock' = [lock EXCEPT ![s] = [holder |-> w, token |-> t, ttl |-> LeaseTtl]]
          /\ worker' = [worker EXCEPT ![w].pc = "running", ![w].job = j,
                            ![w].token = t, ![w].attempt = Reaped[j].attempts + 1,
                            ![w].beat = HeartbeatEvery]
          /\ UNCHANGED current
          /\ ~ Running(w)
      BY <2>2 DEF TickRun, AcquireLock, Running
    <3> HIDE DEF j
    <3>3. /\ worker'[w].job = j /\ worker'[w].token = t
          /\ \A v \in Worker : v # w => worker'[v] = worker[v]
      BY <2>a, <3>2 DEF Process
    <3>4. /\ lock'[s].token = t
          /\ \A u \in Service : u # s => lock'[u].token = lock[u].token
          /\ \A u \in Service : lock[u].token \in Nat /\ current[u].token \in Nat
      BY <2>a, <3>1, <3>2 DEF LockRow
    <3>5. \A u \in Service : current'[u].token <= lock'[u].token
      BY <3>1, <3>2, <3>4 DEF FenceInv
    <3>6. ASSUME NEW v \in Worker, Running(v)'
          PROVE  LET u == ServiceOf[worker'[v].job] IN
                   /\ 0 < worker'[v].token /\ worker'[v].token <= lock'[u].token
                   /\ current'[u].token = worker'[v].token
                        => current'[u].job = worker'[v].job
      <4>1. CASE v = w
        <5>1. /\ worker'[v].token = lock[s].token + 1 /\ lock'[s].token = lock[s].token + 1
              /\ worker'[v].job = j /\ current' = current
          BY <4>1, <3>2, <3>3, <3>4
        <5>2. /\ lock[s].token \in Nat /\ current[s].token \in Nat
              /\ current[s].token <= lock[s].token
          BY <3>1, <3>4 DEF FenceInv
        <5>3. /\ 0 < worker'[v].token /\ worker'[v].token <= lock'[s].token
              /\ current'[s].token # worker'[v].token
          BY <5>1, <5>2
        <5>4. QED
          BY <5>1, <5>3
      <4>2. CASE v # w
        <5>1. Running(v) /\ worker'[v] = worker[v] /\ worker[v].token \in Nat
          BY <2>a, <4>2, <3>6, <3>3 DEF Running, Process
        <5>2. ServiceOf[worker[v].job] \in Service
          BY <5>1 DEF TypeOK
        <5> DEFINE u == ServiceOf[worker[v].job]
        <5>3. /\ 0 < worker[v].token /\ worker[v].token <= lock[u].token
              /\ current[u].token = worker[v].token => current[u].job = worker[v].job
          BY <5>1 DEF FenceInv
        <5> HIDE DEF u
        <5>4. lock[u].token <= lock'[u].token
          BY <5>2, <3>4 DEF u
        <5>5. /\ lock[u].token \in Nat /\ lock'[u].token \in Nat
              /\ current' = current
          BY <5>2, <3>2, <3>4 DEF u
        <5>6. worker[v].token <= lock'[u].token
          BY <5>1, <5>3, <5>4, <5>5
        <5>7. QED
          BY <5>1, <5>3, <5>5, <5>6 DEF u
      <4>3. QED
        BY <4>1, <4>2
    <3>7. ASSUME NEW v \in Worker, Running(v)', v # w,
                 ServiceOf[worker'[v].job] = s
          PROVE  worker'[v].token < t
      <4>1. Running(v) /\ worker'[v] = worker[v] /\ worker[v].token \in Nat
        BY <2>a, <3>7, <3>3 DEF Running, Process
      <4>2. QED
        BY <3>1, <3>7, <4>1, <3>4 DEF FenceInv
    <3>8. ASSUME NEW u \in Worker, NEW v \in Worker, Running(u)', Running(v)', u # v,
                 ServiceOf[worker'[u].job] = ServiceOf[worker'[v].job]
          PROVE  worker'[u].token # worker'[v].token
      <4>1. CASE u = w
        BY <4>1, <3>3, <3>7, <3>8, <3>4, <3>1
      <4>2. CASE v = w
        BY <4>2, <3>3, <3>7, <3>8, <3>4, <3>1
      <4>3. CASE u # w /\ v # w
        BY <4>3, <3>3, <3>8 DEF FenceInv, Running
      <4>4. QED
        BY <4>1, <4>2, <4>3
    <3>9. QED
      BY <3>5, <3>6, <3>8 DEF FenceInv
  <2>3. ASSUME NEW w \in Worker, HandlerWrites(w) PROVE FenceInv'
    <3> DEFINE s == ServiceOf[worker[w].job]
    <3>1. Running(w) /\ s \in Service /\ worker[w].token \in Nat
      BY <2>3, <2>a DEF HandlerWrites, Running, TypeOK, Process
    <3>2. UNCHANGED <<lock, worker>>
      BY <2>3 DEF HandlerWrites
    <3>3. CASE current' = current
      BY <3>2, <3>3 DEF FenceInv, Running
    <3>4. CASE current' = [current EXCEPT ![s] = [job |-> worker[w].job,
                                                 token |-> worker[w].token]]
      <4>1. /\ current'[s].token = worker[w].token /\ current'[s].job = worker[w].job
            /\ \A u \in Service : u # s => current'[u] = current[u]
        BY <2>a, <3>1, <3>4
      <4>2. \A u \in Service : current'[u].token <= lock'[u].token
        BY <3>1, <3>2, <4>1 DEF FenceInv
      <4>3. ASSUME NEW v \in Worker, Running(v)'
            PROVE  LET u == ServiceOf[worker'[v].job] IN
                     /\ 0 < worker'[v].token /\ worker'[v].token <= lock'[u].token
                     /\ current'[u].token = worker'[v].token
                          => current'[u].job = worker'[v].job
        <5>1. Running(v) /\ ServiceOf[worker[v].job] \in Service
          BY <4>3, <3>2 DEF Running, TypeOK
        <5>2. QED
          BY <5>1, <3>1, <3>2, <4>1 DEF FenceInv
      <4>4. QED
        BY <3>2, <4>2, <4>3 DEF FenceInv, Running
    <3>5. QED
      BY <2>3, <3>3, <3>4 DEF HandlerWrites, FencedSetCurrent
  <2>4. QED
    BY <2>1, <2>2, <2>3
<1>3. QED
  BY <1>1, <1>2, TypeCorrect, PTL DEF Spec

\* No stale process, however long it stalled, overwrites what a later holder of
\* the lock committed, and one token never stands for two deploys
\* (fencedSetCurrent, lock.ts:75-97).
THEOREM Fencing == Spec => FencingHolds
<1>1. TypeOK /\ FenceInv /\ [Next]_vars
        => [\A s \in Service :
              /\ current'[s].token >= current[s].token
              /\ current'[s].token = current[s].token => current'[s] = current[s]]_vars
  <2> SUFFICES ASSUME TypeOK, FenceInv, [Next]_vars, NEW s \in Service
               PROVE  /\ current'[s].token >= current[s].token
                      /\ current'[s].token = current[s].token
                           => current'[s] = current[s]
    OBVIOUS
  <2>a. /\ current \in [Service -> [job : Job \cup {0}, token : Nat]]
        /\ worker \in [Worker -> Process]
    BY DEF TypeOK
  <2>1. CASE ~ \E w \in Worker : TickRun(w) \/ HandlerWrites(w)
    BY <2>1, <2>a, QuietSteps DEF Quiet
  <2>2. ASSUME NEW w \in Worker, TickRun(w) PROVE UNCHANGED current
    BY <2>2 DEF TickRun
  <2>3. ASSUME NEW w \in Worker, HandlerWrites(w), current' # current,
               ServiceOf[worker[w].job] = s
        PROVE  /\ current'[s].token >= current[s].token
               /\ current'[s].token = current[s].token => current'[s] = current[s]
    <3>1. /\ Running(w) /\ worker[w].token >= current[s].token
          /\ current' = [current EXCEPT ![s] = [job |-> worker[w].job,
                                                token |-> worker[w].token]]
      BY <2>3 DEF HandlerWrites, FencedSetCurrent, Running
    <3>2. current[s].token = worker[w].token => current[s].job = worker[w].job
      BY <3>1, <2>3 DEF FenceInv
    <3>3. QED
      BY <2>a, <3>1, <3>2
  <2>4. ASSUME NEW w \in Worker, HandlerWrites(w),
               current' = current \/ ServiceOf[worker[w].job] # s
        PROVE  current'[s] = current[s]
    BY <2>4, <2>a DEF HandlerWrites, FencedSetCurrent
  <2>5. QED
    BY <2>1, <2>2, <2>3, <2>4, <2>a
<1>2. QED
  BY <1>1, TypeCorrect, FenceInvariant, PTL DEF Spec, FencingHolds

-------------------------------------------------------------------------------
(* What each statement of queue.ts does to its row, field by field.        *)

OneRow(q, q2, j) == q2 \in JobTable /\ \A i \in Job \ {j} : q2[i] = q[i]

LEMMA ClaimFields ==
    ASSUME NEW q \in JobTable, NEW j \in Job, NEW w \in Worker, NEW t \in Nat,
           NEW q2, q2 = SetFencingToken(Claim(q, j, w), j, t)
    PROVE  /\ OneRow(q, q2, j)
           /\ q2[j].state = "running" /\ q2[j].holder = w /\ q2[j].lease = LeaseTtl
           /\ q2[j].attempts = q[j].attempts + 1 /\ q2[j].token = t
           /\ q2[j].max = q[j].max /\ q2[j].wait = q[j].wait
<1> DEFINE r == [q[j] EXCEPT !.state = "running", !.lease = LeaseTtl,
                             !.holder = w, !.attempts = @ + 1]
           u == [r EXCEPT !.token = t]
<1>1. q[j] \in JobRow /\ q2 \in JobTable
  BY ClaimType DEF JobTable
<1>2. /\ r.state = "running" /\ r.lease = LeaseTtl /\ r.holder = w
      /\ r.attempts = q[j].attempts + 1 /\ r.max = q[j].max /\ r.wait = q[j].wait
      /\ r \in JobRow
  BY <1>1, RowUpdates DEF JobRow
<1>3. Claim(q, j, w) = [q EXCEPT ![j] = r]
  BY <1>1 DEF Claim, JobTable, JobRow
<1> HIDE DEF r
<1>4. /\ u.state = "running" /\ u.lease = LeaseTtl /\ u.holder = w /\ u.token = t
      /\ u.attempts = q[j].attempts + 1 /\ u.max = q[j].max /\ u.wait = q[j].wait
  BY <1>2 DEF JobRow
<1>5. Claim(q, j, w)[j] = r /\ DOMAIN Claim(q, j, w) = Job
  BY <1>3 DEF JobTable
<1>6. q2 = [Claim(q, j, w) EXCEPT ![j] = u]
  BY <1>5 DEF SetFencingToken
<1> HIDE DEF u
<1>7. q2[j] = u /\ \A i \in Job \ {j} : q2[i] = q[i]
  BY <1>3, <1>5, <1>6 DEF JobTable
<1>8. QED
  BY <1>1, <1>4, <1>7 DEF OneRow

LEMMA DeferFields ==
    ASSUME NEW q \in JobTable, NEW j \in Job, NEW w \in Worker,
           NEW q2, q2 = DeferClaim(Claim(q, j, w), j)
    PROVE  /\ OneRow(q, q2, j)
           /\ q2[j].state = "pending" /\ q2[j].holder = None
           /\ q2[j].attempts = q[j].attempts /\ q2[j].token = q[j].token
           /\ q2[j].max = q[j].max
<1> DEFINE r == [q[j] EXCEPT !.state = "running", !.lease = LeaseTtl,
                             !.holder = w, !.attempts = @ + 1]
           u == [r EXCEPT !.state = "pending", !.attempts = @ - 1, !.lease = 0,
                          !.holder = None, !.wait = PollDelay]
<1>1. q[j] \in JobRow /\ q2 \in JobTable
  BY ClaimType DEF JobTable
<1>2. /\ r.attempts = q[j].attempts + 1 /\ r.max = q[j].max /\ r.token = q[j].token
      /\ r \in JobRow
  BY <1>1, RowUpdates DEF JobRow
<1>3. Claim(q, j, w) = [q EXCEPT ![j] = r]
  BY <1>1 DEF Claim, JobTable, JobRow
<1> HIDE DEF r
<1>4. /\ u.state = "pending" /\ u.holder = None /\ u.token = q[j].token
      /\ u.attempts = q[j].attempts /\ u.max = q[j].max
  <2>1. r.attempts - 1 = q[j].attempts
    BY <1>1, <1>2 DEF JobRow
  <2>2. QED
    BY <1>2, <2>1 DEF JobRow
<1>5. Claim(q, j, w)[j] = r /\ DOMAIN Claim(q, j, w) = Job
  BY <1>3 DEF JobTable
<1>6. q2 = [Claim(q, j, w) EXCEPT ![j] = u]
  BY <1>5 DEF DeferClaim
<1> HIDE DEF u
<1>7. q2[j] = u /\ \A i \in Job \ {j} : q2[i] = q[i]
  BY <1>3, <1>5, <1>6 DEF JobTable
<1>8. QED
  BY <1>1, <1>4, <1>7 DEF OneRow

LEMMA HeartbeatFields ==
    ASSUME NEW q \in JobTable, NEW j \in Job, NEW q2, q2 = Heartbeat(q, j)
    PROVE  /\ OneRow(q, q2, j)
           /\ q2[j].state = q[j].state /\ q2[j].holder = q[j].holder
           /\ q2[j].attempts = q[j].attempts /\ q2[j].token = q[j].token
           /\ q2[j].max = q[j].max /\ q2[j].wait = q[j].wait
           /\ q[j].state = "running" => q2[j].lease = LeaseTtl
<1>1. q[j] \in JobRow
  BY DEF JobTable
<1>2. CASE q[j].state = "running"
  <2> DEFINE r == [q[j] EXCEPT !.lease = LeaseTtl]
  <2>1. /\ r \in JobRow /\ r.state = q[j].state /\ r.holder = q[j].holder
        /\ r.attempts = q[j].attempts /\ r.token = q[j].token
        /\ r.max = q[j].max /\ r.wait = q[j].wait /\ r.lease = LeaseTtl
    BY <1>1, Countdowns DEF JobRow
  <2>2. q2 = [q EXCEPT ![j] = r]
    BY <1>2 DEF Heartbeat, JobTable
  <2> HIDE DEF r
  <2>3. QED
    BY <2>1, <2>2 DEF OneRow, JobTable
<1>3. CASE q[j].state # "running"
  BY <1>3 DEF Heartbeat, OneRow
<1>4. QED
  BY <1>2, <1>3

LEMMA CompleteFields ==
    ASSUME NEW q \in JobTable, NEW j \in Job, NEW w \in Worker, NEW q2, q2 = Complete(q, j, w)
    PROVE  /\ OneRow(q, q2, j)
           /\ q2[j].attempts = q[j].attempts /\ q2[j].token = q[j].token
           /\ q2[j].max = q[j].max /\ q2[j].wait = q[j].wait
           /\ \/ q2[j] = q[j]
              \/ OwnerGuard(q, j, w) /\ q2[j].state = "done" /\ q2[j].holder = None
<1>1. q[j] \in JobRow
  BY DEF JobTable
<1>2. CASE OwnerGuard(q, j, w)
  <2> DEFINE r == [q[j] EXCEPT !.state = "done", !.lease = 0, !.holder = None]
  <2>1. /\ r \in JobRow /\ r.state = "done" /\ r.attempts = q[j].attempts
        /\ r.token = q[j].token /\ r.max = q[j].max /\ r.wait = q[j].wait /\ r.holder = None
    BY <1>1, Countdowns DEF JobRow, Terminal
  <2>2. q2 = [q EXCEPT ![j] = r]
    BY <1>2 DEF Complete, JobTable
  <2> HIDE DEF r
  <2>3. QED
    BY <1>2, <2>1, <2>2 DEF OneRow, JobTable
<1>3. CASE ~OwnerGuard(q, j, w)
  BY <1>3 DEF Complete, OneRow
<1>4. QED
  BY <1>2, <1>3

LEMMA FailFields ==
    ASSUME NEW q \in JobTable, NEW j \in Job, NEW w \in Worker, NEW q2, q2 = Fail(q, j, w)
    PROVE  /\ OneRow(q, q2, j)
           /\ q2[j].attempts = q[j].attempts /\ q2[j].token = q[j].token
           /\ q2[j].max = q[j].max
           /\ \/ q2[j] = q[j]
              \/ OwnerGuard(q, j, w) /\ q2[j].state = "failed" /\ q2[j].holder = None
              \/ /\ OwnerGuard(q, j, w) /\ q2[j].state = "pending" /\ q2[j].holder = None
                 /\ q[j].attempts < q[j].max
<1>1. q[j] \in JobRow /\ BackoffMs(q[j].attempts) \in Nat
  BY BackoffType DEF JobTable
<1>a. q[j].attempts \in Nat /\ q[j].max \in Nat
  BY <1>1 DEF JobRow
<1>2. CASE OwnerGuard(q, j, w) /\ q[j].attempts >= q[j].max
  <2> DEFINE r == [q[j] EXCEPT !.state = "failed", !.lease = 0, !.holder = None]
  <2>1. /\ r \in JobRow /\ r.state = "failed" /\ r.attempts = q[j].attempts
        /\ r.token = q[j].token /\ r.max = q[j].max /\ r.holder = None
    BY <1>1, Countdowns DEF JobRow, Terminal
  <2>a. q2 = [q EXCEPT ![j].state = "failed", ![j].lease = 0, ![j].holder = None]
    BY <1>a, <1>2 DEF Fail
  <2>2. q2 = [q EXCEPT ![j] = r]
    BY <2>a DEF JobTable
  <2> HIDE DEF r
  <2>3. QED
    BY <1>2, <2>1, <2>2 DEF OneRow, JobTable
<1>3. CASE OwnerGuard(q, j, w) /\ q[j].attempts < q[j].max
  <2> DEFINE r == [q[j] EXCEPT !.state = "pending", !.lease = 0, !.holder = None,
                               !.wait = BackoffMs(q[j].attempts)]
  <2>1. /\ r \in JobRow /\ r.state = "pending" /\ r.attempts = q[j].attempts
        /\ r.token = q[j].token /\ r.max = q[j].max /\ r.holder = None
    BY <1>1, Countdowns DEF JobRow, Live
  <2>a. q2 = [q EXCEPT ![j].state = "pending", ![j].lease = 0, ![j].holder = None,
                       ![j].wait = BackoffMs(q[j].attempts)]
    BY <1>a, <1>3 DEF Fail
  <2>2. q2 = [q EXCEPT ![j] = r]
    BY <2>a DEF JobTable
  <2> HIDE DEF r
  <2>3. QED
    BY <1>3, <2>1, <2>2 DEF OneRow, JobTable
<1>4. CASE ~OwnerGuard(q, j, w)
  BY <1>4 DEF Fail, OneRow
<1>5. QED
  BY <1>a, <1>2, <1>3, <1>4

LEMMA NoRetryFields ==
    ASSUME NEW q \in JobTable, NEW j \in Job, NEW q2, q2 = NoRetry(q, j)
    PROVE  /\ OneRow(q, q2, j)
           /\ q2[j].state = q[j].state /\ q2[j].holder = q[j].holder
           /\ q2[j].attempts = q[j].attempts /\ q2[j].token = q[j].token
           /\ q2[j].max = q[j].attempts /\ q2[j].wait = q[j].wait
<1> DEFINE r == [q[j] EXCEPT !.max = q[j].attempts]
<1>1. q[j] \in JobRow
  BY DEF JobTable
<1>2. /\ r \in JobRow /\ r.state = q[j].state /\ r.holder = q[j].holder
      /\ r.attempts = q[j].attempts /\ r.token = q[j].token
      /\ r.max = q[j].attempts /\ r.wait = q[j].wait
  BY <1>1 DEF JobRow
<1>3. q2 = [q EXCEPT ![j] = r]
  BY DEF NoRetry, JobTable
<1> HIDE DEF r
<1>4. QED
  BY <1>2, <1>3 DEF OneRow, JobTable

LEMMA ReapFields ==
    ASSUME NEW q \in JobTable, NEW i \in Job, NEW q2, q2 = ReapExpiredLeases(q)
    PROVE  /\ q2[i].attempts = q[i].attempts /\ q2[i].token = q[i].token
           /\ q2[i].max = q[i].max
           /\ \/ ~Expired(q, i) /\ q2[i] = q[i]
              \/ Expired(q, i) /\ q2[i].state = "dead" /\ q2[i].holder = None
              \/ /\ Expired(q, i) /\ q2[i].state = "pending" /\ q2[i].holder = None
                 /\ q[i].attempts < q[i].max
<1>1. q[i] \in JobRow /\ q[i].attempts \in Nat /\ q[i].max \in Nat
  BY DEF JobTable, JobRow
<1>2. q2[i] = IF ~Expired(q, i) THEN q[i]
              ELSE IF q[i].attempts >= q[i].max
                   THEN [q[i] EXCEPT !.state = "dead", !.holder = None]
                   ELSE [q[i] EXCEPT !.state = "pending", !.holder = None, !.wait = 0]
  BY DEF ReapExpiredLeases
<1>3. CASE ~Expired(q, i)
  BY <1>2, <1>3
<1>4. CASE Expired(q, i) /\ q[i].attempts >= q[i].max
  <2> DEFINE r == [q[i] EXCEPT !.state = "dead", !.holder = None]
  <2>1. /\ r.attempts = q[i].attempts /\ r.token = q[i].token /\ r.max = q[i].max
        /\ r.state = "dead" /\ r.holder = None
    BY <1>1 DEF JobRow
  <2>2. q2[i] = r
    BY <1>2, <1>4
  <2> HIDE DEF r
  <2>3. QED
    BY <1>4, <2>1, <2>2
<1>5. CASE Expired(q, i) /\ ~(q[i].attempts >= q[i].max)
  <2> DEFINE r == [q[i] EXCEPT !.state = "pending", !.holder = None, !.wait = 0]
  <2>1. /\ r.attempts = q[i].attempts /\ r.token = q[i].token /\ r.max = q[i].max
        /\ r.state = "pending" /\ r.holder = None
    BY <1>1 DEF JobRow
  <2>2. q2[i] = r
    BY <1>2, <1>5
  <2> HIDE DEF r
  <2>3. QED
    BY <1>1, <1>5, <2>1, <2>2
<1>6. QED
  BY <1>3, <1>4, <1>5

-------------------------------------------------------------------------------
(* What one step does to one job and to one loop.                          *)

\* The attempt count stays, and the limit is at most cut down to it (noRetry).
Counts(i) == /\ job'[i].attempts = job[i].attempts
             /\ job'[i].max \in {job[i].max, job[i].attempts}

Kept(i) == /\ job'[i].state = job[i].state
           /\ job'[i].holder = job[i].holder
           /\ Counts(i)

Entered(i) == job[i].state = "new" /\ job'[i].state = "pending" /\ Counts(i)

Cancelled(i) == job[i].state = "pending" /\ job'[i].state = "deleted" /\ Counts(i)

Retired(i) == job[i].state = "running" /\ job'[i].state = "dead" /\ Counts(i)

\* Waiting, or its lapsed or failed attempt was not the last.
Attemptable(i) == \/ job[i].state = "pending"
                  \/ job[i].state = "running" /\ job[i].attempts < job[i].max

GivenBack(i) == Attemptable(i) /\ job'[i].state = "pending" /\ Counts(i)

Claimed(i, w) ==
    /\ Attemptable(i) /\ ~Running(w)
    /\ job'[i].state = "running" /\ job'[i].holder = w
    /\ job'[i].attempts = job[i].attempts + 1
    /\ job'[i].max = job[i].max
    /\ worker'[w].pc = "running" /\ worker'[w].job = i
    /\ worker'[w].attempt = job'[i].attempts

Settled(i, w) ==
    /\ Running(w) /\ worker'[w].pc # "running" /\ worker[w].job = i
    /\ OwnerGuard(job, i, w)
    /\ job'[i].state \in {"done", "failed"} /\ Counts(i)

RowMoves(i) == \/ Kept(i) \/ Entered(i) \/ Cancelled(i) \/ Retired(i) \/ GivenBack(i)
               \/ \E w \in Worker : Claimed(i, w) \/ Settled(i, w)

SameLoop(w) == /\ Running(w)
               /\ worker'[w].job = worker[w].job
               /\ worker'[w].token = worker[w].token
               /\ worker'[w].attempt = worker[w].attempt

LoopMoves(w) == \/ worker'[w].pc # "running"
                \/ SameLoop(w)
                \/ worker'[w].job \in Job /\ Claimed(worker'[w].job, w)

\* A statement that touches the row of j leaves the others alone.
LEMMA OthersKept ==
    ASSUME NEW j \in Job, OneRow(job, job', j), RowMoves(j)
    PROVE  \A i \in Job : RowMoves(i)
<1>1. ASSUME NEW i \in Job, i # j PROVE RowMoves(i)
  BY <1>1 DEF OneRow, RowMoves, Kept, Counts
<1>2. QED
  BY <1>1

\* One reap, seen from the row of i.
LEMMA ReapMoves ==
    ASSUME job \in JobTable, NEW i \in Job
    PROVE  /\ Reaped \in JobTable
           /\ Reaped[i].attempts = job[i].attempts /\ Reaped[i].max = job[i].max
           /\ Reaped[i].token = job[i].token
           /\ Reaped[i].state = "pending" => Attemptable(i)
           /\ job'[i] = Reaped[i] => RowMoves(i)
           /\ ~Expired(job, i) => Reaped[i] = job[i]
<1>1. Reaped \in JobTable
  BY ReapType DEF Reaped
<1>2. /\ Reaped[i].attempts = job[i].attempts /\ Reaped[i].token = job[i].token
      /\ Reaped[i].max = job[i].max
      /\ \/ ~Expired(job, i) /\ Reaped[i] = job[i]
         \/ Expired(job, i) /\ Reaped[i].state = "dead" /\ Reaped[i].holder = None
         \/ /\ Expired(job, i) /\ Reaped[i].state = "pending" /\ Reaped[i].holder = None
            /\ job[i].attempts < job[i].max
  BY ReapFields DEF Reaped
<1>3. Expired(job, i) => job[i].state = "running"
  BY DEF Expired
<1>4. Reaped[i].state = "pending" => Attemptable(i)
  BY <1>2, <1>3 DEF Attemptable
<1>5. ASSUME job'[i] = Reaped[i] PROVE RowMoves(i)
  <2>1. Counts(i)
    BY <1>2, <1>5 DEF Counts
  <2>2. QED
    BY <1>2, <1>3, <1>5, <2>1 DEF RowMoves, Kept, Retired, GivenBack, Attemptable
<1>6. QED
  BY <1>1, <1>2, <1>4, <1>5

\* Everything a tick that starts a handler does.
LEMMA RunFacts ==
    ASSUME TypeOK, NEW w \in Worker, TickRun(w),
           NEW j, j = Oldest(Claimable(Reaped))
    PROVE  /\ j \in Job /\ Reaped[j].state = "pending"
           /\ \A i \in Claimable(Reaped) : j <= i
           /\ LockFree(ServiceOf[j])
           /\ Claimed(j, w)
           /\ \A i \in Job \ {j} : job'[i] = Reaped[i]
           /\ job'[j].lease = LeaseTtl /\ job'[j].wait = Reaped[j].wait
           /\ job'[j].token = lock[ServiceOf[j]].token + 1
           /\ worker'[w].token = lock[ServiceOf[j]].token + 1
           /\ worker'[w].beat = HeartbeatEvery
           /\ \A v \in Worker \ {w} : worker'[v] = worker[v]
           /\ lock'[ServiceOf[j]].holder = w /\ lock'[ServiceOf[j]].ttl = LeaseTtl
           /\ lock'[ServiceOf[j]].token = lock[ServiceOf[j]].token + 1
           /\ \A s \in Service \ {ServiceOf[j]} : lock'[s] = lock[s]
<1> DEFINE s == ServiceOf[j]
           t == lock[s].token + 1
<1>1. /\ job \in JobTable /\ Reaped \in JobTable
      /\ worker \in [Worker -> Process] /\ lock \in [Service -> LockRow]
  BY ReapType DEF TypeOK, JobTable, Reaped
<1>2. /\ ~Running(w) /\ Claimable(Reaped) # {} /\ LockFree(s)
      /\ lock' = [lock EXCEPT ![s] = [holder |-> w, token |-> t, ttl |-> LeaseTtl]]
      /\ job' = SetFencingToken(Claim(Reaped, j, w), j, t)
      /\ worker' = [worker EXCEPT ![w].pc = "running", ![w].job = j,
                        ![w].token = t, ![w].attempt = Reaped[j].attempts + 1,
                        ![w].beat = HeartbeatEvery]
  BY DEF TickRun, AcquireLock, Running
<1>3. Claimable(Reaped) \in SUBSET Job
  BY DEF Claimable
<1>4. j \in Claimable(Reaped) /\ \A i \in Claimable(Reaped) : j <= i
  BY <1>2, <1>3, OldestIn
<1>5. j \in Job /\ Reaped[j].state = "pending" /\ s \in Service
  BY <1>4, JobsAssumption DEF Claimable
<1> HIDE DEF s
<1>6. t \in Nat
  BY <1>1, <1>5 DEF LockRow
<1> HIDE DEF t
<1>7. /\ OneRow(Reaped, job', j)
      /\ job'[j].state = "running" /\ job'[j].holder = w /\ job'[j].lease = LeaseTtl
      /\ job'[j].attempts = Reaped[j].attempts + 1 /\ job'[j].token = t
      /\ job'[j].max = Reaped[j].max /\ job'[j].wait = Reaped[j].wait
  BY <1>1, <1>2, <1>5, <1>6, ClaimFields
<1>8. Reaped[j].attempts = job[j].attempts /\ Reaped[j].max = job[j].max /\ Attemptable(j)
  BY <1>1, <1>5, ReapMoves
<1>9. /\ worker'[w].pc = "running" /\ worker'[w].job = j /\ worker'[w].token = t
      /\ worker'[w].attempt = Reaped[j].attempts + 1
      /\ worker'[w].beat = HeartbeatEvery
      /\ \A v \in Worker \ {w} : worker'[v] = worker[v]
  BY <1>1, <1>2 DEF Process
<1>10. /\ lock'[s].holder = w /\ lock'[s].ttl = LeaseTtl /\ lock'[s].token = t
       /\ \A u \in Service \ {s} : lock'[u] = lock[u]
  BY <1>1, <1>2, <1>5
<1>11. Claimed(j, w)
  BY <1>2, <1>7, <1>8, <1>9 DEF Claimed
<1>12. QED
  BY <1>2, <1>4, <1>5, <1>7, <1>9, <1>10, <1>11 DEF OneRow, s, t

\* What a handler that throws does to its row.
LEMMA ThrowMoves ==
    ASSUME TypeOK, NEW w \in Worker, NEW nr \in BOOLEAN, HandlerThrows(w, nr),
           NEW j, j = worker[w].job
    PROVE  /\ j \in Job /\ OneRow(job, job', j) /\ RowMoves(j)
           /\ job'[j].token = job[j].token
           /\ job'[j].attempts = job[j].attempts
           /\ \/ job'[j].state = job[j].state /\ job'[j].wait = job[j].wait
              \/ job[j].state = "running" /\ job'[j].state \in {"failed", "pending"}
           /\ worker'[w].pc # "running"
<1> DEFINE q == IF nr THEN NoRetry(job, j) ELSE job
<1>1. j \in Job /\ job \in JobTable /\ Running(w) /\ worker \in [Worker -> Process]
  BY DEF TypeOK, HandlerThrows, Running, JobTable
<1>2. job' = Fail(q, j, w)
  BY DEF HandlerThrows
<1>3. /\ OneRow(job, q, j)
      /\ q[j].state = job[j].state /\ q[j].holder = job[j].holder
      /\ q[j].attempts = job[j].attempts /\ q[j].token = job[j].token
      /\ q[j].max \in {job[j].max, job[j].attempts} /\ q[j].wait = job[j].wait
  <2>1. CASE nr
    BY <1>1, <2>1, NoRetryFields
  <2>2. CASE ~nr
    BY <1>1, <2>2 DEF OneRow
  <2>3. QED
    BY <2>1, <2>2
<1> HIDE DEF q
<1>4. q \in JobTable
  BY <1>3 DEF OneRow
<1>5. /\ OneRow(q, job', j)
      /\ job'[j].attempts = q[j].attempts /\ job'[j].token = q[j].token
      /\ job'[j].max = q[j].max
      /\ \/ job'[j] = q[j]
         \/ OwnerGuard(q, j, w) /\ job'[j].state = "failed" /\ job'[j].holder = None
         \/ /\ OwnerGuard(q, j, w) /\ job'[j].state = "pending" /\ job'[j].holder = None
            /\ q[j].attempts < q[j].max
  BY <1>1, <1>2, <1>4, FailFields
<1>6. OneRow(job, job', j) /\ Counts(j)
  BY <1>3, <1>5 DEF OneRow, Counts
<1>7. OwnerGuard(q, j, w) => OwnerGuard(job, j, w) /\ job[j].state = "running"
  BY <1>3 DEF OwnerGuard
<1>8. worker'[w].pc # "running"
  <2>1. PICK p \in {Down, Idle} : worker' = [worker EXCEPT ![w] = p]
    BY DEF HandlerThrows, LoopAgain
  <2>2. QED
    BY <1>1, <2>1 DEF Down, Idle
<1>a. /\ job'[j].token = job[j].token /\ job'[j].attempts = job[j].attempts
  BY <1>3, <1>5
<1>9. CASE job'[j] = q[j]
  <2>1. Kept(j) /\ job'[j].state = job[j].state /\ job'[j].wait = job[j].wait
    BY <1>3, <1>6, <1>9 DEF Kept
  <2>2. RowMoves(j)
    BY <2>1 DEF RowMoves
  <2>3. QED
    BY <1>1, <1>6, <1>8, <1>a, <2>1, <2>2
<1>10. CASE OwnerGuard(q, j, w) /\ job'[j].state = "failed"
  <2>1. Settled(j, w)
    BY <1>1, <1>6, <1>7, <1>8, <1>10 DEF Settled
  <2>2. RowMoves(j)
    BY <2>1 DEF RowMoves
  <2>3. QED
    BY <1>1, <1>6, <1>7, <1>8, <1>10, <1>a, <2>2
<1>11. CASE /\ OwnerGuard(q, j, w) /\ job'[j].state = "pending"
            /\ q[j].attempts < q[j].max
  <2>1. job[j].attempts < job[j].max
    <3>1. job[j].attempts \in Nat
      BY <1>1 DEF JobTable, JobRow
    <3>2. QED
      BY <1>3, <1>11, <3>1
  <2>2. GivenBack(j)
    BY <1>6, <1>7, <1>11, <2>1 DEF GivenBack, Attemptable
  <2>3. RowMoves(j)
    BY <2>2 DEF RowMoves
  <2>4. QED
    BY <1>1, <1>6, <1>7, <1>8, <1>11, <1>a, <2>3
<1>12. QED
  BY <1>5, <1>9, <1>10, <1>11

\* What a tick that finds the lock taken does to the jobs.
LEMMA DeferFacts ==
    ASSUME TypeOK, NEW w \in Worker, TickDefer(w),
           NEW j, j = Oldest(Claimable(Reaped))
    PROVE  /\ j \in Job /\ Reaped[j].state = "pending"
           /\ GivenBack(j) /\ job'[j].holder = None /\ job'[j].token = job[j].token
           /\ \A i \in Job \ {j} : job'[i] = Reaped[i]
<1>1. job \in JobTable /\ Reaped \in JobTable
  BY ReapType DEF TypeOK, JobTable, Reaped
<1>2. Claimable(Reaped) # {} /\ job' = DeferClaim(Claim(Reaped, j, w), j)
  BY DEF TickDefer
<1>3. j \in Job /\ Reaped[j].state = "pending"
  BY <1>1, <1>2, NextClaim
<1>4. /\ OneRow(Reaped, job', j)
      /\ job'[j].state = "pending" /\ job'[j].holder = None
      /\ job'[j].attempts = Reaped[j].attempts /\ job'[j].token = Reaped[j].token
      /\ job'[j].max = Reaped[j].max
  BY <1>1, <1>2, <1>3, DeferFields
<1>5. /\ Reaped[j].attempts = job[j].attempts /\ Reaped[j].max = job[j].max
      /\ Reaped[j].token = job[j].token /\ Attemptable(j)
  BY <1>1, <1>3, ReapMoves
<1>6. GivenBack(j)
  BY <1>4, <1>5 DEF GivenBack, Counts
<1>7. QED
  BY <1>3, <1>4, <1>5, <1>6 DEF OneRow

LEMMA JobSteps ==
    ASSUME TypeOK, [Next]_vars
    PROVE  \A i \in Job : RowMoves(i)
<1>a. job \in JobTable /\ worker \in [Worker -> Process]
  BY DEF TypeOK, JobTable
<1>b. UNCHANGED job => \A i \in Job : RowMoves(i)
  BY DEF RowMoves, Kept, Counts
<1>c. job' = Reaped => \A i \in Job : RowMoves(i)
  BY <1>a, ReapMoves
<1>1. ASSUME NEW j \in Job, NEW delay \in StartDelays, Enqueue(j, delay)
      PROVE  \A i \in Job : RowMoves(i)
  <2>1. /\ job[j].state = "new" /\ job'[j].state = "pending"
        /\ job'[j].attempts = job[j].attempts /\ job'[j].max = job[j].max
        /\ \A i \in Job \ {j} : job'[i] = job[i]
    BY <1>1, <1>a DEF Enqueue, JobTable, JobRow
  <2>2. \A i \in Job \ {j} : Kept(i)
    BY <2>1 DEF Kept, Counts
  <2>3. QED
    BY <2>1, <2>2 DEF RowMoves, Entered, Counts
<1>2. ASSUME NEW j \in Job, CancelPending(j) PROVE \A i \in Job : RowMoves(i)
  <2>1. /\ job[j].state = "pending" /\ job'[j].state = "deleted"
        /\ job'[j].attempts = job[j].attempts /\ job'[j].max = job[j].max
        /\ \A i \in Job \ {j} : job'[i] = job[i]
    BY <1>2, <1>a DEF CancelPending, JobTable, JobRow
  <2>2. \A i \in Job \ {j} : Kept(i)
    BY <2>1 DEF Kept, Counts
  <2>3. QED
    BY <2>1, <2>2 DEF RowMoves, Cancelled, Counts
<1>3. ASSUME NEW w \in Worker, TickNothing(w) PROVE \A i \in Job : RowMoves(i)
  BY <1>3, <1>c DEF TickNothing
<1>4. ASSUME NEW w \in Worker, TickDefer(w) PROVE \A i \in Job : RowMoves(i)
  <2> DEFINE j == Oldest(Claimable(Reaped))
  <2>1. GivenBack(j) /\ \A i \in Job \ {j} : job'[i] = Reaped[i]
    BY <1>4, DeferFacts
  <2> HIDE DEF j
  <2>2. \A i \in Job \ {j} : RowMoves(i)
    BY <1>a, <2>1, ReapMoves
  <2>3. QED
    BY <2>1, <2>2 DEF RowMoves
<1>5. ASSUME NEW w \in Worker, TickRun(w) PROVE \A i \in Job : RowMoves(i)
  <2> DEFINE j == Oldest(Claimable(Reaped))
  <2>1. Claimed(j, w) /\ \A i \in Job \ {j} : job'[i] = Reaped[i]
    BY <1>5, RunFacts
  <2> HIDE DEF j
  <2>2. \A i \in Job \ {j} : RowMoves(i)
    BY <1>a, <2>1, ReapMoves
  <2>3. QED
    BY <2>1, <2>2 DEF RowMoves
<1>6. ASSUME NEW w \in Worker, HandlerReturns(w) PROVE \A i \in Job : RowMoves(i)
  <2> DEFINE j == worker[w].job
  <2>1. j \in Job /\ Running(w) /\ job' = Complete(job, j, w)
    BY <1>6 DEF TypeOK, HandlerReturns, Running
  <2>2. worker'[w].pc # "running"
    <3>1. PICK p \in {Down, Idle} : worker' = [worker EXCEPT ![w] = p]
      BY <1>6 DEF HandlerReturns, LoopAgain
    <3>2. QED
      BY <1>a, <3>1 DEF Down, Idle
  <2> HIDE DEF j
  <2>3. /\ OneRow(job, job', j)
        /\ job'[j].attempts = job[j].attempts /\ job'[j].max = job[j].max
        /\ \/ job'[j] = job[j]
           \/ OwnerGuard(job, j, w) /\ job'[j].state = "done"
    BY <1>a, <2>1, CompleteFields
  <2>4. RowMoves(j)
    <3>1. Counts(j)
      BY <2>3 DEF Counts
    <3>2. CASE job'[j] = job[j]
      BY <3>1, <3>2 DEF RowMoves, Kept
    <3>3. CASE OwnerGuard(job, j, w) /\ job'[j].state = "done"
      BY <2>1, <2>2, <3>1, <3>3 DEF RowMoves, Settled, j
    <3>4. QED
      BY <2>3, <3>2, <3>3
  <2>5. QED
    BY <2>1, <2>3, <2>4, OthersKept
<1>7. ASSUME NEW w \in Worker, NEW nr \in BOOLEAN, HandlerThrows(w, nr)
      PROVE  \A i \in Job : RowMoves(i)
  BY <1>7, ThrowMoves, OthersKept
<1>8. ASSUME NEW w \in Worker, Beat(w) PROVE \A i \in Job : RowMoves(i)
  <2> DEFINE j == worker[w].job
  <2>1. j \in Job /\ job' = Heartbeat(job, j)
    BY <1>8 DEF TypeOK, Beat, Running
  <2> HIDE DEF j
  <2>2. /\ OneRow(job, job', j) /\ job'[j].state = job[j].state
        /\ job'[j].holder = job[j].holder /\ job'[j].attempts = job[j].attempts
        /\ job'[j].max = job[j].max
    BY <1>a, <2>1, HeartbeatFields
  <2>3. RowMoves(j)
    BY <2>2 DEF RowMoves, Kept, Counts
  <2>4. QED
    BY <2>1, <2>2, <2>3, OthersKept
<1>9. ASSUME NEW w \in Worker, HandlerWrites(w) \/ Stop(w) \/ Crash(w) \/ Start(w)
      PROVE  \A i \in Job : RowMoves(i)
  BY <1>9, <1>b DEF HandlerWrites, Stop, Crash, Start
<1>10. ASSUME Advance PROVE \A i \in Job : RowMoves(i)
  <2>1. \A i \in Job : /\ job'[i].state = job[i].state /\ job'[i].holder = job[i].holder
                       /\ job'[i].attempts = job[i].attempts /\ job'[i].max = job[i].max
    BY <1>10, <1>a DEF Advance, JobTable, JobRow
  <2>2. QED
    BY <2>1 DEF RowMoves, Kept, Counts
<1>11. QED
  BY <1>1, <1>2, <1>3, <1>4, <1>5, <1>6, <1>7, <1>8, <1>9, <1>10, <1>b
  DEF Next, Tick, HandlerSettles, vars

LEMMA LoopSteps ==
    ASSUME TypeOK, [Next]_vars
    PROVE  \A w \in Worker : LoopMoves(w)
<1>a. worker \in [Worker -> Process] /\ Down.pc = "down" /\ Idle.pc = "idle"
  BY DEF TypeOK, Down, Idle
<1>b. ASSUME NEW w \in Worker, NEW p, worker' = [worker EXCEPT ![w] = p],
             p.pc = "running" => /\ Running(w) /\ p.job = worker[w].job
                                 /\ p.token = worker[w].token
                                 /\ p.attempt = worker[w].attempt
      PROVE  \A v \in Worker : LoopMoves(v)
  BY <1>a, <1>b DEF LoopMoves, SameLoop, Running
<1>c. UNCHANGED worker => \A w \in Worker : LoopMoves(w)
  BY DEF LoopMoves, SameLoop, Running
<1>1. ASSUME NEW w \in Worker, TickRun(w) PROVE \A v \in Worker : LoopMoves(v)
  <2> DEFINE j == Oldest(Claimable(Reaped))
  <2>1. j \in Job /\ Claimed(j, w) /\ \A v \in Worker \ {w} : worker'[v] = worker[v]
    BY <1>1, RunFacts
  <2> HIDE DEF j
  <2>2. LoopMoves(w)
    BY <2>1 DEF LoopMoves, Claimed
  <2>3. \A v \in Worker \ {w} : LoopMoves(v)
    BY <2>1 DEF LoopMoves, SameLoop, Running
  <2>4. QED
    BY <2>2, <2>3
<1>2. ASSUME NEW w \in Worker, LoopAgain(w) PROVE \A v \in Worker : LoopMoves(v)
  <2>1. PICK p \in {Down, Idle} : worker' = [worker EXCEPT ![w] = p]
    BY <1>2 DEF LoopAgain
  <2>2. p.pc # "running"
    BY <1>a, <2>1
  <2>3. QED
    BY <1>b, <2>1, <2>2
<1>3. ASSUME NEW w \in Worker, Beat(w) PROVE \A v \in Worker : LoopMoves(v)
  <2>1. \A v \in Worker : /\ worker'[v].pc = worker[v].pc
                          /\ worker'[v].job = worker[v].job
                          /\ worker'[v].token = worker[v].token
                          /\ worker'[v].attempt = worker[v].attempt
    BY <1>3, <1>a DEF Beat, Process
  <2>2. QED
    BY <2>1 DEF LoopMoves, SameLoop, Running
<1>4. ASSUME NEW w \in Worker, Stop(w) \/ Crash(w) \/ Start(w)
      PROVE  \A v \in Worker : LoopMoves(v)
  <2>1. PICK p \in {Down, Idle, [worker[w] EXCEPT !.stopping = TRUE]} :
          worker' = [worker EXCEPT ![w] = p]
    BY <1>4, <1>a DEF Stop, Crash, Start
  <2>2. p.pc = "running" => /\ Running(w) /\ p.job = worker[w].job
                            /\ p.token = worker[w].token
                            /\ p.attempt = worker[w].attempt
    BY <1>a, <2>1 DEF Running, Process
  <2>3. QED
    BY <1>b, <2>1, <2>2
<1>5. ASSUME Advance PROVE \A v \in Worker : LoopMoves(v)
  <2>1. \A v \in Worker : /\ worker'[v].pc = worker[v].pc
                          /\ worker'[v].job = worker[v].job
                          /\ worker'[v].token = worker[v].token
                          /\ worker'[v].attempt = worker[v].attempt
    BY <1>5, <1>a DEF Advance, Process
  <2>2. QED
    BY <2>1 DEF LoopMoves, SameLoop, Running
<1>6. CASE UNCHANGED worker
  BY <1>6, <1>c
<1>7. QED
  BY <1>1, <1>2, <1>3, <1>4, <1>5, <1>6
  DEF Next, Tick, TickNothing, TickDefer, HandlerWrites, HandlerSettles,
      HandlerReturns, HandlerThrows, Enqueue, CancelPending, vars

-------------------------------------------------------------------------------
(* Every job's life                                                        *)

\* The limit only ever falls, a job that waits has an attempt left, and no job
\* was attempted before it was enqueued.
LifeInv == \A i \in Job :
    /\ job[i].max <= MaxAttempts /\ job[i].attempts <= MaxAttempts
    /\ job[i].state = "pending" => job[i].attempts < MaxAttempts
    /\ job[i].state = "new" => job[i].attempts = 0

LEMMA LifeInvariant == Spec => []LifeInv
<1>1. Init => LifeInv
  BY JobsAssumption DEF Init, LifeInv
<1>2. TypeOK /\ LifeInv /\ [Next]_vars => LifeInv'
  <2> SUFFICES ASSUME TypeOK, LifeInv, [Next]_vars, NEW i \in Job
               PROVE  /\ job'[i].max <= MaxAttempts /\ job'[i].attempts <= MaxAttempts
                      /\ job'[i].state = "pending" => job'[i].attempts < MaxAttempts
                      /\ job'[i].state = "new" => job'[i].attempts = 0
    BY DEF LifeInv
  <2>1. /\ MaxAttempts \in Nat /\ job[i].attempts \in Nat /\ job[i].max \in Nat
        /\ job[i].max <= MaxAttempts /\ job[i].attempts <= MaxAttempts
        /\ job[i].state = "pending" => job[i].attempts < MaxAttempts
        /\ job[i].state = "new" => job[i].attempts = 0
    BY JobsAssumption DEF TypeOK, LifeInv, JobRow
  <2>2. RowMoves(i)
    BY JobSteps
  <2>3. Attemptable(i) => job[i].attempts < MaxAttempts
    BY <2>1 DEF Attemptable
  <2>4. CASE Kept(i)
    BY <2>1, <2>4 DEF Kept, Counts
  <2>5. CASE Entered(i)
    BY <2>1, <2>5, JobsAssumption DEF Entered, Counts
  <2>6. CASE Cancelled(i) \/ Retired(i)
    BY <2>1, <2>6 DEF Cancelled, Retired, Counts
  <2>7. CASE GivenBack(i)
    BY <2>1, <2>3, <2>7 DEF GivenBack, Counts
  <2>8. ASSUME NEW w \in Worker, Claimed(i, w) \/ Settled(i, w)
        PROVE  /\ job'[i].max <= MaxAttempts /\ job'[i].attempts <= MaxAttempts
               /\ job'[i].state \notin {"pending", "new"}
    BY <2>1, <2>3, <2>8 DEF Claimed, Settled, Counts
  <2>9. QED
    BY <2>2, <2>4, <2>5, <2>6, <2>7, <2>8 DEF RowMoves
<1>3. QED
  BY <1>1, <1>2, TypeCorrect, PTL DEF Spec

\* The queue keeps the promise of JobLifecycle to every job: whatever crashes,
\* stalls, reaps or defers, it is inserted once, attempted at most MaxAttempts
\* times, and ends in one terminal state it never leaves (queue.ts:96-262).
THEOREM QueueImplementsLifecycle == Spec => LifecycleSpec
<1> DEFINE phase == [j \in Job |-> job[j].state]
           tries == [j \in Job |-> job[j].attempts]
<1>1. Init => Lifecycle!Init
  BY DEF Init, Lifecycle!Init
<1>2. TypeOK /\ LifeInv /\ [Next]_vars => [Lifecycle!Next]_(Lifecycle!vars)
  <2> SUFFICES ASSUME TypeOK, LifeInv, [Next]_vars, NEW i \in Job
               PROVE  \/ Lifecycle!Rest(i) \/ Lifecycle!Insert(i) \/ Lifecycle!Delete(i)
                      \/ Lifecycle!Attempt(i) \/ Lifecycle!GiveBack(i)
                      \/ Lifecycle!Settle(i)
    BY DEF Lifecycle!Next
  <2>1. /\ phase[i] = job[i].state /\ tries[i] = job[i].attempts
        /\ phase'[i] = job'[i].state /\ tries'[i] = job'[i].attempts
    OBVIOUS
  <2>2. /\ MaxAttempts \in Nat /\ job[i].attempts \in Nat /\ job[i].max \in Nat
        /\ job[i].max <= MaxAttempts
        /\ job[i].state = "pending" => job[i].attempts < MaxAttempts
        /\ job[i].state = "new" => job[i].attempts = 0
    BY JobsAssumption DEF TypeOK, LifeInv, JobRow
  <2>3. Attemptable(i) => /\ job[i].attempts < MaxAttempts
                          /\ job[i].state \in {"pending", "running"}
    BY <2>2 DEF Attemptable
  <2> HIDE DEF phase, tries
  <2>4. RowMoves(i)
    BY JobSteps
  <2>5. CASE Kept(i)
    BY <2>1, <2>5 DEF Kept, Counts, Lifecycle!Rest, phase, tries
  <2>6. CASE Entered(i)
    BY <2>1, <2>2, <2>6 DEF Entered, Counts, Lifecycle!Insert, phase, tries
  <2>7. CASE Cancelled(i)
    BY <2>1, <2>7 DEF Cancelled, Counts, Lifecycle!Delete, phase, tries
  <2>8. CASE Retired(i)
    BY <2>1, <2>8 DEF Retired, Counts, Lifecycle!Settle, Lifecycle!Terminal, phase, tries
  <2>9. CASE GivenBack(i)
    BY <2>1, <2>3, <2>9
    DEF GivenBack, Counts, Lifecycle!GiveBack, Lifecycle!Rest, phase, tries
  <2>10. ASSUME NEW w \in Worker, Claimed(i, w) PROVE Lifecycle!Attempt(i)
    BY <2>1, <2>3, <2>10 DEF Claimed, Lifecycle!Attempt, phase, tries
  <2>11. ASSUME NEW w \in Worker, Settled(i, w) PROVE Lifecycle!Settle(i)
    BY <2>1, <2>11
    DEF Settled, OwnerGuard, Counts, Lifecycle!Settle, Lifecycle!Terminal, phase, tries
  <2>12. QED
    BY <2>4, <2>5, <2>6, <2>7, <2>8, <2>9, <2>10, <2>11 DEF RowMoves
<1>3. QED
  BY <1>1, <1>2, TypeCorrect, LifeInvariant, PTL DEF Spec, LifecycleSpec, Lifecycle!Spec

-------------------------------------------------------------------------------
(* Who settles a job                                                       *)

\* A loop whose row still names it is making that row's latest attempt, however
\* often the job was reaped and claimed by others in between.
AttemptInv == \A w \in Worker :
    (Running(w) /\ OwnerGuard(job, worker[w].job, w))
        => worker[w].attempt = job[worker[w].job].attempts

LEMMA AttemptInvariant == Spec => []AttemptInv
<1>1. Init => AttemptInv
  BY DEF Init, AttemptInv, Running, Idle, Down
<1>2. TypeOK /\ AttemptInv /\ [Next]_vars => AttemptInv'
  <2> SUFFICES ASSUME TypeOK, AttemptInv, [Next]_vars, NEW w \in Worker,
                      worker'[w].pc = "running",
                      OwnerGuard(job', worker'[w].job, w)
               PROVE  worker'[w].attempt = job'[worker'[w].job].attempts
    BY DEF AttemptInv, Running, OwnerGuard
  <2>1. LoopMoves(w)
    BY LoopSteps
  <2>2. CASE Claimed(worker'[w].job, w)
    BY <2>2 DEF Claimed
  <2>3. CASE SameLoop(w)
    <3> DEFINE i == worker[w].job
    <3>1. i \in Job /\ worker'[w].job = i /\ Running(w)
          /\ worker'[w].attempt = worker[w].attempt
      BY <2>3 DEF TypeOK, SameLoop
    <3> HIDE DEF i
    <3>2. RowMoves(i)
      BY <3>1, JobSteps
    <3>3. job'[i].state = "running" /\ job'[i].holder = w
      BY <3>1 DEF OwnerGuard
    <3>4. CASE Kept(i)
      BY <3>1, <3>3, <3>4 DEF Kept, Counts, AttemptInv, OwnerGuard, i
    <3>5. ~(Entered(i) \/ Cancelled(i) \/ Retired(i) \/ GivenBack(i))
      BY <3>3 DEF Entered, Cancelled, Retired, GivenBack
    <3>6. ASSUME NEW v \in Worker, Claimed(i, v) \/ Settled(i, v) PROVE FALSE
      <4>1. Claimed(i, v)
        BY <3>3, <3>6 DEF Settled
      <4>2. v = w /\ ~Running(v)
        BY <3>3, <4>1 DEF Claimed
      <4>3. QED
        BY <3>1, <4>2
    <3>7. QED
      BY <3>1, <3>2, <3>4, <3>5, <3>6 DEF RowMoves
  <2>4. QED
    BY <2>1, <2>2, <2>3 DEF LoopMoves
<1>3. QED
  BY <1>1, <1>2, TypeCorrect, PTL DEF Spec

\* However many processes have stalled over the same job, only the loop that
\* made its latest attempt settles it: a process whose lease was reaped cannot
\* mark done or failed what somebody else is running (queue.ts:125-126).
THEOREM SettledByOwner == Spec => SettledByItsAttempt
<1>1. TypeOK /\ AttemptInv /\ [Next]_vars
        => [\A j \in Job :
              (job[j].state # job'[j].state /\ job'[j].state \in {"done", "failed"})
                => \E w \in Worker : /\ Running(w) /\ worker'[w].pc # "running"
                                     /\ worker[w].job = j
                                     /\ worker[w].attempt = job[j].attempts
                                     /\ job[j].holder = w]_vars
  <2> SUFFICES ASSUME TypeOK, AttemptInv, [Next]_vars, NEW j \in Job,
                      job[j].state # job'[j].state,
                      job'[j].state \in {"done", "failed"}
               PROVE  \E w \in Worker : /\ Running(w) /\ worker'[w].pc # "running"
                                        /\ worker[w].job = j
                                        /\ worker[w].attempt = job[j].attempts
                                        /\ job[j].holder = w
    OBVIOUS
  <2>1. RowMoves(j)
    BY JobSteps
  <2>2. PICK w \in Worker : Settled(j, w)
    BY <2>1 DEF RowMoves, Kept, Entered, Cancelled, Retired, GivenBack, Claimed
  <2>3. /\ Running(w) /\ worker'[w].pc # "running" /\ worker[w].job = j
        /\ OwnerGuard(job, j, w)
    BY <2>2 DEF Settled
  <2>4. QED
    BY <2>3 DEF AttemptInv, OwnerGuard
<1>2. QED
  BY <1>1, TypeCorrect, AttemptInvariant, PTL DEF Spec, SettledByItsAttempt

-------------------------------------------------------------------------------
(* One handler per service                                                 *)

\* The loop's row and its service's lock name it, and both run out later than
\* its next heartbeat is due.
Held(w) ==
    /\ job[worker[w].job].state = "running" /\ job[worker[w].job].holder = w
    /\ job[worker[w].job].attempts = worker[w].attempt
    /\ job[worker[w].job].token = worker[w].token
    /\ job[worker[w].job].lease > worker[w].beat
    /\ lock[ServiceOf[worker[w].job]].holder = w
    /\ lock[ServiceOf[worker[w].job]].token = worker[w].token
    /\ lock[ServiceOf[worker[w].job]].ttl > worker[w].beat

HoldInv == ~late => \A w \in Worker : Running(w) => Held(w)

\* A step that leaves alone the loop, the row and the lock.
Untouched(w) == /\ Running(w)
                /\ worker'[w].job = worker[w].job
                /\ worker'[w].token = worker[w].token
                /\ worker'[w].attempt = worker[w].attempt
                /\ worker'[w].beat = worker[w].beat
                /\ job'[worker[w].job] = job[worker[w].job]
                /\ lock'[ServiceOf[worker[w].job]] = lock[ServiceOf[worker[w].job]]

LEMMA HoldInvariant == Spec => []HoldInv
<1>1. Init => HoldInv
  BY DEF Init, HoldInv, Running, Idle, Down
<1>2. TypeOK /\ HoldInv /\ [Next]_vars => HoldInv'
  <2> SUFFICES ASSUME TypeOK, HoldInv, [Next]_vars, ~late', NEW w \in Worker,
                      worker'[w].pc = "running"
               PROVE  Held(w)'
    BY DEF HoldInv, Running
  <2>a. /\ job \in JobTable /\ worker \in [Worker -> Process]
        /\ lock \in [Service -> LockRow]
        /\ Idle.pc = "idle" /\ Down.pc = "down"
        /\ \A v \in Worker : Running(v) => /\ worker[v].job \in Job
                                           /\ ServiceOf[worker[v].job] \in Service
    BY JobsAssumption DEF TypeOK, JobTable, Idle, Down
  <2>b. ~late
    BY DEF Next, Tick, TickNothing, TickDefer, TickRun, HandlerWrites, HandlerSettles,
           HandlerReturns, HandlerThrows, Beat, Stop, Crash, Start, Enqueue,
           CancelPending, Advance, vars
  <2>c. \A v \in Worker : Running(v) => Held(v)
    BY <2>b DEF HoldInv
  <2>d. Untouched(w) => Held(w)'
    BY <2>c DEF Untouched, Held
  <2>e. Running(w) => ~Expired(job, worker[w].job)
    BY <2>a, <2>c DEF Held, Expired, Process
  <2>f. ASSUME NEW v \in Worker, Running(v), v # w, Running(w)
        PROVE  /\ worker[v].job # worker[w].job
               /\ ServiceOf[worker[v].job] # ServiceOf[worker[w].job]
    BY <2>c, <2>f DEF Held
  <2>g. ASSUME NEW v \in Worker, LoopAgain(v) PROVE v # w /\ worker'[w] = worker[w]
    <3>1. PICK p \in {Down, Idle} : worker' = [worker EXCEPT ![v] = p]
      BY <2>g DEF LoopAgain
    <3>2. QED
      BY <2>a, <3>1
  <2>h. ASSUME NEW v \in Worker, NEW s \in Service, ReleaseLock(s, v)
        PROVE  \A u \in Service \ {s} : lock'[u] = lock[u]
    BY <2>a, <2>h DEF ReleaseLock
  <2>i. UNCHANGED worker => Running(w)
    BY DEF Running
  <2>1. ASSUME NEW j \in Job,
               (\E delay \in StartDelays : Enqueue(j, delay)) \/ CancelPending(j)
        PROVE  Held(w)'
    <3>1. /\ UNCHANGED <<worker, lock>> /\ Running(w)
          /\ job[j].state # "running"
          /\ \A i \in Job \ {j} : job'[i] = job[i]
      BY <2>1, <2>a, <2>i DEF Enqueue, CancelPending, JobTable
    <3>2. worker[w].job # j
      BY <3>1, <2>c DEF Held
    <3>3. QED
      BY <3>1, <3>2, <2>a, <2>d DEF Untouched
  <2>2. ASSUME NEW v \in Worker, TickNothing(v) PROVE Held(w)'
    <3>1. UNCHANGED <<worker, lock>> /\ Running(w) /\ job' = Reaped
      BY <2>2, <2>i DEF TickNothing
    <3>2. job'[worker[w].job] = job[worker[w].job]
      BY <3>1, <2>a, <2>e, ReapMoves
    <3>3. QED
      BY <3>1, <3>2, <2>d DEF Untouched
  <2>3. ASSUME NEW v \in Worker, TickDefer(v) PROVE Held(w)'
    <3> DEFINE j == Oldest(Claimable(Reaped))
    <3>1. /\ j \in Job /\ Reaped[j].state = "pending"
          /\ \A i \in Job \ {j} : job'[i] = Reaped[i]
      BY <2>3, DeferFacts
    <3> HIDE DEF j
    <3>2. UNCHANGED <<worker, lock>> /\ Running(w)
      BY <2>3, <2>i DEF TickDefer
    <3>3. Reaped[worker[w].job] = job[worker[w].job]
      BY <3>2, <2>a, <2>e, ReapMoves
    <3>4. worker[w].job # j
      BY <3>1, <3>2, <3>3, <2>c DEF Held
    <3>5. QED
      BY <3>1, <3>2, <3>3, <3>4, <2>a, <2>d DEF Untouched
  <2>4. ASSUME NEW v \in Worker, TickRun(v) PROVE Held(w)'
    <3> DEFINE j == Oldest(Claimable(Reaped))
               s == ServiceOf[j]
    <3>1. /\ j \in Job /\ Reaped[j].state = "pending" /\ LockFree(s)
          /\ Claimed(j, v)
          /\ \A i \in Job \ {j} : job'[i] = Reaped[i]
          /\ job'[j].lease = LeaseTtl
          /\ job'[j].token = lock[s].token + 1
          /\ worker'[v].token = lock[s].token + 1
          /\ worker'[v].beat = HeartbeatEvery
          /\ \A u \in Worker \ {v} : worker'[u] = worker[u]
          /\ lock'[s].holder = v /\ lock'[s].ttl = LeaseTtl
          /\ lock'[s].token = lock[s].token + 1
          /\ \A u \in Service \ {s} : lock'[u] = lock[u]
      BY <2>4, RunFacts
    <3> HIDE DEF j
    <3>2. CASE w = v
      <4>1. /\ worker'[w].job = j /\ worker'[w].attempt = job'[j].attempts
            /\ job'[j].state = "running" /\ job'[j].holder = w
        BY <3>1, <3>2 DEF Claimed
      <4>2. QED
        BY <4>1, <3>1, <3>2, TimersAssumption DEF Held
    <3>3. CASE w # v
      <4>1. worker'[w] = worker[w] /\ Running(w)
        BY <3>1, <3>3 DEF Running
      <4>2. Reaped[worker[w].job] = job[worker[w].job]
        BY <4>1, <2>a, <2>e, ReapMoves
      <4>3. worker[w].job # j
        BY <3>1, <4>1, <4>2, <2>c DEF Held
      <4>4. ServiceOf[worker[w].job] # s
        <5>1. worker[w].beat \in Nat
          BY <2>a, TimersAssumption DEF Process
        <5>2. lock[ServiceOf[worker[w].job]].ttl > worker[w].beat
          BY <4>1, <2>c DEF Held
        <5>3. QED
          BY <3>1, <5>1, <5>2 DEF LockFree
      <4>5. QED
        BY <3>1, <4>1, <4>2, <4>3, <4>4, <2>a, <2>d DEF Untouched
    <3>4. QED
      BY <3>2, <3>3
  <2>5. ASSUME NEW v \in Worker, HandlerWrites(v) PROVE Held(w)'
    BY <2>5, <2>d, <2>i DEF HandlerWrites, Untouched
  <2>6. ASSUME NEW v \in Worker, HandlerReturns(v) PROVE Held(w)'
    <3> DEFINE j == worker[v].job
    <3>1. /\ Running(v) /\ job' = Complete(job, j, v) /\ LoopAgain(v)
          /\ ReleaseLock(ServiceOf[j], v)
      BY <2>6 DEF HandlerReturns, Running
    <3>2. v # w /\ worker'[w] = worker[w] /\ Running(w)
      BY <3>1, <2>g DEF Running
    <3>3. OneRow(job, job', j)
      BY <3>1, <2>a, CompleteFields
    <3>4. /\ j # worker[w].job /\ ServiceOf[j] # ServiceOf[worker[w].job]
          /\ \A u \in Service \ {ServiceOf[j]} : lock'[u] = lock[u]
      BY <3>1, <3>2, <2>a, <2>f, <2>h
    <3>5. QED
      BY <3>2, <3>3, <3>4, <2>a, <2>d DEF Untouched, OneRow
  <2>7. ASSUME NEW v \in Worker, NEW nr \in BOOLEAN, HandlerThrows(v, nr)
        PROVE  Held(w)'
    <3> DEFINE j == worker[v].job
    <3>1. /\ Running(v) /\ OneRow(job, job', j) /\ LoopAgain(v)
          /\ ReleaseLock(ServiceOf[j], v)
      BY <2>7, ThrowMoves DEF HandlerThrows, Running
    <3>2. v # w /\ worker'[w] = worker[w] /\ Running(w)
      BY <3>1, <2>g DEF Running
    <3>3. /\ j # worker[w].job /\ ServiceOf[j] # ServiceOf[worker[w].job]
          /\ \A u \in Service \ {ServiceOf[j]} : lock'[u] = lock[u]
      BY <3>1, <3>2, <2>a, <2>f, <2>h
    <3>4. QED
      BY <3>1, <3>2, <3>3, <2>a, <2>d DEF Untouched, OneRow
  <2>8. ASSUME NEW v \in Worker, Beat(v) PROVE Held(w)'
    <3> DEFINE j == worker[v].job
               s == ServiceOf[j]
    <3>1. /\ Running(v) /\ j \in Job /\ s \in Service
          /\ job' = Heartbeat(job, j)
          /\ RenewLock(s, v, worker[v].token)
          /\ worker' = [worker EXCEPT ![v].beat = HeartbeatEvery]
      BY <2>8, <2>a DEF Beat, Running
    <3>2. /\ worker'[w].job = worker[w].job /\ worker'[w].token = worker[w].token
          /\ worker'[w].attempt = worker[w].attempt
          /\ w = v => worker'[w].beat = HeartbeatEvery
          /\ w # v => worker'[w].beat = worker[w].beat
          /\ Running(w)
      BY <2>a, <3>1 DEF Process, Running
    <3>3. Held(v)
      BY <2>c, <3>1
    <3>4. lock' = [lock EXCEPT ![s].ttl = LeaseTtl]
      BY <3>1, <3>3 DEF RenewLock, Held
    <3>5. /\ OneRow(job, job', j)
          /\ job'[j].state = "running" /\ job'[j].holder = v
          /\ job'[j].attempts = job[j].attempts /\ job'[j].token = job[j].token
          /\ job'[j].lease = LeaseTtl
      BY <2>a, <3>1, <3>3, HeartbeatFields DEF Held
    <3>6. /\ lock'[s].holder = v /\ lock'[s].token = lock[s].token
          /\ lock'[s].ttl = LeaseTtl
          /\ \A u \in Service \ {s} : lock'[u] = lock[u]
      BY <2>a, <3>1, <3>3, <3>4 DEF Held, LockRow
    <3>7. CASE w = v
      BY <3>2, <3>3, <3>5, <3>6, <3>7, TimersAssumption DEF Held
    <3>8. CASE w # v
      BY <3>1, <3>2, <3>5, <3>6, <3>8, <2>a, <2>d, <2>f DEF Untouched, OneRow
    <3>9. QED
      BY <3>7, <3>8
  <2>9. ASSUME NEW v \in Worker, Stop(v) \/ Crash(v) \/ Start(v) PROVE Held(w)'
    <3>1. PICK p \in {Down, Idle, [worker[v] EXCEPT !.stopping = TRUE]} :
            worker' = [worker EXCEPT ![v] = p]
      BY <2>9, <2>a DEF Stop, Crash, Start
    <3>2. /\ Running(w) /\ worker'[w].job = worker[w].job
          /\ worker'[w].token = worker[w].token
          /\ worker'[w].attempt = worker[w].attempt
          /\ worker'[w].beat = worker[w].beat
      BY <2>a, <3>1 DEF Running, Process
    <3>3. QED
      BY <2>9, <2>d, <3>2 DEF Stop, Crash, Start, Untouched
  <2>10. ASSUME Advance PROVE Held(w)'
    <3> DEFINE j == worker[w].job
               s == ServiceOf[j]
    <3>1. /\ worker'[w].pc = worker[w].pc /\ worker'[w].job = worker[w].job
          /\ worker'[w].token = worker[w].token
          /\ worker'[w].attempt = worker[w].attempt
          /\ worker'[w].beat = Less(worker[w].beat)
      BY <2>10, <2>a DEF Advance, Process
    <3>2. Running(w) /\ Held(w) /\ j \in Job /\ s \in Service
      BY <3>1, <2>a, <2>c DEF Running
    <3>a. ~Overdue
      BY <2>10 DEF Advance
    <3>b. worker[w].beat \in Nat /\ job[j].lease \in Nat /\ lock[s].ttl \in Nat
      BY <2>a, <3>2, TimersAssumption DEF JobTable, JobRow, LockRow, Process
    <3>3. worker[w].beat # 0
      BY <3>2, <3>a DEF Overdue, Running
    <3> HIDE DEF s, j
    <3>c. job'[j] = [job[j] EXCEPT !.wait = Less(@), !.lease = Less(@)]
      BY <2>10, <3>2 DEF Advance
    <3>4. /\ job'[j].state = job[j].state /\ job'[j].holder = job[j].holder
          /\ job'[j].attempts = job[j].attempts /\ job'[j].token = job[j].token
          /\ job'[j].lease = Less(job[j].lease)
      BY <2>a, <3>2, <3>c DEF JobTable, JobRow
    <3>d. lock'[s] = [lock[s] EXCEPT !.ttl = Less(@)]
      BY <2>10, <3>2 DEF Advance
    <3>5. /\ lock'[s].holder = lock[s].holder /\ lock'[s].token = lock[s].token
          /\ lock'[s].ttl = Less(lock[s].ttl)
      BY <2>a, <3>2, <3>d DEF LockRow
    <3> USE DEF s, j
    <3>6. \A n, m \in Nat : n > m /\ m # 0 => Less(n) > Less(m)
      BY DEF Less
    <3>7. job'[j].lease > worker'[w].beat /\ lock'[s].ttl > worker'[w].beat
      BY <3>1, <3>2, <3>b, <3>3, <3>4, <3>5, <3>6 DEF Held
    <3>8. QED
      BY <3>1, <3>2, <3>4, <3>5, <3>7 DEF Held
  <2>11. CASE UNCHANGED vars
    <3>1. UNCHANGED <<job, lock, worker>>
      BY <2>11 DEF vars
    <3>2. Running(w)
      BY <3>1, <2>i
    <3>3. Untouched(w)
      BY <3>1, <3>2 DEF Untouched
    <3>4. QED
      BY <3>3, <2>d
  <2>12. QED
    BY <2>1, <2>2, <2>3, <2>4, <2>5, <2>6, <2>7, <2>8, <2>9, <2>10, <2>11
    DEF Next, Tick, HandlerSettles
<1>3. QED
  BY <1>1, <1>2, TypeCorrect, PTL DEF Spec

\* While no heartbeat is late, no two processes are inside handlers of one
\* service, and a running handler's job is its own: not reaped, not deferred,
\* not taken by another (the lock and lease of worker.ts:88-131).
THEOREM OneHandler == Spec => []OneHandlerPerService
<1>1. HoldInv => OneHandlerPerService
  BY DEF HoldInv, Held, OneHandlerPerService
<1>2. QED
  BY <1>1, HoldInvariant, PTL

-------------------------------------------------------------------------------
(* The order of deploys                                                    *)

\* What a step owes the history variable: a job that goes back to the queue, that
\* waits for its time or that is reaped and claimed again was postponed, and jobs
\* are enqueued in the order of their ids.
Noted(i) ==
    /\ (postponed[i] = TRUE /\ job[i].state # "new") => postponed'[i] = TRUE
    /\ (job[i].state = "running" /\ job'[i].state = "pending") => postponed'[i] = TRUE
    /\ (job'[i].state = "pending" /\ job'[i].wait > 0)
         => \/ postponed'[i] = TRUE
            \/ job[i].state = "pending" /\ job[i].wait > 0
    /\ (job'[i].state = "new" /\ postponed'[i] = TRUE) => postponed[i] = TRUE
    /\ (job[i].state = "new" /\ job'[i].state # "new")
         => \A k \in Job : k < i => job[k].state # "new"
    /\ \A w \in Worker : (Claimed(i, w) /\ job[i].state = "running")
                           => postponed'[i] = TRUE

\* A row that only grows older.
LEMMA AgeNotes ==
    ASSUME NEW i \in Job, job[i].attempts \in Nat,
           job'[i].state = job[i].state, job'[i].attempts = job[i].attempts,
           job'[i].wait > 0 => job[i].wait > 0,
           postponed'[i] = postponed[i]
    PROVE  Noted(i)
<1>1. \A w \in Worker : ~Claimed(i, w)
  BY DEF Claimed
<1>2. QED
  BY <1>1 DEF Noted

\* A row that this pass may reap.
LEMMA ReapNotes ==
    ASSUME job \in JobTable, NEW i \in Job, job'[i] = Reaped[i],
           postponed[i] = TRUE => postponed'[i] = TRUE,
           (Expired(job, i) /\ Reaped[i].state = "pending") => postponed'[i] = TRUE,
           ~Expired(job, i) => postponed'[i] = postponed[i]
    PROVE  Noted(i)
<1>1. /\ Reaped[i].attempts = job[i].attempts /\ job[i].attempts \in Nat
      /\ \/ ~Expired(job, i) /\ Reaped[i] = job[i]
         \/ Expired(job, i) /\ Reaped[i].state = "dead"
         \/ Expired(job, i) /\ Reaped[i].state = "pending"
  BY ReapFields DEF Reaped, JobTable, JobRow
<1>2. \A w \in Worker : ~Claimed(i, w)
  BY <1>1 DEF Claimed
<1>3. CASE ~Expired(job, i)
  BY <1>1, <1>3, AgeNotes
<1>4. CASE Expired(job, i)
  <2>1. job[i].state = "running"
    BY <1>4 DEF Expired
  <2>2. QED
    BY <1>1, <1>2, <1>4, <2>1 DEF Noted
<1>5. QED
  BY <1>3, <1>4

LEMMA NoteSteps ==
    ASSUME TypeOK, [Next]_vars
    PROVE  \A i \in Job : Noted(i)
<1> SUFFICES ASSUME NEW i \in Job PROVE Noted(i)
  OBVIOUS
<1>a. /\ job \in JobTable /\ job[i].attempts \in Nat /\ job[i].wait \in Nat
      /\ worker \in [Worker -> Process] /\ postponed \in [Job -> BOOLEAN]
      /\ job[i] \in JobRow
  BY DEF TypeOK, JobTable, JobRow
<1>b. (job'[i] = job[i] /\ postponed'[i] = postponed[i]) => Noted(i)
  BY <1>a, AgeNotes
<1>c. \A q : NotePostponed(q) =>
        /\ postponed[i] = TRUE => postponed'[i] = TRUE
        /\ (job[i].state = "running" /\ q[i].state = "pending") => postponed'[i] = TRUE
        /\ ~(job[i].state = "running" /\ q[i].state = "pending")
             => postponed'[i] = postponed[i]
  BY <1>a DEF NotePostponed
<1>d. Expired(job, i) => job[i].state = "running"
  BY DEF Expired
<1>e. ~Expired(job, i) => Reaped[i] = job[i]
  BY <1>a, ReapMoves
<1>f. Reaped[i].state = "pending" /\ job[i].state = "running" => Expired(job, i)
  BY <1>e
<1>1. ASSUME NEW j \in Job, NEW delay \in StartDelays, Enqueue(j, delay)
      PROVE  Noted(i)
  <2>1. CASE i = j
    <3>1. /\ job[i].state = "new" /\ job'[i].state = "pending" /\ job'[i].wait = delay
          /\ \A k \in Job : k < i => job[k].state # "new"
          /\ postponed'[i] = (delay > 0)
      BY <1>1, <1>a, <2>1 DEF Enqueue, JobTable, JobRow
    <3>2. QED
      BY <3>1 DEF Noted
  <2>2. CASE i # j
    BY <1>1, <1>a, <1>b, <2>2 DEF Enqueue, JobTable
  <2>3. QED
    BY <2>1, <2>2
<1>2. ASSUME NEW j \in Job, CancelPending(j) PROVE Noted(i)
  <2>1. CASE i = j
    <3>1. /\ job[i].state = "pending" /\ job'[i].state = "deleted"
          /\ postponed' = postponed
      BY <1>2, <1>a, <2>1 DEF CancelPending, JobTable, JobRow
    <3>2. QED
      BY <3>1 DEF Noted
  <2>2. CASE i # j
    BY <1>2, <1>a, <1>b, <2>2 DEF CancelPending, JobTable
  <2>3. QED
    BY <2>1, <2>2
<1>3. ASSUME NEW w \in Worker, TickNothing(w) PROVE Noted(i)
  <2>1. job' = Reaped /\ NotePostponed(Reaped)
    BY <1>3 DEF TickNothing
  <2>2. QED
    BY <2>1, <1>a, <1>c, <1>d, <1>f, ReapNotes
<1>4. ASSUME NEW w \in Worker, TickDefer(w) PROVE Noted(i)
  <2> DEFINE j == Oldest(Claimable(Reaped))
  <2>1. /\ j \in Job /\ Reaped[j].state = "pending" /\ GivenBack(j)
        /\ \A k \in Job \ {j} : job'[k] = Reaped[k]
    BY <1>4, DeferFacts
  <2>2. postponed' = [k \in Job |-> \/ k = j \/ postponed[k] \/ Expired(job, k)]
    BY <1>4 DEF TickDefer
  <2> HIDE DEF j
  <2>3. CASE i = j
    <3>1. postponed'[i] = TRUE
      BY <2>2, <2>3
    <3>2. job[i].state # "new" /\ job'[i].state = "pending"
      BY <2>1, <2>3 DEF GivenBack, Attemptable
    <3>3. QED
      BY <3>1, <3>2 DEF Noted
  <2>4. CASE i # j
    <3>1. /\ postponed[i] = TRUE => postponed'[i] = TRUE
          /\ Expired(job, i) => postponed'[i] = TRUE
          /\ ~Expired(job, i) => postponed'[i] = postponed[i]
      <4>1. postponed'[i] = (postponed[i] \/ Expired(job, i))
        BY <2>2, <2>4
      <4>2. QED
        BY <4>1, <1>a
    <3>2. QED
      BY <1>a, <2>1, <2>4, <3>1, ReapNotes
  <2>5. QED
    BY <2>3, <2>4
<1>5. ASSUME NEW w \in Worker, TickRun(w) PROVE Noted(i)
  <2> DEFINE j == Oldest(Claimable(Reaped))
  <2>1. /\ j \in Job /\ Reaped[j].state = "pending" /\ Claimed(j, w)
        /\ \A k \in Job \ {j} : job'[k] = Reaped[k]
    BY <1>5, RunFacts
  <2>2. NotePostponed(Reaped)
    BY <1>5 DEF TickRun
  <2> HIDE DEF j
  <2>3. CASE i = j
    <3>1. job'[i].state = "running" /\ job[i].state \in {"pending", "running"}
      BY <2>1, <2>3 DEF Claimed, Attemptable
    <3>2. /\ job[i].state = "running" => postponed'[i] = TRUE
          /\ postponed[i] = TRUE => postponed'[i] = TRUE
      BY <2>1, <2>2, <2>3, <1>c
    <3>3. QED
      BY <3>1, <3>2 DEF Noted
  <2>4. CASE i # j
    BY <2>1, <2>2, <2>4, <1>a, <1>c, <1>d, <1>f, ReapNotes
  <2>5. QED
    BY <2>3, <2>4
<1>6. ASSUME NEW w \in Worker, HandlerReturns(w) PROVE Noted(i)
  <2> DEFINE j == worker[w].job
  <2>1. j \in Job /\ job' = Complete(job, j, w) /\ postponed' = postponed
    BY <1>6 DEF TypeOK, HandlerReturns, Running
  <2> HIDE DEF j
  <2>2. /\ OneRow(job, job', j)
        /\ \/ job'[j] = job[j]
           \/ OwnerGuard(job, j, w) /\ job'[j].state = "done"
    BY <1>a, <2>1, CompleteFields
  <2>3. CASE job'[i] = job[i]
    BY <2>1, <2>3, <1>b
  <2>4. CASE job[i].state = "running" /\ job'[i].state = "done"
    <3>1. \A v \in Worker : ~Claimed(i, v)
      BY <2>4 DEF Claimed
    <3>2. QED
      BY <2>1, <2>4, <3>1 DEF Noted
  <2>5. QED
    BY <2>2, <2>3, <2>4 DEF OneRow, OwnerGuard
<1>7. ASSUME NEW w \in Worker, NEW nr \in BOOLEAN, HandlerThrows(w, nr)
      PROVE  Noted(i)
  <2> DEFINE j == worker[w].job
             q == IF nr THEN NoRetry(job, j) ELSE job
  <2>1. /\ j \in Job /\ OneRow(job, job', j)
        /\ job'[j].attempts = job[j].attempts
        /\ \/ job'[j].state = job[j].state /\ job'[j].wait = job[j].wait
           \/ job[j].state = "running" /\ job'[j].state \in {"failed", "pending"}
    BY <1>7, ThrowMoves
  <2>2. NotePostponed(job')
    BY <1>7 DEF HandlerThrows
  <2> HIDE DEF j, q
  <2>3. CASE i # j
    <3>1. job'[i] = job[i]
      BY <2>1, <2>3 DEF OneRow
    <3>2. postponed'[i] = postponed[i]
      BY <2>2, <3>1, <1>c
    <3>3. QED
      BY <3>1, <3>2, <1>b
  <2>4. CASE i = j /\ job'[i].state = job[i].state
    <3>1. job'[i].attempts = job[i].attempts /\ job'[i].wait = job[i].wait
      BY <2>1, <2>4
    <3>2. postponed'[i] = postponed[i]
      BY <2>2, <2>4, <1>c
    <3>3. QED
      BY <3>1, <3>2, <2>4, <1>a, AgeNotes
  <2>5. CASE i = j /\ job[i].state = "running" /\ job'[i].state \in {"failed", "pending"}
    <3>1. \A v \in Worker : ~Claimed(i, v)
      BY <2>5 DEF Claimed
    <3>2. /\ postponed[i] = TRUE => postponed'[i] = TRUE
          /\ job'[i].state = "pending" => postponed'[i] = TRUE
      BY <2>2, <2>5, <1>c
    <3>3. QED
      BY <2>5, <3>1, <3>2 DEF Noted
  <2>6. QED
    BY <2>1, <2>3, <2>4, <2>5
<1>8. ASSUME NEW w \in Worker, Beat(w) PROVE Noted(i)
  <2> DEFINE j == worker[w].job
  <2>1. j \in Job /\ job' = Heartbeat(job, j) /\ postponed' = postponed
    BY <1>8 DEF TypeOK, Beat, Running
  <2> HIDE DEF j
  <2>2. /\ OneRow(job, job', j) /\ job'[j].state = job[j].state
        /\ job'[j].attempts = job[j].attempts /\ job'[j].wait = job[j].wait
    BY <1>a, <2>1, HeartbeatFields
  <2>3. QED
    BY <2>1, <2>2, <1>a, AgeNotes DEF OneRow
<1>9. ASSUME NEW w \in Worker, HandlerWrites(w) \/ Stop(w) \/ Crash(w) \/ Start(w)
      PROVE  Noted(i)
  BY <1>9, <1>b DEF HandlerWrites, Stop, Crash, Start
<1>10. ASSUME Advance PROVE Noted(i)
  <2>1. job'[i] = [job[i] EXCEPT !.wait = Less(@), !.lease = Less(@)]
    BY <1>10 DEF Advance
  <2>2. /\ job'[i].state = job[i].state /\ job'[i].attempts = job[i].attempts
        /\ job'[i].wait = Less(job[i].wait) /\ postponed'[i] = postponed[i]
    BY <1>10, <1>a, <2>1 DEF Advance, JobRow
  <2>3. job'[i].wait > 0 => job[i].wait > 0
    BY <1>a, <2>2 DEF Less
  <2>4. QED
    BY <1>a, <2>2, <2>3, AgeNotes
<1>11. CASE UNCHANGED vars
  BY <1>11, <1>b DEF vars
<1>12. QED
  BY <1>1, <1>2, <1>3, <1>4, <1>5, <1>6, <1>7, <1>8, <1>9, <1>10, <1>11
  DEF Next, Tick, HandlerSettles

\* A job that waits for its time was postponed; one that is not enqueued yet was
\* not, and neither is any with a higher id.
WaitInv == \A i \in Job :
    /\ (job[i].state = "pending" /\ job[i].wait > 0) => postponed[i] = TRUE
    /\ job[i].state = "new" => postponed[i] # TRUE
    /\ \A k \in Job : (job[i].state = "new" /\ i < k) => job[k].state = "new"

LEMMA WaitInvariant == Spec => []WaitInv
<1>1. Init => WaitInv
  BY DEF Init, WaitInv
<1>2. TypeOK /\ WaitInv /\ [Next]_vars => WaitInv'
  <2> SUFFICES ASSUME TypeOK, WaitInv, [Next]_vars, NEW i \in Job
               PROVE  /\ (job'[i].state = "pending" /\ job'[i].wait > 0)
                           => postponed'[i] = TRUE
                      /\ job'[i].state = "new" => postponed'[i] # TRUE
                      /\ \A k \in Job : (job'[i].state = "new" /\ i < k)
                                          => job'[k].state = "new"
    BY DEF WaitInv
  <2>1. RowMoves(i) /\ \A k \in Job : Noted(k)
    BY JobSteps, NoteSteps
  <2>2. (job'[i].state = "pending" /\ job'[i].wait > 0) => postponed'[i] = TRUE
    BY <2>1 DEF Noted, WaitInv
  <2>3. job'[i].state = "new" => job[i].state = "new"
    BY <2>1 DEF RowMoves, Kept, Entered, Cancelled, Retired, GivenBack, Claimed, Settled
  <2>4. job'[i].state = "new" => postponed'[i] # TRUE
    BY <2>1, <2>3 DEF Noted, WaitInv
  <2>5. ASSUME NEW k \in Job, job'[i].state = "new", i < k PROVE job'[k].state = "new"
    BY <2>1, <2>3, <2>5 DEF Noted, WaitInv
  <2>6. QED
    BY <2>2, <2>4, <2>5
<1>3. QED
  BY <1>1, <1>2, TypeCorrect, PTL DEF Spec

\* The job is out of the queue, and whoever still runs it does so under a token
\* lower than t.
Passed(i, t) == /\ job[i].state \notin {"new", "pending"}
                /\ \A w \in Worker : (Running(w) /\ worker[w].job = i)
                                       => worker[w].token < t

\* Ahead of a job that runs or was committed, an older one of its service that was
\* never postponed has been passed.
OrderInv ==
    /\ \A s \in Service, i \in Job :
         (ServiceOf[i] = s /\ i < current[s].job /\ postponed[i] # TRUE)
           => Passed(i, current[s].token)
    /\ \A w \in Worker, i \in Job :
         (/\ Running(w) /\ ServiceOf[i] = ServiceOf[worker[w].job]
          /\ i < worker[w].job /\ postponed[i] # TRUE)
           => Passed(i, worker[w].token)

\* What was passed stays so: back in the queue, or claimed again, it is postponed.
LEMMA StaysPassed ==
    ASSUME TypeOK, WaitInv, [Next]_vars, NEW i \in Job, NEW t,
           postponed'[i] # TRUE
    PROVE  /\ postponed[i] # TRUE
           /\ Passed(i, t) => Passed(i, t)'
<1>1. RowMoves(i) /\ Noted(i) /\ \A w \in Worker : LoopMoves(w)
  BY JobSteps, NoteSteps, LoopSteps
<1>2. postponed[i] # TRUE
  BY <1>1 DEF Noted, WaitInv
<1>3. ASSUME Passed(i, t) PROVE Passed(i, t)'
  <2>1. job[i].state \notin {"new", "pending"}
    BY <1>3 DEF Passed
  <2>2. \A w \in Worker : ~Claimed(i, w)
    BY <1>1, <2>1 DEF Claimed, Attemptable, Noted
  <2>3. ~Entered(i) /\ ~Cancelled(i) /\ ~GivenBack(i)
    BY <1>1, <2>1 DEF Entered, Cancelled, GivenBack, Attemptable, Noted
  <2>4. job'[i].state \notin {"new", "pending"}
    BY <1>1, <2>1, <2>2, <2>3 DEF RowMoves, Kept, Retired, Settled
  <2>5. ASSUME NEW w \in Worker, worker'[w].pc = "running", worker'[w].job = i
        PROVE  worker'[w].token < t
    <3>1. SameLoop(w)
      BY <1>1, <2>2, <2>5 DEF LoopMoves
    <3>2. QED
      BY <1>3, <2>5, <3>1 DEF SameLoop, Passed
  <2>6. QED
    BY <2>4, <2>5 DEF Passed, Running
<1>4. QED
  BY <1>2, <1>3

LEMMA OrderInvariant == Spec => []OrderInv
<1>1. Init => OrderInv
  BY JobsAssumption DEF Init, OrderInv, Running, Idle, Down
<1>2. TypeOK /\ FenceInv /\ WaitInv /\ OrderInv /\ [Next]_vars => OrderInv'
  <2> SUFFICES ASSUME TypeOK, FenceInv, WaitInv, OrderInv, [Next]_vars
               PROVE  OrderInv'
    OBVIOUS
  <2>a. /\ worker \in [Worker -> Process]
        /\ current \in [Service -> [job : Job \cup {0}, token : Nat]]
        /\ \A w \in Worker : Running(w) => /\ worker[w].job \in Job
                                           /\ ServiceOf[worker[w].job] \in Service
    BY JobsAssumption DEF TypeOK
  <2>b. ASSUME NEW i \in Job, NEW t, postponed'[i] # TRUE
        PROVE  postponed[i] # TRUE /\ (Passed(i, t) => Passed(i, t)')
    BY <2>b, StaysPassed
  <2>1. ASSUME NEW s \in Service, NEW i \in Job, NEW t, t = current'[s].token,
               ServiceOf[i] = s, i < current'[s].job, postponed'[i] # TRUE
        PROVE  Passed(i, t)'
    <3>1. postponed[i] # TRUE /\ (Passed(i, t) => Passed(i, t)')
      BY <2>1, <2>b
    <3>2. CASE current'[s] = current[s]
      BY <2>1, <3>1, <3>2 DEF OrderInv
    <3>3. CASE current'[s] # current[s]
      <4>1. PICK w \in Worker : HandlerWrites(w)
        <5>1. CASE ~ \E w \in Worker : TickRun(w) \/ HandlerWrites(w)
          BY <3>3, <5>1, QuietSteps DEF Quiet
        <5>2. QED
          BY <3>3, <5>1 DEF TickRun
      <4>2. /\ Running(w) /\ ServiceOf[worker[w].job] = s
            /\ current'[s].job = worker[w].job /\ current'[s].token = worker[w].token
        BY <2>a, <3>3, <4>1 DEF HandlerWrites, FencedSetCurrent, Running
      <4>3. Passed(i, t)
        BY <2>1, <3>1, <4>2 DEF OrderInv
      <4>4. QED
        BY <3>1, <4>3
    <3>4. QED
      BY <3>2, <3>3
  <2>2. ASSUME NEW w \in Worker, NEW i \in Job, NEW t, t = worker'[w].token,
               worker'[w].pc = "running",
               ServiceOf[i] = ServiceOf[worker'[w].job],
               i < worker'[w].job, postponed'[i] # TRUE
        PROVE  Passed(i, t)'
    <3>1. postponed[i] # TRUE /\ (Passed(i, t) => Passed(i, t)')
      BY <2>2, <2>b
    <3>2. CASE SameLoop(w)
      BY <2>2, <3>1, <3>2 DEF OrderInv, SameLoop
    <3>3. CASE ~SameLoop(w)
      <4> DEFINE j == Oldest(Claimable(Reaped))
                 s == ServiceOf[j]
      <4>1. TickRun(w)
        <5>1. Claimed(worker'[w].job, w)
          BY <2>2, <3>3, LoopSteps DEF LoopMoves
        <5>2. ~Running(w)
          BY <5>1 DEF Claimed
        <5>3. PICK v \in Worker : TickRun(v) \/ HandlerWrites(v)
          <6>1. ~Quiet
            BY <2>2, <5>2 DEF Quiet, Running
          <6>2. QED
            BY <6>1, QuietSteps
        <5>4. TickRun(v)
          BY <2>2, <5>2, <5>3 DEF HandlerWrites, Running
        <5>5. v = w
          BY <2>2, <5>2, <5>4, RunFacts DEF Running
        <5>6. QED
          BY <5>4, <5>5
      <4>2. /\ j \in Job /\ Claimed(j, w)
            /\ \A k \in Claimable(Reaped) : j <= k
            /\ \A k \in Job \ {j} : job'[k] = Reaped[k]
            /\ worker'[w].token = lock[s].token + 1
            /\ \A v \in Worker \ {w} : worker'[v] = worker[v]
        BY <4>1, RunFacts
      <4> HIDE DEF j
      <4>3. worker'[w].job = j /\ i < j /\ ServiceOf[i] = s
        BY <2>2, <4>2 DEF Claimed
      <4>4. i \in Nat /\ j \in Nat /\ s \in Service /\ lock[s].token \in Nat
        BY <4>2, JobsAssumption DEF TypeOK, LockRow
      <4>5. i # j /\ job'[i] = Reaped[i]
        BY <4>2, <4>3, <4>4
      <4>6. job'[i].state # "new"
        <5>1. job[j].state # "new"
          BY <4>2 DEF Claimed, Attemptable
        <5>2. job[i].state # "new"
          BY <4>2, <4>3, <5>1 DEF WaitInv
        <5>3. QED
          BY <5>2, JobSteps
          DEF RowMoves, Kept, Entered, Cancelled, Retired, GivenBack, Claimed, Settled
      <4>7. job'[i].state # "pending"
        <5>1. SUFFICES ASSUME job'[i].state = "pending" PROVE FALSE
          OBVIOUS
        <5>2. i \notin Claimable(Reaped)
          BY <4>2, <4>3, <4>4
        <5>3. Reaped[i].wait # 0 /\ Reaped[i].wait \in Nat
          <6>1. Reaped \in JobTable
            BY ReapType DEF TypeOK, JobTable, Reaped
          <6>2. QED
            BY <4>5, <5>1, <5>2, <6>1 DEF Claimable, JobTable, JobRow
        <5>4. job[i].state = "pending" /\ job[i].wait > 0
          <6>1. Noted(i)
            BY NoteSteps
          <6>2. job'[i].wait > 0
            <7>1. Reaped[i].wait > 0
              BY <5>3
            <7>2. QED
              BY <4>5, <7>1
          <6>3. postponed'[i] # TRUE
            BY <2>2
          <6>4. QED
            BY <5>1, <6>1, <6>2, <6>3 DEF Noted
        <5>5. QED
          BY <3>1, <5>4 DEF WaitInv
      <4>8. ASSUME NEW v \in Worker, worker'[v].pc = "running", worker'[v].job = i
            PROVE  worker'[v].token < t
        <5>1. v # w
          BY <4>3, <4>5, <4>8
        <5>2. worker'[v] = worker[v] /\ Running(v) /\ worker[v].job = i
          BY <4>2, <4>8, <5>1 DEF Running
        <5>3. worker[v].token <= lock[s].token /\ worker[v].token \in Nat
          BY <2>a, <4>3, <5>2 DEF FenceInv, Process
        <5>4. QED
          BY <2>2, <4>2, <4>4, <5>2, <5>3
      <4>9. QED
        BY <4>6, <4>7, <4>8 DEF Passed, Running
    <3>4. QED
      BY <3>2, <3>3
  <2>3. \A s \in Service, i \in Job :
          (ServiceOf[i] = s /\ i < current'[s].job /\ postponed'[i] # TRUE)
            => /\ job'[i].state \notin {"new", "pending"}
               /\ \A w \in Worker : (worker'[w].pc = "running" /\ worker'[w].job = i)
                                      => worker'[w].token < current'[s].token
    BY <2>1 DEF Passed, Running
  <2>4. \A v \in Worker, i \in Job :
          (/\ worker'[v].pc = "running" /\ ServiceOf[i] = ServiceOf[worker'[v].job]
           /\ i < worker'[v].job /\ postponed'[i] # TRUE)
            => /\ job'[i].state \notin {"new", "pending"}
               /\ \A w \in Worker : (worker'[w].pc = "running" /\ worker'[w].job = i)
                                      => worker'[w].token < worker'[v].token
    BY <2>2 DEF Passed, Running
  <2>5. QED
    BY <2>3, <2>4 DEF OrderInv, Passed, Running
<1>3. QED
  BY <1>1, <1>2, TypeCorrect, FenceInvariant, WaitInvariant, PTL DEF Spec

\* A job that was never delayed, deferred, retried or reaped cannot commit after a
\* newer job of its service: deploys take effect in the order they were enqueued
\* (ORDER BY id, queue.ts:102; the fence, lock.ts:75-97).
THEOREM CommitsInOrder == Spec => OvertakenOnlyWhenPostponed
<1>1. TypeOK /\ OrderInv /\ [Next]_vars
        => [\A s \in Service :
              (current'[s].job \in Job /\ current'[s].job < current[s].job)
                => postponed[current'[s].job]]_vars
  <2> SUFFICES ASSUME TypeOK, OrderInv, [Next]_vars, NEW s \in Service,
                      current'[s].job \in Job, current'[s].job < current[s].job,
                      postponed[current'[s].job] # TRUE
               PROVE  FALSE
    BY DEF TypeOK
  <2>a. /\ current \in [Service -> [job : Job \cup {0}, token : Nat]]
        /\ worker \in [Worker -> Process]
        /\ \A w \in Worker : Running(w) => ServiceOf[worker[w].job] \in Service
    BY JobsAssumption DEF TypeOK
  <2>1. current'[s] # current[s]
    <3>1. current[s].job \in Job \cup {0}
      BY <2>a
    <3>2. current[s].job \in Nat
      <4>1. \A k \in Job \cup {0} : k \in Nat
        BY JobsAssumption
      <4>2. QED
        BY <3>1, <4>1
    <3>3. current'[s].job # current[s].job
      BY <3>2
    <3>4. QED
      BY <3>3
  <2>2. PICK w \in Worker : HandlerWrites(w)
    <3>1. CASE ~ \E w \in Worker : TickRun(w) \/ HandlerWrites(w)
      BY <2>1, <3>1, QuietSteps DEF Quiet
    <3>2. QED
      BY <2>1, <3>1 DEF TickRun
  <2>3. /\ Running(w) /\ ServiceOf[worker[w].job] = s
        /\ current'[s].job = worker[w].job
        /\ worker[w].token >= current[s].token
    BY <2>a, <2>1, <2>2 DEF HandlerWrites, FencedSetCurrent, Running
  <2>4. Passed(worker[w].job, current[s].token)
    BY <2>3 DEF OrderInv
  <2>5. worker[w].token < current[s].token
    BY <2>3, <2>4 DEF Passed
  <2>6. worker[w].token \in Nat /\ current[s].token \in Nat
    BY <2>a DEF Process
  <2>7. QED
    BY <2>3, <2>5, <2>6
<1>2. QED
  BY <1>1, TypeCorrect, OrderInvariant, PTL DEF Spec, OvertakenOnlyWhenPostponed

===============================================================================

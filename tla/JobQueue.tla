------------------------------- MODULE JobQueue -------------------------------
(***************************************************************************)
(* The persistent job queue (src/queue/queue.ts), its worker loop          *)
(* (src/queue/worker.ts) and the per-service lock with fencing tokens      *)
(* (src/lib/lock.ts).                                                      *)
(*                                                                         *)
(* Granularity.  Every queue and lock method is synchronous, so a run of   *)
(* calls with no await between them is one action: a tick up to the point  *)
(* where it awaits the handler, the code after the handler settles, one    *)
(* heartbeat.                                                              *)
(*                                                                         *)
(* Time.  A stored timestamp is kept as the time left until it, so "due"   *)
(* (next_attempt_at <= now) and "expired" (lease_until <= now) both read   *)
(* "nothing left", and Advance is the passing of one unit.  The state      *)
(* space is finite with no bound on the length of a behaviour.             *)
(***************************************************************************)
EXTENDS Integers

CONSTANTS
    Worker,          \* lease holders: the processes that ever run the loop
    Service,         \* resource ids
    Job,             \* job ids, in the order deployments.id hands them out
    ServiceOf,       \* the resource_id of each job
    StartDelays,     \* the delayMs an enqueuer may ask for
    MaxAttempts,     \* DEFAULT_MAX_ATTEMPTS
    LeaseTtl,        \* LEASE_MS
    HeartbeatEvery,  \* HEARTBEAT_MS
    PollDelay,       \* POLL_MS, the delay of a deferred claim
    BackoffBase, BackoffCap,
    MayStall,        \* may a process miss its heartbeats and stay alive?
    None             \* NULL

ASSUME JobsAssumption ==
    /\ Job \subseteq Nat \ {0}
    /\ ServiceOf \in [Job -> Service]
    /\ MaxAttempts \in Nat \ {0}
    /\ None \notin Worker

ASSUME TimersAssumption ==
    /\ LeaseTtl \in Nat /\ HeartbeatEvery \in Nat
    /\ 0 < HeartbeatEvery /\ HeartbeatEvery < LeaseTtl
    /\ PollDelay \in Nat /\ StartDelays \subseteq Nat
    /\ BackoffBase \in Nat /\ BackoffCap \in Nat
    /\ MayStall \in BOOLEAN

VARIABLES
    job,        \* table jobs
    lock,       \* table locks, one row per service
    current,    \* table current_deployment: the deploying job and its token
    worker,     \* each process: where its loop is and what tick() holds
    postponed,  \* history: was the job ever delayed, deferred or retried?
    late        \* history: did a process ever miss a heartbeat?

vars == <<job, lock, current, worker, postponed, late>>

Live == {"pending", "running"}
Terminal == {"done", "failed", "dead", "deleted"}

Down == [pc |-> "down", job |-> 0, token |-> 0, attempt |-> 0,
         beat |-> 0, stopping |-> FALSE]
Idle == [Down EXCEPT !.pc = "idle"]

Init ==
    /\ job = [j \in Job |-> [state |-> "new", attempts |-> 0, max |-> MaxAttempts,
                             wait |-> 0, lease |-> 0, holder |-> None, token |-> 0]]
    /\ lock = [s \in Service |-> [holder |-> None, token |-> 0, ttl |-> 0]]
    /\ current = [s \in Service |-> [job |-> 0, token |-> 0]]
    /\ worker = [w \in Worker |-> Idle]
    /\ postponed = [j \in Job |-> FALSE]
    /\ late = FALSE

-------------------------------------------------------------------------------
(* The statements of queue.ts: each takes the jobs table to the next one.  *)

\* min(60s, 5s * 2^attempts)
BackoffMs(n) == LET d == BackoffBase * 2^n
                IN  IF d \in 0..BackoffCap THEN d ELSE BackoffCap

Claimable(q) == {j \in Job : q[j].state = "pending" /\ q[j].wait = 0}

\* Mutant: newest first.
Newest(S) == CHOOSE j \in S : \A k \in S : k <= j

Oldest(S) == CHOOSE j \in S : \A k \in S : j <= k

Claim(q, j, w) ==
    [q EXCEPT ![j].state = "running", ![j].lease = LeaseTtl,
              ![j].holder = w, ![j].attempts = @ + 1]

DeferClaim(q, j) ==
    [q EXCEPT ![j].state = "pending", ![j].attempts = @ - 1, ![j].lease = 0,
              ![j].holder = None, ![j].wait = PollDelay]

SetFencingToken(q, j, t) == [q EXCEPT ![j].token = t]

\* Mutant: the beat renews the lock only.
HeartbeatForgotten(q, j) == q

\* No holder in the guard: any running row with this id is extended.
Heartbeat(q, j) ==
    IF q[j].state = "running" THEN [q EXCEPT ![j].lease = LeaseTtl] ELSE q

\* Mutant: the guard without the lease holder.
OwnerGuardAnyHolder(q, j, w) == q[j].state = "running"

OwnerGuard(q, j, w) == q[j].state = "running" /\ q[j].holder = w

Complete(q, j, w) ==
    IF OwnerGuard(q, j, w)
    THEN [q EXCEPT ![j].state = "done", ![j].lease = 0, ![j].holder = None]
    ELSE q

\* Mutant: one attempt too many.
FailOffByOne(q, j, w) ==
    CASE ~OwnerGuard(q, j, w) -> q
      [] OwnerGuard(q, j, w) /\ q[j].attempts > q[j].max ->
           [q EXCEPT ![j].state = "failed", ![j].lease = 0, ![j].holder = None]
      [] OwnerGuard(q, j, w) /\ q[j].attempts <= q[j].max ->
           [q EXCEPT ![j].state = "pending", ![j].lease = 0, ![j].holder = None,
                     ![j].wait = BackoffMs(q[j].attempts)]

Fail(q, j, w) ==
    CASE ~OwnerGuard(q, j, w) -> q
      [] OwnerGuard(q, j, w) /\ q[j].attempts >= q[j].max ->
           [q EXCEPT ![j].state = "failed", ![j].lease = 0, ![j].holder = None]
      [] OwnerGuard(q, j, w) /\ q[j].attempts < q[j].max ->
           [q EXCEPT ![j].state = "pending", ![j].lease = 0, ![j].holder = None,
                     ![j].wait = BackoffMs(q[j].attempts)]

NoRetry(q, j) == [q EXCEPT ![j].max = q[j].attempts]

\* Mutant: a job that is out of attempts is never reaped.
ExpiredRetryable(q, j) ==
    q[j].state = "running" /\ q[j].lease = 0 /\ q[j].attempts < q[j].max

Expired(q, j) == q[j].state = "running" /\ q[j].lease = 0

ReapExpiredLeases(q) ==
    [j \in Job |->
        IF ~Expired(q, j) THEN q[j]
        ELSE IF q[j].attempts >= q[j].max
             THEN [q[j] EXCEPT !.state = "dead", !.holder = None]
             ELSE [q[j] EXCEPT !.state = "pending", !.holder = None, !.wait = 0]]

-------------------------------------------------------------------------------
(* lock.ts *)

LockFree(s) == lock[s].ttl = 0

AcquireLock(s, w) ==
    lock' = [lock EXCEPT ![s] = [holder |-> w, token |-> lock[s].token + 1,
                                 ttl |-> LeaseTtl]]

\* By resource and holder; the token is not compared.
ReleaseLock(s, w) ==
    lock' = IF lock[s].holder = w THEN [lock EXCEPT ![s].ttl = 0] ELSE lock

\* Mutant: the renewal succeeds but extends nothing.
RenewLockShort(s, w, t) == UNCHANGED lock

RenewLock(s, w, t) ==
    lock' = IF lock[s].holder = w /\ lock[s].token = t
            THEN [lock EXCEPT ![s].ttl = LeaseTtl] ELSE lock

\* Mutant: the write is not gated on the token.
UnfencedSetCurrent(s, j, t) ==
    current' = [current EXCEPT ![s] = [job |-> j, token |-> t]]

\* The upsert that a lower token does not get through.
FencedSetCurrent(s, j, t) ==
    current' = IF t >= current[s].token
               THEN [current EXCEPT ![s] = [job |-> j, token |-> t]]
               ELSE current

-------------------------------------------------------------------------------
(* Enqueuers and the operator's cancel *)

Enqueue(j, delay) ==
    /\ job[j].state = "new"
    /\ \A i \in Job : i < j => job[i].state # "new"
    /\ job' = [job EXCEPT ![j].state = "pending", ![j].wait = delay]
    /\ postponed' = [postponed EXCEPT ![j] = delay > 0]
    /\ UNCHANGED <<lock, current, worker, late>>

CancelPending(j) ==
    /\ job[j].state = "pending"
    /\ job' = [job EXCEPT ![j].state = "deleted"]
    /\ UNCHANGED <<lock, current, worker, postponed, late>>

-------------------------------------------------------------------------------
(* tick(): reap, claim, lock, then the handler under a heartbeat *)

Reaped == ReapExpiredLeases(job)

\* Every job a pass may put back in the queue.
NotePostponed(q) ==
    postponed' = [j \in Job |-> postponed[j] \/ (job[j].state = "running"
                                                 /\ q[j].state = "pending")]

TickNothing(w) ==
    /\ worker[w].pc = "idle"
    /\ Claimable(Reaped) = {}
    /\ job' = Reaped
    /\ NotePostponed(Reaped)
    /\ UNCHANGED <<lock, current, worker, late>>

\* The service's lock is live: the claim is undone and the attempt not counted.
TickDefer(w) ==
    /\ worker[w].pc = "idle"
    /\ Claimable(Reaped) # {}
    /\ LET j == Oldest(Claimable(Reaped)) IN
         /\ ~LockFree(ServiceOf[j])
         /\ job' = DeferClaim(Claim(Reaped, j, w), j)
         /\ postponed' = [i \in Job |-> \/ i = j
                                        \/ postponed[i]
                                        \/ Expired(job, i)]
    /\ UNCHANGED <<lock, current, worker, late>>

TickRun(w) ==
    /\ worker[w].pc = "idle"
    /\ Claimable(Reaped) # {}
    /\ LET j == Oldest(Claimable(Reaped))
           s == ServiceOf[j]
           t == lock[s].token + 1
       IN
         /\ LockFree(s)
         /\ AcquireLock(s, w)
         /\ job' = SetFencingToken(Claim(Reaped, j, w), j, t)
         /\ worker' = [worker EXCEPT ![w].pc = "running", ![w].job = j,
                           ![w].token = t, ![w].attempt = Reaped[j].attempts + 1,
                           ![w].beat = HeartbeatEvery]
    /\ NotePostponed(Reaped)
    /\ UNCHANGED <<current, late>>

Tick(w) == TickNothing(w) \/ TickDefer(w) \/ TickRun(w)

\* The handler commits its result under the job's fencing token.
HandlerWrites(w) ==
    /\ worker[w].pc = "running"
    /\ FencedSetCurrent(ServiceOf[worker[w].job], worker[w].job, worker[w].token)
    /\ UNCHANGED <<job, lock, worker, postponed, late>>

\* A loop that is stopping takes no further job.
LoopAgain(w) == worker' = [worker EXCEPT ![w] = IF @.stopping THEN Down ELSE Idle]

HandlerReturns(w) ==
    /\ worker[w].pc = "running"
    /\ job' = Complete(job, worker[w].job, w)
    /\ ReleaseLock(ServiceOf[worker[w].job], w)
    /\ LoopAgain(w)
    /\ UNCHANGED <<current, postponed, late>>

\* The handler throws; a handler that must not be retried calls noRetry first.
HandlerThrows(w, noRetry) ==
    /\ worker[w].pc = "running"
    /\ LET j == worker[w].job
           q == IF noRetry THEN NoRetry(job, j) ELSE job
       IN
         /\ job' = Fail(q, j, w)
         /\ ReleaseLock(ServiceOf[j], w)
         /\ NotePostponed(Fail(q, j, w))
    /\ LoopAgain(w)
    /\ UNCHANGED <<current, late>>

HandlerSettles(w) ==
    HandlerReturns(w) \/ \E noRetry \in BOOLEAN : HandlerThrows(w, noRetry)

\* A refused renewal is only logged: the handler keeps running.
Beat(w) ==
    /\ worker[w].pc = "running"
    /\ worker[w].beat = 0
    /\ job' = Heartbeat(job, worker[w].job)
    /\ RenewLock(ServiceOf[worker[w].job], w, worker[w].token)
    /\ worker' = [worker EXCEPT ![w].beat = HeartbeatEvery]
    /\ UNCHANGED <<current, postponed, late>>

-------------------------------------------------------------------------------
(* Processes come and go; time passes *)

\* stop(): no more claims, and wait for the running job.
Stop(w) ==
    /\ worker[w].pc # "down" /\ ~worker[w].stopping
    /\ worker' = [worker EXCEPT ![w] = IF @.pc = "idle" THEN Down
                                       ELSE [@ EXCEPT !.stopping = TRUE]]
    /\ UNCHANGED <<job, lock, current, postponed, late>>

\* The process dies, or the shutdown grace ends with the job still running.
Crash(w) ==
    /\ worker[w].pc = "running"
    /\ worker' = [worker EXCEPT ![w] = Down]
    /\ UNCHANGED <<job, lock, current, postponed, late>>

Start(w) ==
    /\ worker[w].pc = "down"
    /\ worker' = [worker EXCEPT ![w] = Idle]
    /\ UNCHANGED <<job, lock, current, postponed, late>>

Less(n) == IF n > 0 THEN n - 1 ELSE 0

Overdue == \E w \in Worker : worker[w].pc = "running" /\ worker[w].beat = 0

\* Unless processes may stall, a heartbeat that is due runs before time goes on.
Advance ==
    /\ MayStall \/ ~Overdue
    /\ late' = (late \/ Overdue)
    /\ job' = [j \in Job |-> [job[j] EXCEPT !.wait = Less(@), !.lease = Less(@)]]
    /\ lock' = [s \in Service |-> [lock[s] EXCEPT !.ttl = Less(@)]]
    /\ worker' = [w \in Worker |-> [worker[w] EXCEPT !.beat = Less(@)]]
    /\ UNCHANGED <<current, postponed>>

Next ==
    \/ \E j \in Job, delay \in StartDelays : Enqueue(j, delay)
    \/ \E j \in Job : CancelPending(j)
    \/ \E w \in Worker : \/ Tick(w) \/ HandlerWrites(w) \/ HandlerSettles(w)
                         \/ Beat(w) \/ Stop(w) \/ Crash(w) \/ Start(w)
    \/ Advance

Spec == Init /\ [][Next]_vars

\* The event loop runs what is due, a handler's calls time out, a supervisor
\* restarts a dead process, and a process is not restarted for ever before its
\* first tick.
Fairness ==
    /\ WF_vars(Advance)
    /\ \A w \in Worker : /\ SF_vars(Tick(w))
                         /\ WF_vars(HandlerSettles(w))
                         /\ WF_vars(Beat(w))
                         /\ WF_vars(Start(w))

FairSpec == Spec /\ Fairness

-------------------------------------------------------------------------------
(* Properties *)

Running(w) == worker[w].pc = "running"

JobRow == [state : {"new"} \cup Live \cup Terminal, attempts : Nat, max : Nat,
           wait : Nat, lease : 0..LeaseTtl, holder : Worker \cup {None}, token : Nat]
LockRow == [holder : Worker \cup {None}, token : Nat, ttl : 0..LeaseTtl]
Process == [pc : {"down", "idle", "running"}, job : Job \cup {0}, token : Nat,
            attempt : Nat, beat : 0..HeartbeatEvery, stopping : BOOLEAN]

\* Every table holds what its columns allow, and a running loop names a job.
TypeOK ==
    /\ job \in [Job -> JobRow]
    /\ lock \in [Service -> LockRow]
    /\ current \in [Service -> [job : Job \cup {0}, token : Nat]]
    /\ worker \in [Worker -> Process]
    /\ \A w \in Worker : Running(w) => worker[w].job \in Job
    /\ postponed \in [Job -> BOOLEAN]

\* While heartbeats are on time, no two processes are ever inside a handler for
\* the same service, whatever has crashed or been reaped ("the per-service lock"
\* of worker.ts:30-31), and a running loop's job is still its own: not reaped, not
\* deferred, not taken by another, so its terminal write cannot be lost and no
\* second attempt overlaps the first.
OneHandlerPerService ==
    ~late => \A w \in Worker : Running(w) =>
        LET r == job[worker[w].job] IN
            /\ \A v \in Worker : Running(v) /\ v # w
                   => ServiceOf[worker[v].job] # ServiceOf[worker[w].job]
            /\ r.state = "running" /\ r.holder = w
            /\ r.attempts = worker[w].attempt /\ r.token = worker[w].token

\* The fencing gate across processes that stall: the stored token never falls,
\* and one token never commits two different deploys, so a stale process cannot
\* overwrite what a later acquisition committed (lock.ts:75-81).
FencingHolds ==
    [][\A s \in Service :
         /\ current'[s].token >= current[s].token
         /\ current'[s].token = current[s].token => current'[s] = current[s]]_vars

\* A job becomes done or failed only by the loop that made its latest attempt,
\* never by one whose lease was reaped and whose job was claimed again
\* (queue.ts:125-126).
SettledByItsAttempt ==
    [][\A j \in Job :
         (job[j].state # job'[j].state /\ job'[j].state \in {"done", "failed"})
           => \E w \in Worker : /\ Running(w) /\ worker'[w].pc # "running"
                                /\ worker[w].job = j
                                /\ worker[w].attempt = job[j].attempts
                                /\ job[j].holder = w]_vars

\* An older job of a service commits after a newer one only if it was delayed,
\* deferred, retried or reaped at some point: otherwise deploys take effect in
\* the order they were enqueued (ORDER BY id, queue.ts:102).
OvertakenOnlyWhenPostponed ==
    [][\A s \in Service :
         (current'[s].job \in Job /\ current'[s].job < current[s].job)
             => postponed[current'[s].job]]_vars

\* Every job that was enqueued ends: done, failed, dead or cancelled.
EveryJobSettles ==
    \A j \in Job : job[j].state \in Live ~> job[j].state \in Terminal

\* The queue keeps the promise of JobLifecycle.
Lifecycle == INSTANCE JobLifecycle
                 WITH phase <- [j \in Job |-> job[j].state],
                      tries <- [j \in Job |-> job[j].attempts]
LifecycleSpec == Lifecycle!Spec
===============================================================================

----------------------------- MODULE AlertManager -----------------------------
(***************************************************************************)
(* Alerting: the queue and the flush timer of AlertManager, the chain that *)
(* runs one cycle at a time, what a cycle decides and sends, and the       *)
(* AlertWatcher that turns the scan of a namespace into a cycle.           *)
(*                                                                         *)
(* A condition (a container that crash-loops) is seen by every scan while  *)
(* it lasts.  Any other alert is an event: a restart, an event or a line   *)
(* of a log that a scan reads once, or an outcome of a job or an error of  *)
(* hyper that comes through enqueue.  The manager does not tell the two    *)
(* apart, so an event comes either way here, at any time.  There is one    *)
(* namespace; a scan that cannot read it raises the condition Unreadable   *)
(* and drops what it found, for the cursors have moved past it.            *)
(*                                                                         *)
(* Timestamps are kept as ages, which stop growing where nothing compares  *)
(* them any more.  A cycle is cut at the answers of Slack; what it decides *)
(* is decided when it starts, with that instant as its "now".  Alerts that *)
(* the configuration ignores, the texts and the counters, and errors of    *)
(* SQLite are left out.                                                    *)
(***************************************************************************)
EXTENDS Naturals, Sequences, FiniteSets, SequencesExt

CONSTANTS
    Condition,      \* alerts with condition: true; contains Unreadable
    Event,          \* the others
    Unreadable,     \* the watcher's own alert
    Critical,       \* alerts of severity critical, the others are errors
    MaxPerCycle,    \* messages per cycle before the rest is grouped
    Cooldown, ResolveAfter, Retention,   \* in units of Advance
    Oldest,         \* where ages stop growing
    Cap,            \* the queue's limit, 500
    Never           \* no lastSent

Key == Condition \cup Event

ASSUME AlertAssumption ==
    /\ IsFiniteSet(Key)
    /\ Condition \cap Event = {}
    /\ Unreadable \in Condition /\ Critical \subseteq Key
    /\ MaxPerCycle \in Nat \ {0} /\ Cap \in Nat \ {0}
    /\ Cooldown \in Nat \ {0} /\ ResolveAfter \in Nat
    /\ Retention \in Nat
    /\ Oldest \in Nat /\ Oldest >= Cooldown /\ Oldest >= ResolveAfter /\ Oldest > Retention
    /\ Never \notin Nat

VARIABLES
    world,      \* the conditions that hold
    store,      \* table alert_state
    pending,    \* AlertManager.pending
    timer,      \* is flushTimer set?
    flushing,   \* AlertManager.flushing
    chain,      \* the cycles that wait for the one that runs
    cycle,      \* the cycle that runs
    watcher,    \* AlertWatcher.tick: what it does, and the alerts it has collected
    stopped,    \* has alerting been stopped?
    missed      \* history: the conditions that did not hold at some moment since a
                \* scan last found them

manager == <<pending, timer, flushing, chain, cycle>>
vars == <<world, store, manager, watcher, stopped, missed>>

Age == 0..Oldest
Aged(a) == IF a \in Nat /\ a < Oldest THEN a + 1 ELSE a

NoRecord == [known |-> FALSE, open |-> FALSE, sent |-> Never, seen |-> 0]
NoCycle == [on |-> FALSE, by |-> "flush", direct |-> {}, over |-> {},
            gone |-> {}, age |-> 0]
Asleep == [pc |-> "asleep", found |-> {}]

Init ==
    /\ world = {}
    /\ store = [k \in Key |-> NoRecord]
    /\ pending = <<>> /\ timer = FALSE /\ flushing = FALSE
    /\ chain = <<>> /\ cycle = NoCycle
    /\ watcher = Asleep /\ stopped = FALSE
    /\ missed = Condition

-------------------------------------------------------------------------------
(* The clusters and the clock.  stop() waits 8 seconds at most, less than a unit, and
   only the next process sees what changes meanwhile: they stand still for it. *)

ConditionStarts(k) ==
    /\ ~stopped
    /\ k \in Condition \ {Unreadable} /\ k \notin world
    /\ world' = world \cup {k}
    /\ UNCHANGED <<store, manager, watcher, stopped, missed>>

ConditionEnds(k) ==
    /\ ~stopped
    /\ k \in Condition /\ k \in world
    /\ world' = world \ {k} /\ missed' = missed \cup {k}
    /\ UNCHANGED <<store, manager, watcher, stopped>>

Advance ==
    /\ ~stopped
    /\ store' = [k \in Key |-> [store[k] EXCEPT !.sent = Aged(@),
                                  !.seen = IF store[k].known THEN Aged(@) ELSE 0]]
    /\ cycle' = [cycle EXCEPT !.age = IF cycle.on THEN Aged(@) ELSE 0]
    /\ UNCHANGED <<world, pending, timer, flushing, chain, watcher, stopped, missed>>

-------------------------------------------------------------------------------
(* The queue *)

Enqueue(k) ==
    /\ Len(pending) < Cap
    /\ pending' = Append(pending, k)
    /\ timer' = TRUE
    /\ UNCHANGED <<world, store, flushing, chain, cycle, watcher, stopped, missed>>

\* Mutant: a timer that finds a flush under way is not set again.
TimerWhileFlushingLost == FALSE

TimerWhileFlushing == TRUE

\* Cycles of this origin that wait or run.
InFlight(by) == Len(SelectSeq(chain, LAMBDA c : c.by = by))
                + IF cycle.on /\ cycle.by = by THEN 1 ELSE 0

\* runCycle: the cycle waits for those before it.
Queue(by, alerts, scanned) ==
    chain' = Append(chain, [by |-> by, alerts |-> alerts, scanned |-> scanned])

TimerFires ==
    /\ timer
    /\ IF flushing
       THEN timer' = TimerWhileFlushing /\ UNCHANGED <<pending, flushing, chain>>
       ELSE /\ timer' = FALSE /\ pending' = <<>>
            /\ IF pending = <<>> THEN UNCHANGED <<flushing, chain>>
               ELSE flushing' = TRUE /\ Queue("flush", ToSet(pending), FALSE)
    /\ UNCHANGED <<world, store, cycle, watcher, stopped, missed>>

-------------------------------------------------------------------------------
(* The watcher *)

\* The pods are read first: they show the conditions.
ScanStarts ==
    /\ watcher.pc = "asleep" /\ ~stopped
    /\ watcher' = [pc |-> "scanning", found |-> world]
    /\ missed' = missed \ world
    /\ UNCHANGED <<world, store, manager, stopped>>

\* The tick hands its alerts to a cycle and waits for it.
HandsOver(alerts, scanned) ==
    /\ watcher.pc = "scanning"
    /\ watcher' = [pc |-> "waiting", found |-> {}]
    /\ Queue("watcher", alerts, scanned)
    /\ UNCHANGED <<world, store, pending, timer, flushing, cycle, stopped, missed>>

\* Besides the conditions, the events and the lines of the logs since the last read.
ScanEnds == \E new \in SUBSET Event : HandsOver(watcher.found \cup new, TRUE)

\* Mutant: a namespace that could not be read counts as scanned.
ScannedAnyway == TRUE

\* A scan that throws or times out has not scanned its scope.
Scanned == FALSE

\* What it found before is dropped, and the cursors stay where they are.
ScanFails == HandsOver({Unreadable}, Scanned)

-------------------------------------------------------------------------------
(* A cycle *)

\* No message yet, or reopened, or the cooldown is over.
Due(r) == r.sent = Never \/ (r.known /\ ~r.open) \/ r.sent >= Cooldown

Rank(k) == IF k \in Critical THEN 0 ELSE 1

\* The first MaxPerCycle of the due alerts in order of severity; alerts of the same
\* severity keep the order in which they came, which may be any.
Direct(due) ==
    {d \in SUBSET due :
       /\ Cardinality(d) = IF Cardinality(due) < MaxPerCycle THEN Cardinality(due)
                           ELSE MaxPerCycle
       /\ \A k \in d, l \in due \ d : Rank(k) <= Rank(l)}

GoneLongEnough(k) == store[k].seen >= ResolveAfter

Gone(c) == IF ~c.scanned THEN {}
           ELSE {k \in Condition \ c.alerts : /\ store[k].known /\ store[k].open
                                              /\ GoneLongEnough(k)}

\* What a cycle that has nothing left to do sets free.
Ends(by) ==
    /\ cycle' = NoCycle
    /\ flushing' = (flushing /\ by # "flush")
    /\ watcher' = IF by = "watcher" THEN [watcher EXCEPT !.pc = "housekeeping"] ELSE watcher

Proceeds(c) ==
    IF c.direct \cup c.over \cup c.gone = {} THEN Ends(c.by)
    ELSE cycle' = c /\ UNCHANGED <<flushing, watcher>>

\* Up to the first message: every alert is looked up, judged and saved.
CycleStarts ==
    /\ ~cycle.on /\ chain # <<>>
    /\ LET c == Head(chain)
           due == {k \in c.alerts : Due(store[k])}
       IN  /\ store' = [k \in Key |->
                IF k \in c.alerts THEN [store[k] EXCEPT !.known = TRUE, !.open = TRUE,
                                                        !.seen = 0]
                ELSE store[k]]
           /\ \E d \in Direct(due) :
                Proceeds([on |-> TRUE, by |-> c.by, direct |-> d, over |-> due \ d,
                          gone |-> Gone(c), age |-> 0])
    /\ chain' = Tail(chain)
    /\ UNCHANGED <<world, pending, timer, stopped, missed>>

\* The message is acknowledged; lastSent is the cycle's now.
Acknowledged(ks) ==
    store' = [k \in Key |-> IF k \in ks THEN [store[k] EXCEPT !.sent = cycle.age]
                            ELSE store[k]]

Unacknowledged == UNCHANGED store

\* Most severe first.
Foremost(k) == k \in cycle.direct /\ \A l \in cycle.direct : Rank(k) <= Rank(l)

SendDirect(k) ==
    /\ Foremost(k)
    /\ Acknowledged({k})
    /\ Proceeds([cycle EXCEPT !.direct = @ \ {k}])
    /\ UNCHANGED <<world, pending, timer, chain, stopped, missed>>

DirectFails(k) ==
    /\ Foremost(k)
    /\ Unacknowledged
    /\ Proceeds([cycle EXCEPT !.direct = @ \ {k}])
    /\ UNCHANGED <<world, pending, timer, chain, stopped, missed>>

\* One message for all the rest.
SendOverflow ==
    /\ cycle.direct = {} /\ cycle.over # {}
    /\ Acknowledged(cycle.over) \/ Unacknowledged
    /\ Proceeds([cycle EXCEPT !.over = {}])
    /\ UNCHANGED <<world, pending, timer, chain, stopped, missed>>

\* Mutant: closing forgets to say so in the table.
ClosedForgotten(r) == r

Closed(r) == [r EXCEPT !.open = FALSE]

Resolving(k) == cycle.direct = {} /\ cycle.over = {} /\ k \in cycle.gone

\* A condition that is gone is closed once the message that says so was acknowledged, or
\* without one when the problem was never told.
Closes(k) ==
    /\ Resolving(k)
    /\ store' = [store EXCEPT ![k] = Closed(@)]
    /\ Proceeds([cycle EXCEPT !.gone = @ \ {k}])
    /\ UNCHANGED <<world, pending, timer, chain, stopped, missed>>

ResolvedFails(k) ==
    /\ Resolving(k) /\ store[k].sent # Never
    /\ Unacknowledged
    /\ Proceeds([cycle EXCEPT !.gone = @ \ {k}])
    /\ UNCHANGED <<world, pending, timer, chain, stopped, missed>>

-------------------------------------------------------------------------------
(* Housekeeping and the process *)

\* At the end of a tick, at most once an hour: pruneAlerts.
Stale(k) == store[k].known /\ store[k].seen > Retention

Housekeeping ==
    /\ watcher.pc = "housekeeping" /\ watcher' = Asleep
    /\ \/ UNCHANGED store
       \/ store' = [k \in Key |-> IF Stale(k) THEN NoRecord ELSE store[k]]
    /\ UNCHANGED <<world, manager, stopped, missed>>

\* The process dies and starts again: only the table is left.
Crash ==
    /\ pending' = <<>> /\ timer' = FALSE /\ flushing' = FALSE
    /\ chain' = <<>> /\ cycle' = NoCycle /\ watcher' = Asleep /\ stopped' = FALSE
    /\ UNCHANGED <<world, store, missed>>

\* stop(): no tick follows the one that runs, the queue becomes a last cycle.  The
\* process exits when all of it is done, or 8 seconds later.
Stop ==
    /\ ~stopped /\ stopped' = TRUE
    /\ timer' = FALSE /\ pending' = <<>>
    /\ IF pending = <<>> THEN UNCHANGED chain ELSE Queue("stop", ToSet(pending), FALSE)
    /\ UNCHANGED <<world, store, flushing, cycle, watcher, missed>>

Next ==
    \/ \E k \in Condition : ConditionStarts(k) \/ ConditionEnds(k) \/ Closes(k) \/ ResolvedFails(k)
    \/ \E k \in Event : Enqueue(k)
    \/ \E k \in Key : SendDirect(k) \/ DirectFails(k)
    \/ SendOverflow
    \/ CycleStarts
    \/ TimerFires
    \/ ScanStarts \/ ScanEnds \/ ScanFails
    \/ Housekeeping
    \/ Advance
    \/ Crash \/ Stop

CycleStep ==
    \/ CycleStarts \/ SendOverflow
    \/ \E k \in Key : SendDirect(k) \/ DirectFails(k)
    \/ \E k \in Condition : Closes(k) \/ ResolvedFails(k)

WatcherStep == ScanStarts \/ ScanEnds \/ ScanFails \/ Housekeeping

\* Cycles run one after the other and each of their calls ends (slack.ts aborts and
\* gives up); a scan ends or times out, and the next follows after the interval.
Spec == Init /\ [][Next]_vars
        /\ WF_vars(CycleStep) /\ WF_vars(WatcherStep) /\ WF_vars(Advance)

-------------------------------------------------------------------------------
(* Properties *)

\* The variables have the shape the code gives them, a flush is either queued or
\* running while flushing is set, and the watcher waits for exactly one cycle.
TypeOK ==
    /\ world \subseteq Condition \ {Unreadable}
    /\ store \in [Key -> [known : BOOLEAN, open : BOOLEAN, sent : Age \cup {Never}, seen : Age]]
    /\ missed \subseteq Condition
    /\ Len(pending) <= Cap /\ ToSet(pending) \subseteq Event
    /\ timer \in BOOLEAN /\ stopped \in BOOLEAN
    /\ flushing = (InFlight("flush") = 1) /\ InFlight("flush") <= 1
    /\ (watcher.pc = "waiting") = (InFlight("watcher") = 1) /\ InFlight("watcher") <= 1

\* An alert in the queue always has a timer that will flush it, whatever happens
\* between the flush that runs and the alerts that arrive meanwhile
\* (manager.ts:44-67).
QueuedHasTimer == pending # <<>> => timer

\* A condition is closed only if it was gone at some moment since a scan last found
\* it: a namespace that cannot be read closes nothing (manager.ts:164-166,
\* watcher.ts:102-118).
ClosedWasGone ==
    [][\A k \in Condition \ {Unreadable} : Closes(k) => k \in missed]_vars

\* A condition that is gone for good is closed in the end, whatever else is sent or
\* fails meanwhile, if the process stays up, the namespace can be read and the message
\* that announces it gets through (manager.ts:163-175, watcher.ts:80-123).
GoneIsClosed ==
    \A k \in Condition \ {Unreadable} :
        /\ <>[](k \notin world /\ ~stopped)
        /\ <>[][~(Crash \/ ScanFails \/ ResolvedFails(k))]_vars
        => <>[](~store[k].open)

===============================================================================

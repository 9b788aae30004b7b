--------------------------- MODULE AlertingProofs ---------------------------
(*****************************************************************************)
(* Alerting, for any alerts and limits: no alert waits without a timer, a    *)
(* condition is closed only if it had gone, and the scans lose no alert and  *)
(* tell none twice.                                                          *)
(*****************************************************************************)
EXTENDS AlertManager, AlertScan, FiniteSetTheorems, WellFoundedInduction, TLAPS

\* Alerts in the queue have a timer, whatever flushes, ticks, stops and crashes do
\* between the arrival of two of them (manager.ts:44-75).
THEOREM NoLostWakeup == Spec => []QueuedHasTimer
<1>1. Init => QueuedHasTimer
  BY DEF Init, QueuedHasTimer
<1>2. QueuedHasTimer /\ [Next]_vars => QueuedHasTimer'
  <2> SUFFICES ASSUME QueuedHasTimer, [Next]_vars PROVE QueuedHasTimer'
    OBVIOUS
  <2>1. CASE \E k \in Event : Enqueue(k)
    BY <2>1 DEF Enqueue, QueuedHasTimer
  <2>2. CASE TimerFires
    BY <2>2 DEF TimerFires, TimerWhileFlushing, QueuedHasTimer
  <2>3. CASE Crash \/ Stop
    BY <2>3 DEF Crash, Stop, QueuedHasTimer
  <2>4. CASE UNCHANGED <<pending, timer>>
    BY <2>4 DEF QueuedHasTimer
  <2>5. \/ \E k \in Event : Enqueue(k)
        \/ TimerFires \/ Crash \/ Stop \/ UNCHANGED <<pending, timer>>
    BY DEF Next, vars, manager, ConditionStarts, ConditionEnds, Closes, ResolvedFails,
           SendDirect, DirectFails, SendOverflow, CycleStarts, ScanStarts, ScanEnds,
           ScanFails, HandsOver, Housekeeping, Advance
  <2> QED BY <2>1, <2>2, <2>3, <2>4, <2>5
<1> QED BY <1>1, <1>2, PTL DEF Spec

-------------------------------------------------------------------------------
(* What a cycle of the watcher may close                                   *)

Origin == {"flush", "watcher", "stop"}
Waiting == [by : Origin, alerts : SUBSET Key, scanned : BOOLEAN]
Cycles == [on : BOOLEAN, by : Origin, direct : SUBSET Key, over : SUBSET Key,
           gone : SUBSET Condition, age : Age]
Watchers == [pc : {"asleep", "scanning", "waiting", "housekeeping"},
             found : SUBSET Condition]

\* The parts of the manager and the watcher that a step reads to close something.
ShapeInv == /\ chain \in Seq(Waiting) /\ cycle \in Cycles /\ watcher \in Watchers
            /\ pending \in Seq(Event) /\ world \subseteq Condition
            /\ cycle.on = FALSE => cycle = NoCycle

\* The conditions a scan of the namespace can show.
Shown == Condition \ {Unreadable}

OfWatcher(c) == c.by = "watcher"
WatcherRuns == cycle.on /\ OfWatcher(cycle)

\* The watcher has one cycle at a time, and waits while it has one.
OneCycleInv ==
    /\ \A n \in DOMAIN chain : OfWatcher(chain[n]) =>
         /\ watcher.pc = "waiting" /\ ~WatcherRuns
         /\ \A m \in DOMAIN chain : OfWatcher(chain[m]) => m = n
    /\ WatcherRuns => watcher.pc = "waiting"

\* What does not hold was missed; so was what a scan did not find, until the next scan
\* starts; a cycle takes for gone only what the scan behind it did not find.
MissedInv ==
    /\ \A k \in Shown : k \notin world => k \in missed
    /\ watcher.pc = "scanning" => \A k \in Shown : k \notin watcher.found => k \in missed
    /\ \A n \in DOMAIN chain : chain[n].scanned = TRUE =>
         /\ OfWatcher(chain[n])
         /\ \A k \in Shown : k \notin chain[n].alerts => k \in missed
    /\ cycle.gone # {} => WatcherRuns
    /\ \A k \in cycle.gone : k \in Shown => k \in missed

CloseInv == ShapeInv /\ OneCycleInv /\ MissedInv

LEMMA NothingRuns ==
    /\ NoCycle \in Cycles /\ NoCycle.on = FALSE /\ NoCycle.gone = {}
    /\ Asleep \in Watchers /\ Asleep.pc = "asleep"
BY AlertAssumption DEF NoCycle, Cycles, Origin, Asleep, Watchers, Age

\* Steps of everybody else: the world, the queue, the clock.
LEMMA ElsewhereSteps ==
    ASSUME CloseInv, UNCHANGED <<chain, watcher>>,
           cycle' \in Cycles, cycle'.on = cycle.on, cycle'.by = cycle.by,
           cycle'.gone = cycle.gone, cycle.on = FALSE => cycle' = cycle,
           pending' \in Seq(Event), world' \subseteq Condition,
           missed \subseteq missed', \A k \in Shown : k \notin world' => k \in missed'
    PROVE  CloseInv'
<1>1. ShapeInv'
  BY DEF CloseInv, ShapeInv
<1>2. WatcherRuns' = WatcherRuns
  BY DEF WatcherRuns, OfWatcher
<1>3. OneCycleInv'
  BY <1>2 DEF CloseInv, OneCycleInv, OfWatcher
<1>4. MissedInv'
  BY <1>2 DEF CloseInv, MissedInv, OfWatcher
<1>5. QED
  BY <1>1, <1>3, <1>4 DEF CloseInv

\* A cycle that is not the watcher's joins the chain.
LEMMA QueueSteps ==
    ASSUME CloseInv, NEW c \in Waiting, ~OfWatcher(c), c.scanned = FALSE,
           chain' = Append(chain, c), UNCHANGED <<watcher, cycle, world, missed>>,
           pending' \in Seq(Event)
    PROVE  CloseInv'
<1>1. chain \in Seq(Waiting)
  BY DEF CloseInv, ShapeInv
<1>2. /\ chain' \in Seq(Waiting)
      /\ \A n \in DOMAIN chain' : (n \in DOMAIN chain /\ chain'[n] = chain[n]) \/ chain'[n] = c
  BY <1>1
<1>3. ShapeInv'
  BY <1>2 DEF CloseInv, ShapeInv
<1>4. OneCycleInv'
  BY <1>2 DEF CloseInv, OneCycleInv, OfWatcher, WatcherRuns
<1>5. MissedInv'
  BY <1>2 DEF CloseInv, MissedInv, OfWatcher, WatcherRuns
<1>6. QED
  BY <1>3, <1>4, <1>5 DEF CloseInv

\* A cycle that runs goes on with less to do, or ends.
LEMMA ProceedSteps ==
    ASSUME CloseInv, cycle.on = TRUE, NEW c \in Cycles, c.on = TRUE, c.by = cycle.by,
           c.gone \subseteq cycle.gone, Proceeds(c),
           UNCHANGED <<world, missed, chain, pending>>
    PROVE  CloseInv'
<1>1. CASE cycle' = c /\ UNCHANGED watcher
  <2>1. WatcherRuns' = WatcherRuns
    BY <1>1 DEF WatcherRuns, OfWatcher
  <2>2. ShapeInv'
    BY <1>1 DEF CloseInv, ShapeInv
  <2>3. OneCycleInv'
    BY <1>1, <2>1 DEF CloseInv, OneCycleInv, OfWatcher
  <2>4. MissedInv'
    BY <1>1, <2>1 DEF CloseInv, MissedInv, OfWatcher
  <2>5. QED
    BY <2>2, <2>3, <2>4 DEF CloseInv
<1>2. CASE Ends(cycle.by)
  <2>1. cycle' = NoCycle /\ ~WatcherRuns'
    BY <1>2, NothingRuns DEF Ends, WatcherRuns
  <2>2. CASE cycle.by = "watcher"
    <3>1. WatcherRuns /\ watcher.pc = "waiting"
      BY <2>2 DEF CloseInv, OneCycleInv, WatcherRuns, OfWatcher
    <3>2. \A n \in DOMAIN chain : ~OfWatcher(chain[n])
      BY <3>1 DEF CloseInv, OneCycleInv
    <3>3. watcher' = [watcher EXCEPT !.pc = "housekeeping"]
      BY <1>2, <2>2 DEF Ends
    <3>4. watcher' \in Watchers /\ watcher'.pc = "housekeeping"
      BY <3>3 DEF CloseInv, ShapeInv, Watchers
    <3>5. ShapeInv'
      BY <2>1, <3>4, NothingRuns DEF CloseInv, ShapeInv
    <3>6. OneCycleInv'
      BY <2>1, <3>2 DEF CloseInv, OneCycleInv, OfWatcher
    <3>7. MissedInv'
      BY <2>1, <3>4, NothingRuns DEF CloseInv, MissedInv, OfWatcher
    <3>8. QED
      BY <3>5, <3>6, <3>7 DEF CloseInv
  <2>3. CASE cycle.by # "watcher"
    <3>1. watcher' = watcher /\ ~WatcherRuns
      BY <1>2, <2>3 DEF Ends, WatcherRuns, OfWatcher
    <3>2. ShapeInv'
      BY <2>1, <3>1, NothingRuns DEF CloseInv, ShapeInv
    <3>3. OneCycleInv'
      BY <2>1, <3>1 DEF CloseInv, OneCycleInv, OfWatcher
    <3>4. MissedInv'
      BY <2>1, <3>1, NothingRuns DEF CloseInv, MissedInv, OfWatcher
    <3>5. QED
      BY <3>2, <3>3, <3>4 DEF CloseInv
  <2>4. QED
    BY <2>2, <2>3
<1>3. QED
  BY <1>1, <1>2 DEF Proceeds

\* The watcher hands over what it found.
LEMMA HandOverSteps ==
    ASSUME CloseInv, NEW alerts \in SUBSET Key, NEW scanned \in BOOLEAN,
           HandsOver(alerts, scanned),
           scanned = TRUE => watcher.found \subseteq alerts
    PROVE  CloseInv'
<1> DEFINE c == [by |-> "watcher", alerts |-> alerts, scanned |-> scanned]
<1>1. /\ watcher.pc = "scanning" /\ chain \in Seq(Waiting)
      /\ watcher' = [pc |-> "waiting", found |-> {}]
      /\ chain' = Append(chain, c)
      /\ UNCHANGED <<cycle, world, missed, pending>>
  BY DEF HandsOver, Queue, CloseInv, ShapeInv
<1>2. c \in Waiting /\ OfWatcher(c) /\ c.alerts = alerts /\ c.scanned = scanned
  BY DEF Waiting, Origin, OfWatcher
<1> HIDE DEF c
<1>3. /\ chain' \in Seq(Waiting)
      /\ \A n \in DOMAIN chain' : \/ n \in DOMAIN chain /\ chain'[n] = chain[n]
                                  \/ n = Len(chain) + 1 /\ chain'[n] = c
  BY <1>1, <1>2
<1>4. \A n \in DOMAIN chain : ~OfWatcher(chain[n])
  BY <1>1 DEF CloseInv, OneCycleInv
<1>5. ~WatcherRuns /\ WatcherRuns' = WatcherRuns
  BY <1>1 DEF CloseInv, OneCycleInv, WatcherRuns, OfWatcher
<1>6. watcher' \in Watchers /\ watcher'.pc = "waiting"
  BY <1>1 DEF Watchers
<1>7. ShapeInv'
  BY <1>1, <1>3, <1>6 DEF CloseInv, ShapeInv
<1>8. OneCycleInv'
  <2>1. \A n, m \in DOMAIN chain' :
          (OfWatcher(chain'[n]) /\ OfWatcher(chain'[m])) => m = n
    BY <1>3, <1>4
  <2>2. QED
    BY <1>5, <1>6, <2>1 DEF OneCycleInv, OfWatcher
<1>9. MissedInv'
  <2>1. \A n \in DOMAIN chain' : chain'[n].scanned = TRUE =>
         /\ OfWatcher(chain'[n])
         /\ \A k \in Shown : k \notin chain'[n].alerts => k \in missed
    BY <1>1, <1>2, <1>3 DEF CloseInv, MissedInv
  <2>2. QED
    BY <1>1, <1>5, <1>6, <2>1 DEF CloseInv, MissedInv, OfWatcher
<1>10. QED
  BY <1>7, <1>8, <1>9 DEF CloseInv

\* The next cycle leaves the chain and runs.
LEMMA StartSteps == ASSUME CloseInv, CycleStarts PROVE CloseInv'
<1> DEFINE c == Head(chain)
<1>1. /\ cycle.on = FALSE /\ chain # <<>> /\ chain' = Tail(chain)
      /\ chain \in Seq(Waiting) /\ UNCHANGED <<world, pending, missed>>
  BY DEF CycleStarts, CloseInv, ShapeInv, Cycles
<1>2. PICK d \in SUBSET Key, over \in SUBSET Key :
        Proceeds([on |-> TRUE, by |-> c.by, direct |-> d, over |-> over,
                  gone |-> Gone(c), age |-> 0])
  <2> DEFINE due == {k \in c.alerts : Due(store[k])}
  <2>1. PICK d \in Direct(due) :
          Proceeds([on |-> TRUE, by |-> c.by, direct |-> d, over |-> due \ d,
                    gone |-> Gone(c), age |-> 0])
    BY DEF CycleStarts
  <2>2. due \subseteq Key
    <3>1. c \in Waiting
      BY <1>1
    <3>2. c.alerts \subseteq Key
      BY <3>1 DEF Waiting
    <3>3. QED
      BY <3>2
  <2>3. d \in SUBSET Key /\ due \ d \in SUBSET Key
    BY <2>2 DEF Direct
  <2>4. QED
    BY <2>1, <2>3
<1> DEFINE run == [on |-> TRUE, by |-> c.by, direct |-> d, over |-> over,
                   gone |-> Gone(c), age |-> 0]
<1>3. /\ c \in Waiting /\ 1 \in DOMAIN chain /\ chain[1] = c
      /\ chain' \in Seq(Waiting)
      /\ \A n \in DOMAIN chain' : n + 1 \in DOMAIN chain /\ chain'[n] = chain[n + 1]
      /\ \A n \in DOMAIN chain' : n \in Nat /\ n + 1 # 1
  BY <1>1
<1>4. /\ Gone(c) \subseteq Condition
      /\ Gone(c) # {} => c.scanned = TRUE
      /\ \A k \in Gone(c) : k \notin c.alerts
  BY <1>3 DEF Gone, Waiting
<1> HIDE DEF c
<1>5. /\ run \in Cycles /\ run.on = TRUE /\ run.by = c.by /\ run.gone = Gone(c)
  BY <1>3, <1>4, AlertAssumption DEF Waiting, Cycles, Age
<1>6. /\ (cycle' = run /\ UNCHANGED watcher) \/ Ends(c.by)
  BY <1>2, <1>5 DEF Proceeds
<1> HIDE DEF run
<1>7. /\ ~WatcherRuns /\ watcher \in Watchers
      /\ OfWatcher(c) => /\ watcher.pc = "waiting"
                         /\ \A n \in DOMAIN chain' : ~OfWatcher(chain'[n])
      /\ c.scanned = TRUE => /\ OfWatcher(c)
                             /\ \A k \in Shown : k \notin c.alerts => k \in missed
  <2>1. OfWatcher(c) => \A m \in DOMAIN chain : OfWatcher(chain[m]) => m = 1
    BY <1>3 DEF CloseInv, OneCycleInv
  <2>2. OfWatcher(c) => \A n \in DOMAIN chain' : ~OfWatcher(chain'[n])
    BY <1>3, <2>1
  <2>3. OfWatcher(c) => watcher.pc = "waiting"
    BY <1>3 DEF CloseInv, OneCycleInv
  <2>4. c.scanned = TRUE => /\ OfWatcher(c)
                            /\ \A k \in Shown : k \notin c.alerts => k \in missed
    BY <1>3 DEF CloseInv, MissedInv
  <2>5. ~WatcherRuns /\ watcher \in Watchers
    BY <1>1 DEF WatcherRuns, CloseInv, ShapeInv
  <2>6. QED
    BY <2>2, <2>3, <2>4, <2>5
<1>8. /\ \A n \in DOMAIN chain' : OfWatcher(chain'[n]) =>
           /\ watcher.pc = "waiting"
           /\ \A m \in DOMAIN chain' : OfWatcher(chain'[m]) => m = n
      /\ \A n \in DOMAIN chain' : chain'[n].scanned = TRUE =>
           /\ OfWatcher(chain'[n])
           /\ \A k \in Shown : k \notin chain'[n].alerts => k \in missed
      /\ \A k \in Shown : k \notin world => k \in missed
      /\ watcher.pc = "scanning" => \A k \in Shown : k \notin watcher.found => k \in missed
  <2>1. \A n \in DOMAIN chain' : OfWatcher(chain'[n]) =>
           /\ watcher.pc = "waiting"
           /\ \A m \in DOMAIN chain' : OfWatcher(chain'[m]) => m = n
    <3>1. ASSUME NEW n \in DOMAIN chain', OfWatcher(chain'[n])
          PROVE  /\ watcher.pc = "waiting"
                 /\ \A m \in DOMAIN chain' : OfWatcher(chain'[m]) => m + 1 = n + 1
      BY <1>3, <3>1 DEF CloseInv, OneCycleInv
    <3>2. QED
      BY <1>3, <3>1
  <2>2. QED
    BY <1>3, <2>1 DEF CloseInv, MissedInv
<1>9. CASE cycle' = run /\ UNCHANGED watcher
  <2>1. WatcherRuns' <=> OfWatcher(c)
    BY <1>5, <1>9 DEF WatcherRuns, OfWatcher
  <2>2. ShapeInv'
    BY <1>1, <1>3, <1>5, <1>9 DEF CloseInv, ShapeInv
  <2>3. OneCycleInv'
    BY <1>7, <1>8, <1>9, <2>1 DEF OneCycleInv, OfWatcher
  <2>4. /\ cycle'.gone # {} => OfWatcher(c)
        /\ \A k \in cycle'.gone : k \in Shown => k \in missed
    BY <1>4, <1>5, <1>7, <1>9
  <2>5. MissedInv'
    BY <1>1, <1>8, <1>9, <2>1, <2>4 DEF MissedInv, OfWatcher
  <2>6. QED
    BY <2>2, <2>3, <2>5 DEF CloseInv
<1>10. CASE Ends(c.by)
  <2>1. cycle' = NoCycle /\ ~WatcherRuns'
    BY <1>10, NothingRuns DEF Ends, WatcherRuns
  <2>2. /\ watcher' \in Watchers
        /\ \/ UNCHANGED watcher
           \/ watcher'.pc = "housekeeping" /\ OfWatcher(c)
    BY <1>7, <1>10 DEF Ends, Watchers, OfWatcher
  <2>3. ShapeInv'
    BY <1>1, <1>3, <2>1, <2>2, NothingRuns DEF CloseInv, ShapeInv
  <2>4. OneCycleInv'
    BY <1>7, <1>8, <2>1, <2>2 DEF OneCycleInv, OfWatcher
  <2>5. MissedInv'
    BY <1>1, <1>8, <2>1, <2>2, NothingRuns DEF MissedInv, OfWatcher
  <2>6. QED
    BY <2>3, <2>4, <2>5 DEF CloseInv
<1>11. QED
  BY <1>6, <1>9, <1>10

LEMMA CloseInvariant == Spec => []CloseInv
<1>1. Init => CloseInv
  <2> SUFFICES ASSUME Init PROVE CloseInv
    OBVIOUS
  <2>1. ShapeInv
    BY NothingRuns DEF Init, ShapeInv
  <2>2. OneCycleInv
    BY NothingRuns DEF Init, OneCycleInv, WatcherRuns
  <2>3. MissedInv
    BY NothingRuns DEF Init, MissedInv, Shown
  <2>4. QED
    BY <2>1, <2>2, <2>3 DEF CloseInv
<1>2. CloseInv /\ [Next]_vars => CloseInv'
  <2> SUFFICES ASSUME CloseInv, [Next]_vars PROVE CloseInv'
    OBVIOUS
  <2>a. /\ chain \in Seq(Waiting) /\ cycle \in Cycles /\ watcher \in Watchers
        /\ pending \in Seq(Event) /\ world \subseteq Condition
        /\ cycle.on = FALSE => cycle = NoCycle
        /\ \A k \in Shown : k \notin world => k \in missed
    BY DEF CloseInv, ShapeInv, MissedInv
  <2>b. UNCHANGED <<chain, watcher, cycle, world, missed, pending>> => CloseInv'
    BY <2>a, ElsewhereSteps
  <2>1. ASSUME NEW k \in Condition, ConditionStarts(k) \/ ConditionEnds(k)
        PROVE  CloseInv'
    <3>1. /\ world' \subseteq Condition /\ missed \subseteq missed'
          /\ \A l \in Shown : l \notin world' => l \in missed'
          /\ UNCHANGED <<chain, watcher, cycle, pending>>
      BY <2>1, <2>a DEF ConditionStarts, ConditionEnds, manager
    <3>2. QED
      BY <2>a, <3>1, ElsewhereSteps
  <2>2. ASSUME NEW k \in Event, Enqueue(k) PROVE CloseInv'
    <3>1. /\ pending' \in Seq(Event)
          /\ UNCHANGED <<chain, watcher, cycle, world, missed>>
      BY <2>2, <2>a DEF Enqueue
    <3>2. QED
      BY <2>a, <3>1, ElsewhereSteps
  <2>3. CASE Advance
    <3>1. /\ cycle' = [cycle EXCEPT !.age = IF cycle.on THEN Aged(@) ELSE 0]
          /\ UNCHANGED <<chain, watcher, world, missed, pending>>
      BY <2>3 DEF Advance
    <3>2. Aged(cycle.age) \in Age /\ 0 \in Age
      BY <2>a, AlertAssumption DEF Cycles, Age, Aged
    <3>3. /\ cycle' \in Cycles /\ cycle'.on = cycle.on /\ cycle'.by = cycle.by
          /\ cycle'.gone = cycle.gone
      BY <2>a, <3>1, <3>2 DEF Cycles
    <3>4. cycle.on = FALSE => cycle' = cycle
      <4>1. cycle.on = FALSE => cycle.age = 0
        BY <2>a DEF NoCycle
      <4>2. cycle.on = FALSE => cycle' = [cycle EXCEPT !.age = cycle.age]
        BY <3>1, <4>1
      <4>3. QED
        BY <2>a, <4>2 DEF Cycles
    <3>5. QED
      BY <2>a, <3>1, <3>3, <3>4, ElsewhereSteps
  <2>4. ASSUME NEW by \in {"flush", "stop"}, NEW A \in SUBSET Key, Queue(by, A, FALSE),
               UNCHANGED <<watcher, cycle, world, missed>>, pending' \in Seq(Event)
        PROVE  CloseInv'
    <3> DEFINE c == [by |-> by, alerts |-> A, scanned |-> FALSE]
    <3>1. c \in Waiting /\ ~OfWatcher(c) /\ c.scanned = FALSE
      BY DEF Waiting, Origin, OfWatcher
    <3>2. chain' = Append(chain, c)
      BY <2>4 DEF Queue
    <3> HIDE DEF c
    <3>3. QED
      BY <2>4, <3>1, <3>2, QueueSteps
  <2>5. ToSet(pending) \in SUBSET Key /\ <<>> \in Seq(Event)
    BY <2>a DEF ToSet, Key
  <2>6. CASE TimerFires
    <3>1. UNCHANGED <<watcher, cycle, world, missed>>
      BY <2>6 DEF TimerFires
    <3>2. CASE UNCHANGED chain
      <4>1. pending' \in Seq(Event)
        BY <2>6, <2>a, <2>5 DEF TimerFires
      <4>2. QED
        BY <2>a, <3>1, <3>2, <4>1, ElsewhereSteps
    <3>3. CASE Queue("flush", ToSet(pending), FALSE) /\ pending' = <<>>
      BY <2>4, <2>5, <3>1, <3>3
    <3>4. QED
      BY <2>6, <3>2, <3>3 DEF TimerFires
  <2>7. CASE Stop
    <3>1. UNCHANGED <<watcher, cycle, world, missed>> /\ pending' = <<>>
      BY <2>7 DEF Stop
    <3>2. CASE UNCHANGED chain
      BY <2>a, <2>5, <3>1, <3>2, ElsewhereSteps
    <3>3. CASE Queue("stop", ToSet(pending), FALSE)
      BY <2>4, <2>5, <3>1, <3>3
    <3>4. QED
      BY <2>7, <3>2, <3>3 DEF Stop
  <2>8. CASE Crash
    <3>1. /\ chain' = <<>> /\ cycle' = NoCycle /\ watcher' = Asleep /\ pending' = <<>>
          /\ UNCHANGED <<world, missed>>
      BY <2>8 DEF Crash
    <3>2. ShapeInv' /\ ~WatcherRuns'
      BY <2>a, <3>1, NothingRuns DEF ShapeInv, WatcherRuns
    <3>3. OneCycleInv'
      BY <3>1, <3>2 DEF OneCycleInv
    <3>4. MissedInv'
      BY <2>a, <3>1, NothingRuns DEF MissedInv
    <3>5. QED
      BY <3>2, <3>3, <3>4 DEF CloseInv
  <2>9. CASE ScanStarts
    <3>1. /\ watcher.pc = "asleep" /\ watcher' = [pc |-> "scanning", found |-> world]
          /\ missed' = missed \ world
          /\ UNCHANGED <<world, chain, cycle, pending>>
      BY <2>9 DEF ScanStarts, manager
    <3>2. /\ watcher' \in Watchers /\ watcher'.pc = "scanning" /\ watcher'.found = world
      BY <2>a, <3>1 DEF Watchers
    <3>3. /\ ~WatcherRuns /\ ~WatcherRuns'
          /\ \A n \in DOMAIN chain : ~OfWatcher(chain[n])
      BY <3>1 DEF CloseInv, OneCycleInv, WatcherRuns, OfWatcher
    <3>4. /\ cycle.gone = {}
          /\ \A n \in DOMAIN chain : chain[n].scanned # TRUE
      BY <3>3 DEF CloseInv, MissedInv
    <3>5. ShapeInv'
      BY <2>a, <3>1, <3>2 DEF ShapeInv
    <3>6. OneCycleInv'
      BY <3>1, <3>3 DEF OneCycleInv, OfWatcher
    <3>7. MissedInv'
      BY <2>a, <3>1, <3>2, <3>4 DEF MissedInv
    <3>8. QED
      BY <3>5, <3>6, <3>7 DEF CloseInv
  <2>10. ASSUME ScanEnds PROVE CloseInv'
    <3>1. PICK new \in SUBSET Event : HandsOver(watcher.found \cup new, TRUE)
      BY <2>10 DEF ScanEnds
    <3>2. watcher.found \cup new \in SUBSET Key
      BY <2>a DEF Watchers, Key
    <3> DEFINE A == watcher.found \cup new
    <3>3. HandsOver(A, TRUE) /\ watcher.found \subseteq A
      BY <3>1
    <3> HIDE DEF A
    <3>4. QED
      BY <3>2, <3>3, HandOverSteps DEF A
  <2>11. CASE ScanFails
    <3>1. {Unreadable} \in SUBSET Key
      BY AlertAssumption DEF Key
    <3>2. QED
      BY <2>11, <3>1, HandOverSteps DEF ScanFails, Scanned
  <2>12. CASE CycleStarts
    BY <2>12, StartSteps
  <2>13. CASE Housekeeping
    <3>1. /\ watcher.pc = "housekeeping" /\ watcher' = Asleep
          /\ UNCHANGED <<world, chain, cycle, pending, missed>>
      BY <2>13 DEF Housekeeping, manager
    <3>2. /\ ~WatcherRuns /\ ~WatcherRuns'
          /\ \A n \in DOMAIN chain : ~OfWatcher(chain[n])
      BY <3>1 DEF CloseInv, OneCycleInv, WatcherRuns, OfWatcher
    <3>3. ShapeInv'
      BY <2>a, <3>1, NothingRuns DEF ShapeInv
    <3>4. OneCycleInv'
      BY <3>1, <3>2 DEF OneCycleInv, OfWatcher
    <3>5. MissedInv'
      BY <3>1, <3>2, NothingRuns DEF CloseInv, MissedInv, OfWatcher
    <3>6. QED
      BY <3>3, <3>4, <3>5 DEF CloseInv
  <2>c. ASSUME cycle.direct # {} \/ cycle.over # {} \/ cycle.gone # {}
        PROVE  cycle.on = TRUE
    BY <2>a, <2>c DEF NoCycle, Cycles
  <2>14. ASSUME NEW k \in Key, SendDirect(k) \/ DirectFails(k) PROVE CloseInv'
    <3> DEFINE c == [cycle EXCEPT !.direct = @ \ {k}]
    <3>1. /\ cycle.direct # {} /\ Proceeds(c) /\ UNCHANGED <<world, missed, chain, pending>>
      BY <2>14 DEF SendDirect, DirectFails, Foremost
    <3>2. c \in Cycles /\ c.on = cycle.on /\ c.by = cycle.by /\ c.gone = cycle.gone
      BY <2>a DEF Cycles
    <3> HIDE DEF c
    <3>3. QED
      BY <2>c, <3>1, <3>2, ProceedSteps
  <2>15. CASE SendOverflow
    <3> DEFINE c == [cycle EXCEPT !.over = {}]
    <3>1. /\ cycle.over # {} /\ Proceeds(c) /\ UNCHANGED <<world, missed, chain, pending>>
      BY <2>15 DEF SendOverflow
    <3>2. c \in Cycles /\ c.on = cycle.on /\ c.by = cycle.by /\ c.gone = cycle.gone
      BY <2>a DEF Cycles
    <3> HIDE DEF c
    <3>3. QED
      BY <2>c, <3>1, <3>2, ProceedSteps
  <2>16. ASSUME NEW k \in Condition, Closes(k) \/ ResolvedFails(k) PROVE CloseInv'
    <3> DEFINE c == [cycle EXCEPT !.gone = @ \ {k}]
    <3>1. /\ cycle.gone # {} /\ Proceeds(c) /\ UNCHANGED <<world, missed, chain, pending>>
      BY <2>16 DEF Closes, ResolvedFails, Resolving
    <3>2. c \in Cycles /\ c.on = cycle.on /\ c.by = cycle.by /\ c.gone \subseteq cycle.gone
      BY <2>a DEF Cycles
    <3> HIDE DEF c
    <3>3. QED
      BY <2>c, <3>1, <3>2, ProceedSteps
  <2>17. CASE UNCHANGED vars
    BY <2>17, <2>b DEF vars, manager
  <2>18. QED
    BY <2>1, <2>2, <2>3, <2>6, <2>7, <2>8, <2>9, <2>10, <2>11, <2>12, <2>13, <2>14,
       <2>15, <2>16, <2>17
    DEF Next
<1>3. QED
  BY <1>1, <1>2, PTL DEF Spec

\* Nothing is closed behind a condition's back: what a cycle closes had gone at some
\* moment since a scan last found it, whatever failed scans, crashes and the cycles of
\* other alerts came between that scan and the closing (manager.ts:164-166,
\* watcher.ts:102-118).
THEOREM OnlyGoneIsClosed == Spec => ClosedWasGone
<1>1. CloseInv /\ [Next]_vars
        => [\A k \in Condition \ {Unreadable} : Closes(k) => k \in missed]_vars
  BY DEF CloseInv, MissedInv, Shown, Closes, Resolving
<1>2. QED
  BY <1>1, CloseInvariant, PTL DEF Spec, ClosedWasGone

-------------------------------------------------------------------------------
(*****************************************************************************)
(* The scans behind the watcher                                              *)
(*                                                                           *)
(* Of every alert that could be lost the invariant says who accounts for     *)
(* it: told, held by a scan, excused, or still ahead of the cursor that      *)
(* will find it. The log of a run that has ended is read once, so the scan   *)
(* that counted the restart must be the one to read it, or to excuse it.     *)
(*****************************************************************************)

\* A set of integers below a bound has a greatest one.
LEMMA Latest ==
    ASSUME NEW S \in SUBSET Int, NEW b \in Int, \A y \in S : y <= b, S # {}
    PROVE  Max(S) \in S /\ \A y \in S : y <= Max(S)
<1> DEFINE Less == {p \in Nat \X Nat : p[1] < p[2]}
           T == {b - k : k \in S}
<1>1. IsWellFoundedOn(Less, Nat)
  BY NatLessThanWellFounded DEF OpToRel
<1>2. T \subseteq Nat /\ T # {}
  <2>1. PICK k \in S : TRUE
    OBVIOUS
  <2>2. b - k \in T
    OBVIOUS
  <2> QED BY <2>2
<1> HIDE DEF Less
<1>3. PICK c \in T : \A d \in T : ~ (<<d, c>> \in Less)
  BY <1>1, <1>2, WFMin
<1>4. PICK m \in S : c = b - m
  OBVIOUS
<1>5. ASSUME NEW k \in S PROVE m >= k
  <2>1. b - k \in T /\ b - k \in Nat /\ c \in Nat
    BY <1>2
  <2>2. ~ (b - k < c)
    BY <1>3, <2>1 DEF Less
  <2> QED BY <1>4, <2>1, <2>2
<1>6. Max(S) \in S /\ \A y \in S : Max(S) >= y
  BY <1>5 DEF Max
<1> QED BY <1>6

Scans == {"live", "stray"}
LineType == [at : Nat, error : BOOLEAN]
Alerts == {Line(t) : t \in Int} \cup {EventAt(t) : t \in Int} \cup {Restart(r) : r \in Int}
ScanType == [pc : {"idle", "pods", "events", "previous", "log", "end"}, from : Nat, run : Nat,
             waiting : BOOLEAN, previous : BOOLEAN, got : SUBSET Alerts]

\* The clock, the container with its logs, and its events.
Cluster == /\ now \in Nat
           /\ box \in [run : Nat, waiting : BOOLEAN, log : SUBSET LineType, last : SUBSET LineType]
           /\ IsFiniteSet(box.log) /\ \A l \in box.log : l.at <= now
           /\ events \subseteq 0 .. now
\* Where the scans have read to.
Cursors == /\ cursor \in [{"log", "events"} -> Int \cup {None}]
           /\ \A s \in {"log", "events"} : cursor[s] # None => cursor[s] <= now
           /\ prevKey \in (0 .. box.run) \cup {None}
           /\ baseline \in (0 .. box.run) \cup {None}
\* The scan that is waited for and the one that is not.
ScansOk == /\ scan \in [Scans -> ScanType]
           /\ \A x \in Scans :
                /\ scan[x].from <= now /\ scan[x].run <= box.run
                /\ scan[x].pc \in {"idle", "pods"} => scan[x].got = {}
                /\ scan[x].pc \notin {"idle", "pods"} /\ scan[x].run = box.run => baseline = box.run
Shapes == Cluster /\ Cursors /\ ScansOk

\* Every error, restart and event a scan went past is told, held or excused.
Counted == baseline # None => \A r \in 1 .. baseline : Restart(r) \in Known
\* Every error line up to the cursor.
LogRead == \A l \in box.log :
              l.error => Line(l.at) \in Known \/ cursor["log"] = None \/ l.at > cursor["log"]
\* Every event up to the cursor.
EventsRead == \A t \in events :
                 EventAt(t) \in Known \/ cursor["events"] = None \/ t > cursor["events"]

\* The log of the run before, once its restart was counted, is read or about to be.
Seen == Lines(box.last) \subseteq Known
DueIn(x) == PreviousIsDue(scan[x]) /\ scan[x].run = box.run
\* A restart that was looked at and counted leaves the log of the run before read, or due in a scan.
PreviousRead == ~box.waiting => /\ prevKey = box.run => Seen
                                /\ baseline = box.run => Seen \/ \E x \in Scans : DueIn(x)

\* What a scan that is waited for has told or holds will not be found again.
Live == told \cup scan["live"].got
Later(t) == {k \in box.log : k.at > t}
Past(t) == /\ cursor["log"] # None
           /\ \/ t <= cursor["log"]
              \/ Cardinality(Later(t)) > Backlog
              \/ t < now /\ \A k \in box.log : k.at # t
\* What is told and held again was read from two logs, and is listed in repeats; nothing that
\* is ahead of the cursor was told, unless from the log of the run before.
Once == /\ told \cap scan["live"].got \subseteq repeats
        /\ \A r \in Int : Restart(r) \in Live => r <= box.run /\ (baseline # None => r <= baseline)
        /\ \A t \in Int : EventAt(t) \in Live => cursor["events"] # None /\ t <= cursor["events"]
        /\ \A t \in Int : Line(t) \in Live => Line(t) \in repeats \/ Past(t)

\* Inductive: types, what was passed is known, and what is told was ahead of the cursor.
ScInv == Shapes /\ Counted /\ LogRead /\ EventsRead /\ PreviousRead /\ (looked => Seen) /\ Once

LEMMA ScanNumbers ==
    /\ {Interval, FloorAge, StaleAfter, Backlog, MaxFindings} \subseteq Nat \ {0}
    /\ StaleAfter >= FloorAge /\ None \notin Int
BY ScanAssumption

\* Alerts of different kinds differ.
LEMMA AlertsDiffer ==
    ASSUME NEW t, NEW u
    PROVE  /\ Line(t) = Line(u) => t = u
           /\ EventAt(t) = EventAt(u) => t = u
           /\ Restart(t) = Restart(u) => t = u
           /\ Line(t) # EventAt(u) /\ Line(t) # Restart(u)
           /\ EventAt(t) # Restart(u)
BY DEF Line, EventAt, Restart

LEMMA LinesOf ==
    ASSUME NEW log \in SUBSET LineType
    PROVE  /\ Lines(log) \subseteq Alerts
           /\ \A t \in Int : Line(t) \in Lines(log) <=> \E l \in log : l.error /\ l.at = t
           /\ \A l \in log : l.error => Line(l.at) \in Lines(log)
           /\ \A a \in Lines(log) : \E t \in Int : a = Line(t)
           /\ \A t : EventAt(t) \notin Lines(log) /\ Restart(t) \notin Lines(log)
<1>1. \A a \in Lines(log) : \E l \in log : l.error /\ a = Line(l.at)
  BY DEF Lines
<1>2. \A l \in log : l.error => Line(l.at) \in Lines(log)
  BY DEF Lines
<1>3. \A l \in log : l.at \in Int
  BY DEF LineType
<1>4. Lines(log) \subseteq Alerts
  BY <1>1, <1>3 DEF Alerts
<1>5. \A t \in Int : Line(t) \in Lines(log) <=> \E l \in log : l.error /\ l.at = t
  BY <1>1, <1>2, AlertsDiffer
<1>6. \A t : EventAt(t) \notin Lines(log) /\ Restart(t) \notin Lines(log)
  BY <1>1, AlertsDiffer
<1>7. \A a \in Lines(log) : \E t \in Int : a = Line(t)
  BY <1>1, <1>3
<1> QED BY <1>2, <1>4, <1>5, <1>6, <1>7

LEMMA LinesSplit ==
    ASSUME NEW log, NEW part \in SUBSET log
    PROVE  Lines(log) \subseteq Lines(part) \cup Lines(log \ part)
           /\ Lines(part) \subseteq Lines(log)
BY DEF Lines

\* Where a scan reads from: the cursor, or what is older is excused.
LEMMA SinceIsLate ==
    ASSUME Shapes, NEW x \in Scans, NEW s \in {"log", "events"}
    PROVE  LET since == FreshCursor(s, scan[x].from) IN
           /\ since \in Int /\ since <= now /\ (cursor[s] # None => cursor[s] <= since)
           /\ \/ cursor[s] # None /\ since = cursor[s]
              \/ \A times \in SUBSET Int : TooOld(s, times, x) = {t \in times : t <= since}
<1>1. /\ cursor[s] \in Int \cup {None} /\ (cursor[s] # None => cursor[s] <= now)
      /\ scan[x].from \in Nat /\ scan[x].from <= now /\ now \in Nat
  BY DEF Shapes, Cursors, Cluster, ScansOk, ScanType
<1>2. CASE cursor[s] = None \/ scan[x].from - cursor[s] > StaleAfter
  <2>1. FreshCursor(s, scan[x].from) = scan[x].from - FloorAge
    BY <1>2 DEF FreshCursor
  <2>2. \A times \in SUBSET Int : TooOld(s, times, x) = {t \in times : t <= scan[x].from - FloorAge}
    BY <1>1, <1>2, ScanNumbers DEF TooOld
  <2>3. /\ scan[x].from - FloorAge \in Int /\ scan[x].from - FloorAge <= now
        /\ cursor[s] # None => cursor[s] <= scan[x].from - FloorAge
    BY <1>1, <1>2, ScanNumbers
  <2> QED BY <2>1, <2>2, <2>3
<1>3. CASE ~(cursor[s] = None \/ scan[x].from - cursor[s] > StaleAfter)
  <2>1. FreshCursor(s, scan[x].from) = cursor[s]
    BY <1>3 DEF FreshCursor
  <2> QED BY <1>1, <1>3, <2>1
<1> QED BY <1>2, <1>3

LEMMA ScanBegins == ASSUME ScanInit PROVE ScInv
<1>1. Cluster
  BY FS_EmptySet DEF ScanInit, Cluster
<1>2. Cursors
  BY DEF ScanInit, Cursors
<1>3. ScansOk
  <2>1. Idle \in ScanType /\ Idle.got = {} /\ Idle.pc = "idle" /\ Idle.from = 0 /\ Idle.run = 0
    BY DEF Idle, ScanType
  <2> QED BY <2>1 DEF ScanInit, ScansOk, Scans
<1>4. scan["live"].got = {} /\ told = {} /\ box.last = {} /\ box.log = {} /\ events = {}
  BY DEF ScanInit, Idle
<1>5. Counted /\ LogRead /\ EventsRead
  BY <1>4 DEF ScanInit, Counted, LogRead, EventsRead
<1>6. Seen
  BY <1>4 DEF Seen, Lines
<1>7. Once
  BY <1>4 DEF Once, Live
<1> QED BY <1>1, <1>2, <1>3, <1>5, <1>6, <1>7 DEF ScInv, Shapes, PreviousRead

\* What is known stays known, and the log of the run before with it.
LEMMA ReadStaysRead ==
    ASSUME Known \subseteq Known'
    PROVE  /\ Counted /\ baseline' \in {baseline, None} => Counted'
           /\ EventsRead /\ UNCHANGED <<events, cursor>> => EventsRead'
           /\ LogRead /\ UNCHANGED <<box, cursor>> => LogRead'
           /\ Seen /\ UNCHANGED box => Seen'
<1>1. Counted /\ baseline' \in {baseline, None} => Counted'
  BY DEF Counted
<1>2. EventsRead /\ UNCHANGED <<events, cursor>> => EventsRead'
  BY DEF EventsRead
<1>3. LogRead /\ UNCHANGED <<box, cursor>> => LogRead'
  BY DEF LogRead
<1>4. Seen /\ UNCHANGED box => Seen'
  BY DEF Seen, Lines
<1> QED BY <1>1, <1>2, <1>3, <1>4

\* The cluster moves; no scan does.
LEMMA ClusterMoves ==
    ASSUME ScInv,
           \/ TimePasses \/ Warns \/ Crashes \/ Restarts
           \/ \E error \in BOOLEAN : Writes(error)
    PROVE  ScInv'
<1>1. UNCHANGED <<cursor, prevKey, baseline, scan, told, repeats>> /\ excused \subseteq excused'
  BY DEF TimePasses, Warns, Crashes, Restarts, Writes, kept
<1>2. Known \subseteq Known'
  BY <1>1 DEF Known
<1>3. /\ now \in Nat /\ box \in [run : Nat, waiting : BOOLEAN, log : SUBSET LineType, last : SUBSET LineType]
      /\ IsFiniteSet(box.log) /\ (\A l \in box.log : l.at \in Nat /\ l.at <= now) /\ events \subseteq 0 .. now
  BY DEF ScInv, Shapes, Cluster, LineType
<1>4. /\ cursor["log"] \in Int \cup {None} /\ (cursor["log"] # None => cursor["log"] <= now)
      /\ cursor["events"] \in Int \cup {None} /\ (cursor["events"] # None => cursor["events"] <= now)
  BY DEF ScInv, Shapes, Cursors
<1>5. ASSUME now <= now', now' \in Nat, box.run <= box'.run, box'.run \in Nat, Cluster',
             box'.run # box.run => box'.run = box.run + 1
      PROVE  Shapes'
  <2>1. Cursors'
    <3>1. \A s \in {"log", "events"} : cursor[s] # None => cursor[s] \in Int /\ cursor[s] <= now
      BY DEF ScInv, Shapes, Cursors
    <3> QED BY <1>1, <1>3, <1>5, <3>1 DEF ScInv, Shapes, Cursors
  <2>2. ScansOk'
    <3>1. \A x \in Scans : scan[x].from \in Nat /\ scan[x].run \in Nat
      BY DEF ScInv, Shapes, ScansOk, ScanType
    <3>2. \A x \in Scans : scan[x].from <= now' /\ scan[x].run <= box'.run
                           /\ (scan[x].run = box'.run => box'.run = box.run)
      BY <1>3, <1>5, <3>1 DEF ScInv, Shapes, ScansOk
    <3> QED BY <1>1, <3>2 DEF ScInv, Shapes, ScansOk
  <2> QED BY <1>5, <2>1, <2>2 DEF Shapes
<1>6. Counted'
  BY <1>1, <1>2, ReadStaysRead DEF ScInv
<1>7. CASE TimePasses
  <2>1. now' = now + 1 /\ UNCHANGED <<box, events, excused, looked>>
    BY <1>7 DEF TimePasses
  <2>2. Shapes'
    BY <1>3, <1>5, <2>1 DEF Cluster
  <2>3. Known' = Known
    BY <1>1, <2>1 DEF Known
  <2>4. LogRead' /\ EventsRead' /\ (looked' => Seen')
    BY <1>1, <1>2, <2>1, ReadStaysRead DEF ScInv
  <2>5. PreviousRead'
    BY <1>1, <2>1, <2>3 DEF ScInv, PreviousRead, Seen, DueIn, Lines, PreviousIsDue
  <2>6. Once'
    <3>1. \A t \in Int : Past(t) => Past(t)'
      BY <1>1, <1>3, <2>1 DEF Past, Later
    <3> QED BY <1>1, <2>1, <3>1 DEF ScInv, Once, Live
  <2> QED BY <1>6, <2>2, <2>4, <2>5, <2>6 DEF ScInv
<1>8. CASE Warns
  <2>1. /\ UNCHANGED <<now, box, looked>> /\ events' = events \cup {now}
        /\ cursor["events"] = now => EventAt(now) \in excused'
    BY <1>8 DEF Warns
  <2>2. Shapes'
    BY <1>3, <1>5, <2>1 DEF Cluster
  <2>3. LogRead' /\ (looked' => Seen')
    BY <1>1, <1>2, <2>1, ReadStaysRead DEF ScInv
  <2>4. EventsRead'
    <3>1. \A t \in events : EventAt(t) \in Known' \/ cursor["events"] = None \/ t > cursor["events"]
      BY <1>2 DEF ScInv, EventsRead
    <3>2. EventAt(now) \in Known' \/ cursor["events"] = None \/ now > cursor["events"]
      BY <1>3, <1>4, <2>1 DEF Known
    <3> QED BY <1>1, <2>1, <3>1, <3>2 DEF EventsRead
  <2>5. PreviousRead'
    <3>1. Seen => Seen'
      BY <1>2, <2>1, ReadStaysRead
    <3> QED BY <1>1, <2>1, <3>1 DEF ScInv, PreviousRead, DueIn, PreviousIsDue
  <2>6. Once'
    BY <1>1, <2>1 DEF ScInv, Once, Live, Past, Later
  <2> QED BY <1>6, <2>2, <2>3, <2>4, <2>5, <2>6 DEF ScInv
<1>9. CASE Crashes
  <2>1. /\ UNCHANGED <<now, events>> /\ looked' = FALSE
        /\ box' = [box EXCEPT !.waiting = TRUE, !.last = box.log]
    BY <1>9 DEF Crashes
  <2>2. /\ box' \in [run : Nat, waiting : BOOLEAN, log : SUBSET LineType, last : SUBSET LineType]
        /\ box'.run = box.run /\ box'.log = box.log /\ box'.waiting
    BY <1>3, <2>1
  <2>3. Shapes'
    BY <1>3, <1>5, <2>1, <2>2 DEF Cluster
  <2>4. EventsRead'
    BY <1>1, <1>2, <2>1, ReadStaysRead DEF ScInv
  <2>5. LogRead'
    BY <1>1, <1>2, <2>2 DEF ScInv, LogRead
  <2>6. PreviousRead'
    BY <2>2 DEF PreviousRead
  <2>7. Once'
    BY <1>1, <2>1, <2>2 DEF ScInv, Once, Live, Past, Later
  <2> QED BY <1>6, <2>1, <2>3, <2>4, <2>5, <2>6, <2>7 DEF ScInv
<1>10. CASE Restarts
  <2>1. UNCHANGED <<now, events, looked>> /\ box' = [box EXCEPT !.waiting = FALSE, !.run = box.run + 1, !.log = {}]
    BY <1>10 DEF Restarts
  <2>2. /\ box' \in [run : Nat, waiting : BOOLEAN, log : SUBSET LineType, last : SUBSET LineType]
        /\ box'.run = box.run + 1 /\ box'.log = {} /\ box'.last = box.last
    <3>1. box' = [run |-> box.run + 1, waiting |-> FALSE, log |-> {}, last |-> box.last]
      BY <1>3, <2>1
    <3>2. box.run + 1 \in Nat /\ {} \in SUBSET LineType /\ box.last \in SUBSET LineType
      BY <1>3
    <3> QED BY <3>1, <3>2
  <2>3. Shapes'
    BY <1>3, <1>5, <2>1, <2>2, FS_EmptySet DEF Cluster
  <2>4. EventsRead' /\ LogRead'
    BY <1>1, <1>2, <2>1, <2>2, ReadStaysRead DEF ScInv, LogRead
  <2>5. looked' => Seen'
    BY <1>2, <2>1, <2>2 DEF ScInv, Seen, Lines
  <2>6. PreviousRead'
    <3>1. prevKey \in (0 .. box.run) \cup {None} /\ baseline \in (0 .. box.run) \cup {None} /\ box.run \in Nat
      BY <1>3 DEF ScInv, Shapes, Cursors
    <3>2. prevKey # box.run + 1 /\ baseline # box.run + 1
      BY <3>1, ScanNumbers
    <3> QED BY <1>1, <2>2, <3>2 DEF PreviousRead
  <2>7. Once'
    <3>1. \A t \in Int : Past(t) => Past(t)'
      <4> SUFFICES ASSUME NEW t \in Int, Past(t) PROVE Past(t)'
        OBVIOUS
      <4>1. CASE t <= cursor["log"]
        BY <1>1, <4>1 DEF Past
      <4>2. CASE Cardinality(Later(t)) > Backlog
        <5>1. Later(t) # {}
          <6>1. Cardinality({}) = 0
            BY FS_EmptySet
          <6> QED BY <4>2, <6>1, ScanNumbers
        <5>2. t < now
          BY <1>3, <5>1 DEF Later
        <5> QED BY <1>1, <2>1, <2>2, <5>2 DEF Past
      <4>3. CASE t < now
        BY <1>1, <2>1, <2>2, <4>3 DEF Past
      <4> QED BY <4>1, <4>2, <4>3 DEF Past
    <3>2. \A r \in Int : r <= box.run => r <= box'.run
      BY <1>3, <2>2
    <3> QED BY <1>1, <3>1, <3>2 DEF ScInv, Once, Live
  <2> QED BY <1>6, <2>3, <2>4, <2>5, <2>6, <2>7 DEF ScInv
<1>11. ASSUME NEW error \in BOOLEAN, Writes(error) PROVE ScInv'
  <2> DEFINE l0 == [at |-> now, error |-> error]
  <2>1. /\ UNCHANGED <<now, events, looked>> /\ cursor["log"] # now
        /\ box' = [box EXCEPT !.log = box.log \cup {l0}]
    BY <1>11 DEF Writes
  <2>2. l0 \in LineType /\ l0.at = now
    BY <1>3 DEF LineType
  <2> HIDE DEF l0
  <2>3. /\ box' \in [run : Nat, waiting : BOOLEAN, log : SUBSET LineType, last : SUBSET LineType]
        /\ box'.run = box.run /\ box'.log = box.log \cup {l0} /\ box'.last = box.last
        /\ box'.waiting = box.waiting
    BY <1>3, <2>1, <2>2
  <2>4. IsFiniteSet(box'.log) /\ \A l \in box'.log : l.at <= now
    BY <1>3, <2>2, <2>3, FS_AddElement
  <2>5. Shapes'
    BY <1>3, <1>5, <2>1, <2>3, <2>4 DEF Cluster
  <2>6. EventsRead'
    BY <1>1, <1>2, <2>1, ReadStaysRead DEF ScInv
  <2>7. LogRead'
    <3>1. cursor["log"] = None \/ now > cursor["log"]
      BY <1>3, <1>4, <2>1
    <3> QED BY <1>1, <1>2, <2>2, <2>3, <3>1 DEF ScInv, LogRead
  <2>8. Seen => Seen'
    BY <1>2, <2>3 DEF Seen, Lines
  <2>9. PreviousRead'
    BY <1>1, <2>3, <2>8 DEF ScInv, PreviousRead, DueIn, PreviousIsDue
  <2>10. Once'
    <3>1. \A t \in Int : Past(t) => Past(t)'
      <4> SUFFICES ASSUME NEW t \in Int, Past(t) PROVE Past(t)'
        OBVIOUS
      <4>1. CASE t <= cursor["log"]
        BY <1>1, <4>1 DEF Past
      <4>2. CASE Cardinality(Later(t)) > Backlog
        <5>1. Later(t) \subseteq Later(t)' /\ Later(t)' \subseteq box'.log
          BY <2>3 DEF Later
        <5>2. IsFiniteSet(Later(t)')
          BY <2>4, <5>1, FS_Subset
        <5>3. Cardinality(Later(t)) <= Cardinality(Later(t)')
          BY <5>1, <5>2, FS_Subset
        <5>4. IsFiniteSet(Later(t)) /\ Cardinality(Later(t)) \in Nat /\ Cardinality(Later(t)') \in Nat
          BY <5>1, <5>2, FS_Subset, FS_CardinalityType
        <5>5. Cardinality(Later(t)') > Backlog
          BY <4>2, <5>3, <5>4, ScanNumbers
        <5> QED BY <1>1, <5>5 DEF Past
      <4>3. CASE t < now /\ \A k \in box.log : k.at # t
        BY <1>1, <1>3, <2>1, <2>2, <2>3, <4>3 DEF Past
      <4> QED BY <4>1, <4>2, <4>3 DEF Past
    <3> QED BY <1>1, <2>3, <3>1 DEF ScInv, Once, Live
  <2> QED BY <1>6, <2>1, <2>5, <2>6, <2>7, <2>8, <2>9, <2>10 DEF ScInv
<1> QED BY <1>7, <1>8, <1>9, <1>10, <1>11

\* Ticks come, are given up and end, and the process dies: no alert that is held is lost,
\* and a log that was to be read is excused with its scan.
LEMMA TicksMove ==
    ASSUME ScInv,
           \/ TickStarts \/ ScanHandsOver \/ Throws \/ TimesOut \/ StrayEnds \/ Dies
    PROVE  ScInv'
<1>1. UNCHANGED <<now, box, events, cursor, prevKey, looked, repeats>> /\ baseline' \in {baseline, None}
  BY DEF TickStarts, ScanHandsOver, Throws, TimesOut, StrayEnds, Dies, cluster, kept
<1>2. /\ scan \in [Scans -> ScanType] /\ now \in Nat /\ box.run \in Nat /\ Scans = {"live", "stray"}
      /\ \A x \in Scans : scan[x].from <= now /\ scan[x].run <= box.run
                          /\ (scan[x].pc \in {"idle", "pods"} => scan[x].got = {})
                          /\ (scan[x].pc \notin {"idle", "pods"} /\ scan[x].run = box.run => baseline = box.run)
  BY DEF ScInv, Shapes, Cluster, ScansOk, Scans
<1> DEFINE Blank(s) == s \in ScanType /\ s.pc \in {"idle", "pods"} /\ s.got = {} /\ s.from <= now /\ s.run <= box.run
<1>3. Blank(Idle) /\ Blank([Idle EXCEPT !.pc = "pods", !.from = now])
  <2>1. Idle \in ScanType /\ Idle.pc = "idle" /\ Idle.from = 0 /\ Idle.run = 0 /\ Idle.got = {}
    BY DEF Idle, ScanType
  <2> DEFINE first == [Idle EXCEPT !.pc = "pods", !.from = now]
  <2>2. first \in ScanType /\ first.pc = "pods" /\ first.from = now /\ first.run = 0 /\ first.got = {}
    BY <1>2, <2>1 DEF ScanType
  <2> HIDE DEF first
  <2>3. Blank(first)
    BY <1>2, <2>2
  <2>4. Blank(Idle)
    BY <1>2, <2>1
  <2> QED BY <2>3, <2>4 DEF first
<1> HIDE DEF Blank
\* Every scan is as it was, blank, or the one that was given up.
<1>4. /\ scan' = [x \in Scans |-> scan'[x]]
      /\ Blank(scan'["live"]) \/ (scan'["live"] = scan["live"] /\ StrayEnds)
      /\ \/ scan'["stray"] = scan["stray"]
         \/ Blank(scan'["stray"])
         \/ scan'["stray"] = scan["live"] /\ TimesOut
  <2>1. CASE TickStarts
    BY <1>2, <1>3, <2>1 DEF TickStarts
  <2>2. CASE ScanHandsOver
    BY <1>2, <1>3, <2>2 DEF ScanHandsOver
  <2>3. CASE Throws
    BY <1>2, <1>3, <2>3 DEF Throws
  <2>4. CASE TimesOut
    BY <1>2, <1>3, <2>4 DEF TimesOut
  <2>5. CASE StrayEnds
    BY <1>2, <1>3, <2>5 DEF StrayEnds
  <2>6. CASE Dies
    BY <1>2, <1>3, <2>6 DEF Dies
  <2> QED BY <2>1, <2>2, <2>3, <2>4, <2>5, <2>6
<1>5. Shapes'
  <2>1. Cluster' /\ Cursors'
    BY <1>1 DEF ScInv, Shapes, Cluster, Cursors
  <2>2. \A x \in Scans : \/ Blank(scan'[x])
                         \/ \E y \in Scans : scan'[x] = scan[y] /\ ~Dies
    <3>1. "live" \in Scans /\ "stray" \in Scans
      BY DEF Scans
    <3>2. Dies => Blank(scan'["live"]) /\ Blank(scan'["stray"])
      BY <1>2, <1>3 DEF Dies
    <3> QED BY <1>2, <1>4, <3>1, <3>2
  <2>3. ~Dies => baseline' = baseline
    BY DEF TickStarts, ScanHandsOver, Throws, TimesOut, StrayEnds, Dies
  <2>4. \A x \in Scans : /\ scan'[x] \in ScanType /\ scan'[x].from <= now' /\ scan'[x].run <= box'.run
                         /\ scan'[x].pc \in {"idle", "pods"} => scan'[x].got = {}
                         /\ scan'[x].pc \notin {"idle", "pods"} /\ scan'[x].run = box'.run => baseline' = box'.run
    <3> SUFFICES ASSUME NEW x \in Scans
                 PROVE  /\ scan'[x] \in ScanType /\ scan'[x].from <= now' /\ scan'[x].run <= box'.run
                        /\ scan'[x].pc \in {"idle", "pods"} => scan'[x].got = {}
                        /\ scan'[x].pc \notin {"idle", "pods"} /\ scan'[x].run = box'.run => baseline' = box'.run
      OBVIOUS
    <3>1. CASE Blank(scan'[x])
      BY <1>1, <3>1 DEF Blank
    <3>2. CASE \E y \in Scans : scan'[x] = scan[y] /\ ~Dies
      BY <1>1, <1>2, <2>3, <3>2
    <3> QED BY <2>2, <3>1, <3>2
  <2>5. scan' \in [Scans -> ScanType]
    BY <1>4, <2>4
  <2>6. ScansOk'
    BY <2>4, <2>5 DEF ScansOk
  <2> QED BY <2>1, <2>6 DEF Shapes
<1>6. /\ Known \subseteq Known'
      /\ scan'["live"].got = {} \/ (scan'["live"] = scan["live"] /\ told' = told)
      /\ told' \subseteq Live
  <2>1. Idle.got = {} /\ [Idle EXCEPT !.pc = "pods", !.from = now].got = {}
    BY DEF Idle
  <2>2. CASE TickStarts
    <3>1. scan["live"].got = {} /\ scan'["live"].got = {} /\ scan'["stray"] = scan["stray"]
      BY <1>2, <2>1, <2>2 DEF TickStarts, Step
    <3> QED BY <2>2, <3>1 DEF TickStarts, Known, Live
  <2>3. CASE ScanHandsOver
    BY <1>2, <2>1, <2>3 DEF ScanHandsOver, Known, Live
  <2>4. CASE Throws
    BY <1>2, <2>1, <2>4 DEF Throws, Known, Live, LostWith
  <2>5. CASE TimesOut
    <3>1. scan["stray"].got = {} /\ scan'["live"].got = {} /\ scan'["stray"] = scan["live"]
      BY <1>2, <2>1, <2>5 DEF TimesOut, Step
    <3> QED BY <2>5, <3>1 DEF TimesOut, Known, Live
  <2>6. CASE StrayEnds
    BY <1>2, <2>1, <2>6 DEF StrayEnds, Known, Live
  <2>7. CASE Dies
    BY <1>2, <2>1, <2>7 DEF Dies, Known, Live
  <2> QED BY <2>2, <2>3, <2>4, <2>5, <2>6, <2>7
<1>7. Counted' /\ LogRead' /\ EventsRead' /\ (Seen => Seen')
  BY <1>1, <1>6, ReadStaysRead DEF ScInv
<1>8. PreviousRead'
  <2> SUFFICES ASSUME ~box.waiting, baseline' = box.run, NEW x \in Scans, DueIn(x)
               PROVE  Seen' \/ \E y \in Scans : DueIn(y)'
    BY <1>1, <1>2, <1>7, ScanNumbers DEF ScInv, PreviousRead
  <2>1. ~Dies
    BY <1>2, ScanNumbers DEF Dies
  <2>2. CASE scan'[x] = scan[x]
    BY <1>1, <2>2 DEF DueIn, PreviousIsDue
  <2>3. CASE TickStarts \/ ScanHandsOver \/ StrayEnds
    <3>1. scan[x].pc \in {"events", "previous"}
      BY DEF DueIn, PreviousIsDue
    <3>2. scan'[x] = scan[x]
      BY <1>2, <2>3, <3>1 DEF TickStarts, ScanHandsOver, StrayEnds, Step
    <3> QED BY <2>2, <3>2
  <2>4. CASE Throws \/ TimesOut
    <3>1. CASE x = "live"
      <4>1. Lines(box.last) \subseteq excused'
        BY <2>4, <3>1 DEF DueIn, LostWith, Throws, TimesOut
      <4> QED BY <1>1, <4>1 DEF Seen, Known, Lines
    <3>2. CASE x = "stray"
      <4>1. scan[x].pc \in {"events", "previous"}
        BY DEF DueIn, PreviousIsDue
      <4>2. scan'[x] = scan[x]
        BY <1>2, <2>4, <3>2, <4>1 DEF Throws, TimesOut, Step
      <4> QED BY <2>2, <4>2
    <3> QED BY <3>1, <3>2 DEF Scans
  <2> QED BY <2>1, <2>3, <2>4
<1>9. Once'
  <2>1. Live' \subseteq Live
    BY <1>6 DEF Live
  <2>2. \A t \in Int : Past(t) => Past(t)'
    BY <1>1 DEF Past, Later
  <2>3. told' \cap scan'["live"].got \subseteq repeats'
    BY <1>1, <1>6 DEF ScInv, Once
  <2>4. \A r \in Int : Restart(r) \in Live' => r <= box'.run /\ (baseline' # None => r <= baseline')
    BY <1>1, <2>1 DEF ScInv, Once
  <2> QED BY <1>1, <2>1, <2>2, <2>3, <2>4 DEF ScInv, Once
<1> QED BY <1>1, <1>5, <1>7, <1>8, <1>9 DEF ScInv

\* The pods: restarts since the last look are held or excused, and the log of the run
\* before is due, read or excused.
LEMMA PodsAreRead ==
    ASSUME ScInv, NEW x \in Scans, ReadPods(x) PROVE ScInv'
<1> DEFINE prev == /\ Restarted \/ (box.waiting /\ box.run > 0)
                   /\ prevKey # box.run
           s == [scan[x] EXCEPT !.pc = "events", !.run = box.run, !.waiting = box.waiting,
                                !.got = PodAlerts, !.previous = prev]
<1> HIDE DEF prev, s
<1>1. UNCHANGED <<now, box, events, cursor, prevKey, told, looked, repeats>> /\ baseline' = box.run
  BY DEF ReadPods, cluster, kept
<1>2. /\ scan \in [Scans -> ScanType] /\ now \in Nat /\ box.run \in Nat /\ box.waiting \in BOOLEAN
      /\ scan[x].pc = "pods" /\ scan[x].got = {} /\ scan[x].from <= now
      /\ baseline \in (0 .. box.run) \cup {None} /\ prevKey \in (0 .. box.run) \cup {None}
  BY DEF ScInv, Shapes, Cluster, Cursors, ScansOk, ReadPods, Step
<1>3. /\ PodAlerts \subseteq Alerts
      /\ \A a \in PodAlerts : \E r \in Int : /\ a = Restart(r) /\ baseline # None
                                                /\ r > baseline /\ r <= box.run
  <2> SUFFICES ASSUME NEW a \in PodAlerts
               PROVE  a \in Alerts /\ \E r \in Int : /\ a = Restart(r) /\ baseline # None
                                                  /\ r > baseline /\ r <= box.run
    OBVIOUS
  <2>1. Restarted
    BY DEF PodAlerts
  <2>2. baseline # None /\ baseline \in Int
    BY <1>2, <2>1 DEF Restarted
  <2>3. PICK r \in baseline + 1 .. box.run : a = Restart(r)
    BY <2>1 DEF PodAlerts
  <2>4. r \in Int /\ r > baseline /\ r <= box.run
    BY <1>2, <2>2, <2>3
  <2> QED BY <2>2, <2>3, <2>4 DEF Alerts
<1>4. /\ s \in ScanType /\ s.pc = "events" /\ s.run = box.run /\ s.from = scan[x].from
      /\ s.got = PodAlerts /\ s.previous = prev
  <2>1. prev \in BOOLEAN
    BY DEF prev
  <2> QED BY <1>2, <1>3, <2>1 DEF s, ScanType
<1>5. scan' \in [Scans -> ScanType] /\ scan'[x] = s /\ \A y \in Scans \ {x} : scan'[y] = scan[y]
  <2>1. scan' = [scan EXCEPT ![x] = s]
    BY <1>2 DEF ReadPods, s, prev
  <2> QED BY <1>2, <1>4, <2>1
<1>6. Shapes'
  <2>1. Cluster' /\ Cursors'
    BY <1>1, <1>2 DEF ScInv, Shapes, Cluster, Cursors
  <2>2. ScansOk'
    BY <1>1, <1>2, <1>4, <1>5 DEF ScInv, Shapes, ScansOk
  <2> QED BY <2>1, <2>2 DEF Shapes
<1>7. /\ excused \subseteq excused'
      /\ baseline = None \/ (x = "stray" /\ Restarted) => Lines(box.last) \subseteq excused'
      /\ baseline = None \/ box.waiting => \A r \in 1 .. box.run : Restart(r) \in excused'
  BY DEF ReadPods
<1>8. Known \subseteq Known' /\ PodAlerts \subseteq Known'
  BY <1>1, <1>2, <1>4, <1>5, <1>7 DEF Known, Scans
<1>9. Counted'
  <2> SUFFICES ASSUME NEW r \in 1 .. box.run PROVE Restart(r) \in Known'
    BY <1>1 DEF Counted
  <2>1. CASE baseline = None \/ box.waiting
    BY <1>7, <2>1 DEF Known
  <2>2. CASE baseline # None /\ ~box.waiting
    <3>1. baseline \in 0 .. box.run
      BY <1>2, <2>2
    <3>2. CASE r <= baseline
      BY <1>2, <1>8, <2>2, <3>1, <3>2 DEF ScInv, Counted
    <3>3. CASE r > baseline
      <4>1. Restarted /\ r \in baseline + 1 .. box.run
        BY <1>2, <2>2, <3>1, <3>3 DEF Restarted
      <4>2. Restart(r) \in PodAlerts
        BY <2>2, <4>1 DEF PodAlerts
      <4> QED BY <1>8, <4>2
    <3> QED BY <1>2, <3>1, <3>2, <3>3
  <2> QED BY <2>1, <2>2
<1>10. LogRead' /\ EventsRead' /\ (Seen => Seen')
  BY <1>1, <1>8, ReadStaysRead DEF ScInv
<1>11. PreviousRead'
  <2> SUFFICES ASSUME ~box.waiting PROVE Seen' \/ (prevKey # box.run /\ \E y \in Scans : DueIn(y)')
    BY <1>1 DEF PreviousRead
  <2>1. CASE prevKey = box.run
    BY <1>10, <2>1 DEF ScInv, PreviousRead
  <2>2. CASE prevKey # box.run /\ baseline = None
    <3>1. Lines(box.last) \subseteq excused'
      BY <1>7, <2>2
    <3> QED BY <1>1, <3>1 DEF Seen, Known, Lines
  <2>3. CASE prevKey # box.run /\ baseline = box.run
    <3>1. Seen \/ \E y \in Scans : DueIn(y)
      BY <2>3 DEF ScInv, PreviousRead
    <3>2. ~DueIn(x)
      BY <1>2 DEF DueIn, PreviousIsDue
    <3>3. \A y \in Scans : DueIn(y) => DueIn(y)'
      BY <1>1, <1>5, <3>2 DEF DueIn, PreviousIsDue
    <3> QED BY <1>10, <2>3, <3>1, <3>3
  <2>4. CASE prevKey # box.run /\ baseline # None /\ baseline # box.run
    <3>1. Restarted
      BY <1>2, <2>4 DEF Restarted
    <3>2. CASE x = "stray"
      <4>1. Lines(box.last) \subseteq excused'
        BY <1>7, <3>1, <3>2
      <4> QED BY <1>1, <4>1 DEF Seen, Known, Lines
    <3>3. CASE x = "live"
      <4>1. prev
        BY <2>4, <3>1 DEF prev
      <4>2. DueIn(x)'
        BY <1>1, <1>4, <1>5, <4>1 DEF DueIn, PreviousIsDue
      <4> QED BY <2>4, <4>2
    <3> QED BY <3>2, <3>3 DEF Scans
  <2> QED BY <2>1, <2>2, <2>3, <2>4
<1>12. Once'
  <2>1. Live' \subseteq Live \cup PodAlerts
    BY <1>1, <1>2, <1>4, <1>5 DEF Live, Scans
  <2>2. \A t \in Int : Past(t) => Past(t)'
    BY <1>1 DEF Past, Later
  <2>3. told' \cap scan'["live"].got \subseteq repeats'
    <3>1. CASE x = "live"
      <4>1. told \cap PodAlerts = {}
        <5> SUFFICES ASSUME NEW a \in told, a \in PodAlerts PROVE FALSE
          OBVIOUS
        <5>1. PICK r \in Int : a = Restart(r) /\ baseline # None /\ r > baseline
          BY <1>3
        <5>2. r <= baseline /\ baseline \in Int
          BY <1>2, <5>1 DEF ScInv, Once, Live
        <5> QED BY <5>1, <5>2
      <4> QED BY <1>1, <1>4, <1>5, <3>1, <4>1
    <3>2. CASE x # "live"
      BY <1>1, <1>5, <3>2 DEF ScInv, Once, Scans
    <3> QED BY <3>1, <3>2
  <2>4. \A r \in Int : Restart(r) \in Live' => r <= box.run
    <3>1. \A r \in Int : Restart(r) \in PodAlerts => r <= box.run
      BY <1>3, AlertsDiffer
    <3> QED BY <2>1, <3>1 DEF ScInv, Once
  <2>5. \A t \in Int : EventAt(t) \notin PodAlerts /\ Line(t) \notin PodAlerts
    BY <1>3, AlertsDiffer
  <2> QED BY <1>1, <2>1, <2>2, <2>3, <2>4, <2>5 DEF ScInv, Once
<1> QED BY <1>1, <1>6, <1>9, <1>10, <1>11, <1>12 DEF ScInv

\* A scan goes on, and holds more than before.
Goes(x, pc, more) ==
    /\ scan' \in [Scans -> ScanType] /\ \A y \in Scans \ {x} : scan'[y] = scan[y]
    /\ scan'[x].pc = pc /\ scan'[x].got = scan[x].got \cup more
    /\ scan'[x].from = scan[x].from /\ scan'[x].run = scan[x].run
    /\ scan'[x].previous = scan[x].previous

LEMMA TwoFields ==
    ASSUME scan \in [Scans -> ScanType], NEW x \in Scans, NEW pc, NEW more,
           scan' = [scan EXCEPT ![x].pc = pc, ![x].got = @ \cup more]
    PROVE  scan' = [scan EXCEPT ![x] = [scan[x] EXCEPT !.pc = pc, !.got = scan[x].got \cup more]]
BY DEF ScanType

LEMMA GoesOn ==
    ASSUME ScInv, NEW x \in Scans, scan[x].pc \in {"events", "previous", "log"},
           NEW pc \in {"previous", "log", "end"}, NEW more \in SUBSET Alerts,
           scan' = [scan EXCEPT ![x].pc = pc, ![x].got = @ \cup more],
           UNCHANGED <<now, box, baseline, told>>, excused \subseteq excused'
    PROVE  /\ Goes(x, pc, more) /\ ScansOk'
           /\ Known \subseteq Known' /\ more \subseteq Known'
           /\ Live' \subseteq Live \cup (IF x = "live" THEN more ELSE {})
<1>1. scan \in [Scans -> ScanType] /\ scan[x] \in ScanType
  BY DEF ScInv, Shapes, ScansOk
<1>2. Goes(x, pc, more)
  <2> DEFINE s == [scan[x] EXCEPT !.pc = pc, !.got = scan[x].got \cup more]
  <2>1. /\ s \in ScanType /\ s.pc = pc /\ s.got = scan[x].got \cup more /\ s.from = scan[x].from
        /\ s.run = scan[x].run /\ s.previous = scan[x].previous
    BY <1>1 DEF ScanType
  <2>2. scan' = [scan EXCEPT ![x] = s]
    BY <1>1, TwoFields
  <2> HIDE DEF s
  <2>3. scan' \in [Scans -> ScanType] /\ scan'[x] = s /\ \A y \in Scans \ {x} : scan'[y] = scan[y]
    BY <1>1, <2>1, <2>2
  <2> QED BY <2>1, <2>3 DEF Goes
<1>3. ScansOk'
  BY <1>2 DEF Goes, ScInv, Shapes, ScansOk
<1>4. Known \subseteq Known' /\ more \subseteq Known'
  BY <1>2 DEF Goes, Known, Scans
<1>5. Live' \subseteq Live \cup (IF x = "live" THEN more ELSE {})
  BY <1>2 DEF Goes, Live, Scans
<1> QED BY <1>2, <1>3, <1>4, <1>5

LEMMA GoesEmpty ==
    ASSUME ScInv, NEW x \in Scans, scan[x].pc \in {"events", "previous", "log"},
           NEW pc \in {"previous", "log", "end"}, scan' = [scan EXCEPT ![x].pc = pc],
           UNCHANGED <<now, box, baseline, told>>, excused \subseteq excused'
    PROVE  Goes(x, pc, {}) /\ ScansOk' /\ Known \subseteq Known' /\ Live' \subseteq Live
<1>1. scan \in [Scans -> ScanType] /\ scan[x] \in ScanType
  BY DEF ScInv, Shapes, ScansOk
<1>2. Goes(x, pc, {})
  <2> DEFINE s == [scan[x] EXCEPT !.pc = pc]
  <2>1. /\ s \in ScanType /\ s.pc = pc /\ s.got = scan[x].got /\ s.from = scan[x].from
        /\ s.run = scan[x].run /\ s.previous = scan[x].previous
    BY <1>1 DEF ScanType
  <2>2. scan' = [scan EXCEPT ![x] = s]
    OBVIOUS
  <2> HIDE DEF s
  <2>3. scan' \in [Scans -> ScanType] /\ scan'[x] = s /\ \A y \in Scans \ {x} : scan'[y] = scan[y]
    BY <1>1, <2>1, <2>2
  <2> QED BY <2>1, <2>3 DEF Goes
<1>3. ScansOk'
  BY <1>2 DEF Goes, ScInv, Shapes, ScansOk
<1>4. Known \subseteq Known'
  BY <1>2 DEF Goes, Known, Scans
<1>5. Live' \subseteq Live
  BY <1>2 DEF Goes, Live, Scans
<1> QED BY <1>2, <1>3, <1>4, <1>5

\* No later step of a scan but the read itself settles the log that is due.
LEMMA DueStays ==
    ASSUME ScInv, NEW x \in Scans, NEW pc, NEW more, Goes(x, pc, more), UNCHANGED <<box, prevKey, baseline>>,
           Known \subseteq Known',
           ~PreviousIsDue(scan[x]) \/ pc = "previous"
    PROVE  PreviousRead' /\ (Seen => Seen')
<1>1. Seen => Seen'
  BY ReadStaysRead
<1>2. \A y \in Scans : DueIn(y) => DueIn(y)'
  BY DEF Goes, DueIn, PreviousIsDue
<1> QED BY <1>1, <1>2 DEF ScInv, PreviousRead

\* A step of a scan that reads nothing.
LEMMA ScanGoesOn ==
    ASSUME ScInv, NEW x \in Scans, NEW pc, Goes(x, pc, {}), ScansOk', Live' \subseteq Live,
           UNCHANGED <<now, box, events, cursor, prevKey, baseline, told, repeats>>,
           Known \subseteq Known',
           ~PreviousIsDue(scan[x]) \/ pc = "previous", looked' => looked \/ Seen
    PROVE  ScInv'
<1>1. Cluster' /\ Cursors'
  BY DEF ScInv, Shapes, Cluster, Cursors
<1>2. Counted' /\ LogRead' /\ EventsRead' /\ PreviousRead' /\ (Seen => Seen')
  BY ReadStaysRead, DueStays DEF ScInv
<1>3. Once'
  <2>1. \A t \in Int : Past(t) => Past(t)'
    BY DEF Past, Later
  <2>2. told' \cap scan'["live"].got \subseteq repeats'
    BY DEF Goes, ScInv, Once, Scans
  <2> QED BY <2>1, <2>2 DEF ScInv, Once
<1> QED BY <1>1, <1>2, <1>3 DEF ScInv, Shapes

LEMMA EventsAreRead ==
    ASSUME ScInv, NEW x \in Scans, ReadEvents(x) PROVE ScInv'
<1> DEFINE since == FreshCursor("events", scan[x].from)
           new == EvaluateEvents(since)
           more == {EventAt(t) : t \in new}
<1>1. /\ UNCHANGED <<now, box, events, prevKey, baseline, told, looked, repeats>>
      /\ scan[x].pc = "events"
  BY DEF ReadEvents, cluster, Step
<1>2. /\ cursor \in [{"log", "events"} -> Int \cup {None}] /\ now \in Nat /\ events \subseteq 0 .. now
      /\ events \in SUBSET Int
  BY DEF ScInv, Shapes, Cluster, Cursors
<1>3. /\ since \in Int /\ since <= now /\ (cursor["events"] # None => cursor["events"] <= since)
      /\ \/ cursor["events"] # None /\ since = cursor["events"]
         \/ TooOld("events", events, x) = {t \in events : t <= since}
  BY <1>2, SinceIsLate DEF ScInv
<1> HIDE DEF since
<1>4. \A t \in new : t \in events /\ t \in Int /\ t > since
  BY <1>2 DEF EvaluateEvents
<1>5. more \in SUBSET Alerts
  BY <1>4 DEF Alerts
<1>6. CASE /\ scan' = [scan EXCEPT ![x].pc = "previous", ![x].got = @ \cup more]
           /\ cursor' = [cursor EXCEPT !["events"] = Max(new \cup {since})]
           /\ excused' = excused \cup {EventAt(t) : t \in TooOld("events", events, x)}
  <2> HIDE DEF more
  <2>1. /\ Goes(x, "previous", more) /\ ScansOk' /\ Known \subseteq Known' /\ more \subseteq Known'
        /\ Live' \subseteq Live \cup (IF x = "live" THEN more ELSE {})
    BY <1>1, <1>5, <1>6, GoesOn
  <2>2. /\ Max(new \cup {since}) \in Int /\ Max(new \cup {since}) <= now
        /\ since <= Max(new \cup {since}) /\ \A t \in new : t <= Max(new \cup {since})
    <3> DEFINE all == new \cup {since}
    <3>1. all \in SUBSET Int /\ all # {} /\ \A y \in all : y <= now
      BY <1>2, <1>3, <1>4
    <3>2. now \in Int /\ since \in all /\ new \subseteq all
      BY <1>2
    <3> HIDE DEF all
    <3>3. Max(all) \in all /\ \A y \in all : y <= Max(all)
      BY <3>1, <3>2, Latest
    <3>4. Max(all) \in Int /\ Max(all) <= now /\ since <= Max(all) /\ \A t \in new : t <= Max(all)
      BY <3>1, <3>2, <3>3
    <3> QED BY <3>4 DEF all
  <2>3. /\ cursor' \in [{"log", "events"} -> Int \cup {None}] /\ cursor'["log"] = cursor["log"]
        /\ cursor'["events"] = Max(new \cup {since})
    BY <1>2, <1>6, <2>2
  <2>4. Shapes'
    BY <1>1, <1>2, <2>1, <2>2, <2>3 DEF ScInv, Shapes, Cluster, Cursors
  <2>5. Counted' /\ PreviousRead' /\ (Seen => Seen')
    BY <1>1, <2>1, DueStays, ReadStaysRead DEF ScInv
  <2>6. LogRead'
    BY <1>1, <2>1, <2>3 DEF ScInv, LogRead
  <2>7. EventsRead'
    <3> SUFFICES ASSUME NEW t \in events PROVE EventAt(t) \in Known'
      BY <1>1 DEF EventsRead
    <3>1. t \in Int
      BY <1>2
    <3>2. CASE t > since
      BY <2>1, <3>2 DEF more, EvaluateEvents
    <3>3. CASE t <= since /\ cursor["events"] # None /\ since = cursor["events"]
      <4>1. EventAt(t) \in Known
        BY <1>3, <3>1, <3>3 DEF ScInv, EventsRead
      <4> QED BY <2>1, <4>1
    <3>4. CASE t <= since /\ TooOld("events", events, x) = {u \in events : u <= since}
      BY <1>6, <3>4 DEF Known
    <3> QED BY <1>3, <3>1, <3>2, <3>3, <3>4
  <2>8. Once'
    <3>1. \A t \in Int : Past(t) => Past(t)'
      BY <1>1, <2>3 DEF Past, Later
    <3>2. \A t \in Int : EventAt(t) \in Live => EventAt(t) \notin more
      <4> SUFFICES ASSUME NEW t \in Int, EventAt(t) \in Live, EventAt(t) \in more PROVE FALSE
        OBVIOUS
      <4>1. t > since
        BY <1>4, AlertsDiffer DEF more
      <4>2. cursor["events"] # None /\ t <= cursor["events"] /\ cursor["events"] \in Int
        BY <1>2 DEF ScInv, Once
      <4> QED BY <1>3, <4>1, <4>2
    <3>3. \A a \in more : \E t \in new : a = EventAt(t)
      BY DEF more
    <3>4. told' \cap scan'["live"].got \subseteq repeats'
      <4>1. told \cap more = {}
        BY <1>4, <3>2, <3>3 DEF Live
      <4> QED BY <1>1, <2>1, <4>1 DEF Goes, ScInv, Once, Scans
    <3>5. \A r \in Int : Restart(r) \notin more /\ Line(r) \notin more
      BY <3>3, AlertsDiffer
    <3>6. \A t \in Int : EventAt(t) \in Live' => cursor'["events"] # None /\ t <= cursor'["events"]
      <4> SUFFICES ASSUME NEW t \in Int, EventAt(t) \in Live'
                   PROVE  cursor'["events"] # None /\ t <= cursor'["events"]
        OBVIOUS
      <4>1. cursor'["events"] # None
        BY <2>2, <2>3, ScanNumbers
      <4>2. CASE EventAt(t) \in Live
        <5>1. cursor["events"] # None /\ t <= cursor["events"] /\ cursor["events"] \in Int
          BY <1>2, <4>2 DEF ScInv, Once
        <5> QED BY <1>3, <2>2, <2>3, <4>1, <5>1
      <4>3. CASE EventAt(t) \in more
        <5>1. t \in new
          BY <3>3, <4>3, AlertsDiffer
        <5> QED BY <2>2, <2>3, <4>1, <5>1
      <4> QED BY <2>1, <4>2, <4>3
    <3> QED BY <1>1, <2>1, <3>1, <3>4, <3>5, <3>6 DEF ScInv, Once
  <2> QED BY <1>1, <2>4, <2>5, <2>6, <2>7, <2>8 DEF ScInv
<1>7. CASE scan' = [scan EXCEPT ![x].pc = "previous"] /\ UNCHANGED <<cursor, excused>>
  <2>1. /\ Goes(x, "previous", {}) /\ ScansOk' /\ Known \subseteq Known' /\ Live' \subseteq Live
    BY <1>1, <1>7, GoesEmpty
  <2> QED BY <1>1, <1>7, <2>1, ScanGoesOn
<1> QED BY <1>6, <1>7 DEF ReadEvents, SetCursor, since, new, more

\* The log of the run that ended: what is due is settled, and what is read of it is read
\* from two logs.
LEMMA PreviousIsRead ==
    ASSUME ScInv, NEW x \in Scans, ReadPrevious(x) PROVE ScInv'
<1> DEFINE found == Newest(Errors(box.last))
           more == Lines(found)
<1>1. /\ UNCHANGED <<now, box, events, cursor, baseline, told, looked>>
      /\ scan[x].pc = "previous"
  BY DEF ReadPrevious, cluster, Step
<1>2. /\ box.last \in SUBSET LineType /\ box.run \in Nat
      /\ scan[x].run \in 0 .. box.run /\ prevKey \in (0 .. box.run) \cup {None}
  BY DEF ScInv, Shapes, Cluster, Cursors, ScansOk, ScanType
<1>3. found \in SUBSET box.last
  BY DEF Newest, Errors
<1> HIDE DEF found
<1>4. more \in SUBSET Alerts /\ \A a \in more : \E t \in Int : a = Line(t)
  BY <1>2, <1>3, LinesOf
<1>5. CASE ~scan[x].previous /\ scan' = [scan EXCEPT ![x].pc = "log"] /\ UNCHANGED <<prevKey, excused, repeats>>
  <2>1. /\ Goes(x, "log", {}) /\ ScansOk' /\ Known \subseteq Known' /\ Live' \subseteq Live
    BY <1>1, <1>5, GoesEmpty
  <2> QED BY <1>1, <1>5, <2>1, ScanGoesOn DEF PreviousIsDue
<1>6. CASE /\ prevKey' = scan[x].run
           /\ \/ /\ scan' = [scan EXCEPT ![x].pc = "log", ![x].got = @ \cup more]
                 /\ excused' = excused \cup Lines(box.last \ found)
                 /\ repeats' = repeats \cup Lines(box.last)
              \/ /\ scan' = [scan EXCEPT ![x].pc = "log"]
                 /\ excused' = excused \cup Lines(box.last) /\ UNCHANGED repeats
  <2> HIDE DEF more
  <2> DEFINE extra == IF repeats' = repeats /\ scan' = [scan EXCEPT ![x].pc = "log"] THEN {} ELSE more
  <2>1. \E e \in {{}, more} :
           /\ Goes(x, "log", e) /\ ScansOk' /\ Known \subseteq Known' /\ e \subseteq Known'
           /\ Live' \subseteq Live \cup e /\ e \subseteq repeats'
           /\ Lines(box.last) \subseteq excused' \cup e
    <3>1. more \subseteq Lines(box.last) /\ Lines(box.last) \subseteq more \cup Lines(box.last \ found)
      BY <1>3, LinesSplit DEF more
    <3>2. CASE /\ scan' = [scan EXCEPT ![x].pc = "log", ![x].got = @ \cup more]
               /\ excused' = excused \cup Lines(box.last \ found)
               /\ repeats' = repeats \cup Lines(box.last)
      <4>1. /\ Goes(x, "log", more) /\ ScansOk' /\ Known \subseteq Known' /\ more \subseteq Known'
            /\ Live' \subseteq Live \cup more
        BY <1>1, <1>4, <3>2, GoesOn
      <4> QED BY <3>1, <3>2, <4>1
    <3>3. CASE /\ scan' = [scan EXCEPT ![x].pc = "log"]
               /\ excused' = excused \cup Lines(box.last) /\ UNCHANGED repeats
      <4>1. /\ Goes(x, "log", {}) /\ ScansOk' /\ Known \subseteq Known' /\ Live' \subseteq Live
        BY <1>1, <3>3, GoesEmpty
      <4> QED BY <3>3, <4>1
    <3> QED BY <1>6, <3>2, <3>3
  <2>2. PICK e \in {{}, more} :
           /\ Goes(x, "log", e) /\ ScansOk' /\ Known \subseteq Known' /\ e \subseteq Known'
           /\ Live' \subseteq Live \cup e /\ e \subseteq repeats'
           /\ Lines(box.last) \subseteq excused' \cup e
    BY <2>1
  <2>3. Seen'
    BY <1>1, <2>2 DEF Seen, Known, Lines
  <2>4. Shapes'
    BY <1>1, <1>2, <1>6, <2>2 DEF ScInv, Shapes, Cluster, Cursors
  <2>5. Counted' /\ LogRead' /\ EventsRead'
    BY <1>1, <2>2, ReadStaysRead DEF ScInv
  <2>6. Once'
    <3>1. repeats \subseteq repeats'
      BY <1>6
    <3>2. \A t \in Int : Past(t) => Past(t)'
      BY <1>1 DEF Past, Later
    <3>3. \A r \in Int : Restart(r) \notin e /\ EventAt(r) \notin e
      BY <1>4, AlertsDiffer
    <3>4. told' \cap scan'["live"].got \subseteq repeats'
      BY <1>1, <2>2, <3>1 DEF Goes, ScInv, Once, Scans
    <3>5. \A t \in Int : Line(t) \in Live' => Line(t) \in repeats' \/ Past(t)'
      BY <2>2, <3>1, <3>2 DEF ScInv, Once
    <3> QED BY <1>1, <2>2, <3>3, <3>4, <3>5 DEF ScInv, Once
  <2> QED BY <2>3, <2>4, <2>5, <2>6 DEF ScInv, PreviousRead
<1> QED BY <1>5, <1>6 DEF ReadPrevious, found, more

\* A log is cut short exactly when it has more lines than fit.
LEMMA HeadIsAll ==
    ASSUME NEW log \in SUBSET LineType, IsFiniteSet(log), NEW b \in Int,
           \A l \in log : l.at <= b
    PROVE  OldestLines(log) # log <=> Cardinality(log) > Backlog
<1> DEFINE upTo(l) == {k \in log : k.at <= l.at}
<1>1. OldestLines(log) = {l \in log : Cardinality(upTo(l)) <= Backlog}
  BY DEF OldestLines
<1>2. Cardinality(log) \in Nat /\ \A l \in log : Cardinality(upTo(l)) \in Nat /\ Cardinality(upTo(l)) <= Cardinality(log)
  <2> SUFFICES ASSUME NEW l \in log
               PROVE  Cardinality(upTo(l)) \in Nat /\ Cardinality(upTo(l)) <= Cardinality(log)
    BY FS_CardinalityType
  <2>1. upTo(l) \in SUBSET log
    OBVIOUS
  <2> HIDE DEF upTo
  <2> QED BY <2>1, FS_Subset, FS_CardinalityType
<1>3. ASSUME OldestLines(log) # log PROVE Cardinality(log) > Backlog
  <2>1. PICK l \in log : ~(Cardinality(upTo(l)) <= Backlog)
    BY <1>1, <1>3
  <2> QED BY <1>2, <2>1, ScanNumbers
<1>4. ASSUME Cardinality(log) > Backlog PROVE OldestLines(log) # log
  <2> DEFINE times == {l.at : l \in log}
  <2>1. log # {}
    <3>1. Cardinality({}) = 0
      BY FS_EmptySet
    <3> QED BY <1>4, <3>1, ScanNumbers
  <2>2. times \in SUBSET Int /\ times # {} /\ \A t \in times : t <= b
    BY <2>1 DEF LineType
  <2>3. PICK m \in times : \A t \in times : t <= m
    <3> HIDE DEF times
    <3> QED BY <2>2, Latest
  <2>4. PICK l \in log : l.at = m
    OBVIOUS
  <2>5. upTo(l) = log
    BY <2>3, <2>4
  <2> QED BY <1>1, <1>2, <1>4, <2>5, ScanNumbers
<1> QED BY <1>3, <1>4

\* The log: all of it that was not told is held or excused, and what is behind the cursor
\* is not read again without a backlog.
LEMMA LogIsRead ==
    ASSUME ScInv, NEW x \in Scans, ReadLog(x) PROVE ScInv'
<1> DEFINE since == FreshCursor("log", scan[x].from)
           new == ScanLogLines(box.log, since)
           read == OldestLines(new)
           found == Newest(Errors(read))
           times == {k.at : k \in box.log}
           old == {l \in box.log : l.at \in TooOld("log", times, x)}
           more == Lines(found)
           ats == {l.at : l \in read} \cup {since}
<1>1. UNCHANGED <<now, box, events, prevKey, baseline, told>> /\ scan[x].pc = "log"
  BY DEF ReadLog, cluster, Step
<1>2. /\ cursor \in [{"log", "events"} -> Int \cup {None}] /\ now \in Nat
      /\ box.log \in SUBSET LineType /\ IsFiniteSet(box.log)
      /\ \A l \in box.log : l.at \in Nat /\ l.at <= now
      /\ scan[x].from \in Nat /\ scan[x].from <= now
  BY DEF ScInv, Shapes, Cluster, Cursors, ScansOk, ScanType, LineType
<1>3. looked' => looked \/ Seen
  <2> SUFFICES ASSUME looked', ~looked PROVE Seen
    OBVIOUS
  <2>1. /\ scan[x].run = box.run /\ ~box.waiting
        /\ \A y \in DOMAIN scan \ {x} : ~PreviousIsDue(scan[y])
    BY DEF ReadLog
  <2>2. DOMAIN scan = Scans
    BY DEF ScInv, Shapes, ScansOk
  <2>3. baseline = box.run
    BY <1>1, <2>1 DEF ScInv, Shapes, ScansOk
  <2>4. \A y \in Scans : ~DueIn(y)
    BY <1>1, <2>1, <2>2 DEF DueIn, PreviousIsDue
  <2> QED BY <2>1, <2>3, <2>4 DEF ScInv, PreviousRead
<1>4. CASE scan' = [scan EXCEPT ![x].pc = "end"] /\ UNCHANGED <<cursor, excused, repeats>>
  <2>1. /\ Goes(x, "end", {}) /\ ScansOk' /\ Known \subseteq Known' /\ Live' \subseteq Live
    BY <1>1, <1>4, GoesEmpty
  <2> QED BY <1>1, <1>3, <1>4, <2>1, ScanGoesOn DEF PreviousIsDue
<1>5. CASE /\ scan' = [scan EXCEPT ![x].pc = "end", ![x].got = @ \cup more]
           /\ cursor' = [cursor EXCEPT !["log"] = IF read = new THEN Max(ats) ELSE scan[x].from]
           /\ excused' = excused \cup Lines(old) \cup Lines(read \ found)
                         \cup (IF read = new THEN {} ELSE Lines(new))
           /\ repeats' = IF read = new THEN repeats ELSE repeats \cup Lines(new)
  <2>1. /\ since \in Int /\ since <= now /\ (cursor["log"] # None => cursor["log"] <= since)
        /\ \/ cursor["log"] # None /\ since = cursor["log"]
           \/ TooOld("log", times, x) = {t \in times : t <= since}
    <3>1. times \in SUBSET Int
      BY <1>2
    <3> HIDE DEF times
    <3> QED BY <3>1, SinceIsLate DEF ScInv
  <2> HIDE DEF since
  <2>2. new = {l \in box.log : l.at > since}
    BY DEF ScanLogLines
  <2> HIDE DEF new
  <2>3. read \in SUBSET new
    BY DEF OldestLines
  <2>4. IsFiniteSet(new) /\ new \in SUBSET LineType /\ (read # new <=> Cardinality(new) > Backlog)
    <3>1. IsFiniteSet(new) /\ new \in SUBSET LineType /\ now \in Int /\ \A l \in new : l.at <= now
      BY <1>2, <2>2, FS_Subset
    <3> QED BY <3>1, HeadIsAll
  <2> HIDE DEF read
  <2>5. found \in SUBSET read
    BY DEF Newest, Errors
  <2> HIDE DEF found, times
  <2>6. /\ more \in SUBSET Alerts
        /\ \A t \in Int : Line(t) \in more => \E l \in new : l.error /\ l.at = t /\ l \in read
        /\ \A a \in more : \E t \in Int : a = Line(t)
        /\ \A t \in Int : EventAt(t) \notin more /\ Restart(t) \notin more
    <3>1. found \in SUBSET LineType /\ found \subseteq new /\ found \subseteq read
      BY <2>3, <2>4, <2>5
    <3> QED BY <3>1, LinesOf
  <2>7. \A l \in read : l.error => Line(l.at) \in more \cup Lines(read \ found)
    BY <2>5 DEF Lines
  <2>8. \A l \in new : l.error => Line(l.at) \in Lines(new)
    BY DEF Lines
  <2>9. \A l \in old : l.error => Line(l.at) \in Lines(old)
    BY DEF Lines
  <2> HIDE DEF more
  <2>10. /\ Goes(x, "end", more) /\ ScansOk' /\ Known \subseteq Known' /\ more \subseteq Known'
         /\ Live' \subseteq Live \cup (IF x = "live" THEN more ELSE {})
    BY <1>1, <1>5, <2>6, GoesOn
  <2>11. /\ read = new => /\ Max(ats) \in Int /\ Max(ats) <= now /\ since <= Max(ats)
                          /\ \A l \in new : l.at <= Max(ats)
    <3>1. ats \in SUBSET Int /\ ats # {} /\ (\A y \in ats : y <= now) /\ now \in Int
      BY <1>2, <2>1, <2>2, <2>3
    <3>2. since \in ats /\ \A l \in read : l.at \in ats
      OBVIOUS
    <3> HIDE DEF ats
    <3>3. Max(ats) \in ats /\ \A y \in ats : y <= Max(ats)
      BY <3>1, Latest
    <3> QED BY <3>1, <3>2, <3>3
  <2> HIDE DEF ats
  <2>12. /\ cursor' \in [{"log", "events"} -> Int \cup {None}] /\ cursor'["events"] = cursor["events"]
         /\ cursor'["log"] = IF read = new THEN Max(ats) ELSE scan[x].from
         /\ cursor'["log"] \in Int /\ cursor'["log"] <= now /\ cursor'["log"] # None
    <3> DEFINE c == IF read = new THEN Max(ats) ELSE scan[x].from
    <3>1. c \in Int /\ c <= now /\ c # None
      BY <1>2, <2>11, ScanNumbers
    <3>2. cursor' = [cursor EXCEPT !["log"] = c]
      BY <1>5
    <3> HIDE DEF c
    <3>3. cursor' \in [{"log", "events"} -> Int \cup {None}] /\ cursor'["events"] = cursor["events"] /\ cursor'["log"] = c
      BY <1>2, <3>1, <3>2
    <3> QED BY <3>1, <3>3 DEF c
  <2>13. Shapes'
    <3>1. Cluster'
      BY <1>1 DEF ScInv, Shapes, Cluster
    <3>2. Cursors'
      BY <1>1, <2>12 DEF ScInv, Shapes, Cursors
    <3> QED BY <2>10, <3>1, <3>2 DEF Shapes
  <2>14. Counted' /\ PreviousRead' /\ (Seen => Seen')
    BY <1>1, <2>10, DueStays, ReadStaysRead DEF ScInv, PreviousIsDue
  <2>15. EventsRead'
    BY <1>1, <2>10, <2>12 DEF ScInv, EventsRead
  <2>16. LogRead'
    <3> SUFFICES ASSUME NEW l \in box.log, l.error PROVE Line(l.at) \in Known'
      BY <1>1 DEF LogRead
    <3>1. CASE l.at > since
      <4>1. l \in new
        BY <2>2, <3>1
      <4>2. CASE read # new
        BY <1>5, <2>8, <4>1, <4>2 DEF Known
      <4>3. CASE read = new
        BY <1>5, <2>7, <2>10, <4>1, <4>3 DEF Known
      <4> QED BY <4>2, <4>3
    <3>2. CASE l.at <= since /\ cursor["log"] # None /\ since = cursor["log"]
      <4>1. Line(l.at) \in Known
        BY <1>2, <2>1, <3>2 DEF ScInv, LogRead
      <4> QED BY <2>10, <4>1
    <3>3. CASE l.at <= since /\ TooOld("log", times, x) = {t \in times : t <= since}
      <4>1. l \in old
        BY <3>3 DEF times
      <4> QED BY <1>5, <2>9, <4>1 DEF Known
    <3> QED BY <1>2, <2>1, <3>1, <3>2, <3>3
  <2>17. repeats \subseteq repeats' /\ (read # new => Lines(new) \subseteq repeats')
    BY <1>5
  <2>18. ASSUME NEW t \in Int, Line(t) \in Live, Line(t) \in more PROVE Line(t) \in repeats'
    <3>1. PICK l \in new : l.error /\ l.at = t
      BY <2>6, <2>18
    <3>2. l \in box.log /\ t > since
      BY <2>2, <3>1
    <3>3. CASE Line(t) \in repeats
      BY <2>17, <3>3
    <3>4. CASE Past(t)
      <4>1. ~(t <= cursor["log"])
        BY <1>2, <2>1, <3>2, <3>4 DEF Past
      <4>2. Cardinality(Later(t)) > Backlog
        BY <3>1, <3>2, <3>4, <4>1 DEF Past
      <4>3. Later(t) \subseteq new
        BY <1>2, <2>1, <2>2, <3>2 DEF Later
      <4>4. Cardinality(Later(t)) <= Cardinality(new) /\ Cardinality(Later(t)) \in Nat /\ Cardinality(new) \in Nat
        BY <2>4, <4>3, FS_Subset, FS_CardinalityType
      <4>5. read # new
        BY <2>4, <4>2, <4>4, ScanNumbers
      <4> QED BY <2>8, <2>17, <3>1, <4>5
    <3> QED BY <2>18, <3>3, <3>4 DEF ScInv, Once
  <2>19. ASSUME NEW t \in Int, Past(t) PROVE Past(t)'
    <3>1. CASE t <= cursor["log"] /\ read = new
      <4>1. cursor["log"] \in Int /\ cursor["log"] <= since
        BY <1>2, <2>1, <2>19 DEF Past
      <4>2. t <= cursor'["log"]
        BY <2>1, <2>11, <2>12, <3>1, <4>1
      <4> QED BY <2>12, <4>2 DEF Past
    <3>2. CASE t <= cursor["log"] /\ read # new
      <4>1. cursor["log"] \in Int /\ cursor["log"] <= since
        BY <1>2, <2>1, <2>19 DEF Past
      <4>2. new \subseteq Later(t) /\ Later(t) \subseteq box.log
        BY <1>2, <2>1, <2>2, <3>2, <4>1 DEF Later
      <4>3. IsFiniteSet(Later(t))
        BY <1>2, <4>2, FS_Subset
      <4>4. Cardinality(new) <= Cardinality(Later(t)) /\ Cardinality(Later(t)) \in Nat /\ Cardinality(new) \in Nat
        BY <2>4, <4>2, <4>3, FS_Subset, FS_CardinalityType
      <4>5. Cardinality(Later(t)) > Backlog
        BY <2>4, <3>2, <4>4, ScanNumbers
      <4> QED BY <1>1, <2>12, <4>5 DEF Past, Later
    <3>3. CASE \/ Cardinality(Later(t)) > Backlog
               \/ t < now /\ \A k \in box.log : k.at # t
      BY <1>1, <2>12, <3>3 DEF Past, Later
    <3> QED BY <2>19, <3>1, <3>2, <3>3 DEF Past
  <2>20. Once'
    <3>1. told' \cap scan'["live"].got \subseteq repeats'
      <4>1. CASE x = "live"
        <5>1. scan'["live"].got = scan["live"].got \cup more
          BY <2>10, <4>1 DEF Goes
        <5>2. told \cap more \subseteq repeats'
          BY <2>6, <2>18 DEF Live
        <5> QED BY <1>1, <2>17, <5>1, <5>2 DEF ScInv, Once
      <4>2. CASE x # "live"
        BY <1>1, <2>10, <2>17, <4>2 DEF Goes, ScInv, Once, Scans
      <4> QED BY <4>1, <4>2
    <3>2. ASSUME NEW t \in Int, Line(t) \in Live' PROVE Line(t) \in repeats' \/ Past(t)'
      <4>1. CASE Line(t) \in Live
        BY <2>17, <2>19, <4>1 DEF ScInv, Once
      <4>2. CASE Line(t) \in more
        <5>1. PICK l \in new : l.error /\ l.at = t /\ l \in read
          BY <2>6, <4>2
        <5>2. CASE read = new
          <6>1. t <= cursor'["log"]
            BY <2>11, <2>12, <5>1, <5>2
          <6> QED BY <2>12, <6>1 DEF Past
        <5>3. CASE read # new
          BY <2>8, <2>17, <5>1, <5>3
        <5> QED BY <5>2, <5>3
      <4> QED BY <2>10, <3>2, <4>1, <4>2
    <3>3. \A t \in Int : (Restart(t) \in Live' => Restart(t) \in Live)
                        /\ (EventAt(t) \in Live' => EventAt(t) \in Live)
      BY <2>6, <2>10
    <3> QED BY <1>1, <2>12, <3>1, <3>2, <3>3 DEF ScInv, Once
  <2> QED BY <1>3, <2>13, <2>14, <2>15, <2>16, <2>20 DEF ScInv
<1> QED BY <1>4, <1>5 DEF ReadLog, SetCursor, since, new, read, found, times, old, more, ats

LEMMA ScanStutters == ASSUME ScInv, UNCHANGED scanVars PROVE ScInv'
<1>1. UNCHANGED <<now, box, events, cursor, prevKey, baseline, scan, told, excused, looked, repeats>>
  BY DEF scanVars
<1>2. Known' = Known
  BY <1>1 DEF Known
<1>3. Shapes'
  BY <1>1 DEF ScInv, Shapes, Cluster, Cursors, ScansOk
<1>4. Counted' /\ LogRead' /\ EventsRead' /\ (Seen => Seen')
  BY <1>1, <1>2, ReadStaysRead DEF ScInv
<1>5. PreviousRead'
  BY <1>1, <1>4 DEF ScInv, PreviousRead, DueIn, PreviousIsDue
<1>6. Once'
  BY <1>1 DEF ScInv, Once, Live, Past, Later
<1> QED BY <1>1, <1>3, <1>4, <1>5, <1>6 DEF ScInv

\* Every step of the cluster, the scans and the clock keeps it.
LEMMA ScanInvariant == ScanSpec => []ScInv
<1>1. ScanInit => ScInv
  BY ScanBegins
<1>2. ASSUME ScInv, ScanNext PROVE ScInv'
  <2>1. ASSUME NEW x \in {"live", "stray"},
               ReadPods(x) \/ ReadEvents(x) \/ ReadPrevious(x) \/ ReadLog(x)
        PROVE  ScInv'
    BY <1>2, <2>1, PodsAreRead, EventsAreRead, PreviousIsRead, LogIsRead DEF Scans
  <2> QED BY <1>2, <2>1, ClusterMoves, TicksMove DEF ScanNext
<1>3. ScInv /\ [ScanNext]_scanVars => ScInv'
  BY <1>2, ScanStutters
<1> QED BY <1>1, <1>3, PTL DEF ScanSpec

\* Every error line, restart and event that the scans have gone past is told, held by a scan, or
\* excused by a failure, a backlog, a limit or an age (watcher.ts:70-76, 110-123, 157-189,
\* cluster-scan.ts:137-145).
THEOREM NothingTheScansPassIsLost == ScanSpec => []NothingIsLost
<1>1. ScInv => NothingIsLost
  <2> SUFFICES ASSUME ScInv PROVE NothingIsLost
    OBVIOUS
  <2>1. baseline # None => {Restart(r) : r \in 1 .. baseline} \subseteq Known
    BY DEF ScInv, Counted
  <2>2. \A l \in Errors(box.log) :
           Line(l.at) \in Known \/ cursor["log"] = None \/ l.at > cursor["log"]
    BY DEF ScInv, LogRead, Errors
  <2>3. looked => Lines(box.last) \subseteq Known
    BY DEF ScInv, Seen
  <2>4. \A t \in events : EventAt(t) \in Known \/ cursor["events"] = None \/ t > cursor["events"]
    BY DEF ScInv, EventsRead
  <2> QED BY <2>1, <2>2, <2>3, <2>4 DEF NothingIsLost
<1> QED BY <1>1, ScanInvariant, PTL

\* A scan that hands over tells again only what was read from the log of a run that has ended too,
\* or after a backlog (log-scan.ts:160, watcher.ts:164-187).
THEOREM AlertsAreToldOnce == ScanSpec => NoLineIsToldTwice
<1>1. ScInv => (ScanHandsOver => told \cap scan["live"].got \subseteq repeats)
  BY DEF ScInv, Once
<1> QED BY <1>1, ScanInvariant, PTL DEF ScanSpec, NoLineIsToldTwice
===============================================================================

------------------------------- MODULE AlertScan -------------------------------
(***************************************************************************)
(* The scan of a namespace by AlertWatcher: the pods, the events, and the  *)
(* logs of one container, which crashes and is restarted; the cursors in   *)
(* the table alert_cursors, the restart counts in memory; scans that take  *)
(* too long and go on although the tick has given them up.                 *)
(*                                                                         *)
(* AlertManager has what follows: here an alert is told once it is handed  *)
(* to a cycle.  A line of a log and an event are known by their time; a    *)
(* line is an error or it is not.  A traceback is one line.                *)
(***************************************************************************)
EXTENDS Integers, FiniteSets, FiniteSetsExt

CONSTANTS
    Interval,       \* between two ticks; a scan may take two of them
    FloorAge,       \* two intervals
    StaleAfter,     \* ten intervals
    Backlog,        \* lines that fit in maxLogBytes
    MaxFindings,    \* maxFindingsPerContainer
    None,
    MaxTime,        \* bound: the clock
    MaxEvents       \* bound: lines, warnings, crashes and failures

ASSUME ScanAssumption ==
    /\ {Interval, FloorAge, StaleAfter, Backlog, MaxFindings, MaxTime, MaxEvents} \subseteq Nat \ {0}
    /\ FloorAge >= Interval /\ StaleAfter >= FloorAge
    /\ None \notin Int

VARIABLES
    now,
    box,        \* the container: restartCount, does it wait for its restart, the lines of
                \* its log, and of the log of the run that ended last
    events,     \* times of the warnings in the namespace
    cursor,     \* cursors of the log and of the events
    prevKey,    \* the restart count whose previous log was read
    baseline,   \* AlertWatcher.restarts
    next,       \* when the next tick is due
    scan,       \* the scan the tick waits for, and one it has given up
    told,       \* alerts handed over
    excused,    \* history: alerts that were not, for a reason
    looked,     \* history: did a scan read pods and logs since the last start?
    repeats,    \* history: lines that were read from two logs or after a backlog
    happened    \* bound

scanVars == <<now, box, events, cursor, prevKey, baseline, next, scan, told, excused, looked,
              repeats, happened>>
cluster == <<now, box, events>>
kept == <<cursor, prevKey>>

Line(t) == <<"line", t>>
EventAt(t) == <<"event", t>>
Restart(r) == <<"restart", r>>
Lines(log) == {Line(l.at) : l \in {x \in log : x.error}}

Idle == [pc |-> "idle", from |-> 0, run |-> 0, waiting |-> FALSE, previous |-> FALSE,
         got |-> {}]

\* The next tick is an interval after the end of this one.
Schedule == next' = now + Interval

SetCursor(s, time) == cursor' = [cursor EXCEPT ![s] = time]

Happens == happened < MaxEvents /\ happened' = happened + 1

ScanInit ==
    /\ now = 0 /\ events = {}
    /\ box = [run |-> 0, waiting |-> FALSE, log |-> {}, last |-> {}]
    /\ cursor = [s \in {"log", "events"} |-> None] /\ prevKey = None
    /\ baseline = None /\ next = 0
    /\ scan = [x \in {"live", "stray"} |-> Idle]
    /\ told = {} /\ excused = {} /\ looked = FALSE /\ repeats = {} /\ happened = 0

-------------------------------------------------------------------------------
(* The cluster *)

TimePasses ==
    /\ now < MaxTime /\ now' = now + 1
    /\ UNCHANGED <<box, events, kept, baseline, next, scan, told, excused, looked, repeats, happened>>

\* No line is as old as one that was read before it was written: its time has nine digits.
Writes(error) ==
    /\ Happens /\ ~box.waiting /\ cursor["log"] # now /\ \A l \in box.log : l.at # now
    /\ \A x \in DOMAIN scan : scan[x].pc # "idle" => scan[x].from # now
    /\ box' = [box EXCEPT !.log = @ \cup {[at |-> now, error |-> error]}]
    /\ UNCHANGED <<now, events, kept, baseline, next, scan, told, excused, looked, repeats>>

\* The time of an event has whole seconds: one that comes in the second of the last one
\* that was read is not seen.
Warns ==
    /\ Happens /\ now \notin events /\ events' = events \cup {now}
    /\ excused' = IF cursor["events"] = now THEN excused \cup {EventAt(now)} ELSE excused
    /\ UNCHANGED <<now, box, kept, baseline, next, scan, told, looked, repeats>>

\* The log before it is deleted, whether it was read or there was no time to.
Crashes ==
    /\ Happens /\ ~box.waiting
    /\ box' = [box EXCEPT !.waiting = TRUE, !.last = box.log]
    /\ excused' = IF looked THEN excused ELSE excused \cup Lines(box.last)
    /\ looked' = FALSE
    /\ UNCHANGED <<now, events, kept, baseline, next, scan, told, repeats>>

Restarts ==
    /\ box.waiting
    /\ box' = [box EXCEPT !.waiting = FALSE, !.run = @ + 1, !.log = {}]
    /\ UNCHANGED <<now, events, kept, baseline, next, scan, told, excused, looked, repeats, happened>>

-------------------------------------------------------------------------------
(* The scan *)

Step(x, pc) == scan[x].pc = pc

TickStarts ==
    /\ Step("live", "idle") /\ now >= next
    /\ scan' = [scan EXCEPT !["live"] = [Idle EXCEPT !.pc = "pods", !.from = now]]
    /\ next' = 0
    /\ UNCHANGED <<cluster, kept, baseline, told, excused, looked, repeats, happened>>

\* Restarts since the last look; the first look only counts.
Restarted == baseline # None /\ box.run > baseline

\* evaluatePods: a container that waits is an alert for as long as it does, and then its
\* restarts are not; other restarts since the last look are one alert.
PodAlerts ==
    IF Restarted /\ ~box.waiting THEN {Restart(r) : r \in baseline + 1 .. box.run} ELSE {}

\* The pods: what is wrong with them is found again by the next scan, restarts are not.
\* The log of the run before is to be read after a restart, or while a container that was
\* restarted waits for the next one, once for every count.
ReadPods(x) ==
    /\ Step(x, "pods")
    /\ scan' = [scan EXCEPT ![x] =
          [@ EXCEPT !.pc = "events", !.run = box.run, !.waiting = box.waiting,
                    !.got = PodAlerts,
                    !.previous = /\ Restarted \/ (box.waiting /\ box.run > 0)
                                 /\ prevKey # box.run]]
    /\ baseline' = box.run
    /\ excused' = excused
          \cup (IF baseline = None \/ (x = "stray" /\ Restarted) THEN Lines(box.last) ELSE {})
          \cup (IF baseline = None \/ box.waiting THEN {Restart(r) : r \in 1 .. box.run} ELSE {})
    /\ UNCHANGED <<cluster, kept, next, told, looked, repeats, happened>>

\* Mutant: the time to go back to is one interval ago.
FreshCursorShort(s, from) ==
    IF cursor[s] = None \/ from - cursor[s] > StaleAfter THEN from - Interval ELSE cursor[s]

\* Where to read from: the cursor, unless there is none or it is too old.
FreshCursor(s, from) ==
    IF cursor[s] = None \/ from - cursor[s] > StaleAfter THEN from - FloorAge ELSE cursor[s]

\* Without a cursor that is fresh, what was older than two intervals when the scan began.
TooOld(s, times, x) ==
    IF cursor[s] # None /\ scan[x].from - cursor[s] <= StaleAfter THEN {}
    ELSE {t \in times : t <= scan[x].from - FloorAge}

EvaluateEvents(since) == {t \in events : t > since}

\* kubectl may fail, then nothing is read and the cursor stays.
ReadEvents(x) ==
    /\ Step(x, "events")
    /\ LET since == FreshCursor("events", scan[x].from)
           new == EvaluateEvents(since)
       IN  \/ /\ scan' = [scan EXCEPT ![x].pc = "previous",
                                      ![x].got = @ \cup {EventAt(t) : t \in new}]
              /\ SetCursor("events", Max(new \cup {since}))
              /\ excused' = excused \cup {EventAt(t) : t \in TooOld("events", events, x)}
              /\ UNCHANGED happened
           \/ Happens /\ scan' = [scan EXCEPT ![x].pc = "previous"] /\ UNCHANGED <<cursor, excused>>
    /\ UNCHANGED <<cluster, prevKey, baseline, next, told, looked, repeats>>

Newest(log) == {l \in log : Cardinality({k \in log : k.at >= l.at}) <= MaxFindings}

Errors(log) == {l \in log : l.error}

\* kubectl logs --previous: all of it, and only the newest findings count.  The count is
\* noted whether or not it could be read.
ReadPrevious(x) ==
    /\ Step(x, "previous")
    /\ LET found == Newest(Errors(box.last))
       IN  IF ~scan[x].previous
           THEN /\ scan' = [scan EXCEPT ![x].pc = "log"]
                /\ UNCHANGED <<prevKey, excused, repeats, happened>>
           ELSE /\ prevKey' = scan[x].run
                /\ \/ /\ scan' = [scan EXCEPT ![x].pc = "log", ![x].got = @ \cup Lines(found)]
                      /\ excused' = excused \cup Lines(box.last \ found)
                      /\ repeats' = repeats \cup Lines(box.last) /\ UNCHANGED happened
                   \/ /\ Happens /\ scan' = [scan EXCEPT ![x].pc = "log"]
                      /\ excused' = excused \cup Lines(box.last) /\ UNCHANGED repeats
    /\ UNCHANGED <<cluster, cursor, baseline, next, told, looked>>

\* Mutant: a line as old as the cursor is read again.
ScanLogLinesFrom(log, since) == {l \in log : l.at >= since}

\* scanLogLines leaves out what is not newer than the cursor.
ScanLogLines(log, since) == {l \in log : l.at > since}

\* What kubectl gives of a log under --limit-bytes: the oldest lines.
OldestLines(log) == {l \in log : Cardinality({k \in log : k.at <= l.at}) <= Backlog}

PreviousIsDue(s) == s.previous /\ s.pc \in {"events", "previous"}

\* The log of a container that runs.  After a backlog the cursor goes to where the scan
\* began, else to the last line.
ReadLog(x) ==
    /\ Step(x, "log")
    /\ LET since == FreshCursor("log", scan[x].from)
           new == ScanLogLines(box.log, since)
           read == OldestLines(new)
           found == Newest(Errors(read))
           old == {l \in box.log : l.at \in TooOld("log", {k.at : k \in box.log}, x)}
       IN  \/ /\ ~scan[x].waiting
              /\ scan' = [scan EXCEPT ![x].pc = "end", ![x].got = @ \cup Lines(found)]
              /\ SetCursor("log", IF read = new THEN Max({l.at : l \in read} \cup {since})
                                             ELSE scan[x].from)
              /\ excused' = excused \cup Lines(old) \cup Lines(read \ found)
                            \cup (IF read = new THEN {} ELSE Lines(new))
              /\ repeats' = IF read = new THEN repeats ELSE repeats \cup Lines(new)
              /\ UNCHANGED happened
           \/ /\ IF scan[x].waiting THEN UNCHANGED happened ELSE Happens
              /\ scan' = [scan EXCEPT ![x].pc = "end"] /\ UNCHANGED <<cursor, excused, repeats>>
    /\ looked' = (looked \/ /\ scan[x].run = box.run /\ ~scan[x].waiting /\ ~box.waiting
                            /\ \A y \in DOMAIN scan \ {x} : ~PreviousIsDue(scan[y]))
    /\ UNCHANGED <<cluster, prevKey, baseline, next, told>>

\* The tick hands over what its scan found, and the next one is an interval away.
ScanHandsOver ==
    /\ Step("live", "end")
    /\ told' = told \cup scan["live"].got
    /\ scan' = [scan EXCEPT !["live"] = Idle] /\ Schedule
    /\ UNCHANGED <<cluster, kept, baseline, excused, looked, repeats, happened>>

\* What is lost with a scan: what it has, and the log of the run before, which no other
\* scan will read, since the restart was counted.
LostWith(s) ==
    s.got \cup IF PreviousIsDue(s) THEN Lines(box.last) ELSE {}

\* A scan throws, when the pods cannot be read or kubectl cannot be run: what it found is
\* dropped.
Throws ==
    /\ Happens /\ scan["live"].pc \notin {"idle", "end"}
    /\ excused' = excused \cup LostWith(scan["live"])
    /\ scan' = [scan EXCEPT !["live"] = Idle] /\ Schedule
    /\ UNCHANGED <<cluster, kept, baseline, told, looked, repeats>>

\* A tick gives up a scan after two intervals; the scan goes on.  Bound: one at a time.
TimesOut ==
    /\ Happens /\ scan["live"].pc \notin {"idle", "end"} /\ now >= scan["live"].from + 2 * Interval
    /\ Step("stray", "idle")
    /\ scan' = [x \in {"live", "stray"} |-> IF x = "stray" THEN scan["live"] ELSE Idle]
    /\ excused' = excused \cup LostWith(scan["live"]) /\ Schedule
    /\ UNCHANGED <<cluster, kept, baseline, told, looked, repeats>>

\* Nobody waits for what it found.
StrayEnds ==
    /\ Step("stray", "end")
    /\ excused' = excused \cup scan["stray"].got
    /\ scan' = [scan EXCEPT !["stray"] = Idle]
    /\ UNCHANGED <<cluster, kept, baseline, next, told, looked, repeats, happened>>

\* The process dies and starts again: the cursors are left.
Dies ==
    /\ Happens /\ excused' = excused \cup scan["live"].got \cup scan["stray"].got
    /\ scan' = [x \in {"live", "stray"} |-> Idle]
    /\ baseline' = None /\ next' = now
    /\ UNCHANGED <<cluster, kept, told, looked, repeats>>

ScanNext ==
    \/ TimePasses \/ Warns \/ Crashes \/ Restarts
    \/ \E error \in BOOLEAN : Writes(error)
    \/ TickStarts \/ ScanHandsOver \/ Throws \/ TimesOut \/ StrayEnds \/ Dies
    \/ \E x \in {"live", "stray"} :
         ReadPods(x) \/ ReadEvents(x) \/ ReadPrevious(x) \/ ReadLog(x)

ScanSpec == ScanInit /\ [][ScanNext]_scanVars

-------------------------------------------------------------------------------
(* Properties *)

Known == told \cup excused \cup scan["live"].got \cup scan["stray"].got

\* Every error in the log, every restart and every event is told, or a scan has it, or a
\* later one will find it, unless there was a reason: a scan that failed, was given up or
\* died with it, a backlog, too many findings, a restart that no scan could notice or two
\* between scans, more than two intervals without a scan of the log, or an event in the
\* second of the cursor (watcher.ts:70-76, 110-123, 157-189, cluster-scan.ts:137-145).
NothingIsLost ==
    /\ baseline # None => {Restart(r) : r \in 1 .. baseline} \subseteq Known
    /\ \A l \in Errors(box.log) :
          Line(l.at) \in Known \/ cursor["log"] = None \/ l.at > cursor["log"]
    /\ looked => Lines(box.last) \subseteq Known
    /\ \A t \in events : EventAt(t) \in Known \/ cursor["events"] = None \/ t > cursor["events"]

\* A line is told twice only when it is read from the log of a run that has ended too, or
\* after a backlog (log-scan.ts:160, watcher.ts:164-187).
NoLineIsToldTwice ==
    [][ScanHandsOver => told \cap scan["live"].got \subseteq repeats]_scanVars

===============================================================================

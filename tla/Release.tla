------------------------------- MODULE Release -------------------------------
(***************************************************************************)
(* Updating an installation: deploy/update.sh and deploy/install.sh swap   *)
(* the binary and restart the server, the server takes its process lock,   *)
(* opens the database and migrates it, and the offline state CLI backs up, *)
(* restores and migrates the same files.  Scripts, servers and the CLI are *)
(* separate processes; every one of them may die between two steps.        *)
(*                                                                         *)
(* The database is two files: main, and the write-ahead log with what was  *)
(* committed since the last checkpoint.  A database image is the sequence  *)
(* of its migrations and the set of its committed transactions.            *)
(***************************************************************************)
EXTENDS Integers, Sequences, FiniteSets

CONSTANTS
  Proc,        \* server processes that can exist at the same time
  Cli,         \* the process of the state CLI
  Nobody,      \* no process
  Schema,      \* Schema[v]: the number of migrations binary v knows
  Txn,         \* what servers commit
  Keep,        \* how many pre-migration backups are kept
  MaxEvents    \* bound on requests to scripts and CLI, deaths and recycled pids

Version == DOMAIN Schema
Missing == 0   \* no executable file: absent, or a copy that was cut short

ASSUME ReleaseAssumption ==
  /\ Schema \in Seq(Nat \ {0}) /\ Schema # << >>
  /\ Keep \in Nat \ {0} /\ MaxEvents \in Nat
  /\ Proc # {} /\ Cli \notin Proc /\ Nobody \notin Proc \cup {Cli}
  /\ Proc \cap {"absent", "dead", "foreign"} = {}

VARIABLES
  bin,      \* the executables current and previous, and source, the checkout
  systemd,  \* whether systemd runs the server; otherwise a script's nohup does
  want,     \* systemd was asked to keep the server running
  pid,      \* the process the pid file names
  proc,     \* servers and the CLI
  lock,     \* the lock file: absent, a server's, a dead or a foreign process's
  main, wal, \* the database
  backups,  \* the .bak files the migrations leave, newest first
  copies,   \* what else can be restored: snapshots and state backups
  script,   \* the update script
  acked,    \* transactions whose commit returned and that no restore took away
  harm,     \* restores that met a booting server, or died half way
  left      \* events that may still happen

vars == <<bin, systemd, want, pid, proc, lock, main, wal, backups, copies, script, acked, harm, left>>
disk == <<main, wal, backups, copies>>
db == <<main, wal, backups, copies, acked, harm>>
server == <<want, pid, proc, lock>>

Image == IF wal.on /\ wal.own THEN [log |-> wal.log, rows |-> wal.rows] ELSE [log |-> main.log, rows |-> main.rows]
Images == [log : {[i \in 1..n |-> i] : n \in 0..Schema[Len(Schema)]}, rows : SUBSET Txn]
Booting == {"lock", "open", "migrate", "apply"}
NoLog == [on |-> FALSE, own |-> TRUE, log |-> << >>, rows |-> {}]
Alive(p) == proc[p].st # "none"
Up == {p \in Proc : proc[p].st = "up"}
Open == {p \in Proc : proc[p].st \in {"migrate", "apply", "up", "stop"}}
Restoring == proc[Cli].st \in {"restore", "swapped"}
Gone == [st |-> "none", ver |-> 1, seen |-> 0, live |-> TRUE]
IdleScript == [pc |-> "idle", mode |-> "none", ver |-> 1]

Init ==
  /\ bin = [current |-> 1, previous |-> Missing, source |-> 1]
  /\ systemd \in BOOLEAN /\ want = systemd
  /\ pid = Nobody /\ proc = [p \in Proc \cup {Cli} |-> Gone] /\ lock = "absent"
  /\ main = [log |-> [i \in 1..Schema[1] |-> i], rows |-> {}, mixed |-> FALSE]
  /\ wal = NoLog
  /\ backups = << >> /\ copies = {} /\ acked = {} /\ harm = {}
  /\ script = IdleScript /\ left = MaxEvents

Event == left > 0 /\ left' = left - 1

-----------------------------------------------------------------------------
(* Processes *)

\* A process that ends in any way but a shutdown leaves its lock file behind.
LockAfter(P) == IF lock \in P THEN "dead" ELSE lock
\* SIGTERM: a serving process shuts down; the handler is not there before.
Terminated(P) ==
  [p \in DOMAIN proc |->
    IF p \in P /\ proc[p].st = "up" THEN [proc[p] EXCEPT !.st = "stop"]
    ELSE IF p \in P /\ proc[p].st \in Booting THEN Gone ELSE proc[p]]
Terminate(P) ==
  /\ proc' = Terminated(P)
  /\ lock' = LockAfter({p \in P : proc[p].st \in Booting})

NewPid == CHOOSE p \in Proc : ~Alive(p)
Spawned == IF bin.current = Missing THEN Gone ELSE [Gone EXCEPT !.st = "lock", !.ver = bin.current]

\* systemd starts the unit whenever it wants it and no process of it is left.
SystemdStarts ==
  /\ systemd /\ want /\ bin.current # Missing /\ \A p \in Proc : ~Alive(p)
  /\ proc' = [proc EXCEPT ![NewPid] = Spawned]
  /\ UNCHANGED <<bin, systemd, want, pid, lock, script, left>> /\ UNCHANGED db

OperatorStops ==
  /\ Event /\ script.pc = "idle" /\ (systemd => want) /\ want' = FALSE
  /\ Terminate(IF systemd THEN Proc ELSE Proc \cap {pid})
  /\ UNCHANGED <<bin, systemd, pid, script>> /\ UNCHANGED db

OperatorStarts ==
  /\ systemd /\ ~want /\ want' = TRUE
  /\ UNCHANGED <<bin, systemd, pid, proc, lock, script, left>> /\ UNCHANGED db

Exit(p) == proc' = [proc EXCEPT ![p] = Gone] /\ lock' = LockAfter({p})

LockIsForeign == lock = "foreign"   \* takes over from a process of its own
LockIsLive == lock \in Proc \cup {"foreign"}

TakeLock(p) ==
  /\ proc[p].st = "lock"
  /\ IF LockIsLive
     THEN Exit(p) /\ harm' = harm
     ELSE /\ lock' = p /\ proc' = [proc EXCEPT ![p].st = "open"]
          /\ harm' = IF Restoring THEN harm \cup {"race"} ELSE harm
  /\ UNCHANGED <<bin, systemd, want, pid, script, left, acked>> /\ UNCHANGED disk

\* new State: SQLite recovers whatever log lies next to the file, and the
\* migrations read which of them are applied.  A binary that knows fewer exits.
Opens(p) ==
  /\ main' = [main EXCEPT !.mixed = @ \/ (wal.on /\ ~wal.own)]
  /\ wal' = [wal EXCEPT !.own = TRUE]
OpenState(p) ==
  /\ proc[p].st = "open" /\ Opens(p)
  /\ LET n == Len(IF wal.on THEN wal.log ELSE main.log) IN
     IF Schema[proc[p].ver] < n
     THEN Exit(p)
     ELSE proc' = [proc EXCEPT ![p] = [@ EXCEPT !.st = "migrate", !.seen = n]] /\ UNCHANGED lock
  /\ UNCHANGED <<bin, systemd, want, pid, script, left, backups, copies, acked, harm>>

-----------------------------------------------------------------------------
(* Migrations, by a booting server or by the CLI *)

\* The checkpoint before the copy may find other connections in its way.
InMain == [log |-> main.log, rows |-> main.rows]
Checkpointed(x) ==
  {i \in {Image, InMain} :
     \/ i = Image /\ proc[x].live
     \/ i = InMain /\ (~proc[x].live \/ \E p \in Open \ {x} : proc[p].live)}
Pruned(s) == SubSeq(s, 1, IF Len(s) <= Keep THEN Len(s) ELSE Keep)

Backup(x) ==
  /\ proc[x].st = "migrate" /\ proc[x].seen < Schema[proc[x].ver]
  /\ \E i \in Checkpointed(x) :
       /\ backups' = Pruned(<<i>> \o backups)
       /\ IF i = Image
          THEN /\ main' = [main EXCEPT !.log = i.log, !.rows = i.rows]
               /\ wal' = NoLog
          ELSE UNCHANGED <<main, wal>>
  /\ proc' = [proc EXCEPT ![x].st = "apply"]
  /\ UNCHANGED <<bin, systemd, want, pid, lock, script, left, copies, acked, harm>>

LogAfterUnchecked(x) == Append(Image.log, proc[x].seen + 1)
\* Under the write lock a version a peer has applied since is not applied again.
LogAfter(x) == LET m == proc[x].seen + 1 IN
  IF \E i \in DOMAIN Image.log : Image.log[i] = m THEN Image.log ELSE Append(Image.log, m)

Apply(x) ==
  /\ proc[x].st = "apply"
  /\ wal' = IF proc[x].live THEN [on |-> TRUE, own |-> TRUE, log |-> LogAfter(x), rows |-> Image.rows] ELSE wal
  /\ proc' = [proc EXCEPT ![x] = [@ EXCEPT !.st = "migrate", !.seen = proc[x].seen + 1]]
  /\ UNCHANGED <<bin, systemd, want, pid, lock, script, left, main, backups, copies, acked, harm>>

\* Every pending migration is there before the server goes on.
Migrated(x) == proc[x].seen >= Schema[proc[x].ver]

Serve(p) ==
  /\ proc[p].st = "migrate" /\ Migrated(p)
  /\ proc' = [proc EXCEPT ![p].st = "up"]
  /\ UNCHANGED <<bin, systemd, want, pid, lock, script, left>> /\ UNCHANGED db

-----------------------------------------------------------------------------
(* Servers *)

\* SQLite checkpoints by itself when the log has grown long enough.
Fold(i) == main' = [main EXCEPT !.log = i.log, !.rows = i.rows] /\ wal' = NoLog
Commit(p) ==
  \E t \in Txn \ acked : LET i == [Image EXCEPT !.rows = @ \cup {t}] IN
    /\ p \in Up /\ acked' = acked \cup {t}
    /\ CASE ~proc[p].live -> UNCHANGED <<main, wal>>
         [] proc[p].live -> \/ wal' = [on |-> TRUE, own |-> TRUE, log |-> i.log, rows |-> i.rows] /\ UNCHANGED main
                            \/ Fold(i)
    /\ UNCHANGED <<bin, systemd, server, backups, copies, script, harm, left>>

\* Closing the last connection folds the log; a worker that is not drained
\* leaves the database open.  The lock is removed either way.
ShutDown(p) ==
  /\ proc[p].st = "stop" /\ proc' = [proc EXCEPT ![p] = Gone] /\ lock' = "absent"
  /\ \/ proc[p].live /\ wal.on /\ Open = {p} /\ ~Alive(Cli) /\ Fold(Image)
     \/ UNCHANGED <<main, wal>>
  /\ UNCHANGED <<bin, systemd, want, pid, backups, copies, script, acked, harm, left>>

\* Killed, or exit(1): also of a boot whose migration fails, whose transaction is
\* undone, or that finds its configuration invalid once the database is open.
Crash(p) ==
  /\ Event /\ Alive(p) /\ Exit(p)
  /\ UNCHANGED <<bin, systemd, want, pid, script>> /\ UNCHANGED db

\* The pid in a dead process's lock file is given to another program.
Recycled ==
  /\ Event /\ lock = "dead" /\ lock' = "foreign"
  /\ UNCHANGED <<bin, systemd, want, pid, proc, script>> /\ UNCHANGED db

-----------------------------------------------------------------------------
(* The scripts *)

Ends == script' = IdleScript
Goes(pc) == script' = [script EXCEPT !.pc = pc]
Starts(pc, mode, v) == script' = [pc |-> pc, mode |-> mode, ver |-> v]

\* update.sh: from source, the checkout is reset to the ref and built.  With a
\* fetch, a build or a --version probe that fails, and with --check, no more is done.
Update(v) ==
  /\ Event /\ script.pc = "idle" /\ bin' \in {bin, [bin EXCEPT !.source = v]}
  /\ Starts("save", "apply", v) \/ UNCHANGED script
  /\ UNCHANGED <<systemd, server>> /\ UNCHANGED db

\* snapshot_state copies the main file while the old server runs; then the
\* current binary is copied.
SavePrevious ==
  /\ script.pc = "save" /\ Goes("swap")
  /\ bin' = [bin EXCEPT !.previous = IF bin.current # Missing THEN bin.current ELSE @]
  /\ copies' = copies \cup {InMain}
  /\ UNCHANGED <<systemd, server, main, wal, backups, acked, harm, left>>

Swap ==
  /\ script.pc = "swap" /\ Goes("restart") /\ bin' = [bin EXCEPT !.current = script.ver]
  /\ UNCHANGED <<systemd, server, left>> /\ UNCHANGED db

\* update.sh --rollback
Rollback ==
  /\ Event /\ script.pc = "idle"
  /\ IF bin.previous = Missing THEN UNCHANGED script ELSE Starts("revert", "rollback", bin.previous)
  /\ UNCHANGED <<bin, systemd, server>> /\ UNCHANGED db

Revert ==
  /\ script.pc = "revert" /\ Goes("restart") /\ bin' = [bin EXCEPT !.current = bin.previous]
  /\ UNCHANGED <<systemd, server, left>> /\ UNCHANGED db

\* install.sh copies the binary of the release it comes with.
InstallsBinary(v) == bin' = [bin EXCEPT !.current = v, !.source = v]

\* bootstrap.sh and install.sh: neither snapshot nor previous binary.
Install(v) ==
  /\ Event /\ script.pc = "idle" /\ Starts("restart", "install", v)
  /\ InstallsBinary(v)
  /\ UNCHANGED <<systemd, server>> /\ UNCHANGED db

\* systemctl restart stops every process of the unit; without systemd only
\* the process of the pid file is stopped.
Signalled == IF systemd THEN Proc ELSE Proc \cap {pid}
\* Where there is systemd the unit is enabled and started, or restarted.
UnitIsWanted == want' = systemd
Restart ==
  /\ script.pc = "restart" /\ Goes("wait") /\ UnitIsWanted
  /\ Terminate(Signalled)
  /\ UNCHANGED <<bin, systemd, pid, left>> /\ UNCHANGED db

\* Without systemd: a new process, and its pid file.
StartsDirectly ==
  /\ \E p \in Proc : ~Alive(p)
  /\ proc' = [proc EXCEPT ![NewPid] = Spawned] /\ pid' = NewPid

\* systemd waits for the old process.  Without it ten seconds are waited for a
\* shutdown that may take thirty, and install.sh does not wait at all.
Restarted ==
  /\ script.pc = "wait" /\ Goes("health")
  /\ IF systemd
     THEN /\ \A p \in Proc : proc[p].st # "stop"
          /\ UNCHANGED <<pid, proc>>
     ELSE StartsDirectly
  /\ UNCHANGED <<bin, systemd, want, lock, left>> /\ UNCHANGED db

\* An update that is not answered in time goes back to the previous binary.
HealthCheck ==
  /\ script.pc = "health"
  /\ IF Up = {} /\ script.mode = "apply" /\ bin.previous # Missing
     THEN script' = [script EXCEPT !.pc = "revert", !.mode = "auto"]
     ELSE Ends
  /\ UNCHANGED <<bin, systemd, server, left>> /\ UNCHANGED db

\* The rename of an update is atomic; a copy that is cut short is no executable.
ScriptDies ==
  /\ Event /\ script.pc # "idle" /\ script' = IdleScript
  /\ \/ UNCHANGED bin
     \/ script.pc = "save" /\ bin' = [bin EXCEPT !.previous = Missing]
     \/ script.pc = "revert" /\ bin' = [bin EXCEPT !.current = Missing]
  /\ UNCHANGED <<systemd, server>> /\ UNCHANGED db

-----------------------------------------------------------------------------
(* The state CLI, which runs the checkout's code *)

CliIs(st, seen) == proc' = [proc EXCEPT ![Cli] = [st |-> st, ver |-> bin.source, seen |-> seen, live |-> TRUE]]

\* guardCold; --force is for a pid that is not the server's any more
Cold == ~LockIsLive \/ lock = "foreign"

CliBackup ==
  /\ Event /\ ~Alive(Cli) /\ Cold /\ ~(wal.on /\ ~wal.own)
  /\ copies' = copies \cup {Image}
  /\ UNCHANGED <<bin, systemd, server, main, wal, backups, script, acked, harm>>

\* state migrate asks for no lock.
CliMigrate ==
  /\ Event /\ ~Alive(Cli) /\ ~(wal.on /\ ~wal.own)
  /\ Len(Image.log) < Schema[bin.source] /\ CliIs("migrate", Len(Image.log))
  /\ UNCHANGED <<bin, systemd, want, pid, lock, script>> /\ UNCHANGED db

\* state restore: the guard is checked, then a copy of the source is migrated.
CliRestore ==
  /\ Event /\ ~Alive(Cli) /\ Cold /\ CliIs("restore", 0)
  /\ UNCHANGED <<bin, systemd, want, pid, lock, script>> /\ UNCHANGED db

\* The rename; a server that has the old file open keeps the old file.
Swapped(i) ==
  /\ main' = [log |-> [n \in 1..Schema[proc[Cli].ver] |-> n], rows |-> i.rows, mixed |-> FALSE]
  /\ wal' = [wal EXCEPT !.own = ~wal.on]
RestoreSwaps ==
  \E i \in copies \cup {backups[n] : n \in DOMAIN backups} :
    /\ proc[Cli].st = "restore" /\ Len(i.log) <= Schema[proc[Cli].ver] /\ Swapped(i)
    /\ acked' = acked \cap i.rows
    /\ proc' = [p \in DOMAIN proc |-> IF p = Cli THEN [proc[p] EXCEPT !.st = "swapped"]
                                       ELSE IF p \in Open THEN [proc[p] EXCEPT !.live = FALSE] ELSE proc[p]]
    /\ UNCHANGED <<bin, systemd, want, pid, lock, backups, copies, script, harm, left>>

\* The log next to the file is removed, whoever's it is by now.
SidecarsKept == wal
SidecarsAfter == NoLog
RestoreCleans ==
  /\ proc[Cli].st = "swapped" /\ wal' = SidecarsAfter
  /\ proc' = [p \in DOMAIN proc |-> IF p = Cli THEN Gone
                                     ELSE IF p \in Open THEN [proc[p] EXCEPT !.live = FALSE] ELSE proc[p]]
  /\ UNCHANGED <<bin, systemd, want, pid, lock, main, backups, copies, script, acked, harm, left>>

CliEnds ==
  /\ \/ proc[Cli].st = "migrate" /\ Migrated(Cli) /\ UNCHANGED <<left, harm>>
     \/ proc[Cli].st = "restore" /\ UNCHANGED <<left, harm>>
     \/ Event /\ Alive(Cli) /\ harm' = IF proc[Cli].st = "swapped" THEN harm \cup {"halfway"} ELSE harm
  /\ proc' = [proc EXCEPT ![Cli] = Gone]
  /\ UNCHANGED <<bin, systemd, want, pid, lock, script, acked>> /\ UNCHANGED disk

-----------------------------------------------------------------------------
Boots == \E p \in Proc : TakeLock(p) \/ OpenState(p) \/ Serve(p)
Migrates == \E x \in Proc \cup {Cli} : Backup(x) \/ Apply(x)
Next ==
  \/ SystemdStarts
  \/ \E p \in Proc : Commit(p) \/ ShutDown(p) \/ Crash(p)
  \/ Boots \/ Migrates \/ OperatorStops \/ OperatorStarts \/ Recycled
  \/ \E v \in Version : Update(v) \/ Install(v)
  \/ SavePrevious \/ Swap \/ Rollback \/ Revert \/ Restart \/ Restarted \/ HealthCheck \/ ScriptDies
  \/ CliBackup \/ CliMigrate \/ CliRestore \/ RestoreSwaps \/ RestoreCleans \/ CliEnds
Spec == Init /\ [][Next]_vars

-----------------------------------------------------------------------------
TypeOK ==
  /\ bin \in [current : Version \cup {Missing}, previous : Version \cup {Missing}, source : Version]
  /\ systemd \in BOOLEAN /\ want \in BOOLEAN /\ pid \in Proc \cup {Nobody}
  /\ proc \in [Proc \cup {Cli} -> [st : Booting \cup {"none", "up", "stop", "restore", "swapped"},
                                  ver : Version, seen : 0..Schema[Len(Schema)], live : BOOLEAN]]
  /\ lock \in Proc \cup {"absent", "dead", "foreign"}
  /\ Image \in Images /\ Image.rows \subseteq Txn /\ Len(backups) <= Keep
  /\ copies \subseteq Images /\ acked \subseteq Txn /\ harm \subseteq {"race", "halfway"}
  /\ script.pc \in {"idle", "save", "swap", "revert", "restart", "wait", "health"} /\ left \in 0..MaxEvents

\* The process lock: whatever the order in which servers are started, stopped
\* and killed, no two of them have the database open.
OneServer == Cardinality({p \in Proc : proc[p].st \in {"open", "migrate", "apply", "up", "stop"}}) <= 1

\* A commit that returned is in what the next boot reads, over deaths at every
\* step and over checkpoints, except where a restore put other rows in its place.
AckedSurvive == harm = {} => ~main.mixed /\ acked \subseteq Image.rows

\* A server that serves has every migration its binary knows, each of them was
\* applied once and in order, also when the CLI migrates at the same time.
ServesItsSchema ==
  /\ \A p \in Up : proc[p].live => Len(Image.log) >= Schema[proc[p].ver]
  /\ \A n \in DOMAIN Image.log : Image.log[n] = n

=============================================================================

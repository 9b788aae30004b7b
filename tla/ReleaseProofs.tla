----------------------------- MODULE ReleaseProofs -----------------------------
(***************************************************************************)
(* Releases, for any number of processes, versions and transactions: one   *)
(* server has the database open, what was acknowledged survives, and the   *)
(* schema is the one the server knows.                                     *)
(***************************************************************************)
EXTENDS Release, FiniteSetTheorems, TLAPS

Actor == Proc \cup {Cli}
HasDb == {"open", "migrate", "apply", "up", "stop"}

Process == [st : Booting \cup {"none", "up", "stop", "restore", "swapped"},
            ver : Version, seen : Nat, live : BOOLEAN]
Picture == [log : Seq(Nat), rows : SUBSET Txn]

Tools == /\ bin \in [current : Version \cup {Missing}, previous : Version \cup {Missing},
                     source : Version]
         /\ script \in [pc : {"idle", "save", "swap", "revert", "restart", "wait", "health"},
                        mode : {"none", "apply", "rollback", "install", "auto"},
                        ver : Version]

Files == /\ main \in [log : Seq(Nat), rows : SUBSET Txn, mixed : BOOLEAN]
         /\ wal \in [on : BOOLEAN, own : BOOLEAN, log : Seq(Nat), rows : SUBSET Txn]
         /\ backups \in Seq(Picture) /\ copies \subseteq Picture
         /\ acked \subseteq Txn

\* Whoever has the database open holds the process lock.
LockInv == \A p \in Proc : proc[p].st \in HasDb => lock = p

Straight(log) == \A n \in DOMAIN log : log[n] = n

\* Every migration was applied once and in order, also in a log nobody reads yet.
LogInv == Straight(main.log) /\ Straight(wal.log)

\* What a process has counted or counts on is in the database it has open.
CountInv == \A x \in Actor : proc[x].live = TRUE =>
    /\ proc[x].st \in {"migrate", "apply"} => proc[x].seen <= Len(Image.log)
    /\ proc[x].st = "up" => Schema[proc[x].ver] <= Len(Image.log)

\* A log of another database lies next to the file: nobody has this one open.
StrayLog == wal.on = TRUE /\ wal.own = FALSE
StrayInv == StrayLog => \A x \in Actor : proc[x].st \in {"migrate", "apply", "up"}
                                           => proc[x].live = FALSE

\* Unless a restore met a booting server or died half way: it is alone, only it
\* leaves a stray log, and every server writes to the database that will be read.
RestoreInv == harm = {} =>
    /\ Restoring => \A p \in Proc : proc[p].st \notin HasDb
    /\ StrayLog => proc[Cli].st = "swapped"
    /\ proc[Cli].st = "swapped" => wal.on = FALSE \/ wal.own = FALSE
    /\ \A p \in Open : proc[p].live = TRUE
    /\ main.mixed = FALSE /\ acked \subseteq Image.rows

\* A server that has not opened the database yet has no old file in its hands.
FreshInv == \A p \in Proc : proc[p].st \in {"none", "lock", "open"} => proc[p].live = TRUE

Inv == /\ proc \in [Actor -> Process] /\ Tools /\ Files
       /\ LockInv /\ FreshInv /\ LogInv /\ CountInv /\ StrayInv /\ RestoreInv

-------------------------------------------------------------------------------
(* The database, as it is read                                             *)

Mains == [log : Seq(Nat), rows : SUBSET Txn, mixed : BOOLEAN]
Wals == [on : BOOLEAN, own : BOOLEAN, log : Seq(Nat), rows : SUBSET Txn]

Read(m, w) == IF w.on /\ w.own THEN [log |-> w.log, rows |-> w.rows]
              ELSE [log |-> m.log, rows |-> m.rows]

LEMMA Reads ==
    ASSUME NEW m \in Mains, NEW w \in Wals
    PROVE  /\ Read(m, w) \in Picture
           /\ (w.on = TRUE /\ w.own = TRUE)
                => Read(m, w).log = w.log /\ Read(m, w).rows = w.rows
           /\ (w.on = FALSE \/ w.own = FALSE)
                => Read(m, w).log = m.log /\ Read(m, w).rows = m.rows
<1>1. CASE w.on = TRUE /\ w.own = TRUE
  <2>1. Read(m, w) = [log |-> w.log, rows |-> w.rows]
    BY <1>1 DEF Read
  <2>2. QED
    BY <1>1, <2>1 DEF Wals, Picture
<1>2. CASE w.on = FALSE \/ w.own = FALSE
  <2>1. Read(m, w) = [log |-> m.log, rows |-> m.rows]
    BY <1>2 DEF Read
  <2>2. QED
    BY <1>2, <2>1 DEF Mains, Picture
<1>3. QED
  BY <1>1, <1>2 DEF Wals

LEMMA ImageIsRead == Image = Read(main, wal) /\ Image' = Read(main', wal')
BY DEF Image, Read

LEMMA FilesAre == Files => main \in Mains /\ wal \in Wals
BY DEF Files, Mains, Wals

\* A fold keeps what is read.
LEMMA NoLogIs == NoLog \in Wals /\ NoLog.on = FALSE /\ NoLog.own = TRUE /\ Straight(NoLog.log)
<1>1. << >> \in Seq(Nat) /\ Straight(<< >>)
  BY DEF Straight
<1>2. QED
  BY <1>1 DEF NoLog, Wals

LEMMA Processes ==
    /\ Gone \in Process /\ Gone.st = "none" /\ Gone.live = TRUE
    /\ \A P \in [Actor -> Process] : \A x \in Actor :
         P[x] \in Process /\ Schema[P[x].ver] \in Nat
<1>1. 1 \in Version /\ \A v \in Version : Schema[v] \in Nat
  BY ReleaseAssumption DEF Version
<1>2. QED
  BY <1>1 DEF Gone, Process, Booting

-------------------------------------------------------------------------------
(* Steps that leave the database alone                                     *)

\* Processes end, are told to end, or have only just been started.
Ebbs(x) == \/ proc'[x] = proc[x]
           \/ proc'[x].st \in {"none", "lock"} /\ proc'[x].live = TRUE
           \/ /\ proc[x].st = "up" /\ proc'[x].st = "stop"
              /\ proc'[x].live = proc[x].live

LEMMA EbbSteps ==
    ASSUME Inv, UNCHANGED <<main, wal, backups, acked, harm>>,
           copies' \subseteq Picture, Tools',
           proc' \in [Actor -> Process], \A p \in Proc : Ebbs(p),
           proc'[Cli] = proc[Cli], LockInv'
    PROVE  Inv'
<1>1. Files' /\ LogInv' /\ Image' = Image /\ StrayLog' = StrayLog
  BY DEF Inv, Files, LogInv, Image, StrayLog
<1>2. CountInv'
  <2>1. ASSUME NEW x \in Actor, proc'[x].live = TRUE
        PROVE  /\ proc'[x].st \in {"migrate", "apply"} => proc'[x].seen <= Len(Image.log)
               /\ proc'[x].st = "up" => Schema[proc'[x].ver] <= Len(Image.log)
    BY <2>1 DEF Inv, CountInv, Ebbs, Actor
  <2>2. QED
    BY <1>1, <2>1 DEF CountInv
<1>3. StrayInv'
  <2>1. \A x \in Actor : proc'[x].st \in {"migrate", "apply", "up"}
                           => proc'[x] = proc[x]
    BY DEF Ebbs, Actor
  <2>2. QED
    BY <1>1, <2>1 DEF Inv, StrayInv
<1>4. RestoreInv'
  <2>1. /\ Restoring' = Restoring
        /\ \A p \in Proc : proc'[p].st \in HasDb => proc[p].st \in HasDb
        /\ \A p \in Proc : proc'[p].st \in {"migrate", "apply", "up", "stop"}
             => /\ proc[p].st \in {"migrate", "apply", "up", "stop"}
                /\ proc'[p].live = proc[p].live
    BY DEF Restoring, Ebbs, HasDb
  <2>2. QED
    BY <1>1, <2>1 DEF Inv, RestoreInv, Open
<1>5. FreshInv'
  BY DEF Inv, FreshInv, Ebbs
<1>6. QED
  BY <1>1, <1>2, <1>3, <1>4, <1>5 DEF Inv

\* Ended processes give up the lock, and no other loses it.
LEMMA TerminateSteps ==
    ASSUME Inv, NEW P \in SUBSET Proc, Terminate(P)
    PROVE  /\ proc' \in [Actor -> Process] /\ \A p \in Proc : Ebbs(p)
           /\ proc'[Cli] = proc[Cli] /\ LockInv'
<1>1. /\ proc \in [Actor -> Process] /\ proc' = Terminated(P) /\ DOMAIN proc = Actor
      /\ lock' = LockAfter({p \in P : proc[p].st \in Booting})
      /\ Cli \notin Proc /\ Gone \in Process /\ Gone.st = "none" /\ Gone.live = TRUE
  BY ReleaseAssumption, Processes DEF Inv, Terminate
<1>2. ASSUME NEW x \in Actor
      PROVE  /\ proc'[x] \in Process
             /\ \/ x \in P /\ proc[x].st = "up" /\ proc'[x] = [proc[x] EXCEPT !.st = "stop"]
                \/ x \in P /\ proc[x].st \in Booting /\ proc'[x] = Gone
                \/ ~(x \in P /\ proc[x].st \in Booting) /\ proc'[x] = proc[x]
  <2>1. proc'[x] = IF x \in P /\ proc[x].st = "up" THEN [proc[x] EXCEPT !.st = "stop"]
                   ELSE IF x \in P /\ proc[x].st \in Booting THEN Gone ELSE proc[x]
    BY <1>1 DEF Terminated
  <2>2. [proc[x] EXCEPT !.st = "stop"] \in Process /\ proc[x] \in Process
    BY <1>1 DEF Process
  <2>3. QED
    BY <1>1, <2>1, <2>2
<1>3. proc' \in [Actor -> Process]
  BY <1>1, <1>2 DEF Terminated
<1>4. \A p \in Proc : Ebbs(p)
  <2>1. ASSUME NEW p \in Proc PROVE Ebbs(p)
    <3>1. proc[p] \in Process
      BY <1>1 DEF Actor
    <3> DEFINE u == [proc[p] EXCEPT !.st = "stop"]
    <3>2. u.st = "stop" /\ u.live = proc[p].live
      BY <3>1 DEF Process
    <3>3. \/ proc[p].st = "up" /\ proc'[p] = u
          \/ proc'[p].st = "none" /\ proc'[p].live = TRUE
          \/ proc'[p] = proc[p]
      BY <1>1, <1>2 DEF Actor
    <3> HIDE DEF u
    <3>4. QED
      BY <3>2, <3>3 DEF Ebbs
  <2>2. QED
    BY <2>1
<1>5. proc'[Cli] = proc[Cli]
  BY <1>1, <1>2 DEF Actor
<1>6. LockInv'
  <2>1. ASSUME NEW p \in Proc, proc'[p].st \in HasDb
        PROVE  lock' = p
    <3>1. proc[p].st \in HasDb /\ ~(p \in P /\ proc[p].st \in Booting)
      <4>1. "up" \in HasDb /\ "up" \notin Booting /\ "none" \notin HasDb /\ p \in Actor
        BY DEF HasDb, Booting, Actor
      <4>2. QED
        BY <1>1, <1>2, <2>1, <4>1
    <3>2. lock = p
      BY <3>1 DEF Inv, LockInv
    <3>3. QED
      BY <1>1, <3>1, <3>2 DEF LockAfter
  <2>2. QED
    BY <2>1 DEF LockInv
<1>7. QED
  BY <1>3, <1>4, <1>5, <1>6

LEMMA ExitSteps ==
    ASSUME Inv, NEW p \in Proc, Exit(p)
    PROVE  /\ proc' \in [Actor -> Process] /\ \A q \in Proc : Ebbs(q)
           /\ proc'[Cli] = proc[Cli] /\ LockInv'
           /\ \A x \in Actor : x # p => proc'[x] = proc[x]
           /\ proc'[p].st = "none" /\ proc'[p].live = TRUE
<1>1. /\ proc \in [Actor -> Process] /\ proc' = [proc EXCEPT ![p] = Gone]
      /\ lock' = LockAfter({p}) /\ p \in Actor /\ p # Cli /\ Cli \in Actor
      /\ Gone \in Process /\ Gone.st = "none" /\ Gone.live = TRUE
  BY ReleaseAssumption, Processes DEF Inv, Exit, Actor
<1>2. /\ proc' \in [Actor -> Process] /\ proc'[p].st = "none" /\ proc'[p].live = TRUE
      /\ \A x \in Actor : x # p => proc'[x] = proc[x]
  BY <1>1
<1>3. \A q \in Proc : Ebbs(q)
  BY <1>2 DEF Ebbs, Actor
<1>4. LockInv'
  BY <1>1, <1>2 DEF Inv, LockInv, LockAfter, HasDb, Actor
<1>5. QED
  BY <1>1, <1>2, <1>3, <1>4

\* A process that is started is new: it has nothing open and is not the CLI.
LEMMA SpawnSteps ==
    ASSUME Inv, \E p \in Proc : ~Alive(p), proc' = [proc EXCEPT ![NewPid] = Spawned],
           UNCHANGED lock
    PROVE  /\ proc' \in [Actor -> Process] /\ \A p \in Proc : Ebbs(p)
           /\ proc'[Cli] = proc[Cli] /\ LockInv'
<1>1. NewPid \in Proc /\ NewPid # Cli
  BY ReleaseAssumption DEF NewPid
<1>2. Spawned \in Process /\ Spawned.st \in {"none", "lock"} /\ Spawned.live = TRUE
  <2>1. bin.current \in Version \cup {Missing}
    BY DEF Inv, Tools
  <2>2. QED
    BY <2>1, Processes DEF Spawned, Gone, Process, Booting
<1>3. /\ proc \in [Actor -> Process] /\ proc' \in [Actor -> Process]
      /\ proc'[NewPid] = Spawned
      /\ \A x \in Actor : x # NewPid => proc'[x] = proc[x]
  BY <1>1, <1>2 DEF Inv, Actor
<1> HIDE DEF NewPid
<1>4. \A p \in Proc : Ebbs(p)
  BY <1>2, <1>3 DEF Ebbs, Actor
<1>5. LockInv'
  BY <1>2, <1>3 DEF Inv, LockInv, HasDb, Actor
<1>6. QED
  BY <1>1, <1>3, <1>4, <1>5 DEF Actor

\* Every step of the scripts and of the operator, of systemd and of a process that
\* dies leaves the database as it is.
ScriptStep ==
    \/ SystemdStarts \/ OperatorStops \/ OperatorStarts \/ Recycled
    \/ \E p \in Proc : Crash(p)
    \/ \E v \in Version : Update(v) \/ Install(v)
    \/ SavePrevious \/ Swap \/ Rollback \/ Revert \/ Restart \/ Restarted
    \/ HealthCheck \/ ScriptDies \/ CliBackup

LEMMA ScriptSteps == ASSUME Inv, ScriptStep PROVE Inv'
<1>a. /\ proc \in [Actor -> Process] /\ Tools /\ copies \subseteq Picture
      /\ InMain \in Picture /\ Image \in Picture
  <2>1. main \in Mains /\ wal \in Wals
    BY FilesAre DEF Inv
  <2>2. InMain \in Picture
    BY <2>1 DEF InMain, Mains, Picture
  <2>3. Image \in Picture
    BY <2>1, Reads, ImageIsRead
  <2>4. QED
    BY <2>2, <2>3 DEF Inv, Files
<1>b. ASSUME UNCHANGED <<proc, lock>>
      PROVE  /\ proc' \in [Actor -> Process] /\ \A p \in Proc : Ebbs(p)
             /\ proc'[Cli] = proc[Cli] /\ LockInv'
  BY <1>b, <1>a DEF Ebbs, Inv, LockInv
<1>c. UNCHANGED <<bin, script>> => Tools'
  BY <1>a DEF Tools
<1>d. ASSUME NEW pc \in {"idle", "save", "swap", "revert", "restart", "wait", "health"},
             Goes(pc), UNCHANGED bin
      PROVE  Tools'
  BY <1>a, <1>d DEF Tools, Goes
<1>e. ASSUME UNCHANGED bin, Ends
      PROVE  Tools'
  BY <1>a, <1>e, Processes, ReleaseAssumption DEF Tools, Ends, IdleScript, Gone, Process
<1>1. CASE SystemdStarts
  <2>1. \E p \in Proc : ~Alive(p)
    BY <1>1, ReleaseAssumption DEF SystemdStarts
  <2>2. /\ proc' = [proc EXCEPT ![NewPid] = Spawned]
        /\ UNCHANGED <<bin, script, lock, main, wal, backups, copies, acked, harm>>
    BY <1>1 DEF SystemdStarts, db
  <2>3. QED
    BY <1>a, <1>c, <2>1, <2>2, SpawnSteps, EbbSteps
<1>2. CASE OperatorStops
  <2>1. PICK P \in SUBSET Proc : Terminate(P)
    BY <1>2 DEF OperatorStops
  <2>2. UNCHANGED <<bin, script, main, wal, backups, copies, acked, harm>>
    BY <1>2 DEF OperatorStops, db
  <2>3. QED
    BY <1>a, <1>c, <2>1, <2>2, TerminateSteps, EbbSteps
<1>3. CASE OperatorStarts
  <2>1. UNCHANGED <<proc, lock, bin, script, main, wal, backups, copies, acked, harm>>
    BY <1>3 DEF OperatorStarts, db
  <2>2. QED
    BY <1>a, <1>b, <1>c, <2>1, EbbSteps
<1>4. CASE Recycled
  <2>1. UNCHANGED <<proc, bin, script, main, wal, backups, copies, acked, harm>>
    BY <1>4 DEF Recycled, db
  <2>2. lock = "dead" /\ lock' = "foreign"
    BY <1>4 DEF Recycled
  <2>3. LockInv'
    BY <2>1, <2>2, ReleaseAssumption DEF Inv, LockInv
  <2>4. QED
    BY <1>a, <1>c, <2>1, <2>3, EbbSteps DEF Ebbs
<1>5. ASSUME NEW p \in Proc, Crash(p) PROVE Inv'
  <2>1. Exit(p) /\ UNCHANGED <<bin, script, main, wal, backups, copies, acked, harm>>
    BY <1>5 DEF Crash, db
  <2>2. QED
    BY <1>a, <1>c, <2>1, ExitSteps, EbbSteps
<1>6. ASSUME NEW v \in Version, Update(v) \/ Install(v) PROVE Inv'
  <2>1. UNCHANGED <<proc, lock, main, wal, backups, copies, acked, harm>>
    BY <1>6 DEF Update, Install, server, db
  <2>2. Tools'
    <3>1. bin' \in [current : Version \cup {Missing}, previous : Version \cup {Missing},
                    source : Version]
      BY <1>6, <1>a DEF Update, Install, InstallsBinary, Tools
    <3>2. script' \in {script, [pc |-> "save", mode |-> "apply", ver |-> v],
                       [pc |-> "restart", mode |-> "install", ver |-> v]}
      BY <1>6 DEF Update, Install, Starts
    <3>3. QED
      BY <1>a, <3>1, <3>2 DEF Tools
  <2>3. QED
    BY <1>a, <1>b, <2>1, <2>2, EbbSteps
<1>7. CASE SavePrevious
  <2>1. UNCHANGED <<proc, lock, main, wal, backups, acked, harm>>
    BY <1>7 DEF SavePrevious, server
  <2>2. copies' \subseteq Picture
    BY <1>7, <1>a DEF SavePrevious
  <2>3. Tools'
    <3>1. bin' \in [current : Version \cup {Missing}, previous : Version \cup {Missing},
                    source : Version]
      BY <1>7, <1>a DEF SavePrevious, Tools
    <3>2. script' = [script EXCEPT !.pc = "swap"]
      BY <1>7 DEF SavePrevious, Goes
    <3>3. QED
      BY <1>a, <3>1, <3>2 DEF Tools
  <2>4. QED
    BY <1>a, <1>b, <2>1, <2>2, <2>3, EbbSteps
<1>8. CASE Swap \/ Revert
  <2>1. UNCHANGED <<proc, lock, main, wal, backups, copies, acked, harm>>
    BY <1>8 DEF Swap, Revert, server, db
  <2>2. Tools'
    <3>1. bin' \in [current : Version \cup {Missing}, previous : Version \cup {Missing},
                    source : Version]
      BY <1>8, <1>a DEF Swap, Revert, Tools
    <3>2. script' = [script EXCEPT !.pc = "restart"]
      BY <1>8 DEF Swap, Revert, Goes
    <3>3. QED
      BY <1>a, <3>1, <3>2 DEF Tools
  <2>3. QED
    BY <1>a, <1>b, <2>1, <2>2, EbbSteps
<1>9. CASE Rollback
  <2>1. UNCHANGED <<bin, proc, lock, main, wal, backups, copies, acked, harm>>
    BY <1>9 DEF Rollback, server, db
  <2>2. Tools'
    <3>1. bin.previous # Missing => bin.previous \in Version
      BY <1>a DEF Tools
    <3>2. \/ script' = script
          \/ /\ bin.previous # Missing
             /\ script' = [pc |-> "revert", mode |-> "rollback", ver |-> bin.previous]
      BY <1>9 DEF Rollback, Starts
    <3>3. QED
      BY <1>a, <2>1, <3>1, <3>2 DEF Tools
  <2>3. QED
    BY <1>a, <1>b, <2>1, <2>2, EbbSteps
<1>10. CASE Restart
  <2>1. Signalled \in SUBSET Proc
    BY DEF Signalled
  <2>2. Terminate(Signalled) /\ Goes("wait")
        /\ UNCHANGED <<bin, main, wal, backups, copies, acked, harm>>
    BY <1>10 DEF Restart, db
  <2>3. QED
    BY <1>a, <1>d, <2>1, <2>2, TerminateSteps, EbbSteps
<1>11. CASE Restarted
  <2>1. Goes("health") /\ UNCHANGED <<bin, lock, main, wal, backups, copies, acked, harm>>
    BY <1>11 DEF Restarted, db
  <2>2. CASE UNCHANGED proc
    BY <1>a, <1>b, <1>d, <2>1, <2>2, EbbSteps
  <2>3. CASE StartsDirectly
    BY <1>a, <1>d, <2>1, <2>3, SpawnSteps, EbbSteps DEF StartsDirectly
  <2>4. QED
    BY <1>11, <2>2, <2>3 DEF Restarted
<1>12. CASE HealthCheck
  <2>1. UNCHANGED <<bin, proc, lock, main, wal, backups, copies, acked, harm>>
    BY <1>12 DEF HealthCheck, server, db
  <2>2. Tools'
    <3>1. CASE Ends
      BY <1>e, <2>1, <3>1
    <3>2. CASE script' = [script EXCEPT !.pc = "revert", !.mode = "auto"]
      BY <1>a, <2>1, <3>2 DEF Tools
    <3>3. QED
      BY <1>12, <3>1, <3>2 DEF HealthCheck
  <2>3. QED
    BY <1>a, <1>b, <2>1, <2>2, EbbSteps
<1>13. CASE ScriptDies
  <2>1. UNCHANGED <<proc, lock, main, wal, backups, copies, acked, harm>>
    BY <1>13 DEF ScriptDies, server, db
  <2>2. Tools'
    <3>1. bin' \in [current : Version \cup {Missing}, previous : Version \cup {Missing},
                    source : Version]
      BY <1>13, <1>a DEF ScriptDies, Tools
    <3>2. script' = IdleScript /\ 1 \in Version
      BY <1>13, Processes DEF ScriptDies, Gone, Process
    <3>3. QED
      BY <3>1, <3>2 DEF Tools, IdleScript
  <2>3. QED
    BY <1>a, <1>b, <2>1, <2>2, EbbSteps
<1>14. CASE CliBackup
  <2>1. UNCHANGED <<bin, script, proc, lock, main, wal, backups, acked, harm>>
    BY <1>14 DEF CliBackup, server
  <2>2. copies' \subseteq Picture
    BY <1>14, <1>a DEF CliBackup
  <2>3. QED
    BY <1>a, <1>b, <1>c, <2>1, <2>2, EbbSteps
<1>15. QED
  BY <1>1, <1>2, <1>3, <1>4, <1>5, <1>6, <1>7, <1>8, <1>9, <1>10, <1>11, <1>12,
     <1>13, <1>14
  DEF ScriptStep

-------------------------------------------------------------------------------
(* Steps of those who have the database open                               *)

\* A process that has the database open goes on, and what it counts is there.
Works(x) == /\ proc[x].st \in {"migrate", "apply"} /\ proc'[x].st \in {"migrate", "apply", "up"}
            /\ proc'[x].live = proc[x].live
            /\ proc[x].live = TRUE =>
                 /\ proc'[x].st \in {"migrate", "apply"} => proc'[x].seen <= Len(Image'.log)
                 /\ proc'[x].st = "up" => Schema[proc'[x].ver] <= Len(Image'.log)

LEMMA GrowSteps ==
    ASSUME Inv, Tools', Files', LogInv', LockInv', proc' \in [Actor -> Process],
           Len(Image.log) <= Len(Image'.log), StrayLog' => StrayLog, harm' = harm,
           main'.mixed = main.mixed,
           \A p \in Proc : Ebbs(p) \/ Works(p),
           proc'[Cli] = proc[Cli] \/ (Works(Cli) /\ proc'[Cli].st # "up"),
           harm = {} => acked' \subseteq Image'.rows,
           harm = {} /\ proc[Cli].st = "swapped" => wal'.on = FALSE \/ wal'.own = FALSE
    PROVE  Inv'
<1>1. /\ Len(Image.log) \in Nat /\ Len(Image'.log) \in Nat
      /\ \A x \in Actor : /\ proc[x].seen \in Nat /\ Schema[proc[x].ver] \in Nat
                          /\ proc'[x].seen \in Nat /\ Schema[proc'[x].ver] \in Nat
  <2>1. Image \in Picture
    BY FilesAre, Reads, ImageIsRead DEF Inv
  <2>2. Image' \in Picture
    <3>1. main' \in Mains /\ wal' \in Wals
      BY DEF Files, Mains, Wals
    <3>2. QED
      BY <3>1, Reads, ImageIsRead
  <2>3. \A x \in Actor : proc[x].seen \in Nat /\ Schema[proc[x].ver] \in Nat
    BY Processes DEF Inv, Process
  <2>4. \A x \in Actor : proc'[x].seen \in Nat /\ Schema[proc'[x].ver] \in Nat
    BY Processes DEF Process
  <2>5. QED
    BY <2>1, <2>2, <2>3, <2>4 DEF Picture
<1>2. CountInv'
  <2>1. ASSUME NEW x \in Actor, proc'[x].live = TRUE
        PROVE  /\ proc'[x].st \in {"migrate", "apply"} => proc'[x].seen <= Len(Image'.log)
               /\ proc'[x].st = "up" => Schema[proc'[x].ver] <= Len(Image'.log)
    <3>1. CASE Works(x)
      BY <2>1, <3>1 DEF Works
    <3>2. CASE Ebbs(x)
      <4>1. CASE proc'[x] = proc[x]
        <5>1. /\ proc[x].st \in {"migrate", "apply"} => proc[x].seen <= Len(Image.log)
              /\ proc[x].st = "up" => Schema[proc[x].ver] <= Len(Image.log)
          BY <2>1, <4>1 DEF Inv, CountInv
        <5>2. QED
          BY <1>1, <4>1, <5>1
      <4>2. CASE proc'[x] # proc[x]
        BY <3>2, <4>2 DEF Ebbs
      <4>3. QED
        BY <4>1, <4>2
    <3>3. QED
      BY <3>1, <3>2 DEF Ebbs, Actor
  <2>2. QED
    BY <2>1 DEF CountInv
<1>3. StrayInv'
  <2>1. ASSUME NEW x \in Actor
        PROVE  proc'[x].st \in {"migrate", "apply", "up"} =>
                 /\ proc[x].st \in {"migrate", "apply", "up"}
                 /\ proc'[x].live = proc[x].live
    BY DEF Ebbs, Works, Actor
  <2>2. QED
    BY <2>1 DEF Inv, StrayInv
<1>4. RestoreInv'
  <2>1. /\ Restoring' = Restoring
        /\ proc'[Cli].st = "swapped" <=> proc[Cli].st = "swapped"
    BY DEF Restoring, Works
  <2>2. /\ \A p \in Proc : proc'[p].st \in HasDb => proc[p].st \in HasDb
        /\ \A p \in Proc : proc'[p].st \in {"migrate", "apply", "up", "stop"}
             => /\ proc[p].st \in {"migrate", "apply", "up", "stop"}
                /\ proc'[p].live = proc[p].live
    BY DEF Ebbs, Works, HasDb
  <2>3. QED
    BY <2>1, <2>2 DEF Inv, RestoreInv, Open
<1>5. FreshInv'
  BY DEF Inv, FreshInv, Ebbs, Works
<1>6. QED
  BY <1>2, <1>3, <1>4, <1>5 DEF Inv

\* A checkpoint folds the log into the main file: the same is read afterwards.
LEMMA FoldSteps ==
    ASSUME Inv, NEW i \in Picture, Straight(i.log), Fold(i),
           backups' \in Seq(Picture), copies' = copies, acked' \subseteq Txn
    PROVE  /\ Files' /\ LogInv' /\ StrayLog' = FALSE /\ main'.mixed = main.mixed
           /\ Image'.log = i.log /\ Image'.rows = i.rows /\ wal'.on = FALSE
<1>1. /\ main \in Mains /\ main' = [main EXCEPT !.log = i.log, !.rows = i.rows]
      /\ wal' = NoLog
  BY FilesAre DEF Inv, Fold
<1>2. /\ main' \in Mains /\ main'.log = i.log /\ main'.rows = i.rows
      /\ main'.mixed = main.mixed
  BY <1>1 DEF Mains, Picture
<1>3. wal' \in Wals /\ wal'.on = FALSE /\ Straight(wal'.log)
  BY <1>1, NoLogIs
<1>4. Image'.log = i.log /\ Image'.rows = i.rows
  BY <1>2, <1>3, Reads, ImageIsRead
<1>5. Files'
  BY <1>2, <1>3 DEF Inv, Files, Mains, Wals
<1>6. LogInv'
  BY <1>2, <1>3 DEF LogInv
<1>7. QED
  BY <1>2, <1>3, <1>4, <1>5, <1>6 DEF StrayLog

LEMMA ImageFacts ==
    ASSUME Inv
    PROVE  /\ Image \in Picture /\ InMain \in Picture /\ Len(Image.log) \in Nat
           /\ Straight(Image.log) /\ Straight(InMain.log) /\ wal.on \in BOOLEAN /\ wal.own \in BOOLEAN
           /\ StrayLog => Image = InMain
<1>1. main \in Mains /\ wal \in Wals
  BY FilesAre DEF Inv
<1>2. Image \in Picture
  BY <1>1, Reads, ImageIsRead
<1>3. InMain \in Picture /\ InMain.log = main.log
  BY <1>1 DEF InMain, Mains, Picture
<1>4. Image.log = wal.log \/ Image.log = main.log
  BY <1>1, Reads, ImageIsRead DEF Wals
<1>5. Straight(Image.log) /\ Straight(InMain.log)
  BY <1>3, <1>4 DEF Inv, LogInv
<1>6. StrayLog => Image = InMain
  BY DEF StrayLog, Image, InMain
<1>7. Len(Image.log) \in Nat
  BY <1>2 DEF Picture
<1>8. QED
  BY <1>1, <1>2, <1>3, <1>5, <1>6, <1>7 DEF Wals

LEMMA TakeLockSteps == ASSUME Inv, NEW p \in Proc, TakeLock(p) PROVE Inv'
<1>1. /\ UNCHANGED <<bin, script, main, wal, backups, copies, acked>> /\ Tools'
      /\ proc[p].st = "lock" /\ copies' \subseteq Picture
  BY DEF TakeLock, disk, Inv, Tools, Files
<1>2. CASE LockIsLive
  <2>1. Exit(p) /\ harm' = harm
    BY <1>2 DEF TakeLock
  <2>2. QED
    BY <1>1, <2>1, ExitSteps, EbbSteps
<1>3. CASE ~LockIsLive
  <2>1. /\ lock' = p /\ proc' = [proc EXCEPT ![p].st = "open"]
        /\ harm' = IF Restoring THEN harm \cup {"race"} ELSE harm
    BY <1>3 DEF TakeLock
  <2>2. /\ \A q \in Proc : proc[q].st \notin HasDb
    BY <1>3 DEF Inv, LockInv, LockIsLive
  <2>3. /\ proc' \in [Actor -> Process] /\ proc'[p].st = "open" /\ proc'[p].live = proc[p].live
        /\ \A x \in Actor : x # p => proc'[x] = proc[x]
        /\ proc \in [Actor -> Process] /\ p \in Actor /\ p # Cli /\ Cli \in Actor
    <3>1. p \in Actor /\ p # Cli /\ Cli \in Actor /\ proc \in [Actor -> Process]
      BY ReleaseAssumption DEF Inv, Actor
    <3> DEFINE u == [proc[p] EXCEPT !.st = "open"]
    <3>2. u \in Process /\ u.st = "open" /\ u.live = proc[p].live
      BY <3>1 DEF Process, Booting
    <3>3. proc' = [proc EXCEPT ![p] = u]
      BY <2>1
    <3> HIDE DEF u
    <3>4. QED
      BY <3>1, <3>2, <3>3
  <2>4. /\ Files' /\ LogInv' /\ Image' = Image /\ StrayLog' = StrayLog
    BY <1>1 DEF Inv, Files, LogInv, Image, StrayLog
  <2>5. LockInv'
    BY <2>1, <2>2, <2>3 DEF LockInv, HasDb, Actor
  <2>6. FreshInv'
    BY <1>1, <2>3 DEF Inv, FreshInv, Actor
  <2>7. CountInv'
    <3>1. \A x \in Actor : proc'[x].st \in {"migrate", "apply", "up"} => proc'[x] = proc[x]
      BY <2>3
    <3>2. QED
      BY <2>4, <3>1 DEF Inv, CountInv
  <2>8. StrayInv'
    <3>1. \A x \in Actor : proc'[x].st \in {"migrate", "apply", "up"} => proc'[x] = proc[x]
      BY <2>3
    <3>2. QED
      BY <2>4, <3>1 DEF Inv, StrayInv
  <2>9. RestoreInv'
    <3>1. CASE Restoring
      BY <2>1, <3>1 DEF RestoreInv
    <3>2. CASE ~Restoring
      <4>1. harm' = harm /\ ~Restoring' /\ proc'[Cli] = proc[Cli]
        BY <2>1, <2>3, <3>2 DEF Restoring
      <4>2. \A q \in Proc : proc'[q].st \in {"migrate", "apply", "up", "stop"}
              => proc[q].st \in {"migrate", "apply", "up", "stop"} /\ proc'[q].live = proc[q].live
        BY <2>3 DEF Actor
      <4>3. QED
        BY <1>1, <2>4, <4>1, <4>2 DEF Inv, RestoreInv, Open
    <3>3. QED
      BY <3>1, <3>2
  <2>10. QED
    BY <1>1, <2>3, <2>4, <2>5, <2>6, <2>7, <2>8, <2>9 DEF Inv
<1>4. QED
  BY <1>2, <1>3

\* SQLite recovers the log that lies next to the file, also when it is not its own.
LEMMA OpenSteps == ASSUME Inv, NEW p \in Proc, OpenState(p) PROVE Inv'
<1>1. /\ UNCHANGED <<bin, script, backups, copies, acked, harm>> /\ Tools'
      /\ proc[p].st = "open" /\ main \in Mains /\ wal \in Wals
      /\ main' = [main EXCEPT !.mixed = @ \/ (wal.on /\ ~wal.own)]
      /\ wal' = [wal EXCEPT !.own = TRUE]
  BY FilesAre DEF OpenState, Opens, Inv, Tools
<1> DEFINE n == Len(IF wal.on THEN wal.log ELSE main.log)
<1>2. /\ main' \in Mains /\ main'.log = main.log /\ main'.rows = main.rows
      /\ main'.mixed = (main.mixed \/ (wal.on /\ ~wal.own))
  BY <1>1 DEF Mains, Wals
<1>3. wal' \in Wals /\ wal'.on = wal.on /\ wal'.own = TRUE /\ wal'.log = wal.log /\ wal'.rows = wal.rows
  BY <1>1 DEF Wals
<1>4. Files' /\ LogInv'
  BY <1>1, <1>2, <1>3 DEF Inv, Files, LogInv, Mains, Wals
<1>5. StrayLog' = FALSE
  BY <1>3 DEF StrayLog
<1>6. n \in Nat /\ n = Len(Image'.log) /\ Image' \in Picture
  <2>1. Image' \in Picture
    BY <1>2, <1>3, Reads, ImageIsRead
  <2>2. CASE wal.on = TRUE
    <3>1. Image'.log = wal.log
      BY <1>2, <1>3, <2>2, Reads, ImageIsRead
    <3>2. QED
      BY <2>1, <2>2, <3>1 DEF Picture
  <2>3. CASE wal.on = FALSE
    <3>1. Image'.log = main.log
      <4>1. wal'.on = FALSE
        BY <1>3, <2>3
      <4>2. Image'.log = main'.log
        BY <1>2, <1>3, <4>1, Reads, ImageIsRead
      <4>3. QED
        BY <1>2, <4>2
    <3>2. QED
      BY <2>1, <2>3, <3>1 DEF Picture
  <2>4. QED
    BY <1>1, <2>2, <2>3 DEF Wals
<1>7. /\ harm = {} => ~StrayLog
      /\ ~StrayLog => Image'.log = Image.log /\ Image'.rows = Image.rows /\ main'.mixed = main.mixed
  <2>1. harm = {} => ~StrayLog
    BY <1>1 DEF Inv, RestoreInv, Restoring, HasDb
  <2>2. ASSUME ~StrayLog
        PROVE  Image'.log = Image.log /\ Image'.rows = Image.rows /\ main'.mixed = main.mixed
    <3>1. CASE wal.on = TRUE
      <4>1. wal.own = TRUE
        BY <1>1, <2>2, <3>1 DEF StrayLog, Wals
      <4>2. main'.mixed = main.mixed
        BY <1>1, <1>2, <3>1, <4>1 DEF Mains
      <4>3. QED
        BY <1>1, <1>2, <1>3, <3>1, <4>1, <4>2, Reads, ImageIsRead
    <3>2. CASE wal.on = FALSE
      <4>1. main'.mixed = main.mixed
        BY <1>1, <1>2, <3>2 DEF Mains
      <4>2. wal'.on = FALSE
        BY <1>3, <3>2
      <4>3. Image'.log = main'.log /\ Image'.rows = main'.rows
        BY <1>2, <1>3, <4>2, Reads, ImageIsRead
      <4>4. Image.log = main.log /\ Image.rows = main.rows
        BY <1>1, <3>2, Reads, ImageIsRead
      <4>5. QED
        BY <1>2, <4>1, <4>3, <4>4
    <3>3. QED
      BY <1>1, <3>1, <3>2 DEF Wals
  <2>3. QED
    BY <2>1, <2>2
<1>8. /\ proc' \in [Actor -> Process] /\ LockInv' /\ p # Cli
      /\ \A x \in Actor : x # p => proc'[x] = proc[x]
      /\ \/ proc'[p].st = "none" /\ proc'[p].live = TRUE
         \/ proc'[p].st = "migrate" /\ proc'[p].live = TRUE /\ proc'[p].seen = n
  <2>1. CASE Exit(p)
    BY <2>1, ExitSteps, ReleaseAssumption
  <2>2. CASE proc' = [proc EXCEPT ![p] = [@ EXCEPT !.st = "migrate", !.seen = n]] /\ UNCHANGED lock
    <3>1. p \in Actor /\ p # Cli /\ proc \in [Actor -> Process] /\ proc[p].live = TRUE
      BY <1>1, ReleaseAssumption DEF Inv, Actor, FreshInv
    <3> DEFINE u == [proc[p] EXCEPT !.st = "migrate", !.seen = n]
    <3>2. u \in Process /\ u.st = "migrate" /\ u.live = proc[p].live /\ u.seen = n
      <4> HIDE DEF n
      <4>1. QED
        BY <1>6, <3>1 DEF Process, Booting
    <3>3. proc' = [proc EXCEPT ![p] = u]
      BY <2>2
    <3> HIDE DEF u, n
    <3>4. /\ proc' \in [Actor -> Process] /\ proc'[p] = u
          /\ \A x \in Actor : x # p => proc'[x] = proc[x]
      BY <3>1, <3>2, <3>3
    <3>5. LockInv'
      BY <1>1, <2>2, <3>4 DEF Inv, LockInv, HasDb, Actor
    <3>6. QED
      BY <3>1, <3>2, <3>4, <3>5
  <2>3. QED
    BY <2>1, <2>2 DEF OpenState
<1> HIDE DEF n
<1>9. CountInv'
  <2>1. ASSUME NEW x \in Actor, proc'[x].live = TRUE
        PROVE  /\ proc'[x].st \in {"migrate", "apply"} => proc'[x].seen <= Len(Image'.log)
               /\ proc'[x].st = "up" => Schema[proc'[x].ver] <= Len(Image'.log)
    <3>1. CASE x = p
      BY <1>6, <1>8, <3>1
    <3>2. CASE x # p /\ StrayLog
      <4>1. proc'[x] = proc[x]
        BY <1>8, <3>2
      <4>2. QED
        BY <2>1, <3>2, <4>1 DEF Inv, StrayInv
    <3>3. CASE x # p /\ ~StrayLog
      <4>1. proc'[x] = proc[x]
        BY <1>8, <3>3
      <4>2. QED
        BY <1>7, <2>1, <3>3, <4>1 DEF Inv, CountInv
    <3>4. QED
      BY <3>1, <3>2, <3>3
  <2>2. QED
    BY <2>1 DEF CountInv
<1>10. StrayInv'
  BY <1>5 DEF StrayInv
<1>11. FreshInv'
  BY <1>8 DEF Inv, FreshInv, Actor
<1>12. RestoreInv'
  <2>1. ASSUME harm = {}
        PROVE  RestoreInv'
    <3>1. proc'[Cli] = proc[Cli] /\ ~Restoring
      BY <1>1, <1>8, <2>1 DEF Inv, RestoreInv, HasDb, Actor
    <3>2. ~Restoring' /\ proc'[Cli].st # "swapped"
      BY <3>1 DEF Restoring
    <3>3. \A q \in Proc : proc'[q].st \in {"migrate", "apply", "up", "stop"} => proc'[q].live = TRUE
      <4>1. \A q \in Proc : proc[q].st \in {"migrate", "apply", "up", "stop"} => proc[q].live = TRUE
        BY <2>1 DEF Inv, RestoreInv, Open
      <4>2. QED
        BY <1>8, <4>1 DEF Actor
    <3>4. main'.mixed = FALSE /\ acked' \subseteq Image'.rows
      BY <1>1, <1>7, <2>1 DEF Inv, RestoreInv
    <3>5. QED
      BY <1>5, <3>2, <3>3, <3>4 DEF RestoreInv, Open
  <2>2. QED
    BY <1>1, <2>1 DEF RestoreInv
<1>13. QED
  BY <1>1, <1>4, <1>8, <1>9, <1>10, <1>11, <1>12 DEF Inv

\* What is written to the log is what is read from then on.
LEMMA WriteSteps ==
    ASSUME Inv, NEW l \in Seq(Nat), NEW r \in SUBSET Txn, Straight(l),
           wal' = [on |-> TRUE, own |-> TRUE, log |-> l, rows |-> r],
           UNCHANGED <<main, backups, copies>>, acked' \subseteq Txn
    PROVE  /\ Files' /\ LogInv' /\ StrayLog' = FALSE
           /\ Image'.log = l /\ Image'.rows = r
<1>1. wal' \in Wals /\ wal'.on = TRUE /\ wal'.own = TRUE /\ wal'.log = l /\ wal'.rows = r
  BY DEF Wals
<1>2. main' \in Mains /\ main' = main
  BY FilesAre DEF Inv
<1>3. Image'.log = l /\ Image'.rows = r
  BY <1>1, <1>2, Reads, ImageIsRead
<1>4. Files'
  BY <1>1, <1>2 DEF Inv, Files, Wals
<1>5. LogInv'
  BY <1>1, <1>2 DEF Inv, LogInv
<1>6. QED
  BY <1>1, <1>3, <1>4, <1>5 DEF StrayLog

LEMMA SameFiles ==
    ASSUME Inv, UNCHANGED <<main, wal, backups, copies>>, acked' \subseteq Txn
    PROVE  Files' /\ LogInv' /\ Image' = Image /\ StrayLog' = StrayLog
BY DEF Inv, Files, LogInv, Image, StrayLog

LEMMA Turns ==
    ASSUME Inv, NEW x \in Actor, NEW s \in {"migrate", "apply", "up"}, proc[x].st \in {"migrate", "apply"},
           proc' = [proc EXCEPT ![x].st = s], lock' = lock
    PROVE  /\ proc' \in [Actor -> Process] /\ proc'[x].st = s /\ proc'[x].seen = proc[x].seen
           /\ proc'[x].live = proc[x].live /\ proc'[x].ver = proc[x].ver
           /\ \A y \in Actor : y # x => proc'[y] = proc[y]
           /\ LockInv'
<1>1. proc \in [Actor -> Process]
  BY DEF Inv
<1> DEFINE u == [proc[x] EXCEPT !.st = s]
<1>2. /\ u \in Process /\ u.st = s /\ u.seen = proc[x].seen /\ u.live = proc[x].live
      /\ u.ver = proc[x].ver
  BY <1>1 DEF Process, Booting
<1>3. proc' = [proc EXCEPT ![x] = u]
  OBVIOUS
<1> HIDE DEF u
<1>4. /\ proc' \in [Actor -> Process] /\ proc'[x] = u
      /\ \A y \in Actor : y # x => proc'[y] = proc[y]
  BY <1>1, <1>2, <1>3
<1>5. LockInv'
  BY <1>2, <1>4 DEF Inv, LockInv, HasDb, Actor
<1>6. QED
  BY <1>2, <1>4, <1>5

LEMMA ServeSteps == ASSUME Inv, NEW p \in Proc, Serve(p) PROVE Inv'
<1>1. /\ UNCHANGED <<bin, script, lock, main, wal, backups, copies, acked, harm>> /\ Tools'
      /\ proc[p].st = "migrate" /\ proc' = [proc EXCEPT ![p].st = "up"] /\ p \in Actor
      /\ p # Cli /\ Cli \in Actor /\ acked' \subseteq Txn /\ Migrated(p)
  BY ReleaseAssumption DEF Serve, db, Inv, Tools, Files, Actor
<1>2. /\ proc' \in [Actor -> Process] /\ proc'[p].st = "up"
      /\ proc'[p].live = proc[p].live /\ proc'[p].ver = proc[p].ver
      /\ \A y \in Actor : y # p => proc'[y] = proc[y]
      /\ LockInv'
  BY <1>1, Turns
<1>3. Files' /\ LogInv' /\ Image' = Image /\ StrayLog' = StrayLog
  BY <1>1, SameFiles
<1>4. Works(p)
  <2>1. proc[p].live = TRUE => proc[p].seen <= Len(Image.log)
    BY <1>1 DEF Inv, CountInv
  <2>2. proc[p].seen \in Nat /\ Schema[proc[p].ver] \in Nat
    BY <1>1, Processes DEF Inv, Process
  <2>3. QED
    BY <1>1, <1>2, <1>3, <2>1, <2>2, ImageFacts DEF Works, Migrated
<1>5. \A q \in Proc : Ebbs(q) \/ Works(q)
  BY <1>2, <1>4 DEF Ebbs, Actor
<1>6. /\ harm = {} => acked' \subseteq Image'.rows
      /\ harm = {} /\ proc[Cli].st = "swapped" => wal'.on = FALSE \/ wal'.own = FALSE
  BY <1>1, <1>3 DEF Inv, RestoreInv
<1>7. Len(Image.log) <= Len(Image'.log) /\ (StrayLog' => StrayLog)
  BY <1>3, ImageFacts
<1>8. proc'[Cli] = proc[Cli] /\ main'.mixed = main.mixed
  BY <1>1, <1>2
<1>9. QED
  BY <1>1, <1>2, <1>3, <1>5, <1>6, <1>7, <1>8, GrowSteps

LEMMA BackupSteps == ASSUME Inv, NEW x \in Actor, Backup(x) PROVE Inv'
<1>1. /\ UNCHANGED <<bin, script, lock, copies, acked, harm>> /\ Tools'
      /\ proc[x].st = "migrate" /\ proc' = [proc EXCEPT ![x].st = "apply"]
      /\ Cli \in Actor /\ acked' \subseteq Txn
  BY DEF Backup, Inv, Tools, Files, Actor
<1>2. /\ proc' \in [Actor -> Process] /\ proc'[x].st = "apply" /\ proc'[x].seen = proc[x].seen
      /\ proc'[x].live = proc[x].live
      /\ \A y \in Actor : y # x => proc'[y] = proc[y]
      /\ LockInv'
  BY <1>1, Turns
<1>3. PICK i \in Checkpointed(x) :
        /\ backups' = Pruned(<<i>> \o backups)
        /\ IF i = Image
           THEN /\ main' = [main EXCEPT !.log = i.log, !.rows = i.rows]
                /\ wal' = NoLog
           ELSE UNCHANGED <<main, wal>>
  BY DEF Backup
<1>4. i \in Picture /\ Straight(i.log)
  BY <1>3, ImageFacts DEF Checkpointed
<1>5. backups' \in Seq(Picture)
  <2> DEFINE s == <<i>> \o backups
             k == IF Len(s) <= Keep THEN Len(s) ELSE Keep
  <2>1. s \in Seq(Picture) /\ Keep \in Nat
    BY <1>4, ReleaseAssumption DEF Inv, Files
  <2>2. k \in Nat /\ k <= Len(s) /\ backups' = SubSeq(s, 1, k)
    <3>1. backups' = SubSeq(s, 1, k)
      BY <1>3 DEF Pruned
    <3> HIDE DEF s
    <3>2. Len(s) \in Nat
      BY <2>1
    <3>3. QED
      BY <2>1, <3>1, <3>2
  <2> HIDE DEF s, k
  <2>3. QED
    BY <2>1, <2>2
<1>6. /\ Files' /\ LogInv' /\ (StrayLog' => StrayLog) /\ main'.mixed = main.mixed
      /\ Image'.log = Image.log /\ Image'.rows = Image.rows
      /\ wal'.on = FALSE \/ wal' = wal
  <2>1. CASE i = Image
    <3>1. Fold(i)
      BY <1>3, <2>1 DEF Fold
    <3>2. QED
      BY <1>1, <1>4, <1>5, <2>1, <3>1, FoldSteps
  <2>2. CASE i # Image
    <3>1. UNCHANGED <<main, wal>>
      BY <1>3, <2>2
    <3>2. QED
      BY <1>1, <1>5, <3>1 DEF Inv, Files, LogInv, Image, StrayLog
  <2>3. QED
    BY <2>1, <2>2
<1>7. Works(x)
  <2>1. proc[x].live = TRUE => proc[x].seen <= Len(Image.log)
    BY <1>1 DEF Inv, CountInv
  <2>2. QED
    BY <1>1, <1>2, <1>6, <2>1 DEF Works
<1>8. /\ \A q \in Proc : Ebbs(q) \/ Works(q)
      /\ proc'[Cli] = proc[Cli] \/ (Works(Cli) /\ proc'[Cli].st # "up")
  BY <1>1, <1>2, <1>7 DEF Ebbs, Actor
<1>9. /\ harm = {} => acked' \subseteq Image'.rows
      /\ harm = {} /\ proc[Cli].st = "swapped" => wal'.on = FALSE \/ wal'.own = FALSE
  BY <1>1, <1>6 DEF Inv, RestoreInv
<1>10. Len(Image.log) <= Len(Image'.log)
  BY <1>6, ImageFacts
<1>11. QED
  BY <1>1, <1>2, <1>6, <1>8, <1>9, <1>10, GrowSteps

\* Under the write lock a migration is applied once, whoever applies it.
LEMMA LogAfters ==
    ASSUME Inv, NEW x \in Actor, proc[x].seen <= Len(Image.log)
    PROVE  /\ LogAfter(x) \in Seq(Nat) /\ Straight(LogAfter(x))
           /\ Len(Image.log) <= Len(LogAfter(x)) /\ proc[x].seen + 1 <= Len(LogAfter(x))
<1> DEFINE log == Image.log
           m == proc[x].seen + 1
<1>1. log \in Seq(Nat) /\ Straight(log) /\ proc[x].seen \in Nat /\ proc[x].seen <= Len(log)
  BY ImageFacts DEF Inv, Process, Picture
<1>2. LogAfter(x) = IF \E i \in DOMAIN log : log[i] = m THEN log ELSE Append(log, m)
  BY DEF LogAfter
<1> HIDE DEF log
<1>3. CASE \E i \in DOMAIN log : log[i] = m
  <2>1. PICK i \in DOMAIN log : log[i] = m
    BY <1>3
  <2>2. i = m /\ i \in 1..Len(log)
    BY <1>1, <2>1 DEF Straight
  <2>3. QED
    BY <1>1, <1>2, <1>3, <2>2 DEF log
<1>4. CASE ~\E i \in DOMAIN log : log[i] = m
  <2>1. proc[x].seen = Len(log)
    <3>1. m \in 1..Len(log) => log[m] = m
      BY <1>1 DEF Straight
    <3>2. m \notin 1..Len(log)
      BY <1>1, <1>4, <3>1
    <3>3. QED
      BY <1>1, <3>2
  <2>2. LogAfter(x) = Append(log, Len(log) + 1)
    BY <1>2, <1>4, <2>1
  <2>3. Append(log, Len(log) + 1) \in Seq(Nat) /\ Len(Append(log, Len(log) + 1)) = Len(log) + 1
    BY <1>1
  <2>4. Straight(Append(log, Len(log) + 1))
    BY <1>1, <2>3 DEF Straight
  <2>5. QED
    BY <1>1, <2>1, <2>2, <2>3, <2>4 DEF log
<1>5. QED
  BY <1>3, <1>4

\* Nobody with the database open meets a restore, unless one met a booting server.
LEMMA NotSwapped ==
    ASSUME Inv, NEW x \in Actor, proc[x].st \in {"migrate", "apply", "up", "stop"}, harm = {}
    PROVE  proc[Cli].st # "swapped"
BY DEF Inv, RestoreInv, Restoring, HasDb, Actor

LEMMA ApplySteps == ASSUME Inv, NEW x \in Actor, Apply(x) PROVE Inv'
<1>1. /\ UNCHANGED <<bin, script, lock, main, backups, copies, acked, harm>> /\ Tools'
      /\ proc[x].st = "apply"
      /\ Cli \in Actor /\ acked' \subseteq Txn /\ proc \in [Actor -> Process]
  BY DEF Apply, Inv, Tools, Files, Actor
<1>2. /\ proc' \in [Actor -> Process] /\ proc'[x].st = "migrate"
      /\ proc'[x].seen = proc[x].seen + 1 /\ proc'[x].live = proc[x].live
      /\ \A y \in Actor : y # x => proc'[y] = proc[y]
  <2> DEFINE n == proc[x].seen + 1
             u == [proc[x] EXCEPT !.st = "migrate", !.seen = n]
  <2>1. proc[x] \in Process /\ n \in Nat
    BY <1>1 DEF Process
  <2>2. proc' = [proc EXCEPT ![x] = u]
    BY Zenon DEF Apply
  <2> HIDE DEF n
  <2>3. u \in Process /\ u.st = "migrate" /\ u.seen = n /\ u.live = proc[x].live
    BY <2>1 DEF Process, Booting
  <2> HIDE DEF u
  <2>4. /\ proc' \in [Actor -> Process] /\ proc'[x] = u
        /\ \A y \in Actor : y # x => proc'[y] = proc[y]
    BY <1>1, <2>2, <2>3
  <2>5. QED
    BY <2>3, <2>4 DEF n
<1>3. LockInv'
  BY <1>1, <1>2 DEF Inv, LockInv, HasDb, Actor
<1>4. /\ Files' /\ LogInv' /\ (StrayLog' => StrayLog) /\ Image'.rows = Image.rows
      /\ Len(Image.log) <= Len(Image'.log)
      /\ proc[x].live = TRUE => proc[x].seen + 1 <= Len(Image'.log)
      /\ proc[x].live = TRUE \/ wal' = wal
  <2>1. CASE proc[x].live = TRUE
    <3>1. proc[x].seen <= Len(Image.log)
      BY <1>1, <2>1 DEF Inv, CountInv
    <3>2. /\ LogAfter(x) \in Seq(Nat) /\ Straight(LogAfter(x))
          /\ Len(Image.log) <= Len(LogAfter(x)) /\ proc[x].seen + 1 <= Len(LogAfter(x))
      BY <3>1, LogAfters
    <3>3. wal' = [on |-> TRUE, own |-> TRUE, log |-> LogAfter(x), rows |-> Image.rows]
      BY <2>1 DEF Apply
    <3>4. Image.rows \in SUBSET Txn
      BY ImageFacts DEF Picture
    <3>5. Files' /\ LogInv' /\ StrayLog' = FALSE /\ Image'.log = LogAfter(x) /\ Image'.rows = Image.rows
      BY <1>1, <3>2, <3>3, <3>4, WriteSteps
    <3>6. QED
      BY <2>1, <3>2, <3>5
  <2>2. CASE proc[x].live = FALSE
    <3>1. wal' = wal
      BY <2>2 DEF Apply
    <3>2. Files' /\ LogInv' /\ Image' = Image /\ StrayLog' = StrayLog
      BY <1>1, <3>1, SameFiles
    <3>3. QED
      BY <2>2, <3>1, <3>2, ImageFacts
  <2>3. proc[x].live \in BOOLEAN
    BY <1>1 DEF Process
  <2>4. QED
    BY <2>1, <2>2, <2>3
<1>5. Works(x)
  BY <1>1, <1>2, <1>4 DEF Works
<1>6. /\ \A q \in Proc : Ebbs(q) \/ Works(q)
      /\ proc'[Cli] = proc[Cli] \/ (Works(Cli) /\ proc'[Cli].st # "up")
  BY <1>1, <1>2, <1>5 DEF Ebbs, Actor
<1>7. /\ harm = {} => acked' \subseteq Image'.rows
      /\ harm = {} /\ proc[Cli].st = "swapped" => wal'.on = FALSE \/ wal'.own = FALSE
  BY <1>1, <1>4, NotSwapped DEF Inv, RestoreInv
<1>8. QED
  BY <1>1, <1>2, <1>3, <1>4, <1>6, <1>7, GrowSteps

LEMMA CommitSteps == ASSUME Inv, NEW p \in Proc, Commit(p) PROVE Inv'
<1>1. PICK t \in Txn \ acked : LET i == [Image EXCEPT !.rows = @ \cup {t}] IN
        /\ p \in Up /\ acked' = acked \cup {t}
        /\ CASE ~proc[p].live -> UNCHANGED <<main, wal>>
             [] proc[p].live ->
                  \/ wal' = [on |-> TRUE, own |-> TRUE, log |-> i.log, rows |-> i.rows] /\ UNCHANGED main
                  \/ Fold(i)
        /\ UNCHANGED <<bin, systemd, server, backups, copies, script, harm, left>>
  BY DEF Commit
<1> DEFINE i == [Image EXCEPT !.rows = @ \cup {t}]
<1>2. /\ UNCHANGED <<bin, script, proc, lock, backups, copies, harm>> /\ Tools'
      /\ proc[p].st = "up" /\ acked' = acked \cup {t} /\ acked' \subseteq Txn /\ p \in Actor
      /\ proc' \in [Actor -> Process] /\ backups' \in Seq(Picture)
  BY <1>1 DEF Inv, Tools, Files, Up, server, Actor
<1>3. LockInv'
  BY <1>2 DEF Inv, LockInv
<1>4. i \in Picture /\ i.log = Image.log /\ i.rows = Image.rows \cup {t} /\ Straight(i.log)
  <2>1. Image \in Picture /\ Straight(Image.log)
    BY ImageFacts
  <2>2. i \in Picture /\ i.log = Image.log /\ i.rows = Image.rows \cup {t}
    BY <2>1 DEF Picture
  <2>3. QED
    BY <2>1, <2>2
<1>5. /\ Files' /\ LogInv' /\ (StrayLog' => StrayLog) /\ main'.mixed = main.mixed
      /\ Len(Image.log) <= Len(Image'.log)
      /\ harm = {} => acked' \subseteq Image'.rows
  <2>1. CASE proc[p].live = FALSE
    <3>1. UNCHANGED <<main, wal>>
      BY <1>1, <2>1
    <3>2. Files' /\ LogInv' /\ Image' = Image /\ StrayLog' = StrayLog
      BY <1>2, <3>1, SameFiles
    <3>3. harm # {}
      BY <1>2, <2>1 DEF Inv, RestoreInv, Open
    <3>4. QED
      BY <3>1, <3>2, <3>3, ImageFacts
  <2>2. CASE proc[p].live = TRUE
    <3>1. \/ wal' = [on |-> TRUE, own |-> TRUE, log |-> i.log, rows |-> i.rows] /\ UNCHANGED main
          \/ Fold(i)
      BY <1>1, <2>2
    <3> HIDE DEF i
    <3>2. /\ Files' /\ LogInv' /\ StrayLog' = FALSE /\ main'.mixed = main.mixed
          /\ Image'.log = i.log /\ Image'.rows = i.rows
      <4>1. CASE Fold(i)
        BY <1>2, <1>4, <4>1, FoldSteps
      <4>2. CASE wal' = [on |-> TRUE, own |-> TRUE, log |-> i.log, rows |-> i.rows] /\ UNCHANGED main
        <5>1. i.log \in Seq(Nat) /\ i.rows \in SUBSET Txn
          BY <1>4 DEF Picture
        <5>2. QED
          BY <1>2, <1>4, <4>2, <5>1, WriteSteps
      <4>3. QED
        BY <3>1, <4>1, <4>2
    <3>3. harm = {} => acked \subseteq Image.rows
      BY DEF Inv, RestoreInv
    <3>4. QED
      BY <1>2, <1>4, <3>2, <3>3, ImageFacts
  <2>3. proc[p].live \in BOOLEAN
    BY <1>2 DEF Process
  <2>4. QED
    BY <2>1, <2>2, <2>3
<1>6. /\ \A q \in Proc : Ebbs(q) \/ Works(q)
      /\ proc'[Cli] = proc[Cli]
  BY <1>2 DEF Ebbs
<1>7. harm = {} /\ proc[Cli].st = "swapped" => wal'.on = FALSE \/ wal'.own = FALSE
  BY <1>2, NotSwapped
<1>8. QED
  BY <1>2, <1>3, <1>5, <1>6, <1>7, GrowSteps

LEMMA ShutDownSteps == ASSUME Inv, NEW p \in Proc, ShutDown(p) PROVE Inv'
<1>1. /\ UNCHANGED <<bin, script, backups, copies, acked, harm>> /\ Tools'
      /\ proc[p].st = "stop" /\ proc' = [proc EXCEPT ![p] = Gone] /\ lock' = "absent"
      /\ p \in Actor /\ p # Cli /\ Cli \in Actor /\ acked' \subseteq Txn
      /\ backups' \in Seq(Picture) /\ proc \in [Actor -> Process]
  BY ReleaseAssumption DEF ShutDown, Inv, Tools, Files, Actor
<1>2. /\ proc' \in [Actor -> Process] /\ proc'[p].st = "none" /\ proc'[p].live = TRUE
      /\ \A y \in Actor : y # p => proc'[y] = proc[y]
  BY <1>1, Processes
<1>3. LockInv'
  BY <1>1, <1>2 DEF Inv, LockInv, HasDb, Actor
<1>4. /\ Files' /\ LogInv' /\ (StrayLog' => StrayLog) /\ main'.mixed = main.mixed
      /\ Image'.log = Image.log /\ Image'.rows = Image.rows
  <2>1. CASE Fold(Image)
    BY <1>1, <2>1, ImageFacts, FoldSteps
  <2>2. CASE UNCHANGED <<main, wal>>
    BY <1>1, <2>2, SameFiles
  <2>3. QED
    BY <2>1, <2>2 DEF ShutDown
<1>5. /\ \A q \in Proc : Ebbs(q) \/ Works(q)
      /\ proc'[Cli] = proc[Cli]
  BY <1>1, <1>2 DEF Ebbs, Actor
<1>6. /\ harm = {} => acked' \subseteq Image'.rows
      /\ harm = {} /\ proc[Cli].st = "swapped" => wal'.on = FALSE \/ wal'.own = FALSE
  BY <1>1, <1>4, NotSwapped DEF Inv, RestoreInv
<1>7. Len(Image.log) <= Len(Image'.log)
  BY <1>4, ImageFacts
<1>8. QED
  BY <1>1, <1>2, <1>3, <1>4, <1>5, <1>6, <1>7, GrowSteps

-------------------------------------------------------------------------------
(* The state CLI                                                           *)

\* A CLI that starts with the lock free meets no server with the database open.
LEMMA ColdIsEmpty ==
    ASSUME Inv, Cold
    PROVE  \A p \in Proc : proc[p].st \notin HasDb
BY ReleaseAssumption DEF Inv, LockInv, Cold, LockIsLive

\* The CLI starts, or ends, and the servers and the database stay as they are.
LEMMA CliTurns ==
    ASSUME Inv, Tools', UNCHANGED <<main, wal, backups, copies, acked, lock>>,
           NEW u \in Process, proc' = [proc EXCEPT ![Cli] = u], u.live = TRUE,
           u.st \in {"none", "restore"}
             \/ (u.st = "migrate" /\ u.seen <= Len(Image.log) /\ ~StrayLog),
           u.st = "restore" => \A p \in Proc : proc[p].st \notin HasDb,
           (harm' = harm /\ proc[Cli].st # "swapped") \/ "halfway" \in harm'
    PROVE  Inv'
<1>1. /\ proc' \in [Actor -> Process] /\ proc'[Cli] = u /\ Cli \notin Proc /\ Cli \in Actor
      /\ \A p \in Proc : proc'[p] = proc[p]
      /\ \A x \in Actor : x # Cli => proc'[x] = proc[x]
  BY ReleaseAssumption DEF Inv, Actor
<1>2. Files' /\ LogInv' /\ Image' = Image /\ StrayLog' = StrayLog
  BY DEF Inv, Files, LogInv, Image, StrayLog
<1>3. LockInv' /\ FreshInv'
  BY <1>1 DEF Inv, LockInv, FreshInv
<1>4. CountInv'
  <2>1. ASSUME NEW x \in Actor, proc'[x].live = TRUE
        PROVE  /\ proc'[x].st \in {"migrate", "apply"} => proc'[x].seen <= Len(Image.log)
               /\ proc'[x].st = "up" => Schema[proc'[x].ver] <= Len(Image.log)
    <3>1. CASE x = Cli
      BY <1>1, <3>1
    <3>2. CASE x # Cli
      BY <1>1, <2>1, <3>2 DEF Inv, CountInv
    <3>3. QED
      BY <3>1, <3>2
  <2>2. QED
    BY <1>2, <2>1 DEF CountInv
<1>5. StrayInv'
  <2>1. ASSUME NEW x \in Actor, StrayLog, proc'[x].st \in {"migrate", "apply", "up"}
        PROVE  proc'[x].live = FALSE
    <3>1. x # Cli
      BY <1>1, <2>1
    <3>2. QED
      BY <1>1, <2>1, <3>1 DEF Inv, StrayInv
  <2>2. QED
    BY <1>2, <2>1 DEF StrayInv
<1>6. RestoreInv'
  <2>1. ASSUME harm' = {}
        PROVE  RestoreInv'
    <3>1. harm = {} /\ proc[Cli].st # "swapped"
      BY <2>1
    <3>2. proc'[Cli].st # "swapped"
      BY <1>1
    <3>3. Restoring' => \A p \in Proc : proc'[p].st \notin HasDb
      BY <1>1 DEF Restoring
    <3>4. ~StrayLog'
      BY <1>2, <3>1 DEF Inv, RestoreInv
    <3>5. \A p \in Proc : proc'[p].st \in {"migrate", "apply", "up", "stop"}
            => proc'[p].live = TRUE
      BY <1>1, <3>1 DEF Inv, RestoreInv, Open
    <3>6. main'.mixed = FALSE /\ acked' \subseteq Image'.rows
      BY <1>2, <3>1 DEF Inv, RestoreInv
    <3>7. QED
      BY <3>2, <3>3, <3>4, <3>5, <3>6 DEF RestoreInv, Open
  <2>2. QED
    BY <2>1 DEF RestoreInv
<1>7. QED
  BY <1>1, <1>2, <1>3, <1>4, <1>5, <1>6 DEF Inv

LEMMA CliMigrateSteps == ASSUME Inv, CliMigrate PROVE Inv'
<1> DEFINE u == [st |-> "migrate", ver |-> bin.source, seen |-> Len(Image.log), live |-> TRUE]
<1>1. /\ UNCHANGED <<bin, script, lock, main, wal, backups, copies, acked, harm>> /\ Tools'
      /\ proc' = [proc EXCEPT ![Cli] = u] /\ ~StrayLog /\ proc[Cli].st = "none"
  BY DEF CliMigrate, CliIs, db, Inv, Tools, Alive, StrayLog
<1>2. /\ u \in Process /\ u.live = TRUE /\ u.st = "migrate" /\ u.seen <= Len(Image.log)
  <2>1. bin.source \in Version /\ Len(Image.log) \in Nat
    BY ImageFacts DEF Inv, Tools
  <2>2. QED
    BY <2>1 DEF Process, Booting
<1> HIDE DEF u
<1>3. u.st \in {"none", "restore"} \/ (u.st = "migrate" /\ u.seen <= Len(Image.log) /\ ~StrayLog)
  BY <1>1, <1>2
<1>4. (harm' = harm /\ proc[Cli].st # "swapped") \/ "halfway" \in harm'
  BY <1>1
<1>5. u.st # "restore"
  BY <1>2
<1>6. QED
  BY <1>1, <1>2, <1>3, <1>4, <1>5, CliTurns

LEMMA CliRestoreSteps == ASSUME Inv, CliRestore PROVE Inv'
<1> DEFINE u == [st |-> "restore", ver |-> bin.source, seen |-> 0, live |-> TRUE]
<1>1. /\ UNCHANGED <<bin, script, lock, main, wal, backups, copies, acked, harm>> /\ Tools'
      /\ proc' = [proc EXCEPT ![Cli] = u] /\ proc[Cli].st = "none"
      /\ \A p \in Proc : proc[p].st \notin HasDb
  BY ColdIsEmpty DEF CliRestore, CliIs, db, Inv, Tools, Alive
<1>2. u \in Process /\ u.live = TRUE /\ u.st = "restore"
  <2>1. bin.source \in Version
    BY DEF Inv, Tools
  <2>2. QED
    BY <2>1 DEF Process, Booting
<1> HIDE DEF u
<1>3. QED
  BY <1>1, <1>2, CliTurns

LEMMA CliEndsSteps == ASSUME Inv, CliEnds PROVE Inv'
<1>1. /\ UNCHANGED <<bin, script, lock, main, wal, backups, copies, acked>> /\ Tools'
      /\ proc' = [proc EXCEPT ![Cli] = Gone]
      /\ (harm' = harm /\ proc[Cli].st # "swapped") \/ "halfway" \in harm'
  BY DEF CliEnds, disk, Inv, Tools
<1>2. Gone \in Process /\ Gone.live = TRUE /\ Gone.st = "none"
  BY Processes
<1>3. QED
  BY <1>1, <1>2, CliTurns

\* A restore puts another database under whoever has this one open.
Ousts(x) == \/ proc'[x] = proc[x] /\ x \notin Open
            \/ /\ x \in Open /\ proc'[x].st = proc[x].st /\ proc'[x].live = FALSE

LEMMA OustSteps ==
    ASSUME Inv, Tools', Files', LogInv', UNCHANGED <<lock, harm>>,
           proc' \in [Actor -> Process], \A p \in Proc : Ousts(p),
           proc[Cli].st \in {"restore", "swapped"}, proc'[Cli].st \in {"none", "swapped"},
           StrayLog' => proc'[Cli].st = "swapped",
           proc'[Cli].st = "swapped" => wal'.on = FALSE \/ wal'.own = FALSE,
           harm = {} => main'.mixed = FALSE /\ acked' \subseteq Image'.rows
    PROVE  Inv'
<1>1. \A p \in Proc : /\ proc'[p].st = proc[p].st
                      /\ proc'[p].live = TRUE => p \notin Open /\ proc'[p] = proc[p]
  BY DEF Ousts
<1>2. LockInv' /\ FreshInv'
  <2>1. \A p \in Proc : proc[p].st \in {"none", "lock", "open"} => p \notin Open
    BY DEF Open
  <2>2. QED
    BY <1>1, <2>1 DEF Inv, LockInv, FreshInv, Ousts
<1>3. /\ \A x \in Actor : proc'[x].st \in {"migrate", "apply", "up"} => proc'[x].live = FALSE
  <2>1. ASSUME NEW x \in Actor, proc'[x].st \in {"migrate", "apply", "up"}
        PROVE  proc'[x].live = FALSE
    <3>1. x \in Proc
      BY <2>1 DEF Actor
    <3>2. x \in Open
      BY <1>1, <2>1, <3>1 DEF Open
    <3>3. QED
      BY <3>1, <3>2 DEF Ousts
  <2>2. QED
    BY <2>1
<1>4. CountInv' /\ StrayInv'
  BY <1>3 DEF CountInv, StrayInv
<1>5. RestoreInv'
  <2>1. ASSUME harm = {}
        PROVE  /\ \A p \in Proc : proc'[p].st \notin HasDb
    BY <1>1, <2>1 DEF Inv, RestoreInv, Restoring
  <2>2. QED
    BY <2>1 DEF RestoreInv, Open, HasDb
<1>6. QED
  BY <1>2, <1>4, <1>5 DEF Inv

LEMMA RestoreSwapsSteps == ASSUME Inv, RestoreSwaps PROVE Inv'
<1>1. PICK i \in copies \cup {backups[n] : n \in DOMAIN backups} :
        /\ proc[Cli].st = "restore" /\ Swapped(i)
        /\ acked' = acked \cap i.rows
        /\ proc' = [p \in DOMAIN proc |->
                      IF p = Cli THEN [proc[p] EXCEPT !.st = "swapped"]
                      ELSE IF p \in Open THEN [proc[p] EXCEPT !.live = FALSE] ELSE proc[p]]
        /\ UNCHANGED <<bin, systemd, want, pid, lock, backups, copies, script, harm, left>>
  BY DEF RestoreSwaps
<1>2. i \in Picture /\ i.rows \in SUBSET Txn
  <2>1. copies \subseteq Picture /\ \A n \in DOMAIN backups : backups[n] \in Picture
    BY DEF Inv, Files
  <2>2. i \in Picture
    BY <2>1
  <2>3. QED
    BY <2>2 DEF Picture
<1>3. /\ Tools' /\ proc \in [Actor -> Process] /\ Cli \in Actor /\ Cli \notin Proc
      /\ main \in Mains /\ wal \in Wals
  BY <1>1, FilesAre, ReleaseAssumption DEF Inv, Tools, Actor
<1> DEFINE log == [n \in 1..Schema[proc[Cli].ver] |-> n]
<1>4. log \in Seq(Nat) /\ Straight(log)
  <2>1. Schema[proc[Cli].ver] \in Nat
    BY <1>3, Processes
  <2>2. QED
    BY <2>1 DEF Straight
<1>5. main' \in Mains /\ main'.log = log /\ main'.rows = i.rows /\ main'.mixed = FALSE
  <2>1. main' = [log |-> log, rows |-> i.rows, mixed |-> FALSE]
    BY <1>1 DEF Swapped
  <2> HIDE DEF log
  <2>2. QED
    BY <1>2, <1>4, <2>1 DEF Mains
<1> HIDE DEF log
<1>6. wal' \in Wals /\ (wal'.on = FALSE \/ wal'.own = FALSE) /\ wal'.log = wal.log
  <2>1. wal' = [wal EXCEPT !.own = ~wal.on]
    BY <1>1 DEF Swapped
  <2>2. wal.on \in BOOLEAN
    BY <1>3 DEF Wals
  <2>3. CASE wal.on = TRUE
    BY <1>3, <2>1, <2>3 DEF Wals
  <2>4. CASE wal.on = FALSE
    BY <1>3, <2>1, <2>4 DEF Wals
  <2>5. QED
    BY <2>2, <2>3, <2>4
<1>7. Image'.rows = i.rows
  BY <1>5, <1>6, Reads, ImageIsRead
<1>8. Files'
  BY <1>1, <1>5, <1>6 DEF Inv, Files, Mains, Wals
<1>9. LogInv'
  BY <1>4, <1>5, <1>6 DEF Inv, LogInv
<1>10. /\ proc' \in [Actor -> Process] /\ proc'[Cli].st = "swapped"
       /\ \A p \in Proc : Ousts(p)
  <2>1. \A x \in Actor : /\ [proc[x] EXCEPT !.st = "swapped"] \in Process
                         /\ [proc[x] EXCEPT !.st = "swapped"].st = "swapped"
                         /\ [proc[x] EXCEPT !.live = FALSE] \in Process
                         /\ [proc[x] EXCEPT !.live = FALSE].st = proc[x].st
                         /\ [proc[x] EXCEPT !.live = FALSE].live = FALSE
                         /\ proc[x] \in Process
    BY <1>3 DEF Process
  <2>2. /\ proc' = [p \in Actor |->
                      IF p = Cli THEN [proc[p] EXCEPT !.st = "swapped"]
                      ELSE IF p \in Open THEN [proc[p] EXCEPT !.live = FALSE] ELSE proc[p]]
    BY <1>1, <1>3
  <2>3. proc' \in [Actor -> Process]
    BY <2>1, <2>2
  <2>4. proc'[Cli].st = "swapped"
    BY <1>3, <2>1, <2>2
  <2>5. ASSUME NEW p \in Proc PROVE Ousts(p)
    BY <1>3, <2>1, <2>2 DEF Ousts, Actor
  <2>6. QED
    BY <2>3, <2>4, <2>5
<1>11. harm = {} => main'.mixed = FALSE /\ acked' \subseteq Image'.rows
  BY <1>1, <1>5, <1>7
<1>12. QED
  BY <1>1, <1>3, <1>6, <1>8, <1>9, <1>10, <1>11, OustSteps

LEMMA RestoreCleansSteps == ASSUME Inv, RestoreCleans PROVE Inv'
<1>1. /\ proc[Cli].st = "swapped" /\ wal' = NoLog
      /\ proc' = [p \in DOMAIN proc |->
                    IF p = Cli THEN Gone
                    ELSE IF p \in Open THEN [proc[p] EXCEPT !.live = FALSE] ELSE proc[p]]
      /\ UNCHANGED <<bin, lock, main, backups, copies, script, acked, harm>>
  BY DEF RestoreCleans, SidecarsAfter
<1>2. /\ Tools' /\ proc \in [Actor -> Process] /\ Cli \in Actor /\ Cli \notin Proc
      /\ main \in Mains /\ wal \in Wals
  BY <1>1, FilesAre, ReleaseAssumption DEF Inv, Tools, Actor
<1>3. wal' \in Wals /\ wal'.on = FALSE /\ Straight(wal'.log)
  BY <1>1, NoLogIs
<1>4. Files' /\ LogInv'
  BY <1>1, <1>3 DEF Inv, Files, LogInv, Wals
<1>5. Image'.rows = main.rows
  BY <1>1, <1>2, <1>3, Reads, ImageIsRead
<1>6. harm = {} => main'.mixed = FALSE /\ acked' \subseteq Image'.rows
  <2>1. ASSUME harm = {}
        PROVE  Image.rows = main.rows /\ main.mixed = FALSE /\ acked \subseteq Image.rows
    <3>1. (wal.on = FALSE \/ wal.own = FALSE) /\ main.mixed = FALSE /\ acked \subseteq Image.rows
      BY <1>1, <2>1 DEF Inv, RestoreInv
    <3>2. Image.rows = main.rows
      BY <1>2, <3>1, Reads, ImageIsRead
    <3>3. QED
      BY <3>1, <3>2
  <2>2. QED
    BY <1>1, <1>5, <2>1
<1>7. /\ proc' \in [Actor -> Process] /\ proc'[Cli].st = "none"
      /\ \A p \in Proc : Ousts(p)
  <2>1. \A x \in Actor : /\ [proc[x] EXCEPT !.live = FALSE] \in Process
                         /\ [proc[x] EXCEPT !.live = FALSE].st = proc[x].st
                         /\ [proc[x] EXCEPT !.live = FALSE].live = FALSE
                         /\ proc[x] \in Process
    BY <1>2 DEF Process
  <2>2. /\ proc' = [p \in Actor |->
                      IF p = Cli THEN Gone
                      ELSE IF p \in Open THEN [proc[p] EXCEPT !.live = FALSE] ELSE proc[p]]
    BY <1>1, <1>2
  <2>3. proc' \in [Actor -> Process] /\ proc'[Cli].st = "none"
    BY <1>2, <2>1, <2>2, Processes
  <2>4. ASSUME NEW p \in Proc PROVE Ousts(p)
    BY <1>2, <2>1, <2>2 DEF Ousts, Actor
  <2>5. QED
    BY <2>3, <2>4
<1>8. StrayLog' = FALSE
  BY <1>3 DEF StrayLog
<1>9. QED
  BY <1>1, <1>2, <1>3, <1>4, <1>6, <1>7, <1>8, OustSteps

-------------------------------------------------------------------------------
(* The theorems                                                            *)

LEMMA InitInv == Init => Inv
<1> SUFFICES ASSUME Init PROVE Inv
  OBVIOUS
<1>1. Gone \in Process /\ Gone.st = "none" /\ Gone.live = TRUE /\ 1 \in Version
  BY Processes, ReleaseAssumption DEF Version
<1>2. proc \in [Actor -> Process] /\ \A x \in Actor : proc[x] = Gone
  BY <1>1 DEF Init, Actor
<1>3. Tools
  BY <1>1 DEF Init, Tools, IdleScript
<1> DEFINE log == [i \in 1..Schema[1] |-> i]
<1>4. log \in Seq(Nat) /\ Straight(log)
  <2>1. Schema[1] \in Nat
    BY <1>1, ReleaseAssumption DEF Version
  <2>2. QED
    BY <2>1 DEF Straight
<1>5. main \in Mains /\ main.log = log /\ main.rows = {} /\ main.mixed = FALSE
  <2>1. main = [log |-> log, rows |-> {}, mixed |-> FALSE]
    BY DEF Init
  <2> HIDE DEF log
  <2>2. QED
    BY <1>4, <2>1 DEF Mains
<1> HIDE DEF log
<1>6. wal \in Wals /\ wal.on = FALSE /\ Straight(wal.log)
  BY NoLogIs DEF Init
<1>7. Files
  BY <1>5, <1>6 DEF Init, Files, Mains, Wals
<1>8. LogInv
  BY <1>4, <1>5, <1>6 DEF LogInv
<1>9. LockInv /\ FreshInv /\ CountInv /\ StrayInv
  BY <1>1, <1>2 DEF LockInv, FreshInv, CountInv, StrayInv, HasDb, Actor
<1>10. RestoreInv
  <2>1. Cli \in Actor /\ ~Restoring /\ proc[Cli].st # "swapped"
    BY <1>1, <1>2 DEF Restoring, Actor
  <2>2. Open = {}
    BY <1>1, <1>2 DEF Open, Actor
  <2>3. acked = {}
    BY DEF Init
  <2>4. ~StrayLog
    BY <1>6 DEF StrayLog
  <2>5. QED
    BY <1>5, <2>1, <2>2, <2>3, <2>4 DEF RestoreInv
<1>11. QED
  BY <1>2, <1>3, <1>7, <1>8, <1>9, <1>10 DEF Inv

LEMMA NextInv == Inv /\ [Next]_vars => Inv'
<1> SUFFICES ASSUME Inv, [Next]_vars PROVE Inv'
  OBVIOUS
<1>1. CASE ScriptStep
  BY <1>1, ScriptSteps
<1>2. ASSUME NEW p \in Proc, TakeLock(p) \/ OpenState(p) \/ Serve(p) \/ Commit(p) \/ ShutDown(p)
      PROVE  Inv'
  BY <1>2, TakeLockSteps, OpenSteps, ServeSteps, CommitSteps, ShutDownSteps
<1>3. ASSUME NEW x \in Actor, Backup(x) \/ Apply(x) PROVE Inv'
  BY <1>3, BackupSteps, ApplySteps
<1>4. CASE CliMigrate \/ CliRestore \/ RestoreSwaps \/ RestoreCleans \/ CliEnds
  BY <1>4, CliMigrateSteps, CliRestoreSteps, RestoreSwapsSteps, RestoreCleansSteps, CliEndsSteps
<1>5. CASE UNCHANGED vars
  BY <1>5
  DEF vars, Inv, Tools, Files, LockInv, FreshInv, LogInv, CountInv, StrayInv, StrayLog,
      RestoreInv, Restoring, Open, Image
<1>6. QED
  BY <1>1, <1>2, <1>3, <1>4, <1>5 DEF Next, Boots, Migrates, ScriptStep, Actor

LEMMA Invariant == Spec => []Inv
BY InitInv, NextInv, PTL DEF Spec

\* The process lock keeps every server but one away from the database, whatever
\* the scripts, systemd, the operator and recycled pids do (src/src/cli/state.ts).
THEOREM OnlyOneServer == Spec => []OneServer
<1> DEFINE Holders == {p \in Proc : proc[p].st \in {"open", "migrate", "apply", "up", "stop"}}
<1>1. Inv => OneServer
  <2> SUFFICES ASSUME Inv PROVE OneServer
    OBVIOUS
  <2>1. Holders \subseteq {lock}
    BY DEF Inv, LockInv, HasDb
  <2>2. IsFiniteSet({lock}) /\ Cardinality({lock}) = 1
    BY FS_Singleton
  <2>3. Cardinality(Holders) <= 1
    <3> HIDE DEF Holders
    <3>1. QED
      BY <2>1, <2>2, FS_Subset
  <2>4. QED
    BY <2>3 DEF OneServer
<1>2. QED
  BY <1>1, Invariant, PTL

\* What a server acknowledged is in what the next boot reads, over deaths at every
\* step, checkpoints, migrations of a second process and restores, unless a restore
\* met a booting server or died half way (src/src/cli/state.ts).
THEOREM AckedIsKept == Spec => []AckedSurvive
<1>1. Inv => AckedSurvive
  BY DEF Inv, RestoreInv, AckedSurvive
<1>2. QED
  BY <1>1, Invariant, PTL

\* Every migration is applied once and in order, and a server that serves has all
\* that its binary knows, also when two processes migrate at the same time
\* (src/src/lib/migrations.ts).
THEOREM SchemaIsServed == Spec => []ServesItsSchema
<1>1. Inv => ServesItsSchema
  <2> SUFFICES ASSUME Inv PROVE ServesItsSchema
    OBVIOUS
  <2>1. /\ \A n \in DOMAIN Image.log : Image.log[n] = n
    BY ImageFacts DEF Straight
  <2>2. ASSUME NEW p \in Up, proc[p].live
        PROVE  Len(Image.log) >= Schema[proc[p].ver]
    <3>1. p \in Actor /\ proc[p] \in Process /\ proc[p].st = "up"
      BY DEF Inv, Up, Actor
    <3>2. proc[p].live = TRUE
      BY <2>2, <3>1 DEF Process
    <3>3. Schema[proc[p].ver] \in Nat /\ Schema[proc[p].ver] <= Len(Image.log)
      BY <3>1, <3>2, Processes DEF Inv, CountInv
    <3>4. QED
      BY <3>3, ImageFacts
  <2>3. QED
    BY <2>1, <2>2 DEF ServesItsSchema
<1>2. QED
  BY <1>1, Invariant, PTL

===============================================================================

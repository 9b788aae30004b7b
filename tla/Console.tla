------------------------------- MODULE Console --------------------------------
(***************************************************************************)
(* One browser tab of the console and the server it talks to: the polled   *)
(* list (frontend/src/app/App.tsx), the detail sheet with its live deploy  *)
(* banner and log panel (screens/ServiceDetail.tsx), the web terminal      *)
(* (screens/modals/Terminal.tsx), and behind them the deploy stream        *)
(* (routes/deploy-stream.ts), the log stream, the redeploy watcher and the *)
(* shells (routes/service-ops.ts, services/exec.ts) with their one-shot    *)
(* tokens (lib/state.ts).                                                  *)
(*                                                                         *)
(* Granularity.  An action is the code between two awaits, on the server   *)
(* or in the tab, with the React effects its state change triggers.  What  *)
(* is in flight is a set of answers: they arrive in any order.             *)
(*                                                                         *)
(* The tab looks at one service.  What deploys it is a job of the queue,   *)
(* reduced to a row that settles.                                          *)
(***************************************************************************)
EXTENDS Integers, FiniteSets

CONSTANTS
    MaxRows,     \* deployments rows that are ever made
    MaxStreams,  \* log streams that are ever started
    MaxShells,   \* terminals that are ever opened
    ShellCap,    \* MAX_EXEC_SESSIONS
    MaxPolls,    \* detail polls in flight at once
    MaxEvents    \* deploys, clicks, restarts, lost clients, ... altogether

ASSUME ConsoleAssumption ==
    /\ {MaxRows, MaxStreams, MaxShells, MaxPolls, ShellCap} \subseteq Nat \ {0}
    /\ MaxEvents \in Nat

DeploymentRow == 1..MaxRows
Stream == 1..MaxStreams
Shell == 1..MaxShells

VARIABLES
    \* the server
    rows,        \* the service's deployments, and who will settle each
    registered,  \* is the service in the registry?
    session,     \* does the tab's cookie still verify?
    \* the tab
    listed,      \* App: is the service in the list on screen?
    sheet,       \* the detail sheet: closed, loading, stuck or shown
    polls,       \* answers to the detail poll in flight
    view,        \* the deployments the sheet shows
    banner,      \* LiveDeployBanner: the row it follows, its EventSource
    panel,       \* LogsPanel: mounted, startingRef, streamRef
    stream,      \* each log stream: its tab end, its handler and kubectl
    term,        \* the terminal modal on screen, 0 for none
    shell,       \* each terminal: its socket, its session and kubectl
    events       \* how many bounded events have happened

detail == <<sheet, polls, view, banner>>
logs == <<panel, stream>>
shells == <<term, shell>>
consoleVars == <<rows, registered, session, listed, detail, logs, shells, events>>

\* A row that is applying is settled by its queued job, by the watcher of the
\* process that restarted the rollout, or by nobody once that process is gone.
Applying == {"job", "watched", "lost"}
Settled == {"done", "failed"}
NoRows == [r \in DeploymentRow |-> "none"]
NoBanner == [row |-> 0, es |-> "closed"]
NoPanel == [on |-> FALSE, starting |-> FALSE, ref |-> 0]
NoStream == [es |-> "unused", mine |-> FALSE, gen |-> "none", aborted |-> FALSE,
             proc |-> "none"]
NoShell == [ws |-> "unused", entry |-> FALSE, proc |-> "none"]

ConsoleInit ==
    /\ rows = NoRows /\ registered = TRUE /\ session = TRUE
    /\ listed = FALSE
    /\ sheet = "closed" /\ polls = {} /\ view = NoRows /\ banner = NoBanner
    /\ panel = NoPanel /\ stream = [s \in Stream |-> NoStream]
    /\ term = 0 /\ shell = [k \in Shell |-> NoShell]
    /\ events = 0

Event == events < MaxEvents /\ events' = events + 1
Quiet == UNCHANGED events

-------------------------------------------------------------------------------
(* The deployments table *)

NextRow(r) == rows[r] = "none" /\ \A q \in DeploymentRow : q < r => rows[q] # "none"

\* A deploy is accepted: a job, which survives restarts, will settle its row.
PostDeploy(r) ==
    /\ Event
    /\ registered /\ NextRow(r)
    /\ rows' = [rows EXCEPT ![r] = "job"]
    /\ UNCHANGED <<registered, session, listed, detail, logs, shells>>

\* Redeploy restarts the rollout and leaves its row to a promise of the process.
PostRedeploy(r) ==
    /\ Event
    /\ registered /\ NextRow(r)
    /\ rows' = [rows EXCEPT ![r] = "watched"]
    /\ UNCHANGED <<registered, session, listed, detail, logs, shells>>

JobSettles(r, st) ==
    /\ Quiet
    /\ rows[r] = "job"
    /\ rows' = [rows EXCEPT ![r] = st]
    /\ UNCHANGED <<registered, session, listed, detail, logs, shells>>

\* rollout status ended, by its exit code or its timeout.
WatcherSettles(r, st) ==
    /\ Quiet
    /\ rows[r] = "watched"
    /\ rows' = [rows EXCEPT ![r] = st]
    /\ UNCHANGED <<registered, session, listed, detail, logs, shells>>

\* What a row looks like from outside.
Shown(r) == IF rows[r] \in Applying THEN "applying" ELSE rows[r]

\* GET deployments: an error answer has no items and reads as none.
Deployments == IF session /\ registered THEN [r \in DeploymentRow |-> Shown(r)] ELSE NoRows

-------------------------------------------------------------------------------
(* Log streams.  es is the EventSource, mine whether its panel is the one on *)
(* screen, gen the route's handler, aborted the request's signal.            *)

\* The browser ends a connection: the server has yet to notice.
Closed(s) == [stream[s] EXCEPT !.es = IF @ = "open" THEN "closed" ELSE @]

\* stopStream(streamRef)
CloseRef(str) ==
    [s \in Stream |-> IF s = panel.ref THEN Closed(s) ELSE str[s]]

\* The panel leaves the screen: its cleanup stops the stream it holds.  A start
\* that still waits for its token goes on without a panel.
Unmounted == [s \in Stream |-> [CloseRef(stream)[s] EXCEPT !.mine = FALSE]]

MayStart == ~panel.starting

\* start(): stop what is running, then ask for a one-shot token.
StartLogs(s) ==
    /\ Event
    /\ panel.on /\ MayStart
    /\ stream[s].es = "unused" /\ \A q \in Stream : q < s => stream[q].es # "unused"
    /\ stream' = [CloseRef(stream) EXCEPT ![s].es = "minting", ![s].mine = TRUE]
    /\ panel' = [panel EXCEPT !.starting = TRUE, !.ref = 0]
    /\ UNCHANGED <<rows, registered, session, listed, detail, shells>>

\* POST /services/:name/logs/token, which anyone who is logged in may ask for.
LogTokenGranted == session /\ registered

\* The token arrives and the stream is opened, also when the panel was paused
\* or has gone meanwhile.
LogTokenArrives(s) ==
    /\ Quiet
    /\ stream[s].es = "minting"
    /\ LET granted == LogTokenGranted IN
         /\ stream' = [stream EXCEPT ![s].es = IF granted THEN "open" ELSE "refused"]
         /\ panel' = IF stream[s].mine
                     THEN [panel EXCEPT !.starting = FALSE,
                                        !.ref = IF granted THEN s ELSE @]
                     ELSE panel
    /\ UNCHANGED <<rows, registered, session, listed, detail, shells>>

\* Pause, or another pod, container or workload.
StopLogs ==
    /\ Quiet
    /\ panel.on /\ panel.ref # 0
    /\ stream' = CloseRef(stream)
    /\ panel' = [panel EXCEPT !.ref = 0]
    /\ UNCHANGED <<rows, registered, session, listed, detail, shells>>

\* The tab hears end or an error: its handler closes what the panel holds.
Heard(s) == [panel EXCEPT !.ref = IF stream[s].mine /\ @ = s THEN 0 ELSE @]

\* A token is redeemed once: the request of the stream that it was made for is the only one.
RedeemLogToken(s) == stream[s].es \in {"open", "closed", "vanished"} /\ stream[s].gen = "none"

\* The request redeems the token, then waits for the list of pods.
LogRequest(s) ==
    /\ Quiet
    /\ RedeemLogToken(s)
    /\ stream' = [stream EXCEPT ![s].gen = "checking"]
    /\ UNCHANGED <<rows, registered, session, listed, detail, panel, shells>>

\* The token has expired, or the service or its pod is gone.
LogRefused(s) ==
    /\ Quiet
    /\ \/ stream[s].gen = "checking"
       \/ stream[s].es = "open" /\ stream[s].gen = "none"
    /\ stream' = [stream EXCEPT ![s] = [Closed(s) EXCEPT !.gen = "off"]]
    /\ panel' = Heard(s)
    /\ UNCHANGED <<rows, registered, session, listed, detail, shells>>

\* Mutant: a signal that was aborted before the listener was added is missed.
SpawnedUnaware(s) == [stream[s] EXCEPT !.gen = "on", !.proc = "running"]

\* kubectl logs -f is started, and killed at once if the client left meanwhile.
Spawned(s) ==
    IF stream[s].aborted THEN [stream[s] EXCEPT !.gen = "off", !.proc = "ended"]
    ELSE [stream[s] EXCEPT !.gen = "on", !.proc = "running"]

LogSpawn(s) ==
    /\ Quiet
    /\ stream[s].gen = "checking"
    /\ stream' = [stream EXCEPT ![s] = Spawned(s)]
    /\ UNCHANGED <<rows, registered, session, listed, detail, panel, shells>>

\* The request's signal: onAbort kills kubectl and wakes the generator, whose
\* finally does it again.
LogAborts(s) ==
    /\ ~stream[s].aborted
    /\ stream' = [stream EXCEPT ![s].aborted = TRUE,
                      ![s].gen = IF @ = "on" THEN "off" ELSE @,
                      ![s].proc = IF @ = "running" THEN "ended" ELSE @]
    /\ UNCHANGED <<rows, registered, session, listed, detail, panel, shells>>

\* The connection was closed by the browser.
ClientClosed(s) ==
    /\ Quiet
    /\ stream[s].es = "closed" /\ stream[s].gen \in {"checking", "on"}
    /\ LogAborts(s)

\* A client that vanished is noticed by a write, and an idle pod writes nothing:
\* the heartbeat does.
LogHeartbeat(s) ==
    /\ Quiet
    /\ stream[s].es = "vanished" /\ stream[s].gen = "on"
    /\ LogAborts(s)

\* kubectl exits: both drains finish, end is sent.
LogEnds(s) ==
    /\ Quiet
    /\ stream[s].gen = "on"
    /\ stream' = [stream EXCEPT ![s] = [Closed(s) EXCEPT !.gen = "off", !.proc = "ended"]]
    /\ panel' = Heard(s)
    /\ UNCHANGED <<rows, registered, session, listed, detail, shells>>

-------------------------------------------------------------------------------
(* Terminals and shells.  ws is the socket, entry its place in execSessions. *)

\* The modal opens and asks for a token, after which the pod is verified.
OpenTerminal(k) ==
    /\ Event
    /\ panel.on /\ term = 0
    /\ shell[k].ws = "unused" /\ \A q \in Shell : q < k => shell[q].ws # "unused"
    /\ shell' = [shell EXCEPT ![k].ws = "minting"]
    /\ term' = k
    /\ UNCHANGED <<rows, registered, session, listed, detail, logs>>

\* Mutant: the token of a terminal that was closed still opens its socket.
WantedAlways(k) == TRUE

\* disposed
Wanted(k) == term = k

\* POST /services/:name/exec/token: the pod is one of the service's.
ExecTokenGranted == session /\ registered

TerminalToken(k) ==
    /\ Quiet
    /\ shell[k].ws = "minting"
    /\ shell' = [shell EXCEPT ![k].ws = IF Wanted(k) /\ ExecTokenGranted
                                        THEN "open" ELSE "refused"]
    /\ UNCHANGED <<rows, registered, session, listed, detail, logs, term>>

\* The modal's cleanup: the socket it opened is closed.
Disposed == [k \in Shell |-> IF k = term /\ shell[k].ws = "open"
                             THEN [shell[k] EXCEPT !.ws = "closed"] ELSE shell[k]]

CloseTerminal ==
    /\ Quiet
    /\ term # 0
    /\ shell' = Disposed
    /\ term' = 0
    /\ UNCHANGED <<rows, registered, session, listed, detail, logs>>

Entries == {k \in Shell : shell[k].entry}

Room == Cardinality(Entries) < ShellCap

\* A token is redeemed once.
RedeemExecToken(k) == shell[k].ws \in {"open", "closed", "vanished"} /\ shell[k].proc = "none"

\* open(ws): the cap, then the token, then the shell and its place in the map.
ShellOpens(k) ==
    /\ Quiet
    /\ RedeemExecToken(k)
    /\ Room /\ registered
    /\ shell' = [shell EXCEPT ![k].entry = TRUE, ![k].proc = "running"]
    /\ UNCHANGED <<rows, registered, session, listed, detail, logs, term>>

\* Too many shells, an expired token, or no such service: the socket is closed.
ShellRefused(k) ==
    /\ Quiet
    /\ shell[k].ws = "open" /\ shell[k].proc = "none"
    /\ shell' = [shell EXCEPT ![k].ws = "refused"]
    /\ UNCHANGED <<rows, registered, session, listed, detail, logs, term>>

\* teardown(): kill kubectl, close the socket, once.
TornDown(k) == [shell[k] EXCEPT !.ws = IF @ = "open" THEN "closed" ELSE @,
                                !.proc = "ended"]

\* The lifetime or idle timer, too much output, or the end of kubectl: a client
\* that vanished is found by the timers only.
ShellEnds(k) ==
    /\ Quiet
    /\ shell[k].proc = "running"
    /\ shell' = [shell EXCEPT ![k] = TornDown(k)]
    /\ UNCHANGED <<rows, registered, session, listed, detail, logs, term>>

\* close(ws): tear the session down and free its place.
ShellClosed(k) ==
    /\ Quiet
    /\ shell[k].entry
    /\ shell[k].ws = "closed" \/ shell[k].proc = "ended"
    /\ shell' = [shell EXCEPT ![k] = [TornDown(k) EXCEPT !.entry = FALSE]]
    /\ UNCHANGED <<rows, registered, session, listed, detail, logs, term>>

-------------------------------------------------------------------------------
(* The detail sheet and its banner *)

\* The newest row that is still applying.
Newest(v) == LET act == {r \in DeploymentRow : v[r] = "applying"}
             IN  IF act = {} THEN 0 ELSE CHOOSE r \in act : \A q \in act : q <= r

\* Mutant: the effect runs once, not per row.
BannerOnce(v) == IF banner.row # 0 \/ Newest(v) = 0 THEN banner
                 ELSE [row |-> Newest(v), es |-> "open"]

\* The effect keyed by the active row: its old stream is closed, a new one opened.
BannerFor(v) ==
    IF Newest(v) = banner.row THEN banner
    ELSE [row |-> Newest(v), es |-> IF Newest(v) = 0 THEN "closed" ELSE "open"]

Show(v) == view' = v /\ banner' = BannerFor(v)

OpenSheet ==
    /\ Quiet
    /\ listed /\ sheet = "closed" /\ term = 0
    /\ sheet' = "loading"
    /\ UNCHANGED <<rows, registered, session, listed, polls, view, banner, logs, shells>>

\* fullLoad, once per opening: without a service the sheet keeps its skeleton.
FullLoad ==
    /\ Quiet
    /\ sheet = "loading"
    /\ sheet' = IF session /\ registered THEN "shown" ELSE "stuck"
    /\ IF session /\ registered THEN Show(Deployments)
       ELSE view' = NoRows /\ banner' = NoBanner
    /\ UNCHANGED <<rows, registered, session, listed, polls, logs, shells>>

\* The poll every two seconds, whether or not the last one has answered.
PollAnswered ==
    /\ Quiet
    /\ sheet # "closed" /\ Cardinality(polls) < MaxPolls
    /\ polls' = polls \cup {Deployments}
    /\ UNCHANGED <<rows, registered, session, listed, sheet, view, banner, logs, shells>>

PollArrives(v) ==
    /\ Quiet
    /\ v \in polls
    /\ polls' = polls \ {v}
    /\ IF sheet = "shown" THEN Show(v) ELSE view' = v /\ UNCHANGED banner
    /\ UNCHANGED <<rows, registered, session, listed, sheet, logs, shells>>

\* The deploy stream polls the row: a settled one is sent and the stream ends.
BannerEnds ==
    /\ Quiet
    /\ banner.es = "open" /\ rows[banner.row] \in Settled
    /\ banner' = [banner EXCEPT !.es = "closed"]
    /\ UNCHANGED <<rows, registered, session, listed, sheet, polls, view, logs, shells>>

OpenRuntime ==
    /\ Quiet
    /\ sheet = "shown" /\ ~panel.on /\ term = 0
    /\ panel' = [NoPanel EXCEPT !.on = TRUE]
    /\ UNCHANGED <<rows, registered, session, listed, detail, stream, shells>>

LeaveRuntime ==
    /\ Quiet
    /\ panel.on /\ term = 0
    /\ stream' = Unmounted
    /\ panel' = NoPanel
    /\ UNCHANGED <<rows, registered, session, listed, detail, shells>>

\* Answers still in flight find alive = false.
SheetGone ==
    /\ sheet' = "closed" /\ polls' = {} /\ view' = NoRows /\ banner' = NoBanner
    /\ stream' = Unmounted /\ panel' = NoPanel

CloseSheet ==
    /\ Quiet
    /\ sheet # "closed" /\ term = 0
    /\ SheetGone
    /\ UNCHANGED <<rows, registered, session, listed, shells>>

-------------------------------------------------------------------------------
(* The list of services *)

\* An answer without the service, or an error's empty one, closes its sheet and
\* its modal.
Load ==
    /\ Quiet
    /\ listed' = (session /\ registered)
    /\ IF listed' \/ sheet = "closed" THEN UNCHANGED <<detail, logs, shells>>
       ELSE SheetGone /\ shell' = Disposed /\ term' = 0
    /\ UNCHANGED <<rows, registered, session>>

-------------------------------------------------------------------------------
(* What happens to the tab, the session and the server *)

\* Every connection of the tab ends, by a reload or because the client vanished.
TabGone(how) ==
    /\ listed' = FALSE
    /\ sheet' = "closed" /\ polls' = {} /\ view' = NoRows /\ banner' = NoBanner
    /\ stream' = [s \in Stream |-> [stream[s] EXCEPT !.mine = FALSE,
                      !.es = CASE @ = "open" -> how [] @ = "minting" -> "refused"
                               [] OTHER -> @]]
    /\ panel' = NoPanel
    /\ shell' = [k \in Shell |-> [shell[k] EXCEPT
                      !.ws = CASE @ = "open" -> how [] @ = "minting" -> "refused"
                               [] OTHER -> @]]
    /\ term' = 0

\* The page is loaded again and the operator signs in.
Reload ==
    /\ Event
    /\ TabGone("closed")
    /\ session' = TRUE
    /\ UNCHANGED <<rows, registered>>

\* The network or the machine is lost: no connection is closed.  Another tab.
Vanish ==
    /\ Event
    /\ TabGone("vanished")
    /\ UNCHANGED <<rows, registered, session>>

SessionExpires ==
    /\ Event
    /\ session' = FALSE
    /\ UNCHANGED <<rows, registered, listed, detail, logs, shells>>

ServiceDeleted ==
    /\ Event
    /\ registered' = FALSE
    /\ UNCHANGED <<rows, session, listed, detail, logs, shells>>

\* The server restarts: requests in flight fail, streams and shells end, the
\* watchers' rows are left as they are.
Restart ==
    /\ Event
    /\ rows' = [r \in DeploymentRow |-> IF rows[r] = "watched" THEN "lost" ELSE rows[r]]
    /\ polls' = {}
    /\ sheet' = IF sheet = "loading" THEN "stuck" ELSE sheet
    /\ banner' = [banner EXCEPT !.es = "closed"]
    /\ panel' = [panel EXCEPT !.starting = FALSE, !.ref = 0]
    /\ stream' = [s \in Stream |-> [stream[s] EXCEPT
                      !.es = IF @ \in {"open", "minting"} THEN "refused" ELSE @,
                      !.gen = IF @ = "none" THEN @ ELSE "off",
                      !.proc = IF @ = "running" THEN "ended" ELSE @]]
    /\ shell' = [k \in Shell |-> [shell[k] EXCEPT
                      !.ws = IF @ \in {"open", "minting"} THEN "refused" ELSE @,
                      !.entry = FALSE,
                      !.proc = IF @ = "running" THEN "ended" ELSE @]]
    /\ UNCHANGED <<registered, session, listed, view, term>>

-------------------------------------------------------------------------------
ConsoleNext ==
    \/ \E r \in DeploymentRow : \/ PostDeploy(r) \/ PostRedeploy(r)
                     \/ \E st \in Settled : JobSettles(r, st) \/ WatcherSettles(r, st)
    \/ \E s \in Stream : \/ StartLogs(s) \/ LogTokenArrives(s) \/ LogRequest(s)
                        \/ LogRefused(s) \/ LogSpawn(s) \/ ClientClosed(s)
                        \/ LogHeartbeat(s) \/ LogEnds(s)
    \/ StopLogs
    \/ \E k \in Shell : \/ OpenTerminal(k) \/ TerminalToken(k) \/ ShellOpens(k)
                       \/ ShellRefused(k) \/ ShellEnds(k) \/ ShellClosed(k)
    \/ CloseTerminal
    \/ OpenSheet \/ FullLoad \/ PollAnswered \/ BannerEnds
    \/ \E v \in polls : PollArrives(v)
    \/ OpenRuntime \/ LeaveRuntime \/ CloseSheet
    \/ Load
    \/ Reload \/ Vanish \/ SessionExpires \/ ServiceDeleted \/ Restart

ConsoleSpec == ConsoleInit /\ [][ConsoleNext]_consoleVars

\* Timers fire, answers that were sent arrive, handlers go on, rows with a job or
\* a living watcher settle.  Nothing is asked of the operator.
RowGoesOn(r) == \E st \in Settled : JobSettles(r, st) \/ WatcherSettles(r, st)
StreamGoesOn(s) == \/ LogTokenArrives(s) \/ LogSpawn(s) \/ LogRefused(s)
                   \/ ClientClosed(s) \/ LogHeartbeat(s)
ShellGoesOn(k) == \/ TerminalToken(k) \/ ShellOpens(k) \/ ShellRefused(k)
                  \/ ShellEnds(k) \/ ShellClosed(k)

ConsoleFairSpec ==
    /\ ConsoleSpec
    /\ \A r \in DeploymentRow : WF_consoleVars(RowGoesOn(r))
    /\ \A s \in Stream : WF_consoleVars(StreamGoesOn(s))
    /\ \A k \in Shell : WF_consoleVars(ShellGoesOn(k))
    /\ WF_consoleVars(FullLoad) /\ WF_consoleVars(BannerEnds)
    /\ WF_consoleVars(PollAnswered) /\ WF_consoleVars(\E v \in polls : PollArrives(v))

-------------------------------------------------------------------------------
(* Properties *)

ConsoleTypeOK ==
    /\ rows \in [DeploymentRow -> {"none"} \cup Applying \cup Settled]
    /\ registered \in BOOLEAN /\ session \in BOOLEAN
    /\ listed \in BOOLEAN
    /\ sheet \in {"closed", "loading", "stuck", "shown"}
    /\ view \in [DeploymentRow -> {"none", "applying"} \cup Settled]
    /\ \A v \in polls : v \in [DeploymentRow -> {"none", "applying"} \cup Settled]
    /\ banner \in [row : DeploymentRow \cup {0}, es : {"open", "closed"}]
    /\ panel \in [on : BOOLEAN, starting : BOOLEAN, ref : Stream \cup {0}]
    /\ stream \in [Stream -> [es : {"unused", "minting", "refused", "open", "closed",
                                    "vanished"},
                              mine : BOOLEAN, gen : {"none", "checking", "on", "off"},
                              aborted : BOOLEAN, proc : {"none", "running", "ended"}]]
    /\ term \in Shell \cup {0}
    /\ shell \in [Shell -> [ws : {"unused", "minting", "refused", "open", "closed",
                                  "vanished"},
                            entry : BOOLEAN, proc : {"none", "running", "ended"}]]
    /\ events \in 0..MaxEvents

\* No socket to a shell is open behind a terminal that was closed, however late
\* its token arrived (Terminal.tsx:31, 74-79).
NoShellBehindAClosedTerminal ==
    \A k \in Shell : shell[k].ws = "open" => term = k

\* Whoever leaves, and however late it is noticed, no kubectl outlives its client
\* for ever: neither a log stream, also one whose client left while its pod was
\* looked up, nor a shell (service-ops.ts:133-138, exec.ts:45-49).
Orphans == {s \in Stream : stream[s].proc = "running" /\ stream[s].es # "open"}
             \cup {k \in Shell : shell[k].proc = "running" /\ shell[k].ws # "open"}
NoKubectlWithoutClient == []<>(Orphans = {})

\* A sheet that stays open ends up showing the table as it is, with a banner for
\* the deploy that runs and no stream for one that has settled: polls that cross
\* and streams that break are made good (ServiceDetail.tsx:97-105, 367-391).
SheetCatchesUp ==
    <>[](sheet = "shown" /\ session /\ registered)
        => <>[](/\ view = Deployments /\ banner.row = Newest(view)
                /\ banner.es = "open" => rows[banner.row] \in Applying)

===============================================================================

# Celeste Hyper: verification project

TLA+ models of the Celeste Hyper server, its console and its scripts, the TLC runs that
check them on small instances, and TLAPS proofs of theorems about them for every value
of the constants. Paths below are relative to the repository (`src/queue/queue.ts` is
the server's queue, `frontend/` the console, `deploy/` the scripts, `docs/` the
documentation).

## The system

Hyper is one Bun process: an HTTP API with an embedded UI, a SQLite database
(synchronous statements, WAL), a persistent job queue with one worker loop, a
poller, an alert watcher, and child processes (`kubectl`, `helm`, `git`). Its
concurrency is that of one event loop: code between two awaits is atomic, every
await lets requests, timers and the poller run. A second process on the same
database can exist for a while (a restart that overlaps with the old process, a
stalled process that wakes up), which is what leases, the lock and the fencing
token are for. Around it are browser tabs that share a cookie jar, CI with machine
tokens, registries that post webhooks, machines that enroll, and shell scripts that
swap the binary.

| Component | State | Operations | Hard behaviour | What makes it correct |
|---|---|---|---|---|
| Queue, lock, worker (`src/queue/`, `src/lib/lock.ts`) | tables `jobs`, `locks`, `current_deployment`; the loop's job and token | enqueue, claim, defer, heartbeat, complete, fail, noRetry, cancel, reap; acquire, renew, release, fenced write | leases that expire, stalls, crashes, two processes, retries | one handler per service, stale writes refused, attempts accounted for, jobs settle |
| Deploy pipeline (`src/queue/handlers/`, `src/routes/deployments.ts`, `helm.ts`, `integrations.ts`) | `deployments`, `current_deployment`, `service_degraded`, the workload's image history | deploy, rollback, cancel, undegrade, helm upgrade, webhook push; the three handlers | requests between the awaits of a handler, retries of non-idempotent steps, crashes between statements, the 10 s grace window | automatic rollbacks do not stack and do not bring bad images back, degraded means refused, the record is what runs |
| Deployer modes, health gate (`src/services/deploy.ts`, `health-gate.ts`) | the workload, `-canary` and `-green` siblings, the Service selector, sample counters | rolling, recreate, canary, blue-green; one poll | steps that fail half way, leftovers of a crash | traffic never points at a removed or unhealthy workload |
| Deploys from a source (`src/services/poller.ts`, `bundle-import.ts`, `deploy.ts`) | bucket or git ref, work and clone directories, import Jobs, node images | poll, request, download, clone, import, apply, record | two workers on one directory, Jobs of other attempts, partial applies, failing tags | the image precedes the pods, the newest version ends up running |
| Env guard and editors (`src/services/env-guard.ts`, `src/lib/env-files.ts`, `routes/env.ts`, `Env.tsx`) | env files, ConfigMap and Secret, baseline hashes, template hash | edit, save, check, sync, record, restart | edits between check and apply, two editors, three dialects of dotenv | no silent overwrite of drifted values, what is typed is read back |
| Services, templates, ports, purge (`src/routes/services.ts`, `templates.ts`, `src/services/purge.ts`, `port-allocator.ts`) | table `services`, objects in the clusters | create, expose, adopt, move, edit networking, delete, purge, prune, deploy a template | requests that wait for kubectl while others run, check-then-reserve | nothing escapes the purge unaccounted, nobody's namespace is pruned |
| Clusters and enrollment (`src/services/cluster-registry.ts`, `k8s-pool.ts`, `capability-probe.ts`, `enrollment.ts`, `deploy/join.sh`) | tables `clusters`, `cluster_capabilities`, `enrollment_tokens`; kubeconfig files, client cache, health | seed, create, patch, delete, probe; mint, revoke, enroll | answers of probes for a cluster that changed, a crash between token, file and row | a cluster's capabilities and kubeconfig are its own |
| Alerting (`src/services/alerts/`) | tables `alert_state`, `alert_cursors`; queue, promise chain, restart baseline | enqueue, flush, cycle, scan, stop | overlapping cycles, failed sends, scans that are given up and go on | no lost, repeated or endlessly suppressed alert |
| Installation (`src/cli/state.ts`, `src/lib/migrations.ts`, `deploy/install.sh`, `update.sh`) | executables, database and its log, lock and pid files, backups | update, roll back, install, boot, migrate, backup, restore | a death at any step, overlapping boots, recycled pids | one server on the database, no lost commit, every migration once |
| Access and audit (`src/routes/auth.ts`, `_app.ts`, `audit.ts`, `src/lib/audit.ts`, `frontend/src/app/`) | account, sessions, tokens, limiter, audit rows; tabs and their csrf tokens | login, me, password, token and webhook administration, guarded calls, paging | answers out of order, tabs that share a cookie, rows written and pruned under a reader | a tab that is up to date may act, pages miss nothing |
| Console and streams (`frontend/src/screens/`, `src/routes/service-ops.ts`, `deploy-stream.ts`, `src/services/exec.ts`) | list, sheet, banner, log panel, terminal; stream tokens, sessions, kubectl processes | open, poll, follow, stream, attach, close, restart | polls that cross, closing while a token is minted, clients that vanish | no shell or kubectl behind a closed panel, the sheet catches up |

Not state machines of their own, and not modelled: the kubectl/helm/git/R2
wrappers (their outcomes are nondeterministic choices in the models), the
read-only fleet, discovery, scaling and metrics routes, the credentials of image
registries, the R2 sources and the setup that registers services, the text of manifests and logging. See "Not modelled".

## Modules

| Module | What it is |
|---|---|
| `JobLifecycle` | abstract specification of one job: what the queue promises its callers |
| `JobQueue` | queue, lock and worker over shared tables, several processes, a clock |
| `DeployContract` | abstract specification of a service's requests, live image, record and degraded mark |
| `DeployPipeline` | the life of one registry-pull service on top of the queue, with its webhook |
| `DeployModes` | one deploy in its four modes, with gate, selector and rollback, on the cluster it changes |
| `SourceDeploy` | bundles and git refs that hyper watches: poller, import, apply |
| `EnvFiles` | the writer and the two readers of dotenv values, as functions on texts |
| `EnvGuard` | env files, editors, guard, apply and the pods; uses `EnvFiles` |
| `ServiceCatalog` | services, their objects in the clusters, ports, purge and templates |
| `Fleet` | clusters, clients, probes and enrollment |
| `AlertManager` | the alert queue, its cycles and the watcher's tick |
| `AlertScan` | the scan of one namespace, its cursors and restart baseline |
| `Release` | scripts, servers, process lock, migrations and the state CLI |
| `Access` | login, sessions, tokens, guard, audit trail and its reader |
| `Console` | one browser tab, its streams and shells, and the server behind them |
| `MC…` (12 modules) | the TLC instance of each specification |
| `JobQueueProofs`, `DeployPipelineProofs`, `EnvGuardProofs`, `ReleaseProofs` | TLAPS proofs about the module each is named after |
| `DeployerProofs` | TLAPS proofs about `DeployModes` and `SourceDeploy` |
| `AlertingProofs` | TLAPS proofs about `AlertManager` and `AlertScan` |
| `OperatorProofs` | TLAPS proofs about `Fleet` and `Console` |
| `RequestProofs` | TLAPS proofs about `ServiceCatalog` and `Access` |

The modules meet at their borders. `DeployPipeline` and `SourceDeploy` take the queue's
order and attempts from `JobQueue`, and `DeployModes` takes one handler at a time from
both: what `JobQueue` shows of the lock is what lets the others have a single handler,
and `SourceDeploy` has a second worker exactly where the lock was lost. `Fleet` leaves the
services on a cluster to `ServiceCatalog`; `AlertScan` hands over what `AlertManager`
tells; `EnvGuard` is the env step of any deploy. They are not composed by `INSTANCE`: each pair shares little state and the product would not be checkable.

Names that end in a fault (`OwnerGuardAnyHolder`, `PurgePlanShort`, `FinalTagExpected`,
…) are not used by the specifications. They are forms of the definition next to them that
a plausible mistake would produce, and each breaks the property it stands for.

### JobQueue

`job`, `lock` and `current` are the three tables; `worker` is what each process
keeps in memory (`Worker.tick`'s job, token and attempt, the time to the next
heartbeat, whether a stop was asked for). One action is one stretch of
synchronous code: `Tick` is everything from `reapExpiredLeases` to the await of
the handler (`TickNothing`, `TickDefer`, `TickRun` are its outcomes),
`HandlerReturns`/`HandlerThrows` are what follows the await, `Beat` is one
heartbeat, `Enqueue`, `CancelPending` the requests. The handler itself is one
fenced write (`HandlerWrites`) and may throw before or after it; `NoRetry` is
its optional call. Timestamps are kept as the time left until them, and
`Advance` is one unit of time: it is enabled unless a process that does not
stall has something due (`MayStall`). `Stop`, `Crash` and `Start` are the
process's shutdown, death and boot. `postponed` (was the job ever delayed, deferred or
retried?) and `late` (was a heartbeat ever missed?) are history variables: nothing reads
them but properties.

`LifecycleSpec` says that `JobQueue` implements `JobLifecycle`: a job is
inserted, attempted at most its number of times, given back, and ends once.

### DeployPipeline

One registry-pull service with a health gate and `autoRollback`. The queue is the one of
`JobQueue` seen from a single process: lowest due id first, one job at a time;
delays are a flag `due` that `BecomesDue` raises; the lock and the tokens are
left out, because a process that runs alone holds the highest token. `history`
is what kubectl keeps: the revisions of the workload's pod template, oldest
first, where a template that comes back takes a new number and leaves its old
place (`Patched`, `Without`), and a bare `rollout undo` goes to the revision before the
live one (`Undone`). `PushWebhook` is the receiver: the payload forms of the registries,
digests and deletions, image references that are normalised, signature, scope and the
guard against duplicates. Of the tags of a push (`Pushed`) only the first can get a job: it
is the active deploy that makes the others skipped. A handler is cut at its awaits, except that consecutive
awaits with no change of state between them are one wait (rollout status and
gate samples; status and read of the pod template; helm upgrade and its
verification). A kubectl call may take effect and still report an error, or
reach the API server after the process died (`Crash`).
`CrashBeforeNoRetry` and `CrashBeforeComplete` are crashes between two
statements of one stretch; `MidCrash` allows them. A job in a terminal state
forgets the columns nobody reads again (`Ended`).

`ContractSpec` says that this implements `DeployContract`, which has no jobs, attempts or
revisions: `rows` is the row with the kind of its job, `working` the row that the loop works
on, `live` the image of the newest revision, `record` the register. There, one request is
worked on at a time; the image changes for it alone, and to its tag unless it is a
rollback; a cancelled request is never begun; a deploy commits healthy tags only; a
degraded service is not deployed to; and the mark is set by a failed automatic rollback and
taken away by a rollback that is done or by hand.

### DeployModes

`wl` holds the three Deployments a registry-pull service can have (the main one,
`-canary` and `-green`): desired replicas, the tag of the pod template and the one
before it, what the pods run, whether they are ready and how often they restarted, the
strategy and the label set. `selector` is the Service's. `handler.pc` names the kubectl
call the handler waits for; an action is its answer and the code up to the next call.
`Sent` is the cluster once the call has taken effect: an action may find it done, report
an error before or after it was, and `Crash` leaves it to chance. The gate is
`runHealthGate` sample by sample: a failed read, a failed pod listing, a fatal reason, a
jump of restarts over the first sample's baseline, consecutive ready samples, the last
attempt. Pods get ready and crash on their own (`PodsReady`, `PodsCrash`).
`littered` is a history variable: a canary was left behind by a crash or an error.

Outside the repository, and modelled from how it is used: `kubectl apply` merges the
keys of a selector that the manifest does not name, `patchServiceSelector` replaces it
(`src/lib/k8s.ts:201-208`), a Deployment with strategy Recreate removes its pods before
it starts others, `rollout undo` without a revision goes back one.

### SourceDeploy

One service of a cluster, of one of four kinds: a bundle imported on hyper's own node
(`local`), on the nodes of a remote cluster (`remote`), on a cluster whose nodes hyper
may not list (`scoped`, one unpinned Job), and a git ref. `tars`, `yamls` are what CI has
uploaded: the objects of a bundle come one by one, and `listVersions` asks only for the
tar. `disk` and `clone` are the directories that all attempts share, `jobs` the import
Jobs by version and node, `image` the nodes' containerd. The poller is cut at its await
(`PollLooks`, `PollDecides`: it decides on what it saw before). `workers` is the handlers
that run, by fencing token; `Lapse` takes the lock and the job from the youngest, which
goes on while the job is run again. `workers[i].at` names the await; every kubectl call,
download and clone may fail (`DownloadBreaks`, `ApplyBreaks`, `RestBreaks`, `CallBreaks`,
the outcomes of `ClearJobs` and `PollJobs`), Jobs end, fail, expire (`JobExpires`) and nodes come and
go. `Finish` is the fenced record and the settlement of the job. `stray` is a history
variable: what was last applied by a worker without the lock.

### EnvFiles and EnvGuard

`EnvFiles` translates `serializeRows`, `parseDotenv` of the server and `parseDotenv` of the
browser as operators on sequences of characters, with every escape. `EnvGuard` uses them: a
file holds the text of one key, or is malformed or missing (`file`), `live` is ConfigMap and
Secret, `applied` is kubectl's last-applied record (the three-way merge that `LiveAfter`
does), `baseline` the table of applied hashes, `template` the contents whose hash the pod
template carries, `pods` what the pods were started with. Hashes stand for their contents. A slot in `edits` is an
editor that shows a file (`Open`, `Save`) or a PUT in flight (`Put`, `PutText`,
`PutMerged`, `PutWritten`, `PutAnswered`, with the redeploy it triggers). `job` is a deploy
cut at its awaits: `ReadConfig`, `ReadSecret`, `GuardEnv` with the drift that it
warns of or refuses, `UpsertEnv`, `SetEnvBaseline`, `HashConfig`,
`ApplyDeployment`; there is none while its `at` is "none". `Meaning` is what the cluster
holds of a text once it is applied. `Outside` is anyone else who edits the objects; `Restart` starts the
process again with another guard mode. `pending` and `hashSkew` are history variables: the kinds whose
file was left unapplied for a reason, and pods that started with other values than those
the template's hash was taken of.

### ServiceCatalog

`rows` is the table `services` (place and node port), `objects` what is in the clusters
and in the directory of env files, `ports` the node port each Service there has, `managed` and `foreign` the namespaces with hyper's
label and those with a workload hyper does not know. A slot is a request that waits for
kubectl, what it read when it began and the step it waits for: a creation with an expose
section lists the ports of the cluster, chooses after the await and inserts
(`CreateExposed`, `PortsListed`); a deletion removes the row, purges step by step where a failing
step does not stop the others, and prunes the namespace if its label and its workloads
allow it (`DeleteService`, `PurgeStep`, `LabelRead`, `WorkloadsListed`, `Prune`); a
template applies its namespace, renders its manifests (`Rendered`), registers the service,
writes its env files if there are rows for them, applies the manifests one by one, and removes
the row by its name if one of them fails. `Templates` are the variables an image understands
(required, secret, with a default) and `Orders` what is asked for: there is a Service and a
Deployment, a Secret if a variable with a value is secret, an autoscaler if one is asked for; a
missing variable, crossed bounds of the autoscaler or a bad image refuse the request after its
namespace was made. `StartDeploy` and
`DeployEnds` are a job that applies to the place it read when it started, and puts the row's
port on the Service if the API server gives it (`Gives`). `EditNetworking` and `NetworkPatched`
are `PATCH …/networking`, which changes the Service and leaves the row. `excused` is a
history variable: objects a step left because it failed or was overtaken. `stamp` numbers
the writes of rows, so that properties can tell who came first.

### Fleet

`clusters`, `caps` and `token` are the tables, `cached` and `healthy` the pool's clients and
the last health, `file` the kubeconfigs that enrollment wrote. A probe is a client that was
built before and a row that is written when the cluster answers (`ProbeAnswers`); the poller
visits the enabled clusters one by one, health first, then the capabilities if the row is
stale (`TickStarts`, `HealthAnswers`, `PollerProbeAnswers`). `machine` is how far `join.sh`
is; `Enroll` is the whole synchronous handler: redeem, sanitise the kubeconfig (`Sanitized`:
current context, unique names, verified server, static credentials), refuse an id that is
taken, write the file, insert the row, and the cleanup when the insertion fails. `EnrollLimited` is
the rate limit of the route, which may refuse any post before the service is asked. `EnrollDies` stops it between two of these steps.
`enrolledWith` is a history variable: the file that the cluster's enrollment sent.

### AlertManager and AlertScan

`pending`, `timer`, `flushing` and `chain` are the fields of the class; `cycle` is the
cycle that runs, cut at the answers of Slack; `store` is the table; `watcher` is what
the tick does. A cycle judges all its alerts when it starts (`CycleStarts`), with that
instant as its `now`, then sends the direct messages in order of severity, the grouped
one, and the resolutions. `missed` is a history variable: whether a condition was gone
since a scan last found it. Ages stop growing at `Oldest`. Alerts that are no conditions
are one set, `Event`, whether a scan reads them or `enqueue` brings them.

`AlertScan` is what happens inside `watcher`'s scan, for one container: lines are written
at times, the container crashes and comes back after its back-off, warnings appear. A scan
reads the pods (restart baseline in memory), the events, the log of the run before
(`--previous`) and the log since the cursor, with the limits on bytes and findings, and
hands its findings over at the end. `TimesOut` is `withTimeout`: the tick gives the scan
up, which goes on beside the next one (`scan["stray"]`), moves the same cursors and is
heard by nobody. `excused`, `looked` and `repeats` are history variables that name the
reasons for which something may be lost or told twice.

### Release

`bin` has the executables `current` and `previous` and the checkout, `proc` the servers
and the CLI with the program counter of their boot or command, `lock` and `pid` the two files. The
database is two files: `main` as of the last checkpoint and `wal` with what was committed since; an image is the list
of its migrations and the set of its commits. A boot takes the process lock, opens, backs
up before each pending migration (a checkpoint that other connections may prevent, then a
copy, of which `Keep` are kept), applies it under the write lock and serves. `script` is `update.sh` (save, swap,
restart, health, and back) or `install.sh`; it may die between any two steps and leave a
half-copied executable. With systemd the unit is started whenever it is wanted and down;
without, the script starts the server itself after a wait that may be too short. `CliBackup`,
`CliMigrate`, `CliRestore` are the offline commands, cut where another process can come
between. `Recycled` gives a dead server's pid to a foreign process. `acked` and `harm` are
history variables: commits whose call returned, and the two kinds of restore that go wrong.

### Access

One account, the default admin; browser tabs that share the cookie jar; CI with a machine
token. A request captures the jar when it is sent (`Sends`), waits on the `wire`, is
guarded and handled in one action or, for login and password, in two around the hash
(`LoginReads`, `PasswordReads`), and is answered if the page that sent it is still there.
`expiry` are the signed sessions; the server keeps no list. `MeAnswered` is what gives a
tab its view and csrf token. `MachineCall` is CI with role and scope. An answered
mutation owes an audit row that `onAfterResponse` writes later (`hooks`, `HookRuns`,
`HookFails`); jobs write theirs from the worker. `reader` is the modal that pages through the
trail by keyset while rows are added and pruned. `lapsed` is a history variable.

### Console

`rows` is the table of one service's deployments and who will settle each (a job of the queue, the
watcher of the process that restarted the rollout, or nobody any more). `sheet`, `polls`,
`view`, `banner` are the detail sheet, answers in flight, what it shows and the row it
follows by EventSource. `panel` and `stream` are the log panel and each log stream: tab end,
generator on the server, its abort flag and kubectl; `term` and `shell` the terminal on
screen, its socket, the session entry and kubectl. An action is the code between two awaits on the server or in the tab, with
the React effects that follow its state change. `Vanish` is a client that goes without a
close, `Restart` the server's, `Reload` the tab's.

## Runs

Every run passes: the properties below hold of the code as modelled.

| Run | Instance | Shows |
|---|---|---|
| `queue` | 2 processes that may stall, 2 jobs of 1 service, 2 attempts, fairness | while no heartbeat was missed: `OneHandlerPerService`; stalls or not: `OvertakenOnlyWhenPostponed`, `FencingHolds`, `SettledByItsAttempt`, `LifecycleSpec`, `EveryJobSettles` |
| `pipeline` | adopted service and service with a history, 3 requests, pushes or rollbacks, 2 attempts, mid-statement crashes | `OneAutoRollback`, `RecordedIsLive`, `BadImageNotReapplied`, `ContractSpec` |
| `modes` | 2 deploys or rollbacks in any modes; tags that are good, crash or never start | `FlippedHasReplicas`, `CanaryIsTornDown`, `RecordIsTheWorkload`, `NoTrafficBeforeFlip`, `StaysUp` |
| `sources` | the four kinds, 2 versions, 2 nodes, 2 workers, fairness | `ImageOnEveryNode`, `AutoDeployConverges` |
| `env` | 2 editors or requests in flight, a deploy, outside edits, guard modes warn and block | `EditsReachTheCluster`, `PodsFollow`, `KeepsOutsideEdits`, `SavesReadBack` |
| `catalog` | 2 names, 2 clusters with a namespace each, 2 ports, 3 requests, all of them possibly in flight | `NothingElseStays`, `SharedPortWasUnlisted`, `PruneSparesEarlier` |
| `fleet` | 2 clusters, 2 tokens for one of them, 3 machines, fairness | `KubeconfigIsItsOwn`, `CapabilitiesConverge` |
| `alerts` | a pod condition, the watcher's condition, an event; one direct message per cycle; fairness | `QueuedHasTimer`, `ClosedWasGone`, `GoneIsClosed` |
| `scan` | 1 container, 1 scan that counts and 1 given up | `NothingIsLost`, `NoLineIsToldTwice` |
| `release` | 2 processes and the CLI, 2 versions with 2 migrations between them, 1 transaction | `OneServer`, `AckedSurvive`, `ServesItsSchema` |
| `access` | 2 tabs, CI with 1 token, 1 webhook, 2 services in 2 clusters | `FreshTabsMayAct`, `PagesAreComplete` |
| `console` | 2 deployments, 2 streams, 2 shells, 2 polls in flight, fairness | `NoShellBehindAClosedTerminal`, `NoKubectlWithoutClient`, `SheetCatchesUp` |

Each module also has a `TypeOK`, or one named after it (`SourceTypeOK`); the types of `AlertScan`
are conjuncts of its inductive invariant. The runs leave it out (it says nothing the other
properties need); it holds in each instance, and those of `JobQueue`, `DeployPipeline`, `Fleet`,
`ServiceCatalog`, `SourceDeploy`, `Console` and `Access` are theorems.

**Bounds.** Each is a constant of the module, with its value in the cfg.

- `queue`: two attempts instead of `DEFAULT_MAX_ATTEMPTS` are enough for a retry and for
  exhaustion; a lease of two units with a heartbeat every unit keeps the order
  poll <= heartbeat < lease of the code, which is all the actions compare. Two processes
  are one that is slow and one that takes over; two jobs of one service compete for its
  lock. A behaviour has no bound on its length, only on how
  many jobs are ever enqueued.
- `pipeline`: three new rows (`MaxId`) are one deploy that fails, its automatic rollback
  and one request in between, or two bad deploys and a rollback; three tags are what ran
  before, what runs now and a bad one. `Posts` has one push of each form.
- `modes`: the second start (`MaxStarts`) is a deploy after a flip, after a crash or on
  top of a canary left behind, or the rollback of the first; the main workload starts
  with or without an earlier revision to undo to; four samples with a threshold of two
  let a gate recover, fail and run out, and two restarts are the jump the gate looks for.
- `sources`: two versions are the one that runs and the one that comes; two nodes one with
  and one without the image; two workers the one that lost its lock and its successor.
  `MaxEvents` bounds requests, failures, lapses, crashes and node changes together; what
  fairness drives is not bounded.
- `env`: files hold one key; its value needs every escape, one raw text is in single
  quotes with a backslash before an n, which the browser misreads once the server has
  written it in double quotes, and files may be malformed or missing. Four events (`MaxEvents`) are an edit, a
  deploy, an edit by others and a failure or restart. `envGuard` "off" takes the path of
  "warn" without its checks and is left out of the cfg (`Modes`).
- `catalog`: three requests on two names suffice to create or expose a service, to delete or
  move it, and to create it again, with the earlier ones still waiting for kubectl; the orders
  are a database with an autoscaler and a Secret, an image of one's own, and three that are
  refused when they are rendered. Longer histories are covered by the theorems, which have
  no bound.
- `fleet`: three changes (`MaxChanges`: requests, outages, crashes) on top of two tokens
  that are redeemed in any order; the third machine sends a kubeconfig that must be refused.
- `alerts`: the unit of time is the cooldown, so an age of 0 is within it and 1 is past it;
  a condition may be closed within a unit, which is how it comes back during the cooldown.
  One direct message per cycle makes the rest overflow. The watcher's own condition,
  `Unreadable`, is the second condition.
- `scan`: a stale cursor after three intervals instead of ten, a backlog of two lines and
  one finding per container, so that each limit is met within four units of time and four
  events.
- `release`: three events (`MaxEvents`) are for example an update, a death and a rollback,
  or a stop, a restore and a boot that overlap. One backup is kept (`Keep`), so that one of
  two is pruned.
- `access`: two logins, so that one tab may hold the csrf token of an older one; four events; a session of one unit of time,
  a page of one row, a trail of three rows of which two are kept.
- `console`: three events (`MaxEvents`: redeploys, restarts, reloads, vanishing clients
  and the like), a cap of one shell, so that the second is refused while the first is open.

**Deadlock** is checked in `queue`, `alerts` and `fleet`, where something can always happen. The others run out of bounded events, versions or time, and then rightly stop.

**Fairness.** Stated for what a scheduler, a timer or a timeout of the code drives; never
for a request, a crash, a stop, a failure, or an operator.

- `queue`: weak fairness of time, of the end of a handler, of heartbeats and of a process's
  start, strong fairness of `Tick`, which a stop or a crash disables again and again. The
  event loop runs what is due and the loop reschedules itself
  (`src/queue/worker.ts:61-75`); a supervisor starts a process that died (`restart:
  unless-stopped` in `compose.yaml`). That a handler ends is an assumption: rollouts are
  awaited with `--timeout` (`src/lib/k8s.ts:160-163`), other kubectl calls end when kubectl does.
- `alerts`: weak fairness of time, of the cycle's next step (`postToSlack` aborts after 8 s
  and gives up after three attempts, `src/services/alerts/slack.ts:130-162`) and of the
  watcher's (a scan ends or times out, the next is scheduled in a `finally`,
  `src/services/alerts/watcher.ts:80-90`). What the code cannot give, that the process
  stays up, the namespace can be read and the resolution gets through, is a premise of
  `GoneIsClosed`, not fairness.
- `fleet`: the poller's interval fires, kubectl answers within its request timeout, the 24
  hours of a row pass. `DayPasses` waits for probes, which five seconds bound.
- `sources`: CI uploads what it began, the poller ticks, a worker claims and goes on, import
  Jobs end and expire (they have deadlines). Failures are bounded (`MaxEvents`), so a tag
  that fails for good is not the newest for ever.
- `console`: rows that have a job or a living watcher settle, answers that were sent arrive, streams
  and shells notice what happened to their other end (socket timers and `kubectl` ending with
  its pipes are outside the repository), polls are asked and answered. `SheetCatchesUp` has
  "the sheet stays open, signed in and registered" as its premise.

The other runs have none: their properties are about safety.

**What is weaker than it looks.**

- `OneHandlerPerService` holds until a heartbeat is missed. After
  that two handlers may run; what is left is `FencingHolds`: the record is fenced, the
  cluster is not.
- `BadImageNotReapplied` speaks of deploys that a rollback has ended: with a crash exactly
  between the enqueue of the rollback and `noRetry` (`CrashBeforeNoRetry`) the deploy is not
  ended and does apply the bad image again. That is a window of one statement in
  `src/queue/handlers/deploy.ts:86-89`.
- `StaysUp` says nothing of workloads whose strategy is Recreate: a recreate deploy patches
  the strategy (`src/services/deploy.ts:583-586`) and no step patches it back, so the
  rolling deploys after it take the old pods down first. It also speaks only of Services
  still on the app's labels: a repeated blue-green deploy updates, and on failure deletes,
  the green that serves, which `docs/architecture.md:373` lists as a known limitation.
- `RecordIsTheWorkload` is about the workload the handler worked on: a rollback after a
  flip undoes the drained main workload and records its tag while the Service stays on
  green. A canary left behind answers for the next one with its old pods, and hides the
  main workload's restarts from the gate, which takes the maximum over both.
- `AutoDeployConverges` excepts a worker without the lock that was the last to apply
  (`stray`), and says nothing of a service whose newest tag fails for good: that one is
  enqueued again at every tick (`src/services/poller.ts:127`).
- `ImageOnEveryNode` is about the nodes that were listed: a node that becomes ready later
  lacks the image.
- `EditsReachTheCluster` and `PodsFollow` name their reasons in `pending` and `hashSkew`:
  keys removed from a Secret stay in its data (its `stringData` only adds), and pods may
  start while the template carries the hash of other contents than were applied.
  `KeepsOutsideEdits` lists what the guard does not claim. `SavesReadBack` excepts the values
  of `Misread`: opening `config.env` and saving it unchanged corrupts them, and the run
  reaches that. It is about one save: the whole set is written, so of two editors the
  second removes what the first added.
- `NothingElseStays` and `SharedPortWasUnlisted` say under which circumstances an object
  stays or a port is given twice; both happen.
- `NothingIsLost` names in `excused` everything that is lost: see the action that adds it.
- `AckedSurvive` excepts the two restores of `harm`: a restore that dies between the rename
  and the removal of the old log leaves a database and a log that do not belong together
  (`src/cli/state.ts:140-142`), and one that checked the lock before a server booted
  replaces the database under it.
- `FreshTabsMayAct` is about tabs that asked since the last login: a tab with an older csrf
  token is refused until it is reloaded, and never asks `/me` again by itself.
  `PagesAreComplete` leaves out a list whose filter request failed, which then goes on with
  the cursor of the earlier query.
- `CapabilitiesConverge` needs changes to end.

**Known divergences.** Where documentation, a comment or a test says something else than
the code does. The models behave like the code.

- `src/queue/handlers/rollback.ts:105-108` and `docs/api.md:495-496`: a failed automatic
  rollback is "single-shot: no further automatic action". The job is retried all the same
  (`src/queue/queue.ts:146-163`), and a bare undo is not idempotent.
- `docs/api.md:489-492`: the automatic rollback waits for a 10 s grace window and undoes the
  deploy that failed. A good deploy within the window moves the history on, and the bare
  undo (`src/queue/handlers/rollback.ts:130`) takes that one back, to the bad image.
- `docs/architecture.md:382`: blue-green gates green before the flip, so that a bad green
  costs nothing. The handler does not tell this gate from the others
  (`src/queue/handlers/deploy.ts:60`) and enqueues a rollback of the main workload, which is
  blue, serves, and never had the image (`AutomaticRollback`).
- `src/lib/k8s.ts:202-203`: "a clean blue-green flip, not the union of old + new keys". The expose step of the
  next deploy (`src/services/deploy.ts:40-65, 569`) applies the `app` label again by merge, and the
  union selects nothing (`Exposed`).
- `src/services/alerts/manager.test.ts:122`: a rejected alert is retried by the next cycle. A
  reopened one is not (`src/services/alerts/manager.ts:100-101, 119-128, 144-148`): it was
  saved open with its old `lastSent`.
- `docs/clusters.md:261`: a cluster with services cannot be deleted. A service may be
  registered while the cluster is deleted (`src/services/cluster-registry.ts:73`,
  `src/routes/services.ts:145-157`, `src/routes/templates.ts:100, 186`).
- `deploy/update.sh:11-12`: the snapshot is there "so an incompatible migration can be
  undone with `update.sh --rollback`". That puts the executable back (`:186`) and not the
  snapshot: after a migration the old binary refuses the database and exits with 3
  (`src/lib/migrations.ts:159`). The automatic revert has the same problem.
- `deploy/update.sh:169-171`: the snapshot "captures the pre-migration committed state
  safely". It copies the main file, without what is in the log.
- `src/lib/lock.ts:55-56`: renewing "tells a running worker it has lost the lock and must
  abort". `src/queue/worker.ts:165` logs it.
- `src/services/deploy.ts:526-527`: pods that cannot be listed are "treated as not-ready by
  the gate". They are taken as no pods: no crash is seen, and the sample is ready when
  the replicas are.
- `src/routes/env.ts:38`: a deploy in flight "will pick up the new env". One that has
  read the files does not (`PutAnswered` leaves the kind `pending`).
- `src/queue/handlers/deploy.ts:64-65`: "One bad deploy → at most one rollback". Whether a
  rollback is active is asked before the handler awaits the cluster's history (`:66, 75`). One
  that an operator requests meanwhile gets an automatic one on top (`TargetAnswers`). Both name
  the same revision, which the first takes away from the second: that fails and degrades a
  service that was just restored.
- `src/routes/deployments.ts:119`: a rollback that was done when the process died, and waits to
  be run again, is still cancellable: its row goes from `done` to `cancelled`.
- A helm upgrade passes a degraded service (`src/routes/helm.ts:67-85`), while
  `docs/api.md:494-496` says that all deploys are refused until an operator clears it.
- Row and job can disagree: a handler that throws before it settles the row
  (`src/queue/handlers/rollback.ts:110`, `helm-upgrade.ts:61, 68`), a job that the reaper
  declares dead (`src/queue/queue.ts:218-239`), or a redeploy whose watcher died
  (`src/routes/service-ops.ts:841`) leaves the row `applying`, while `docs/api.md:400-401`
  lets a caller poll either.
- `docs/api.md:870`: "Every mutation … appends a row". A crash between answer and hook loses
  it, and jobs that the reaper kills get none.
- `src/lib/env-files.ts` and `frontend/src/screens/modals/Env.tsx:28-47` read the same text
  differently: the browser is line-based, knows no `\t` or `\r` and undoes `\n` before `\\`,
  and a value that begins with `'` is written without quotes and read without the `'`
  (`Misread`), though `src/lib/k8s.ts:33` calls writing and reading symmetric. A malformed
  `secret.env` with a key twice loses its values when it is saved after one row was taken
  out, though `src/routes/env.ts:120-121` says that blank keeps them.
- `src/lib/yaml.ts:5`: values such as `1e3`, `0x10` or `+15551234567` go unquoted into the
  ConfigMap, which kubectl refuses.
- `frontend/src/screens/modals/Setup.tsx:107-109`: a source that was just saved is selected,
  and `refresh()` selects the one from before again, because its closure has the old
  selection (`:38`). The next "Configure" (`:128`) registers the services with that one.
- `docs/api.md:822`: a setup preserves existing env files. One that an editor creates between
  the look and the rename (`src/services/setup-services.ts:116-117`) is overwritten.
- `docs/api.md:799`: a blank secret keeps "the existing secret". That of a source that does
  not exist yet is the default's (`src/routes/setup.ts:52-59` with
  `src/services/r2-settings.ts:101`).
- `src/routes/service-ops.ts:745` (`EditNetworking`): an edit of the node port is made in the
  cluster only. The next deploy of an exposed service applies the row's port again, or is
  refused because another service has been given it since. The container's port is patched
  second (`:760`); where that fails the Service already routes to the new one.
- `src/services/r2-settings.ts:106`: the client of the default source is reconfigured by a
  save; a bundle listed or downloaded meanwhile is read from both addresses.
- `src/config.ts:98-105`, `envOverride`, lets `R2_*` variables override what is configured,
  until any source is saved: that stores the default's settings too
  (`src/services/r2-settings.ts:79-83`), and the variables of later starts are ignored.
- `src/routes/registry-sources.ts:96` refuses to delete a registry source that a service
  uses. A template that waits for kubectl registers its service later
  (`src/routes/templates.ts:123-197`) with a source that may be gone by then.
- `src/services/alerts/manager.ts:166`: a condition that comes back, whose message fails and
  that ends again is announced as resolved, because `lastSent` is that of the earlier episode.

## Proofs

39 theorems of TLAPS, for every value of the constants that the named assumptions allow; nothing
but these assumptions is taken on trust. The assumptions are those of the modules (`…Assumption`),
which TLC evaluates in every run. A proof module that treats two components extends both: that is
why `SourceDeploy`, `AlertScan`, `Console` and `Access` call their specifications `SourceSpec`,
`ScanSpec`, `ConsoleSpec` and `AccessSpec`, and the rest of each alike. Each proof module states its strengthening next to the
lemmas that carry it through the actions. A type invariant is part of every one.

| Module | Theorem | States |
|---|---|---|
| `JobQueueProofs` | `TypeCorrect`, `Fencing`, `QueueImplementsLifecycle`, `SettledByOwner`, `OneHandler`, `CommitsInOrder` | `TypeOK`, `FencingHolds`, `LifecycleSpec`, `SettledByItsAttempt`, `OneHandlerPerService`, `OvertakenOnlyWhenPostponed` |
| `DeployPipelineProofs` | `PipelineTypeCorrect`, `AutoRollbacksDoNotStack`, `SuccessRecordsTheTruth`, `BadImagesStayAway`, `PipelineImplementsContract` | `TypeOK`, `OneAutoRollback`, `RecordedIsLive`, `BadImageNotReapplied`, `ContractSpec` |
| `DeployerProofs` | `GreenScaled`, `CanaryRemoved`, `RecordTrue`, `NoEarlyTraffic`, `ServiceStaysUp` | `FlippedHasReplicas`, `CanaryIsTornDown`, `RecordIsTheWorkload`, `NoTrafficBeforeFlip`, `StaysUp` of `DeployModes` |
| `DeployerProofs` | `SourceTypeCorrect`, `ImagesBeforeManifests` | `SourceTypeOK`, `ImageOnEveryNode` of `SourceDeploy` |
| `OperatorProofs` | `FleetTypeCorrect`, `KubeconfigStaysItsOwn` | `TypeOK`, `KubeconfigIsItsOwn` of `Fleet` |
| `OperatorProofs` | `ConsoleTypeCorrect`, `ClosedTerminalsStayClosed` | `ConsoleTypeOK`, `NoShellBehindAClosedTerminal` of `Console` |
| `RequestProofs` | `CatalogTypeCorrect`, `SharedPortOnlyUnlisted`, `PruneSparesWhoWasThere`, `PurgeIsComplete` | `TypeOK`, `SharedPortWasUnlisted`, `PruneSparesEarlier`, `NothingElseStays` of `ServiceCatalog` |
| `RequestProofs` | `AccessTypeCorrect`, `FreshPagesMayAct`, `PagingSkipsNothing` | `AccessTypeOK`, `FreshTabsMayAct`, `PagesAreComplete` of `Access` |
| `EnvGuardProofs` | `EditsArrive`, `PodsRunTheFiles`, `OutsideEditsAreKept` | `EditsReachTheCluster`, `PodsFollow`, `KeepsOutsideEdits` |
| `AlertingProofs` | `NoLostWakeup`, `OnlyGoneIsClosed` | `QueuedHasTimer`, `ClosedWasGone` of `AlertManager` |
| `AlertingProofs` | `NothingTheScansPassIsLost`, `AlertsAreToldOnce` | `NothingIsLost`, `NoLineIsToldTwice` of `AlertScan` |
| `ReleaseProofs` | `OnlyOneServer`, `AckedIsKept`, `SchemaIsServed` | `OneServer`, `AckedSurvive`, `ServesItsSchema` |

**JobQueue**: any number of processes, services and jobs. `TypeOK` is inductive as it stands;
the rest is proved on top of it, one invariant at a time.

- `FenceInv`: a loop's token is at most that of its service's lock, the committed one too, and
  two loops never hold equal tokens of a service. `FencingHolds` alone says nothing of tokens not yet
  written; only `AcquireLock` raises the counter that bounds them. It needs no timing:
  it holds with `MayStall`.
- `LifeInv` bounds attempts by `MaxAttempts`, strictly while a job is pending; with it every
  step of the queue is a step of `JobLifecycle` or none. `AttemptInv` says that a loop that passes the
  owner guard made the job's latest attempt.
- `HoldInv` is the argument of the leases: while no heartbeat was late, the row and the lock of
  a running loop's service name this loop, and both run out later than its next heartbeat is
  due. `Beat` restores that distance because `HeartbeatEvery < LeaseTtl` (`TimersAssumption`, `src/queue/worker.ts:24`), `Advance` keeps it, because time does not pass a due heartbeat unless `late` is
  set. One handler per service follows, since a lock has one holder.
- `WaitInv` and `OrderInv`: a pending job that waits was postponed, jobs are enqueued in the order
  of their ids, and ahead of a job that runs or was committed every older job of its service that was not
  postponed is out of the queue, and whoever still runs it has a lower token. The fence then
  refuses its commit.

**DeployPipeline**: any tags, notices and numbers of requests and attempts. `Tables` relates the two tables
row by row: no row without a job, a row is `pending` only while its job is, what an automatic
rollback took back has ended, one automatic rollback is active at most. `WorkerInv` says what a
handler that waits can rely on when its call is answered: its job runs, its row is where it left
it, the deployed tag is live behind the gate, a deploy runs only on a service that is not degraded, and
after the look at the cluster's history no automatic rollback is active. Without the last the enqueue
of the rollback does not keep `OneAutoRollback`; without `Tables` a crash before `noRetry`
(`MidCrash`) does not keep `BadImageNotReapplied`. `PipelineImplementsContract` maps every
action to an action of `DeployContract` or to a stutter, under `Requests`, the table as the contract
sees it.

**DeployModes**: any tags, modes, gate and canary settings and number of handlers. `IInv`
adds what each program counter knows of the cluster: the step's mode (`ModeOfPc`), that the
workload it works on has its tag (`WorksOnItsTag`), that green has replicas and labels of its own
whatever blue has (`GreenIsColored`), that a canary is observed, about to be deleted or accounted
for (`CanaryIsOwned`). `SentChanges` says once what each kubectl call does to each workload; the
steps follow from it, with calls that fail halfway and crashes in `EffectKeepsGreen` and
`FailureInductive`. `ServiceStaysUp` adds two conjuncts (`UpInv`): the main workload exists under the
app's labels, and a green that is sampled or about to be flipped to runs its template and is
ready, unless its pods crash at times (`GateSteps`: both are reached only from a rollout with
nothing left to wait for). Then `SentMain` leaves a drain and Recreate as the only calls that take
ready pods away, and a drain comes after the flip. `ModesAssumption` is used for the initial
state only: the counters of the gate play no part.

**SourceDeploy**: any versions, nodes, attempts and handlers without the lock. Part of `SInv` is
what one handler knows while others act. `JobsTell`: an import Job that is done put the image on its
node, and images stay. `Good`: a handler that polls counts a node out only when it has the image, one
that cleans up after a good import has them all, one that applies has what `ImageOnEveryNode` asks.
The Jobs of other attempts never enter it: `GoodStays` needs only that images grow, so whoever
deletes, replaces or loses a Job disturbs the polling and not what was counted.

**Fleet**: any clusters, tokens and machines. The types are all the strengthening
`KubeconfigIsItsOwn` needs: only an enrollment makes a row that points to its own file, and whoever writes or
removes that file found the id free in the same stretch of code (`Enroll`, `EnrollDies`).
That this stretch has no await is what the theorem rests on.

**ServiceCatalog**: any names, clusters, ports, templates and requests in flight. Rows carry the stamp of
their last write and a request the stamp it read. `Knows`: as long as both agree, the place a request
works on is the row's, and once a deletion looks at the namespace, rows that name this namespace were
written later. `RowsInv` adds that no row has the port of a service it was shown. `PurgeInv`:
each object that is not excused has an owner or a deletion that will purge it, and what a
deletion's row owns is of a kind it has still to purge.

**EnvGuard**: any texts and editors, without any assumption on what a parser makes of
a text. `SettleInv`: a file that differs from the cluster without a reason on record has
an edit or a deploy under way that will bring it there (`Owed`); this is what `EditsReachTheCluster` says once nothing is
in flight. `PodInv` relates pods and template, `GuardInv` keeps what the guard saw from the
comparison to the apply.

**Console**: any rows, streams, terminals and polls. `CInv` is the types and
`NoShellBehindAClosedTerminal`: a socket is opened only by the terminal on screen, in the
stretch of code that looks whether it still is (`Terminal.tsx:31`), and who leaves the screen closes it.

**Access**: any tabs, tokens, logins, page size and rate limits. For the pages, `PagesFresh` is
stronger than `FreshTabsMayAct`: it does not ask that the session in the jar is still good, so that
time and restarts do not disturb it. An answer either brings the token of the jar or finds that
another page logged in since (`lapsed`). For the audit list, `Listing`: the cursor is the last
row shown, the list is in the order of the keys, and each row that was there when it was begun is in
the list or older than the cursor. `PageListing` says what a page returns, by the number of rows ahead
of a row (`Newest`, with `FS_Injection`); `AccessPage` joins it to the list, in which rows at the head were
not there when it was begun and pruning takes from the set alone.

**AlertManager**: any conditions, events and limits. `QueuedHasTimer` is inductive as it
stands. `CloseInv` for `ClosedWasGone`: the watcher has one cycle at a time, in the chain or
running (`OneCycleInv`), and what a scan did not find, or a cycle takes for gone, was missed
(`MissedInv`). So a scan that failed closes nothing.

**AlertScan**: any intervals, ages, backlog and limits, and one scan that was given up beside one
that is waited for. `ScInv` follows each alert on two sides. So that nothing is lost, `Counted`, `LogRead`
and `EventsRead` say that what is behind a cursor is told, held or excused, and
`PreviousRead` that the log of a run that ended is read, or due in the scan that counted the restart: who
gives this scan up excuses it. So that nothing is told twice, `Once` says that what is told or held is
behind the cursor it came from, or will be cut off by the backlog, or was read from two logs.
`LogIsRead` is the long step: the head of a backlog by the number of later lines (`HeadIsAll`). The
assumption says that `None`, a cursor that was never set, is no time.

**Release**: any processes, versions and transactions. `LockInv`: whoever has the database
open is named by the lock. The lock alone is not enough: `FreshInv`, `CountInv` and
`StrayInv` say who holds a replaced database, that no process counts a migration its database
lacks, and that a log of another database lies next to a file that nobody has open. `LogInv`
keeps migrations in order in both files, `RestoreInv` is about restores: while `harm` is
empty, a restore is alone and acknowledged commits are in the image. `ReleaseAssumption` asks that
names of processes are not those of the states of a pid.

**Only model-checked.** `EveryJobSettles`, `AutoDeployConverges`, `GoneIsClosed`,
`CapabilitiesConverge`, `NoKubectlWithoutClient` and `SheetCatchesUp` are liveness under fairness,
out of reach of the proof system. So are `SavesReadBack` and whatever the functions of `EnvFiles` compute for every text:
that is induction over data. Every other property of the runs is proved.

## Not modelled

- Clients of kubectl, helm, git, R2 and Slack: one call each, whose outcomes (also the ones
  that take effect and report an error) are choices of the models.
- Scaling, metrics, fleet view, discovery, credentials of image registries: reads and single
  writes with nothing to interleave. Text: manifests, YAML, charts, messages, logging.
- Setup and R2 sources: a save or deletion of a source is one synchronous step, checked against
  the services in the same step. What a death within a save leaves (the list, five keys of the
  default source, the client in memory) and the env templates that the bootstrap writes are
  left out; the divergences above were found by reading.
- Networking edits of other fields (type, protocol, external addresses).
- Deploys of StatefulSets and DaemonSets; `deployMode` beyond rolling for watched sources;
  image garbage collection; annotated git tags, which are deployed again at every tick
  because the recorded commit is never that of the tag object; a failed `rev-parse`, which
  records the ref's name, is modelled.
- Fleet: the counting of the rate limits of `/api/enroll` (they refuse at any time), the installation of k3s, the check that a POST asks
  for at once (the poller's does the same).
- Alerts: a StatefulSet pod that is recreated under its name keeps its cursor and the mark of
  the restart whose previous log was read, so a restart count that comes back to that
  number is never looked at; the pruning of cursors, pods that are not ready, tracebacks of several lines.
- Release: the takeover race of two boots on a stale lock, which the source accepts in a comment;
  systemd's start limit; `.previous` across several updates; the keep-5 of backups below
  an update of more than five migrations.
- Access: users other than the default admin (nothing in the program makes one), password
  and token cryptography, the rate limit of the exec routes. Sessions are stateless, so
  there is nothing to revoke.
- Console: the panels that show what they fetched once (scaling, metrics, settings,
  forms). The banner of an automatic rollback is one of them: a poll in flight may overwrite its cancelled state.

## Plan

1. Done: the modules above, and theorems about each of them but `EnvFiles`: all safety and action
   properties that the runs check, but `SavesReadBack`.
2. `SourceDeploy` as a second implementation of `DeployContract`.

-------------------------------- MODULE Access --------------------------------
(***************************************************************************)
(* Who may do what, and what is remembered of it: browser tabs that share  *)
(* one cookie jar (frontend/src/app/App.tsx, Login.tsx, ChangePassword.tsx)*)
(* CI with a machine token, the guard every /api request passes            *)
(* (routes/_app.ts, auth.ts, role-map.ts, scope.ts), and the audit trail   *)
(* (routes/audit.ts, lib/audit.ts) with the modal that pages through it    *)
(* (AuditTimeline.tsx).                                                    *)
(*                                                                         *)
(* Sessions are signed and stateless: the server keeps no list of them.    *)
(* A session is the number of the login that made it, and stands for its   *)
(* token and for the csrf claim inside.  There is one account, the default *)
(* admin: nothing in the program makes another.                            *)
(*                                                                         *)
(* Granularity.  A request captures the jar when it is sent.  The server   *)
(* handles it in one step, or in two where the handler awaits between      *)
(* reading the account and using what it read; the audit row is written    *)
(* by a hook after the answer.                                             *)
(***************************************************************************)
EXTENDS Integers, Sequences, FiniteSets

CONSTANTS
    Tabs,
    Tokens,      \* names of machine tokens
    Hooks,       \* names of registry webhooks
    Services,
    Clusters,
    Where,       \* the cluster each service lives in
    Grants,      \* what an admin may write into the form of a new token
    MaxLogins,   \* sessions that are ever made
    MaxRows,     \* audit rows that are ever written
    MaxTime,
    MaxEvents,   \* clicks, CI calls, job outcomes, restarts, ticks, ... altogether
    Ttl,         \* TTL_SEC
    Window,      \* LOGIN_WINDOW_MS
    Limit,       \* LOGIN_LIMIT
    Page,        \* rows of a page
    Keep,        \* MAX_AUDIT_ROWS
    Every        \* PRUNE_EVERY

ASSUME AccessAssumption ==
    /\ {MaxLogins, MaxRows, Ttl, Window, Limit, Page, Keep, Every} \subseteq Nat \ {0}
    /\ {MaxTime, MaxEvents} \subseteq Nat
    /\ Where \in [Services -> Clusters]
    /\ Grants \subseteq [role : {"viewer", "operator"}, service : Services \cup {"none"},
                         cluster : Clusters \cup {"none"}]
    /\ Tokens \cap Hooks = {}
    /\ "none" \notin Services \cup Clusters \cup Tokens

Session == 1..MaxLogins
Password == {"default", "new"}
Time == 0..(MaxTime + Ttl + Window)

VARIABLES
    \* the server's database and memory
    account,     \* the users row: its password, must_change_password
    token,       \* machine_tokens, and the webhooks table under their names
    bucket,      \* the login limiter's buckets, by address and by username
    hooks,       \* audit rows owed: answered, onAfterResponse still to run
    trail,       \* audit_events
    lastRow,     \* the last id the table gave
    \* the browser
    expiry,      \* when each session made so far expires
    jar,         \* the session cookie, 0 for none
    tab,         \* what each tab shows, and its csrfToken
    wire,        \* requests on their way, or in the middle of their handler
    reader,      \* AuditTimeline
    \* ghosts
    lapsed,      \* has a login answered since the tab asked the /me it goes by?
    now,
    events

store == <<account, token, bucket>>
audit == <<hooks, trail, lastRow>>
browser == <<expiry, jar, tab, wire, lapsed>>
accessVars == <<store, audit, browser, reader, now, events>>

NoBucket == [count |-> 0, resetAt |-> 0]
NoGrant == [role |-> "viewer", service |-> "none", cluster |-> "none"]
NoToken == [st |-> "unused", grant |-> NoGrant, at |-> 0]
Booting == [view |-> "boot", csrf |-> 0]
Closed == [open |-> FALSE, loading |-> FALSE, applied |-> "any", items |-> <<>>,
           cursor |-> <<>>, ask |-> "first", query |-> "any", base |-> {}]

\* A request.  live: the page that sent it is still there to hear the answer.
\* read: the password hash its handler read before it awaited, "unread" before.
SentRequest(t, kind, csrf, given, new) ==
    [tab |-> t, kind |-> kind, cookie |-> jar, csrf |-> csrf, given |-> given, new |-> new,
     read |-> "unread", live |-> TRUE]
Me(t, cookie) == [tab |-> t, kind |-> "me", cookie |-> cookie, csrf |-> 0, given |-> "none",
                  new |-> "none", read |-> "unread", live |-> TRUE]

\* The first boot made the default admin before the server listened.
DefaultAdmin == [pw |-> "default", must |-> TRUE]

\* Either that boot, or a later one with the cookie of a login before it.
FirstBoot ==
    /\ account = DefaultAdmin
    /\ expiry = [s \in Session |-> 0] /\ jar = 0

LaterBoot ==
    /\ account = [pw |-> "new", must |-> FALSE]
    /\ expiry = [s \in Session |-> IF s = 1 THEN Ttl ELSE 0] /\ jar = 1

\* The users row: what a handler reads of it, and the update of its password.
Stored == account.pw

WithPassword(new) == [pw |-> new, must |-> FALSE]

AccessInit ==
    /\ FirstBoot \/ LaterBoot
    /\ token = [k \in Tokens \cup Hooks |-> NoToken]
    /\ bucket = [k \in {"ip", "user"} |-> NoBucket]
    /\ hooks = [ok |-> 0, fail |-> 0] /\ trail = {} /\ lastRow = 0
    /\ tab = [t \in Tabs |-> Booting]
    /\ wire = {Me(t, jar) : t \in Tabs}
    /\ reader = Closed
    /\ lapsed = [t \in Tabs |-> FALSE]
    /\ now = 0 /\ events = 0

Event == events < MaxEvents /\ events' = events + 1
Quiet == UNCHANGED <<events, now>>
Click == Event /\ UNCHANGED now

-------------------------------------------------------------------------------
(* The guard *)

Rank == [viewer |-> 0, operator |-> 1, admin |-> 2]

HasRole(have, need) == Rank[have] >= Rank[need]

\* The least role of a request, by what its path and method stand for.
RequiredRole(kind) ==
    CASE kind \in {"me", "password", "logtoken", "read"} -> "viewer"
      [] kind \in {"deploy", "rawread"} -> "operator"
      [] kind \in {"create", "revoke", "hook", "unhook"} -> "admin"

\* The paths the guard lets pass, to answer for themselves.
Carved(kind) == kind = "login"

Mutation(kind) == kind \in {"login", "password", "logtoken", "deploy", "create", "revoke", "hook", "unhook"}

\* A target is a service, reached by its name or by the id of one of its
\* deployments or jobs; a cluster; an id that resolves to nothing; or neither.
ServiceTargets == [of : {"service"}, name : Services]
ClusterTargets == [of : {"cluster"}, name : Clusters]
Targets == ServiceTargets \cup ClusterTargets \cup {[of |-> "unresolvable", name |-> "none"],
                                                     [of |-> "neither", name |-> "none"]}

WithinScope(k, target) ==
    /\ k.service # "none" => target.of = "service" /\ target.name = k.service
    /\ k.cluster # "none" =>
         \/ target.of = "service" /\ Where[target.name] = k.cluster
         \/ k.service = "none" /\ target.of = "cluster" /\ target.name = k.cluster

\* signJwt: the expiry is inside.
Signed(s) == [expiry EXCEPT ![s] = now + Ttl]

\* verifyJwt: signed by this server, and not past its expiry.
Verifies(cookie) == IF cookie = 0 THEN FALSE ELSE now <= expiry[cookie]

CsrfEqual(provided, expected) == provided = expected

\* The default admin's role passes every check, so what is left of the guard
\* for a request with a cookie is the csrf token.
Guarded(r) ==
    IF Carved(r.kind) THEN "passed"
    ELSE IF ~Verifies(r.cookie) THEN "unauthorized"
    ELSE IF Mutation(r.kind) /\ r.csrf = 0 THEN "csrf_missing"
    ELSE IF Mutation(r.kind) /\ ~CsrfEqual(r.csrf, r.cookie) THEN "csrf_invalid"
    ELSE "passed"

\* machineTokenByHash: not revoked, not expired.
TokenLive(k) == token[k].st = "live" /\ (token[k].at # 0 => now < token[k].at)

\* Rows of machine_tokens: made with a name that was never used, and revoked once.
Created(k, g, days) ==
    [token EXCEPT ![k] = [st |-> "live", grant |-> g, at |-> IF days = 0 THEN 0 ELSE now + days]]

Revoked(k) == [token EXCEPT ![k].st = "revoked"]

-------------------------------------------------------------------------------
(* The audit trail *)

\* What recordHttpAudit leaves out: reads, requests without a principal, and
\* the paths that are not worth a row.
Audited(kind, known) == Mutation(kind) /\ known /\ ~Carved(kind) /\ kind # "logtoken"

Owe(kind, known, code) ==
    LET result == IF code < 400 THEN "ok" ELSE "fail" IN
    hooks' = IF Audited(kind, known) THEN [hooks EXCEPT ![result] = @ + 1] ELSE hooks

Ids == {r.id : r \in trail}

Pruned(rows, newest) ==
    IF newest % Every = 0 THEN {r \in rows : r.id > newest - Keep} ELSE rows

WriteRow(result) ==
    /\ lastRow < MaxRows
    /\ lastRow' = lastRow + 1
    /\ trail' = Pruned(trail \cup {[id |-> lastRow + 1, ts |-> now, result |-> result]},
                       lastRow + 1)

\* onAfterResponse runs: the row is written, or the write fails and is logged.
HookRuns(result) ==
    /\ Quiet
    /\ hooks[result] > 0
    /\ hooks' = [hooks EXCEPT ![result] = @ - 1]
    /\ WriteRow(result)
    /\ UNCHANGED <<store, browser, reader>>

HookFails(result) ==
    /\ Click
    /\ hooks[result] > 0
    /\ hooks' = [hooks EXCEPT ![result] = @ - 1]
    /\ UNCHANGED <<store, trail, lastRow, browser, reader>>

\* The worker records the outcome of a job.
JobOutcome(result) ==
    /\ Quiet
    /\ WriteRow(result)
    /\ UNCHANGED <<store, hooks, browser, reader>>

-------------------------------------------------------------------------------
(* The login limiter *)

\* The bucket after one more attempt: a new window when the old one is over.
Counted(key) ==
    IF bucket[key].resetAt <= now
    THEN [count |-> 1, resetAt |-> now + Window]
    ELSE [bucket[key] EXCEPT !.count = @ + 1]

OverLimit(key) == Counted(key).count > Limit

-------------------------------------------------------------------------------
(* Logging in *)

\* The answer reaches the page, if it is still there; a page waits for one.
Waiting(t) == \E r \in wire : r.tab = t /\ r.live

\* checkMe: the page asks who it is.
Asks(t, cookie, rest) == rest \cup {Me(t, cookie)}

SubmitLogin(t, pw) ==
    /\ Click
    /\ tab[t].view = "login" /\ ~Waiting(t)
    /\ wire' = wire \cup {SentRequest(t, "login", tab[t].csrf, pw, "none")}
    /\ UNCHANGED <<store, audit, expiry, jar, tab, lapsed, reader>>

\* The address's bucket is counted first, and the username's only if it lets
\* the attempt through; then the account is read and its password verified.
LoginLimited(r) ==
    /\ Quiet
    /\ r \in wire /\ r.kind = "login" /\ r.read = "unread"
    /\ OverLimit("ip") \/ OverLimit("user")
    /\ bucket' = IF OverLimit("ip") THEN [bucket EXCEPT !["ip"] = Counted("ip")]
                 ELSE [k \in {"ip", "user"} |-> Counted(k)]
    /\ wire' = wire \ {r}
    /\ UNCHANGED <<account, token, audit, expiry, jar, tab, lapsed, reader>>

LoginReads(r) ==
    /\ Quiet
    /\ r \in wire /\ r.kind = "login" /\ r.read = "unread"
    /\ ~OverLimit("ip") /\ ~OverLimit("user")
    /\ bucket' = [k \in {"ip", "user"} |-> Counted(k)]
    /\ wire' = (wire \ {r}) \cup {[r EXCEPT !.read = Stored]}
    /\ UNCHANGED <<account, token, audit, expiry, jar, tab, lapsed, reader>>

LoginDenied(r) ==
    /\ Quiet
    /\ r \in wire /\ r.kind = "login" /\ r.read # "unread"
    /\ r.given # r.read
    /\ wire' = wire \ {r}
    /\ UNCHANGED <<store, audit, expiry, jar, tab, lapsed, reader>>

\* The answer sets the cookie for every tab, whether or not the page that asked
\* is still there; a page that is asks who it is.
LoginSucceeds(r) ==
    /\ Quiet
    /\ r \in wire /\ r.kind = "login" /\ r.given = r.read
    /\ \E s \in Session :
         /\ expiry[s] = 0 /\ \A q \in Session : q < s => expiry[q] # 0
         /\ expiry' = Signed(s)
         /\ jar' = s
         /\ wire' = IF r.live THEN Asks(r.tab, s, wire \ {r}) ELSE wire \ {r}
    /\ lapsed' = [t \in Tabs |-> TRUE]
    /\ UNCHANGED <<store, audit, tab, reader>>

\* Mutant: a page that already has a token keeps it.
MeAnsweredOnce(r) ==
    /\ Quiet
    /\ r \in wire /\ r.kind = "me"
    /\ wire' = wire \ {r}
    /\ tab' = [tab EXCEPT ![r.tab] =
                 IF ~Verifies(r.cookie) THEN [@ EXCEPT !.view = "login"]
                 ELSE [view |-> IF account.must THEN "change" ELSE "main",
                       csrf |-> IF @.csrf = 0 THEN r.cookie ELSE @.csrf]]
    /\ lapsed' = [lapsed EXCEPT ![r.tab] = r.cookie # jar]
    /\ UNCHANGED <<store, audit, expiry, jar, reader>>

\* GET /me: the csrf token is the claim of the cookie, not of the page that asks.
MeReply(r) == [view |-> IF account.must THEN "change" ELSE "main", csrf |-> r.cookie]

\* /me answers: the page learns its csrf token, or that it has to log in.
MeAnswered(r) ==
    /\ Quiet
    /\ r \in wire /\ r.kind = "me"
    /\ wire' = wire \ {r}
    /\ tab' = [tab EXCEPT ![r.tab] =
                 IF ~Verifies(r.cookie) THEN [view |-> "login", csrf |-> 0]
                 ELSE MeReply(r)]
    /\ lapsed' = [lapsed EXCEPT ![r.tab] = r.cookie # jar]
    /\ UNCHANGED <<store, audit, expiry, jar, reader>>

\* A page that cannot reach the server: only the first /me of a page is caught.
Unheard(t) == [tab EXCEPT ![t].view = IF @ = "boot" THEN "login" ELSE @]

Lost(r) ==
    /\ Click
    /\ r \in wire /\ r.read = "unread"
    /\ wire' = wire \ {r}
    /\ tab' = Unheard(r.tab)
    /\ UNCHANGED <<store, audit, expiry, jar, lapsed, reader>>

\* A new page in the tab forgets its token and asks.  What the old page sent is
\* still handled.
ReloadTab(t) ==
    /\ Click
    /\ tab' = [tab EXCEPT ![t] = Booting]
    /\ wire' = Asks(t, jar, {IF r.tab = t THEN [r EXCEPT !.live = FALSE] ELSE r :
                               r \in {q \in wire : ~(q.tab = t /\ q.kind = "me")}})
    /\ UNCHANGED <<store, audit, expiry, jar, lapsed, reader>>

\* The browser drops the cookie at its Max-Age.
CookieExpires ==
    /\ Quiet
    /\ jar # 0 /\ ~Verifies(jar)
    /\ jar' = 0
    /\ UNCHANGED <<store, audit, expiry, tab, wire, lapsed, reader>>

-------------------------------------------------------------------------------
(* What a page may ask for *)

Sends(t, kind, given, new) ==
    /\ Click
    /\ ~Waiting(t)
    /\ wire' = wire \cup {SentRequest(t, kind, tab[t].csrf, given, new)}
    /\ UNCHANGED <<store, audit, expiry, jar, tab, lapsed, reader>>

\* The forced change of the password.
SubmitPassword(t) ==
    /\ tab[t].view = "change"
    /\ \E given, new \in Password : Sends(t, "password", given, new)

\* The console: a deploy, the token of a log stream, ...
ClickConsole(t, kind) ==
    /\ tab[t].view = "main"
    /\ Sends(t, kind, "default", "default")

\* The modal of the integrations, for an admin.
SubmitToken(t) ==
    /\ tab[t].view = "main"
    /\ Sends(t, "create", "default", "default")

ClickRevoke(t) ==
    /\ tab[t].view = "main"
    /\ \E k \in Tokens : token[k].st = "live"
    /\ Sends(t, "revoke", "default", "default")

SubmitWebhook(t) ==
    /\ tab[t].view = "main"
    /\ Sends(t, "hook", "default", "default")

ClickUnhook(t) ==
    /\ tab[t].view = "main"
    /\ \E k \in Hooks : token[k].st = "live"
    /\ Sends(t, "unhook", "default", "default")

Arrived(r, kinds) == r \in wire /\ r.kind \in kinds /\ r.read = "unread"

Refused(r) ==
    /\ Quiet
    /\ Arrived(r, {"deploy", "logtoken", "create", "revoke", "hook", "unhook", "password"})
    /\ Guarded(r) # "passed"
    /\ wire' = wire \ {r}
    /\ Owe(r.kind, Guarded(r) # "unauthorized", 403)
    /\ UNCHANGED <<store, trail, lastRow, expiry, jar, tab, lapsed, reader>>

\* A handler that neither waits nor touches what is modelled here.
Handled(r, code) ==
    /\ Quiet
    /\ Arrived(r, {"deploy", "logtoken"}) /\ Guarded(r) = "passed"
    /\ wire' = wire \ {r}
    /\ Owe(r.kind, TRUE, code)
    /\ UNCHANGED <<store, trail, lastRow, expiry, jar, tab, lapsed, reader>>

\* A token's name is unique for ever, so a revoked one is not made again.
CreateToken(r, k) ==
    /\ Quiet
    /\ Arrived(r, {"create"}) /\ Guarded(r) = "passed"
    /\ wire' = wire \ {r}
    /\ \/ /\ token[k].st = "unused"
          /\ \E g \in Grants, days \in {0, 1} : token' = Created(k, g, days)
          /\ Owe(r.kind, TRUE, 201)
       \/ token[k].st # "unused" /\ Owe(r.kind, TRUE, 409) /\ UNCHANGED token
    /\ UNCHANGED <<account, bucket, trail, lastRow, expiry, jar, tab, lapsed, reader>>

RevokeToken(r, k) ==
    /\ Quiet
    /\ Arrived(r, {"revoke"}) /\ Guarded(r) = "passed"
    /\ wire' = wire \ {r}
    /\ \/ /\ token[k].st = "live"
          /\ token' = Revoked(k)
          /\ Owe(r.kind, TRUE, 200)
       \/ token[k].st # "live" /\ Owe(r.kind, TRUE, 404) /\ UNCHANGED token
    /\ UNCHANGED <<account, bucket, trail, lastRow, expiry, jar, tab, lapsed, reader>>

\* Webhooks: the same, with an HMAC secret that is shown once and a scope.
RegisteredHook(k, g) == [token EXCEPT ![k] = [st |-> "live", grant |-> g, at |-> 0]]

RevokedHook(k) == [token EXCEPT ![k].st = "revoked"]

CreateWebhook(r, k) ==
    /\ Quiet
    /\ Arrived(r, {"hook"}) /\ Guarded(r) = "passed"
    /\ wire' = wire \ {r}
    /\ \/ /\ token[k].st = "unused"
          /\ \E g \in Grants : token' = RegisteredHook(k, g)
          /\ Owe(r.kind, TRUE, 201)
       \/ token[k].st # "unused" /\ Owe(r.kind, TRUE, 409) /\ UNCHANGED token
    /\ UNCHANGED <<account, bucket, trail, lastRow, expiry, jar, tab, lapsed, reader>>

RevokeWebhook(r, k) ==
    /\ Quiet
    /\ Arrived(r, {"unhook"}) /\ Guarded(r) = "passed"
    /\ wire' = wire \ {r}
    /\ \/ /\ token[k].st = "live"
          /\ token' = RevokedHook(k)
          /\ Owe(r.kind, TRUE, 200)
       \/ token[k].st # "live" /\ Owe(r.kind, TRUE, 404) /\ UNCHANGED token
    /\ UNCHANGED <<account, bucket, trail, lastRow, expiry, jar, tab, lapsed, reader>>

\* change-password reads the account, awaits the check of the current password
\* and the hash of the new one, and then sets it whatever it has become since.
PasswordReads(r) ==
    /\ Quiet
    /\ Arrived(r, {"password"}) /\ Guarded(r) = "passed"
    /\ wire' = (wire \ {r}) \cup {[r EXCEPT !.read = Stored]}
    /\ UNCHANGED <<store, audit, expiry, jar, tab, lapsed, reader>>

PasswordEnds(r) ==
    /\ Quiet
    /\ r \in wire /\ r.kind = "password" /\ r.read # "unread"
    /\ IF r.given = r.read
       THEN /\ account' = WithPassword(r.new)
            /\ Owe(r.kind, TRUE, 200)
            /\ wire' = IF r.live THEN Asks(r.tab, jar, wire \ {r}) ELSE wire \ {r}
       ELSE /\ Owe(r.kind, TRUE, 401)
            /\ wire' = wire \ {r}
            /\ UNCHANGED account
    /\ UNCHANGED <<token, bucket, trail, lastRow, expiry, jar, tab, lapsed, reader>>

\* A request of CI: machine tokens are bearer tokens and need no csrf token.
MachineCall(k, kind, target) ==
    /\ Click
    /\ token[k].st # "unused"
    /\ kind \in {"read", "rawread", "deploy", "create"}
    /\ LET code == IF ~HasRole(token[k].grant.role, RequiredRole(kind)) THEN 403
                   ELSE IF ~WithinScope(token[k].grant, target) THEN 403 ELSE 200
       IN  Owe(kind, TokenLive(k), code)
    /\ UNCHANGED <<store, trail, lastRow, browser, reader>>

-------------------------------------------------------------------------------
(* The audit modal *)

Filters == {"any", "ok", "fail"}

Matches(qs) == {r \in trail : qs = "any" \/ r.result = qs}

Newer(a, b) == a.ts > b.ts \/ (a.ts = b.ts /\ a.id > b.id)

\* Mutant: the cursor is a time alone.
OlderByTime(rows, c) == {r \in rows : \A i \in DOMAIN c : r.ts < c[i].ts}

\* The cursor is the last row of the page before: its time and its id.
Older(rows, c) == {r \in rows : \A i \in DOMAIN c : Newer(c[i], r)}

\* The n newest of the rows, newest first.
Newest(rows, n) ==
    LET Position(r) == Cardinality({q \in rows : Newer(q, r)}) + 1
        size == IF Cardinality(rows) < n THEN Cardinality(rows) ELSE n
    IN  [i \in 1..size |-> CHOOSE r \in rows : Position(r) = i]

\* Mount: the first page, unfiltered.
OpenReader ==
    /\ Click
    /\ ~reader.open /\ \E t \in Tabs : tab[t].view = "main"
    /\ reader' = [Closed EXCEPT !.open = TRUE, !.loading = TRUE]
    /\ UNCHANGED <<store, audit, browser>>

ApplyFilters(qs) ==
    /\ Click
    /\ reader.open /\ ~reader.loading
    /\ reader' = [reader EXCEPT !.applied = qs, !.loading = TRUE, !.ask = "first"]
    /\ UNCHANGED <<store, audit, browser>>

LoadMore ==
    /\ Click
    /\ reader.open /\ ~reader.loading /\ reader.cursor # <<>>
    /\ reader' = [reader EXCEPT !.loading = TRUE, !.ask = "more"]
    /\ UNCHANGED <<store, audit, browser>>

\* GET /audit: the rows the filter and the cursor leave, and whether a page
\* holds them all.
Answer(qs, cursor) ==
    LET rows == Older(Matches(qs), cursor) IN
    [items |-> Newest(rows, Page), more |-> Cardinality(rows) > Page]

\* A page of the trail as it is when the query runs.  base and query are
\* ghosts: the rows there were when the list was begun, and of which filter.
PageArrives ==
    /\ Quiet
    /\ reader.loading
    /\ LET first == reader.ask = "first"
           res == Answer(reader.applied, IF first THEN <<>> ELSE reader.cursor)
           got == res.items
       IN  reader' = [reader EXCEPT
             !.loading = FALSE,
             !.items = IF first THEN got ELSE @ \o got,
             !.cursor = IF res.more THEN <<got[Len(got)]>> ELSE <<>>,
             !.query = IF first THEN reader.applied
                       ELSE IF @ = reader.applied THEN @ ELSE "mixed",
             !.base = IF first THEN {r.id : r \in Matches(reader.applied)} ELSE @]
    /\ UNCHANGED <<store, audit, browser>>

\* An error: the list and its cursor stay, under the filter that was applied.
PageFails ==
    /\ Click
    /\ reader.loading
    /\ reader' = [reader EXCEPT !.loading = FALSE]
    /\ UNCHANGED <<store, audit, browser>>

CloseReader ==
    /\ Quiet
    /\ reader.open /\ ~reader.loading
    /\ reader' = Closed
    /\ UNCHANGED <<store, audit, browser>>

-------------------------------------------------------------------------------
(* Time and restarts *)

Tick ==
    /\ Event
    /\ now < MaxTime /\ now' = now + 1
    /\ UNCHANGED <<store, audit, browser, reader>>

\* The process ends and another one boots: buckets, requests and owed rows are
\* gone; the signing secret is in the meta table, so sessions go on.
Restart ==
    /\ Click
    /\ bucket' = [k \in {"ip", "user"} |-> NoBucket]
    /\ hooks' = [ok |-> 0, fail |-> 0]
    /\ wire' = {}
    /\ tab' = [t \in Tabs |-> [tab[t] EXCEPT !.view = IF @ = "boot" THEN "login" ELSE @]]
    /\ reader' = [reader EXCEPT !.loading = FALSE]
    /\ UNCHANGED <<account, token, trail, lastRow, expiry, jar, lapsed>>

AccessNext ==
    \/ \E res \in {"ok", "fail"} : HookRuns(res) \/ HookFails(res) \/ JobOutcome(res)
    \/ \E t \in Tabs, pw \in Password : SubmitLogin(t, pw)
    \/ \E t \in Tabs : ReloadTab(t)
    \/ \E r \in wire :
         \/ LoginLimited(r) \/ LoginReads(r) \/ LoginDenied(r) \/ LoginSucceeds(r)
         \/ MeAnswered(r) \/ Lost(r) \/ Refused(r)
         \/ \E code \in {200, 422} : Handled(r, code)
         \/ \E k \in Tokens : CreateToken(r, k) \/ RevokeToken(r, k)
         \/ \E k \in Hooks : CreateWebhook(r, k) \/ RevokeWebhook(r, k)
         \/ PasswordReads(r) \/ PasswordEnds(r)
    \/ \E t \in Tabs :
         \/ SubmitPassword(t) \/ SubmitToken(t) \/ ClickRevoke(t)
         \/ SubmitWebhook(t) \/ ClickUnhook(t)
         \/ \E kind \in {"deploy", "logtoken"} : ClickConsole(t, kind)
    \/ \E k \in Tokens, kind \in {"read", "rawread", "deploy", "create"}, target \in Targets :
         MachineCall(k, kind, target)
    \/ CookieExpires
    \/ OpenReader \/ LoadMore \/ PageArrives \/ PageFails \/ CloseReader
    \/ \E qs \in Filters : ApplyFilters(qs)
    \/ Tick \/ Restart

AccessSpec == AccessInit /\ [][AccessNext]_accessVars

-------------------------------------------------------------------------------
(* Properties *)

\* Every variable stays in its range.
AccessTypeOK ==
    /\ account \in [pw : Password, must : BOOLEAN]
    /\ \A k \in Tokens \cup Hooks : token[k].st \in {"unused", "live", "revoked"}
    /\ bucket \in [{"ip", "user"} -> [count : Nat, resetAt : Time]]
    /\ hooks \in [ok : Nat, fail : Nat]
    /\ lastRow \in 0..MaxRows /\ Ids \subseteq 1..lastRow
    /\ expiry \in [Session -> Time] /\ jar \in Session \cup {0}
    /\ tab \in [Tabs -> [view : {"boot", "login", "change", "main"}, csrf : Session \cup {0}]]
    /\ \A r \in wire : r.tab \in Tabs /\ r.cookie \in Session \cup {0}
    /\ reader.ask \in {"first", "more"}
    /\ lapsed \in [Tabs -> BOOLEAN] /\ now \in 0..MaxTime /\ events \in 0..MaxEvents

\* A tab that shows the console, or the forced change of the password, holds
\* the csrf token of the session in the jar, unless another page logged in
\* after it asked: only then are its clicks refused, until it is reloaded.
FreshTabsMayAct ==
    \A t \in Tabs :
        /\ tab[t].view \in {"change", "main"} /\ Verifies(jar)
        /\ ~lapsed[t]
        => tab[t].csrf = jar

\* Paging through the trail while rows are added and pruned: the list has no
\* row twice and is in order; when there is no more to load it holds every row
\* that was there when it was begun and still is; and it never skips one.
PagesAreComplete ==
    reader.query = reader.applied =>
        LET items == reader.items IN
        /\ \A i, j \in 1..Len(items) : i < j => Newer(items[i], items[j])
        /\ \A r \in trail :
             /\ r.id \in reader.base
             /\ \A i \in DOMAIN reader.cursor : ~Newer(reader.cursor[i], r)
             => \E i \in 1..Len(items) : items[i].id = r.id

===============================================================================

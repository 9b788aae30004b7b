-------------------------------- MODULE Fleet --------------------------------
(***************************************************************************)
(* The clusters that hyper knows: their table, the pool of kubectl clients  *)
(* built from it, the health and the capabilities that probes write back,  *)
(* and enrollment: an admin mints a one-shot token, and the machine that    *)
(* deploy/join.sh sets up registers itself with it.                        *)
(*                                                                         *)
(* A probe reads the client when it starts and writes its row when the     *)
(* cluster answers; requests and the poller's loop run in between.  One     *)
(* action is one stretch of synchronous code.  What a probe finds is which *)
(* cluster answered, its row is stale once the 24 hours are over.          *)
(*                                                                         *)
(* Services attached to a cluster, which make its deletion fail, are in    *)
(* ServiceCatalog; here a deletion is refused or not by chance.            *)
(***************************************************************************)
EXTENDS Naturals, FiniteSets, Sequences

CONSTANTS
    Cluster,        \* cluster ids, in the order of the listing
    Path,           \* kubeconfig paths an operator may type
    Machine,        \* machines that may join, known by the kubeconfig they send
    Content,        \* what is in it, see Sanitized
    Token,          \* enrollment tokens
    Minted,         \* those that exist from the start
    TokenOf,        \* the cluster that each was issued for
    Configured,     \* clusters of the configuration file; the least one is the seed
    SeedPath,       \* their kubeconfig path
    MaxProbes,      \* bound: requests that wait for a probe
    MaxChanges,     \* bound: requests, outages and crashes
    None, Down      \* no value; no answer

ASSUME FleetAssumption ==
    /\ Cluster \subseteq Nat /\ IsFiniteSet(Cluster)
    /\ Configured \subseteq Cluster /\ Configured # {}
    /\ TokenOf \in [Token -> Cluster] /\ Minted \subseteq Token
    /\ SeedPath \in Path /\ Path \cap Machine = {}
    /\ "own" \notin Path /\ {None, Down} \cap (Path \cup Machine \cup {"own"}) = {}
    /\ MaxProbes \in Nat /\ MaxChanges \in Nat

VARIABLES
    clusters,       \* table clusters: the kubeconfig path and enabled, or None
    cached,         \* K8sPool.cache: the path the client was built with, or None
    caps,           \* table cluster_capabilities: who answered, and is it stale?
    file,           \* the kubeconfigs that enrollment wrote
    token,          \* table enrollment_tokens: the timestamps that are set
    machine,        \* how far join.sh is, and the token it was given
    healthy,        \* K8sPool.health: the clusters whose last check found them ready
    probes,         \* requests that wait for refreshCluster
    poller,         \* the poller's pass over the clusters
    reachable,      \* the clusters that answer
    enrolledWith,   \* history: the file that the cluster's enrollment sent
    changes         \* bound

vars == <<clusters, cached, caps, file, token, machine, healthy, probes, poller,
          reachable, enrolledWith, changes>>

Row == [path : Path \cup {"own"}, enabled : BOOLEAN]
Probe == [cluster : Cluster, path : Path \cup {"own"},
          for : Machine \cup {None}]
Rest == [at |-> "idle", todo |-> {}, cluster |-> None, path |-> None]

TokenRow == [used : BOOLEAN, revoked : BOOLEAN, expired : BOOLEAN]
Fresh == [used |-> FALSE, revoked |-> FALSE, expired |-> FALSE]

Least(S) == CHOOSE c \in S : \A d \in S : c <= d
Registered == {c \in Cluster : clusters[c] # None}

-------------------------------------------------------------------------------
(* Boot *)

\* ClusterRegistry.bootstrap seeds an empty table; index.ts adds the other configured
\* clusters that are missing.
Seeded(table) ==
    LET row == [path |-> SeedPath, enabled |-> TRUE]
        first == IF \A c \in Cluster : table[c] = None
                 THEN [table EXCEPT ![Least(Configured)] = row] ELSE table
    IN  [c \in Cluster |-> IF c \in Configured \ {Least(Configured)} /\ first[c] = None
                           THEN row ELSE first[c]]

Init ==
    /\ clusters = Seeded([c \in Cluster |-> None])
    /\ cached = [c \in Cluster |-> None]
    /\ caps = [c \in Cluster |-> None]
    /\ file = [c \in Cluster |-> None]
    /\ token = [t \in Token |-> IF t \in Minted THEN Fresh ELSE None]
    /\ machine = [k \in Machine |-> [at |-> "new", token |-> None]]
    /\ healthy = {}
    /\ probes = {} /\ poller = Rest
    /\ reachable = Cluster
    /\ enrolledWith = [c \in Cluster |-> None]
    /\ changes = 0

Changing == changes < MaxChanges /\ changes' = changes + 1

\* Requests that were in flight end: curl exits with an error.
HangUp == machine' = [k \in Machine |-> IF machine[k].at \in {"posting", "registered"}
                                        THEN [machine[k] EXCEPT !.at = "failed"] ELSE machine[k]]

\* The process dies and is started again.
Dies ==
    /\ clusters' = Seeded(clusters)
    /\ cached' = [c \in Cluster |-> None] /\ healthy' = {}
    /\ probes' = {} /\ poller' = Rest
    /\ UNCHANGED caps

Crash ==
    /\ Changing /\ Dies /\ HangUp
    /\ UNCHANGED <<file, token, reachable, enrolledWith>>

-------------------------------------------------------------------------------
(* The pool and the probes *)

\* K8sPool.get: the path of the cached client, or of a client built now.
Client(c) == IF cached[c] # None THEN cached[c]
             ELSE IF clusters[c] # None THEN clusters[c].path ELSE None

\* The cluster that answers to a kubeconfig path: an enrolled cluster is known by
\* the file that is there when kubectl runs.
Target(c, path) == IF path = "own" THEN file[c] ELSE path

\* refreshCluster writes when the probe is back; an error is a row as well.
Answer(c, path) == IF c \in reachable /\ Target(c, path) # None THEN Target(c, path) ELSE Down

\* refreshCluster's row.
Noted(c, who) == caps' = [caps EXCEPT ![c] = [of |-> who, stale |-> FALSE]]

\* A request invalidates the client, builds a new one and waits for the probe.
Refreshes(c, path, k) ==
    /\ Cardinality(probes) < MaxProbes
    /\ cached' = [cached EXCEPT ![c] = path]
    /\ probes' = probes \cup {[cluster |-> c, path |-> path, for |-> k]}

Invalidated(c) == healthy' = healthy \ {c}

\* K8sPool.checkHealth, when readyz answered.
Checked(c, path) == healthy' = IF Answer(c, path) = Down THEN healthy \ {c} ELSE healthy \cup {c}

\* The machine that waits for its enrollment hears of it, or gave up before.
ProbeAnswers(p) ==
    /\ Noted(p.cluster, Answer(p.cluster, p.path))
    /\ probes' = probes \ {p}
    /\ \/ p.for \in Machine /\ \E at \in {"enrolled", "failed"} :
            machine' = [machine EXCEPT ![p.for].at = at]
       \/ p.for \notin Machine /\ UNCHANGED machine
    /\ UNCHANGED <<clusters, cached, file, token, healthy, poller, reachable, enrolledWith,
                   changes>>

-------------------------------------------------------------------------------
(* Requests *)

Upserted(c, row) == clusters' = [clusters EXCEPT ![c] = row]

\* ClusterRegistry.create, update and delete.
Created(c, row) == clusters[c] = None /\ Upserted(c, row)
Updated(c, row) == clusters[c] # None /\ Upserted(c, row)
Deleted(c) == clusters[c] # None /\ Upserted(c, None)

CreateCluster(c, path) ==
    /\ Changing /\ Created(c, [path |-> path, enabled |-> TRUE])
    /\ Refreshes(c, path, None) /\ Invalidated(c)
    /\ UNCHANGED <<caps, file, token, machine, poller, reachable, enrolledWith>>

\* pool.invalidate, then refreshCluster's pool.get.
PatchedClient(c, path) == path

\* What the request leaves out stays.
PatchCluster(c, path, enabled) ==
    /\ Changing /\ Updated(c, [path |-> path, enabled |-> enabled])
    /\ path \in Path \cup {clusters[c].path}
    /\ Refreshes(c, PatchedClient(c, path), None) /\ Invalidated(c)
    /\ UNCHANGED <<caps, file, token, machine, poller, reachable, enrolledWith>>

\* The kubeconfig file of an enrolled cluster stays.
DeleteCluster(c) ==
    /\ Changing /\ Deleted(c)
    /\ cached' = [cached EXCEPT ![c] = None] /\ Invalidated(c)
    /\ caps' = [caps EXCEPT ![c] = None]
    /\ enrolledWith' = [enrolledWith EXCEPT ![c] = None]
    /\ UNCHANGED <<file, token, machine, probes, poller, reachable>>

\* POST /clusters/:id/check, which knows no unknown cluster: its row says so.  The health
\* check it makes beside the probe is one more of the poller's, and left to it.
CheckCluster(c) ==
    /\ Changing
    /\ IF Client(c) = None
       THEN /\ Noted(c, Down)
            /\ healthy' = healthy \ {c}
            /\ UNCHANGED <<cached, probes>>
       ELSE Refreshes(c, Client(c), None) /\ UNCHANGED <<caps, healthy>>
    /\ UNCHANGED <<clusters, file, token, machine, poller, reachable, enrolledWith>>

-------------------------------------------------------------------------------
(* Enrollment tokens *)

\* The condition of enrollmentTokenByHash and of redeemEnrollmentToken.
Redeemable(row) == row # None /\ ~row.used /\ ~row.revoked /\ ~row.expired

\* Mutant: the id is not looked up before the token is redeemed.
IdIsFreeUnchecked(c) == TRUE

\* clusters.get, for the token's cluster.
IdIsFree(c) == clusters[c] = None

\* POST /enrollment-tokens.
MintToken(t) ==
    /\ token[t] = None /\ IdIsFree(TokenOf[t])
    /\ token' = [token EXCEPT ![t] = Fresh]
    /\ UNCHANGED <<clusters, cached, caps, file, machine, healthy, probes, poller, reachable,
                   enrolledWith, changes>>

\* DELETE /enrollment-tokens/:id takes a token that is neither used nor revoked; the
\* others expire.
RevokeToken(t) ==
    /\ Changing /\ token[t] # None
    /\ ~token[t].used /\ ~token[t].revoked
    /\ token' = [token EXCEPT ![t].revoked = TRUE]
    /\ UNCHANGED <<clusters, cached, caps, file, machine, healthy, probes, poller, reachable,
                   enrolledWith>>

TokenExpires(t) ==
    /\ Changing /\ token[t] = Fresh
    /\ token' = [token EXCEPT ![t].expired = TRUE]
    /\ UNCHANGED <<clusters, cached, caps, file, machine, healthy, probes, poller, reachable,
                   enrolledWith>>

-------------------------------------------------------------------------------
(* The machine that joins *)

At(k, at) == machine' = [machine EXCEPT ![k].at = at]

\* The k3s node of a new machine becomes ready in time, or the script gives up.
Installed(k) == {"posting", "failed"}

\* deploy/join.sh is run, for the first time or again, with a token.
Join(k, t) ==
    /\ Changing /\ token[t] # None
    /\ machine[k].at \in {"new", "failed"}
    /\ \E at \in Installed(k) : machine' = [machine EXCEPT ![k] = [at |-> at, token |-> t]]
    /\ UNCHANGED <<clusters, cached, caps, file, token, healthy, probes, poller, reachable,
                   enrolledWith>>

\* The entry of a list under a name: the last one, as new Map keeps it.
Entry(list, name) ==
    LET at == {i \in DOMAIN list : list[i].name = name}
    IN  IF at = {} THEN None ELSE list[CHOOSE i \in at : \A j \in at : j <= i].is

\* sanitizeKubeconfig: no entry with a forbidden construct, and a current context that
\* names a verified endpoint and a user with embedded credentials.
Sanitized(conf) ==
    /\ \A i \in DOMAIN conf.users : conf.users[i].is # "plugin"
    /\ \A i \in DOMAIN conf.clusters : conf.clusters[i].is # "unverified"
    /\ Entry(conf.contexts, conf.current) # None
    /\ LET context == Entry(conf.contexts, conf.current)
       IN  /\ Entry(conf.clusters, context.cluster) = "verified"
           /\ Entry(conf.users, context.user) = "static"

\* buildEnrolledCluster.
EnrolledRow == [path |-> "own", enabled |-> TRUE]

\* EnrollmentService.enroll refuses: the kubeconfig, the token, or the id.
EnrollRefused(k) ==
    LET t == machine[k].token
    IN  /\ machine[k].at = "posting"
        /\ ~(Sanitized(Content[k]) /\ Redeemable(token[t]) /\ IdIsFree(TokenOf[t]))
        /\ At(k, "failed")
        /\ UNCHANGED <<clusters, cached, caps, file, token, healthy, probes, poller, reachable,
                       enrolledWith, changes>>

\* The route's limits, per address and per token, refuse before the service is asked; the
\* requests of a window are not counted here.
EnrollLimited(k) ==
    /\ machine[k].at = "posting" /\ At(k, "failed")
    /\ UNCHANGED <<clusters, cached, caps, file, token, healthy, probes, poller, reachable,
                   enrolledWith, changes>>

Redeems(k, t) ==
    /\ machine[k].at = "posting" /\ t = machine[k].token
    /\ Sanitized(Content[k]) /\ Redeemable(token[t]) /\ IdIsFree(TokenOf[t])
    /\ token' = [token EXCEPT ![t].used = TRUE]

\* EnrollmentService.enroll, up to the probe that it waits for.
Enroll(k, t) ==
    LET c == TokenOf[t]
    IN  /\ Redeems(k, t)
        /\ \/ \* the kubeconfig cannot be written
              /\ At(k, "failed")
              /\ UNCHANGED <<clusters, cached, file, healthy, probes, enrolledWith>>
           \/ \* the cluster cannot be registered: the file is removed
              /\ file' = [file EXCEPT ![c] = None]
              /\ At(k, "failed")
              /\ UNCHANGED <<clusters, cached, healthy, probes, enrolledWith>>
           \/ \* registered
              /\ Created(c, EnrolledRow)
              /\ file' = [file EXCEPT ![c] = k]
              /\ enrolledWith' = [enrolledWith EXCEPT ![c] = k]
              /\ Refreshes(c, "own", k) /\ Invalidated(c)
              /\ At(k, "registered")
        /\ UNCHANGED <<caps, poller, reachable, changes>>

\* The process dies after the token was redeemed: before the file is written, or before
\* the cluster is registered.
EnrollDies(k, t) ==
    /\ Changing /\ Redeems(k, t)
    /\ file' \in {file, [file EXCEPT ![TokenOf[t]] = k]}
    /\ Dies /\ HangUp
    /\ UNCHANGED <<reachable, enrolledWith>>

-------------------------------------------------------------------------------
(* The poller's pass over the clusters *)

Visit(todo) ==
    LET c == Least(todo)
    IN  IF todo = {} THEN poller' = Rest /\ UNCHANGED cached
        ELSE /\ poller' = [Rest EXCEPT !.at = "health", !.todo = todo \ {c}, !.cluster = c,
                                       !.path = Client(c)]
             /\ cached' = [cached EXCEPT ![c] = Client(c)]

\* Clusters are listed once, when the tick starts.
TickStarts ==
    /\ poller.at = "idle"
    /\ Visit({c \in Registered : clusters[c].enabled})
    /\ UNCHANGED <<clusters, caps, file, token, machine, healthy, probes, reachable,
                   enrolledWith, changes>>

\* Mutant: only a missing row is refreshed.
IsStaleWhenMissing(c) == caps[c] = None

\* CapabilityService.isStale.
IsStale(c) == caps[c] # None => caps[c].stale

\* The health check is back.  A cluster deleted since then ends the tick: getOrThrow.
HealthAnswers ==
    /\ poller.at = "health" /\ Checked(poller.cluster, poller.path)
    /\ LET c == poller.cluster
           up == poller.path # None /\ Answer(c, poller.path) # Down
       IN  \/ ~up /\ Visit(poller.todo)
           \/ up /\ Client(c) = None /\ poller' = Rest /\ UNCHANGED cached
           \/ /\ up /\ Client(c) # None /\ IsStale(c)
              /\ poller' = [poller EXCEPT !.at = "probe", !.path = Client(c)]
              /\ cached' = [cached EXCEPT ![c] = Client(c)]
           \/ up /\ Client(c) # None /\ ~IsStale(c) /\ Visit(poller.todo)
    /\ UNCHANGED <<clusters, caps, file, token, machine, probes, reachable, enrolledWith,
                   changes>>

PollerProbeAnswers ==
    /\ poller.at = "probe"
    /\ Noted(poller.cluster, Answer(poller.cluster, poller.path))
    /\ Visit(poller.todo)
    /\ UNCHANGED <<clusters, file, token, machine, healthy, probes, reachable, enrolledWith,
                   changes>>

-------------------------------------------------------------------------------
(* Outages and time *)

Outage(c) ==
    /\ Changing
    /\ reachable' = (reachable \ {c}) \cup ({c} \ reachable)
    /\ UNCHANGED <<clusters, cached, caps, file, token, machine, healthy, probes, poller,
                   enrolledWith>>

\* CAPABILITY_TTL_MS pass, much longer than the 5 seconds that bound a probe.
DayPasses ==
    /\ probes = {} /\ poller.at # "probe"
    /\ caps' = [c \in Cluster |-> IF caps[c] = None THEN None ELSE [caps[c] EXCEPT !.stale = TRUE]]
    /\ UNCHANGED <<clusters, cached, file, token, machine, healthy, probes, poller, reachable,
                   enrolledWith, changes>>

Next ==
    \/ \E c \in Cluster, path \in Path : CreateCluster(c, path)
    \/ \E c \in Cluster, path \in Path \cup {"own"}, enabled \in BOOLEAN :
         PatchCluster(c, path, enabled)
    \/ \E c \in Cluster : DeleteCluster(c) \/ CheckCluster(c) \/ Outage(c)
    \/ \E t \in Token : MintToken(t) \/ RevokeToken(t) \/ TokenExpires(t)
    \/ \E k \in Machine : \/ EnrollRefused(k) \/ EnrollLimited(k)
                         \/ \E t \in Token : Join(k, t) \/ Enroll(k, t) \/ EnrollDies(k, t)
    \/ \E p \in probes : ProbeAnswers(p)
    \/ TickStarts \/ HealthAnswers \/ PollerProbeAnswers
    \/ DayPasses \/ Crash

Spec == Init /\ [][Next]_vars

\* The interval fires, kubectl answers within its request timeout, time passes.
FairSpec ==
    /\ Spec
    /\ WF_vars(TickStarts) /\ WF_vars(HealthAnswers) /\ WF_vars(PollerProbeAnswers)
    /\ WF_vars(\E p \in probes : ProbeAnswers(p)) /\ WF_vars(DayPasses)

-------------------------------------------------------------------------------
(* Properties *)

\* Every variable keeps to its type.
TypeOK ==
    /\ clusters \in [Cluster -> Row \cup {None}]
    /\ cached \in [Cluster -> Path \cup {"own", None}]
    /\ caps \in [Cluster -> [of : Path \cup Machine \cup {Down}, stale : BOOLEAN] \cup {None}]
    /\ file \in [Cluster -> Machine \cup {None}]
    /\ token \in [Token -> TokenRow \cup {None}]
    /\ machine \in [Machine -> [at : {"new", "posting", "registered", "enrolled",
                                       "failed"}, token : Token \cup {None}]]
    /\ healthy \subseteq Cluster
    /\ probes \subseteq Probe
    /\ poller \in [at : {"idle", "health", "probe"}, todo : SUBSET Cluster,
                   cluster : Cluster \cup {None}, path : Path \cup {"own", None}]
    /\ reachable \subseteq Cluster
    /\ enrolledWith \in [Cluster -> Machine \cup {None}]
    /\ changes \in 0..MaxChanges

\* While an enrolled cluster is registered, the kubeconfig on disk is the one its own
\* enrollment sent, and one that passed the check: no other token for the same id, used,
\* refused or interrupted, overwrites or removes it.
KubeconfigIsItsOwn ==
    \A c \in Cluster :
        clusters[c] # None /\ clusters[c].path = "own"
            => file[c] \in Machine /\ file[c] = enrolledWith[c] /\ Sanitized(Content[file[c]])

\* Once clusters change no more, the capabilities and the health of a cluster
\* that is enabled and answers are its own for good, though a probe of an earlier kubeconfig may answer
\* last, or one may have found the cluster down.
CapabilitiesConverge ==
    <>[](\A c \in reachable \cap Registered :
            clusters[c].enabled /\ Target(c, clusters[c].path) # None
            => /\ caps[c] # None /\ caps[c].of = Target(c, clusters[c].path)
               /\ c \in healthy)

===============================================================================

---------------------------- MODULE ServiceCatalog ----------------------------
(***************************************************************************)
(* The services that hyper manages: their table, the requests that create, *)
(* move and delete them or deploy a template, and what these leave in the  *)
(* clusters.                                                               *)
(*                                                                         *)
(* Handlers run to their next await; kubectl answers later and any other   *)
(* request may run in between.  A slot holds a request that waits, what it *)
(* read when it began, and the step it waits for.                          *)
(***************************************************************************)
EXTENDS Naturals, Sequences, FiniteSets

CONSTANTS
    Name, Cluster, Namespace,
    Slot,           \* bound: requests in flight
    LoPort, HiPort, \* NODEPORT_RANGE
    Templates,      \* TEMPLATES: the env variables an image understands, by template id
    Orders,         \* what requests for a template may ask for
    MaxRequests,    \* bound: requests
    None

ASSUME CatalogAssumption ==
    /\ IsFiniteSet(Slot) /\ MaxRequests \in Nat
    /\ LoPort \in Nat \ {0} /\ HiPort \in Nat /\ LoPort <= HiPort
    /\ \A o \in Orders : o.template \in {"custom"} \cup DOMAIN Templates

VARIABLES
    clusters,   \* table clusters
    rows,       \* table services: place, node port, and the stamp of the last write
    objects,    \* what is in the clusters and in the directory of env files
    ports,      \* the node port of the Service of a name in a place, 0 for none
    managed,    \* the namespaces that exist and are labelled as hyper's
    foreign,    \* the namespaces that hold a workload hyper does not know
    slots,      \* requests in flight
    stamp,      \* history: numbers the writes of rows
    excused,    \* history: objects left by a step that failed or was overtaken
    requests    \* bound

vars == <<clusters, rows, objects, ports, managed, foreign, slots, stamp, excused, requests>>

Port == {0} \cup (LoPort..HiPort)
Place == Name \X Cluster \X Namespace
Kind == {"Deployment", "Service", "Secret", "HPA", "envFiles"}
Row == [cluster : Cluster, ns : Namespace, port : Port, stamp : Nat, listed : SUBSET Name]

\* What a slot holds, by the step that the request waits for.
Plan == {todo \in Seq(Kind) : todo # <<>>}
PortsRequest ==
    [op : {"create"}, at : {"ports"}, name : Name, cluster : Cluster, ns : Namespace]
PatchRequest ==
    [op : {"network"}, at : {"patch"}, name : Name, cluster : Cluster, ns : Namespace, port : Port]
PurgeRequest ==
    [op : {"delete"}, at : {"purge"}, name : Name, cluster : Cluster, ns : Namespace,
     todo : Plan, stamp : Nat]
LookRequest ==
    [op : {"delete"}, at : {"label", "workloads", "prune"}, name : Name, cluster : Cluster,
     ns : Namespace, todo : {<<>>}, stamp : Nat]
TemplateRequest ==
    [op : {"template"}, at : {"namespace"}, name : Name, cluster : Cluster, ns : Namespace,
     rendered : [manifests : Seq(Kind), files : BOOLEAN]]
ApplyRequest ==
    [op : {"template"}, at : {"apply"}, name : Name, cluster : Cluster, ns : Namespace,
     stamp : Nat, todo : Plan]
DeployRequest ==
    [op : {"deploy"}, at : {"apply"}, name : Name, cluster : Cluster, ns : Namespace,
     port : Port, stamp : Nat]
Request == PortsRequest \cup PatchRequest \cup PurgeRequest \cup LookRequest
           \cup TemplateRequest \cup ApplyRequest \cup DeployRequest

ASSUME NoneIsNoRecord == None \notin Row /\ None \notin Request

Thing(n, c, ns, kind) ==
    [name |-> n, kind |-> kind, cluster |-> IF kind = "envFiles" THEN None ELSE c,
     ns |-> IF kind = "envFiles" THEN None ELSE ns]

Object == {Thing(n, c, ns, kind) : n \in Name, c \in Cluster, ns \in Namespace, kind \in Kind}

Here(n) == rows[n] # None
Active(op) == {s \in Slot : slots[s] # None /\ slots[s].op = op}
\* A request of this kind about the service is in flight.
During(op, n) == \E s \in Active(op) : slots[s].name = n
Owned(o) == /\ Here(o.name)
            /\ o \in {Thing(o.name, rows[o.name].cluster, rows[o.name].ns, kind) : kind \in Kind}

Init ==
    /\ clusters = Cluster
    /\ rows = [n \in Name |-> None]
    /\ objects = {} /\ ports = [p \in Place |-> 0] /\ managed = {}
    /\ foreign \in SUBSET (Cluster \X Namespace)
    /\ slots = [s \in Slot |-> None]
    /\ stamp = 0 /\ excused = {} /\ requests = 0

-------------------------------------------------------------------------------
(* Slots *)

Asked == requests < MaxRequests /\ requests' = requests + 1

Waits(s, request) == slots' = [slots EXCEPT ![s] = request]
Answered(s) == Waits(s, None)
Advances(s, at) == slots' = [slots EXCEPT ![s].at = at]

\* registry.create and registry.update.
Writes(n, c, ns, port, listed) ==
    /\ stamp' = stamp + 1
    /\ rows' = [rows EXCEPT ![n] = [cluster |-> c, ns |-> ns, port |-> port,
                                    stamp |-> stamp + 1, listed |-> listed]]

\* registry.delete.
Removes(n) ==
    /\ rows' = [rows EXCEPT ![n] = None]
    /\ UNCHANGED stamp

NoWrite == UNCHANGED <<rows, stamp>>

-------------------------------------------------------------------------------
(* Node ports *)

\* allocatePort: the desired port, else the next free one above it, else from the
\* bottom of the range; 0 when all are taken.
AllocatePort(desired, used) ==
    LET total == HiPort - LoPort + 1
        Candidate(i) == LoPort + ((desired - LoPort + i) % total)
        free == {i \in 0..(total - 1) : Candidate(i) \notin used}
    IN  IF free = {} THEN 0 ELSE Candidate(CHOOSE i \in free : \A j \in free : i <= j)

\* The services whose Service object has the port of their row.
Listed(c) == {n \in Name : Here(n) /\ rows[n].port # 0 /\ ports[<<n, c, rows[n].ns>>] = rows[n].port}

\* Mutant: the ports in use are not looked at.
PortsInUseIgnored(c) == {}

\* aggregateClusterPorts, over the Service objects of the cluster.
PortsInUse(c) == {ports[p] : p \in Name \X {c} \X Namespace} \ {0}

\* The API server gives a node port to one Service.
Gives(n, c, ns, port) ==
    port = 0 \/ port \notin {ports[p] : p \in (Name \X {c} \X Namespace) \ {<<n, c, ns>>}}

\* allocateExposePorts, of which the node port matters here.
AllocateExposePorts(c) == AllocatePort(LoPort, PortsInUse(c))

-------------------------------------------------------------------------------
(* Creating, adopting, moving *)

NameIsFree(n) == ~Here(n)

\* POST /services without expose, and POST /services/adopt.
CreateService(n, c, ns) ==
    /\ Asked /\ c \in clusters /\ NameIsFree(n)
    /\ Writes(n, c, ns, 0, {})
    /\ UNCHANGED <<clusters, objects, ports, managed, foreign, slots, excused>>

\* POST /services with expose asks the cluster for its Services first.
CreateExposed(s, n, c, ns) ==
    /\ Asked /\ slots[s] = None /\ c \in clusters
    /\ Waits(s, [op |-> "create", at |-> "ports", name |-> n, cluster |-> c, ns |-> ns])
    /\ NoWrite /\ UNCHANGED <<clusters, objects, ports, managed, foreign, excused>>

PortsListed(s) ==
    /\ slots[s] # None /\ slots[s].op = "create"
    /\ LET r == slots[s]
           port == AllocateExposePorts(r.cluster)
       IN  \/ port # 0 /\ NameIsFree(r.name)
              /\ Writes(r.name, r.cluster, r.ns, port, Listed(r.cluster))
           \/ NoWrite           \* kubectl failed, no port is free, or the name is taken
    /\ Answered(s)
    /\ UNCHANGED <<clusters, objects, ports, managed, foreign, excused, requests>>

\* PATCH /services/:name; what the old place holds stays there.
MoveService(n, c, ns) ==
    /\ Asked /\ Here(n) /\ c \in clusters
    /\ Writes(n, c, ns, rows[n].port, {})
    /\ excused' = excused \cup (objects \cap {Thing(n, rows[n].cluster, rows[n].ns, k) : k \in Kind})
    /\ UNCHANGED <<clusters, objects, ports, managed, foreign, slots>>

\* PATCH /services/:name/networking changes the Service in the cluster, and not the
\* row.  Place and port are of when the Service was read; without a port in the body
\* the one that was read is written back.  The port of the container follows.
EditNetworking(s, n, port) ==
    /\ Asked /\ slots[s] = None /\ Here(n) /\ rows[n].cluster \in clusters
    /\ Thing(n, rows[n].cluster, rows[n].ns, "Service") \in objects
    /\ Waits(s, [op |-> "network", at |-> "patch", name |-> n, cluster |-> rows[n].cluster,
                 ns |-> rows[n].ns, port |-> port])
    /\ NoWrite /\ UNCHANGED <<clusters, objects, ports, managed, foreign, excused>>

NetworkPatched(s) ==
    /\ slots[s] # None /\ slots[s].op = "network"
    /\ LET r == slots[s]
       IN  \/ /\ Thing(r.name, r.cluster, r.ns, "Service") \in objects
              /\ Gives(r.name, r.cluster, r.ns, r.port)
              /\ ports' = [ports EXCEPT ![<<r.name, r.cluster, r.ns>>] = r.port]
           \/ UNCHANGED ports    \* gone, taken, or kubectl failed
    /\ Answered(s)
    /\ NoWrite /\ UNCHANGED <<clusters, objects, managed, foreign, excused, requests>>

\* DELETE /clusters/:id
DeleteCluster(c) ==
    /\ Asked /\ c \in clusters
    /\ \A n \in Name : Here(n) => rows[n].cluster # c
    /\ clusters' = clusters \ {c}
    /\ NoWrite /\ UNCHANGED <<objects, ports, managed, foreign, slots, excused>>

-------------------------------------------------------------------------------
(* Deleting *)

\* Mutant: the Service object is forgotten.
PurgePlanShort == <<"Deployment", "Secret", "HPA", "envFiles">>

\* purgeService: workload, Service object, Secret, autoscaler, then the env files.
PurgePlan == <<"Deployment", "Service", "Secret", "HPA", "envFiles">>

\* DELETE /services/:name; without a client there is no purge.
DeleteService(s, n) ==
    /\ Asked /\ slots[s] = None /\ Here(n)
    /\ LET row == rows[n]
       IN  IF row.cluster \in clusters
           THEN /\ Waits(s, [op |-> "delete", at |-> "purge", name |-> n, cluster |-> row.cluster,
                             ns |-> row.ns, todo |-> PurgePlan, stamp |-> row.stamp])
                /\ NoWrite /\ UNCHANGED excused
           ELSE /\ Removes(n) /\ UNCHANGED slots
                /\ excused' = excused \cup {o \in objects : o.name = n}
    /\ UNCHANGED <<clusters, objects, ports, managed, foreign>>

At(s, op, at) == slots[s] # None /\ slots[s].op = op /\ slots[s].at = at

\* Mutant: only services of the same name keep the namespace.
OthersInNamespaceForgotten(r) == FALSE

\* The check of routes/services.ts after the row is gone.
OthersInNamespace(r) ==
    \E n \in Name \ {r.name} : Here(n) /\ rows[n].cluster = r.cluster /\ rows[n].ns = r.ns

\* One purge step is done or failed.  After the last one the row is removed, by name,
\* and the rows that are left decide whether the namespace is looked at.
PurgeStep(s) ==
    /\ At(s, "delete", "purge")
    /\ LET r == slots[s]
           o == Thing(r.name, r.cluster, r.ns, Head(r.todo))
           overtaken == Here(r.name) /\ rows[r.name].stamp # r.stamp
           last == Len(r.todo) = 1
           left == IF last /\ overtaken THEN {x \in objects' : x.name = r.name} ELSE {}
       IN  /\ \/ /\ objects' = objects \ {o} /\ excused' = (excused \ {o}) \cup left
                 /\ ports' = IF o.kind = "Service"
                             THEN [ports EXCEPT ![<<r.name, r.cluster, r.ns>>] = 0] ELSE ports
              \/ UNCHANGED <<objects, ports>> /\ excused' = excused \cup ({o} \cap objects) \cup left
           /\ IF ~last
              THEN Waits(s, [r EXCEPT !.todo = Tail(@)]) /\ NoWrite
              ELSE /\ Removes(r.name)
                   /\ IF OthersInNamespace(r) THEN Answered(s)
                      ELSE Waits(s, [r EXCEPT !.at = "label", !.todo = <<>>, !.stamp = stamp])
    /\ UNCHANGED <<clusters, managed, foreign, requests>>

LabelRead(s) ==
    /\ At(s, "delete", "label")
    /\ LET r == slots[s]
       IN  \/ <<r.cluster, r.ns>> \in managed /\ Advances(s, "workloads")
           \/ Answered(s)      \* not hyper's, or kubectl failed
    /\ NoWrite /\ UNCHANGED <<clusters, objects, ports, managed, foreign, excused, requests>>

WorkloadsListed(s) ==
    /\ At(s, "delete", "workloads")
    /\ LET r == slots[s]
           empty == /\ <<r.cluster, r.ns>> \notin foreign
                    /\ \A n \in Name : Thing(n, r.cluster, r.ns, "Deployment") \notin objects
       IN  \/ empty /\ Advances(s, "prune")
           \/ Answered(s)
    /\ NoWrite /\ UNCHANGED <<clusters, objects, ports, managed, foreign, excused, requests>>

Prune(s) ==
    /\ At(s, "delete", "prune")
    /\ LET r == slots[s]
           place == <<r.cluster, r.ns>>
       IN  \/ UNCHANGED <<objects, ports, managed, foreign>>
           \/ /\ managed' = managed \ {place} /\ foreign' = foreign \ {place}
              /\ objects' = {o \in objects : <<o.cluster, o.ns>> # place}
              /\ ports' = [p \in Place |-> IF <<p[2], p[3]>> = place THEN 0 ELSE ports[p]]
    /\ Answered(s)
    /\ NoWrite /\ UNCHANGED <<clusters, excused, requests>>

-------------------------------------------------------------------------------
(* Deploying a template *)

\* The variables of the template that have a value: the one given, else the default.
Values(o) == IF o.template = "custom" THEN {}
             ELSE {e \in Templates[o.template] : e.key \in o.env \/ e.default}

\* renderTemplateManifests and renderCustomManifests refuse what the body's schema lets
\* through: a required variable without a value, a minimum above the maximum, a custom
\* image that is no reference.
Renders(o) ==
    /\ o.autoscale # None => o.autoscale.minReplicas <= o.autoscale.maxReplicas
    /\ IF o.template = "custom" THEN o.imageOk
       ELSE \A e \in Templates[o.template] : e.required => e \in Values(o)

Scaler(o) == IF o.autoscale # None THEN <<"HPA">> ELSE <<>>

\* What an operator gives a custom image is never known to be secret.
CustomManifests(o) == <<"Service", "Deployment">> \o Scaler(o)

TemplateManifests(o) ==
    (IF \E e \in Values(o) : e.secret THEN <<"Secret">> ELSE <<>>) \o CustomManifests(o)

\* In the order of manifestsAsList.
Manifests(o) == IF o.template = "custom" THEN CustomManifests(o) ELSE TemplateManifests(o)

\* Env files are written when there is something to write.
HasRows(o) == IF o.template = "custom" THEN o.env # {} ELSE Values(o) # {}

\* What the body leads to once the namespace is there; no manifests: it is refused.
Rendered(o) == IF Renders(o) THEN [manifests |-> Manifests(o), files |-> HasRows(o)]
               ELSE [manifests |-> <<>>, files |-> FALSE]

DeployTemplate(s, n, c, ns, o) ==
    /\ Asked /\ slots[s] = None /\ c \in clusters
    /\ Waits(s, [op |-> "template", at |-> "namespace", name |-> n, cluster |-> c, ns |-> ns,
                 rendered |-> Rendered(o)])
    /\ NoWrite /\ UNCHANGED <<clusters, objects, ports, managed, foreign, excused>>

\* The namespace, labelled, and the pull secret are there: the manifests are rendered,
\* the service is registered and its env files are written.
NamespaceApplied(s) ==
    /\ At(s, "template", "namespace")
    /\ LET r == slots[s]
           files == IF r.rendered.files THEN {Thing(r.name, r.cluster, r.ns, "envFiles")} ELSE {}
       IN  /\ managed' \in {managed, managed \cup {<<r.cluster, r.ns>>}}
           /\ IF \/ managed' # managed \cup {<<r.cluster, r.ns>>}
                 \/ r.rendered.manifests = <<>> \/ ~NameIsFree(r.name)
              THEN Answered(s) /\ NoWrite /\ UNCHANGED <<objects, excused>>
              ELSE /\ Writes(r.name, r.cluster, r.ns, 0, {})
                   /\ objects' \in {objects, objects \cup files}
                   /\ excused' = IF During("delete", r.name) THEN excused \cup files ELSE excused
                   /\ Waits(s, [op |-> "template", at |-> "apply", name |-> r.name,
                                cluster |-> r.cluster, ns |-> r.ns, stamp |-> stamp + 1,
                                todo |-> r.rendered.manifests])
    /\ UNCHANGED <<clusters, ports, foreign, requests>>

\* The row is gone or another's, or is about to go.
Overtaken(r) == ~Here(r.name) \/ rows[r.name].stamp # r.stamp \/ During("delete", r.name)

\* One manifest after the other.  A failed apply removes the row by its name.
ManifestApplied(s) ==
    /\ At(s, "template", "apply")
    /\ LET r == slots[s]
           o == Thing(r.name, r.cluster, r.ns, Head(r.todo))
       IN  \/ /\ <<r.cluster, r.ns>> \in managed
              /\ objects' = objects \cup {o}
              /\ excused' = IF Overtaken(r) THEN excused \cup {o} ELSE excused
              /\ IF Len(r.todo) = 1 THEN Answered(s) ELSE Waits(s, [r EXCEPT !.todo = Tail(@)])
              /\ NoWrite
           \/ /\ Removes(r.name)
              /\ excused' = excused \cup {x \in objects : x.name = r.name}
              /\ Answered(s) /\ UNCHANGED objects
    /\ UNCHANGED <<clusters, ports, managed, foreign, requests>>

-------------------------------------------------------------------------------
(* Deploying *)

\* A job reads the service when it starts; its manifests and the Service of an
\* exposed one are applied later.  A node port belongs to one Service.
StartDeploy(s, n) ==
    /\ Asked /\ slots[s] = None /\ Here(n) /\ rows[n].cluster \in clusters
    /\ ~During("deploy", n)
    /\ Waits(s, [op |-> "deploy", at |-> "apply", name |-> n, cluster |-> rows[n].cluster,
                 ns |-> rows[n].ns, port |-> rows[n].port, stamp |-> rows[n].stamp])
    /\ NoWrite /\ UNCHANGED <<clusters, objects, ports, managed, foreign, excused>>

DeployEnds(s) ==
    /\ At(s, "deploy", "apply")
    /\ LET r == slots[s]
           exposes == r.port # 0 /\ Gives(r.name, r.cluster, r.ns, r.port)
           new == {Thing(r.name, r.cluster, r.ns, kind) :
                     kind \in IF exposes THEN {"Deployment", "Service"} ELSE {"Deployment"}}
       IN  \/ /\ objects' = objects \cup new
              /\ ports' = IF exposes THEN [ports EXCEPT ![<<r.name, r.cluster, r.ns>>] = r.port]
                          ELSE ports
              /\ excused' = IF Overtaken(r) THEN excused \cup new ELSE excused
           \/ UNCHANGED <<objects, ports, excused>>
    /\ Answered(s) /\ NoWrite
    /\ UNCHANGED <<clusters, managed, foreign, requests>>

Next ==
    \/ \E n \in Name, c \in Cluster, ns \in Namespace :
         \/ CreateService(n, c, ns) \/ MoveService(n, c, ns)
         \/ \E s \in Slot : CreateExposed(s, n, c, ns)
         \/ \E s \in Slot, o \in Orders : DeployTemplate(s, n, c, ns, o)
    \/ \E c \in Cluster : DeleteCluster(c)
    \/ \E s \in Slot, n \in Name : DeleteService(s, n) \/ StartDeploy(s, n)
    \/ \E s \in Slot, n \in Name, port \in Port : EditNetworking(s, n, port)
    \/ \E s \in Slot :
         \/ PortsListed(s) \/ NetworkPatched(s)
         \/ PurgeStep(s) \/ LabelRead(s) \/ WorkloadsListed(s) \/ Prune(s)
         \/ NamespaceApplied(s) \/ ManifestApplied(s) \/ DeployEnds(s)

Spec == Init /\ [][Next]_vars

-------------------------------------------------------------------------------
(* Properties *)

\* Every variable keeps to its type.
TypeOK ==
    /\ clusters \subseteq Cluster
    /\ rows \in [Name -> Row \cup {None}]
    /\ objects \subseteq Object /\ excused \subseteq Object
    /\ ports \in [Place -> Port]
    /\ managed \subseteq Cluster \X Namespace /\ foreign \subseteq Cluster \X Namespace
    /\ slots \in [Slot -> Request \cup {None}]
    /\ stamp \in Nat /\ requests \in 0..MaxRequests

\* What a service leaves behind when it is gone and nothing is running for it was left
\* by a purge step that failed, by an apply that a deletion overtook, by a template
\* that failed half way, by a move, or by a deletion that could not reach the cluster;
\* nothing else escapes the purge.
NothingElseStays ==
    \A o \in objects :
        (\A op \in {"delete", "template", "deploy"} : ~During(op, o.name)) /\ ~Owned(o)
        => o \in excused

\* Two services of a cluster have the same node port only if neither was exposed there
\* when the other was created, or one was moved since.
SharedPortWasUnlisted ==
    \A n, o \in Name :
        n # o /\ Here(n) /\ Here(o) /\ rows[n].port # 0 /\ rows[n].port = rows[o].port
        /\ rows[n].cluster = rows[o].cluster /\ rows[n].stamp > rows[o].stamp
        => o \notin rows[n].listed

\* A namespace is pruned only when no row names it that was there when the deletion
\* looked: whoever is hit arrived or moved in afterwards.
PruneSparesEarlier ==
    [][\A s \in Slot : Prune(s) /\ managed' # managed =>
          \A n \in Name : Here(n) /\ <<rows[n].cluster, rows[n].ns>> \notin managed'
                          /\ <<rows[n].cluster, rows[n].ns>> \in managed
                          => rows[n].stamp > slots[s].stamp]_vars

===============================================================================

---------------------------- MODULE RequestProofs ----------------------------
(*****************************************************************************)
(* What requests do, for any constants: those that create, move and delete   *)
(* services, and those that log in, call with a token and read the audit.    *)
(*                                                                           *)
(* Of services the strengthening says what a request in flight still knows.  *)
(* The row of a service carries the stamp of its last write, and a slot the  *)
(* stamp it read: as long as both agree, the slot's place is the row's.      *)
(* While a deletion purges, what its row owns and nobody is excused for is   *)
(* of a kind that is still to be purged; once it looks at the namespace,     *)
(* every row that names this namespace was written later.                    *)
(*****************************************************************************)
EXTENDS ServiceCatalog, Access, FiniteSetTheorems, SequenceTheorems, WellFoundedInduction, TLAPS

Kinds(todo) == {todo[i] : i \in DOMAIN todo}
\* The requests that remember the stamp of a row.
Stamped(s) == slots[s] # None /\ slots[s].at \in {"purge", "apply"}
Looking(s) == slots[s] # None /\ slots[s].at \in {"label", "workloads", "prune"}

\* What a deletion in flight will still purge.
WillPurge(s, o) ==
    /\ At(s, "delete", "purge")
    /\ o \in {Thing(slots[s].name, slots[s].cluster, slots[s].ns, kind) :
                kind \in Kinds(slots[s].todo)}

\* Nothing is left without an owner, an excuse or a deletion that is to purge it; and what
\* a row owns without an excuse is still to be purged by every deletion of that row.
PurgeInv ==
    /\ \A o \in objects \ excused : Owned(o) \/ \E s \in Slot : WillPurge(s, o)
    /\ \A o \in objects \ excused, s \in Slot :
         At(s, "delete", "purge") /\ o.name = slots[s].name /\ Owned(o)
         /\ rows[o.name].stamp = slots[s].stamp
         => o.kind \in Kinds(slots[s].todo)

-------------------------------------------------------------------------------
(* Operators.                                                              *)

LEMMA LeastIsIn ==
    ASSUME NEW S \in SUBSET Nat, S # {}
    PROVE  (CHOOSE i \in S : \A j \in S : i <= j) \in S
<1> DEFINE Less == {p \in Nat \X Nat : p[1] < p[2]}
<1>1. IsWellFoundedOn(Less, Nat)
  BY NatLessThanWellFounded DEF OpToRel
<1> HIDE DEF Less
<1>2. PICK i \in S : \A j \in S : ~ (<<j, i>> \in Less)
  BY <1>1, WFMin
<1>3. ASSUME NEW j \in S PROVE i <= j
  <2>1. ~ (j < i)
    BY <1>2 DEF Less
  <2>2. QED
    BY <2>1
<1>4. QED
  BY <1>3

\* A port that is allocated is of the range and not in use.
LEMMA AllocatedIsFree ==
    ASSUME NEW used
    PROVE  /\ AllocatePort(LoPort, used) \in Port
           /\ AllocatePort(LoPort, used) # 0 => AllocatePort(LoPort, used) \notin used
<1> DEFINE total == HiPort - LoPort + 1
           Candidate(i) == LoPort + ((LoPort - LoPort + i) % total)
           free == {i \in 0..(total - 1) : Candidate(i) \notin used}
           first == CHOOSE i \in free : \A j \in free : i <= j
<1>1. total \in Nat /\ total > 0
  BY CatalogAssumption
<1>2. CASE free = {}
  BY <1>2 DEF AllocatePort, Port
<1>3. CASE free # {}
  <2>1. first \in free
    <3>1. free \in SUBSET Nat
      BY <1>1
    <3> HIDE DEF free
    <3>2. QED
      BY <1>3, <3>1, LeastIsIn
  <2>2. AllocatePort(LoPort, used) = Candidate(first)
    BY <1>3 DEF AllocatePort
  <2>3. first \in 0..(total - 1) /\ Candidate(first) \notin used
    BY <2>1
  <2> HIDE DEF first
  <2>4. Candidate(first) \in LoPort..HiPort
    <3>1. (LoPort - LoPort + first) % total = first
      BY <1>1, <2>3, CatalogAssumption
    <3>2. QED
      BY <3>1, <2>3, CatalogAssumption
  <2>5. QED
    BY <2>2, <2>3, <2>4 DEF Port
<1>4. QED
  BY <1>2, <1>3

LEMMA PlanFacts ==
    ASSUME NEW todo \in Plan
    PROVE  /\ Head(todo) \in Kind
           /\ Kinds(todo) = {Head(todo)} \cup Kinds(Tail(todo))
           /\ Len(todo) = 1 => Kinds(todo) = {Head(todo)}
           /\ Len(todo) # 1 => Tail(todo) \in Plan
<1>1. todo \in Seq(Kind) /\ Len(todo) \in Nat /\ Len(todo) >= 1 /\ DOMAIN todo = 1..Len(todo)
  BY DEF Plan
<1>2. Head(todo) = todo[1] /\ Head(todo) \in Kind
  BY <1>1
<1>3. /\ Tail(todo) \in Seq(Kind) /\ Len(Tail(todo)) = Len(todo) - 1
      /\ DOMAIN Tail(todo) = 1..(Len(todo) - 1)
      /\ \A i \in 1..(Len(todo) - 1) : Tail(todo)[i] = todo[i + 1]
  BY <1>1
<1>4. Kinds(todo) = {Head(todo)} \cup Kinds(Tail(todo))
  <2>1. ASSUME NEW k \in Kinds(todo) PROVE k \in {Head(todo)} \cup Kinds(Tail(todo))
    <3>1. PICK i \in 1..Len(todo) : k = todo[i]
      BY <1>1 DEF Kinds
    <3>2. CASE i = 1
      BY <3>1, <3>2, <1>2
    <3>3. CASE i # 1
      <4>1. i - 1 \in 1..(Len(todo) - 1) /\ k = Tail(todo)[i - 1]
        BY <3>1, <3>3, <1>1, <1>3
      <4>2. QED
        BY <4>1, <1>3 DEF Kinds
    <3>4. QED
      BY <3>2, <3>3
  <2>2. ASSUME NEW k \in {Head(todo)} \cup Kinds(Tail(todo)) PROVE k \in Kinds(todo)
    <3>1. CASE k = Head(todo)
      BY <3>1, <1>1, <1>2 DEF Kinds
    <3>2. CASE k \in Kinds(Tail(todo))
      <4>1. PICK i \in 1..(Len(todo) - 1) : k = Tail(todo)[i]
        BY <3>2, <1>3 DEF Kinds
      <4>2. i + 1 \in 1..Len(todo) /\ k = todo[i + 1]
        BY <4>1, <1>1, <1>3
      <4>3. QED
        BY <4>2, <1>1 DEF Kinds
    <3>3. QED
      BY <3>1, <3>2
  <2>3. QED
    BY <2>1, <2>2
<1>5. Len(todo) = 1 => Kinds(Tail(todo)) = {}
  BY <1>1, <1>3 DEF Kinds
<1>6. Len(todo) # 1 => Tail(todo) \in Plan
  BY <1>1, <1>3 DEF Plan
<1>7. QED
  BY <1>2, <1>4, <1>5, <1>6

LEMMA PurgePlanFacts == PurgePlan \in Plan /\ Kinds(PurgePlan) = Kind
<1>1. PurgePlan \in Plan
  BY DEF PurgePlan, Plan, Kind
<1>2. DOMAIN PurgePlan = 1..5
  BY DEF PurgePlan
<1>3. Kinds(PurgePlan) = {PurgePlan[1], PurgePlan[2], PurgePlan[3], PurgePlan[4], PurgePlan[5]}
  <2>1. 1..5 = {1, 2, 3, 4, 5}
    OBVIOUS
  <2>2. QED
    BY <1>2, <2>1 DEF Kinds
<1>4. QED
  BY <1>1, <1>3 DEF PurgePlan, Kind

LEMMA ManifestsType ==
    ASSUME NEW o PROVE Rendered(o) \in [manifests : Seq(Kind), files : BOOLEAN]
<1>0. <<"HPA">> \in Seq(Kind) /\ <<"Secret">> \in Seq(Kind) /\ <<>> \in Seq(Kind)
  BY DEF Kind
<1>1. Scaler(o) \in Seq(Kind) /\ <<"Service", "Deployment">> \in Seq(Kind)
  <2>1. Scaler(o) \in {<<"HPA">>, <<>>}
    BY Zenon DEF Scaler
  <2>2. <<"Service", "Deployment">> \in Seq(Kind)
    BY DEF Kind
  <2>3. QED
    BY <1>0, <2>1, <2>2
<1>2. CustomManifests(o) \in Seq(Kind)
  BY <1>1 DEF CustomManifests
<1>4. TemplateManifests(o) \in Seq(Kind)
  BY <1>0, <1>2 DEF TemplateManifests
<1>5. Manifests(o) \in Seq(Kind)
  BY <1>2, <1>4 DEF Manifests
<1>6. HasRows(o) \in BOOLEAN
  <2>1. CASE o.template = "custom"
    <3>1. HasRows(o) = (o.env # {})
      BY <2>1, Zenon DEF HasRows
    <3>2. QED
      BY <3>1, Zenon
  <2>2. CASE o.template # "custom"
    <3>1. HasRows(o) = (Values(o) # {})
      BY <2>2, Zenon DEF HasRows
    <3>2. QED
      BY <3>1, Zenon
  <2>3. QED
    BY <2>1, <2>2
<1>7. QED
  BY <1>0, <1>5, <1>6 DEF Rendered

\* An object says which service and kind it is of.
LEMMA ThingFacts ==
    ASSUME NEW n, NEW c, NEW ns, NEW kind
    PROVE  Thing(n, c, ns, kind).name = n /\ Thing(n, c, ns, kind).kind = kind
BY DEF Thing

\* What the step says that a request waits for.
LEMMA RequestByStep ==
    ASSUME NEW r \in Request
    PROVE  /\ r.name \in Name /\ r.cluster \in Cluster /\ r.ns \in Namespace
           /\ r.op = "create" => r \in PortsRequest
           /\ r.op = "network" => r \in PatchRequest
           /\ r.op = "deploy" => r \in DeployRequest
           /\ r.op = "delete" /\ r.at = "purge" => r \in PurgeRequest
           /\ r.op = "delete" /\ r.at # "purge" => r \in LookRequest
           /\ r.op = "template" /\ r.at = "namespace" => r \in TemplateRequest
           /\ r.op = "template" /\ r.at = "apply" => r \in ApplyRequest
           /\ r.at = "purge" => r \in PurgeRequest
           /\ r.at \in {"label", "workloads", "prune"} => r \in LookRequest
           /\ r.at = "apply" => r \in ApplyRequest \cup DeployRequest
BY DEF Request, PortsRequest, PatchRequest, PurgeRequest, LookRequest, TemplateRequest,
       ApplyRequest, DeployRequest

-------------------------------------------------------------------------------
(* What the statements on the tables do.                                   *)

RowTable == [Name -> Row \cup {None}]
SlotTable == [Slot -> Request \cup {None}]

LEMMA WritesFacts ==
    ASSUME TypeOK, NEW n \in Name, NEW c \in Cluster, NEW ns \in Namespace,
           NEW port \in Port, NEW listed \in SUBSET Name, Writes(n, c, ns, port, listed)
    PROVE  /\ rows' \in RowTable /\ stamp' \in Nat /\ stamp' = stamp + 1
           /\ rows'[n] = [cluster |-> c, ns |-> ns, port |-> port, stamp |-> stamp + 1,
                          listed |-> listed]
           /\ rows'[n].cluster = c /\ rows'[n].ns = ns /\ rows'[n].stamp = stamp + 1
           /\ rows'[n] # None /\ \A o \in Name \ {n} : rows'[o] = rows[o]
<1> DEFINE row == [cluster |-> c, ns |-> ns, port |-> port, stamp |-> stamp + 1,
                   listed |-> listed]
<1>1. rows \in RowTable /\ stamp \in Nat
  BY DEF TypeOK, RowTable
<1>2. row \in Row /\ row # None
  BY <1>1, NoneIsNoRecord DEF Row
<1>3. rows' = [rows EXCEPT ![n] = row] /\ stamp' = stamp + 1
  BY DEF Writes
<1> HIDE DEF row
<1>4. rows' \in RowTable /\ rows'[n] = row /\ \A o \in Name \ {n} : rows'[o] = rows[o]
  BY <1>1, <1>2, <1>3 DEF RowTable
<1>5. row.cluster = c /\ row.ns = ns /\ row.stamp = stamp + 1
  BY DEF row
<1>6. QED
  BY <1>1, <1>2, <1>3, <1>4, <1>5 DEF row

LEMMA RemovesFacts ==
    ASSUME TypeOK, NEW n \in Name, Removes(n)
    PROVE  /\ rows' \in RowTable /\ stamp' = stamp
           /\ rows'[n] = None /\ \A o \in Name \ {n} : rows'[o] = rows[o]
BY DEF TypeOK, Removes, RowTable

LEMMA NoWriteFacts ==
    ASSUME TypeOK, NoWrite
    PROVE  rows' = rows /\ stamp' = stamp /\ rows' \in RowTable /\ stamp' \in Nat
BY DEF TypeOK, NoWrite, RowTable

LEMMA WaitsFacts ==
    ASSUME TypeOK, NEW s \in Slot, NEW r \in Request, Waits(s, r)
    PROVE  /\ slots' \in SlotTable /\ slots'[s] = r /\ r # None
           /\ \A t \in Slot \ {s} : slots'[t] = slots[t]
BY NoneIsNoRecord DEF TypeOK, Waits, SlotTable

LEMMA AnsweredFacts ==
    ASSUME TypeOK, NEW s \in Slot, Answered(s)
    PROVE  /\ slots' \in SlotTable /\ slots'[s] = None
           /\ \A t \in Slot \ {s} : slots'[t] = slots[t]
BY DEF TypeOK, Answered, Waits, SlotTable

\* A deletion that looks at the namespace goes on looking.
LEMMA AdvancesFacts ==
    ASSUME TypeOK, NEW s \in Slot, NEW at \in {"label", "workloads", "prune"},
           slots[s] \in LookRequest, Advances(s, at)
    PROVE  /\ slots' \in SlotTable /\ slots'[s] = [slots[s] EXCEPT !.at = at]
           /\ slots'[s] \in LookRequest
           /\ \A t \in Slot \ {s} : slots'[t] = slots[t]
<1>1. slots \in SlotTable
  BY DEF TypeOK, SlotTable
<1>2. [slots[s] EXCEPT !.at = at] \in LookRequest
  BY DEF LookRequest
<1>3. slots' = [slots EXCEPT ![s] = [slots[s] EXCEPT !.at = at]]
  BY <1>1 DEF Advances, SlotTable
<1>4. LookRequest \subseteq Request
  BY DEF Request
<1>5. QED
  BY <1>1, <1>2, <1>3, <1>4 DEF SlotTable

LEMMA SlotType == ASSUME TypeOK, NEW s \in Slot, slots[s] # None PROVE slots[s] \in Request
BY DEF TypeOK

LEMMA RowType == ASSUME TypeOK, NEW n \in Name, Here(n) PROVE rows[n] \in Row
BY DEF TypeOK, Here

LEMMA ObjectFacts ==
    ASSUME NEW r \in Request, NEW kind \in Kind
    PROVE  Thing(r.name, r.cluster, r.ns, kind) \in Object
<1>1. r.name \in Name /\ r.cluster \in Cluster /\ r.ns \in Namespace
  BY RequestByStep
<1>2. QED
  BY <1>1 DEF Object

-------------------------------------------------------------------------------
(* Type correctness.                                                       *)

LEMMA TypeByParts ==
    ASSUME clusters' \subseteq Cluster, rows' \in RowTable,
           objects' \subseteq Object, excused' \subseteq Object,
           ports' \in [Place -> Port],
           managed' \subseteq Cluster \X Namespace, foreign' \subseteq Cluster \X Namespace,
           slots' \in SlotTable, stamp' \in Nat, requests' \in 0..MaxRequests
    PROVE  TypeOK'
BY DEF TypeOK, RowTable, SlotTable

LEMMA AskedType == ASSUME TypeOK, Asked PROVE requests' \in 0..MaxRequests
BY CatalogAssumption DEF TypeOK, Asked

LEMMA TypeInit == Init => TypeOK
BY CatalogAssumption DEF Init, TypeOK, Port

LEMMA TypeStep == TypeOK /\ [Next]_vars => TypeOK'
<1> SUFFICES ASSUME TypeOK, [Next]_vars PROVE TypeOK'
  OBVIOUS
<1>a. /\ clusters \subseteq Cluster /\ rows \in RowTable
      /\ objects \subseteq Object /\ excused \subseteq Object
      /\ ports \in [Place -> Port]
      /\ managed \subseteq Cluster \X Namespace /\ foreign \subseteq Cluster \X Namespace
      /\ slots \in SlotTable /\ stamp \in Nat /\ requests \in 0..MaxRequests
  BY DEF TypeOK, RowTable, SlotTable
<1>b. {} \in SUBSET Name /\ 0 \in Port
  BY DEF Port
<1>1. ASSUME NEW n \in Name, NEW c \in Cluster, NEW ns \in Namespace, CreateService(n, c, ns)
      PROVE  TypeOK'
  <2>1. rows' \in RowTable /\ stamp' \in Nat
    BY <1>1, <1>b, WritesFacts DEF CreateService
  <2>2. QED
    BY <1>1, <1>a, <2>1, AskedType, TypeByParts DEF CreateService
<1>2. ASSUME NEW n \in Name, NEW c \in Cluster, NEW ns \in Namespace, MoveService(n, c, ns)
      PROVE  TypeOK'
  <2>1. Here(n) /\ rows[n].port \in Port
    BY <1>2, RowType DEF MoveService, Row
  <2>2. rows' \in RowTable /\ stamp' \in Nat
    BY <1>2, <1>b, <2>1, WritesFacts DEF MoveService
  <2>3. excused' \subseteq Object
    BY <1>2, <1>a DEF MoveService
  <2>4. QED
    BY <1>2, <1>a, <2>2, <2>3, AskedType, TypeByParts DEF MoveService
<1>3. ASSUME NEW s \in Slot, NEW n \in Name, NEW c \in Cluster, NEW ns \in Namespace,
             CreateExposed(s, n, c, ns)
      PROVE  TypeOK'
  <2> DEFINE r == [op |-> "create", at |-> "ports", name |-> n, cluster |-> c, ns |-> ns]
  <2>1. r \in Request
    BY DEF PortsRequest, Request
  <2>2. slots' \in SlotTable
    BY <1>3, <2>1, WaitsFacts DEF CreateExposed
  <2>3. QED
    BY <1>3, <1>a, <2>2, AskedType, NoWriteFacts, TypeByParts DEF CreateExposed
<1>4. ASSUME NEW s \in Slot, NEW n \in Name, NEW c \in Cluster, NEW ns \in Namespace,
             NEW o \in Orders, DeployTemplate(s, n, c, ns, o)
      PROVE  TypeOK'
  <2> DEFINE r == [op |-> "template", at |-> "namespace", name |-> n, cluster |-> c,
                   ns |-> ns, rendered |-> Rendered(o)]
  <2>1. r \in Request
    BY ManifestsType DEF TemplateRequest, Request
  <2>2. slots' \in SlotTable
    BY <1>4, <2>1, WaitsFacts DEF DeployTemplate
  <2>3. QED
    BY <1>4, <1>a, <2>2, AskedType, NoWriteFacts, TypeByParts DEF DeployTemplate
<1>5. ASSUME NEW c \in Cluster, DeleteCluster(c) PROVE TypeOK'
  BY <1>5, <1>a, AskedType, NoWriteFacts, TypeByParts DEF DeleteCluster
<1>6. ASSUME NEW s \in Slot, NEW n \in Name, DeleteService(s, n) PROVE TypeOK'
  <2>1. rows[n] \in Row /\ Here(n)
    BY <1>6, RowType DEF DeleteService
  <2>2. CASE rows[n].cluster \in clusters
    <3> DEFINE r == [op |-> "delete", at |-> "purge", name |-> n, cluster |-> rows[n].cluster,
                     ns |-> rows[n].ns, todo |-> PurgePlan, stamp |-> rows[n].stamp]
    <3>1. r \in Request
      BY <2>1, PurgePlanFacts DEF PurgeRequest, Request, Row
    <3>2. Waits(s, r) /\ NoWrite /\ UNCHANGED excused
      BY <1>6, <2>2 DEF DeleteService
    <3>3. slots' \in SlotTable
      BY <3>1, <3>2, WaitsFacts
    <3>4. QED
      BY <1>6, <1>a, <3>2, <3>3, AskedType, NoWriteFacts, TypeByParts DEF DeleteService
  <2>3. CASE rows[n].cluster \notin clusters
    <3>1. Removes(n) /\ UNCHANGED slots /\ excused' = excused \cup {o \in objects : o.name = n}
      BY <1>6, <2>3 DEF DeleteService
    <3>2. excused' \subseteq Object
      BY <1>a, <3>1
    <3>3. QED
      BY <1>6, <1>a, <3>1, <3>2, AskedType, RemovesFacts, TypeByParts DEF DeleteService
  <2>4. QED
    BY <2>2, <2>3
<1>7. ASSUME NEW s \in Slot, NEW n \in Name, StartDeploy(s, n) PROVE TypeOK'
  <2>1. rows[n] \in Row
    BY <1>7, RowType DEF StartDeploy
  <2> DEFINE r == [op |-> "deploy", at |-> "apply", name |-> n, cluster |-> rows[n].cluster,
                   ns |-> rows[n].ns, port |-> rows[n].port, stamp |-> rows[n].stamp]
  <2>2. r \in Request
    BY <2>1 DEF DeployRequest, Request, Row
  <2>3. slots' \in SlotTable
    BY <1>7, <2>2, WaitsFacts DEF StartDeploy
  <2>4. QED
    BY <1>7, <1>a, <2>3, AskedType, NoWriteFacts, TypeByParts DEF StartDeploy
<1>8. ASSUME NEW s \in Slot, NEW n \in Name, NEW port \in Port, EditNetworking(s, n, port)
      PROVE  TypeOK'
  <2>1. rows[n] \in Row
    BY <1>8, RowType DEF EditNetworking
  <2> DEFINE r == [op |-> "network", at |-> "patch", name |-> n, cluster |-> rows[n].cluster,
                   ns |-> rows[n].ns, port |-> port]
  <2>2. r \in Request
    BY <2>1 DEF PatchRequest, Request, Row
  <2>3. slots' \in SlotTable
    BY <1>8, <2>2, WaitsFacts DEF EditNetworking
  <2>4. QED
    BY <1>8, <1>a, <2>3, AskedType, NoWriteFacts, TypeByParts DEF EditNetworking
<1>9. ASSUME NEW s \in Slot, PortsListed(s) PROVE TypeOK'
  <2> DEFINE r == slots[s]
             port == AllocateExposePorts(r.cluster)
  <2>1. r \in Request
    BY <1>9, SlotType DEF PortsListed
  <2>2. port \in Port /\ Listed(r.cluster) \in SUBSET Name
    BY AllocatedIsFree DEF AllocateExposePorts, Listed
  <2>3. rows' \in RowTable /\ stamp' \in Nat
    <3>1. CASE NoWrite
      BY <3>1, NoWriteFacts
    <3>2. CASE Writes(r.name, r.cluster, r.ns, port, Listed(r.cluster))
      <4>1. r.name \in Name /\ r.cluster \in Cluster /\ r.ns \in Namespace
        BY <2>1, RequestByStep
      <4> HIDE DEF r, port
      <4>2. QED
        BY <3>2, <4>1, <2>2, WritesFacts
    <3>3. QED
      BY <1>9, <3>1, <3>2 DEF PortsListed
  <2>4. QED
    BY <1>9, <1>a, <2>3, AnsweredFacts, TypeByParts DEF PortsListed
<1>10. ASSUME NEW s \in Slot, NetworkPatched(s) PROVE TypeOK'
  <2>1. slots[s] \in PatchRequest
    BY <1>10, SlotType, RequestByStep DEF NetworkPatched
  <2>2. ports' \in [Place -> Port]
    BY <1>10, <1>a, <2>1 DEF NetworkPatched, PatchRequest
  <2>3. QED
    BY <1>10, <1>a, <2>2, AnsweredFacts, NoWriteFacts, TypeByParts DEF NetworkPatched
<1>11. ASSUME NEW s \in Slot, PurgeStep(s) PROVE TypeOK'
  <2> DEFINE r == slots[s]
             o == Thing(r.name, r.cluster, r.ns, Head(r.todo))
  <2>1. r \in PurgeRequest /\ r \in Request
    BY <1>11, SlotType, RequestByStep DEF PurgeStep, At
  <2>2. r.name \in Name /\ r.todo \in Plan /\ Head(r.todo) \in Kind
    BY <2>1, PlanFacts DEF PurgeRequest
  <2>3. o \in Object
    BY <2>1, <2>2, ObjectFacts
  <2>4. objects' \subseteq Object /\ excused' \subseteq Object /\ ports' \in [Place -> Port]
    <3>1. objects' \in {objects, objects \ {o}} /\ objects' \subseteq Object
      BY <1>11, <1>a DEF PurgeStep
    <3>2. excused' \subseteq excused \cup {o} \cup objects'
      BY <1>11 DEF PurgeStep
    <3>3. ports' \in [Place -> Port]
      BY <1>11, <1>a, <1>b DEF PurgeStep
    <3>4. QED
      BY <1>a, <2>3, <3>1, <3>2, <3>3
  <2>5. rows' \in RowTable /\ stamp' \in Nat /\ slots' \in SlotTable
    <3>1. CASE Len(r.todo) # 1
      <4>1. [r EXCEPT !.todo = Tail(@)] \in Request
        BY <2>1, <2>2, <3>1, PlanFacts DEF PurgeRequest, Request
      <4>2. Waits(s, [r EXCEPT !.todo = Tail(@)]) /\ NoWrite
        BY <1>11, <3>1 DEF PurgeStep
      <4>3. QED
        BY <4>1, <4>2, WaitsFacts, NoWriteFacts
    <3>2. CASE Len(r.todo) = 1
      <4>1. [r EXCEPT !.at = "label", !.todo = <<>>, !.stamp = stamp] \in Request
        BY <1>a, <2>1 DEF PurgeRequest, LookRequest, Request
      <4>2. Removes(r.name)
        BY <1>11, <3>2 DEF PurgeStep
      <4>3. \/ Answered(s)
            \/ Waits(s, [r EXCEPT !.at = "label", !.todo = <<>>, !.stamp = stamp])
        BY <1>11, <3>2 DEF PurgeStep
      <4>4. QED
        BY <1>a, <2>2, <4>1, <4>2, <4>3, RemovesFacts, WaitsFacts, AnsweredFacts
    <3>3. QED
      BY <3>1, <3>2
  <2>6. QED
    BY <1>11, <1>a, <2>4, <2>5, TypeByParts DEF PurgeStep
<1>12. ASSUME NEW s \in Slot, LabelRead(s) \/ WorkloadsListed(s) PROVE TypeOK'
  <2>1. slots[s] \in LookRequest
    BY <1>12, SlotType, RequestByStep DEF LabelRead, WorkloadsListed, At
  <2>2. slots' \in SlotTable
    BY <1>12, <2>1, AdvancesFacts, AnsweredFacts DEF LabelRead, WorkloadsListed
  <2>3. QED
    BY <1>12, <1>a, <2>2, NoWriteFacts, TypeByParts DEF LabelRead, WorkloadsListed
<1>13. ASSUME NEW s \in Slot, Prune(s) PROVE TypeOK'
  <2>1. /\ objects' \subseteq Object /\ ports' \in [Place -> Port]
        /\ managed' \subseteq Cluster \X Namespace /\ foreign' \subseteq Cluster \X Namespace
    BY <1>13, <1>a, <1>b DEF Prune
  <2>2. QED
    BY <1>13, <1>a, <2>1, AnsweredFacts, NoWriteFacts, TypeByParts DEF Prune
<1>14. ASSUME NEW s \in Slot, NamespaceApplied(s) PROVE TypeOK'
  <2> DEFINE r == slots[s]
             files == IF r.rendered.files THEN {Thing(r.name, r.cluster, r.ns, "envFiles")} ELSE {}
             next == [op |-> "template", at |-> "apply", name |-> r.name,
                      cluster |-> r.cluster, ns |-> r.ns, stamp |-> stamp + 1,
                      todo |-> r.rendered.manifests]
  <2>1. r \in TemplateRequest /\ r \in Request
    BY <1>14, SlotType, RequestByStep DEF NamespaceApplied, At
  <2>2. r.name \in Name /\ r.cluster \in Cluster /\ r.ns \in Namespace
    BY <2>1, RequestByStep
  <2>3. files \subseteq Object
    BY <2>1, ObjectFacts DEF Kind
  <2>4. managed' \subseteq Cluster \X Namespace
    BY <1>14, <1>a, <2>2 DEF NamespaceApplied
  <2>5. CASE Answered(s) /\ NoWrite /\ UNCHANGED <<objects, excused>>
    BY <1>14, <1>a, <2>4, <2>5, AnsweredFacts, NoWriteFacts, TypeByParts DEF NamespaceApplied
  <2>6. CASE /\ r.rendered.manifests # <<>>
             /\ Writes(r.name, r.cluster, r.ns, 0, {})
             /\ objects' \in {objects, objects \cup files}
             /\ excused' \in {excused, excused \cup files}
             /\ Waits(s, next)
    <3>1. next \in Request
      BY <1>a, <2>1, <2>6 DEF TemplateRequest, ApplyRequest, Plan, Request
    <3>2. slots' \in SlotTable
      <4> HIDE DEF next
      <4>1. QED
        BY <2>6, <3>1, WaitsFacts
    <3>3. rows' \in RowTable /\ stamp' \in Nat
      <4> HIDE DEF r
      <4>1. QED
        BY <1>b, <2>2, <2>6, WritesFacts
    <3>4. objects' \subseteq Object /\ excused' \subseteq Object
      BY <1>a, <2>3, <2>6
    <3>5. QED
      BY <1>14, <1>a, <2>4, <3>2, <3>3, <3>4, TypeByParts DEF NamespaceApplied
  <2>7. QED
    BY <1>14, <2>5, <2>6 DEF NamespaceApplied
<1>15. ASSUME NEW s \in Slot, ManifestApplied(s) PROVE TypeOK'
  <2> DEFINE r == slots[s]
             o == Thing(r.name, r.cluster, r.ns, Head(r.todo))
  <2>1. r \in ApplyRequest /\ r \in Request
    BY <1>15, SlotType, RequestByStep DEF ManifestApplied, At
  <2>2. r.name \in Name /\ r.todo \in Plan /\ Head(r.todo) \in Kind
    BY <2>1, PlanFacts DEF ApplyRequest
  <2>3. o \in Object
    BY <2>1, <2>2, ObjectFacts
  <2>4. objects' \subseteq Object /\ excused' \subseteq Object
    BY <1>15, <1>a, <2>3 DEF ManifestApplied
  <2>5. rows' \in RowTable /\ stamp' \in Nat
    BY <1>15, <1>a, <2>2, NoWriteFacts, RemovesFacts DEF ManifestApplied
  <2>6. slots' \in SlotTable
    <3>1. CASE Answered(s)
      BY <3>1, AnsweredFacts
    <3>2. CASE Len(r.todo) # 1 /\ Waits(s, [r EXCEPT !.todo = Tail(@)])
      <4>1. [r EXCEPT !.todo = Tail(@)] \in Request
        BY <2>1, <2>2, <3>2, PlanFacts DEF ApplyRequest, Request
      <4>2. QED
        BY <3>2, <4>1, WaitsFacts
    <3>3. QED
      BY <1>15, <3>1, <3>2 DEF ManifestApplied
  <2>7. QED
    BY <1>15, <1>a, <2>4, <2>5, <2>6, TypeByParts DEF ManifestApplied
<1>16. ASSUME NEW s \in Slot, DeployEnds(s) PROVE TypeOK'
  <2> DEFINE r == slots[s]
             exposes == r.port # 0 /\ Gives(r.name, r.cluster, r.ns, r.port)
             new == {Thing(r.name, r.cluster, r.ns, kind) :
                       kind \in IF exposes THEN {"Deployment", "Service"} ELSE {"Deployment"}}
  <2>1. r \in DeployRequest /\ r \in Request
    BY <1>16, SlotType, RequestByStep DEF DeployEnds, At
  <2>2. new \subseteq Object
    BY <2>1, ObjectFacts DEF Kind
  <2>3. objects' \subseteq Object /\ excused' \subseteq Object
    BY <1>16, <1>a, <2>2 DEF DeployEnds
  <2>4. ports' \in [Place -> Port]
    BY <1>16, <1>a, <2>1 DEF DeployEnds, DeployRequest
  <2>5. QED
    BY <1>16, <1>a, <2>3, <2>4, AnsweredFacts, NoWriteFacts, TypeByParts DEF DeployEnds
<1>17. CASE UNCHANGED vars
  BY <1>17, <1>a, TypeByParts DEF vars
<1>18. QED
  BY <1>1, <1>2, <1>3, <1>4, <1>5, <1>6, <1>7, <1>8, <1>9, <1>10, <1>11, <1>12, <1>13, <1>14,
     <1>15, <1>16, <1>17 DEF Next

\* The tables, the objects in the clusters and the requests in flight keep to their types.
THEOREM CatalogTypeCorrect == Spec => []TypeOK
BY TypeInit, TypeStep, PTL DEF Spec

-------------------------------------------------------------------------------
(* Rows and stamps.                                                        *)

\* What a request knows of the rows: it remembers no stamp that is still to come; while the
\* row has the stamp it read, the row has its place; and whoever names the namespace that a
\* deletion looks at was not there when it began to look.
Knows(s) ==
    /\ Stamped(s) \/ Looking(s) => slots[s].stamp <= stamp
    /\ Stamped(s) /\ Here(slots[s].name) /\ rows[slots[s].name].stamp = slots[s].stamp
       => rows[slots[s].name].cluster = slots[s].cluster /\ rows[slots[s].name].ns = slots[s].ns
    /\ Looking(s) =>
         \A n \in Name :
            Here(n) /\ rows[n].cluster = slots[s].cluster /\ rows[n].ns = slots[s].ns
            => rows[n].stamp > slots[s].stamp

\* Rows are not newer than the last write, requests know what they must, and no service was
\* shown the port that it shares.
RowsInv ==
    /\ \A n \in Name : Here(n) => rows[n].stamp <= stamp
    /\ \A s \in Slot : Knows(s)
    /\ SharedPortWasUnlisted

\* What a step may do to the rows: a row is left alone, removed, or written with a stamp of
\* its own and a port that no service it counts as listed has.
RowStep ==
    /\ stamp' \in {stamp, stamp + 1}
    /\ \A n \in Name : rows'[n] # None =>
         \/ rows'[n] = rows[n]
         \/ /\ stamp' = stamp + 1 /\ rows'[n].stamp = stamp'
            /\ \A o \in rows'[n].listed :
                 Here(o) /\ rows[o].cluster = rows'[n].cluster => rows[o].port # rows'[n].port

LEMMA WritesRowStep ==
    ASSUME TypeOK, NEW n \in Name, NEW c \in Cluster, NEW ns \in Namespace,
           NEW port \in Port, NEW listed \in SUBSET Name, Writes(n, c, ns, port, listed),
           \A o \in listed : Here(o) /\ rows[o].cluster = c => rows[o].port # port
    PROVE  RowStep
<1>1. /\ stamp' = stamp + 1
      /\ rows'[n] = [cluster |-> c, ns |-> ns, port |-> port, stamp |-> stamp + 1,
                     listed |-> listed]
      /\ \A o \in Name \ {n} : rows'[o] = rows[o]
  BY WritesFacts
<1>2. QED
  BY <1>1 DEF RowStep

LEMMA OtherRowSteps ==
    ASSUME TypeOK, NoWrite \/ \E n \in Name : Removes(n) PROVE RowStep
<1>1. CASE NoWrite
  BY <1>1 DEF NoWrite, RowStep
<1>2. ASSUME NEW n \in Name, Removes(n) PROVE RowStep
  BY <1>2, RemovesFacts DEF RowStep
<1>3. QED
  BY <1>1, <1>2

\* A request that goes on knows what it knew: what was written since is newer.
LEMMA KeepsKnowing ==
    ASSUME TypeOK, TypeOK', RowsInv, RowStep, NEW s \in Slot,
           slots[s] # None, slots'[s] # None,
           slots'[s].name = slots[s].name, slots'[s].cluster = slots[s].cluster,
           slots'[s].ns = slots[s].ns,
           Stamped(s)' => Stamped(s) /\ slots'[s].stamp = slots[s].stamp,
           Looking(s)' => Looking(s) /\ slots'[s].stamp = slots[s].stamp
    PROVE  Knows(s)'
<1>1. Knows(s) /\ stamp \in Nat /\ stamp' \in Nat /\ stamp <= stamp'
  BY DEF RowsInv, TypeOK, RowStep
<1>2. slots[s].name \in Name /\ \A n \in Name : Here(n)' => rows'[n] \in Row
  <2>1. slots[s] \in Request
    BY SlotType
  <2>2. QED
    BY <2>1, RequestByStep DEF TypeOK, Here
<1>3. Stamped(s) \/ Looking(s) => slots[s].stamp \in Nat
  BY SlotType, RequestByStep DEF Stamped, Looking, PurgeRequest, LookRequest, ApplyRequest,
     DeployRequest
<1>4. ASSUME Stamped(s)' \/ Looking(s)' PROVE slots'[s].stamp <= stamp'
  BY <1>1, <1>3, <1>4 DEF Knows
<1>5. ASSUME Stamped(s)', rows'[slots[s].name] # None,
             rows'[slots[s].name].stamp = slots'[s].stamp
      PROVE  /\ rows'[slots[s].name].cluster = slots'[s].cluster
             /\ rows'[slots[s].name].ns = slots'[s].ns
  <2>1. slots[s].stamp <= stamp /\ rows'[slots[s].name].stamp = slots[s].stamp
    BY <1>1, <1>5 DEF Knows
  <2>2. rows'[slots[s].name] = rows[slots[s].name]
    BY <1>1, <1>2, <1>3, <1>5, <2>1 DEF RowStep
  <2>3. QED
    BY <1>1, <1>5, <2>1, <2>2 DEF Knows, Here
<1>6. ASSUME Looking(s)', NEW n \in Name, rows'[n] # None,
             rows'[n].cluster = slots'[s].cluster, rows'[n].ns = slots'[s].ns
      PROVE  rows'[n].stamp > slots'[s].stamp
  <2>1. slots[s].stamp <= stamp /\ slots'[s].stamp = slots[s].stamp
    BY <1>1, <1>6 DEF Knows
  <2>2. CASE rows'[n] = rows[n]
    BY <1>1, <1>6, <2>1, <2>2 DEF Knows, Here
  <2>3. CASE rows'[n] # rows[n]
    BY <1>1, <1>3, <1>6, <2>1, <2>3 DEF RowStep
  <2>4. QED
    BY <2>2, <2>3
<1>7. QED
  BY <1>4, <1>5, <1>6 DEF Knows, Here

\* The rows stay numbered, and a shared port unlisted, whatever the slots do.
LEMMA RowsInvByKnows ==
    ASSUME TypeOK, TypeOK', RowsInv, RowStep, \A s \in Slot : Knows(s)'
    PROVE  RowsInv'
<1>1. stamp \in Nat /\ stamp' \in Nat /\ stamp <= stamp'
  BY DEF TypeOK, RowStep
<1>2. \A n \in Name : Here(n) => rows[n] \in Row /\ rows[n].stamp \in Nat
  BY RowType DEF Row
<1>3. \A n \in Name : rows'[n] # None => rows'[n] \in Row /\ rows'[n].stamp \in Nat
  BY DEF TypeOK, Row
<1>4. ASSUME NEW n \in Name, rows'[n] # None PROVE rows'[n].stamp <= stamp'
  BY <1>1, <1>2, <1>4 DEF RowStep, RowsInv, Here
<1>5. ASSUME NEW n \in Name, NEW o \in Name, n # o, rows'[n] # None, rows'[o] # None,
             rows'[n].port # 0, rows'[n].port = rows'[o].port,
             rows'[n].cluster = rows'[o].cluster, rows'[n].stamp > rows'[o].stamp
      PROVE  o \notin rows'[n].listed
  <2>1. rows'[o] = rows[o]
    BY <1>1, <1>3, <1>4, <1>5 DEF RowStep
  <2>2. CASE rows'[n] = rows[n]
    BY <1>5, <2>1, <2>2 DEF RowsInv, SharedPortWasUnlisted, Here
  <2>3. CASE rows'[n] # rows[n]
    BY <1>5, <2>1, <2>3 DEF RowStep, Here
  <2>4. QED
    BY <2>2, <2>3
<1>6. QED
  BY <1>4, <1>5 DEF RowsInv, SharedPortWasUnlisted, Here

\* A request that no step touches knows what it knew.
LEMMA UntouchedKnows ==
    ASSUME TypeOK, TypeOK', RowsInv, RowStep, NEW s \in Slot,
           slots'[s] \in {slots[s], None}
    PROVE  Knows(s)'
<1>1. CASE slots'[s] = None
  BY <1>1 DEF Knows, Stamped, Looking
<1>2. CASE slots'[s] # None /\ slots'[s] = slots[s]
  <2>1. (Stamped(s)' => Stamped(s)) /\ (Looking(s)' => Looking(s))
    BY <1>2 DEF Stamped, Looking
  <2>2. QED
    BY <1>2, <2>1, KeepsKnowing
<1>3. QED
  BY <1>1, <1>2

LEMMA RowsInvBySame ==
    ASSUME TypeOK, TypeOK', RowsInv, RowStep, \A s \in Slot : slots'[s] \in {slots[s], None}
    PROVE  RowsInv'
BY UntouchedKnows, RowsInvByKnows

LEMMA RowsInvBySlot ==
    ASSUME TypeOK, TypeOK', RowsInv, RowStep, NEW s \in Slot, Knows(s)',
           \A t \in Slot \ {s} : slots'[t] = slots[t]
    PROVE  RowsInv'
<1>1. \A t \in Slot : Knows(t)'
  BY UntouchedKnows
<1>2. QED
  BY <1>1, RowsInvByKnows

LEMMA RowsInit == Init => RowsInv
BY DEF Init, RowsInv, Knows, Stamped, Looking, Here, SharedPortWasUnlisted

LEMMA RowsInvStep == TypeOK /\ TypeOK' /\ RowsInv /\ [Next]_vars => RowsInv'
<1> SUFFICES ASSUME TypeOK, TypeOK', RowsInv, [Next]_vars PROVE RowsInv'
  OBVIOUS
<1>b. {} \in SUBSET Name /\ 0 \in Port
  BY DEF Port
<1>1. ASSUME NEW n \in Name, NEW c \in Cluster, NEW ns \in Namespace, CreateService(n, c, ns)
      PROVE  RowsInv'
  <2>1. RowStep
    BY <1>1, <1>b, WritesRowStep DEF CreateService
  <2>2. QED
    BY <1>1, <2>1, RowsInvBySame DEF CreateService
<1>2. ASSUME NEW n \in Name, NEW c \in Cluster, NEW ns \in Namespace, MoveService(n, c, ns)
      PROVE  RowsInv'
  <2>1. rows[n].port \in Port
    BY <1>2, RowType DEF MoveService, Row
  <2>2. RowStep
    BY <1>2, <1>b, <2>1, WritesRowStep DEF MoveService
  <2>3. QED
    BY <1>2, <2>2, RowsInvBySame DEF MoveService
<1>3. ASSUME NEW s \in Slot, NEW n \in Name, NEW c \in Cluster, NEW ns \in Namespace,
             \/ CreateExposed(s, n, c, ns)
             \/ \E o \in Orders : DeployTemplate(s, n, c, ns, o)
      PROVE  RowsInv'
  <2>1. /\ slots'[s].at \in {"ports", "namespace"}
        /\ \A t \in Slot \ {s} : slots'[t] = slots[t]
    BY <1>3 DEF CreateExposed, DeployTemplate, Waits, TypeOK
  <2>2. Knows(s)'
    BY <2>1 DEF Knows, Stamped, Looking
  <2>3. RowStep
    BY <1>3, OtherRowSteps DEF CreateExposed, DeployTemplate
  <2>4. QED
    BY <2>1, <2>2, <2>3, RowsInvBySlot
<1>4. ASSUME NEW c \in Cluster, DeleteCluster(c) PROVE RowsInv'
  BY <1>4, OtherRowSteps, RowsInvBySame DEF DeleteCluster
<1>5. ASSUME NEW s \in Slot, NEW n \in Name, DeleteService(s, n) \/ StartDeploy(s, n)
      PROVE  RowsInv'
  <2>1. CASE Removes(n) /\ UNCHANGED slots
    BY <2>1, OtherRowSteps, RowsInvBySame
  <2>2. CASE NoWrite /\ \E r : /\ Waits(s, r) /\ r.at \in {"purge", "apply"}
                               /\ r.name = n /\ r.stamp = rows[n].stamp
                               /\ r.cluster = rows[n].cluster /\ r.ns = rows[n].ns
    <3>1. /\ slots'[s].at \in {"purge", "apply"} /\ slots'[s].name = n
          /\ slots'[s].stamp = rows[n].stamp
          /\ slots'[s].cluster = rows[n].cluster /\ slots'[s].ns = rows[n].ns
          /\ \A t \in Slot \ {s} : slots'[t] = slots[t]
      BY <2>2 DEF Waits, TypeOK
    <3>2. rows' = rows /\ stamp' = stamp /\ rows[n].stamp <= stamp
      BY <1>5, <2>2 DEF NoWrite, RowsInv, DeleteService, StartDeploy
    <3>3. Knows(s)'
      BY <3>1, <3>2 DEF Knows, Stamped, Looking
    <3>4. QED
      BY <2>2, <3>1, <3>3, OtherRowSteps, RowsInvBySlot
  <2>3. QED
    BY <1>5, <2>1, <2>2 DEF DeleteService, StartDeploy
<1>6. ASSUME NEW s \in Slot, NEW n \in Name, NEW port \in Port, EditNetworking(s, n, port)
      PROVE  RowsInv'
  <2>1. slots'[s].at = "patch" /\ \A t \in Slot \ {s} : slots'[t] = slots[t]
    BY <1>6 DEF EditNetworking, Waits, TypeOK
  <2>2. Knows(s)'
    BY <2>1 DEF Knows, Stamped, Looking
  <2>3. QED
    BY <1>6, <2>1, <2>2, OtherRowSteps, RowsInvBySlot DEF EditNetworking
<1>7. ASSUME NEW s \in Slot, PortsListed(s) PROVE RowsInv'
  <2> DEFINE r == slots[s]
             port == AllocateExposePorts(r.cluster)
  <2>1. r.name \in Name /\ r.cluster \in Cluster /\ r.ns \in Namespace
    BY <1>7, SlotType, RequestByStep DEF PortsListed
  <2>2. port \in Port /\ Listed(r.cluster) \in SUBSET Name
    BY AllocatedIsFree DEF AllocateExposePorts, Listed
  <2>3. ASSUME port # 0, NEW o \in Listed(r.cluster) PROVE rows[o].port # port
    <3>1. port \notin PortsInUse(r.cluster)
      BY <2>3, AllocatedIsFree DEF AllocateExposePorts
    <3>2. Here(o) /\ o \in Name /\ rows[o].port # 0
          /\ ports[<<o, r.cluster, rows[o].ns>>] = rows[o].port /\ rows[o].ns \in Namespace
      BY <2>3, RowType DEF Listed, Row
    <3>3. rows[o].port \in PortsInUse(r.cluster)
      BY <2>1, <3>2 DEF PortsInUse
    <3>4. QED
      BY <3>1, <3>3
  <2>4. RowStep
    <3>1. CASE NoWrite
      BY <3>1, OtherRowSteps
    <3>2. CASE port # 0 /\ Writes(r.name, r.cluster, r.ns, port, Listed(r.cluster))
      <4>1. \A o \in Listed(r.cluster) : rows[o].port # port
        BY <2>3, <3>2
      <4> HIDE DEF r, port
      <4>2. QED
        BY <2>1, <2>2, <3>2, <4>1, WritesRowStep
    <3>3. QED
      BY <1>7, <3>1, <3>2 DEF PortsListed
  <2>5. QED
    BY <1>7, <2>4, AnsweredFacts, RowsInvBySame DEF PortsListed
<1>8. ASSUME NEW s \in Slot,
             \/ NetworkPatched(s) \/ Prune(s) \/ DeployEnds(s)
      PROVE  RowsInv'
  BY <1>8, OtherRowSteps, AnsweredFacts, RowsInvBySame DEF NetworkPatched, Prune, DeployEnds
<1>9. ASSUME NEW s \in Slot, PurgeStep(s) PROVE RowsInv'
  <2> DEFINE r == slots[s]
  <2>1. r \in PurgeRequest /\ r \in Request /\ r.name \in Name /\ slots[s] # None
    BY <1>9, SlotType, RequestByStep DEF PurgeStep, At
  <2>2. CASE Len(r.todo) # 1
    <3>1. Waits(s, [r EXCEPT !.todo = Tail(@)]) /\ NoWrite
      BY <1>9, <2>2 DEF PurgeStep
    <3>2. /\ slots'[s] = [r EXCEPT !.todo = Tail(@)]
          /\ \A t \in Slot \ {s} : slots'[t] = slots[t]
      BY <3>1 DEF Waits, TypeOK
    <3>3. /\ slots'[s].name = r.name /\ slots'[s].cluster = r.cluster /\ slots'[s].ns = r.ns
          /\ slots'[s].stamp = r.stamp /\ slots'[s].at = r.at /\ r.at = "purge"
      BY <2>1, <3>2 DEF PurgeRequest
    <3>4. RowStep /\ slots'[s] # None
      <4>1. [r EXCEPT !.todo = Tail(@)] \in Request
        BY <2>1, <2>2, PlanFacts DEF PurgeRequest, Request
      <4>2. QED
        BY <3>1, <3>2, <4>1, NoneIsNoRecord, OtherRowSteps
    <3>5. Knows(s)'
      BY <2>1, <3>3, <3>4, KeepsKnowing DEF Stamped, Looking
    <3>6. QED
      BY <3>2, <3>4, <3>5, RowsInvBySlot
  <2>3. CASE Len(r.todo) = 1
    <3>1. Removes(r.name)
      BY <1>9, <2>3 DEF PurgeStep
    <3>2. CASE Answered(s)
      BY <2>1, <3>1, <3>2, AnsweredFacts, OtherRowSteps, RowsInvBySame
    <3>3. CASE /\ ~OthersInNamespace(r)
               /\ Waits(s, [r EXCEPT !.at = "label", !.todo = <<>>, !.stamp = stamp])
      <4>1. /\ slots'[s].cluster = r.cluster /\ slots'[s].ns = r.ns
            /\ slots'[s].stamp = stamp /\ slots'[s].at = "label"
            /\ \A t \in Slot \ {s} : slots'[t] = slots[t]
        BY <2>1, <3>3 DEF Waits, TypeOK, PurgeRequest
      <4>2. \A n \in Name : rows'[n] # None => rows'[n] = rows[n] /\ n # r.name
        BY <2>1, <3>1, RemovesFacts
      <4>3. \A n \in Name : rows'[n] # None => ~(rows'[n].cluster = r.cluster /\ rows'[n].ns = r.ns)
        BY <3>3, <4>2 DEF OthersInNamespace, Here
      <4>4. stamp' = stamp /\ stamp \in Nat
        BY <2>1, <3>1, RemovesFacts DEF TypeOK
      <4>5. Knows(s)'
        BY <4>1, <4>3, <4>4 DEF Knows, Stamped, Looking, Here
      <4>6. QED
        BY <2>1, <3>1, <4>1, <4>5, OtherRowSteps, RowsInvBySlot
    <3>4. QED
      BY <1>9, <2>3, <3>2, <3>3 DEF PurgeStep
  <2>4. QED
    BY <2>2, <2>3
<1>10. ASSUME NEW s \in Slot, LabelRead(s) \/ WorkloadsListed(s) PROVE RowsInv'
  <2>1. slots[s] \in LookRequest /\ slots[s] # None
    BY <1>10, SlotType, RequestByStep DEF LabelRead, WorkloadsListed, At
  <2>2. RowStep
    BY <1>10, OtherRowSteps DEF LabelRead, WorkloadsListed
  <2>3. CASE Answered(s)
    BY <2>2, <2>3, AnsweredFacts, RowsInvBySame
  <2>4. CASE \E at \in {"workloads", "prune"} : Advances(s, at)
    <3>1. PICK at \in {"workloads", "prune"} : Advances(s, at)
      BY <2>4
    <3>2. /\ slots'[s] = [slots[s] EXCEPT !.at = at] /\ slots'[s] \in LookRequest
          /\ \A t \in Slot \ {s} : slots'[t] = slots[t]
      BY <2>1, <3>1, AdvancesFacts
    <3>3. /\ slots'[s].name = slots[s].name /\ slots'[s].cluster = slots[s].cluster
          /\ slots'[s].ns = slots[s].ns /\ slots'[s].stamp = slots[s].stamp
      BY <2>1, <3>2 DEF LookRequest
    <3>4. Looking(s) /\ ~Stamped(s)' /\ slots'[s] # None
      BY <2>1, <3>2, NoneIsNoRecord DEF Looking, Stamped, LookRequest, Request
    <3>5. Knows(s)'
      BY <2>1, <2>2, <3>3, <3>4, KeepsKnowing
    <3>6. QED
      BY <2>2, <3>2, <3>5, RowsInvBySlot
  <2>5. QED
    BY <1>10, <2>3, <2>4 DEF LabelRead, WorkloadsListed
<1>11. ASSUME NEW s \in Slot, NamespaceApplied(s) PROVE RowsInv'
  <2> DEFINE r == slots[s]
             next == [op |-> "template", at |-> "apply", name |-> r.name,
                      cluster |-> r.cluster, ns |-> r.ns, stamp |-> stamp + 1,
                      todo |-> r.rendered.manifests]
  <2>1. r.name \in Name /\ r.cluster \in Cluster /\ r.ns \in Namespace
    BY <1>11, SlotType, RequestByStep DEF NamespaceApplied, At
  <2>2. CASE Answered(s) /\ NoWrite
    BY <2>2, AnsweredFacts, OtherRowSteps, RowsInvBySame
  <2>3. CASE Writes(r.name, r.cluster, r.ns, 0, {}) /\ Waits(s, next)
    <3>1. RowStep
      <4> HIDE DEF r
      <4>1. QED
        BY <1>b, <2>1, <2>3, WritesRowStep
    <3>2. /\ rows'[r.name].cluster = r.cluster /\ rows'[r.name].ns = r.ns
          /\ stamp' = stamp + 1 /\ stamp' \in Nat
      <4>1. rows \in RowTable /\ stamp \in Nat
        BY DEF TypeOK, RowTable
      <4> DEFINE row == [cluster |-> r.cluster, ns |-> r.ns, port |-> 0,
                         stamp |-> stamp + 1, listed |-> {}]
      <4>2. rows' = [rows EXCEPT ![r.name] = row] /\ stamp' = stamp + 1
        BY <2>3, Zenon DEF Writes
      <4>3. rows'[r.name] = row
        <5> HIDE DEF r, row
        <5>1. QED
          BY <2>1, <4>1, <4>2 DEF RowTable
      <4>4. QED
        BY <4>1, <4>2, <4>3
    <3>3. slots'[s] = next /\ \A t \in Slot \ {s} : slots'[t] = slots[t]
      BY <2>3 DEF Waits, TypeOK
    <3>4. Knows(s)'
      BY <3>2, <3>3 DEF Knows, Stamped, Looking
    <3>5. QED
      BY <3>1, <3>3, <3>4, RowsInvBySlot
  <2>4. QED
    BY <1>11, <2>2, <2>3 DEF NamespaceApplied
<1>12. ASSUME NEW s \in Slot, ManifestApplied(s) PROVE RowsInv'
  <2> DEFINE r == slots[s]
  <2>1. r \in ApplyRequest /\ r \in Request /\ r.name \in Name /\ slots[s] # None
    BY <1>12, SlotType, RequestByStep DEF ManifestApplied, At
  <2>2. RowStep
    BY <1>12, <2>1, OtherRowSteps DEF ManifestApplied
  <2>3. CASE Answered(s)
    BY <2>2, <2>3, AnsweredFacts, RowsInvBySame
  <2>4. CASE Len(r.todo) # 1 /\ Waits(s, [r EXCEPT !.todo = Tail(@)])
    <3>1. /\ slots'[s] = [r EXCEPT !.todo = Tail(@)]
          /\ \A t \in Slot \ {s} : slots'[t] = slots[t]
      BY <2>4 DEF Waits, TypeOK
    <3>2. /\ slots'[s].name = r.name /\ slots'[s].cluster = r.cluster /\ slots'[s].ns = r.ns
          /\ slots'[s].stamp = r.stamp /\ slots'[s].at = r.at /\ r.at = "apply"
      BY <2>1, <3>1 DEF ApplyRequest
    <3>3. slots'[s] # None
      <4>1. [r EXCEPT !.todo = Tail(@)] \in Request
        BY <2>1, <2>4, PlanFacts DEF ApplyRequest, Request
      <4>2. QED
        BY <3>1, <4>1, NoneIsNoRecord
    <3>4. Knows(s)'
      BY <2>1, <2>2, <3>2, <3>3, KeepsKnowing DEF Stamped, Looking
    <3>5. QED
      BY <2>2, <3>1, <3>4, RowsInvBySlot
  <2>5. QED
    BY <1>12, <2>3, <2>4 DEF ManifestApplied
<1>13. CASE UNCHANGED vars
  BY <1>13, OtherRowSteps, RowsInvBySame DEF vars, NoWrite
<1>14. QED
  BY <1>1, <1>2, <1>3, <1>4, <1>5, <1>6, <1>7, <1>8, <1>9, <1>10, <1>11, <1>12, <1>13 DEF Next

\* Two services of a cluster have the same node port only if the later one was not shown the
\* earlier one's Service when its port was chosen, or one was moved since.
THEOREM SharedPortOnlyUnlisted == Spec => []SharedPortWasUnlisted
<1>1. Init => TypeOK /\ RowsInv
  BY TypeInit, RowsInit
<1>2. TypeOK /\ RowsInv /\ [Next]_vars => (TypeOK /\ RowsInv)'
  BY TypeStep, RowsInvStep
<1>3. TypeOK /\ RowsInv => SharedPortWasUnlisted
  BY DEF RowsInv
<1>4. QED
  BY <1>1, <1>2, <1>3, PTL DEF Spec

\* A namespace that is pruned is no namespace of a row that was there when the deletion
\* looked for one.
THEOREM PruneSparesWhoWasThere == Spec => PruneSparesEarlier
<1> DEFINE Spared == \A s \in Slot : Prune(s) /\ managed' # managed =>
                       \A n \in Name : Here(n) /\ <<rows[n].cluster, rows[n].ns>> \notin managed'
                                       /\ <<rows[n].cluster, rows[n].ns>> \in managed
                                       => rows[n].stamp > slots[s].stamp
<1>1. Init => TypeOK /\ RowsInv
  BY TypeInit, RowsInit
<1>2. TypeOK /\ RowsInv /\ [Next]_vars => (TypeOK /\ RowsInv)'
  BY TypeStep, RowsInvStep
<1>3. TypeOK /\ RowsInv => Spared
  <2> SUFFICES ASSUME TypeOK, RowsInv, NEW s \in Slot, Prune(s), NEW n \in Name, Here(n),
                      <<rows[n].cluster, rows[n].ns>> \notin managed',
                      <<rows[n].cluster, rows[n].ns>> \in managed
               PROVE  rows[n].stamp > slots[s].stamp
    OBVIOUS
  <2>1. <<rows[n].cluster, rows[n].ns>> = <<slots[s].cluster, slots[s].ns>>
    BY DEF Prune
  <2>2. Looking(s) /\ Knows(s)
    BY DEF Prune, At, Looking, RowsInv
  <2>3. QED
    BY <2>1, <2>2 DEF Knows
<1>4. QED
  BY <1>1, <1>2, <1>3, PTL DEF Spec, PruneSparesEarlier

-------------------------------------------------------------------------------
(* What a purge leaves.                                                    *)

Purging(s) == At(s, "delete", "purge")

\* An object has an owner or will be purged, and every deletion that read its owner's row
\* will purge it.
Accounted(o) ==
    /\ Owned(o) \/ \E s \in Slot : WillPurge(s, o)
    /\ \A s \in Slot :
         Purging(s) /\ o.name = slots[s].name /\ Owned(o) /\ rows[o.name].stamp = slots[s].stamp
         => o.kind \in Kinds(slots[s].todo)

LEMMA PurgeInvParts == PurgeInv <=> \A o \in objects \ excused : Accounted(o)
BY DEF PurgeInv, Accounted, Purging

\* The deletions that purge are the same before and after a step.
SamePurges == \A s \in Slot : Purging(s) \/ Purging(s)' => slots'[s] = slots[s]

LEMMA AccountedStays ==
    ASSUME NEW o, Accounted(o), rows'[o.name] = rows[o.name], SamePurges PROVE Accounted(o)'
<1>1. Owned(o)' <=> Owned(o)
  BY DEF Owned, Here
<1>2. ASSUME NEW s \in Slot, WillPurge(s, o) PROVE WillPurge(s, o)'
  BY <1>2 DEF WillPurge, SamePurges, Purging, At
<1>3. ASSUME NEW s \in Slot, Purging(s)', o.name = slots'[s].name, Owned(o)',
             rows'[o.name].stamp = slots'[s].stamp
      PROVE  o.kind \in Kinds(slots'[s].todo)
  <2>1. slots'[s] = slots[s] /\ Purging(s)
    BY <1>3 DEF SamePurges, Purging, At
  <2>2. QED
    BY <1>1, <1>3, <2>1 DEF Accounted
<1>4. QED
  BY <1>1, <1>2, <1>3 DEF Accounted

\* A row that was just written or removed binds no deletion.
LEMMA AccountedRewritten ==
    ASSUME TypeOK, RowsInv, NEW o, Accounted(o), ~Owned(o), SamePurges,
           rows'[o.name] = None \/ rows'[o.name].stamp = stamp + 1
    PROVE  Accounted(o)'
<1>2. ASSUME NEW s \in Slot, WillPurge(s, o) PROVE WillPurge(s, o)'
  BY <1>2 DEF WillPurge, SamePurges, Purging, At
<1>3. ASSUME NEW s \in Slot, Purging(s)', o.name = slots'[s].name, Owned(o)',
             rows'[o.name].stamp = slots'[s].stamp
      PROVE  FALSE
  <2>1. slots'[s] = slots[s] /\ Purging(s)
    BY <1>3 DEF SamePurges, Purging, At
  <2>2. slots[s].stamp \in Nat /\ slots[s].stamp <= stamp /\ stamp \in Nat
    <3>1. slots[s] \in PurgeRequest
      BY <2>1, SlotType, RequestByStep DEF Purging, At
    <3>2. QED
      BY <2>1, <3>1 DEF RowsInv, Knows, Stamped, Purging, At, TypeOK, PurgeRequest
  <2>3. rows'[o.name].stamp = stamp + 1
    BY <1>3 DEF Owned, Here
  <2>4. QED
    BY <1>3, <2>1, <2>2, <2>3
<1>4. QED
  BY <1>2, <1>3 DEF Accounted

\* What is applied for a row that nobody deletes is that row's.
LEMMA AccountedFresh ==
    ASSUME NEW o, Owned(o)', \A s \in Slot : ~(Purging(s)' /\ slots'[s].name = o.name)
    PROVE  Accounted(o)'
BY DEF Accounted

\* A step on a request that is no purge, before and after.
LEMMA SamePurgesBySlot ==
    ASSUME NEW s \in Slot, ~Purging(s), ~Purging(s)',
           \A t \in Slot \ {s} : slots'[t] = slots[t]
    PROVE  SamePurges
BY DEF SamePurges

LEMMA PurgeBySame ==
    ASSUME PurgeInv, objects' \ excused' \subseteq objects \ excused, rows' = rows, SamePurges
    PROVE  PurgeInv'
<1>1. ASSUME NEW o \in objects' \ excused' PROVE Accounted(o)'
  BY <1>1, PurgeInvParts, AccountedStays
<1>2. QED
  BY <1>1 DEF PurgeInv, Accounted, Purging

\* A free name is written: what its earlier services left stays to be purged.
LEMMA PurgeByWrite ==
    ASSUME TypeOK, RowsInv, PurgeInv, NEW n \in Name, NEW c \in Cluster, NEW ns \in Namespace,
           NEW port \in Port, NEW listed \in SUBSET Name, Writes(n, c, ns, port, listed),
           SamePurges, objects' \ excused' \subseteq objects \ excused,
           \A o \in objects' \ excused' : o.name = n => ~Owned(o)
    PROVE  PurgeInv'
<1>1. rows'[n].stamp = stamp + 1 /\ \A m \in Name \ {n} : rows'[m] = rows[m]
  BY WritesFacts
<1>2. ASSUME NEW o \in objects' \ excused' PROVE Accounted(o)'
  <2>1. Accounted(o) /\ o \in Object
    BY <1>2, PurgeInvParts DEF TypeOK
  <2>2. o.name \in Name
    BY <2>1, ThingFacts DEF Object
  <2>3. CASE o.name = n
    BY <1>1, <1>2, <2>1, <2>3, AccountedRewritten
  <2>4. CASE o.name # n
    BY <1>1, <2>1, <2>2, <2>4, AccountedStays
  <2>5. QED
    BY <2>3, <2>4
<1>3. QED
  BY <1>2 DEF PurgeInv, Accounted, Purging

\* A row is removed and everything of its name is excused.
LEMMA PurgeByRemove ==
    ASSUME TypeOK, PurgeInv, NEW n \in Name, Removes(n), SamePurges,
           objects' \ excused' \subseteq {o \in objects \ excused : o.name # n}
    PROVE  PurgeInv'
<1>1. \A m \in Name \ {n} : rows'[m] = rows[m]
  BY RemovesFacts
<1>2. ASSUME NEW o \in objects' \ excused' PROVE Accounted(o)'
  <2>1. Accounted(o) /\ o \in Object /\ o.name # n
    BY <1>2, PurgeInvParts DEF TypeOK
  <2>2. o.name \in Name
    BY <2>1, ThingFacts DEF Object
  <2>3. QED
    BY <1>1, <2>1, <2>2, AccountedStays
<1>3. QED
  BY <1>2 DEF PurgeInv, Accounted, Purging

\* One step of a purge: the object of its kind is gone or excused.
LEMMA PurgeStepKeeps ==
    ASSUME TypeOK, RowsInv, PurgeInv, NEW s \in Slot, PurgeStep(s)
    PROVE  PurgeInv'
<1> DEFINE r == slots[s]
           o == Thing(r.name, r.cluster, r.ns, Head(r.todo))
           overtaken == Here(r.name) /\ rows[r.name].stamp # r.stamp
<1>1. /\ r \in PurgeRequest /\ r \in Request /\ r # None /\ r.name \in Name
      /\ r.todo \in Plan /\ Purging(s)
  <2>1. Purging(s) /\ r # None
    BY DEF PurgeStep, Purging, At
  <2>2. r \in PurgeRequest /\ r \in Request
    BY <2>1, SlotType, RequestByStep DEF Purging, At
  <2>3. QED
    BY <2>1, <2>2, RequestByStep DEF PurgeRequest
<1>2. objects' \ excused' \subseteq (objects \ excused) \ {o}
  BY DEF PurgeStep
<1>3. ASSUME NEW x \in objects' \ excused'
      PROVE  /\ x \in objects \ excused /\ x # o /\ Accounted(x)
             /\ x \in Object /\ x.name \in Name /\ x.kind \in Kind
  <2>1. x \in objects \ excused /\ x # o /\ x \in Object
    BY <1>2, <1>3 DEF TypeOK
  <2>2. x.name \in Name /\ x.kind \in Kind
    BY <2>1, ThingFacts DEF Object
  <2>3. QED
    BY <2>1, <2>2, PurgeInvParts
\* What this deletion would purge and is not purged by this step is of a later step.
<1>4. ASSUME NEW x \in objects' \ excused', WillPurge(s, x)
      PROVE  \E kind \in Kinds(Tail(r.todo)) : x = Thing(r.name, r.cluster, r.ns, kind)
  <2>1. PICK kind \in Kinds(r.todo) : x = Thing(r.name, r.cluster, r.ns, kind)
    BY <1>4 DEF WillPurge
  <2>2. kind # Head(r.todo)
    BY <1>3, <2>1
  <2>3. QED
    BY <1>1, <2>1, <2>2, PlanFacts
<1>5. ASSUME NEW x \in objects' \ excused', x.name = r.name, Owned(x),
             rows[r.name].stamp = r.stamp
      PROVE  x.kind \in Kinds(Tail(r.todo))
  <2>1. x.kind \in Kinds(r.todo)
    BY <1>1, <1>3, <1>5 DEF Accounted
  <2>2. rows[r.name].cluster = r.cluster /\ rows[r.name].ns = r.ns
    BY <1>1, <1>5 DEF RowsInv, Knows, Stamped, Purging, At, Owned
  <2>3. x = Thing(r.name, r.cluster, r.ns, x.kind)
    <3>1. PICK kind \in Kind : x = Thing(x.name, rows[x.name].cluster, rows[x.name].ns, kind)
      BY <1>5 DEF Owned
    <3>2. x.kind = kind
      BY <3>1, ThingFacts
    <3>3. QED
      BY <1>5, <2>2, <3>1, <3>2
  <2>4. x.kind # Head(r.todo)
    BY <1>3, <2>3
  <2>5. QED
    BY <1>1, <2>1, <2>4, PlanFacts
<1>6. CASE Len(r.todo) # 1
  <2>1. rows' = rows /\ Waits(s, [r EXCEPT !.todo = Tail(@)])
    BY <1>6 DEF PurgeStep, NoWrite
  <2>2. /\ slots'[s] = [r EXCEPT !.todo = Tail(@)]
        /\ \A t \in Slot \ {s} : slots'[t] = slots[t]
    BY <2>1 DEF Waits, TypeOK
  <2>3. /\ slots'[s].name = r.name /\ slots'[s].cluster = r.cluster /\ slots'[s].ns = r.ns
        /\ slots'[s].stamp = r.stamp /\ slots'[s].todo = Tail(r.todo)
        /\ Purging(s)'
    <3>1. [r EXCEPT !.todo = Tail(@)] \in PurgeRequest
      BY <1>1, <1>6, PlanFacts DEF PurgeRequest
    <3>2. slots'[s] # None /\ slots'[s] \in PurgeRequest
      BY <2>2, <3>1, NoneIsNoRecord DEF Request
    <3>3. slots'[s].op = "delete" /\ slots'[s].at = "purge"
      BY <3>2 DEF PurgeRequest
    <3>4. QED
      BY <1>1, <2>2, <3>2, <3>3 DEF Purging, At, PurgeRequest
  <2>4. ASSUME NEW x \in objects' \ excused' PROVE Accounted(x)'
    <3>1. Owned(x)' <=> Owned(x)
      BY <2>1 DEF Owned, Here
    <3>2. ASSUME NEW t \in Slot, WillPurge(t, x) PROVE WillPurge(t, x)'
      <4>1. CASE t = s
        <5>1. PICK kind \in Kinds(Tail(r.todo)) : x = Thing(r.name, r.cluster, r.ns, kind)
          BY <1>4, <3>2, <4>1
        <5>2. QED
          BY <2>3, <4>1, <5>1 DEF WillPurge, Purging
      <4>2. CASE t # s
        BY <2>2, <3>2, <4>2 DEF WillPurge, At
      <4>3. QED
        BY <4>1, <4>2
    <3>3. ASSUME NEW t \in Slot, Purging(t)', x.name = slots'[t].name, Owned(x)',
                 rows'[x.name].stamp = slots'[t].stamp
          PROVE  x.kind \in Kinds(slots'[t].todo)
      <4>1. CASE t = s
        BY <1>5, <2>1, <2>3, <3>1, <3>3, <4>1
      <4>2. CASE t # s
        <5>1. slots'[t] = slots[t] /\ Purging(t)
          BY <2>2, <3>3, <4>2 DEF Purging, At
        <5>2. QED
          BY <1>3, <2>1, <3>1, <3>3, <5>1 DEF Accounted
      <4>3. QED
        BY <4>1, <4>2
    <3>4. QED
      BY <1>3, <3>1, <3>2, <3>3 DEF Accounted
  <2>5. QED
    BY <2>4 DEF PurgeInv, Accounted, Purging
<1>7. CASE Len(r.todo) = 1
  <2>1. Removes(r.name)
    BY <1>7 DEF PurgeStep
  <2>2. rows'[r.name] = None /\ \A m \in Name \ {r.name} : rows'[m] = rows[m]
    BY <1>1, <2>1, RemovesFacts
  <2>3. ~Purging(s)' /\ \A t \in Slot \ {s} : slots'[t] = slots[t]
    <3>1. CASE Answered(s)
      BY <3>1, AnsweredFacts DEF Purging, At
    <3>2. CASE Waits(s, [r EXCEPT !.at = "label", !.todo = <<>>, !.stamp = stamp])
      <4> DEFINE look == [r EXCEPT !.at = "label", !.todo = <<>>, !.stamp = stamp]
      <4>1. look.at = "label"
        BY <1>1 DEF PurgeRequest
      <4>2. slots'[s] = look /\ \A t \in Slot \ {s} : slots'[t] = slots[t]
        BY <3>2 DEF Waits, TypeOK
      <4>3. QED
        BY <4>1, <4>2 DEF Purging, At
    <3>3. QED
      BY <1>7, <3>1, <3>2 DEF PurgeStep
  <2>4. Kinds(Tail(r.todo)) = {}
    BY <1>1, <1>7 DEF Kinds, Plan
  <2>5. ASSUME NEW x \in objects' \ excused' PROVE Accounted(x)'
    <3>1. ASSUME NEW t \in Slot, WillPurge(t, x) PROVE WillPurge(t, x)'
      <4>1. t # s
        BY <1>4, <2>4, <3>1
      <4>2. QED
        BY <2>3, <3>1, <4>1 DEF WillPurge, At
    <3>2. CASE x.name # r.name
      <4>1. Owned(x)' <=> Owned(x)
        BY <1>3, <2>2, <3>2 DEF Owned, Here
      <4>2. ASSUME NEW t \in Slot, Purging(t)', x.name = slots'[t].name, Owned(x)',
                   rows'[x.name].stamp = slots'[t].stamp
            PROVE  x.kind \in Kinds(slots'[t].todo)
        <5>1. t # s
          BY <2>3, <4>2
        <5>2. slots'[t] = slots[t] /\ Purging(t)
          BY <2>3, <4>2, <5>1 DEF Purging, At
        <5>3. QED
          BY <1>3, <2>2, <3>2, <4>1, <4>2, <5>2 DEF Accounted
      <4>3. QED
        BY <1>3, <3>1, <4>1, <4>2 DEF Accounted
    <3>3. CASE x.name = r.name
      <4>1. ~overtaken
        <5>1. overtaken => {y \in objects' : y.name = r.name} \subseteq excused'
          BY <1>7 DEF PurgeStep
        <5>2. QED
          BY <2>5, <3>3, <5>1
      <4>2. ~Owned(x)
        BY <1>5, <2>4, <3>3, <4>1 DEF Owned
      <4>3. ~Owned(x)'
        BY <2>2, <3>3 DEF Owned, Here
      <4>4. QED
        BY <1>3, <3>1, <4>2, <4>3 DEF Accounted
    <3>4. QED
      BY <3>2, <3>3
  <2>6. QED
    BY <2>5 DEF PurgeInv, Accounted, Purging
<1>8. QED
  BY <1>6, <1>7

\* What is applied for a request is accounted for: the deletions are the same, the rows too,
\* and the new objects are excused unless the request is not overtaken.
LEMMA PurgeByApply ==
    ASSUME TypeOK, RowsInv, PurgeInv, NEW s \in Slot, slots[s] # None, slots[s].at = "apply",
           NoWrite, SamePurges, NEW kinds \in SUBSET Kind,
           objects' = objects \cup {Thing(slots[s].name, slots[s].cluster, slots[s].ns, kind) :
                                      kind \in kinds},
           excused' = IF Overtaken(slots[s])
                      THEN excused \cup {Thing(slots[s].name, slots[s].cluster, slots[s].ns, kind) :
                                           kind \in kinds}
                      ELSE excused
    PROVE  PurgeInv'
<1> DEFINE r == slots[s]
           new == {Thing(r.name, r.cluster, r.ns, kind) : kind \in kinds}
<1>1. rows' = rows
  BY DEF NoWrite
<1>2. CASE Overtaken(r)
  <2>1. objects' \ excused' \subseteq objects \ excused
    BY <1>2
  <2>2. QED
    BY <1>1, <2>1, PurgeBySame
<1>3. CASE ~Overtaken(r)
  <2>1. Here(r.name) /\ rows[r.name].stamp = r.stamp /\ ~During("delete", r.name)
    BY <1>3 DEF Overtaken
  <2>2. rows[r.name].cluster = r.cluster /\ rows[r.name].ns = r.ns
    BY <2>1 DEF RowsInv, Knows, Stamped
  <2>3. ASSUME NEW o \in new PROVE Accounted(o)'
    <3>1. PICK kind \in kinds : o = Thing(r.name, r.cluster, r.ns, kind)
      OBVIOUS
    <3>2. o.name = r.name
      BY <3>1, ThingFacts
    <3>3. Owned(o)'
      BY <1>1, <2>1, <2>2, <3>1, <3>2 DEF Owned, Here
    <3>4. \A t \in Slot : ~(Purging(t)' /\ slots'[t].name = o.name)
      <4> SUFFICES ASSUME NEW t \in Slot, Purging(t)', slots'[t].name = o.name PROVE FALSE
        OBVIOUS
      <4>1. slots'[t] = slots[t] /\ Purging(t)
        BY DEF SamePurges, Purging, At
      <4>2. QED
        BY <2>1, <3>2, <4>1 DEF During, Active, Purging, At
    <3>5. QED
      BY <3>3, <3>4, AccountedFresh
  <2>4. ASSUME NEW o \in objects' \ excused' PROVE Accounted(o)'
    <3>1. CASE o \in new
      BY <2>3, <3>1
    <3>2. CASE o \notin new
      <4>1. o \in objects \ excused
        BY <1>3, <2>4, <3>2
      <4>2. QED
        BY <1>1, <4>1, PurgeInvParts, AccountedStays
    <3>3. QED
      BY <3>1, <3>2
  <2>5. QED
    BY <2>4 DEF PurgeInv, Accounted, Purging
<1>4. QED
  BY <1>2, <1>3

LEMMA PurgeInit == Init => PurgeInv
BY DEF Init, PurgeInv

LEMMA PurgeInvStep == TypeOK /\ RowsInv /\ PurgeInv /\ [Next]_vars => PurgeInv'
<1> SUFFICES ASSUME TypeOK, RowsInv, PurgeInv, [Next]_vars PROVE PurgeInv'
  OBVIOUS
<1>a. {} \in SUBSET Name /\ 0 \in Port
  BY DEF Port
<1>b. slots' = slots => SamePurges
  BY DEF SamePurges
<1>c. ASSUME NEW s \in Slot, ~Purging(s), Answered(s) PROVE SamePurges
  BY <1>c, AnsweredFacts DEF SamePurges, Purging, At
<1>1. ASSUME NEW n \in Name, NEW c \in Cluster, NEW ns \in Namespace, CreateService(n, c, ns)
      PROVE  PurgeInv'
  <2>1. /\ Writes(n, c, ns, 0, {}) /\ objects' = objects /\ excused' = excused /\ ~Here(n)
        /\ slots' = slots
    BY <1>1 DEF CreateService, NameIsFree
  <2>2. \A o \in objects' \ excused' : o.name = n => ~Owned(o)
    BY <2>1 DEF Owned
  <2>3. QED
    BY <1>a, <1>b, <2>1, <2>2, PurgeByWrite
<1>2. ASSUME NEW n \in Name, NEW c \in Cluster, NEW ns \in Namespace, MoveService(n, c, ns)
      PROVE  PurgeInv'
  <2>1. rows[n].port \in Port
    BY <1>2, RowType DEF MoveService, Row
  <2>2. /\ Writes(n, c, ns, rows[n].port, {}) /\ objects' = objects /\ slots' = slots
        /\ excused' = excused \cup
              (objects \cap {Thing(n, rows[n].cluster, rows[n].ns, k) : k \in Kind})
    BY <1>2 DEF MoveService
  <2>3. \A o \in objects' \ excused' : o.name = n => ~Owned(o)
    BY <2>2 DEF Owned
  <2>4. QED
    BY <1>a, <1>b, <2>1, <2>2, <2>3, PurgeByWrite
<1>3. ASSUME NEW s \in Slot, NEW n \in Name, NEW c \in Cluster, NEW ns \in Namespace,
             \/ CreateExposed(s, n, c, ns)
             \/ \E o \in Orders : DeployTemplate(s, n, c, ns, o)
      PROVE  PurgeInv'
  <2>1. /\ slots'[s].at \in {"ports", "namespace"} /\ ~Purging(s)
        /\ \A t \in Slot \ {s} : slots'[t] = slots[t]
    BY <1>3 DEF CreateExposed, DeployTemplate, Waits, TypeOK, Purging, At
  <2>2. SamePurges
    BY <2>1, SamePurgesBySlot DEF Purging, At
  <2>3. QED
    BY <1>3, <2>2, PurgeBySame DEF CreateExposed, DeployTemplate, NoWrite
<1>4. ASSUME NEW c \in Cluster, DeleteCluster(c) PROVE PurgeInv'
  BY <1>4, <1>b, PurgeBySame DEF DeleteCluster, NoWrite
<1>5. ASSUME NEW s \in Slot, NEW n \in Name, DeleteService(s, n) PROVE PurgeInv'
  <2>1. CASE rows[n].cluster \notin clusters
    BY <1>5, <1>b, <2>1, PurgeByRemove DEF DeleteService
  <2>2. CASE rows[n].cluster \in clusters
    <3> DEFINE r == [op |-> "delete", at |-> "purge", name |-> n, cluster |-> rows[n].cluster,
                     ns |-> rows[n].ns, todo |-> PurgePlan, stamp |-> rows[n].stamp]
    <3>1. rows' = rows /\ objects' = objects /\ excused' = excused /\ Waits(s, r)
          /\ slots[s] = None
      BY <1>5, <2>2 DEF DeleteService, NoWrite
    <3>2. slots'[s].todo = PurgePlan /\ \A t \in Slot \ {s} : slots'[t] = slots[t]
      BY <3>1 DEF Waits, TypeOK
    <3>3. ASSUME NEW o \in objects' \ excused' PROVE Accounted(o)'
      <4>1. Accounted(o) /\ o.kind \in Kind
        <5>1. o \in Object /\ o \in objects \ excused
          BY <3>1, <3>3 DEF TypeOK
        <5>2. QED
          BY <5>1, PurgeInvParts, ThingFacts DEF Object
      <4>2. Owned(o)' <=> Owned(o)
        BY <3>1 DEF Owned, Here
      <4>3. ASSUME NEW t \in Slot, WillPurge(t, o) PROVE WillPurge(t, o)'
        BY <3>1, <3>2, <4>3 DEF WillPurge, At
      <4>4. ASSUME NEW t \in Slot, Purging(t)', o.name = slots'[t].name, Owned(o)',
                   rows'[o.name].stamp = slots'[t].stamp
            PROVE  o.kind \in Kinds(slots'[t].todo)
        <5>1. CASE t = s
          BY <3>2, <4>1, <5>1, PurgePlanFacts
        <5>2. CASE t # s
          <6>1. slots'[t] = slots[t] /\ Purging(t)
            BY <3>2, <4>4, <5>2 DEF Purging, At
          <6>2. QED
            BY <3>1, <4>1, <4>2, <4>4, <6>1 DEF Accounted
        <5>3. QED
          BY <5>1, <5>2
      <4>5. QED
        BY <4>1, <4>2, <4>3, <4>4 DEF Accounted
    <3>4. QED
      BY <3>3 DEF PurgeInv, Accounted, Purging
  <2>3. QED
    BY <2>1, <2>2
<1>6. ASSUME NEW s \in Slot, NEW n \in Name,
             StartDeploy(s, n) \/ \E port \in Port : EditNetworking(s, n, port)
      PROVE  PurgeInv'
  <2>1. /\ slots'[s].at \in {"apply", "patch"} /\ ~Purging(s)
        /\ \A t \in Slot \ {s} : slots'[t] = slots[t]
    BY <1>6 DEF StartDeploy, EditNetworking, Waits, TypeOK, Purging, At
  <2>2. SamePurges
    BY <2>1, SamePurgesBySlot DEF Purging, At
  <2>3. QED
    BY <1>6, <2>2, PurgeBySame DEF StartDeploy, EditNetworking, NoWrite
<1>7. ASSUME NEW s \in Slot, PortsListed(s) PROVE PurgeInv'
  <2> DEFINE r == slots[s]
             port == AllocateExposePorts(r.cluster)
  <2>1. /\ r.name \in Name /\ r.cluster \in Cluster /\ r.ns \in Namespace
        /\ r \in PortsRequest
    BY <1>7, SlotType, RequestByStep DEF PortsListed
  <2>2. port \in Port /\ Listed(r.cluster) \in SUBSET Name
    BY AllocatedIsFree DEF AllocateExposePorts, Listed
  <2>3. objects' = objects /\ excused' = excused /\ SamePurges
    BY <1>7, <1>c, <2>1 DEF PortsListed, Purging, At, PortsRequest
  <2>4. CASE NoWrite
    BY <2>3, <2>4, PurgeBySame DEF NoWrite
  <2>5. CASE NameIsFree(r.name) /\ Writes(r.name, r.cluster, r.ns, port, Listed(r.cluster))
    <3>1. \A o \in objects' \ excused' : o.name = r.name => ~Owned(o)
      BY <2>5 DEF Owned, NameIsFree
    <3> HIDE DEF r, port
    <3>2. QED
      BY <2>1, <2>2, <2>3, <2>5, <3>1, PurgeByWrite
  <2>6. QED
    BY <1>7, <2>4, <2>5 DEF PortsListed
<1>8. ASSUME NEW s \in Slot, NetworkPatched(s) \/ Prune(s) PROVE PurgeInv'
  <2>1. ~Purging(s)
    <3>1. slots[s] # None
      BY <1>8 DEF NetworkPatched, Prune, At
    <3>2. QED
      BY <1>8, <3>1, SlotType, RequestByStep DEF NetworkPatched, Prune, Purging, At
  <2>2. SamePurges
    BY <1>8, <1>c, <2>1 DEF NetworkPatched, Prune
  <2>3. QED
    BY <1>8, <2>2, PurgeBySame DEF NetworkPatched, Prune, NoWrite
<1>9. ASSUME NEW s \in Slot, PurgeStep(s) PROVE PurgeInv'
  BY <1>9, PurgeStepKeeps
<1>10. ASSUME NEW s \in Slot, LabelRead(s) \/ WorkloadsListed(s) PROVE PurgeInv'
  <2>1. slots[s] \in LookRequest /\ ~Purging(s)
    BY <1>10, SlotType, RequestByStep DEF LabelRead, WorkloadsListed, At, Purging
  <2>2. SamePurges
    <3>1. CASE Answered(s)
      BY <1>c, <2>1, <3>1
    <3>2. ASSUME NEW at \in {"workloads", "prune"}, Advances(s, at) PROVE SamePurges
      <4>1. /\ slots'[s] \in LookRequest
            /\ \A t \in Slot \ {s} : slots'[t] = slots[t]
        BY <2>1, <3>2, AdvancesFacts
      <4>2. QED
        BY <2>1, <4>1, SamePurgesBySlot DEF Purging, At, LookRequest
    <3>3. QED
      BY <1>10, <3>1, <3>2 DEF LabelRead, WorkloadsListed
  <2>3. QED
    BY <1>10, <2>2, PurgeBySame DEF LabelRead, WorkloadsListed, NoWrite
<1>11. ASSUME NEW s \in Slot, NamespaceApplied(s) PROVE PurgeInv'
  <2> DEFINE r == slots[s]
             files == IF r.rendered.files THEN {Thing(r.name, r.cluster, r.ns, "envFiles")} ELSE {}
             next == [op |-> "template", at |-> "apply", name |-> r.name,
                      cluster |-> r.cluster, ns |-> r.ns, stamp |-> stamp + 1,
                      todo |-> r.rendered.manifests]
  <2>1. /\ r.name \in Name /\ r.cluster \in Cluster /\ r.ns \in Namespace
        /\ r \in TemplateRequest /\ ~Purging(s)
    BY <1>11, SlotType, RequestByStep DEF NamespaceApplied, At, TemplateRequest, Purging
  <2>2. CASE Answered(s) /\ NoWrite /\ UNCHANGED <<objects, excused>>
    BY <1>c, <2>1, <2>2, PurgeBySame DEF NoWrite
  <2>3. CASE /\ NameIsFree(r.name) /\ Writes(r.name, r.cluster, r.ns, 0, {}) /\ Waits(s, next)
             /\ objects' \in {objects, objects \cup files}
             /\ excused' = IF During("delete", r.name) THEN excused \cup files ELSE excused
    <3>1. slots'[s] = next /\ \A t \in Slot \ {s} : slots'[t] = slots[t]
      BY <2>3 DEF Waits, TypeOK
    <3>2. SamePurges
      BY <2>1, <3>1, SamePurgesBySlot DEF Purging, At
    <3>3. /\ rows'[r.name] # None /\ rows'[r.name].cluster = r.cluster
          /\ rows'[r.name].ns = r.ns /\ rows'[r.name].stamp = stamp + 1
          /\ \A m \in Name \ {r.name} : rows'[m] = rows[m]
      <4>1. Writes(r.name, r.cluster, r.ns, 0, {})
        BY <2>3
      <4>2. rows \in RowTable /\ stamp \in Nat
        BY DEF TypeOK, RowTable
      <4> DEFINE row == [cluster |-> r.cluster, ns |-> r.ns, port |-> 0,
                         stamp |-> stamp + 1, listed |-> {}]
      <4>3. rows' = [rows EXCEPT ![r.name] = row]
        BY <4>1, Zenon DEF Writes
      <4>4. rows'[r.name] = row /\ \A m \in Name \ {r.name} : rows'[m] = rows[m]
        <5> HIDE DEF r, row
        <5>1. QED
          BY <2>1, <4>2, <4>3 DEF RowTable
      <4>5. row # None
        BY <1>a, <2>1, <4>2, NoneIsNoRecord DEF Row
      <4>6. QED
        BY <4>4, <4>5
    <3>4. ASSUME NEW o \in objects' \ excused' PROVE Accounted(o)'
      <4>1. CASE o \in files
        <5>1. o = Thing(r.name, r.cluster, r.ns, "envFiles") /\ o.name = r.name
          BY <4>1, ThingFacts
        <5>2. Owned(o)'
          BY <3>3, <5>1 DEF Owned, Here, Kind
        <5>3. \A t \in Slot : ~(Purging(t)' /\ slots'[t].name = o.name)
          <6> SUFFICES ASSUME NEW t \in Slot, Purging(t)', slots'[t].name = o.name PROVE FALSE
            OBVIOUS
          <6>1. slots'[t] = slots[t] /\ Purging(t)
            BY <3>2 DEF SamePurges, Purging, At
          <6>2. During("delete", r.name)
            BY <5>1, <6>1 DEF During, Active, Purging, At
          <6>3. QED
            BY <2>3, <3>4, <4>1, <6>2
        <5>4. QED
          BY <5>2, <5>3, AccountedFresh
      <4>2. CASE o \notin files
        <5>1. o \in objects \ excused /\ o \in Object
          BY <2>3, <3>4, <4>2 DEF TypeOK
        <5>2. Accounted(o) /\ o.name \in Name
          BY <5>1, PurgeInvParts, ThingFacts DEF Object
        <5>3. CASE o.name = r.name
          <6>1. ~Owned(o)
            BY <2>3, <5>3 DEF Owned, NameIsFree
          <6>2. QED
            BY <3>2, <3>3, <5>2, <5>3, <6>1, AccountedRewritten
        <5>4. CASE o.name # r.name
          BY <3>2, <3>3, <5>2, <5>4, AccountedStays
        <5>5. QED
          BY <5>3, <5>4
      <4>3. QED
        BY <4>1, <4>2
    <3>5. QED
      BY <3>4 DEF PurgeInv, Accounted, Purging
  <2>4. QED
    BY <1>11, <2>2, <2>3 DEF NamespaceApplied
<1>12. ASSUME NEW s \in Slot, ManifestApplied(s) PROVE PurgeInv'
  <2> DEFINE r == slots[s]
             o == Thing(r.name, r.cluster, r.ns, Head(r.todo))
  <2>1. /\ r \in ApplyRequest /\ r \in Request /\ r.name \in Name /\ r # None /\ ~Purging(s)
        /\ Head(r.todo) \in Kind /\ r.todo \in Plan
    BY <1>12, SlotType, RequestByStep, PlanFacts DEF ManifestApplied, At, ApplyRequest, Purging
  <2>2. SamePurges
    <3>1. CASE Answered(s)
      BY <1>c, <2>1, <3>1
    <3>2. CASE Len(r.todo) # 1 /\ Waits(s, [r EXCEPT !.todo = Tail(@)])
      <4> DEFINE next == [r EXCEPT !.todo = Tail(@)]
      <4>1. next.at = "apply"
        BY <2>1 DEF ApplyRequest
      <4>2. slots'[s] = next /\ \A t \in Slot \ {s} : slots'[t] = slots[t]
        BY <3>2 DEF Waits, TypeOK
      <4>3. QED
        BY <2>1, <4>1, <4>2, SamePurgesBySlot DEF Purging, At
    <3>3. QED
      BY <1>12, <3>1, <3>2 DEF ManifestApplied
  <2>3. CASE /\ objects' = objects \cup {o} /\ NoWrite
             /\ excused' = IF Overtaken(r) THEN excused \cup {o} ELSE excused
    <3>1. {Thing(r.name, r.cluster, r.ns, kind) : kind \in {Head(r.todo)}} = {o}
      OBVIOUS
    <3>2. {Head(r.todo)} \in SUBSET Kind /\ r.at = "apply"
      BY <2>1 DEF ApplyRequest
    <3>3. QED
      BY <2>1, <2>2, <2>3, <3>1, <3>2, PurgeByApply
  <2>4. CASE /\ Removes(r.name) /\ objects' = objects
             /\ excused' = excused \cup {x \in objects : x.name = r.name}
    <3>1. objects' \ excused' \subseteq {x \in objects \ excused : x.name # r.name}
      BY <2>4
    <3>2. QED
      BY <2>1, <2>2, <2>4, <3>1, PurgeByRemove
  <2>5. QED
    BY <1>12, <2>3, <2>4 DEF ManifestApplied
<1>13. ASSUME NEW s \in Slot, DeployEnds(s) PROVE PurgeInv'
  <2> DEFINE r == slots[s]
             kinds == IF r.port # 0 /\ Gives(r.name, r.cluster, r.ns, r.port)
                      THEN {"Deployment", "Service"} ELSE {"Deployment"}
             new == {Thing(r.name, r.cluster, r.ns, kind) : kind \in kinds}
  <2>1. r \in DeployRequest /\ r # None /\ ~Purging(s) /\ r.at = "apply"
    BY <1>13, SlotType, RequestByStep DEF DeployEnds, At, DeployRequest, Purging
  <2>2. SamePurges
    BY <1>13, <1>c, <2>1 DEF DeployEnds
  <2>3. CASE objects' = objects /\ excused' = excused
    BY <1>13, <2>2, <2>3, PurgeBySame DEF DeployEnds, NoWrite
  <2>4. CASE /\ objects' = objects \cup new
             /\ excused' = IF Overtaken(r) THEN excused \cup new ELSE excused
    <3>1. kinds \in SUBSET Kind
      BY DEF Kind
    <3>2. NoWrite
      BY <1>13 DEF DeployEnds
    <3> HIDE DEF kinds
    <3>3. QED
      BY <2>1, <2>2, <2>4, <3>1, <3>2, PurgeByApply
  <2>5. QED
    BY <1>13, <2>3, <2>4 DEF DeployEnds
<1>14. CASE UNCHANGED vars
  BY <1>14, <1>b, PurgeBySame DEF vars
<1>15. QED
  BY <1>1, <1>2, <1>3, <1>4, <1>5, <1>6, <1>7, <1>8, <1>9, <1>10, <1>11, <1>12, <1>13, <1>14
     DEF Next

\* What a service that is gone leaves behind, with nothing running for it, was left by a step
\* that failed or was overtaken: nothing else escapes the purge.
THEOREM PurgeIsComplete == Spec => []NothingElseStays
<1>1. Init => TypeOK /\ RowsInv /\ PurgeInv
  BY TypeInit, RowsInit, PurgeInit
<1>2. TypeOK /\ RowsInv /\ PurgeInv /\ [Next]_vars => (TypeOK /\ RowsInv /\ PurgeInv)'
  BY TypeStep, RowsInvStep, PurgeInvStep
<1>3. TypeOK /\ PurgeInv => NothingElseStays
  <2> SUFFICES ASSUME TypeOK, PurgeInv, NEW o \in objects, o \notin excused,
                      ~During("delete", o.name), ~Owned(o)
               PROVE  FALSE
    BY DEF NothingElseStays
  <2>1. PICK s \in Slot : WillPurge(s, o)
    BY DEF PurgeInv
  <2>2. o.name = slots[s].name /\ s \in Active("delete")
    BY <2>1, ThingFacts DEF WillPurge, At, Active
  <2>3. QED
    BY <2>2 DEF During
<1>4. QED
  BY <1>1, <1>2, <1>3, PTL DEF Spec

-------------------------------------------------------------------------------
(*****************************************************************************)
(* Access: logins, sessions, tokens, webhooks and the audit trail            *)
(*                                                                           *)
(* Two arguments: the csrf token a tab holds belongs to the session of the   *)
(* cookie it sends, or another page logged in since; and a list of audit     *)
(* rows that is complete down to its last row stays so when a page is        *)
(* joined to it, and when rows are added or pruned.                          *)
(*****************************************************************************)

\* Sequences.
LEMMA Joined ==
    ASSUME NEW S, NEW s \in Seq(S), NEW t \in Seq(S)
    PROVE  /\ s \o t \in Seq(S) /\ Len(s \o t) = Len(s) + Len(t)
           /\ \A i \in 1 .. Len(s) : (s \o t)[i] = s[i]
           /\ \A i \in 1 .. Len(t) : (s \o t)[Len(s) + i] = t[i]
<1> DEFINE j == s \o t
<1> HIDE DEF j
<1>1. /\ j \in Seq(S) /\ Len(j) = Len(s) + Len(t)
      /\ \A i \in 1 .. Len(s) + Len(t) : j[i] = IF i <= Len(s) THEN s[i] ELSE t[i - Len(s)]
  BY ConcatProperties DEF j
<1>2. Len(s) \in Nat /\ Len(t) \in Nat
  BY LenProperties
<1>3. \A i \in 1 .. Len(s) : j[i] = s[i]
  BY <1>1, <1>2
<1>4. ASSUME NEW i \in 1 .. Len(t) PROVE j[Len(s) + i] = t[i]
  <2>1. Len(s) + i \in 1 .. Len(s) + Len(t) /\ ~(Len(s) + i <= Len(s)) /\ (Len(s) + i) - Len(s) = i
    BY <1>2
  <2> QED BY <1>1, <2>1
<1> QED BY <1>1, <1>3, <1>4 DEF j

LEMMA FunctionIsSeq ==
    ASSUME NEW S, NEW n \in Nat, NEW f \in [1 .. n -> S]
    PROVE  f \in Seq(S) /\ Len(f) = n
<1>1. f \in Seq(S)
  BY SeqDef
<1>2. Len(f) \in Nat /\ DOMAIN f = 1 .. Len(f)
  BY <1>1, LenProperties
<1>3. 1 .. Len(f) = 1 .. n
  BY <1>2
<1> QED BY <1>1, <1>2, <1>3

AuditRow == [id : Nat, ts : Nat, result : {"ok", "fail"}]
Distinct(entries) == \A a, b \in entries : a.id = b.id => a = b

\* Rows with different ids are in a strict order.
LEMMA NewerOrders ==
    ASSUME NEW a \in AuditRow, NEW b \in AuditRow, NEW c \in AuditRow
    PROVE  /\ ~Newer(a, a)
           /\ Newer(a, b) => ~Newer(b, a)
           /\ Newer(a, b) /\ Newer(b, c) => Newer(a, c)
           /\ a.id # b.id => Newer(a, b) \/ Newer(b, a)
BY DEF Newer, AuditRow

\* A page lists the newest rows in order: all of them when they fit, else all that are
\* not older than its last.
LEMMA PageListing ==
    ASSUME NEW entries \in SUBSET AuditRow, IsFiniteSet(entries), Distinct(entries), NEW n \in Nat \ {0}
    PROVE  LET s == Newest(entries, n)
               size == IF Cardinality(entries) < n THEN Cardinality(entries) ELSE n
           IN  /\ size \in Nat /\ s \in [1 .. size -> entries]
               /\ \A i, j \in 1 .. size : i < j => Newer(s[i], s[j])
               /\ Cardinality(entries) <= n => \A r \in entries : \E i \in 1 .. size : s[i] = r
               /\ Cardinality(entries) > n =>
                     \A r \in entries : ~Newer(s[n], r) => \E i \in 1 .. size : s[i] = r
<1> DEFINE N == Cardinality(entries)
           size == IF N < n THEN N ELSE n
           above(r) == {q \in entries : Newer(q, r)}
           pos == [r \in entries |-> Cardinality(above(r)) + 1]
           s == Newest(entries, n)
<1> HIDE DEF N, size, above, pos, s
<1>1. N \in Nat /\ size \in Nat /\ size <= N /\ size <= n
  BY FS_CardinalityType DEF N, size
<1>2. \A r \in entries : pos[r] = Cardinality(above(r)) + 1
  BY DEF pos
<1>3. ASSUME NEW r \in entries
      PROVE  pos[r] \in 1 .. N /\ IsFiniteSet(above(r)) /\ Cardinality(above(r)) \in Nat
  <2>1. above(r) \in SUBSET entries /\ above(r) # entries
    BY NewerOrders DEF above
  <2>2. IsFiniteSet(above(r)) /\ Cardinality(above(r)) <= N /\ Cardinality(above(r)) # N
    BY <2>1, FS_Subset DEF N
  <2>3. Cardinality(above(r)) \in Nat
    BY <2>2, FS_CardinalityType
  <2> QED BY <1>1, <1>2, <2>2, <2>3
<1>4. ASSUME NEW q \in entries, NEW r \in entries, Newer(q, r) PROVE pos[q] < pos[r]
  <2>1. above(q) \in SUBSET above(r)
    <3> SUFFICES ASSUME NEW p \in above(q) PROVE Newer(p, r)
      BY DEF above
    <3> QED BY <1>4, NewerOrders DEF above
  <2>2. q \in above(r) /\ q \notin above(q)
    BY <1>4, NewerOrders DEF above
  <2>3. Cardinality(above(q)) <= Cardinality(above(r)) /\ Cardinality(above(q)) # Cardinality(above(r))
    BY <1>3, <2>1, <2>2, FS_Subset
  <2> QED BY <1>2, <1>3, <2>3
<1>5. ASSUME NEW q \in entries, NEW r \in entries, q # r PROVE pos[q] # pos[r]
  <2>1. Newer(q, r) \/ Newer(r, q)
    BY <1>5, NewerOrders DEF Distinct
  <2>2. pos[q] \in Nat /\ pos[r] \in Nat
    BY <1>1, <1>3
  <2> QED BY <1>4, <2>1, <2>2
<1>6. \A i \in 1 .. N : \E r \in entries : pos[r] = i
  <2>1. pos \in [entries -> 1 .. N]
    <3>1. pos = [r \in entries |-> pos[r]]
      BY DEF pos
    <3> QED BY <1>3, <3>1
  <2>2. pos \in Injection(entries, 1 .. N)
    BY <1>5, <2>1 DEF Injection, IsInjective
  <2>3. IsFiniteSet(1 .. N) /\ Cardinality(1 .. N) = N
    BY <1>1, FS_Interval
  <2>4. pos \in Surjection(entries, 1 .. N)
    BY <2>2, <2>3, FS_Injection DEF N
  <2> QED BY <2>4 DEF Surjection
<1>7. ASSUME NEW i \in 1 .. size PROVE s[i] \in entries /\ pos[s[i]] = i
  <2>1. \E r \in entries : Cardinality(above(r)) + 1 = i
    BY <1>1, <1>2, <1>6
  <2>2. s[i] \in entries /\ Cardinality(above(s[i])) + 1 = i
    BY <2>1 DEF Newest, above, s, size, N
  <2> QED BY <1>2, <2>2
<1>8. s \in [1 .. size -> entries]
  <2> DEFINE own == IF Cardinality(entries) < n THEN Cardinality(entries) ELSE n
  <2>1. own = size
    BY DEF size, N
  <2>2. \A i \in 1 .. own :
           \E r \in entries : Cardinality({q \in entries : Newer(q, r)}) + 1 = i
    <3> HIDE DEF own
    <3>1. \A i \in 1 .. own : \E r \in entries : Cardinality(above(r)) + 1 = i
      BY <1>1, <1>2, <1>6, <2>1
    <3> QED BY <3>1 DEF above
  <2>3. s \in [1 .. own -> entries]
    BY <2>2 DEF Newest, s
  <2> QED BY <2>1, <2>3
<1>9. ASSUME NEW i \in 1 .. size, NEW j \in 1 .. size, i < j PROVE Newer(s[i], s[j])
  <2>1. s[i] \in entries /\ s[j] \in entries /\ pos[s[i]] = i /\ pos[s[j]] = j
    BY <1>7
  <2>2. s[i] # s[j] /\ ~Newer(s[j], s[i])
    BY <1>4, <1>9, <2>1
  <2> QED BY <2>1, <2>2, NewerOrders DEF Distinct
<1>10. ASSUME NEW r \in entries, pos[r] <= size PROVE \E i \in 1 .. size : s[i] = r
  <2>1. pos[r] \in 1 .. size
    BY <1>1, <1>3, <1>10
  <2>2. s[pos[r]] \in entries /\ pos[s[pos[r]]] = pos[r]
    BY <1>7, <2>1
  <2> QED BY <1>5, <2>1, <2>2
<1>11. ASSUME N <= n, NEW r \in entries PROVE \E i \in 1 .. size : s[i] = r
  <2>1. pos[r] <= size
    BY <1>1, <1>3, <1>11 DEF size
  <2> QED BY <1>10, <2>1
<1>12. ASSUME N > n, NEW r \in entries, ~Newer(s[n], r) PROVE \E i \in 1 .. size : s[i] = r
  <2>1. size = n /\ n \in 1 .. size
    BY <1>1, <1>12 DEF size
  <2>2. s[n] \in entries /\ pos[s[n]] = n
    BY <1>7, <2>1
  <2>3. r = s[n] \/ Newer(r, s[n])
    BY <1>12, <2>2, NewerOrders DEF Distinct
  <2>4. pos[r] <= n
    <3>1. pos[r] \in 1 .. N /\ (Newer(r, s[n]) => pos[r] < pos[s[n]])
      BY <1>3, <1>4, <2>2
    <3> QED BY <1>1, <2>2, <2>3, <3>1
  <2> QED BY <1>10, <2>1, <2>4
<1> QED BY <1>1, <1>8, <1>9, <1>11, <1>12 DEF s, size, N

Cookie == Session \cup {0}
RequestKinds == {"me", "login", "password", "logtoken", "deploy", "create", "revoke", "hook", "unhook"}
RequestType ==
    [tab : Tabs, kind : RequestKinds, cookie : Cookie, csrf : Cookie, given : Password \cup {"none"},
     new : Password \cup {"none"}, read : Password \cup {"unread"}, live : BOOLEAN]
TokenType == [st : {"unused", "live", "revoked"}, grant : Grants \cup {NoGrant}, at : Nat]

\* Passwords, tokens, logins and the bucket that limits them.
Accounts == /\ account \in [pw : Password, must : BOOLEAN]
            /\ token \in [Tokens \cup Hooks -> TokenType]
            /\ bucket \in [{"ip", "user"} -> [count : Nat, resetAt : Time]]
\* The rows of the audit trail have ids of their own, below the last one given out.
Trail == /\ hooks \in [ok : Nat, fail : Nat]
         /\ trail \in SUBSET AuditRow /\ IsFiniteSet(trail) /\ Distinct(trail)
         /\ lastRow \in 0 .. MaxRows /\ \A r \in trail : r.id \in 1 .. lastRow
\* Sessions, the cookie jar, the tabs and the requests on the wire.
Pages == /\ expiry \in [Session -> Time] /\ jar \in Cookie
         /\ tab \in [Tabs -> [view : {"boot", "login", "change", "main"}, csrf : Cookie]]
         /\ wire \subseteq RequestType
         /\ \A r \in wire : r.kind = "password" => r.new \in Password
         /\ lapsed \in [Tabs -> BOOLEAN]
Clock == now \in 0 .. MaxTime /\ events \in 0 .. MaxEvents

\* The csrf token of a page that may act is the session's, or the cookie is gone.
PagesFresh == \A t \in Tabs : /\ tab[t].view \in {"change", "main"} /\ ~lapsed[t] /\ jar # 0
                              => tab[t].csrf = jar

ReaderType == [open : BOOLEAN, loading : BOOLEAN, applied : Filters, items : Seq(AuditRow),
               cursor : Seq(AuditRow), ask : {"first", "more"}, query : Filters \cup {"mixed"},
               base : SUBSET Nat]

\* The list is in order and complete down to its last row, which is the cursor.
InOrder(items) == \A i, j \in 1 .. Len(items) : i < j => Newer(items[i], items[j])
\* No row that was there is missing above the cursor.
Complete(items, cursor, entries) ==
    \A r \in entries : cursor = <<>> \/ ~Newer(items[Len(items)], r)
                       => \E i \in 1 .. Len(items) : items[i] = r
Begun == {r \in trail : r.id \in reader.base}
\* What the reader of the audit trail shows is complete down to its cursor, for the rows that
\* were there when the listing began; a page that is on its way fits the list it was asked for.
Listing == /\ reader \in ReaderType
           /\ \A n \in reader.base : n <= lastRow
           /\ reader.loading /\ reader.ask = "more" => reader.cursor # <<>>
           /\ \/ reader.cursor = <<>>
              \/ reader.items # <<>> /\ reader.cursor = <<reader.items[Len(reader.items)]>>
           /\ reader.query # "mixed" =>
                 /\ InOrder(reader.items)
                 /\ Begun \subseteq Matches(reader.query)
                 /\ Complete(reader.items, reader.cursor, Begun)

AInv == Accounts /\ Trail /\ Pages /\ Clock /\ PagesFresh /\ Listing

LEMMA AccessNumbers ==
    /\ {MaxLogins, MaxRows, Ttl, Window, Limit, Page, Keep, Every} \subseteq Nat \ {0}
    /\ {MaxTime, MaxEvents} \subseteq Nat
    /\ 0 \in Time /\ 0 \notin Session
    /\ \A n \in 0 .. MaxTime : n + Ttl \in Time /\ n + Window \in Time
BY AccessAssumption DEF Time, Session

LEMMA ClockStays ==
    ASSUME Clock, Quiet \/ Click
    PROVE  Clock' /\ now' = now
BY AccessNumbers DEF Clock, Quiet, Click, Event

LEMMA OweTyped ==
    ASSUME Trail, NEW kind, NEW known, NEW code, Owe(kind, known, code)
    PROVE  hooks' \in [ok : Nat, fail : Nat]
<1>1. hooks' \in {hooks, [hooks EXCEPT !["ok"] = @ + 1], [hooks EXCEPT !["fail"] = @ + 1]}
  BY DEF Owe
<1> QED BY <1>1 DEF Trail

LEMMA MeTyped ==
    ASSUME NEW t \in Tabs, NEW cookie \in Cookie
    PROVE  /\ Me(t, cookie) \in RequestType
           /\ Me(t, cookie).kind # "password"
<1>1. 0 \in Cookie
  BY DEF Cookie
<1> QED BY <1>1 DEF Me, RequestType, RequestKinds

LEMMA AccessBegins == ASSUME AccessInit PROVE AInv
<1>1. Accounts
  <2>1. NoToken \in TokenType
    BY DEF NoToken, TokenType
  <2>2. NoBucket \in [count : Nat, resetAt : Time]
    BY AccessNumbers DEF NoBucket
  <2>3. account \in [pw : Password, must : BOOLEAN]
    <3>1. account \in {[pw |-> "default", must |-> TRUE], [pw |-> "new", must |-> FALSE]}
      BY DEF AccessInit, FirstBoot, LaterBoot, DefaultAdmin
    <3>2. CASE account = [pw |-> "default", must |-> TRUE]
      BY <3>2 DEF Password
    <3>3. CASE account = [pw |-> "new", must |-> FALSE]
      BY <3>3 DEF Password
    <3> QED BY <3>1, <3>2, <3>3
  <2> QED BY <2>1, <2>2, <2>3 DEF AccessInit, Accounts
<1>2. Trail
  BY AccessNumbers, FS_EmptySet DEF AccessInit, Trail, Distinct
<1>3. Pages
  <2>1. expiry \in [Session -> Time] /\ jar \in Cookie
    <3>1. CASE FirstBoot
      BY <3>1, AccessNumbers DEF FirstBoot, Cookie
    <3>2. CASE LaterBoot
      <4>1. Ttl \in Time
        BY AccessNumbers DEF Time
      <4>2. 1 \in Session
        BY AccessNumbers DEF Session
      <4> QED BY <3>2, <4>1, <4>2, AccessNumbers DEF LaterBoot, Cookie
    <3> QED BY <3>1, <3>2 DEF AccessInit
  <2>2. \A t \in Tabs : Me(t, jar) \in RequestType /\ Me(t, jar).kind # "password"
    BY <2>1, MeTyped
  <2>3. Booting \in [view : {"boot", "login", "change", "main"}, csrf : Cookie]
    BY DEF Booting, Cookie
  <2> QED BY <2>1, <2>2, <2>3 DEF AccessInit, Pages
<1>4. Clock /\ PagesFresh
  BY AccessNumbers DEF AccessInit, Booting, Clock, PagesFresh
<1>5. Listing
  <2>1. <<>> \in Seq(AuditRow) /\ Len(<<>>) = 0
    BY EmptySeq
  <2>2. Closed \in ReaderType
    BY <2>1 DEF Closed, ReaderType, Filters
  <2>3. reader.items = <<>> /\ reader.cursor = <<>> /\ reader.base = {} /\ reader.loading = FALSE
    BY DEF AccessInit, Closed
  <2> QED BY <2>1, <2>2, <2>3 DEF AccessInit, Listing, InOrder, Complete, Begun
<1> QED BY <1>1, <1>2, <1>3, <1>4, <1>5 DEF AInv

\* Whatever leaves the trail and the reader alone leaves the list as it is.
LEMMA ListingStays ==
    ASSUME Listing, UNCHANGED <<trail, lastRow, reader>> PROVE Listing'
BY DEF Listing, Begun, Complete, InOrder, Matches

\* Whatever leaves the pages alone.
LEMMA PagesStay ==
    ASSUME Pages, PagesFresh, UNCHANGED <<expiry, jar, tab, wire, lapsed>> PROVE Pages' /\ PagesFresh'
BY DEF Pages, PagesFresh

\* The audit rows and the calls of CI.
LEMMA AccessTrail ==
    ASSUME AInv,
           \/ \E res \in {"ok", "fail"} :
                 HookRuns(res) \/ HookFails(res) \/ JobOutcome(res)
           \/ \E k \in Tokens, kind \in {"read", "rawread", "deploy", "create"}, target \in Targets :
                 MachineCall(k, kind, target)
    PROVE  AInv'
<1>1. /\ UNCHANGED <<account, token, bucket, expiry, jar, tab, wire, lapsed, reader>>
      /\ Quiet \/ Click
  BY DEF HookRuns, HookFails, JobOutcome, MachineCall, store, browser
<1>2. Accounts' /\ Pages' /\ PagesFresh' /\ Clock' /\ now' = now
  BY <1>1, ClockStays, PagesStay DEF AInv, Accounts
<1>3. hooks' \in [ok : Nat, fail : Nat]
  <2>1. ASSUME NEW res \in {"ok", "fail"}, hooks[res] > 0, hooks' = [hooks EXCEPT ![res] = @ - 1]
        PROVE  hooks' \in [ok : Nat, fail : Nat]
    <3>1. CASE res = "ok"
      BY <2>1, <3>1 DEF AInv, Trail
    <3>2. CASE res = "fail"
      BY <2>1, <3>2 DEF AInv, Trail
    <3> QED BY <3>1, <3>2
  <2>2. ASSUME NEW res \in {"ok", "fail"}, JobOutcome(res)
        PROVE  hooks' \in [ok : Nat, fail : Nat]
    BY <2>2 DEF JobOutcome, AInv, Trail
  <2>3. ASSUME NEW k \in Tokens, NEW kind, NEW target, MachineCall(k, kind, target)
        PROVE  hooks' \in [ok : Nat, fail : Nat]
    BY <2>3, OweTyped DEF MachineCall, AInv
  <2> QED BY <2>1, <2>2, <2>3 DEF HookRuns, HookFails
<1>4. CASE UNCHANGED <<trail, lastRow>>
  <2>1. Trail'
    BY <1>3, <1>4 DEF AInv, Trail, Distinct
  <2>2. Listing'
    BY <1>1, <1>4, ListingStays DEF AInv
  <2> QED BY <1>2, <2>1, <2>2 DEF AInv
<1>5. ASSUME NEW res \in {"ok", "fail"}, WriteRow(res) PROVE AInv'
  <2> DEFINE row == [id |-> lastRow + 1, ts |-> now, result |-> res]
  <2>1. /\ lastRow < MaxRows /\ lastRow' = lastRow + 1 /\ trail' \in SUBSET (trail \cup {row})
        /\ row.id = lastRow + 1
    BY <1>5 DEF WriteRow, Pruned
  <2>2. lastRow' \in 0 .. MaxRows /\ lastRow \in Nat
    BY <2>1, AccessNumbers DEF AInv, Trail
  <2>3. row \in AuditRow
    BY <2>2, AccessNumbers DEF AuditRow, AInv, Clock
  <2> HIDE DEF row
  <2>4. Trail'
    <3>1. trail' \in SUBSET AuditRow
      BY <2>1, <2>3 DEF AInv, Trail
    <3>2. IsFiniteSet(trail')
      BY <2>1, FS_AddElement, FS_Subset DEF AInv, Trail
    <3>3. \A r \in trail : r.id \in 1 .. lastRow
      BY DEF AInv, Trail
    <3>4. Distinct(trail')
      BY <2>1, <2>2, <3>3 DEF AInv, Trail, Distinct
    <3>5. \A r \in trail' : r.id \in 1 .. lastRow'
      BY <2>1, <2>2, <3>3
    <3> QED BY <1>3, <2>2, <3>1, <3>2, <3>4, <3>5 DEF Trail
  <2>5. Listing'
    <3>1. Listing /\ reader \in ReaderType /\ reader' = reader
      BY <1>1 DEF AInv, Listing
    <3>2. \A n \in reader.base : n \in Nat /\ n <= lastRow
      BY <3>1 DEF Listing, ReaderType
    <3>3. Begun' \subseteq Begun
      BY <2>1, <2>2, <3>1, <3>2 DEF Begun
    <3>4. Begun \subseteq Matches(reader.query) => Begun' \subseteq Matches(reader.query)'
      BY <3>1, <3>3 DEF Matches, Begun
    <3>5. \A n \in reader'.base : n <= lastRow'
      BY <2>1, <2>2, <3>1, <3>2
    <3>6. Complete(reader.items, reader.cursor, Begun) => Complete(reader'.items, reader'.cursor, Begun')
      BY <3>1, <3>3 DEF Complete
    <3> QED BY <3>1, <3>4, <3>5, <3>6 DEF Listing
  <2> QED BY <1>2, <2>4, <2>5 DEF AInv
<1> QED BY <1>4, <1>5 DEF HookRuns, HookFails, JobOutcome, MachineCall

\* Requests that are answered: refused, handled, and the forms of the integrations.
LEMMA AccessHandled ==
    ASSUME AInv, NEW r \in wire,
           \/ Refused(r) \/ \E code \in {200, 422} : Handled(r, code)
           \/ \E k \in Tokens : CreateToken(r, k) \/ RevokeToken(r, k)
           \/ \E k \in Hooks : CreateWebhook(r, k) \/ RevokeWebhook(r, k)
           \/ PasswordEnds(r)
    PROVE  AInv'
<1>1. r \in RequestType /\ (r.kind = "password" => r.new \in Password)
  BY DEF AInv, Pages
<1>2. UNCHANGED <<bucket, trail, lastRow, expiry, jar, tab, lapsed, reader>> /\ Quiet
  BY DEF Refused, Handled, CreateToken, RevokeToken, CreateWebhook,
         RevokeWebhook, PasswordEnds, store
<1>3. Clock' /\ now' = now
  BY <1>2, ClockStays DEF AInv
<1>4. hooks' \in [ok : Nat, fail : Nat]
  <2> DEFINE counted == hooks' \in [ok : Nat, fail : Nat]
  <2> HIDE DEF counted
  <2>1. ASSUME NEW kind, NEW known, NEW code, Owe(kind, known, code) PROVE counted
    BY <2>1, OweTyped DEF AInv, counted
  <2>2. Refused(r) => counted
    BY <2>1 DEF Refused
  <2>3. ASSUME NEW code \in {200, 422}, Handled(r, code) PROVE counted
    <3>1. hooks' \in {hooks, [hooks EXCEPT !["ok"] = @ + 1], [hooks EXCEPT !["fail"] = @ + 1]}
      BY <2>3 DEF Handled, Owe
    <3> QED BY <3>1 DEF AInv, Trail, counted
  <2>4. (\E k \in Tokens : CreateToken(r, k) \/ RevokeToken(r, k)) => counted
    BY <2>1 DEF CreateToken, RevokeToken
  <2>5. (\E k \in Hooks : CreateWebhook(r, k) \/ RevokeWebhook(r, k)) => counted
    BY <2>1 DEF CreateWebhook, RevokeWebhook
  <2>6. PasswordEnds(r) => counted
    BY <2>1 DEF PasswordEnds
  <2> QED BY <2>2, <2>3, <2>4, <2>5, <2>6 DEF counted
<1>5. Trail' /\ Listing'
  BY <1>2, <1>4, ListingStays DEF AInv, Trail, Distinct
<1>6. wire' \subseteq wire \cup {Me(r.tab, jar)}
  BY DEF Refused, Handled, CreateToken, RevokeToken, CreateWebhook,
         RevokeWebhook, PasswordEnds, Asks
<1>7. Pages' /\ PagesFresh'
  <2>1. Me(r.tab, jar) \in RequestType /\ Me(r.tab, jar).kind # "password"
    BY <1>1, MeTyped DEF RequestType, AInv, Pages
  <2>2. Pages'
    BY <1>2, <1>6, <2>1 DEF AInv, Pages
  <2> QED BY <1>2, <2>2 DEF AInv, PagesFresh
<1>8. Accounts'
  <2>1. account' \in [pw : Password, must : BOOLEAN]
    <3>1. account' = account \/ (r.kind = "password" /\ account' = WithPassword(r.new))
      BY DEF Refused, Handled, CreateToken, RevokeToken, CreateWebhook,
             RevokeWebhook, PasswordEnds, store
    <3>2. r.kind = "password" => WithPassword(r.new) \in [pw : Password, must : BOOLEAN]
      BY <1>1 DEF WithPassword
    <3> QED BY <3>1, <3>2 DEF AInv, Accounts
  <2>2. token' \in [Tokens \cup Hooks -> TokenType]
    <3>1. ASSUME NEW k \in Tokens \cup Hooks, NEW g \in Grants, NEW at \in Nat,
                 token' = [token EXCEPT ![k] = [st |-> "live", grant |-> g, at |-> at]]
          PROVE  token' \in [Tokens \cup Hooks -> TokenType]
      BY <3>1 DEF TokenType, AInv, Accounts
    <3>2. ASSUME NEW k \in Tokens \cup Hooks, token' = [token EXCEPT ![k].st = "revoked"]
          PROVE  token' \in [Tokens \cup Hooks -> TokenType]
      BY <3>2 DEF TokenType, AInv, Accounts
    <3>3. ASSUME NEW k \in Tokens, CreateToken(r, k) PROVE token' \in [Tokens \cup Hooks -> TokenType]
      <4>1. CASE UNCHANGED token
        BY <4>1 DEF AInv, Accounts
      <4>2. CASE \E g \in Grants, days \in {0, 1} : token' = Created(k, g, days)
        <5>1. PICK g \in Grants, days \in {0, 1} : token' = Created(k, g, days)
          BY <4>2
        <5>2. (IF days = 0 THEN 0 ELSE now + days) \in Nat
          BY AccessNumbers DEF AInv, Clock
        <5> QED BY <3>1, <5>1, <5>2 DEF Created
      <4> QED BY <3>3, <4>1, <4>2 DEF CreateToken
    <3>4. ASSUME NEW k \in Hooks, CreateWebhook(r, k) PROVE token' \in [Tokens \cup Hooks -> TokenType]
      <4>1. CASE UNCHANGED token
        BY <4>1 DEF AInv, Accounts
      <4>2. CASE \E g \in Grants : token' = RegisteredHook(k, g)
        BY <3>1, <4>2 DEF RegisteredHook
      <4> QED BY <3>4, <4>1, <4>2 DEF CreateWebhook
    <3>5. ASSUME NEW k \in Tokens \cup Hooks, RevokeToken(r, k) \/ RevokeWebhook(r, k)
          PROVE  token' \in [Tokens \cup Hooks -> TokenType]
      BY <3>2, <3>5 DEF RevokeToken, RevokeWebhook, Revoked, RevokedHook, AInv, Accounts
    <3> QED BY <3>3, <3>4, <3>5 DEF Refused, Handled, PasswordEnds, store, AInv, Accounts
  <2> QED BY <1>2, <2>1, <2>2 DEF AInv, Accounts
<1> QED BY <1>3, <1>5, <1>7, <1>8 DEF AInv

\* Pages: what they send, and the answers they hear.
LEMMA RequestTyped ==
    ASSUME Pages, NEW t \in Tabs, NEW kind \in RequestKinds, NEW given \in Password,
           NEW new \in Password \cup {"none"}
    PROVE  /\ SentRequest(t, kind, tab[t].csrf, given, new) \in RequestType
           /\ SentRequest(t, kind, tab[t].csrf, given, new).kind = kind
           /\ SentRequest(t, kind, tab[t].csrf, given, new).new = new
BY DEF SentRequest, RequestType, Pages, Cookie

\* Whatever only the browser sees of a step.
LEMMA BrowserKeeps ==
    ASSUME AInv, UNCHANGED <<account, token, hooks, trail, lastRow, reader>>,
           bucket' \in [{"ip", "user"} -> [count : Nat, resetAt : Time]],
           Pages', PagesFresh', Clock'
    PROVE  AInv'
<1>1. Accounts' /\ Trail'
  BY DEF AInv, Accounts, Trail, Distinct
<1>2. Listing'
  BY ListingStays DEF AInv
<1> QED BY <1>1, <1>2 DEF AInv

LEMMA AccessClicks ==
    ASSUME AInv,
           \/ \E t \in Tabs, pw \in Password : SubmitLogin(t, pw)
           \/ \E t \in Tabs :
                \/ SubmitPassword(t) \/ SubmitToken(t) \/ ClickRevoke(t)
                \/ SubmitWebhook(t) \/ ClickUnhook(t)
                \/ \E kind \in {"deploy", "logtoken"} : ClickConsole(t, kind)
    PROVE  AInv'
<1>1. ASSUME NEW t \in Tabs, NEW kind \in RequestKinds, NEW given \in Password,
             NEW new \in Password \cup {"none"}, kind = "password" => new \in Password,
             wire' = wire \cup {SentRequest(t, kind, tab[t].csrf, given, new)},
             Click, UNCHANGED <<account, token, bucket, hooks, trail, lastRow, expiry, jar, tab,
                                    lapsed, reader>>
      PROVE  AInv'
  <2>1. Clock'
    BY <1>1, ClockStays DEF AInv
  <2>2. Pages'
    <3> DEFINE req == SentRequest(t, kind, tab[t].csrf, given, new)
    <3>1. req \in RequestType /\ (req.kind = "password" => req.new \in Password)
      BY <1>1, RequestTyped DEF AInv
    <3> HIDE DEF req
    <3>2. wire' = wire \cup {req}
      BY <1>1 DEF req
    <3>3. wire' \subseteq RequestType /\ \A r \in wire' : r.kind = "password" => r.new \in Password
      BY <3>1, <3>2 DEF AInv, Pages
    <3> QED BY <1>1, <3>3 DEF AInv, Pages
  <2>3. PagesFresh'
    BY <1>1 DEF AInv, PagesFresh
  <2> QED BY <1>1, <2>1, <2>2, <2>3, BrowserKeeps DEF AInv, Accounts
<1>2. {"login", "password", "deploy", "logtoken", "create", "revoke", "hook", "unhook"} \subseteq RequestKinds
  BY DEF RequestKinds
<1>3. "default" \in Password
  BY DEF Password
<1>4. ASSUME NEW t \in Tabs, NEW kind \in RequestKinds, NEW given \in Password, NEW new \in Password,
             Sends(t, kind, given, new)
      PROVE  AInv'
  BY <1>1, <1>4 DEF Sends, store, audit
<1>5. ASSUME NEW t \in Tabs, NEW pw \in Password, SubmitLogin(t, pw) PROVE AInv'
  BY <1>1, <1>2, <1>5 DEF SubmitLogin, store, audit
<1>6. ASSUME NEW t \in Tabs, SubmitPassword(t) PROVE AInv'
  BY <1>2, <1>4, <1>6 DEF SubmitPassword
<1>7. ASSUME NEW t \in Tabs, NEW kind \in {"deploy", "logtoken"}, ClickConsole(t, kind) PROVE AInv'
  BY <1>2, <1>3, <1>4, <1>7 DEF ClickConsole
<1>8. ASSUME NEW t \in Tabs,
             SubmitToken(t) \/ ClickRevoke(t) \/ SubmitWebhook(t) \/ ClickUnhook(t)
      PROVE  AInv'
  BY <1>2, <1>3, <1>4, <1>8 DEF SubmitToken, ClickRevoke, SubmitWebhook, ClickUnhook
<1> QED BY <1>5, <1>6, <1>7, <1>8

LEMMA AccessAnswers ==
    ASSUME AInv, NEW r \in wire,
           \/ LoginLimited(r) \/ LoginReads(r) \/ LoginDenied(r)
           \/ MeAnswered(r) \/ Lost(r) \/ PasswordReads(r)
    PROVE  AInv'
<1>1. r \in RequestType /\ (r.kind = "password" => r.new \in Password) /\ r.tab \in Tabs
  BY DEF AInv, Pages, RequestType
<1>2. /\ UNCHANGED <<account, token, hooks, trail, lastRow, expiry, jar, reader>>
      /\ Quiet \/ Click
  BY DEF LoginLimited, LoginReads, LoginDenied, MeAnswered, Lost,
         PasswordReads, store, audit
<1>3. Clock' /\ now' = now
  BY <1>2, ClockStays DEF AInv
<1>4. bucket' \in [{"ip", "user"} -> [count : Nat, resetAt : Time]]
  <2>1. ASSUME NEW k \in {"ip", "user"} PROVE Counted(k) \in [count : Nat, resetAt : Time]
    <3>1. bucket[k] \in [count : Nat, resetAt : Time]
      BY DEF AInv, Accounts
    <3>2. now + Window \in Time
      BY AccessNumbers DEF AInv, Clock
    <3>3. [bucket[k] EXCEPT !.count = @ + 1] \in [count : Nat, resetAt : Time]
      BY <3>1
    <3> QED BY <3>2, <3>3 DEF Counted
  <2>2. bucket \in [{"ip", "user"} -> [count : Nat, resetAt : Time]]
    BY DEF AInv, Accounts
  <2>3. CASE bucket' = bucket
    BY <2>2, <2>3
  <2>4. CASE bucket' = [bucket EXCEPT !["ip"] = Counted("ip")]
    <3>1. Counted("ip") \in [count : Nat, resetAt : Time]
      BY <2>1
    <3> QED BY <2>2, <2>4, <3>1
  <2>5. CASE bucket' = [k \in {"ip", "user"} |-> Counted(k)]
    BY <2>1, <2>5
  <2> QED BY <2>3, <2>4, <2>5 DEF LoginLimited, LoginReads, LoginDenied, MeAnswered,
                                  Lost, PasswordReads, store
<1>5. /\ wire' \subseteq RequestType
      /\ \A q \in wire' : q.kind = "password" => q.new \in Password
  <2>1. wire \subseteq RequestType /\ \A q \in wire : q.kind = "password" => q.new \in Password
    BY DEF AInv, Pages
  <2>2. CASE wire' = wire \ {r}
    BY <2>1, <2>2
  <2>3. CASE wire' = (wire \ {r}) \cup {[r EXCEPT !.read = Stored]}
    <3> DEFINE q == [r EXCEPT !.read = Stored]
    <3>1. Stored \in Password
      BY DEF Stored, AInv, Accounts
    <3>2. q \in RequestType /\ q.kind = r.kind /\ q.new = r.new
      BY <1>1, <3>1 DEF RequestType
    <3> HIDE DEF q
    <3>3. wire' = (wire \ {r}) \cup {q}
      BY <2>3 DEF q
    <3> QED BY <1>1, <2>1, <3>2, <3>3
  <2> QED BY <2>2, <2>3 DEF LoginLimited, LoginReads, LoginDenied, MeAnswered,
                            Lost, PasswordReads
<1>6. Pages' /\ PagesFresh'
  <2> DEFINE Tab == [view : {"boot", "login", "change", "main"}, csrf : Cookie]
  <2>1. /\ tab \in [Tabs -> Tab] /\ lapsed \in [Tabs -> BOOLEAN]
        /\ expiry \in [Session -> Time] /\ jar \in Cookie
    BY DEF AInv, Pages
  <2>2. CASE tab' = tab /\ lapsed' = lapsed
    <3>1. Pages'
      BY <1>2, <1>5, <2>1, <2>2 DEF Pages
    <3> QED BY <1>2, <2>2, <3>1 DEF AInv, PagesFresh
  <2>3. CASE MeAnswered(r)
    <3> DEFINE seen == IF ~Verifies(r.cookie) THEN [view |-> "login", csrf |-> 0] ELSE MeReply(r)
    <3>1. seen \in Tab /\ (seen.view \in {"change", "main"} => seen.csrf = r.cookie)
      <4>1. r.cookie \in Cookie /\ 0 \in Cookie
        BY <1>1 DEF RequestType, Cookie
      <4> QED BY <4>1 DEF MeReply
    <3> HIDE DEF seen, Tab
    <3>2. tab' = [tab EXCEPT ![r.tab] = seen] /\ lapsed' = [lapsed EXCEPT ![r.tab] = r.cookie # jar]
      BY <2>3 DEF MeAnswered, seen
    <3>3. tab' \in [Tabs -> Tab] /\ lapsed' \in [Tabs -> BOOLEAN]
      BY <1>1, <2>1, <3>1, <3>2
    <3>4. Pages'
      BY <1>2, <1>5, <2>1, <3>3 DEF Pages, Tab
    <3>5. PagesFresh'
      <4> SUFFICES ASSUME NEW t \in Tabs, tab'[t].view \in {"change", "main"}, ~lapsed'[t], jar' # 0
                   PROVE  tab'[t].csrf = jar'
        BY DEF PagesFresh
      <4>1. CASE t = r.tab
        BY <1>1, <1>2, <2>1, <3>1, <3>2, <4>1
      <4>2. CASE t # r.tab
        BY <1>1, <1>2, <2>1, <3>2, <4>2 DEF AInv, PagesFresh
      <4> QED BY <4>1, <4>2
    <3> QED BY <3>4, <3>5
  <2>4. CASE Lost(r)
    <3> DEFINE v == IF tab[r.tab].view = "boot" THEN "login" ELSE tab[r.tab].view
    <3>1. tab' = [tab EXCEPT ![r.tab].view = v] /\ lapsed' = lapsed
      BY <2>4 DEF Lost, Unheard
    <3>2. v \in {"boot", "login", "change", "main"}
      BY <1>1, <2>1
    <3>3. tab' \in [Tabs -> Tab]
      BY <1>1, <2>1, <3>1, <3>2
    <3>4. Pages'
      BY <1>2, <1>5, <2>1, <3>1, <3>3 DEF Pages
    <3>5. PagesFresh'
      <4> SUFFICES ASSUME NEW t \in Tabs, tab'[t].view \in {"change", "main"}, ~lapsed'[t], jar' # 0
                   PROVE  tab'[t].csrf = jar'
        BY DEF PagesFresh
      <4>1. tab'[t].csrf = tab[t].csrf
        BY <1>1, <2>1, <3>1
      <4>2. tab[t].view \in {"change", "main"}
        BY <1>1, <2>1, <3>1
      <4> QED BY <1>2, <3>1, <4>1, <4>2 DEF AInv, PagesFresh
    <3> QED BY <3>4, <3>5
  <2> QED BY <2>2, <2>3, <2>4 DEF LoginLimited, LoginReads, LoginDenied, PasswordReads
<1> QED BY <1>2, <1>3, <1>4, <1>6, BrowserKeeps

LEMMA AccessSessions ==
    ASSUME AInv,
           \/ \E r \in wire : LoginSucceeds(r)
           \/ \E t \in Tabs : ReloadTab(t)
           \/ CookieExpires
    PROVE  AInv'
<1>1. /\ UNCHANGED <<account, token, bucket, hooks, trail, lastRow, reader>>
      /\ Quiet \/ Click
  BY DEF LoginSucceeds, ReloadTab, CookieExpires, store, audit
<1>2. Clock' /\ now' = now
  BY <1>1, ClockStays DEF AInv
<1>3. /\ tab \in [Tabs -> [view : {"boot", "login", "change", "main"}, csrf : Cookie]]
      /\ lapsed \in [Tabs -> BOOLEAN] /\ expiry \in [Session -> Time] /\ jar \in Cookie
      /\ wire \subseteq RequestType /\ \A q \in wire : q.kind = "password" => q.new \in Password
  BY DEF AInv, Pages
<1>4. ASSUME NEW r \in wire, LoginSucceeds(r) PROVE Pages' /\ PagesFresh'
  <2>1. PICK s \in Session : /\ expiry' = Signed(s) /\ jar' = s
                             /\ wire' \subseteq wire \cup {Me(r.tab, s)}
    BY <1>4 DEF LoginSucceeds, Asks
  <2>2. r.tab \in Tabs /\ s \in Cookie
    BY <1>3 DEF RequestType, Cookie
  <2>3. Me(r.tab, s) \in RequestType /\ Me(r.tab, s).kind # "password"
    BY <2>2, MeTyped
  <2>4. now + Ttl \in Time
    BY AccessNumbers DEF AInv, Clock
  <2>5. expiry' \in [Session -> Time]
    BY <1>3, <2>1, <2>4 DEF Signed
  <2>6. tab' = tab /\ lapsed' = [t \in Tabs |-> TRUE]
    BY <1>4 DEF LoginSucceeds
  <2>7. Pages'
    BY <1>3, <2>1, <2>2, <2>3, <2>5, <2>6 DEF Pages
  <2> QED BY <2>6, <2>7 DEF PagesFresh
<1>5. ASSUME NEW t \in Tabs, ReloadTab(t) PROVE Pages' /\ PagesFresh'
  <2> DEFINE old(r) == IF r.tab = t THEN [r EXCEPT !.live = FALSE] ELSE r
  <2>1. ASSUME NEW r \in wire
        PROVE  old(r) \in RequestType /\ old(r).kind = r.kind /\ old(r).new = r.new
    <3>1. r \in RequestType
      BY <1>3
    <3>2. [r EXCEPT !.live = FALSE] \in RequestType
      BY <3>1 DEF RequestType
    <3> QED BY <3>1, <3>2 DEF RequestType
  <2>2. Me(t, jar) \in RequestType /\ Me(t, jar).kind # "password"
    BY <1>3, MeTyped
  <2> HIDE DEF old
  <2>3. /\ UNCHANGED <<expiry, jar, lapsed>> /\ tab' = [tab EXCEPT ![t] = Booting]
        /\ \A q \in wire' : q = Me(t, jar) \/ \E r \in wire : q = old(r)
    BY <1>5 DEF ReloadTab, Asks, old
  <2>4. wire' \subseteq RequestType /\ \A q \in wire' : q.kind = "password" => q.new \in Password
    BY <1>3, <2>1, <2>2, <2>3
  <2>5. tab' \in [Tabs -> [view : {"boot", "login", "change", "main"}, csrf : Cookie]]
    <3>1. Booting \in [view : {"boot", "login", "change", "main"}, csrf : Cookie]
      BY DEF Booting, Cookie
    <3> QED BY <1>3, <2>3, <3>1
  <2>6. Pages'
    BY <1>3, <2>3, <2>4, <2>5 DEF Pages
  <2>7. PagesFresh'
    <3> SUFFICES ASSUME NEW u \in Tabs, tab'[u].view \in {"change", "main"}, ~lapsed'[u], jar' # 0
                 PROVE  tab'[u].csrf = jar'
      BY DEF PagesFresh
    <3>1. u # t
      BY <1>3, <2>3 DEF Booting
    <3> QED BY <1>3, <2>3, <3>1 DEF AInv, PagesFresh
  <2> QED BY <2>6, <2>7
<1>6. ASSUME CookieExpires PROVE Pages' /\ PagesFresh'
  <2>1. jar' = 0 /\ UNCHANGED <<expiry, tab, wire, lapsed>>
    BY <1>6 DEF CookieExpires
  <2>2. Pages'
    BY <2>1 DEF AInv, Pages, Cookie
  <2> QED BY <2>1, <2>2 DEF PagesFresh
<1>7. Pages' /\ PagesFresh'
  BY <1>4, <1>5, <1>6
<1> QED BY <1>1, <1>2, <1>7, BrowserKeeps DEF AInv, Accounts

\* Time passes, and the server restarts.
LEMMA AccessRest ==
    ASSUME AInv, Tick \/ Restart PROVE AInv'
<1>1. CASE Tick
  <2>1. UNCHANGED <<account, token, bucket, hooks, trail, lastRow, expiry, jar, tab, wire, lapsed, reader>>
    BY <1>1 DEF Tick, store, audit, browser
  <2>2. Clock'
    BY <1>1, AccessNumbers DEF Tick, Event, AInv, Clock
  <2>3. Pages' /\ PagesFresh'
    BY <2>1, PagesStay DEF AInv
  <2> QED BY <2>1, <2>2, <2>3, BrowserKeeps DEF AInv, Accounts
<1>2. CASE Restart
  <2>1. /\ UNCHANGED <<account, token, trail, lastRow, expiry, jar, lapsed>> /\ wire' = {}
        /\ reader' = [reader EXCEPT !.loading = FALSE]
        /\ hooks' = [ok |-> 0, fail |-> 0] /\ bucket' = [k \in {"ip", "user"} |-> NoBucket]
    BY <1>2 DEF Restart
  <2>2. Clock'
    BY <1>2, ClockStays DEF Restart, AInv
  <2>3. Accounts'
    <3>1. NoBucket \in [count : Nat, resetAt : Time]
      BY AccessNumbers DEF NoBucket
    <3> QED BY <2>1, <3>1 DEF AInv, Accounts
  <2>4. Trail'
    <3>1. hooks' \in [ok : Nat, fail : Nat]
      BY <2>1
    <3> QED BY <2>1, <3>1 DEF AInv, Trail, Distinct
  <2>5. \A t \in Tabs : /\ tab'[t] \in [view : {"boot", "login", "change", "main"}, csrf : Cookie]
                        /\ tab'[t].csrf = tab[t].csrf
                        /\ tab'[t].view \in {"change", "main"} => tab'[t].view = tab[t].view
    <3> SUFFICES ASSUME NEW t \in Tabs
                 PROVE  /\ tab'[t] \in [view : {"boot", "login", "change", "main"}, csrf : Cookie]
                        /\ tab'[t].csrf = tab[t].csrf
                        /\ tab'[t].view \in {"change", "main"} => tab'[t].view = tab[t].view
      OBVIOUS
    <3>1. tab[t] \in [view : {"boot", "login", "change", "main"}, csrf : Cookie]
      BY DEF AInv, Pages
    <3>2. tab'[t] = [tab[t] EXCEPT !.view = IF tab[t].view = "boot" THEN "login" ELSE tab[t].view]
      BY <1>2 DEF Restart
    <3> QED BY <3>1, <3>2
  <2>6. Pages'
    <3>1. tab' = [t \in Tabs |-> tab'[t]]
      BY <1>2 DEF Restart
    <3>2. tab' \in [Tabs -> [view : {"boot", "login", "change", "main"}, csrf : Cookie]]
      BY <2>5, <3>1
    <3> QED BY <2>1, <3>2 DEF AInv, Pages
  <2>7. PagesFresh'
    BY <2>1, <2>5 DEF AInv, PagesFresh
  <2>8. Listing'
    <3>1. Listing /\ reader \in ReaderType
      BY DEF AInv, Listing
    <3>2. /\ reader' \in ReaderType /\ reader'.loading = FALSE /\ reader'.cursor = reader.cursor
          /\ reader'.items = reader.items /\ reader'.base = reader.base /\ reader'.query = reader.query
      BY <2>1, <3>1 DEF ReaderType
    <3>3. Begun' = Begun /\ Matches(reader.query)' = Matches(reader.query)
      BY <2>1, <3>2 DEF Begun, Matches
    <3> QED BY <2>1, <3>1, <3>2, <3>3 DEF Listing
  <2> QED BY <2>2, <2>3, <2>4, <2>6, <2>7, <2>8 DEF AInv
<1> QED BY <1>1, <1>2

ListingRest == UNCHANGED <<account, token, bucket, hooks, trail, lastRow, expiry, jar, tab, wire, lapsed>>

LEMMA ReaderKeeps == ASSUME AInv, ListingRest, Clock', Listing' PROVE AInv'
<1>1. Accounts' /\ Trail'
  BY DEF AInv, Accounts, Trail, Distinct, ListingRest
<1>2. Pages' /\ PagesFresh'
  BY PagesStay DEF AInv, ListingRest
<1> QED BY <1>1, <1>2 DEF AInv

\* The modal: opened, closed, asked, and a page that fails.
LEMMA AccessReader ==
    ASSUME AInv,
           \/ OpenReader \/ LoadMore \/ PageFails \/ CloseReader
           \/ \E qs \in Filters : ApplyFilters(qs)
    PROVE  AInv'
<1>1. ListingRest /\ (Quiet \/ Click)
  BY DEF OpenReader, LoadMore, PageFails, CloseReader, ApplyFilters, ListingRest,
         store, audit, browser
<1>2. Clock'
  BY <1>1, ClockStays DEF AInv
<1>3. <<>> \in Seq(AuditRow) /\ Len(<<>>) = 0
  BY EmptySeq
<1>4. ASSUME \/ reader' = Closed
             \/ reader' = [Closed EXCEPT !.open = TRUE, !.loading = TRUE]
      PROVE  Listing'
  <2> DEFINE blank(b) == [open |-> b, loading |-> b, applied |-> "any", items |-> <<>>,
                          cursor |-> <<>>, ask |-> "first", query |-> "any", base |-> {}]
  <2>1. \E b \in BOOLEAN : reader' = blank(b)
    BY <1>4 DEF Closed
  <2>2. \A b \in BOOLEAN : /\ blank(b) \in ReaderType
                           /\ blank(b).items = <<>> /\ blank(b).cursor = <<>>
                           /\ blank(b).base = {} /\ blank(b).ask = "first"
    BY <1>3 DEF ReaderType, Filters
  <2> HIDE DEF blank
  <2>3. /\ reader' \in ReaderType /\ reader'.items = <<>> /\ reader'.cursor = <<>>
        /\ reader'.base = {} /\ reader'.ask = "first"
    BY <2>1, <2>2
  <2> QED BY <1>3, <2>3 DEF Listing, InOrder, Complete, Begun
<1>5. ASSUME OpenReader \/ CloseReader PROVE Listing'
  BY <1>4, <1>5 DEF OpenReader, CloseReader
<1>6. ASSUME reader' \in ReaderType,
             reader'.cursor = reader.cursor, reader'.items = reader.items,
             reader'.base = reader.base, reader'.query = reader.query,
             reader'.loading /\ reader'.ask = "more" => reader.cursor # <<>>
      PROVE  Listing'
  <2>1. Listing
    BY DEF AInv
  <2>2. UNCHANGED <<trail, lastRow>>
    BY <1>1 DEF ListingRest
  <2>3. Begun' = Begun /\ Matches(reader.query)' = Matches(reader.query)
    BY <1>6, <2>2 DEF Begun, Matches
  <2> QED BY <1>6, <2>1, <2>2, <2>3 DEF Listing
<1>7. reader \in ReaderType
  BY DEF AInv, Listing
<1>8. ASSUME LoadMore PROVE Listing'
  <2>1. reader' = [reader EXCEPT !.loading = TRUE, !.ask = "more"] /\ reader.cursor # <<>>
    BY <1>8 DEF LoadMore
  <2>2. reader' \in ReaderType
    BY <1>7, <2>1 DEF ReaderType
  <2>3. /\ reader'.cursor = reader.cursor /\ reader'.items = reader.items
        /\ reader'.base = reader.base /\ reader'.query = reader.query
    BY <1>7, <2>1 DEF ReaderType
  <2> QED BY <1>6, <2>1, <2>2, <2>3
<1>9. ASSUME PageFails PROVE Listing'
  <2>1. reader' = [reader EXCEPT !.loading = FALSE]
    BY <1>9 DEF PageFails
  <2>2. reader' \in ReaderType
    BY <1>7, <2>1 DEF ReaderType
  <2>3. /\ reader'.cursor = reader.cursor /\ reader'.items = reader.items /\ reader'.loading = FALSE
        /\ reader'.base = reader.base /\ reader'.query = reader.query
    BY <1>7, <2>1 DEF ReaderType
  <2> QED BY <1>6, <2>2, <2>3
<1>10. ASSUME NEW qs \in Filters, ApplyFilters(qs) PROVE Listing'
  <2>1. reader' = [reader EXCEPT !.applied = qs, !.loading = TRUE, !.ask = "first"]
    BY <1>10 DEF ApplyFilters
  <2>2. reader' \in ReaderType
    BY <1>7, <2>1 DEF ReaderType
  <2>3. /\ reader'.cursor = reader.cursor /\ reader'.items = reader.items /\ reader'.ask = "first"
        /\ reader'.base = reader.base /\ reader'.query = reader.query
    BY <1>7, <2>1 DEF ReaderType
  <2> QED BY <1>6, <2>2, <2>3
<1>11. Listing'
  BY <1>5, <1>8, <1>9, <1>10
<1> QED BY <1>1, <1>2, <1>11, ReaderKeeps

\* A page arrives: it is joined to the list where the list ended.
LEMMA AccessPage == ASSUME AInv, PageArrives PROVE AInv'
<1> DEFINE first == reader.ask = "first"
           from == IF first THEN <<>> ELSE reader.cursor
           left == Older(Matches(reader.applied), from)
           got == Newest(left, Page)
           N == Cardinality(left)
           size == IF N < Page THEN N ELSE Page
           items == IF first THEN got ELSE reader.items \o got
           cursor == IF N > Page THEN <<got[Len(got)]>> ELSE <<>>
           query == IF first \/ reader.query = reader.applied THEN reader.applied ELSE "mixed"
           base == IF first THEN {r.id : r \in Matches(reader.applied)} ELSE reader.base
<1> HIDE DEF from, left, got, N, size, items, cursor, query, base
<1>1. ListingRest /\ Quiet /\ reader.loading
  BY DEF PageArrives, ListingRest, store, audit, browser
<1>2. Clock'
  BY <1>1, ClockStays DEF AInv
<1>3. reader' = [reader EXCEPT !.loading = FALSE, !.items = items, !.cursor = cursor,
                               !.query = query, !.base = base]
  <2>1. Cardinality(left) = N
    BY DEF N
  <2>2. Answer(reader.applied, from) = [items |-> got, more |-> N > Page]
    BY <2>1 DEF Answer, left, got
  <2>3. Answer(reader.applied, IF first THEN <<>> ELSE reader.cursor) = [items |-> got, more |-> N > Page]
    BY <2>2 DEF from
  <2>4. reader \in ReaderType
    BY DEF AInv, Listing
  <2> DEFINE res == Answer(reader.applied, IF first THEN <<>> ELSE reader.cursor)
             asked == [reader EXCEPT
               !.loading = FALSE,
               !.items = IF first THEN res.items ELSE @ \o res.items,
               !.cursor = IF res.more THEN <<res.items[Len(res.items)]>> ELSE <<>>,
               !.query = IF first THEN reader.applied
                         ELSE IF @ = reader.applied THEN @ ELSE "mixed",
               !.base = IF first THEN {r.id : r \in Matches(reader.applied)} ELSE @]
  <2>5. reader' = asked
    BY DEF PageArrives
  <2>6. res.items = got /\ res.more = (N > Page)
    BY <2>3
  <2> HIDE DEF res
  <2>7. /\ asked = [reader EXCEPT
                     !.loading = FALSE,
                     !.items = IF first THEN got ELSE reader.items \o got,
                     !.cursor = IF N > Page THEN <<got[Len(got)]>> ELSE <<>>,
                     !.query = IF first THEN reader.applied
                               ELSE IF reader.query = reader.applied THEN reader.query ELSE "mixed",
                     !.base = IF first THEN {r.id : r \in Matches(reader.applied)} ELSE reader.base]
    BY <2>4, <2>6 DEF ReaderType
  <2>8. query = IF first THEN reader.applied
                ELSE IF reader.query = reader.applied THEN reader.query ELSE "mixed"
    BY DEF query
  <2> QED BY <2>5, <2>7, <2>8 DEF items, cursor, base
<1>4. /\ reader \in ReaderType /\ Page \in Nat \ {0}
      /\ trail \in SUBSET AuditRow /\ IsFiniteSet(trail) /\ Distinct(trail)
  BY AccessNumbers DEF AInv, Listing, Trail
<1>5. /\ left \in SUBSET AuditRow /\ IsFiniteSet(left) /\ Distinct(left)
      /\ left \subseteq Matches(reader.applied)
  <2>1. left \subseteq Matches(reader.applied) /\ Matches(reader.applied) \subseteq trail
    BY DEF left, Older, Matches
  <2>2. IsFiniteSet(left)
    BY <1>4, <2>1, FS_Subset
  <2> QED BY <1>4, <2>1, <2>2 DEF Distinct
<1>6. /\ N \in Nat /\ size \in Nat /\ got \in [1 .. size -> left]
      /\ \A i, j \in 1 .. size : i < j => Newer(got[i], got[j])
      /\ N <= Page => \A r \in left : \E i \in 1 .. size : got[i] = r
      /\ N > Page => \A r \in left : ~Newer(got[Page], r) => \E i \in 1 .. size : got[i] = r
  BY <1>4, <1>5, PageListing, FS_CardinalityType DEF got, size, N
<1>7. got \in Seq(left) /\ got \in Seq(AuditRow) /\ Len(got) = size /\ DOMAIN got = 1 .. size
  <2>1. got \in [1 .. size -> AuditRow]
    BY <1>5, <1>6
  <2> QED BY <1>6, <2>1, FunctionIsSeq
<1>8. N > Page => size = Page /\ size > 0 /\ got[Page] \in left
  BY <1>4, <1>6 DEF size
<1>9. items \in Seq(AuditRow)
  <2>1. reader.items \in Seq(AuditRow)
    BY <1>4 DEF ReaderType
  <2> QED BY <1>7, <2>1, ConcatProperties DEF items
<1>10. cursor = <<>> \/ (items # <<>> /\ cursor = <<items[Len(items)]>>)
  <2>1. CASE N > Page
    <3>1. Len(got) \in 1 .. Len(got)
      BY <1>6, <1>7, <1>8, <2>1
    <3>2. items # <<>> /\ items[Len(items)] = got[Len(got)]
      <4>1. CASE first
        BY <1>7, <1>8, <2>1, <4>1, EmptySeq DEF items
      <4>2. CASE ~first
        <5>1. reader.items \in Seq(AuditRow)
          BY <1>4 DEF ReaderType
        <5>2. items = reader.items \o got
          BY <4>2 DEF items
        <5>3. /\ Len(items) = Len(reader.items) + Len(got)
              /\ \A i \in 1 .. Len(got) : items[Len(reader.items) + i] = got[i]
          <6>1. got \in Seq(AuditRow)
            BY <1>7
          <6>2. /\ Len(reader.items \o got) = Len(reader.items) + Len(got)
                /\ \A i \in 1 .. Len(got) : (reader.items \o got)[Len(reader.items) + i] = got[i]
            BY <5>1, <6>1, Joined
          <6> QED BY <5>2, <6>2
        <5>4. Len(items) # 0 /\ items # <<>>
          <6>1. Len(reader.items) \in Nat /\ Len(got) \in Nat /\ Len(got) > 0
            BY <1>6, <1>7, <1>8, <2>1, <5>1, LenProperties
          <6>2. Len(items) # 0
            BY <5>3, <6>1
          <6> QED BY <6>2, EmptySeq
        <5> QED BY <3>1, <5>3, <5>4
      <4> QED BY <4>1, <4>2
    <3> QED BY <2>1, <3>2 DEF cursor
  <2>2. CASE ~(N > Page)
    BY <2>2 DEF cursor
  <2> QED BY <2>1, <2>2
<1>11. reader' \in ReaderType
  <2>1. cursor \in Seq(AuditRow)
    <3>1. CASE cursor = <<>>
      BY <3>1, EmptySeq
    <3>2. CASE items # <<>> /\ cursor = <<items[Len(items)]>>
      <4>1. items[Len(items)] \in AuditRow
        BY <1>9, <3>2, EmptySeq, ElementOfSeq, LenProperties
      <4> QED BY <3>2, <4>1
    <3> QED BY <1>10, <3>1, <3>2
  <2>2. base \in SUBSET Nat
    <3>1. \A r \in Matches(reader.applied) : r.id \in Nat
      BY <1>4 DEF Matches, AuditRow
    <3> QED BY <1>4, <3>1 DEF base, ReaderType
  <2>3. query \in Filters \cup {"mixed"}
    BY <1>4 DEF query, ReaderType
  <2> QED BY <1>3, <1>4, <1>9, <2>1, <2>2, <2>3 DEF ReaderType
<1>12. /\ reader'.loading = FALSE /\ reader'.items = items /\ reader'.cursor = cursor
       /\ reader'.query = query /\ reader'.base = base
  BY <1>3, <1>4 DEF ReaderType
<1>13. UNCHANGED <<trail, lastRow>>
  BY <1>1 DEF ListingRest
<1>14. \A n \in base : n <= lastRow
  <2>1. \A r \in trail : r.id <= lastRow
    BY DEF AInv, Trail
  <2> QED BY <2>1 DEF base, AInv, Listing, Matches
<1>15. ASSUME query # "mixed"
       PROVE  /\ InOrder(items)
              /\ {r \in trail : r.id \in base} \subseteq Matches(query)
              /\ Complete(items, cursor, {r \in trail : r.id \in base})
  <2> DEFINE B == {r \in trail : r.id \in base}
  <2> HIDE DEF B
  <2>1. query = reader.applied /\ (~first => reader.query = reader.applied)
    BY <1>15 DEF query
  <2>2. ~first => /\ B = Begun /\ reader.query # "mixed" /\ reader.cursor # <<>>
                  /\ from = reader.cursor
    <3>1. "mixed" \notin Filters
      BY DEF Filters
    <3> QED BY <1>1, <1>4, <2>1, <3>1 DEF B, base, Begun, AInv, Listing, ReaderType, from
  <2>3. B \subseteq Matches(query)
    <3>1. CASE first
      BY <1>4, <2>1, <3>1 DEF B, base, Distinct, Matches
    <3>2. CASE ~first
      BY <2>1, <2>2, <3>2 DEF AInv, Listing
    <3> QED BY <3>1, <3>2
  <2>4. ASSUME NEW r \in B, r \in left, cursor = <<>> \/ ~Newer(items[Len(items)], r),
               N > Page => items[Len(items)] = got[Page]
        PROVE  \E i \in 1 .. size : got[i] = r
    <3>1. CASE N > Page
      <4>1. cursor # <<>>
        BY <3>1 DEF cursor
      <4> QED BY <1>6, <2>4, <3>1, <4>1
    <3>2. CASE ~(N > Page)
      BY <1>4, <1>6, <2>4, <3>2
    <3> QED BY <3>1, <3>2
  <2>5. CASE first
    <3>1. items = got /\ from = <<>>
      BY <2>5 DEF items, from
    <3>2. InOrder(items)
      BY <1>6, <1>7, <3>1 DEF InOrder
    <3>3. left = Matches(reader.applied)
      BY <3>1 DEF left, Older
    <3>4. Complete(items, cursor, B)
      BY <1>7, <1>8, <2>1, <2>3, <2>4, <3>1, <3>3 DEF Complete
    <3> QED BY <2>3, <3>2, <3>4 DEF B
  <2>6. CASE ~first
    <3> DEFINE old == reader.items
               last == old[Len(old)]
               L == Len(old)
    <3>1. /\ old \in Seq(AuditRow) /\ old # <<>> /\ reader.cursor = <<last>>
          /\ InOrder(old) /\ Complete(old, reader.cursor, B)
      BY <1>4, <2>2, <2>6 DEF AInv, Listing, ReaderType
    <3> HIDE DEF old, last, L
    <3>2. L \in Nat \ {0} /\ Len(old) = L /\ last = old[L] /\ \A i \in 1 .. L : old[i] \in AuditRow
      BY <3>1, EmptySeq, ElementOfSeq, LenProperties DEF L, last
    <3>3. items = old \o got
      BY <2>6 DEF items, old
    <3>4. /\ Len(items) = L + size
          /\ \A i \in 1 .. L : items[i] = old[i]
          /\ \A i \in 1 .. size : items[L + i] = got[i]
      <4>1. /\ Len(items) = Len(old) + Len(got)
            /\ \A i \in 1 .. Len(old) : items[i] = old[i]
            /\ \A i \in 1 .. Len(got) : items[Len(old) + i] = got[i]
        <5>1. old \in Seq(AuditRow) /\ got \in Seq(AuditRow)
          BY <1>7, <3>1
        <5>2. /\ Len(old \o got) = Len(old) + Len(got)
              /\ \A i \in 1 .. Len(old) : (old \o got)[i] = old[i]
              /\ \A i \in 1 .. Len(got) : (old \o got)[Len(old) + i] = got[i]
          BY <5>1, Joined
        <5> QED BY <3>3, <5>2
      <4> QED BY <1>7, <3>2, <4>1
    <3>5. left = {r \in Matches(reader.applied) : Newer(last, r)}
      <4>1. from = <<last>>
        BY <2>2, <2>6, <3>1
      <4> QED BY <4>1 DEF left, Older
    <3>6. InOrder(items)
      <4> SUFFICES ASSUME NEW i \in 1 .. Len(items), NEW j \in 1 .. Len(items), i < j
                   PROVE  Newer(items[i], items[j])
        BY DEF InOrder
      <4>1. CASE j <= L
        <5>1. i \in 1 .. L /\ j \in 1 .. L
          BY <1>6, <3>2, <3>4, <4>1
        <5> QED BY <3>1, <3>2, <3>4, <5>1 DEF InOrder
      <4>2. CASE i > L
        <5>1. i - L \in 1 .. size /\ j - L \in 1 .. size /\ i - L < j - L
              /\ i = L + (i - L) /\ j = L + (j - L)
          BY <1>6, <3>2, <3>4, <4>2
        <5>2. items[i] = got[i - L] /\ items[j] = got[j - L]
          BY <3>4, <5>1
        <5> QED BY <1>6, <5>1, <5>2
      <4>3. CASE i <= L /\ j > L
        <5>1. i \in 1 .. L /\ j - L \in 1 .. size /\ j = L + (j - L)
          BY <1>6, <3>2, <3>4, <4>3
        <5>2. items[i] = old[i] /\ items[j] = got[j - L]
          BY <3>4, <5>1
        <5>3. got[j - L] \in left /\ got[j - L] \in AuditRow /\ Newer(last, got[j - L])
          BY <1>5, <1>6, <3>5, <5>1
        <5>4. i = L \/ Newer(old[i], last)
          <6>1. L \in 1 .. Len(old) /\ i \in 1 .. Len(old) /\ (i = L \/ i < L)
            BY <3>2, <5>1
          <6> QED BY <3>1, <3>2, <6>1 DEF InOrder
        <5>5. old[i] \in AuditRow /\ last \in AuditRow
          BY <3>2, <5>1
        <5> QED BY <3>2, <5>2, <5>3, <5>4, <5>5, NewerOrders
      <4> QED BY <1>6, <3>2, <3>4, <4>1, <4>2, <4>3
    <3>7. Complete(items, cursor, B)
      <4> SUFFICES ASSUME NEW r \in B, cursor = <<>> \/ ~Newer(items[Len(items)], r)
                   PROVE  \E i \in 1 .. Len(items) : items[i] = r
        BY DEF Complete
      <4>1. CASE Newer(last, r)
        <5>1. r \in left
          BY <2>1, <2>3, <3>5, <4>1
        <5>2. N > Page => items[Len(items)] = got[Page]
          <6>1. N > Page => size = Page /\ size \in 1 .. size
            BY <1>4, <1>8
          <6> QED BY <3>4, <6>1
        <5>3. PICK i \in 1 .. size : got[i] = r
          BY <2>4, <5>1, <5>2
        <5>4. L + i \in 1 .. Len(items)
          <6>1. L \in Nat /\ size \in Nat /\ Len(items) = L + size
            BY <1>6, <3>2, <3>4
          <6> HIDE DEF L, size
          <6> QED BY <6>1
        <5>5. items[L + i] = r
          BY <3>4, <5>3
        <5> QED BY <5>4, <5>5
      <4>2. CASE ~Newer(last, r)
        <5>1. PICK i \in 1 .. L : old[i] = r
          BY <3>1, <3>2, <4>2 DEF Complete
        <5>2. i \in 1 .. Len(items) /\ items[i] = r
          BY <1>6, <3>2, <3>4, <5>1
        <5> QED BY <5>2
      <4> QED BY <4>1, <4>2
    <3> QED BY <2>3, <3>6, <3>7 DEF B
  <2> QED BY <2>5, <2>6
<1>16. Listing'
  <2> DEFINE B == {r \in trail : r.id \in base}
  <2> HIDE DEF B
  <2>1. Begun' = B
    BY <1>12, <1>13 DEF Begun, B
  <2>2. query # "mixed" => InOrder(items) /\ B \subseteq Matches(query) /\ Complete(items, cursor, B)
    BY <1>15 DEF B
  <2>3. B \subseteq Matches(query) => Begun' \subseteq Matches(reader.query)'
    BY <1>12, <1>13, <2>1 DEF Matches
  <2> QED BY <1>10, <1>11, <1>12, <1>13, <1>14, <2>1, <2>2, <2>3 DEF Listing
<1> QED BY <1>1, <1>2, <1>16, ReaderKeeps

LEMMA AccessStutters == ASSUME AInv, UNCHANGED accessVars PROVE AInv'
<1>1. UNCHANGED <<account, token, bucket, hooks, trail, lastRow, expiry, jar, tab, wire, lapsed, reader,
                  now, events>>
  BY DEF accessVars, store, audit, browser
<1>2. Pages' /\ PagesFresh' /\ Clock'
  BY <1>1, PagesStay DEF AInv, Clock
<1> QED BY <1>1, <1>2, BrowserKeeps DEF AInv, Accounts

\* The parts together are inductive.
LEMMA AccessInvariant == AccessSpec => []AInv
<1>1. AccessInit => AInv
  BY AccessBegins
<1>2. ASSUME AInv, AccessNext PROVE AInv'
  BY <1>2, AccessTrail, AccessHandled, AccessClicks, AccessAnswers, AccessSessions, AccessRest,
     AccessReader, AccessPage DEF AccessNext
<1>3. AInv /\ [AccessNext]_accessVars => AInv'
  BY <1>2, AccessStutters
<1> QED BY <1>1, <1>3, PTL DEF AccessSpec

\* Tokens, sessions, requests and the audit trail keep their types: no row has an id that was not
\* given out, no request a cookie that no session has (auth.ts, machine-token.ts, audit.ts).
THEOREM AccessTypeCorrect == AccessSpec => []AccessTypeOK
<1>1. AInv => AccessTypeOK
  <2> SUFFICES ASSUME AInv PROVE AccessTypeOK
    OBVIOUS
  <2>1. \A k \in Tokens \cup Hooks : token[k].st \in {"unused", "live", "revoked"}
    BY DEF AInv, Accounts, TokenType
  <2>2. Ids \subseteq 1 .. lastRow
    BY DEF AInv, Trail, Ids
  <2>3. \A r \in wire : r.tab \in Tabs /\ r.cookie \in Session \cup {0}
    BY DEF AInv, Pages, RequestType, Cookie
  <2>4. reader.ask \in {"first", "more"}
    BY DEF AInv, Listing, ReaderType
  <2> QED BY <2>1, <2>2, <2>3, <2>4 DEF AInv, Accounts, Trail, Pages, Clock, Cookie, AccessTypeOK
<1> QED BY <1>1, AccessInvariant, PTL

\* A page that shows the console holds the csrf token of the session in the jar, unless another
\* page logged in after it asked, for any number of tabs, logins and restarts (App.tsx, client.ts,
\* auth.ts).
THEOREM FreshPagesMayAct == AccessSpec => []FreshTabsMayAct
<1>1. AInv => FreshTabsMayAct
  BY DEF AInv, PagesFresh, FreshTabsMayAct, Verifies
<1> QED BY <1>1, AccessInvariant, PTL

\* The audit list is in order and skips no row that was there when it was begun, while rows are
\* added, pruned and share a second, for any size of the page and any number of rows
\* (AuditTimeline.tsx, audit.ts).
THEOREM PagingSkipsNothing == AccessSpec => []PagesAreComplete
<1>1. AInv => PagesAreComplete
  <2> SUFFICES ASSUME AInv, reader.query = reader.applied
               PROVE  /\ InOrder(reader.items)
                      /\ \A r \in trail :
                           /\ r.id \in reader.base
                           /\ \A i \in DOMAIN reader.cursor : ~Newer(reader.cursor[i], r)
                           => \E i \in 1 .. Len(reader.items) : reader.items[i].id = r.id
    BY DEF PagesAreComplete, InOrder
  <2>1. reader.query # "mixed"
    BY DEF AInv, Listing, ReaderType, Filters
  <2>2. InOrder(reader.items) /\ Complete(reader.items, reader.cursor, Begun)
    BY <2>1 DEF AInv, Listing
  <2>3. ASSUME NEW r \in trail, r.id \in reader.base,
               \A i \in DOMAIN reader.cursor : ~Newer(reader.cursor[i], r)
        PROVE  \E i \in 1 .. Len(reader.items) : reader.items[i].id = r.id
    <3>1. reader.cursor = <<>> \/ reader.cursor = <<reader.items[Len(reader.items)]>>
      BY DEF AInv, Listing
    <3>2. reader.cursor = <<>> \/ ~Newer(reader.items[Len(reader.items)], r)
      BY <2>3, <3>1
    <3> QED BY <2>2, <2>3, <3>2 DEF Complete, Begun
  <2> QED BY <2>2, <2>3
<1> QED BY <1>1, AccessInvariant, PTL
===============================================================================

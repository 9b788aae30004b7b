--------------------------- MODULE OperatorProofs ---------------------------
(*****************************************************************************)
(* What an operator works with, for any constants: the clusters of the       *)
(* fleet, and the console.                                                   *)
(*****************************************************************************)
EXTENDS Fleet, Console, WellFoundedInduction, TLAPS

ClusterTable == [Cluster -> Row \cup {None}]
ClientPath == Path \cup {"own", None}

-------------------------------------------------------------------------------
(* The operators that actions are built from keep the tables well typed.   *)

\* A listing that is not empty has a first cluster.
LEMMA LeastIsIn == ASSUME NEW S \in SUBSET Cluster, S # {} PROVE Least(S) \in S
<1> DEFINE Less == {p \in Nat \X Nat : p[1] < p[2]}
<1>1. IsWellFoundedOn(Less, Nat)
  BY NatLessThanWellFounded DEF OpToRel
<1>2. S \subseteq Nat
  BY FleetAssumption
<1> HIDE DEF Less
<1>3. PICK c \in S : \A d \in S : ~ (<<d, c>> \in Less)
  BY <1>1, <1>2, WFMin
<1>4. ASSUME NEW d \in S PROVE c <= d
  <2>1. c \in Nat /\ d \in Nat
    BY <1>2
  <2>2. ~ (d < c)
    BY <1>3, <2>1 DEF Less
  <2>3. QED
    BY <2>1, <2>2
<1>5. QED
  BY <1>4 DEF Least

\* Booting adds rows with the path of the configuration and changes none that is there.
LEMMA SeedingAddsOnly ==
    ASSUME NEW table \in ClusterTable
    PROVE  /\ Seeded(table) \in ClusterTable
           /\ \A c \in Cluster :
                \/ Seeded(table)[c] = table[c]
                \/ table[c] = None /\ Seeded(table)[c].path = SeedPath
<1> DEFINE row == [path |-> SeedPath, enabled |-> TRUE]
           first == IF \A c \in Cluster : table[c] = None
                    THEN [table EXCEPT ![Least(Configured)] = row] ELSE table
<1>1. row \in Row
  BY FleetAssumption DEF Row
<1>2. first \in ClusterTable
  BY <1>1 DEF ClusterTable
<1>3. \A c \in Cluster : first[c] = table[c] \/ (table[c] = None /\ first[c] = row)
  BY DEF ClusterTable
<1>4. Seeded(table) = [c \in Cluster |-> IF /\ c \in Configured \ {Least(Configured)}
                                            /\ first[c] = None
                                         THEN row ELSE first[c]]
  BY DEF Seeded
<1> HIDE DEF first
<1>5. Seeded(table) \in ClusterTable
  BY <1>1, <1>2, <1>4 DEF ClusterTable
<1>6. ASSUME NEW c \in Cluster
      PROVE  Seeded(table)[c] = table[c] \/ (table[c] = None /\ Seeded(table)[c] = row)
  BY <1>3, <1>4
<1>7. QED
  BY <1>5, <1>6

LEMMA ClientType == ASSUME TypeOK, NEW c \in Cluster PROVE Client(c) \in ClientPath
BY DEF TypeOK, Client, ClientPath, Row

LEMMA AnswerType ==
    ASSUME TypeOK, NEW c \in Cluster, NEW path \in ClientPath
    PROVE  Answer(c, path) \in Path \cup Machine \cup {Down}
BY DEF TypeOK, Answer, Target, ClientPath

LEMMA NotedType ==
    ASSUME TypeOK, NEW c \in Cluster, NEW path \in ClientPath, NEW who,
           who \in {Answer(c, path), Down}, Noted(c, who)
    PROVE  caps' \in [Cluster -> [of : Path \cup Machine \cup {Down}, stale : BOOLEAN]
                                   \cup {None}]
<1>1. who \in Path \cup Machine \cup {Down}
  BY AnswerType
<1>2. [of |-> who, stale |-> FALSE] \in [of : Path \cup Machine \cup {Down}, stale : BOOLEAN]
  BY <1>1
<1>3. QED
  BY <1>2 DEF TypeOK, Noted

LEMMA RefreshesType ==
    ASSUME TypeOK, NEW c \in Cluster, NEW path \in Path \cup {"own"},
           NEW k \in Machine \cup {None}, Refreshes(c, path, k)
    PROVE  cached' \in [Cluster -> ClientPath] /\ probes' \subseteq Probe
BY DEF TypeOK, Refreshes, Probe, ClientPath

\* The poller names a cluster of the listing while it waits.
PollerType ==
    /\ poller \in [at : {"idle", "health", "probe"}, todo : SUBSET Cluster,
                   cluster : Cluster \cup {None}, path : ClientPath]
    /\ poller.at # "idle" => poller.cluster \in Cluster

LEMMA VisitType ==
    ASSUME TypeOK, NEW todo \in SUBSET Cluster, Visit(todo)
    PROVE  PollerType' /\ cached' \in [Cluster -> ClientPath]
<1>1. CASE todo = {}
  BY <1>1 DEF Visit, Rest, TypeOK, PollerType, ClientPath
<1>2. CASE todo # {}
  <2> DEFINE c == Least(todo)
  <2>1. c \in todo /\ c \in Cluster
    BY <1>2, LeastIsIn
  <2>2. Client(c) \in ClientPath
    BY <2>1, ClientType
  <2>3. cached' = [cached EXCEPT ![c] = Client(c)]
    BY <1>2 DEF Visit
  <2>4. poller' = [at |-> "health", todo |-> todo \ {c}, cluster |-> c, path |-> Client(c)]
    BY <1>2 DEF Visit, Rest
  <2> HIDE DEF c
  <2>5. cached' \in [Cluster -> ClientPath]
    BY <2>2, <2>3 DEF TypeOK, ClientPath
  <2>6. PollerType'
    BY <2>1, <2>2, <2>4 DEF PollerType
  <2>7. QED
    BY <2>5, <2>6
<1>3. QED
  BY <1>1, <1>2

LEMMA DiesType ==
    ASSUME TypeOK, Dies
    PROVE  /\ clusters' \in ClusterTable /\ cached' \in [Cluster -> ClientPath]
           /\ caps' = caps /\ healthy' \subseteq Cluster /\ probes' \subseteq Probe
           /\ PollerType'
<1>1. clusters' \in ClusterTable
  BY SeedingAddsOnly DEF Dies, TypeOK, ClusterTable
<1>2. QED
  BY <1>1 DEF Dies, ClientPath, PollerType, Rest

-------------------------------------------------------------------------------
(* Type correctness.                                                       *)

TypeInv == TypeOK /\ PollerType

\* The parts of TypeOK, for a step that leaves most of them alone.
LEMMA TypeByParts ==
    ASSUME clusters' \in ClusterTable,
           cached' \in [Cluster -> ClientPath],
           caps' \in [Cluster -> [of : Path \cup Machine \cup {Down}, stale : BOOLEAN]
                                   \cup {None}],
           file' \in [Cluster -> Machine \cup {None}],
           token' \in [Token -> TokenRow \cup {None}],
           machine' \in [Machine -> [at : {"new", "posting", "registered", "enrolled",
                                            "failed"}, token : Token \cup {None}]],
           healthy' \subseteq Cluster, probes' \subseteq Probe, PollerType',
           reachable' \subseteq Cluster,
           enrolledWith' \in [Cluster -> Machine \cup {None}],
           changes' \in 0..MaxChanges
    PROVE  TypeInv'
BY DEF TypeInv, TypeOK, PollerType, ClusterTable, ClientPath

LEMMA HangUpType ==
    ASSUME TypeOK, HangUp
    PROVE  machine' \in [Machine -> [at : {"new", "posting", "registered", "enrolled",
                                            "failed"}, token : Token \cup {None}]]
BY DEF TypeOK, HangUp

LEMMA AtType ==
    ASSUME TypeOK, NEW k \in Machine,
           NEW at \in {"new", "posting", "registered", "enrolled", "failed"}, At(k, at)
    PROVE  machine' \in [Machine -> [at : {"new", "posting", "registered", "enrolled",
                                            "failed"}, token : Token \cup {None}]]
BY DEF TypeOK, At

LEMMA ChangingType == ASSUME TypeOK, Changing PROVE changes' \in 0..MaxChanges
BY FleetAssumption DEF TypeOK, Changing

\* Only a token that is there is redeemed.
LEMMA RedeemsType ==
    ASSUME TypeOK, NEW k \in Machine, NEW t \in Token, Redeems(k, t)
    PROVE  token' \in [Token -> TokenRow \cup {None}]
<1>1. token \in [Token -> TokenRow \cup {None}]
  BY DEF TypeOK
<1>2. token[t] \in TokenRow /\ token' = [token EXCEPT ![t].used = TRUE]
  BY <1>1 DEF Redeems, Redeemable
<1>3. [token[t] EXCEPT !.used = TRUE] \in TokenRow
  BY <1>2 DEF TokenRow
<1>4. QED
  BY <1>1, <1>2, <1>3

LEMMA TypeInit == Init => TypeInv
<1> SUFFICES ASSUME Init PROVE TypeInv
  OBVIOUS
<1>1. clusters \in ClusterTable
  <2>1. [c \in Cluster |-> None] \in ClusterTable
    BY DEF ClusterTable
  <2>2. QED
    BY <2>1, SeedingAddsOnly DEF Init
<1>2. Fresh \in TokenRow
  BY DEF Fresh, TokenRow
<1>3. token \in [Token -> TokenRow \cup {None}]
  BY <1>2 DEF Init
<1>4. /\ machine \in [Machine -> [at : {"new", "posting", "registered", "enrolled",
                                      "failed"}, token : Token \cup {None}]]
      /\ changes \in 0..MaxChanges
  BY FleetAssumption DEF Init
<1>5. PollerType
  BY DEF Init, PollerType, Rest, ClientPath
<1>6. QED
  BY <1>1, <1>3, <1>4, <1>5 DEF Init, TypeInv, TypeOK, PollerType, ClusterTable, ClientPath

\* Every step of Fleet keeps the tables, the pool, the probes and the poller well typed.
LEMMA TypeStep == TypeInv /\ [Next]_vars => TypeInv'
<1> SUFFICES ASSUME TypeInv, [Next]_vars PROVE TypeInv'
  OBVIOUS
<1> USE DEF TypeInv
<1>a. /\ clusters \in ClusterTable /\ cached \in [Cluster -> ClientPath]
      /\ caps \in [Cluster -> [of : Path \cup Machine \cup {Down}, stale : BOOLEAN]
                                \cup {None}]
      /\ file \in [Cluster -> Machine \cup {None}]
      /\ token \in [Token -> TokenRow \cup {None}]
      /\ machine \in [Machine -> [at : {"new", "posting", "registered", "enrolled",
                                         "failed"}, token : Token \cup {None}]]
      /\ healthy \subseteq Cluster /\ probes \subseteq Probe
      /\ reachable \subseteq Cluster
      /\ enrolledWith \in [Cluster -> Machine \cup {None}]
      /\ changes \in 0..MaxChanges
  BY DEF TypeOK, ClusterTable, ClientPath
<1>1. ASSUME NEW c \in Cluster, NEW path \in Path, CreateCluster(c, path) PROVE TypeInv'
  <2>1. clusters' \in ClusterTable
    BY <1>1, <1>a DEF CreateCluster, Created, Upserted, ClusterTable, Row
  <2>2. cached' \in [Cluster -> ClientPath] /\ probes' \subseteq Probe
    BY <1>1, RefreshesType DEF CreateCluster
  <2>3. changes' \in 0..MaxChanges
    BY <1>1, ChangingType DEF CreateCluster
  <2>4. QED
    BY <1>1, <1>a, <2>1, <2>2, <2>3, TypeByParts DEF CreateCluster, Invalidated, PollerType
<1>2. ASSUME NEW c \in Cluster, NEW path \in Path \cup {"own"}, NEW enabled \in BOOLEAN,
             PatchCluster(c, path, enabled)
      PROVE  TypeInv'
  <2>1. clusters' \in ClusterTable
    BY <1>2, <1>a DEF PatchCluster, Updated, Upserted, ClusterTable, Row
  <2>2. cached' \in [Cluster -> ClientPath] /\ probes' \subseteq Probe
    BY <1>2, RefreshesType DEF PatchCluster, PatchedClient
  <2>3. changes' \in 0..MaxChanges
    BY <1>2, ChangingType DEF PatchCluster
  <2>4. QED
    BY <1>2, <1>a, <2>1, <2>2, <2>3, TypeByParts DEF PatchCluster, Invalidated, PollerType
<1>3. ASSUME NEW c \in Cluster, DeleteCluster(c) PROVE TypeInv'
  <2>1. clusters' \in ClusterTable /\ cached' \in [Cluster -> ClientPath]
    BY <1>3, <1>a DEF DeleteCluster, Deleted, Upserted, ClusterTable, ClientPath
  <2>2. changes' \in 0..MaxChanges
    BY <1>3, ChangingType DEF DeleteCluster
  <2>3. caps' \in [Cluster -> [of : Path \cup Machine \cup {Down}, stale : BOOLEAN] \cup {None}]
        /\ enrolledWith' \in [Cluster -> Machine \cup {None}]
    BY <1>3, <1>a DEF DeleteCluster
  <2>4. QED
    BY <1>3, <1>a, <2>1, <2>2, <2>3, TypeByParts DEF DeleteCluster, Invalidated, PollerType
<1>4. ASSUME NEW c \in Cluster, CheckCluster(c) PROVE TypeInv'
  <2>1. changes' \in 0..MaxChanges
    BY <1>4, ChangingType DEF CheckCluster
  <2>2. CASE Client(c) = None
    <3>1. caps' \in [Cluster -> [of : Path \cup Machine \cup {Down}, stale : BOOLEAN]
                                  \cup {None}]
      BY <1>4, <2>2, NotedType DEF CheckCluster, ClientPath
    <3>2. QED
      BY <1>4, <1>a, <2>1, <2>2, <3>1, TypeByParts DEF CheckCluster, PollerType
  <2>3. CASE Client(c) # None
    <3>1. Client(c) \in Path \cup {"own"}
      BY <2>3, ClientType DEF ClientPath
    <3>2. cached' \in [Cluster -> ClientPath] /\ probes' \subseteq Probe
      BY <1>4, <2>3, <3>1, RefreshesType DEF CheckCluster
    <3>3. QED
      BY <1>4, <1>a, <2>1, <2>3, <3>2, TypeByParts DEF CheckCluster, PollerType
  <2>4. QED
    BY <2>2, <2>3
<1>5. ASSUME NEW c \in Cluster, Outage(c) PROVE TypeInv'
  <2>1. changes' \in 0..MaxChanges /\ reachable' \subseteq Cluster
    BY <1>5, <1>a, ChangingType DEF Outage
  <2>2. QED
    BY <1>5, <1>a, <2>1, TypeByParts DEF Outage, PollerType
<1>6. ASSUME NEW t \in Token, MintToken(t) \/ RevokeToken(t) \/ TokenExpires(t)
      PROVE  TypeInv'
  <2>1. token' \in [Token -> TokenRow \cup {None}]
    <3>1. Fresh \in TokenRow
      BY DEF Fresh, TokenRow
    <3>2. CASE MintToken(t)
      BY <3>1, <3>2, <1>a DEF MintToken
    <3>3. CASE RevokeToken(t)
      BY <3>3, <1>a DEF RevokeToken, TokenRow
    <3>4. CASE TokenExpires(t)
      BY <3>1, <3>4, <1>a DEF TokenExpires, TokenRow
    <3>5. QED
      BY <1>6, <3>2, <3>3, <3>4
  <2>2. changes' \in 0..MaxChanges
    BY <1>6, <1>a, ChangingType DEF MintToken, RevokeToken, TokenExpires
  <2>3. QED
    BY <1>6, <1>a, <2>1, <2>2, TypeByParts DEF MintToken, RevokeToken, TokenExpires, PollerType
<1>7. ASSUME NEW k \in Machine, EnrollRefused(k) \/ EnrollLimited(k) PROVE TypeInv'
  <2>1. At(k, "failed")
    BY <1>7 DEF EnrollRefused, EnrollLimited
  <2>2. QED
    BY <1>7, <1>a, <2>1, AtType, TypeByParts DEF EnrollRefused, EnrollLimited, PollerType
<1>8. ASSUME NEW k \in Machine, NEW t \in Token, Join(k, t) PROVE TypeInv'
  <2>1. machine' \in [Machine -> [at : {"new", "posting", "registered", "enrolled",
                                         "failed"}, token : Token \cup {None}]]
    BY <1>8, <1>a DEF Join, Installed
  <2>2. changes' \in 0..MaxChanges
    BY <1>8, ChangingType DEF Join
  <2>3. QED
    BY <1>8, <1>a, <2>1, <2>2, TypeByParts DEF Join, PollerType
<1>9. ASSUME NEW k \in Machine, NEW t \in Token, Enroll(k, t) PROVE TypeInv'
  <2> DEFINE c == TokenOf[t]
  <2>1. c \in Cluster
    BY FleetAssumption
  <2>2. token' \in [Token -> TokenRow \cup {None}]
    BY <1>9, RedeemsType DEF Enroll
  <2>3. UNCHANGED <<caps, poller, reachable, changes>>
    BY <1>9 DEF Enroll
  <2>4. CASE /\ At(k, "failed") /\ file' \in {file, [file EXCEPT ![c] = None]}
             /\ UNCHANGED <<clusters, cached, healthy, probes, enrolledWith>>
    <3>1. file' \in [Cluster -> Machine \cup {None}]
      BY <2>4, <1>a
    <3>2. QED
      BY <2>4, <1>a, <2>2, <2>3, <3>1, AtType, TypeByParts DEF PollerType
  <2>5. CASE /\ Created(c, EnrolledRow) /\ file' = [file EXCEPT ![c] = k]
             /\ enrolledWith' = [enrolledWith EXCEPT ![c] = k]
             /\ Refreshes(c, "own", k) /\ Invalidated(c) /\ At(k, "registered")
    <3>1. clusters' \in ClusterTable
      BY <2>1, <2>5, <1>a DEF Created, Upserted, EnrolledRow, ClusterTable, Row
    <3>2. cached' \in [Cluster -> ClientPath] /\ probes' \subseteq Probe
      BY <2>1, <2>5, RefreshesType
    <3>3. /\ file' \in [Cluster -> Machine \cup {None}]
          /\ enrolledWith' \in [Cluster -> Machine \cup {None}]
      BY <2>5, <1>a
    <3>4. machine' \in [Machine -> [at : {"new", "posting", "registered", "enrolled",
                                           "failed"}, token : Token \cup {None}]]
      BY <2>5, AtType
    <3>5. QED
      BY <2>5, <1>a, <2>2, <2>3, <3>1, <3>2, <3>3, <3>4, TypeByParts DEF Invalidated, PollerType
  <2>6. QED
    BY <1>9, <2>4, <2>5 DEF Enroll
<1>10. ASSUME NEW k \in Machine, NEW t \in Token, EnrollDies(k, t) PROVE TypeInv'
  <2>1. token' \in [Token -> TokenRow \cup {None}] /\ file' \in [Cluster -> Machine \cup {None}]
    BY <1>10, <1>a, RedeemsType DEF EnrollDies
  <2>2. changes' \in 0..MaxChanges
    BY <1>10, ChangingType DEF EnrollDies
  <2>3. Dies /\ HangUp /\ UNCHANGED <<reachable, enrolledWith>>
    BY <1>10 DEF EnrollDies
  <2>4. QED
    BY <1>a, <2>1, <2>2, <2>3, DiesType, HangUpType, TypeByParts
<1>11. ASSUME NEW p \in probes, ProbeAnswers(p) PROVE TypeInv'
  <2>1. p.cluster \in Cluster /\ p.path \in ClientPath
    BY <1>a DEF Probe, ClientPath
  <2>2. caps' \in [Cluster -> [of : Path \cup Machine \cup {Down}, stale : BOOLEAN]
                                \cup {None}]
    BY <1>11, <2>1, NotedType DEF ProbeAnswers
  <2>3. machine' \in [Machine -> [at : {"new", "posting", "registered", "enrolled",
                                         "failed"}, token : Token \cup {None}]]
    BY <1>11, <1>a DEF ProbeAnswers
  <2>4. QED
    BY <1>11, <1>a, <2>2, <2>3, TypeByParts DEF ProbeAnswers, PollerType
<1>12. CASE TickStarts
  <2>1. PollerType' /\ cached' \in [Cluster -> ClientPath]
    BY <1>12, VisitType DEF TickStarts, Registered
  <2>2. QED
    BY <1>12, <1>a, <2>1, TypeByParts DEF TickStarts
<1>13. CASE HealthAnswers
  <2>1. poller.cluster \in Cluster /\ poller.todo \in SUBSET Cluster
    BY <1>13 DEF HealthAnswers, PollerType
  <2>2. healthy' \subseteq Cluster
    BY <1>13, <1>a, <2>1 DEF HealthAnswers, Checked
  <2>3. PollerType' /\ cached' \in [Cluster -> ClientPath]
    <3>1. CASE Visit(poller.todo)
      BY <3>1, <2>1, VisitType
    <3>2. CASE poller' = Rest /\ UNCHANGED cached
      BY <3>2, <1>a DEF Rest, PollerType, ClientPath
    <3>3. CASE /\ poller' = [poller EXCEPT !.at = "probe", !.path = Client(poller.cluster)]
               /\ cached' = [cached EXCEPT ![poller.cluster] = Client(poller.cluster)]
      <4>1. Client(poller.cluster) \in ClientPath
        BY <2>1, ClientType
      <4>2. QED
        BY <3>3, <4>1, <2>1, <1>a DEF PollerType
    <3>4. QED
      BY <1>13, <3>1, <3>2, <3>3 DEF HealthAnswers
  <2>4. QED
    BY <1>13, <1>a, <2>2, <2>3, TypeByParts DEF HealthAnswers
<1>14. CASE PollerProbeAnswers
  <2>1. poller.cluster \in Cluster /\ poller.todo \in SUBSET Cluster /\ poller.path \in ClientPath
    BY <1>14 DEF PollerProbeAnswers, PollerType
  <2>2. caps' \in [Cluster -> [of : Path \cup Machine \cup {Down}, stale : BOOLEAN]
                                \cup {None}]
    BY <1>14, <2>1, NotedType DEF PollerProbeAnswers
  <2>3. PollerType' /\ cached' \in [Cluster -> ClientPath]
    BY <1>14, <2>1, VisitType DEF PollerProbeAnswers
  <2>4. QED
    BY <1>14, <1>a, <2>2, <2>3, TypeByParts DEF PollerProbeAnswers
<1>15. CASE DayPasses
  <2>1. caps' \in [Cluster -> [of : Path \cup Machine \cup {Down}, stale : BOOLEAN]
                                \cup {None}]
    BY <1>15, <1>a DEF DayPasses
  <2>2. QED
    BY <1>15, <1>a, <2>1, TypeByParts DEF DayPasses, PollerType
<1>16. CASE Crash
  <2>1. changes' \in 0..MaxChanges
    BY <1>16, ChangingType DEF Crash
  <2>2. Dies /\ HangUp /\ UNCHANGED <<file, token, reachable, enrolledWith>>
    BY <1>16 DEF Crash
  <2>3. QED
    BY <1>a, <2>1, <2>2, DiesType, HangUpType, TypeByParts
<1>17. CASE UNCHANGED vars
  BY <1>17, <1>a, TypeByParts DEF vars, PollerType
<1>18. QED
  BY <1>1, <1>2, <1>3, <1>4, <1>5, <1>6, <1>7, <1>8, <1>9, <1>10, <1>11, <1>12, <1>13, <1>14,
     <1>15, <1>16, <1>17 DEF Next

\* The tables, the client pool, the probes in flight and the poller's pass keep to their
\* types, whatever requests, enrollments, outages and crashes interleave.
THEOREM FleetTypeCorrect == Spec => []TypeOK
<1>1. TypeInv => TypeOK
  BY DEF TypeInv
<1>2. QED
  BY <1>1, TypeInit, TypeStep, PTL DEF Spec

-------------------------------------------------------------------------------
(* The kubeconfig of an enrolled cluster.  The type of the tables is all the *)
(* strengthening it needs: only the registration of an enrolled cluster     *)
(* makes a row that points to its file, and whoever writes or removes that  *)
(* file found the id free in the same stretch of code.                      *)

\* What the property says of one cluster.
OwnFile(c) ==
    clusters[c] # None /\ clusters[c].path = "own"
        => file[c] \in Machine /\ file[c] = enrolledWith[c] /\ Sanitized(Content[file[c]])

LEMMA OwnFileInit == Init => KubeconfigIsItsOwn
<1> SUFFICES ASSUME Init, NEW c \in Cluster, clusters[c] # None PROVE clusters[c].path # "own"
  BY DEF KubeconfigIsItsOwn
<1> DEFINE empty == [d \in Cluster |-> None]
<1>1. empty \in ClusterTable
  BY DEF ClusterTable
<1>2. clusters = Seeded(empty) /\ empty[c] = None
  BY DEF Init
<1>3. clusters[c].path = SeedPath
  BY <1>1, <1>2, SeedingAddsOnly
<1>4. QED
  BY <1>3, FleetAssumption

\* A step that leaves rows, files and the history alone, or only removes rows.
LEMMA OwnFileKept ==
    ASSUME KubeconfigIsItsOwn, NEW c \in Cluster, UNCHANGED <<file, enrolledWith>>,
           clusters'[c] = clusters[c] \/ clusters'[c] = None \/ clusters'[c].path # "own"
    PROVE  OwnFile(c)'
BY DEF KubeconfigIsItsOwn, OwnFile

\* A restart adds rows of the configuration only; what an enrollment that died left in
\* the file of a free id concerns no row.
LEMMA OwnFileAfterRestart ==
    ASSUME TypeInv, KubeconfigIsItsOwn, NEW c \in Cluster, Dies, UNCHANGED enrolledWith,
           file'[c] = file[c] \/ clusters[c] = None
    PROVE  OwnFile(c)'
<1>1. clusters \in ClusterTable /\ clusters' = Seeded(clusters)
  BY DEF TypeInv, TypeOK, ClusterTable, Dies
<1>2. \/ clusters'[c] = clusters[c]
      \/ clusters[c] = None /\ clusters'[c].path = SeedPath
  BY <1>1, SeedingAddsOnly
<1>3. CASE clusters[c] = None /\ clusters'[c].path = SeedPath
  BY <1>3, FleetAssumption DEF OwnFile
<1>4. CASE clusters'[c] = clusters[c]
  BY <1>4 DEF OwnFile, KubeconfigIsItsOwn
<1>5. QED
  BY <1>2, <1>3, <1>4

LEMMA OwnFileStep == TypeInv /\ KubeconfigIsItsOwn /\ [Next]_vars => KubeconfigIsItsOwn'
<1> SUFFICES ASSUME TypeInv, KubeconfigIsItsOwn, [Next]_vars, NEW d \in Cluster
             PROVE  OwnFile(d)'
  BY DEF KubeconfigIsItsOwn, OwnFile
<1>a. /\ clusters \in ClusterTable
      /\ file \in [Cluster -> Machine \cup {None}]
      /\ enrolledWith \in [Cluster -> Machine \cup {None}]
  BY DEF TypeInv, TypeOK, ClusterTable
<1>1. ASSUME NEW c \in Cluster, NEW path \in Path, CreateCluster(c, path) PROVE OwnFile(d)'
  <2>1. clusters' = [clusters EXCEPT ![c] = [path |-> path, enabled |-> TRUE]]
    BY <1>1 DEF CreateCluster, Created, Upserted
  <2>2. clusters'[d] = clusters[d] \/ clusters'[d].path = path
    BY <1>a, <2>1 DEF ClusterTable
  <2>3. QED
    BY <1>1, <2>2, OwnFileKept, FleetAssumption DEF CreateCluster
<1>2. ASSUME NEW c \in Cluster, NEW path \in Path \cup {"own"}, NEW enabled \in BOOLEAN,
             PatchCluster(c, path, enabled)
      PROVE  OwnFile(d)'
  <2>1. /\ clusters' = [clusters EXCEPT ![c] = [path |-> path, enabled |-> enabled]]
        /\ clusters[c] # None /\ path \in Path \cup {clusters[c].path}
        /\ UNCHANGED <<file, enrolledWith>>
    BY <1>2 DEF PatchCluster, Updated, Upserted
  <2>2. CASE d # c \/ path \in Path
    <3>1. clusters'[d] = clusters[d] \/ clusters'[d].path # "own"
      BY <1>a, <2>1, <2>2, FleetAssumption DEF ClusterTable
    <3>2. QED
      BY <2>1, <3>1, OwnFileKept
  <2>3. CASE d = c /\ path = clusters[c].path
    BY <1>a, <2>1, <2>3 DEF ClusterTable, KubeconfigIsItsOwn, OwnFile
  <2>4. QED
    BY <2>1, <2>2, <2>3
<1>3. ASSUME NEW c \in Cluster, DeleteCluster(c) PROVE OwnFile(d)'
  <2>1. /\ clusters' = [clusters EXCEPT ![c] = None] /\ UNCHANGED file
        /\ enrolledWith' = [enrolledWith EXCEPT ![c] = None]
    BY <1>3 DEF DeleteCluster, Deleted, Upserted
  <2>2. CASE d = c
    BY <1>a, <2>1, <2>2 DEF ClusterTable, OwnFile
  <2>3. CASE d # c
    BY <1>a, <2>1, <2>3 DEF ClusterTable, OwnFile, KubeconfigIsItsOwn
  <2>4. QED
    BY <2>2, <2>3
<1>4. ASSUME NEW k \in Machine, NEW t \in Token, Enroll(k, t) PROVE OwnFile(d)'
  <2> DEFINE c == TokenOf[t]
  <2>1. c \in Cluster /\ clusters[c] = None /\ Sanitized(Content[k])
    BY <1>4, FleetAssumption DEF Enroll, Redeems, IdIsFree
  <2>2. CASE /\ file' \in {file, [file EXCEPT ![c] = None]}
             /\ UNCHANGED <<clusters, enrolledWith>>
    BY <1>a, <2>1, <2>2 DEF OwnFile, KubeconfigIsItsOwn
  <2>3. CASE /\ clusters' = [clusters EXCEPT ![c] = EnrolledRow]
             /\ file' = [file EXCEPT ![c] = k]
             /\ enrolledWith' = [enrolledWith EXCEPT ![c] = k]
    <3>1. CASE d = c
      BY <1>a, <2>1, <2>3, <3>1 DEF ClusterTable, OwnFile
    <3>2. CASE d # c
      BY <1>a, <2>3, <3>2 DEF ClusterTable, OwnFile, KubeconfigIsItsOwn
    <3>3. QED
      BY <3>1, <3>2
  <2>4. QED
    BY <1>4, <2>2, <2>3 DEF Enroll, Created, Upserted
<1>5. ASSUME NEW k \in Machine, NEW t \in Token, EnrollDies(k, t) PROVE OwnFile(d)'
  <2>1. Dies /\ UNCHANGED enrolledWith /\ clusters[TokenOf[t]] = None
    BY <1>5 DEF EnrollDies, Redeems, IdIsFree
  <2>2. file'[d] = file[d] \/ clusters[d] = None
    BY <1>5, <1>a, <2>1 DEF EnrollDies
  <2>3. QED
    BY <2>1, <2>2, OwnFileAfterRestart
<1>6. CASE Crash
  BY <1>6, OwnFileAfterRestart DEF Crash
<1>7. CASE UNCHANGED <<clusters, file, enrolledWith>>
  BY <1>7, OwnFileKept
<1>8. QED
  <2>1. ASSUME NEW c \in Cluster, CheckCluster(c) \/ Outage(c)
        PROVE  UNCHANGED <<clusters, file, enrolledWith>>
    BY <2>1 DEF CheckCluster, Outage
  <2>2. ASSUME NEW t \in Token, MintToken(t) \/ RevokeToken(t) \/ TokenExpires(t)
        PROVE  UNCHANGED <<clusters, file, enrolledWith>>
    BY <2>2 DEF MintToken, RevokeToken, TokenExpires
  <2>3. ASSUME NEW k \in Machine,
               EnrollRefused(k) \/ EnrollLimited(k) \/ \E t \in Token : Join(k, t)
        PROVE  UNCHANGED <<clusters, file, enrolledWith>>
    BY <2>3 DEF EnrollRefused, EnrollLimited, Join
  <2>4. ASSUME \/ \E p \in probes : ProbeAnswers(p)
               \/ TickStarts \/ HealthAnswers \/ PollerProbeAnswers \/ DayPasses
               \/ UNCHANGED vars
        PROVE  UNCHANGED <<clusters, file, enrolledWith>>
    BY <2>4 DEF ProbeAnswers, TickStarts, HealthAnswers, PollerProbeAnswers, DayPasses, vars
  <2>5. QED
    BY <1>1, <1>2, <1>3, <1>4, <1>5, <1>6, <1>7, <2>1, <2>2, <2>3, <2>4 DEF Next

\* While an enrolled cluster is registered, the kubeconfig on disk is the one its own
\* enrollment sent and passed the check: for any number of tokens, machines, clusters and
\* interleavings nobody else's enrollment overwrites or removes it.
THEOREM KubeconfigStaysItsOwn == Spec => []KubeconfigIsItsOwn
<1>1. Init => TypeInv /\ KubeconfigIsItsOwn
  BY TypeInit, OwnFileInit
<1>2. (TypeInv /\ KubeconfigIsItsOwn) /\ [Next]_vars => (TypeInv /\ KubeconfigIsItsOwn)'
  BY TypeStep, OwnFileStep
<1>3. QED
  BY <1>1, <1>2, PTL DEF Spec

-------------------------------------------------------------------------------
(*****************************************************************************)
(* The console: the list of deployments, its sheet, logs and terminals       *)
(*                                                                           *)
(* What is not a type is about sockets: one is opened only for the terminal  *)
(* on screen, and whoever leaves the screen closes it.                       *)
(*****************************************************************************)

\* A set of naturals below a bound has a greatest one.
LEMMA Greatest ==
    ASSUME NEW n \in Nat, NEW S \in SUBSET (0 .. n), S # {}
    PROVE  \E m \in S : \A k \in S : k <= m
<1> DEFINE Less == {p \in Nat \X Nat : p[1] < p[2]}
           T == {n - k : k \in S}
<1>1. IsWellFoundedOn(Less, Nat)
  BY NatLessThanWellFounded DEF OpToRel
<1>2. T \subseteq Nat /\ T # {}
  <2>1. PICK k \in S : TRUE
    OBVIOUS
  <2>2. n - k \in T
    OBVIOUS
  <2> QED BY <2>2
<1> HIDE DEF Less
<1>3. PICK c \in T : \A d \in T : ~ (<<d, c>> \in Less)
  BY <1>1, <1>2, WFMin
<1>4. PICK m \in S : c = n - m
  OBVIOUS
<1>5. ASSUME NEW k \in S PROVE k <= m
  <2>1. n - k \in T /\ n - k \in Nat /\ c \in Nat
    BY <1>2
  <2>2. ~ (n - k < c)
    BY <1>3, <2>1 DEF Less
  <2> QED BY <1>4, <2>1, <2>2
<1> QED BY <1>5

ViewType == [DeploymentRow -> {"none", "applying"} \cup Settled]
StreamType == [es : {"unused", "minting", "refused", "open", "closed", "vanished"},
               mine : BOOLEAN, gen : {"none", "checking", "on", "off"},
               aborted : BOOLEAN, proc : {"none", "running", "ended"}]
ShellType == [ws : {"unused", "minting", "refused", "open", "closed", "vanished"},
              entry : BOOLEAN, proc : {"none", "running", "ended"}]

\* Sockets are open for the terminal on screen only.
Terminals == /\ term \in Shell \cup {0} /\ shell \in [Shell -> ShellType]
             /\ \A k \in Shell : shell[k].ws = "open" => term = k
\* The table of deployments, what the list showed of it, and its readers.
Server == /\ rows \in [DeploymentRow -> {"none"} \cup Applying \cup Settled]
          /\ registered \in BOOLEAN /\ session \in BOOLEAN /\ listed \in BOOLEAN
\* The sheet of one deployment and its polls.
Detail == /\ sheet \in {"closed", "loading", "stuck", "shown"}
          /\ view \in ViewType /\ \A v \in polls : v \in ViewType
          /\ banner \in [row : DeploymentRow \cup {0}, es : {"open", "closed"}]
\* The panel of logs and its streams.
LogPanel == /\ panel \in [on : BOOLEAN, starting : BOOLEAN, ref : Stream \cup {0}]
            /\ stream \in [Stream -> StreamType]
Clicks == events \in 0 .. MaxEvents
CInv == Terminals /\ Server /\ Detail /\ LogPanel /\ Clicks

\* Records of streams and of terminals stay such when a field is set.
LEMMA StreamFields ==
    ASSUME NEW r \in StreamType
    PROVE  /\ r.es \in {"unused", "minting", "refused", "open", "closed", "vanished"}
           /\ r.mine \in BOOLEAN /\ r.aborted \in BOOLEAN
           /\ r.gen \in {"none", "checking", "on", "off"} /\ r.proc \in {"none", "running", "ended"}
           /\ \A e \in {"unused", "minting", "refused", "open", "closed", "vanished"} :
                  [r EXCEPT !.es = e] \in StreamType
           /\ \A m \in BOOLEAN : [r EXCEPT !.mine = m] \in StreamType
           /\ \A m \in BOOLEAN : [r EXCEPT !.aborted = m] \in StreamType
           /\ \A g \in {"none", "checking", "on", "off"} : [r EXCEPT !.gen = g] \in StreamType
           /\ \A p \in {"none", "running", "ended"} : [r EXCEPT !.proc = p] \in StreamType
BY DEF StreamType

LEMMA ShellFields ==
    ASSUME NEW r \in ShellType
    PROVE  /\ r.ws \in {"unused", "minting", "refused", "open", "closed", "vanished"}
           /\ r.entry \in BOOLEAN /\ r.proc \in {"none", "running", "ended"}
           /\ \A e \in {"unused", "minting", "refused", "open", "closed", "vanished"} :
                  [r EXCEPT !.ws = e] \in ShellType /\ [r EXCEPT !.ws = e].ws = e
           /\ \A m \in BOOLEAN : [r EXCEPT !.entry = m] \in ShellType /\ [r EXCEPT !.entry = m].ws = r.ws
           /\ \A p \in {"none", "running", "ended"} :
                  [r EXCEPT !.proc = p] \in ShellType /\ [r EXCEPT !.proc = p].ws = r.ws
BY DEF ShellType

\* One stream, one terminal changes.
LEMMA OneStream ==
    ASSUME LogPanel, NEW s \in Stream, NEW r \in StreamType, stream' = [stream EXCEPT ![s] = r],
           panel' \in [on : BOOLEAN, starting : BOOLEAN, ref : Stream \cup {0}]
    PROVE  LogPanel'
BY DEF LogPanel

LEMMA OneShell ==
    ASSUME Terminals, NEW k \in Shell, NEW r \in ShellType, shell' = [shell EXCEPT ![k] = r],
           r.ws = "open" => shell[k].ws = "open" \/ term = k, UNCHANGED term
    PROVE  Terminals'
BY DEF Terminals

LEMMA NewestRow ==
    ASSUME NEW v PROVE Newest(v) \in DeploymentRow \cup {0}
<1> DEFINE act == {r \in DeploymentRow : v[r] = "applying"}
<1>1. CASE act = {}
  BY <1>1 DEF Newest
<1>2. CASE act # {}
  <2>1. MaxRows \in Nat /\ act \in SUBSET (0 .. MaxRows)
    BY ConsoleAssumption DEF DeploymentRow
  <2>2. \E r \in act : \A q \in act : q <= r
    BY <1>2, <2>1, Greatest
  <2>3. (CHOOSE r \in act : \A q \in act : q <= r) \in act
    BY <2>2
  <2> QED BY <1>2, <2>3 DEF Newest
<1> QED BY <1>1, <1>2

LEMMA ShowIsTyped ==
    ASSUME Detail, NEW v \in ViewType, Show(v)
    PROVE  view' \in ViewType /\ banner' \in [row : DeploymentRow \cup {0}, es : {"open", "closed"}]
BY NewestRow DEF Show, BannerFor, Detail

LEMMA DeploymentsTyped == ASSUME Server PROVE Deployments \in ViewType
BY DEF Server, Deployments, NoRows, Shown, ViewType, Applying

LEMMA ClosedStreams ==
    ASSUME LogPanel
    PROVE  /\ \A s \in Stream : Closed(s) \in StreamType
           /\ CloseRef(stream) \in [Stream -> StreamType]
           /\ Unmounted \in [Stream -> StreamType]
<1>1. \A s \in Stream : Closed(s) \in StreamType
  BY DEF LogPanel, Closed, StreamType
<1>2. CloseRef(stream) \in [Stream -> StreamType]
  BY <1>1 DEF LogPanel, CloseRef
<1>3. Unmounted \in [Stream -> StreamType]
  BY <1>2 DEF Unmounted, StreamType
<1> QED BY <1>1, <1>2, <1>3

LEMMA SheetGoneTyped ==
    ASSUME Detail, LogPanel, SheetGone PROVE Detail' /\ LogPanel'
BY ClosedStreams DEF Detail, LogPanel, SheetGone, NoRows, NoBanner, NoPanel, ViewType

LEMMA DisposedTerminals ==
    ASSUME Terminals, shell' = Disposed, term' = 0 PROVE Terminals'
BY DEF Terminals, Disposed, ShellType, Shell

LEMMA ClicksStay ==
    ASSUME Clicks, Event \/ Quiet PROVE Clicks'
BY ConsoleAssumption DEF Event, Quiet, Clicks

LEMMA ConsoleBegins == ASSUME ConsoleInit PROVE CInv
<1>1. MaxEvents \in Nat /\ DeploymentRow \subseteq Nat
  BY ConsoleAssumption DEF DeploymentRow
<1>2. Terminals
  BY DEF ConsoleInit, NoShell, Terminals, ShellType
<1>3. Server /\ Detail
  BY DEF ConsoleInit, NoRows, NoBanner, Server, Detail, ViewType
<1>4. LogPanel
  BY DEF ConsoleInit, NoPanel, NoStream, LogPanel, StreamType
<1> QED BY <1>1, <1>2, <1>3, <1>4 DEF ConsoleInit, CInv, Clicks

\* The table of deployments, and its readers.
LEMMA ConsoleRows ==
    ASSUME CInv,
           \/ \E r \in DeploymentRow :
                 \/ PostDeploy(r) \/ PostRedeploy(r)
                 \/ \E st \in Settled : JobSettles(r, st) \/ WatcherSettles(r, st)
           \/ SessionExpires \/ ServiceDeleted
    PROVE  CInv'
<1>1. UNCHANGED <<listed, sheet, polls, view, banner, panel, stream, term, shell>>
  BY DEF PostDeploy, PostRedeploy, JobSettles, WatcherSettles, SessionExpires,
         ServiceDeleted, detail, logs, shells
<1>2. Server'
  BY <1>1 DEF PostDeploy, PostRedeploy, JobSettles, WatcherSettles, SessionExpires,
              ServiceDeleted, CInv, Server, Applying
<1>3. Clicks'
  <2>1. Event \/ Quiet
    BY DEF PostDeploy, PostRedeploy, JobSettles, WatcherSettles, SessionExpires,
           ServiceDeleted
  <2> QED BY <2>1, ClicksStay DEF CInv
<1> QED BY <1>1, <1>2, <1>3 DEF CInv, Terminals, Detail, LogPanel

LEMMA ConsoleStreams ==
    ASSUME CInv,
           \/ \E s \in Stream :
                 \/ StartLogs(s) \/ LogTokenArrives(s) \/ LogRequest(s)
                 \/ LogRefused(s) \/ LogSpawn(s) \/ ClientClosed(s)
                 \/ LogHeartbeat(s) \/ LogEnds(s)
           \/ StopLogs \/ OpenRuntime \/ LeaveRuntime
    PROVE  CInv'
<1>1. UNCHANGED <<rows, registered, session, listed, sheet, polls, view, banner, term, shell>>
  BY DEF StartLogs, LogTokenArrives, LogRequest, LogRefused, LogSpawn,
         ClientClosed, LogHeartbeat, LogAborts, LogEnds, StopLogs, OpenRuntime,
         LeaveRuntime, detail, shells
<1>2. Clicks'
  <2>1. Event \/ Quiet
    BY DEF StartLogs, LogTokenArrives, LogRequest, LogRefused, LogSpawn,
           ClientClosed, LogHeartbeat, LogEnds, StopLogs, OpenRuntime, LeaveRuntime
  <2> QED BY <2>1, ClicksStay DEF CInv
<1>3. LogPanel
  BY DEF CInv
<1>4. LogPanel'
  <2>1. ASSUME NEW s \in Stream, StartLogs(s) PROVE LogPanel'
    <3> DEFINE str == CloseRef(stream)
    <3>1. str \in [Stream -> StreamType]
      BY <1>3, ClosedStreams
    <3>2. stream' = [str EXCEPT ![s].es = "minting", ![s].mine = TRUE]
      BY <2>1 DEF StartLogs
    <3> HIDE DEF str
    <3>3. stream' \in [Stream -> StreamType]
      BY <3>1, <3>2, StreamFields
    <3> QED BY <1>3, <2>1, <3>3 DEF StartLogs, LogPanel
  <2>2. ASSUME NEW s \in Stream, LogTokenArrives(s) PROVE LogPanel'
    <3> DEFINE e == IF LogTokenGranted THEN "open" ELSE "refused"
    <3>1. stream[s] \in StreamType
      BY <1>3 DEF LogPanel
    <3>2. [stream[s] EXCEPT !.es = e] \in StreamType
      BY <3>1, StreamFields
    <3>3. stream' = [stream EXCEPT ![s] = [stream[s] EXCEPT !.es = e]]
      BY <2>2 DEF LogTokenArrives
    <3>4. panel' \in [on : BOOLEAN, starting : BOOLEAN, ref : Stream \cup {0}]
      BY <1>3, <2>2 DEF LogTokenArrives, LogPanel
    <3> HIDE DEF e
    <3> QED BY <1>3, <3>2, <3>3, <3>4, OneStream
  <2>3. ASSUME NEW s \in Stream, LogRequest(s) PROVE LogPanel'
    <3>1. [stream[s] EXCEPT !.gen = "checking"] \in StreamType
      BY <1>3, StreamFields DEF LogPanel
    <3>2. stream' = [stream EXCEPT ![s] = [stream[s] EXCEPT !.gen = "checking"]] /\ panel' = panel
      BY <2>3 DEF LogRequest
    <3> QED BY <1>3, <3>1, <3>2, OneStream DEF LogPanel
  <2>4. ASSUME NEW s \in Stream, LogRefused(s) PROVE LogPanel'
    <3>1. [Closed(s) EXCEPT !.gen = "off"] \in StreamType
      BY <1>3, ClosedStreams DEF StreamType
    <3> QED BY <1>3, <2>4, <3>1 DEF LogRefused, Heard, LogPanel
  <2>5. ASSUME NEW s \in Stream, LogSpawn(s) PROVE LogPanel'
    <3>1. stream[s] \in StreamType
      BY <1>3 DEF LogPanel
    <3>2. Spawned(s) \in StreamType
      BY <3>1 DEF Spawned, StreamType
    <3> QED BY <1>3, <2>5, <3>2, OneStream DEF LogSpawn, LogPanel
  <2>6. ASSUME NEW s \in Stream, LogAborts(s) PROVE LogPanel'
    <3> DEFINE g == IF stream[s].gen = "on" THEN "off" ELSE stream[s].gen
               p == IF stream[s].proc = "running" THEN "ended" ELSE stream[s].proc
               r == [stream[s] EXCEPT !.aborted = TRUE, !.gen = g, !.proc = p]
    <3>1. stream[s] \in StreamType
      BY <1>3 DEF LogPanel
    <3>2. g \in {"none", "checking", "on", "off"} /\ p \in {"none", "running", "ended"}
      BY <3>1, StreamFields
    <3>3. stream' = [stream EXCEPT ![s] = r] /\ panel' = panel
      BY <1>3, <2>6 DEF LogAborts, LogPanel
    <3> HIDE DEF g, p
    <3>4. r \in StreamType
      BY <3>1, <3>2 DEF StreamType
    <3> HIDE DEF r
    <3> QED BY <1>3, <3>3, <3>4, OneStream DEF LogPanel
  <2>7. ASSUME NEW s \in Stream, LogEnds(s) PROVE LogPanel'
    <3>1. [Closed(s) EXCEPT !.gen = "off", !.proc = "ended"] \in StreamType
      BY <1>3, ClosedStreams DEF StreamType
    <3> QED BY <1>3, <2>7, <3>1 DEF LogEnds, Heard, LogPanel
  <2>8. CASE StopLogs \/ OpenRuntime \/ LeaveRuntime
    <3>1. stream' \in [Stream -> StreamType]
      BY <1>3, <2>8, ClosedStreams DEF StopLogs, OpenRuntime, LeaveRuntime, LogPanel
    <3>2. panel' \in {[panel EXCEPT !.ref = 0], [NoPanel EXCEPT !.on = TRUE], NoPanel}
      BY <2>8 DEF StopLogs, OpenRuntime, LeaveRuntime
    <3>3. panel' \in [on : BOOLEAN, starting : BOOLEAN, ref : Stream \cup {0}]
      <4>1. [panel EXCEPT !.ref = 0] \in [on : BOOLEAN, starting : BOOLEAN, ref : Stream \cup {0}]
        BY <1>3 DEF LogPanel
      <4>2. \A b \in BOOLEAN : [NoPanel EXCEPT !.on = b]
                                   \in [on : BOOLEAN, starting : BOOLEAN, ref : Stream \cup {0}]
        BY DEF NoPanel
      <4>3. NoPanel \in [on : BOOLEAN, starting : BOOLEAN, ref : Stream \cup {0}]
        BY DEF NoPanel
      <4> QED BY <3>2, <4>1, <4>2, <4>3
    <3> QED BY <3>1, <3>3 DEF LogPanel
  <2> QED BY <2>1, <2>2, <2>3, <2>4, <2>5, <2>6, <2>7, <2>8 DEF ClientClosed, LogHeartbeat
<1> QED BY <1>1, <1>2, <1>4 DEF CInv, Terminals, Server, Detail

LEMMA ConsoleShells ==
    ASSUME CInv,
           \/ \E k \in Shell :
                 \/ OpenTerminal(k) \/ TerminalToken(k) \/ ShellOpens(k)
                 \/ ShellRefused(k) \/ ShellEnds(k) \/ ShellClosed(k)
           \/ CloseTerminal
    PROVE  CInv'
<1>1. UNCHANGED <<rows, registered, session, listed, sheet, polls, view, banner, panel, stream>>
  BY DEF OpenTerminal, TerminalToken, ShellOpens, ShellRefused, ShellEnds,
         ShellClosed, CloseTerminal, detail, logs
<1>2. Clicks'
  <2>1. Event \/ Quiet
    BY DEF OpenTerminal, TerminalToken, ShellOpens, ShellRefused, ShellEnds,
           ShellClosed, CloseTerminal
  <2> QED BY <2>1, ClicksStay DEF CInv
<1>3. Terminals
  BY DEF CInv
<1>4. Terminals'
  <2>1. ASSUME NEW k \in Shell, OpenTerminal(k) PROVE Terminals'
    <3> DEFINE r == [shell[k] EXCEPT !.ws = "minting"]
    <3>1. shell' = [shell EXCEPT ![k] = r] /\ term = 0 /\ term' = k
      BY <2>1 DEF OpenTerminal
    <3>2. r \in ShellType /\ r.ws = "minting"
      BY <1>3 DEF Terminals, ShellType
    <3> HIDE DEF r
    <3>3. \A q \in Shell : shell[q].ws # "open"
      BY <1>3, <3>1 DEF Terminals, Shell
    <3> QED BY <1>3, <3>1, <3>2, <3>3 DEF Terminals
  <2>2. ASSUME NEW k \in Shell, TerminalToken(k) PROVE Terminals'
    <3> DEFINE e == IF Wanted(k) /\ ExecTokenGranted THEN "open" ELSE "refused"
    <3>1. shell[k] \in ShellType
      BY <1>3 DEF Terminals
    <3>2. shell' = [shell EXCEPT ![k] = [shell[k] EXCEPT !.ws = e]] /\ term' = term
      BY <2>2 DEF TerminalToken
    <3>3. e \in {"open", "refused"} /\ (e = "open" => term = k)
      BY DEF Wanted
    <3> HIDE DEF e
    <3>4. [shell[k] EXCEPT !.ws = e] \in ShellType /\ [shell[k] EXCEPT !.ws = e].ws = e
      BY <3>1, <3>3 DEF ShellType
    <3> QED BY <1>3, <3>2, <3>3, <3>4, OneShell
  <2>3. ASSUME NEW k \in Shell,
               ShellOpens(k) \/ ShellRefused(k) \/ ShellEnds(k) \/ ShellClosed(k)
        PROVE  Terminals'
    <3>1. shell[k] \in ShellType
      BY <1>3 DEF Terminals
    <3>2. TornDown(k) \in ShellType /\ (TornDown(k).ws # "open")
      BY <3>1 DEF TornDown, ShellType
    <3>3. CASE ShellOpens(k)
      <4>1. [shell[k] EXCEPT !.entry = TRUE, !.proc = "running"] \in ShellType
            /\ [shell[k] EXCEPT !.entry = TRUE, !.proc = "running"].ws = shell[k].ws
        BY <3>1 DEF ShellType
      <4>2. shell' = [shell EXCEPT ![k] = [shell[k] EXCEPT !.entry = TRUE, !.proc = "running"]]
        BY <1>3, <3>3 DEF ShellOpens, Terminals
      <4> QED BY <1>3, <3>3, <4>1, <4>2, OneShell DEF ShellOpens
    <3>4. CASE ShellRefused(k)
      <4>1. [shell[k] EXCEPT !.ws = "refused"] \in ShellType
            /\ [shell[k] EXCEPT !.ws = "refused"].ws = "refused"
        BY <3>1, ShellFields
      <4>2. shell' = [shell EXCEPT ![k] = [shell[k] EXCEPT !.ws = "refused"]]
        BY <3>4 DEF ShellRefused
      <4> QED BY <1>3, <3>4, <4>1, <4>2, OneShell DEF ShellRefused
    <3>5. CASE ShellEnds(k)
      BY <1>3, <3>2, <3>5, OneShell DEF ShellEnds
    <3>6. CASE ShellClosed(k)
      <4>1. [TornDown(k) EXCEPT !.entry = FALSE] \in ShellType
            /\ [TornDown(k) EXCEPT !.entry = FALSE].ws # "open"
        BY <3>2, ShellFields
      <4> QED BY <1>3, <3>6, <4>1, OneShell DEF ShellClosed
    <3> QED BY <2>3, <3>3, <3>4, <3>5, <3>6
  <2>4. CASE CloseTerminal
    BY <1>3, <2>4, DisposedTerminals DEF CloseTerminal
  <2> QED BY <2>1, <2>2, <2>3, <2>4
<1> QED BY <1>1, <1>2, <1>4 DEF CInv, Server, Detail, LogPanel

LEMMA ConsoleSheet ==
    ASSUME CInv,
           \/ OpenSheet \/ FullLoad \/ PollAnswered \/ BannerEnds
           \/ \E v \in polls : PollArrives(v)
           \/ CloseSheet
    PROVE  CInv'
<1>1. UNCHANGED <<rows, registered, session, listed, term, shell>> /\ Clicks'
  BY DEF OpenSheet, FullLoad, PollAnswered, BannerEnds, PollArrives, CloseSheet,
         shells, Quiet, CInv, Clicks
<1>2. Detail /\ LogPanel /\ Deployments \in ViewType
  BY DeploymentsTyped DEF CInv
<1>3. CASE CloseSheet
  <2>1. Detail' /\ LogPanel'
    BY <1>2, <1>3, SheetGoneTyped DEF CloseSheet
  <2> QED BY <1>1, <2>1 DEF CInv, Terminals, Server
<1>4. ASSUME Detail', UNCHANGED <<panel, stream>> PROVE CInv'
  BY <1>1, <1>4 DEF CInv, Terminals, Server, LogPanel
<1>5. CASE OpenSheet \/ PollAnswered \/ BannerEnds
  <2>1. Detail'
    BY <1>2, <1>5 DEF OpenSheet, PollAnswered, BannerEnds, Detail
  <2> QED BY <1>4, <1>5, <2>1 DEF OpenSheet, PollAnswered, BannerEnds, logs
<1>6. CASE FullLoad
  <2>1. view' \in ViewType /\ banner' \in [row : DeploymentRow \cup {0}, es : {"open", "closed"}]
    <3>1. CASE Show(Deployments)
      BY <1>2, <3>1, ShowIsTyped
    <3>2. CASE view' = NoRows /\ banner' = NoBanner
      BY <3>2 DEF NoRows, NoBanner, ViewType
    <3> QED BY <1>6, <3>1, <3>2 DEF FullLoad
  <2>2. Detail'
    BY <1>2, <1>6, <2>1 DEF FullLoad, Detail
  <2> QED BY <1>4, <1>6, <2>2 DEF FullLoad, logs
<1>7. ASSUME NEW v \in polls, PollArrives(v) PROVE CInv'
  <2>1. v \in ViewType
    BY <1>2 DEF Detail
  <2>2. view' \in ViewType /\ banner' \in [row : DeploymentRow \cup {0}, es : {"open", "closed"}]
    <3>1. CASE Show(v)
      BY <1>2, <2>1, <3>1, ShowIsTyped
    <3>2. CASE view' = v /\ UNCHANGED banner
      BY <1>2, <2>1, <3>2 DEF Detail
    <3> QED BY <1>7, <3>1, <3>2 DEF PollArrives
  <2>3. Detail'
    BY <1>2, <1>7, <2>2 DEF PollArrives, Detail
  <2> QED BY <1>4, <1>7, <2>3 DEF PollArrives, logs
<1> QED BY <1>3, <1>5, <1>6, <1>7

\* The list, a new page, a client that vanishes, a restart of the server.
LEMMA ConsoleGone ==
    ASSUME CInv, Load \/ Reload \/ Vanish \/ Restart
    PROVE  CInv'
<1>1. Server' /\ Clicks'
  <2>1. Event \/ Quiet
    BY DEF Load, Reload, Vanish, Restart
  <2>2. Server
    BY DEF CInv
  <2>3. registered' \in BOOLEAN /\ session' \in BOOLEAN /\ listed' \in BOOLEAN
    BY <2>2 DEF Load, Reload, Vanish, Restart, TabGone, Server
  <2>4. rows' \in [DeploymentRow -> {"none"} \cup Applying \cup Settled]
    <3>1. rows' = rows \/ rows' = [r \in DeploymentRow |-> IF rows[r] = "watched" THEN "lost" ELSE rows[r]]
      BY DEF Load, Reload, Vanish, Restart
    <3> QED BY <2>2, <3>1 DEF Server, Applying
  <2> QED BY <2>1, <2>3, <2>4, ClicksStay DEF CInv, Server
<1>2. Terminals /\ Detail /\ LogPanel
  BY DEF CInv
<1>3. CASE Load
  <2>1. CASE UNCHANGED <<detail, logs, shells>>
    BY <1>1, <2>1 DEF CInv, detail, logs, shells, Terminals, Detail, LogPanel
  <2>2. CASE SheetGone /\ shell' = Disposed /\ term' = 0
    BY <1>1, <1>2, <2>2, SheetGoneTyped, DisposedTerminals DEF CInv
  <2> QED BY <1>3, <2>1, <2>2 DEF Load
<1>4. ASSUME NEW how \in {"closed", "vanished"}, TabGone(how) PROVE CInv'
  <2>1. Terminals'
    BY <1>2, <1>4 DEF TabGone, Terminals, ShellType
  <2>2. Detail'
    BY <1>2, <1>4 DEF TabGone, Detail, NoRows, NoBanner, ViewType
  <2>3. LogPanel'
    BY <1>2, <1>4 DEF TabGone, LogPanel, StreamType, NoPanel
  <2> QED BY <1>1, <2>1, <2>2, <2>3 DEF CInv
<1>5. CASE Restart
  <2>1. Terminals'
    <3>1. ASSUME NEW k \in Shell PROVE shell'[k] \in ShellType /\ shell'[k].ws # "open"
      <4> DEFINE e == IF shell[k].ws \in {"open", "minting"} THEN "refused" ELSE shell[k].ws
                 p == IF shell[k].proc = "running" THEN "ended" ELSE shell[k].proc
      <4>1. shell[k] \in ShellType
        BY <1>2 DEF Terminals
      <4>2. /\ e \in {"unused", "minting", "refused", "open", "closed", "vanished"} /\ e # "open"
            /\ p \in {"none", "running", "ended"}
        BY <4>1, ShellFields
      <4>3. shell'[k] = [shell[k] EXCEPT !.ws = e, !.entry = FALSE, !.proc = p]
        BY <1>5, <4>1 DEF Restart, ShellType
      <4> HIDE DEF e, p
      <4> QED BY <4>1, <4>2, <4>3 DEF ShellType
    <3>2. shell' = [k \in Shell |-> shell'[k]] /\ term' = term
      BY <1>5 DEF Restart
    <3>3. shell' \in [Shell -> ShellType]
      BY <3>1, <3>2
    <3> QED BY <1>2, <3>1, <3>2, <3>3 DEF Terminals
  <2>2. Detail'
    BY <1>2, <1>5 DEF Restart, Detail
  <2>3. LogPanel'
    <3>1. ASSUME NEW s \in Stream PROVE stream'[s] \in StreamType
      <4> DEFINE e == IF stream[s].es \in {"open", "minting"} THEN "refused" ELSE stream[s].es
                 g == IF stream[s].gen = "none" THEN stream[s].gen ELSE "off"
                 p == IF stream[s].proc = "running" THEN "ended" ELSE stream[s].proc
      <4>1. stream[s] \in StreamType
        BY <1>2 DEF LogPanel
      <4>2. /\ e \in {"unused", "minting", "refused", "open", "closed", "vanished"}
            /\ g \in {"none", "checking", "on", "off"} /\ p \in {"none", "running", "ended"}
        BY <4>1, StreamFields
      <4>3. stream'[s] = [stream[s] EXCEPT !.es = e, !.gen = g, !.proc = p]
        BY <1>5, <4>1 DEF Restart, StreamType
      <4> HIDE DEF e, g, p
      <4> QED BY <4>1, <4>2, <4>3 DEF StreamType
    <3>2. stream' = [s \in Stream |-> stream'[s]]
      BY <1>5 DEF Restart
    <3>3. panel' \in [on : BOOLEAN, starting : BOOLEAN, ref : Stream \cup {0}]
      BY <1>2, <1>5 DEF Restart, LogPanel
    <3>4. stream' \in [Stream -> StreamType]
      BY <3>1, <3>2
    <3> QED BY <3>3, <3>4 DEF LogPanel
  <2> QED BY <1>1, <2>1, <2>2, <2>3 DEF CInv
<1> QED BY <1>3, <1>4, <1>5 DEF Reload, Vanish

\* The parts together are inductive.
LEMMA ConsoleInvariant == ConsoleSpec => []CInv
<1>1. ConsoleInit => CInv
  BY ConsoleBegins
<1>2. CInv /\ [ConsoleNext]_consoleVars => CInv'
  <2> SUFFICES ASSUME CInv, [ConsoleNext]_consoleVars PROVE CInv'
    OBVIOUS
  <2>1. CASE UNCHANGED consoleVars
    BY <2>1 DEF consoleVars, detail, logs, shells, CInv, Terminals, Server, Detail, LogPanel, Clicks
  <2> QED BY <2>1, ConsoleRows, ConsoleStreams, ConsoleShells, ConsoleSheet, ConsoleGone DEF ConsoleNext
<1> QED BY <1>1, <1>2, PTL DEF ConsoleSpec

\* Rows, the sheet and its polls, streams and terminals keep their types whoever comes, leaves or
\* vanishes (ServiceDetail.tsx, Terminal.tsx, service-ops.ts, exec.ts).
THEOREM ConsoleTypeCorrect == ConsoleSpec => []ConsoleTypeOK
<1>1. CInv => ConsoleTypeOK
  BY DEF CInv, Terminals, Server, Detail, LogPanel, Clicks, ViewType, StreamType, ShellType, ConsoleTypeOK
<1> QED BY <1>1, ConsoleInvariant, PTL

\* No socket to a shell is open behind a terminal that was closed, however late its token arrived
\* and for any number of terminals (Terminal.tsx:31, 74-79).
THEOREM ClosedTerminalsStayClosed ==
    ConsoleSpec => []NoShellBehindAClosedTerminal
<1>1. CInv => NoShellBehindAClosedTerminal
  BY DEF CInv, Terminals, NoShellBehindAClosedTerminal
<1> QED BY <1>1, ConsoleInvariant, PTL
===============================================================================

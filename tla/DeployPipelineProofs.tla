------------------------- MODULE DeployPipelineProofs -------------------------
(***************************************************************************)
(* Theorems about DeployPipeline, for every value of its constants: type   *)
(* correctness, one automatic rollback at a time, what is recorded, what   *)
(* never reaches the cluster again, and that the pipeline implements       *)
(* DeployContract.                                                         *)
(*                                                                         *)
(* The strengthening has two parts.  Tables relates the two tables row by  *)
(* row: a request that was never made has neither row nor job, a job that  *)
(* has ended stays ended, and what an automatic rollback ended is ended.   *)
(* WorkerInv says what the waiting handler can rely on when its call is    *)
(* answered: its job still runs, its row is where it left it, the service  *)
(* is not degraded under a deploy, and what it put in the cluster is live. *)
(***************************************************************************)
EXTENDS DeployPipeline, FiniteSetTheorems, WellFoundedInduction, TLAPS

AutoActive(q, i) == q[i].kind = "rollback" /\ q[i].auto /\ q[i].state \in Active

JobTable == [Id -> Job]
RowTable == [Id -> Row]

\* What holds of request i in a jobs table q and a deployments table r.
Fits(q, r, i) ==
    /\ r[i].status = "absent" <=> q[i].state = "absent"
    /\ r[i].status = "pending" => q[i].state = "pending"
    /\ q[i].state \in Active => r[i].status # "cancelled"
    /\ q[i].state = "pending" => q[i].attempts < q[i].max
    /\ q[i].kind # "rollback" => ~q[i].auto
    /\ q[i].state \in Active /\ q[i].kind # "rollback" => q[i].tag = r[i].tag /\ r[i].tag \in Tag
    /\ q[i].cause # 0 => q[q[i].cause].state \notin Active \cup {"absent"}

Tables(q, r) ==
    /\ q \in JobTable /\ r \in RowTable
    /\ \A i \in Id : Fits(q, r, i)
    /\ \A i, k \in Id : AutoActive(q, i) /\ AutoActive(q, k) => i = k

DeployPc == {"image", "gate", "history"}

WorkerInv ==
    LET w == worker.job IN
    /\ Waiting =>
         /\ row[w].status = IF worker.pc = "history" THEN "failed" ELSE "applying"
         /\ worker.pc \in {"gate", "history"} => Live = job[w].tag
         /\ worker.pc \in DeployPc => ~degraded
         /\ worker.pc = "history" => \A i \in Id : ~AutoActive(job, i)

Inv == TypeOK /\ Tables(job, row) /\ WorkerInv

-------------------------------------------------------------------------------
(* Operators.                                                              *)

LEMMA LeastExists ==
    ASSUME NEW S \in SUBSET Nat, S # {} PROVE \E i \in S : \A j \in S : i <= j
<1> DEFINE Less == {p \in Nat \X Nat : p[1] < p[2]}
<1>1. IsWellFoundedOn(Less, Nat)
  BY NatLessThanWellFounded DEF OpToRel
<1> HIDE DEF Less
<1>2. PICK i \in S : \A j \in S : ~ (<<j, i>> \in Less)
  BY <1>1, WFMin
<1>3. ASSUME NEW j \in S PROVE i <= j
  <2>1. ~ (j < i)
    BY <1>2 DEF Less
  <2>2. QED
    BY <2>1
<1>4. QED
  BY <1>3

LEMMA LeastIsIn ==
    ASSUME NEW S \in SUBSET Nat, S # {}
    PROVE  (CHOOSE i \in S : \A j \in S : i <= j) \in S
BY LeastExists

LEMMA GreatestIsIn ==
    ASSUME NEW S \in SUBSET Id, S # {}
    PROVE  (CHOOSE i \in S : \A j \in S : j <= i) \in S
<1> DEFINE Gaps == {MaxId - i : i \in S}
<1>0. MaxId \in Nat /\ \A i \in S : i \in Nat /\ i <= MaxId
  BY PipelineAssumption DEF Id
<1>1. Gaps \in SUBSET Nat /\ Gaps # {}
  BY <1>0
<1>2. PICK d \in Gaps : \A e \in Gaps : d <= e
  <2> HIDE DEF Gaps
  <2>1. QED
    BY <1>1, LeastExists
<1>3. PICK i \in S : d = MaxId - i
  OBVIOUS
<1>4. ASSUME NEW j \in S PROVE j <= i
  <2>1. MaxId - j \in Gaps
    OBVIOUS
  <2>2. MaxId - i <= MaxId - j
    BY <1>2, <1>3, <2>1
  <2> HIDE DEF Gaps
  <2>3. QED
    BY <1>0, <2>2
<1>5. QED
  BY <1>4

LEMMA NextIdIsFresh ==
    ASSUME Fresh # {} PROVE NextId \in Id /\ row[NextId].status = "absent"
<1>1. Fresh \in SUBSET Nat
  BY DEF Fresh, Id
<1>2. NextId \in Fresh
  BY <1>1, LeastIsIn DEF NextId
<1>3. QED
  BY <1>2 DEF Fresh

LEMMA PreviousDoneIsTag ==
    ASSUME row \in RowTable, NEW t
    PROVE  PreviousDoneTag(t) \in Tag \cup {Revision, None}
<1> USE DEF RowTable
<1> DEFINE done == {i \in Id : row[i].status = "done" /\ row[i].tag # t}
<1>1. CASE done = {}
  BY <1>1 DEF PreviousDoneTag
<1>2. CASE done # {}
  <2> DEFINE i == CHOOSE i \in done : \A k \in done : k <= i
  <2>1. i \in done
    <3>1. done \in SUBSET Id
      OBVIOUS
    <3> HIDE DEF done
    <3>2. QED
      BY <1>2, <3>1, GreatestIsIn
  <2>2. PreviousDoneTag(t) = row[i].tag
    BY <1>2 DEF PreviousDoneTag
  <2>3. QED
    BY <2>1, <2>2 DEF Row
<1>3. QED
  BY <1>1, <1>2

\* What a registry posts never makes hyper deploy anything but a tag that may be asked for.
LEMMA PushedIsAsked ==
    ASSUME NEW n \in Notices, Concerns(n) PROVE Pushed(n).first \in Asked
<1> DEFINE told == IF n.kind = "generic" \/ n.tags = <<>> THEN n.tags ELSE <<n.tags[1]>>
           tags == IF n.kind = "acr" /\ ~n.push THEN {}
                   ELSE {i \in DOMAIN told : told[i] # "digest"}
           i == CHOOSE i \in tags : \A k \in tags : i <= k
<1>1. told \in Seq(Asked \cup {"digest"})
  <2>1. n.tags \in Seq(Asked \cup {"digest"})
    BY PipelineAssumption
  <2>2. CASE n.tags # <<>>
    <3>1. n.tags[1] \in Asked \cup {"digest"}
      BY <2>1, <2>2
    <3>2. <<n.tags[1]>> \in Seq(Asked \cup {"digest"})
      BY <3>1
    <3>3. QED
      BY <2>1, <3>2
  <2>3. QED
    BY <2>1, <2>2
<1>2. Pushed(n).first = IF tags = {} THEN None ELSE told[i]
  BY DEF Pushed
<1>3. tags # {} /\ Pushed(n).first = told[i]
  BY <1>2 DEF Concerns
<1>4. tags \in SUBSET Nat /\ tags \subseteq {k \in DOMAIN told : told[k] # "digest"}
  <2> HIDE DEF told
  <2>1. DOMAIN told \in SUBSET Nat
    BY <1>1
  <2>2. QED
    BY <2>1
<1>5. i \in tags
  <2> HIDE DEF tags
  <2>1. QED
    BY <1>3, <1>4, LeastIsIn
<1> HIDE DEF told, tags, i
<1>6. QED
  BY <1>1, <1>3, <1>4, <1>5

Revs == [rev : Nat, tag : Tag]

LEMMA PatchedFacts ==
    ASSUME NEW h \in Seq(Revs), h # <<>>, NEW t \in Tag
    PROVE  /\ Patched(h, t) \in Seq(Revs) /\ Patched(h, t) # <<>>
           /\ Patched(h, t)[Len(Patched(h, t))].tag = t
<1>1. Len(h) \in Nat /\ Len(h) > 0 /\ h[Len(h)] \in Revs
  OBVIOUS
<1>2. Without(h, t) \in Seq(Revs)
  <2> DEFINE at == {i \in 1..Len(h) : h[i].tag = t}
             i == CHOOSE i \in at : TRUE
  <2>1. CASE at = {}
    BY <2>1 DEF Without
  <2>2. CASE at # {}
    <3>1. i \in 1..Len(h)
      BY <2>2
    <3>2. Without(h, t) = SubSeq(h, 1, i - 1) \o SubSeq(h, i + 1, Len(h))
      BY <2>2 DEF Without
    <3> HIDE DEF i
    <3>3. SubSeq(h, 1, i - 1) \in Seq(Revs) /\ SubSeq(h, i + 1, Len(h)) \in Seq(Revs)
      BY <1>1, <3>1
    <3>4. QED
      BY <3>2, <3>3
  <2>3. QED
    BY <2>1, <2>2
<1>3. Rev(LiveRev(h) + 1, t) \in Revs /\ Rev(LiveRev(h) + 1, t).tag = t
  BY <1>1 DEF Rev, LiveRev, Revs
<1>4. CASE h[Len(h)].tag = t
  BY <1>4 DEF Patched
<1>5. CASE h[Len(h)].tag # t
  <2>1. Patched(h, t) = Append(Without(h, t), Rev(LiveRev(h) + 1, t))
    BY <1>5 DEF Patched
  <2>2. QED
    BY <1>2, <1>3, <2>1
<1>6. QED
  BY <1>4, <1>5

LEMMA UndoneFacts ==
    ASSUME NEW h \in Seq(Revs), h # <<>>, NEW n \in Nat, CanUndo(h, n)
    PROVE  Undone(h, n) \in Seq(Revs) /\ Undone(h, n) # <<>>
<1> DEFINE t == IF n = 0 THEN Previous(h).tag ELSE TagAt(h, n)
<1>1. CASE n = 0
  <2>1. Len(h) \in Nat /\ Len(h) >= 2
    BY <1>1 DEF CanUndo, HasPrevious
  <2>2. h[Len(h) - 1] \in Revs
    BY <2>1
  <2>3. t \in Tag
    BY <1>1, <2>2 DEF Previous, Revs
  <2>4. QED
    BY <2>3, PatchedFacts DEF Undone
<1>2. CASE n # 0
  <2>1. \E i \in 1..Len(h) : h[i].rev = n
    BY <1>2 DEF CanUndo, HasRevision
  <2> DEFINE i == CHOOSE i \in 1..Len(h) : h[i].rev = n
  <2>2. i \in 1..Len(h)
    BY <2>1
  <2>3. h[i] \in Revs
    BY <2>2
  <2>4. t \in Tag
    BY <1>2, <2>3 DEF TagAt, Revs
  <2>5. QED
    BY <2>4, PatchedFacts DEF Undone
<1>3. QED
  BY <1>1, <1>2

LEMMA PreviousFacts ==
    ASSUME NEW h \in Seq(Revs), HasPrevious(h) PROVE Previous(h).rev \in Nat
<1>1. h[Len(h) - 1] \in Revs
  BY DEF HasPrevious
<1>2. QED
  BY <1>1 DEF Previous, Revs

-------------------------------------------------------------------------------
(* What the statements on the tables do.                                   *)

\* Only request i changes, and it stays the request it is.
KeepsJob(q, q2, i) ==
    /\ q2 \in JobTable /\ \A k \in Id \ {i} : q2[k] = q[k]
    /\ q2[i].kind = q[i].kind /\ q2[i].auto = q[i].auto /\ q2[i].cause = q[i].cause

KeepsRow(r, r2, i) ==
    /\ r2 \in RowTable /\ \A k \in Id \ {i} : r2[k] = r[k]
    /\ r2[i].tag = r[i].tag

LEMMA NoJobFacts ==
    /\ NoJob \in Job /\ NoJob.kind = "deploy" /\ NoJob.attempts = 0 /\ NoJob.max = MaxAttempts
    /\ ~NoJob.auto /\ NoJob.cause = 0 /\ NoJob.state = "absent"
BY PipelineAssumption DEF NoJob, Job, Kinds, JobTable, RowTable

LEMMA StatusFacts ==
    ASSUME NEW r \in RowTable, NEW i \in Id,
           NEW s \in {"pending", "applying", "done", "failed", "cancelled"}
    PROVE  KeepsRow(r, Status(r, i, s), i) /\ Status(r, i, s)[i].status = s
<1> USE DEF JobTable, RowTable
<1>1. [r[i] EXCEPT !.status = s] \in Row
  BY DEF Row
<1>2. Status(r, i, s) = [r EXCEPT ![i] = [r[i] EXCEPT !.status = s]]
  BY DEF Status
<1>3. [r[i] EXCEPT !.status = s].status = s /\ [r[i] EXCEPT !.status = s].tag = r[i].tag
  BY DEF Row
<1>4. QED
  BY <1>1, <1>2, <1>3 DEF KeepsRow

LEMMA EndedFacts ==
    ASSUME NEW q \in JobTable, NEW i \in Id, NEW s \in {"done", "failed", "dead", "deleted"}
    PROVE  KeepsJob(q, Ended(q, i, s), i) /\ Ended(q, i, s)[i].state = s
<1> USE DEF JobTable, RowTable
<1> DEFINE j == [NoJob EXCEPT !.state = s, !.kind = q[i].kind, !.auto = q[i].auto,
                              !.cause = q[i].cause]
<1>1. q[i].kind \in Kinds /\ q[i].auto \in BOOLEAN /\ q[i].cause \in {0} \cup Id
  BY DEF Job
<1>2. /\ j \in Job /\ j.state = s /\ j.kind = q[i].kind /\ j.auto = q[i].auto
      /\ j.cause = q[i].cause
  <2>1. NoJob \in Job
    BY NoJobFacts
  <2>2. QED
    BY <1>1, <2>1 DEF Job
<1>3. Ended(q, i, s) = [q EXCEPT ![i] = j]
  BY DEF Ended
<1> HIDE DEF j
<1>4. QED
  BY <1>2, <1>3 DEF KeepsJob

\* A job that fails is pending again, with attempts left, or has ended.
LEMMA FailedFacts ==
    ASSUME NEW q \in JobTable, NEW i \in Id
    PROVE  /\ KeepsJob(q, Failed(q, i), i)
           /\ Failed(q, i)[i].state \in {"failed", "pending"}
           /\ q[i].attempts >= q[i].max => Failed(q, i)[i].state = "failed"
           /\ Failed(q, i)[i].state = "pending" =>
                /\ Failed(q, i)[i].tag = q[i].tag
                /\ Failed(q, i)[i].attempts < Failed(q, i)[i].max
<1> USE DEF JobTable, RowTable
<1>1. q[i].attempts \in Nat /\ q[i].max \in Nat
  BY PipelineAssumption DEF Job
<1>2. CASE q[i].attempts >= q[i].max
  BY <1>2, EndedFacts DEF Failed
<1>3. CASE ~(q[i].attempts >= q[i].max)
  <2> DEFINE j == [q[i] EXCEPT !.state = "pending"]
  <2>1. /\ j \in Job /\ j.state = "pending" /\ j.kind = q[i].kind /\ j.auto = q[i].auto
        /\ j.cause = q[i].cause /\ j.tag = q[i].tag /\ j.attempts = q[i].attempts
        /\ j.max = q[i].max
    BY DEF Job, Active
  <2>2. Failed(q, i) = [q EXCEPT ![i] = j]
    BY <1>3 DEF Failed
  <2> HIDE DEF j
  <2>3. QED
    BY <1>1, <1>3, <2>1, <2>2 DEF KeepsJob
<1>4. QED
  BY <1>2, <1>3

LEMMA NoRetryFacts ==
    ASSUME NEW q \in JobTable, NEW i \in Id
    PROVE  /\ KeepsJob(q, NoRetry(q, i), i)
           /\ NoRetry(q, i)[i].state = q[i].state /\ NoRetry(q, i)[i].tag = q[i].tag
           /\ Failed(NoRetry(q, i), i)[i].state = "failed"
<1> USE DEF JobTable, RowTable
<1> DEFINE j == [q[i] EXCEPT !.max = q[i].attempts]
<1>1. /\ j \in Job /\ j.state = q[i].state /\ j.kind = q[i].kind /\ j.auto = q[i].auto
      /\ j.cause = q[i].cause /\ j.tag = q[i].tag /\ j.attempts = q[i].attempts
      /\ j.max = q[i].attempts
  BY DEF Job
<1>2. NoRetry(q, i) = [q EXCEPT ![i] = j]
  BY DEF NoRetry
<1> HIDE DEF j
<1>3. KeepsJob(q, NoRetry(q, i), i) /\ NoRetry(q, i)[i] = j
  BY <1>1, <1>2 DEF KeepsJob
<1>4. j.attempts >= j.max
  BY <1>1, PipelineAssumption DEF Job
<1>5. NoRetry(q, i) \in JobTable
  BY <1>3 DEF KeepsJob
<1>6. Failed(NoRetry(q, i), i)[i].state = "failed"
  BY <1>3, <1>4, <1>5, FailedFacts
<1>7. QED
  BY <1>1, <1>3, <1>6

\* A deploy that may not be retried has ended, and nothing else changed.
LEMMA RefusedFacts ==
    ASSUME NEW q \in JobTable, NEW i \in Id
    PROVE  /\ KeepsJob(q, Failed(NoRetry(q, i), i), i)
           /\ Failed(NoRetry(q, i), i)[i].state = "failed"
<1> USE DEF JobTable, RowTable
<1>1. NoRetry(q, i) \in JobTable /\ KeepsJob(q, NoRetry(q, i), i)
  BY NoRetryFacts DEF KeepsJob
<1>2. KeepsJob(NoRetry(q, i), Failed(NoRetry(q, i), i), i)
  BY <1>1, FailedFacts
<1>3. QED
  BY <1>1, <1>2, NoRetryFacts DEF KeepsJob

LEMMA ClaimedFacts ==
    ASSUME job \in JobTable, NEW i \in Id, job[i].attempts < job[i].max
    PROVE  /\ KeepsJob(job, Claimed(i), i)
           /\ Claimed(i)[i].state = "running" /\ Claimed(i)[i].tag = job[i].tag
<1> USE DEF JobTable, RowTable
<1> DEFINE j == [job[i] EXCEPT !.state = "running", !.due = FALSE, !.attempts = @ + 1]
<1>1. /\ j \in Job /\ j.state = "running" /\ j.kind = job[i].kind /\ j.auto = job[i].auto
      /\ j.cause = job[i].cause /\ j.tag = job[i].tag
  <2>1. job[i] \in Job
    OBVIOUS
  <2>2. job[i].attempts + 1 \in 0..MaxAttempts
    BY <2>1, PipelineAssumption DEF Job
  <2>3. QED
    BY <2>1, <2>2 DEF Job, Active
<1>2. Claimed(i) = [job EXCEPT ![i] = j]
  BY DEF Claimed
<1> HIDE DEF j
<1>3. QED
  BY <1>1, <1>2 DEF KeepsJob

\* One request changes: it may end, or go on with what it asked for.
LEMMA ChangeKeeps ==
    ASSUME NEW q, NEW r, NEW q2, NEW r2, Tables(q, r), NEW i \in Id,
           KeepsJob(q, q2, i), KeepsRow(r, r2, i),
           q[i].state # "absent", q2[i].state # "absent", r2[i].status # "absent",
           r2[i].status = "pending" => q2[i].state = "pending",
           q2[i].state \in Active => /\ q[i].state \in Active /\ q2[i].tag = q[i].tag
                                     /\ r2[i].status # "cancelled",
           q2[i].state = "pending" => q2[i].attempts < q2[i].max
    PROVE  Tables(q2, r2)
<1> USE DEF JobTable, RowTable
<1>1. q2 \in JobTable /\ r2 \in RowTable
  BY DEF KeepsJob, KeepsRow
<1>2. ASSUME NEW k \in Id PROVE Fits(q2, r2, k)
  <2>1. Fits(q, r, k) /\ Fits(q, r, i)
    BY DEF Tables
  <2>2. q2[k].cause # 0 => q2[q2[k].cause].state \notin Active \cup {"absent"}
    <3> SUFFICES ASSUME q2[k].cause # 0
                 PROVE  q2[q2[k].cause].state \notin Active \cup {"absent"}
      OBVIOUS
    <3>1. q2[k].cause = q[k].cause /\ q2[k].cause \in Id
      BY <1>1 DEF KeepsJob, Job
    <3>2. q[q[k].cause].state \notin Active \cup {"absent"}
      BY <2>1, <3>1 DEF Fits
    <3>3. QED
      BY <3>1, <3>2 DEF KeepsJob
  <2>3. CASE k = i
    BY <2>1, <2>2, <2>3 DEF Fits, KeepsJob, KeepsRow
  <2>4. CASE k # i
    <3>1. q2[k] = q[k] /\ r2[k] = r[k]
      BY <2>4 DEF KeepsJob, KeepsRow
    <3>2. QED
      BY <2>1, <2>2, <3>1 DEF Fits
  <2>5. QED
    BY <2>3, <2>4
<1>3. ASSUME NEW k \in Id, AutoActive(q2, k) PROVE AutoActive(q, k)
  BY <1>3 DEF AutoActive, KeepsJob
<1>4. QED
  BY <1>1, <1>2, <1>3 DEF Tables

LEMMA EnqueuedFacts ==
    ASSUME NEW q \in JobTable, NEW n \in Id, NEW j \in Job
    PROVE  /\ Enqueued(q, n, j)[n].auto = j.auto /\ Enqueued(q, n, j)[n].kind = j.kind
           /\ \A k \in Id \ {n} : Enqueued(q, n, j)[k] = q[k]
<1>1. [j EXCEPT !.state = "pending"].auto = j.auto /\ [j EXCEPT !.state = "pending"].kind = j.kind
  BY DEF Job
<1>2. QED
  BY <1>1 DEF Enqueued, JobTable

LEMMA RecordedFacts ==
    ASSUME NEW r \in RowTable, NEW n \in Id, NEW t
    PROVE  /\ Recorded(r, n, t)[n].tag = t /\ Recorded(r, n, t)[n].status = "pending"
           /\ \A k \in Id \ {n} : Recorded(r, n, t)[k] = r[k]
BY DEF Recorded, RowTable

\* A job for a new request: hyper itself makes one only when none that it made is active.
MayAsk(q, j, t) ==
    /\ j \in Job /\ j.attempts < j.max /\ t \in Tag \cup {Revision, None}
    /\ j.kind # "rollback" => ~j.auto /\ j.tag = t /\ t \in Tag
    /\ j.auto => \A k \in Id : ~AutoActive(q, k)
    /\ j.cause # 0 => q[j.cause].state \notin Active \cup {"absent"}

LEMMA NewKeeps ==
    ASSUME NEW q, NEW r, NEW n, NEW j, NEW t,
           Tables(q, r), n \in Id, r[n].status = "absent", MayAsk(q, j, t)
    PROVE  Tables(Enqueued(q, n, j), Recorded(r, n, t))
<1> USE DEF JobTable, RowTable
<1> DEFINE p == [j EXCEPT !.state = "pending"]
           q2 == Enqueued(q, n, j)
           r2 == Recorded(r, n, t)
<1> USE DEF MayAsk
<1>1. /\ p \in Job /\ p.state = "pending" /\ p.kind = j.kind /\ p.auto = j.auto
      /\ p.cause = j.cause /\ p.tag = j.tag /\ p.attempts = j.attempts /\ p.max = j.max
  BY DEF Job, Active
<1>2. q \in JobTable /\ r \in RowTable /\ q[n].state = "absent"
  BY DEF Tables, Fits
<1>3. [tag |-> t, status |-> "pending"] \in Row
  BY DEF Row
<1>4. q2 = [q EXCEPT ![n] = p] /\ r2 = [r EXCEPT ![n] = [tag |-> t, status |-> "pending"]]
  BY DEF Enqueued, Recorded
<1> HIDE DEF p, q2, r2
<1>5. /\ q2 \in JobTable /\ r2 \in RowTable
      /\ q2[n] = p /\ r2[n] = [tag |-> t, status |-> "pending"]
      /\ \A k \in Id \ {n} : q2[k] = q[k] /\ r2[k] = r[k]
  BY <1>1, <1>2, <1>3, <1>4
<1>6. ASSUME NEW k \in Id PROVE Fits(q2, r2, k)
  <2>1. Fits(q, r, k)
    BY DEF Tables
  <2>2. q2[k].cause # 0 => q2[q2[k].cause].state \notin Active \cup {"absent"}
    <3> SUFFICES ASSUME q2[k].cause # 0
                 PROVE  q2[q2[k].cause].state \notin Active \cup {"absent"}
      OBVIOUS
    <3>1. q2[k].cause \in Id
      BY <1>5 DEF Job
    <3>2. q[q2[k].cause].state \notin Active \cup {"absent"}
      BY <1>1, <1>5, <2>1 DEF Fits
    <3>3. QED
      BY <1>2, <1>5, <3>1, <3>2
  <2>3. CASE k = n
    BY <1>1, <1>5, <2>2, <2>3 DEF Fits
  <2>4. CASE k # n
    BY <1>5, <2>1, <2>2, <2>4 DEF Fits
  <2>5. QED
    BY <2>3, <2>4
<1>7. ASSUME NEW i \in Id, NEW k \in Id, AutoActive(q2, i), AutoActive(q2, k) PROVE i = k
  <2>1. CASE i # n /\ k # n
    BY <1>5, <1>7, <2>1 DEF AutoActive, Tables
  <2>2. CASE i = n \/ k = n
    <3>1. j.auto
      BY <1>1, <1>5, <1>7, <2>2 DEF AutoActive
    <3>2. QED
      BY <1>5, <1>7, <3>1 DEF AutoActive
  <2>3. QED
    BY <2>1, <2>2
<1>8. Tables(q2, r2)
  BY <1>5, <1>6, <1>7 DEF Tables
<1>9. QED
  BY <1>8 DEF q2, r2

-------------------------------------------------------------------------------
(* The invariant.                                                          *)

LEMMA InvInit == Init => Inv
<1> USE DEF JobTable, RowTable
<1> SUFFICES ASSUME Init PROVE Inv
  OBVIOUS
<1> USE PipelineAssumption
<1>1. PICK adopted \in Adopted :
        /\ row = [i \in Id |-> IF adopted \/ i > 2 THEN NoRow
                               ELSE [tag |-> IF i = 1 THEN Older ELSE First,
                                     status |-> "done"]]
        /\ job = [i \in Id |-> IF adopted \/ i > 2 THEN NoJob
                               ELSE [NoJob EXCEPT !.state = "done"]]
        /\ current = IF adopted THEN None ELSE First
        /\ history = IF adopted THEN <<Rev(1, First)>>
                     ELSE <<Rev(1, Older), Rev(2, First)>>
  BY DEF Init
<1> DEFINE done == [NoJob EXCEPT !.state = "done"]
<1>2. done \in Job /\ done.state = "done" /\ ~done.auto /\ done.cause = 0 /\ done.kind = "deploy"
  BY NoJobFacts DEF Job, NoJob
<1>3. ASSUME NEW i \in Id
      PROVE  /\ job[i] \in {NoJob, done} /\ row[i] \in Row
             /\ row[i].status = IF job[i] = done THEN "done" ELSE "absent"
  <2>1. NoJob # done
    BY <1>2, NoJobFacts
  <2>2. CASE adopted \/ i > 2
    <3>1. job[i] = NoJob /\ row[i] = NoRow
      BY <1>1, <2>2
    <3>2. QED
      BY <2>1, <3>1 DEF NoRow, Row
  <2>3. CASE ~(adopted \/ i > 2)
    <3>1. job[i] = done
      BY <1>1, <2>3
    <3>2. row[i] = [tag |-> IF i = 1 THEN Older ELSE First, status |-> "done"]
      BY <1>1, <2>3
    <3>3. QED
      BY <2>1, <3>1, <3>2 DEF Row
  <2>4. QED
    BY <2>2, <2>3
<1>4. job \in JobTable /\ row \in RowTable
  BY <1>1, <1>2, <1>3, NoJobFacts
<1> HIDE DEF done
<1>5. Tables(job, row)
  BY <1>2, <1>3, <1>4, NoJobFacts DEF Tables, Fits, AutoActive, Active
<1>6. history \in Seq(Revs) /\ history # <<>>
  <2>1. Rev(1, First) \in Revs /\ Rev(1, Older) \in Revs /\ Rev(2, First) \in Revs
    BY DEF Rev, Revs
  <2>2. <<Rev(1, First)>> \in Seq(Revs) /\ <<Rev(1, Older), Rev(2, First)>> \in Seq(Revs)
    BY <2>1
  <2>3. QED
    BY <1>1, <2>2
<1>7. worker = Idle /\ ~Waiting /\ degraded = FALSE /\ asking = FALSE
  BY DEF Init, Waiting, Idle
<1>8. TypeOK
  BY <1>1, <1>4, <1>6, <1>7 DEF TypeOK, Revs, Idle
<1>9. WorkerInv
  BY <1>7 DEF WorkerInv
<1>10. QED
  BY <1>5, <1>8, <1>9 DEF Inv

\* What the invariant says of the handler that waits.
LEMMA WaitingFacts ==
    ASSUME Inv, Waiting
    PROVE  /\ worker.job \in Id /\ worker.job # 0
           /\ worker.pc \in DeployPc \cup {"undo", "status", "helm"}
           /\ job[worker.job] \in Job /\ job[worker.job].state = "running"
           /\ job[worker.job].kind = IF worker.pc \in DeployPc THEN "deploy"
                                     ELSE IF worker.pc = "helm" THEN "helm" ELSE "rollback"
           /\ row[worker.job].status = IF worker.pc = "history" THEN "failed" ELSE "applying"
           /\ worker.pc \in {"gate", "history"} => Live = job[worker.job].tag
           /\ worker.pc \in DeployPc => ~degraded
           /\ worker.pc = "history" => \A i \in Id : ~AutoActive(job, i)
           /\ job[worker.job].kind # "rollback" =>
                /\ ~job[worker.job].auto /\ job[worker.job].tag \in Tag
                /\ row[worker.job].tag = job[worker.job].tag
<1>1. /\ worker.job \in Id /\ worker.job # 0
      /\ worker.pc \in DeployPc \cup {"undo", "status", "helm"}
      /\ job[worker.job] \in Job /\ job[worker.job].state = "running"
  BY DEF Inv, TypeOK, Waiting, DeployPc
<1>2. job[worker.job].kind \in Kinds /\ Fits(job, row, worker.job)
  BY <1>1 DEF Inv, Tables, Job
<1>3. job[worker.job].kind = IF worker.pc \in DeployPc THEN "deploy"
                             ELSE IF worker.pc = "helm" THEN "helm" ELSE "rollback"
  BY <1>1, <1>2 DEF Inv, TypeOK, DeployPc, Kinds
<1>4. QED
  BY <1>1, <1>2, <1>3 DEF Inv, WorkerInv, Fits, Active

\* Afterwards the loop is idle.
LEMMA InvByIdle ==
    ASSUME Tables(job', row'), current' \in Tag \cup {Revision, None},
           degraded' \in BOOLEAN, asking' \in BOOLEAN,
           history' \in Seq(Revs), history' # <<>>, worker' = Idle
    PROVE  Inv'
BY DEF Inv, TypeOK, Tables, WorkerInv, Waiting, Idle, Revs, JobTable, RowTable

\* The loop goes on waiting for what it waits for, and its request is not touched.
LEMMA InvByOthers ==
    ASSUME Inv, Tables(job', row'), UNCHANGED <<current, history, worker>>,
           degraded' \in BOOLEAN, degraded' => degraded, asking' \in BOOLEAN,
           Waiting => job'[worker.job] = job[worker.job] /\ row'[worker.job] = row[worker.job],
           \A k \in Id : AutoActive(job', k) => AutoActive(job, k)
    PROVE  Inv'
<1>1. CASE ~Waiting
  BY <1>1, InvByIdle DEF Inv, TypeOK, Tables, WorkerInv, Waiting, Revs, JobTable, RowTable
<1>2. CASE Waiting
  <2>1. TypeOK'
    BY <1>2 DEF Inv, TypeOK, Tables, Waiting, JobTable, RowTable
  <2>2. WorkerInv'
    BY <1>2, WaitingFacts DEF WorkerInv, Waiting, Live
  <2>3. QED
    BY <2>1, <2>2 DEF Inv
<1>3. QED
  BY <1>1, <1>2

\* A request of an operator or a registry is a row and a job of their own.
LEMMA RequestInv ==
    ASSUME Inv, Fresh # {}, NEW j, NEW t, MayAsk(job, j, t), ~j.auto,
           row' = Recorded(row, NextId, t), job' = Enqueued(job, NextId, j),
           UNCHANGED <<current, degraded, history, worker>>, asking' \in BOOLEAN
    PROVE  Inv'
<1>1. Tables(job, row) /\ NextId \in Id /\ row[NextId].status = "absent"
  BY NextIdIsFresh DEF Inv
<1>2. /\ Tables(job', row') /\ job'[NextId].auto = j.auto
      /\ \A k \in Id \ {NextId} : job'[k] = job[k] /\ row'[k] = row[k]
  <2>1. Tables(job', row')
    BY <1>1, NewKeeps
  <2>2. job \in JobTable /\ row \in RowTable /\ j \in Job
    BY DEF Inv, Tables, MayAsk
  <2>3. \A k \in Id \ {NextId} : job'[k] = job[k] /\ row'[k] = row[k]
    BY <1>1, <2>2, EnqueuedFacts, RecordedFacts
  <2>4. job'[NextId].auto = j.auto
    BY <1>1, <2>2, EnqueuedFacts DEF Job
  <2>5. QED
    BY <2>1, <2>3, <2>4
<1>3. Waiting => worker.job \in Id \ {NextId}
  BY <1>1, WaitingFacts
<1>4. ASSUME NEW k \in Id, AutoActive(job', k) PROVE AutoActive(job, k)
  <2>1. k # NextId
    BY <1>2, <1>4, Zenon DEF AutoActive
  <2>2. QED
    BY <1>2, <1>4, <2>1 DEF AutoActive
<1>5. QED
  BY <1>2, <1>3, <1>4, InvByOthers DEF Inv, TypeOK

\* A deploy and an upgrade may always be asked for.
LEMMA ImageJobFacts ==
    ASSUME NEW q, NEW t \in Tag
    PROVE  /\ MayAsk(q, [NoJob EXCEPT !.tag = t, !.due = TRUE], t)
           /\ ~[NoJob EXCEPT !.tag = t, !.due = TRUE].auto
           /\ MayAsk(q, [NoJob EXCEPT !.kind = "helm", !.tag = t, !.due = TRUE], t)
           /\ ~[NoJob EXCEPT !.kind = "helm", !.tag = t, !.due = TRUE].auto
<1>1. ASSUME NEW j \in Job, j.attempts = 0, j.max = MaxAttempts, j.kind # "rollback", ~j.auto,
             j.cause = 0, j.tag = t
      PROVE  MayAsk(q, j, t)
  BY <1>1, PipelineAssumption DEF MayAsk
<1> DEFINE d == [NoJob EXCEPT !.tag = t, !.due = TRUE]
           h == [NoJob EXCEPT !.kind = "helm", !.tag = t, !.due = TRUE]
<1>2. /\ d \in Job /\ d.attempts = 0 /\ d.max = MaxAttempts /\ d.kind = "deploy" /\ ~d.auto
      /\ d.cause = 0 /\ d.tag = t
  BY NoJobFacts DEF Job, Kinds
<1>3. /\ h \in Job /\ h.attempts = 0 /\ h.max = MaxAttempts /\ h.kind = "helm" /\ ~h.auto
      /\ h.cause = 0 /\ h.tag = t
  BY NoJobFacts DEF Job, Kinds
<1> HIDE DEF d, h
<1>4. MayAsk(q, d, t) /\ ~d.auto /\ MayAsk(q, h, t) /\ ~h.auto
  BY <1>1, <1>2, <1>3
<1>5. QED
  BY <1>4 DEF d, h

LEMMA RollbackFacts ==
    ASSUME NEW q, NEW t \in Tag \cup {Revision, None}, NEW rev \in Nat, NEW auto \in BOOLEAN,
           NEW cause \in {0} \cup Id, NEW u \in Tag \cup {Revision, None},
           auto => \A k \in Id : ~AutoActive(q, k),
           cause # 0 => q[cause].state \notin Active \cup {"absent"}
    PROVE  MayAsk(q, Rollback(t, rev, auto, cause), u) /\ Rollback(t, rev, auto, cause).auto = auto
<1> DEFINE j == Rollback(t, rev, auto, cause)
<1>1. /\ j \in Job /\ j.attempts = 0 /\ j.max = MaxAttempts /\ j.kind = "rollback"
      /\ j.auto = auto /\ j.cause = cause /\ j.tag = t
  BY NoJobFacts DEF Job, Kinds, Rollback
<1> HIDE DEF j
<1>2. MayAsk(q, j, u) /\ j.auto = auto
  BY <1>1, PipelineAssumption DEF MayAsk
<1>3. QED
  BY <1>2 DEF j

LEMMA RequestsKeepInv ==
    ASSUME Inv,
           \/ \E t \in Asked : PostDeploy(t)
           \/ \E t \in AskedHelm : PostHelm(t)
           \/ \E n \in Notices : PushWebhook(n)
           \/ PostRollback \/ AskHistory \/ HistoryAnswers \/ Undegrade
    PROVE  Inv'
<1> USE PipelineAssumption
<1>1. ASSUME NEW t \in Tag, Fresh # {}, row' = Recorded(row, NextId, t),
             job' = Enqueued(job, NextId, [NoJob EXCEPT !.tag = t, !.due = TRUE]),
             UNCHANGED <<current, degraded, history, worker, asking>>
      PROVE  Inv'
  <2> DEFINE j == [NoJob EXCEPT !.tag = t, !.due = TRUE]
  <2>1. MayAsk(job, j, t) /\ ~j.auto /\ job' = Enqueued(job, NextId, j)
    BY <1>1, ImageJobFacts
  <2> HIDE DEF j
  <2>2. QED
    BY <1>1, <2>1, RequestInv DEF Inv, TypeOK
<1>2. ASSUME NEW t \in Asked, PostDeploy(t) PROVE Inv'
  BY <1>1, <1>2 DEF PostDeploy
<1>3. ASSUME NEW n \in Notices, PushWebhook(n) PROVE Inv'
  <2>1. Pushed(n).first \in Tag
    BY <1>3, PushedIsAsked DEF PushWebhook
  <2>2. QED
    BY <1>1, <1>3, <2>1 DEF PushWebhook
<1>4. ASSUME NEW t \in AskedHelm, PostHelm(t) PROVE Inv'
  <2> DEFINE j == [NoJob EXCEPT !.kind = "helm", !.tag = t, !.due = TRUE]
  <2>1. MayAsk(job, j, t) /\ ~j.auto /\ job' = Enqueued(job, NextId, j)
    BY <1>4, ImageJobFacts DEF PostHelm
  <2> HIDE DEF j
  <2>2. QED
    BY <1>4, <2>1, RequestInv DEF PostHelm, Inv, TypeOK
<1>5. ASSUME PostRollback PROVE Inv'
  <2> DEFINE t == PreviousDoneTag(current)
             j == Rollback(t, 0, FALSE, 0)
  <2>1. t \in Tag \cup {Revision, None}
    BY PreviousDoneIsTag DEF Inv, Tables
  <2>2. Fresh # {} /\ row' = Recorded(row, NextId, t) /\ job' = Enqueued(job, NextId, j)
    BY <1>5 DEF PostRollback
  <2> HIDE DEF t
  <2>3. MayAsk(job, j, t) /\ ~j.auto
    BY <2>1, RollbackFacts
  <2> HIDE DEF j
  <2>4. QED
    BY <1>5, <2>2, <2>3, RequestInv DEF PostRollback, Inv, TypeOK
<1>6. ASSUME HistoryAnswers, Fresh # {}, HasPrevious(history),
             row' = Recorded(row, NextId, Revision),
             job' = Enqueued(job, NextId, Rollback(None, Previous(history).rev, FALSE, 0))
      PROVE  Inv'
  <2> DEFINE j == Rollback(None, Previous(history).rev, FALSE, 0)
  <2>1. Previous(history).rev \in Nat
    BY <1>6, PreviousFacts DEF Inv, TypeOK, Revs
  <2>2. MayAsk(job, j, Revision) /\ ~j.auto
    BY <2>1, RollbackFacts
  <2>3. job' = Enqueued(job, NextId, j)
    BY <1>6
  <2> HIDE DEF j
  <2>4. QED
    BY <1>6, <2>2, <2>3, RequestInv DEF HistoryAnswers, Inv, TypeOK
<1>7. ASSUME \/ AskHistory
             \/ HistoryAnswers /\ UNCHANGED <<job, row>>
             \/ Undegrade
      PROVE  Inv'
  <2>1. UNCHANGED <<job, row, current, history, worker>> /\ asking' \in BOOLEAN
    BY <1>7 DEF AskHistory, HistoryAnswers, Undegrade, Inv, TypeOK
  <2>2. degraded' = degraded \/ degraded' = FALSE
    BY <1>7 DEF AskHistory, HistoryAnswers, Undegrade
  <2>3. degraded' \in BOOLEAN /\ (degraded' => degraded)
    <3>1. degraded \in BOOLEAN
      BY DEF Inv, TypeOK
    <3>2. CASE degraded' = degraded
      BY <3>1, <3>2
    <3>3. CASE degraded' = FALSE
      BY <3>3
    <3>4. QED
      BY <2>2, <3>2, <3>3
  <2>4. Tables(job', row')
    BY <2>1 DEF Inv
  <2>5. \A k \in Id : AutoActive(job', k) => AutoActive(job, k)
    BY <2>1 DEF AutoActive
  <2>6. Waiting => job'[worker.job] = job[worker.job] /\ row'[worker.job] = row[worker.job]
    BY <2>1
  <2>7. QED
    BY <2>1, <2>3, <2>4, <2>5, <2>6, InvByOthers
<1>8. QED
  BY <1>2, <1>3, <1>4, <1>5, <1>6, <1>7 DEF HistoryAnswers

\* A job whose row stays as it is.
LEMMA ChangeJobKeeps ==
    ASSUME NEW q, NEW r, NEW q2, Tables(q, r), NEW i \in Id, KeepsJob(q, q2, i),
           q[i].state \in Active, q2[i].state # "absent",
           r[i].status = "pending" => q2[i].state = "pending",
           q2[i].state \in Active => q2[i].tag = q[i].tag,
           q2[i].state = "pending" => q2[i].attempts < q2[i].max
    PROVE  Tables(q2, r)
<1>1. KeepsRow(r, r, i) /\ Fits(q, r, i)
  BY DEF Tables, KeepsRow
<1>2. q[i].state # "absent" /\ r[i].status # "absent" /\ r[i].status # "cancelled"
  BY <1>1 DEF Fits, Active
<1>3. QED
  BY <1>1, <1>2, ChangeKeeps

LEMMA TimePassesKeepsInv ==
    ASSUME Inv, NEW i \in Id, CancelAutoRollback(i) \/ BecomesDue(i) \/ Reap(i) PROVE Inv'
<1>0. /\ job \in JobTable /\ row \in RowTable /\ Tables(job, row) /\ Fits(job, row, i)
      /\ job[i] \in Job
  BY DEF Inv, Tables, JobTable
<1>1. ASSUME NEW k \in Id, KeepsJob(job, job', i), k # i PROVE job'[k] = job[k]
  BY <1>1 DEF KeepsJob
<1>2. CASE CancelAutoRollback(i)
  <2>1. /\ job[i].state = "pending"
        /\ KeepsJob(job, job', i) /\ job'[i].state = "deleted"
        /\ KeepsRow(row, row', i) /\ row'[i].status = "cancelled"
    BY <1>0, <1>2, EndedFacts, StatusFacts DEF CancelAutoRollback, Cancellable
  <2>2. Tables(job', row')
    BY <1>0, <2>1, ChangeKeeps DEF Active
  <2>3. Waiting => worker.job # i
    BY <2>1, WaitingFacts
  <2>4. \A k \in Id : AutoActive(job', k) => AutoActive(job, k)
    BY <1>1, <2>1 DEF AutoActive, Active
  <2>5. Waiting => job'[worker.job] = job[worker.job] /\ row'[worker.job] = row[worker.job]
    BY <2>1, <2>3, WaitingFacts DEF KeepsJob, KeepsRow
  <2>6. QED
    BY <1>2, <2>2, <2>4, <2>5, InvByOthers DEF CancelAutoRollback, Inv, TypeOK
<1>3. CASE BecomesDue(i)
  <2> DEFINE j == [job[i] EXCEPT !.due = TRUE]
  <2>1. /\ j \in Job /\ j.kind = job[i].kind /\ j.auto = job[i].auto /\ j.cause = job[i].cause
        /\ j.state = job[i].state /\ j.tag = job[i].tag /\ j.attempts = job[i].attempts
        /\ j.max = job[i].max
    BY <1>0 DEF Job
  <2>2. job' = [job EXCEPT ![i] = j] /\ job[i].state = "pending"
    BY <1>3 DEF BecomesDue
  <2> HIDE DEF j
  <2>3. KeepsJob(job, job', i) /\ job'[i] = j
    BY <1>0, <2>1, <2>2 DEF KeepsJob, JobTable
  <2>4. Tables(job', row)
    <3>1. job[i].attempts < job[i].max
      BY <1>0, <2>2 DEF Fits
    <3>2. QED
      BY <1>0, <2>1, <2>2, <2>3, <3>1, ChangeJobKeeps DEF Active
  <2>5. Waiting => worker.job # i
    BY <2>2, WaitingFacts
  <2>6. \A k \in Id : AutoActive(job', k) => AutoActive(job, k)
    BY <1>1, <2>1, <2>3 DEF AutoActive
  <2>7. row' = row /\ UNCHANGED <<current, degraded, history, worker, asking>>
    BY <1>3 DEF BecomesDue
  <2>8. Waiting => job'[worker.job] = job[worker.job] /\ row'[worker.job] = row[worker.job]
    BY <2>3, <2>5, <2>7, WaitingFacts DEF KeepsJob
  <2>9. QED
    BY <2>4, <2>6, <2>7, <2>8, InvByOthers DEF Inv, TypeOK
<1>4. CASE Reap(i)
  <2>1. /\ worker.pc = "idle" /\ job[i].state = "running"
        /\ row' = row /\ UNCHANGED <<current, degraded, history, worker, asking>>
    BY <1>4 DEF Reap, Orphans
  <2>2. Tables(job', row)
    <3>1. CASE job[i].attempts >= job[i].max
      <4>1. KeepsJob(job, job', i) /\ job'[i].state = "dead"
        BY <1>0, <1>4, <3>1, EndedFacts DEF Reap
      <4>2. QED
        BY <1>0, <2>1, <4>1, ChangeJobKeeps DEF Active, Fits
    <3>2. CASE ~(job[i].attempts >= job[i].max)
      <4> DEFINE j == [job[i] EXCEPT !.state = "pending", !.due = TRUE]
      <4>1. /\ j \in Job /\ j.kind = job[i].kind /\ j.auto = job[i].auto
            /\ j.cause = job[i].cause /\ j.state = "pending" /\ j.tag = job[i].tag
            /\ j.attempts = job[i].attempts /\ j.max = job[i].max
        BY <1>0 DEF Job, Active
      <4>2. job' = [job EXCEPT ![i] = j]
        BY <1>4, <3>2 DEF Reap
      <4>3. j.attempts < j.max
        BY <1>0, <3>2, <4>1, PipelineAssumption DEF Job
      <4> HIDE DEF j
      <4>4. KeepsJob(job, job', i) /\ job'[i] = j
        BY <1>0, <4>1, <4>2 DEF KeepsJob, JobTable
      <4>5. QED
        BY <1>0, <2>1, <4>1, <4>3, <4>4, ChangeJobKeeps DEF Active
    <3>3. QED
      BY <3>1, <3>2
  <2>3. worker' = Idle
    BY <2>1 DEF Inv, TypeOK, Waiting, Idle
  <2>4. QED
    BY <2>1, <2>2, <2>3, InvByIdle DEF Inv, TypeOK, Revs
<1>5. QED
  BY <1>2, <1>3, <1>4

\* A handler starts: its job runs, its row says so, and the loop waits for its first call.
LEMMA StartInv ==
    ASSUME Inv, NEW i \in Id, job[i].state = "pending", job' = Claimed(i), Applying(i),
           NEW pc \in {"image", "undo", "helm"}, worker' = [pc |-> pc, job |-> i],
           job[i].kind = IF pc = "image" THEN "deploy" ELSE IF pc = "undo" THEN "rollback" ELSE "helm",
           pc = "image" => ~degraded,
           UNCHANGED <<current, degraded, history, asking>>
    PROVE  Inv'
<1>0. job \in JobTable /\ row \in RowTable /\ Tables(job, row) /\ Fits(job, row, i)
  BY DEF Inv, Tables
<1>1. KeepsJob(job, job', i) /\ job'[i].state = "running" /\ job'[i].tag = job[i].tag
  BY <1>0, ClaimedFacts DEF Fits
<1>2. KeepsRow(row, row', i) /\ row'[i].status = "applying"
  BY <1>0, StatusFacts DEF Applying
<1>3. Tables(job', row')
  BY <1>0, <1>1, <1>2, ChangeKeeps DEF Active
<1>4. worker'.pc = pc /\ worker'.job = i /\ i # 0 /\ Waiting'
  BY DEF Waiting, Id
<1>5. TypeOK'
  <2>1. job' \in [Id -> Job] /\ row' \in [Id -> Row]
    BY <1>1, <1>2 DEF KeepsJob, KeepsRow, JobTable, RowTable
  <2>2. worker' \in [pc : {"idle", "image", "gate", "history", "undo", "status", "helm"},
                     job : {0} \cup Id]
    OBVIOUS
  <2>3. job'[i].kind = job[i].kind
    BY <1>1 DEF KeepsJob
  <2>4. QED
    BY <1>1, <1>4, <2>1, <2>2, <2>3 DEF Inv, TypeOK
<1>6. WorkerInv'
  BY <1>2, <1>4 DEF WorkerInv, DeployPc
<1>7. QED
  BY <1>3, <1>5, <1>6 DEF Inv

LEMMA StartKeepsInv ==
    ASSUME Inv, NEW i \in Id, StartDeploy(i) \/ StartRollback(i) \/ StartHelm(i) PROVE Inv'
<1>1. job[i].state = "pending" /\ worker.pc = "idle"
  BY DEF StartDeploy, StartRollback, StartHelm, Claimable, Due
<1>2. CASE StartDeploy(i) /\ RefusesDeploys
  <2>0. job \in JobTable /\ row \in RowTable /\ Tables(job, row) /\ Fits(job, row, i)
    BY DEF Inv, Tables
  <2>1. KeepsJob(job, Claimed(i), i) /\ Claimed(i) \in JobTable
    BY <1>1, <2>0, ClaimedFacts DEF Fits, KeepsJob
  <2>2. KeepsJob(Claimed(i), job', i) /\ job'[i].state = "failed"
    BY <1>2, <2>1, RefusedFacts DEF StartDeploy
  <2>3. KeepsJob(job, job', i)
    BY <2>1, <2>2 DEF KeepsJob
  <2>4. KeepsRow(row, row', i) /\ row'[i].status = "failed"
    BY <1>2, <2>0, StatusFacts DEF StartDeploy
  <2>5. Tables(job', row')
    BY <1>1, <2>0, <2>2, <2>3, <2>4, ChangeKeeps DEF Active
  <2>6. worker' = Idle
    BY <1>1, <1>2 DEF StartDeploy, Inv, TypeOK, Waiting, Idle
  <2>7. QED
    BY <1>2, <2>5, <2>6, InvByIdle DEF StartDeploy, Inv, TypeOK, Revs
<1>3. CASE StartDeploy(i) /\ ~RefusesDeploys
  BY <1>1, <1>3, StartInv DEF StartDeploy, RefusesDeploys
<1>4. CASE StartRollback(i)
  BY <1>1, <1>4, StartInv DEF StartRollback
<1>5. CASE StartHelm(i)
  BY <1>1, <1>5, StartInv DEF StartHelm
<1>6. QED
  BY <1>2, <1>3, <1>4, <1>5

LEMMA LiveFacts == ASSUME TypeOK PROVE Live \in Tag /\ history \in Seq(Revs) /\ history # <<>>
<1>1. history \in Seq(Revs) /\ history # <<>>
  BY DEF TypeOK, Revs
<1>2. history[Len(history)] \in Revs
  BY <1>1
<1>3. QED
  BY <1>1, <1>2 DEF Live, Revs

\* A handler ends, or fails and will be tried again.
LEMMA SettledInv ==
    ASSUME Inv, Waiting, KeepsJob(job, job', worker.job), KeepsRow(row, row', worker.job),
           job'[worker.job].state \in {"done", "failed", "pending", "running"},
           row'[worker.job].status \in {"done", "failed", "applying"},
           job'[worker.job].state \in Active => job'[worker.job].tag = job[worker.job].tag,
           job'[worker.job].state = "pending" => job'[worker.job].attempts < job'[worker.job].max,
           current' \in Tag \cup {Revision, None}, degraded' \in BOOLEAN, asking' \in BOOLEAN,
           history' \in Seq(Revs), history' # <<>>, worker' = Idle
    PROVE  Inv'
<1>1. worker.job \in Id /\ job[worker.job].state = "running" /\ Tables(job, row)
  BY WaitingFacts DEF Inv
<1>2. Tables(job', row')
  BY <1>1, ChangeKeeps DEF Active
<1>3. QED
  BY <1>2, InvByIdle

LEMMA DeployFailsInv ==
    ASSUME Inv, Waiting, DeployFails, UNCHANGED <<current, degraded, asking>>,
           history' \in Seq(Revs), history' # <<>>
    PROVE  Inv'
<1>1. worker.job \in Id /\ job \in JobTable /\ row \in RowTable
  BY WaitingFacts DEF Inv, Tables
<1>2. KeepsRow(row, row', worker.job) /\ row'[worker.job].status = "failed"
  BY <1>1, StatusFacts DEF DeployFails
<1>3. /\ KeepsJob(job, job', worker.job) /\ job'[worker.job].state \in {"failed", "pending"}
      /\ job'[worker.job].state = "pending" =>
           /\ job'[worker.job].tag = job[worker.job].tag
           /\ job'[worker.job].attempts < job'[worker.job].max
  BY <1>1, FailedFacts DEF DeployFails
<1>4. QED
  BY <1>2, <1>3, SettledInv DEF DeployFails, Active, Inv, TypeOK

LEMMA RollbackFailsInv ==
    ASSUME Inv, worker.pc \in {"undo", "status"}, RollbackFails, UNCHANGED <<row, current, asking>>,
           history' \in Seq(Revs), history' # <<>>
    PROVE  Inv'
<1>1. /\ worker.job \in Id /\ job \in JobTable /\ row \in RowTable /\ Waiting
      /\ row[worker.job].status = "applying"
  BY WaitingFacts DEF Inv, Tables, Waiting
<1>2. KeepsRow(row, row', worker.job) /\ row'[worker.job].status = "applying"
  BY <1>1 DEF KeepsRow
<1>3. /\ KeepsJob(job, job', worker.job) /\ job'[worker.job].state \in {"failed", "pending"}
      /\ job'[worker.job].state = "pending" =>
           /\ job'[worker.job].tag = job[worker.job].tag
           /\ job'[worker.job].attempts < job'[worker.job].max
  BY <1>1, FailedFacts DEF RollbackFails
<1>4. degraded' \in BOOLEAN
  BY <1>1 DEF RollbackFails, Degrades, Inv, TypeOK
<1>5. QED
  BY <1>1, <1>2, <1>3, <1>4, SettledInv DEF RollbackFails, Active, Inv, TypeOK

\* The image is in the cluster, the gate has failed without a target, the undo was taken:
\* the same job goes on.
LEMMA AdvancesInv ==
    ASSUME Inv, Waiting, UNCHANGED <<job, current, degraded, asking>>,
           NEW pc, worker' = At(pc),
           history' \in Seq(Revs), history' # <<>>,
           \/ worker.pc = "image" /\ pc = "gate" /\ row' = row /\ Live' = job[worker.job].tag
           \/ /\ worker.pc = "gate" /\ pc = "history"
              /\ row' = Status(row, worker.job, "failed") /\ history' = history
              /\ \A i \in Id : ~AutoActive(job, i)
           \/ worker.pc = "undo" /\ pc = "status" /\ row' = row
    PROVE  Inv'
<1>1. /\ worker.job \in Id /\ job[worker.job].state = "running" /\ Tables(job, row)
      /\ job \in JobTable /\ row \in RowTable
      /\ row[worker.job].status = "applying"
  BY WaitingFacts DEF Inv, Tables
<1>2. worker'.pc = pc /\ worker'.job = worker.job /\ Waiting'
  BY DEF At, Inv, TypeOK, Waiting
<1>3. /\ KeepsRow(row, row', worker.job)
      /\ row'[worker.job].status = IF pc = "history" THEN "failed" ELSE "applying"
  <2>1. CASE pc = "history"
    <3>1. row' = Status(row, worker.job, "failed")
      BY <2>1
    <3>2. QED
      BY <1>1, <2>1, <3>1, StatusFacts
  <2>2. CASE pc # "history"
    BY <1>1, <2>2 DEF KeepsRow
  <2>3. QED
    BY <2>1, <2>2
<1>4. KeepsJob(job, job', worker.job)
  BY <1>1 DEF KeepsJob
<1>5. Tables(job', row')
  BY <1>1, <1>3, <1>4, ChangeKeeps DEF Active
<1>6. TypeOK'
  <2>1. job' \in [Id -> Job] /\ row' \in [Id -> Row]
    BY <1>5 DEF Tables, JobTable, RowTable
  <2>2. worker' \in [pc : {"idle", "image", "gate", "history", "undo", "status", "helm"},
                     job : {0} \cup Id]
    BY DEF At, Inv, TypeOK
  <2>3. QED
    BY <1>2, <2>1, <2>2 DEF Inv, TypeOK, Waiting, Revs
<1>7. WorkerInv'
  BY <1>2, <1>3, WaitingFacts DEF WorkerInv, DeployPc, Live, AutoActive
<1>8. QED
  BY <1>5, <1>6, <1>7 DEF Inv

NoAutoActive == \A k \in Id : ~AutoActive(job, k)

\* A deploy that the gate failed ends, or dies half-way, and hyper asks for its rollback.
LEMMA AutoRollbackTables ==
    ASSUME Inv, worker.pc \in {"gate", "history"}, NoAutoActive, Fresh # {},
           NEW q, KeepsJob(job, q, worker.job), q[worker.job].state \in {"failed", "running"},
           q[worker.job].state = "running" => q[worker.job].tag = job[worker.job].tag,
           NEW t \in Tag \cup {Revision, None}, NEW u \in Tag \cup {Revision, None}, NEW rev \in Nat,
           NEW cause \in {0, worker.job},
           cause # 0 => q[worker.job].state = "failed"
    PROVE  Tables(Enqueued(q, NextId, Rollback(t, rev, TRUE, cause)),
                  Recorded(Status(row, worker.job, "failed"), NextId, u))
<1> DEFINE r == Status(row, worker.job, "failed")
           j == Rollback(t, rev, TRUE, cause)
<1>1. /\ worker.job \in Id /\ job[worker.job].state = "running" /\ Tables(job, row)
      /\ row \in RowTable /\ row[worker.job].status # "absent"
  BY WaitingFacts DEF Inv, Tables, Waiting
<1>2. KeepsRow(row, r, worker.job) /\ r[worker.job].status = "failed"
  BY <1>1, StatusFacts
<1> HIDE DEF r
<1>3. Tables(q, r)
  BY <1>1, <1>2, ChangeKeeps DEF Active
<1>4. NextId \in Id /\ r[NextId].status = "absent"
  BY <1>1, <1>2, NextIdIsFresh DEF KeepsRow
<1>5. \A k \in Id : ~AutoActive(q, k)
  BY <1>1 DEF NoAutoActive, AutoActive, KeepsJob, Active
<1>6. MayAsk(q, j, u)
  <2>1. cause # 0 => q[cause].state \notin Active \cup {"absent"}
    BY <1>1 DEF Active
  <2>2. cause \in {0} \cup Id
    BY <1>1
  <2>3. QED
    BY <1>5, <2>1, <2>2, RollbackFacts
<1> HIDE DEF j
<1>7. Tables(Enqueued(q, NextId, j), Recorded(r, NextId, u))
  BY <1>3, <1>4, <1>6, NewKeeps
<1>8. QED
  BY <1>7 DEF r, j

LEMMA EnqueueAutoRollbackInv ==
    ASSUME Inv, worker.pc \in {"gate", "history"}, NoAutoActive,
           NEW t \in Tag \cup {Revision, None}, NEW rev \in Nat, EnqueueAutoRollback(t, rev),
           worker' = Idle, UNCHANGED <<current, degraded, history, asking>>
    PROVE  Inv'
<1> DEFINE q == Failed(NoRetry(job, worker.job), worker.job)
           u == IF rev = 0 THEN t ELSE Revision
<1>1. worker.job \in Id /\ worker.job # 0 /\ job \in JobTable
  BY WaitingFacts DEF Inv, Tables, Waiting
<1>2. KeepsJob(job, q, worker.job) /\ q[worker.job].state = "failed"
  BY <1>1, RefusedFacts
<1>3. /\ Fresh # {} /\ job' = Enqueued(q, NextId, Rollback(t, rev, TRUE, worker.job))
      /\ row' = Recorded(Status(row, worker.job, "failed"), NextId, u)
  BY DEF EnqueueAutoRollback
<1>4. u \in Tag \cup {Revision, None}
  OBVIOUS
<1> HIDE DEF q, u
<1>5. Tables(job', row')
  BY <1>2, <1>3, <1>4, AutoRollbackTables
<1>6. QED
  BY <1>5, InvByIdle DEF Inv, TypeOK, Revs

LEMMA NoneActive == ASSUME ~HasActive("rollback") PROVE NoAutoActive
BY DEF HasActive, NoAutoActive, AutoActive

LEMMA DeployStepsKeepInv ==
    ASSUME Inv, SetImage \/ RolloutFails \/ DeployCommits \/ GateFails \/ TargetAnswers
    PROVE  Inv'
<1> DEFINE w == worker.job
<1>0. /\ Waiting /\ worker.job \in Id /\ job \in JobTable /\ row \in RowTable
      /\ job[worker.job].kind = "deploy" /\ job[worker.job].tag \in Tag /\ TypeOK
      /\ worker.pc \in DeployPc
  <2>1. Waiting /\ worker.pc \in DeployPc
    BY DEF Waiting, DeployPc, SetImage, RolloutFails, DeployCommits, GateFails, TargetAnswers
  <2>2. QED
    BY <2>1, WaitingFacts DEF Inv, Tables
<1>1. /\ history \in Seq(Revs) /\ history # <<>>
      /\ Patched(history, job[w].tag) \in Seq(Revs) /\ Patched(history, job[w].tag) # <<>>
      /\ Patched(history, job[w].tag)[Len(Patched(history, job[w].tag))].tag = job[w].tag
  BY <1>0, LiveFacts, PatchedFacts
<1>2. CASE SetImage
  <2>1. CASE /\ history' = Patched(history, job[w].tag) /\ worker' = At("gate")
             /\ UNCHANGED <<job, row>>
    <3>1. Live' = job[w].tag
      BY <1>1, <2>1 DEF Live
    <3>2. QED
      BY <1>0, <1>1, <1>2, <2>1, <3>1, AdvancesInv DEF SetImage
  <2>2. CASE history' \in {history, Patched(history, job[w].tag)} /\ DeployFails
    BY <1>0, <1>1, <1>2, <2>2, DeployFailsInv DEF SetImage
  <2>3. QED
    BY <1>2, <2>1, <2>2 DEF SetImage
<1>3. CASE RolloutFails
  BY <1>0, <1>1, <1>3, DeployFailsInv DEF RolloutFails
<1>4. CASE DeployCommits
  <2>1. KeepsRow(row, row', worker.job) /\ row'[worker.job].status = "done"
    BY <1>0, <1>4, StatusFacts DEF DeployCommits
  <2>2. KeepsJob(job, job', worker.job) /\ job'[worker.job].state = "done"
    BY <1>0, <1>4, EndedFacts DEF DeployCommits, Completed
  <2>3. QED
    BY <1>0, <1>1, <1>4, <2>1, <2>2, SettledInv DEF DeployCommits, Active, TypeOK
<1>5. CASE GateFails
  <2> DEFINE target == PreviousDoneTag(current)
  <2>1. target \in Tag \cup {Revision, None}
    BY <1>0, PreviousDoneIsTag
  <2> HIDE DEF target
  <2>2. worker.pc = "gate" /\ UNCHANGED <<current, degraded, history, asking>>
    BY <1>5 DEF GateFails
  <2>3. CASE /\ row' = Status(row, worker.job, "failed")
             /\ job' = Failed(NoRetry(job, worker.job), worker.job)
             /\ worker' = Idle
    <3>1. KeepsRow(row, row', worker.job) /\ row'[worker.job].status = "failed"
      BY <1>0, <2>3, StatusFacts
    <3>2. KeepsJob(job, job', worker.job) /\ job'[worker.job].state = "failed"
      BY <1>0, <2>3, RefusedFacts
    <3>3. QED
      BY <1>0, <1>1, <2>2, <2>3, <3>1, <3>2, SettledInv DEF Active, TypeOK
  <2>4. CASE ~HasActive("rollback") /\ EnqueueAutoRollback(target, 0) /\ worker' = Idle
    BY <2>1, <2>2, <2>4, NoneActive, EnqueueAutoRollbackInv
  <2>5. CASE /\ ~HasActive("rollback")
             /\ row' = Status(row, worker.job, "failed") /\ worker' = At("history")
             /\ UNCHANGED job
    BY <1>0, <1>1, <2>2, <2>5, NoneActive, AdvancesInv DEF NoAutoActive
  <2>6. QED
    BY <1>5, <2>3, <2>4, <2>5 DEF GateFails, target
<1>6. CASE TargetAnswers
  <2>1. CASE DeployFails
    BY <1>0, <1>1, <1>6, <2>1, DeployFailsInv DEF TargetAnswers
  <2>2. CASE HasPrevious(history) /\ EnqueueAutoRollback(None, Previous(history).rev)
    <3>1. Previous(history).rev \in Nat
      BY <1>1, <2>2, PreviousFacts
    <3>2. NoAutoActive
      BY <1>0, <1>6, WaitingFacts DEF TargetAnswers, NoAutoActive
    <3>3. QED
      BY <1>6, <2>2, <3>1, <3>2, EnqueueAutoRollbackInv DEF TargetAnswers
  <2>3. QED
    BY <1>6, <2>1, <2>2 DEF TargetAnswers
<1>7. QED
  BY <1>2, <1>3, <1>4, <1>5, <1>6

LEMMA RollbackStepsKeepInv ==
    ASSUME Inv, Undo \/ StatusFails \/ RollbackCommits PROVE Inv'
<1>0. /\ Waiting /\ worker.job \in Id /\ job \in JobTable /\ row \in RowTable
      /\ job[worker.job].rev \in Nat /\ TypeOK /\ worker.pc \in {"undo", "status"}
  <2>1. Waiting /\ worker.pc \in {"undo", "status"}
    BY DEF Waiting, Undo, StatusFails, RollbackCommits
  <2>2. QED
    BY <2>1, WaitingFacts DEF Inv, Tables, Job
<1>1. Live \in Tag /\ history \in Seq(Revs) /\ history # <<>>
  BY <1>0, LiveFacts
<1>2. CASE Undo
  <2> DEFINE n == job[worker.job].rev
  <2>1. CanUndo(history, n) => Undone(history, n) \in Seq(Revs) /\ Undone(history, n) # <<>>
    BY <1>0, <1>1, UndoneFacts
  <2>2. CASE /\ CanUndo(history, n) /\ history' = Undone(history, n)
             /\ worker' = At("status") /\ UNCHANGED <<job, degraded>>
    BY <1>0, <1>2, <2>1, <2>2, AdvancesInv DEF Undo
  <2>3. CASE /\ RollbackFails
             /\ \/ UNCHANGED history
                \/ CanUndo(history, n) /\ history' = Undone(history, n)
    BY <1>0, <1>1, <1>2, <2>1, <2>3, RollbackFailsInv DEF Undo
  <2>4. QED
    BY <1>2, <2>2, <2>3 DEF Undo
<1>3. CASE StatusFails
  BY <1>0, <1>1, <1>3, RollbackFailsInv DEF StatusFails
<1>4. CASE RollbackCommits
  <2>1. PICK got \in {Live, None} : Finalized(worker.job, FinalTag(job[worker.job].tag, got))
    BY <1>4 DEF RollbackCommits
  <2>2. KeepsRow(row, row', worker.job) /\ row'[worker.job].status = "done"
    BY <1>0, <2>1, StatusFacts DEF Finalized
  <2>3. KeepsJob(job, job', worker.job) /\ job'[worker.job].state = "done"
    BY <1>0, <1>4, EndedFacts DEF RollbackCommits, Completed
  <2>4. current' \in Tag \cup {Revision, None} /\ degraded' \in BOOLEAN
    BY <1>1, <2>1 DEF Finalized, FinalTag
  <2>5. QED
    BY <1>0, <1>1, <1>4, <2>2, <2>3, <2>4, SettledInv DEF RollbackCommits, Active, TypeOK
<1>5. QED
  BY <1>2, <1>3, <1>4

LEMMA HelmKeepsInv == ASSUME Inv, HelmUpgrade PROVE Inv'
<1>0. /\ Waiting /\ worker.job \in Id /\ job \in JobTable /\ row \in RowTable
      /\ job[worker.job].tag \in Tag /\ row[worker.job].status = "applying" /\ TypeOK
  <2>1. Waiting /\ worker.pc = "helm"
    BY DEF Waiting, HelmUpgrade
  <2>2. QED
    BY <2>1, WaitingFacts DEF Inv, Tables, DeployPc
<1>1. history' \in Seq(Revs) /\ history' # <<>>
  <2>1. history \in Seq(Revs) /\ history # <<>>
    BY <1>0, LiveFacts
  <2>2. /\ Patched(history, job[worker.job].tag) \in Seq(Revs)
        /\ Patched(history, job[worker.job].tag) # <<>>
    BY <1>0, <2>1, PatchedFacts
  <2>3. QED
    BY <2>1, <2>2 DEF HelmUpgrade
<1>2. CASE /\ current' = job[worker.job].tag
           /\ row' = Status(row, worker.job, "done") /\ job' = Completed(job, worker.job)
  <2>1. KeepsRow(row, row', worker.job) /\ row'[worker.job].status = "done"
    BY <1>0, <1>2, StatusFacts
  <2>2. KeepsJob(job, job', worker.job) /\ job'[worker.job].state = "done"
    BY <1>0, <1>2, EndedFacts DEF Completed
  <2>3. QED
    BY <1>0, <1>1, <1>2, <2>1, <2>2, SettledInv DEF HelmUpgrade, Active, TypeOK
<1>3. CASE job' = Failed(job, worker.job) /\ UNCHANGED <<row, current>>
  <2>1. KeepsRow(row, row', worker.job) /\ row'[worker.job].status = "applying"
    BY <1>0, <1>3 DEF KeepsRow
  <2>2. /\ KeepsJob(job, job', worker.job) /\ job'[worker.job].state \in {"failed", "pending"}
        /\ job'[worker.job].state = "pending" =>
             /\ job'[worker.job].tag = job[worker.job].tag
             /\ job'[worker.job].attempts < job'[worker.job].max
    BY <1>0, <1>3, FailedFacts
  <2>3. QED
    BY <1>0, <1>1, <1>3, <2>1, <2>2, SettledInv DEF HelmUpgrade, Active, TypeOK
<1>4. QED
  BY <1>2, <1>3 DEF HelmUpgrade

LEMMA CrashesKeepInv ==
    ASSUME Inv, Crash \/ CrashBeforeNoRetry \/ CrashBeforeComplete PROVE Inv'
<1>0. TypeOK /\ history \in Seq(Revs) /\ history # <<>> /\ Live \in Tag /\ Tables(job, row)
  BY LiveFacts DEF Inv
<1>1. CASE Crash
  <2>1. /\ Tables(job', row') /\ UNCHANGED <<current, degraded>>
        /\ worker' = Idle /\ asking' = FALSE
    BY <1>0, <1>1 DEF Crash
  <2>2. CASE UNCHANGED history
    BY <1>0, <2>1, <2>2, InvByIdle DEF TypeOK
  <2>3. CASE worker.pc \in {"image", "helm"} /\ history' = Patched(history, job[worker.job].tag)
    <3>1. job[worker.job].tag \in Tag
      BY <2>3, WaitingFacts DEF Waiting, DeployPc
    <3>2. QED
      BY <1>0, <2>1, <2>3, <3>1, PatchedFacts, InvByIdle DEF TypeOK
  <2>4. CASE /\ worker.pc = "undo" /\ CanUndo(history, job[worker.job].rev)
             /\ history' = Undone(history, job[worker.job].rev)
    <3>1. job[worker.job].rev \in Nat
      BY <2>4, WaitingFacts DEF Waiting, Job
    <3>2. QED
      BY <1>0, <2>1, <2>4, <3>1, UndoneFacts, InvByIdle DEF TypeOK
  <2>5. QED
    BY <1>1, <2>2, <2>3, <2>4 DEF Crash
<1>2. CASE CrashBeforeNoRetry
  <2> DEFINE t == PreviousDoneTag(current)
  <2>1. t \in Tag \cup {Revision, None}
    BY <1>0, PreviousDoneIsTag DEF Tables
  <2>2. /\ row' = Recorded(Status(row, worker.job, "failed"), NextId, t)
        /\ job' = Enqueued(job, NextId, Rollback(t, 0, TRUE, 0))
    BY <1>2 DEF CrashBeforeNoRetry
  <2>3. worker.pc = "gate" /\ Fresh # {} /\ NoAutoActive
    BY <1>2, NoneActive DEF CrashBeforeNoRetry
  <2>4. KeepsJob(job, job, worker.job) /\ job[worker.job].state = "running"
    BY <1>0, <2>3, WaitingFacts DEF KeepsJob, Tables, Waiting
  <2> HIDE DEF t
  <2>5. Tables(job', row')
    BY <2>1, <2>2, <2>3, <2>4, AutoRollbackTables
  <2>6. QED
    BY <1>0, <1>2, <2>5, InvByIdle DEF CrashBeforeNoRetry, TypeOK
<1>3. CASE CrashBeforeComplete
  <2>1. /\ Waiting /\ worker.job \in Id /\ job \in JobTable /\ row \in RowTable
        /\ job[worker.job].state = "running"
    BY <1>0, <1>3, WaitingFacts DEF CrashBeforeComplete, Tables, Waiting
  <2>2. row' = Status(row, worker.job, "done")
    BY <1>3 DEF CrashBeforeComplete, Finalized
  <2>3. KeepsRow(row, row', worker.job) /\ row'[worker.job].status = "done"
    BY <2>1, <2>2, StatusFacts
  <2>4. KeepsJob(job, job', worker.job) /\ job' = job
    BY <1>3, <2>1 DEF KeepsJob, CrashBeforeComplete
  <2>5. current' \in Tag \cup {Revision, None} /\ degraded' \in BOOLEAN
    <3>1. CASE worker.pc = "gate" /\ current' = job[worker.job].tag /\ UNCHANGED degraded
      BY <1>0, <3>1, WaitingFacts DEF TypeOK, Waiting, DeployPc
    <3>2. CASE Finalized(worker.job, FinalTag(job[worker.job].tag, Live))
      BY <1>0, <3>2 DEF Finalized, FinalTag
    <3>3. QED
      BY <1>3, <3>1, <3>2 DEF CrashBeforeComplete
  <2>6. QED
    BY <1>0, <1>3, <2>1, <2>3, <2>4, <2>5, SettledInv DEF CrashBeforeComplete, Active
<1>4. QED
  BY <1>1, <1>2, <1>3

LEMMA InvStep == Inv /\ [Next]_vars => Inv'
<1> SUFFICES ASSUME Inv, [Next]_vars PROVE Inv'
  OBVIOUS
<1>1. CASE UNCHANGED vars
  BY <1>1 DEF vars, Inv, TypeOK, Tables, Fits, WorkerInv, Waiting, Live, AutoActive
<1>2. CASE Next
  BY <1>2, RequestsKeepInv, TimePassesKeepsInv, StartKeepsInv, DeployStepsKeepInv,
     RollbackStepsKeepInv, HelmKeepsInv, CrashesKeepInv DEF Next
<1>3. QED
  BY <1>1, <1>2

LEMMA InvAlways == Spec => []Inv
<1>1. Init => Inv
  BY InvInit
<1>2. Inv /\ [Next]_vars => Inv'
  BY InvStep
<1>3. QED
  BY <1>1, <1>2, PTL DEF Spec

-------------------------------------------------------------------------------
(* The theorems.                                                           *)

\* The tables hold what their columns allow, no job exceeds its attempts, and a loop that
\* waits names a running job of the kind its handler is for: the row a handler updates
\* after an await is the row of the job it was started with.
THEOREM PipelineTypeCorrect == Spec => []TypeOK
<1>1. Inv => TypeOK
  BY DEF Inv
<1>2. QED
  BY <1>1, InvAlways, PTL

\* However many gates fail, requests are retried or cancelled and processes die between
\* two statements: at most one automatic rollback of the service is pending or running
\* (hasActiveJob before the enqueue in queue/handlers/deploy.ts).
THEOREM AutoRollbacksDoNotStack == Spec => []OneAutoRollback
<1>1. Inv => OneAutoRollback
  <2> SUFFICES ASSUME Inv PROVE OneAutoRollback
    OBVIOUS
  <2> DEFINE S == {i \in Id : AutoJob(i) /\ job[i].state \in Active}
  <2>1. \A i, k \in S : i = k
    BY DEF Inv, Tables, AutoActive, AutoJob
  <2> HIDE DEF S
  <2>2. CASE S = {}
    BY <2>2, FS_EmptySet DEF OneAutoRollback, S
  <2>3. CASE S # {}
    <3>1. PICK i \in S : S = {i}
      BY <2>1, <2>3
    <3>2. Cardinality(S) = 1
      BY <3>1, FS_Singleton
    <3>3. QED
      BY <3>2 DEF OneAutoRollback, S
  <2>4. QED
    BY <2>2, <2>3
<1>2. QED
  BY <1>1, InvAlways, PTL

Completes == \E i \in Id : job[i].state = "running" /\ job'[i].state = "done"

LEMMA OthersCompleteNothing ==
    ASSUME NEW q \in JobTable, NEW q2, NEW i, KeepsJob(q, q2, i), i \in Id, q2[i].state # "done"
    PROVE  \A k \in Id : q2[k].state = "done" => q[k].state = "done"
BY DEF KeepsJob

LEMMA NewJobsAreNotDone ==
    ASSUME NEW q \in JobTable, NEW n \in Id, NEW j, j \in Job
    PROVE  \A k \in Id : Enqueued(q, n, j)[k].state = "done" => q[k].state = "done"
<1>1. [j EXCEPT !.state = "pending"].state = "pending"
  BY DEF Job
<1>2. QED
  BY <1>1 DEF Enqueued, JobTable

\* A job is made done only by the handler that has just recorded its outcome.
LEMMA WhoCompletes ==
    ASSUME Inv, Next, Completes
    PROVE  \/ DeployCommits \/ RollbackCommits
           \/ HelmUpgrade /\ HelmTookEffect(history') /\ current' = job[worker.job].tag
<1>0. job \in JobTable /\ row \in RowTable /\ TypeOK /\ history \in Seq(Revs)
  BY DEF Inv, Tables, TypeOK, Revs
<1>1. ASSUME NEW n \in Id, NEW j \in Job, job' = Enqueued(job, n, j) PROVE FALSE
  BY <1>0, <1>1, NewJobsAreNotDone DEF Completes
<1>2. ASSUME NEW i \in Id, KeepsJob(job, job', i), job'[i].state # "done" PROVE FALSE
  BY <1>0, <1>2, OthersCompleteNothing DEF Completes
<1>3. job' # job
  BY DEF Completes
<1>4. ASSUME NEW i \in Id, job' = Failed(job, i) PROVE FALSE
  BY <1>0, <1>2, <1>4, FailedFacts
<1>5. ASSUME NEW i \in Id, job' = Failed(NoRetry(job, i), i) PROVE FALSE
  BY <1>0, <1>2, <1>5, RefusedFacts
<1>6. Waiting => worker.job \in Id
  BY WaitingFacts
<1>7. ASSUME NEW t, NEW rev \in Nat, t \in Tag \cup {Revision, None}, Fresh # {},
             NEW q \in JobTable, NEW auto \in BOOLEAN, NEW cause \in {0} \cup Id,
             job' = Enqueued(q, NextId, Rollback(t, rev, auto, cause)),
             \A k \in Id : q[k].state = "done" => job[k].state = "done"
      PROVE  FALSE
  <2>1. Rollback(t, rev, auto, cause) \in Job
    BY <1>7, NoJobFacts DEF Rollback, Job, Kinds
  <2>2. NextId \in Id
    BY <1>7, NextIdIsFresh
  <2>3. \A k \in Id : job'[k].state = "done" => q[k].state = "done"
    BY <1>7, <2>1, <2>2, NewJobsAreNotDone
  <2>4. QED
    BY <1>7, <2>3 DEF Completes
<1>8. ASSUME NEW t, NEW rev \in Nat, t \in Tag \cup {Revision, None},
             EnqueueAutoRollback(t, rev), Waiting
      PROVE  FALSE
  <2> DEFINE q == Failed(NoRetry(job, worker.job), worker.job)
  <2>1. KeepsJob(job, q, worker.job) /\ q[worker.job].state = "failed"
    BY <1>0, <1>6, <1>8, RefusedFacts
  <2>2. job' = Enqueued(q, NextId, Rollback(t, rev, TRUE, worker.job)) /\ Fresh # {}
    BY <1>8 DEF EnqueueAutoRollback
  <2> HIDE DEF q
  <2>3. q \in JobTable /\ \A k \in Id : q[k].state = "done" => job[k].state = "done"
    BY <1>0, <1>6, <1>8, <2>1, OthersCompleteNothing DEF KeepsJob
  <2>4. QED
    BY <1>6, <1>7, <1>8, <2>2, <2>3
<1>9. PreviousDoneTag(current) \in Tag \cup {Revision, None}
  BY <1>0, PreviousDoneIsTag
<1>10. HasPrevious(history) => Previous(history).rev \in Nat
  BY <1>0, PreviousFacts
<1>11. ASSUME NEW t \in Tag,
              \/ Fresh # {} /\ job' = Enqueued(job, NextId, [NoJob EXCEPT !.tag = t, !.due = TRUE])
              \/ PostHelm(t)
       PROVE  FALSE
  <2>1. /\ [NoJob EXCEPT !.tag = t, !.due = TRUE] \in Job
        /\ [NoJob EXCEPT !.kind = "helm", !.tag = t, !.due = TRUE] \in Job
    BY NoJobFacts DEF Job, Kinds
  <2>2. QED
    BY <1>1, <1>11, <2>1, NextIdIsFresh DEF PostHelm
<1>12. ~ \/ \E t \in Asked : PostDeploy(t)
         \/ \E t \in AskedHelm : PostHelm(t)
         \/ \E n \in Notices : PushWebhook(n)
  BY <1>11, PushedIsAsked, PipelineAssumption DEF PostDeploy, PushWebhook
<1>13. ~ (PostRollback \/ AskHistory \/ HistoryAnswers \/ Undegrade)
  BY <1>0, <1>3, <1>7, <1>9, <1>10 DEF PostRollback, AskHistory, HistoryAnswers, Undegrade
<1>14. ASSUME NEW i \in Id PROVE ~CancelAutoRollback(i) /\ ~BecomesDue(i) /\ ~Reap(i)
  <2>1. ~CancelAutoRollback(i)
    BY <1>0, <1>2, EndedFacts DEF CancelAutoRollback
  <2>2. ASSUME NEW j \in Job, job' = [job EXCEPT ![i] = j], j.state # "done" PROVE FALSE
    BY <1>0, <2>2 DEF Completes, JobTable
  <2>3. job[i] \in Job
    BY <1>0 DEF JobTable
  <2>4. ~BecomesDue(i)
    <3> DEFINE j == [job[i] EXCEPT !.due = TRUE]
    <3>1. j \in Job /\ j.state = job[i].state
      BY <2>3 DEF Job
    <3>2. BecomesDue(i) => job' = [job EXCEPT ![i] = j] /\ job[i].state = "pending"
      BY DEF BecomesDue
    <3> HIDE DEF j
    <3>3. QED
      BY <2>2, <3>1, <3>2
  <2>5. ~Reap(i)
    <3> DEFINE j == [job[i] EXCEPT !.state = "pending", !.due = TRUE]
    <3>1. j \in Job /\ j.state = "pending"
      BY <2>3 DEF Job, Active
    <3>2. Reap(i) => job' = Ended(job, i, "dead") \/ job' = [job EXCEPT ![i] = j]
      BY DEF Reap
    <3> HIDE DEF j
    <3>3. QED
      BY <1>0, <1>2, <2>2, <3>1, <3>2, EndedFacts
  <2>6. QED
    BY <2>1, <2>4, <2>5
<1>15. ASSUME NEW i \in Id PROVE ~StartDeploy(i) /\ ~StartRollback(i) /\ ~StartHelm(i)
  <2> SUFFICES ASSUME StartDeploy(i) \/ StartRollback(i) \/ StartHelm(i) PROVE FALSE
    OBVIOUS
  <2>1. Fits(job, row, i) /\ job[i].state = "pending"
    BY DEF StartDeploy, StartRollback, StartHelm, Claimable, Due, Inv, Tables
  <2>2. KeepsJob(job, Claimed(i), i) /\ Claimed(i)[i].state = "running" /\ Claimed(i) \in JobTable
    BY <1>0, <2>1, ClaimedFacts DEF Fits, KeepsJob
  <2>3. CASE job' = Claimed(i)
    BY <1>2, <2>2, <2>3
  <2>4. CASE job' = Failed(NoRetry(Claimed(i), i), i)
    <3>1. KeepsJob(Claimed(i), job', i) /\ job'[i].state = "failed"
      BY <2>2, <2>4, RefusedFacts
    <3>2. KeepsJob(job, job', i)
      BY <2>2, <3>1 DEF KeepsJob
    <3>3. QED
      BY <1>2, <3>1, <3>2
  <2>5. QED
    BY <2>3, <2>4 DEF StartDeploy, StartRollback, StartHelm
<1>16. ~SetImage /\ ~RolloutFails
  BY <1>3, <1>4, <1>6 DEF SetImage, RolloutFails, DeployFails, Waiting
<1>17. ~GateFails
  BY <1>3, <1>5, <1>6, <1>8, <1>9 DEF GateFails, Waiting
<1>18. ~TargetAnswers
  BY <1>4, <1>6, <1>8, <1>10 DEF TargetAnswers, DeployFails, Waiting
<1>19. ~Undo /\ ~StatusFails
  BY <1>3, <1>4, <1>6 DEF Undo, StatusFails, RollbackFails, Waiting
<1>20. ~Crash /\ ~CrashBeforeComplete
  BY <1>3 DEF Crash, CrashBeforeComplete
<1>21. ~CrashBeforeNoRetry
  BY <1>0, <1>7, <1>9 DEF CrashBeforeNoRetry
<1>22. CASE HelmUpgrade
  BY <1>4, <1>6, <1>22 DEF HelmUpgrade, Waiting
<1>23. QED
  BY <1>12, <1>13, <1>14, <1>15, <1>16, <1>17, <1>18, <1>19, <1>20, <1>21, <1>22 DEF Next

\* A deploy, a rollback or an upgrade that succeeds has recorded the tag that is live, or
\* that it is not known, also when a retry, a crash or an operator moved the cluster
\* meanwhile: "record the truth" (queue/handlers/rollback.ts).
THEOREM SuccessRecordsTheTruth == Spec => RecordedIsLive
<1>1. Inv /\ [Next]_vars => [Completes => current' \in {Live', Revision}]_vars
  <2> SUFFICES ASSUME Inv, Next, Completes PROVE current' \in {Live', Revision}
    BY DEF vars, Completes
  <2>1. Live \in Tag
    BY LiveFacts DEF Inv
  <2>2. CASE DeployCommits
    <3>1. Live = job[worker.job].tag
      BY <2>2, WaitingFacts DEF DeployCommits, Waiting
    <3>2. QED
      BY <2>2, <3>1 DEF DeployCommits, Live
  <2>3. CASE RollbackCommits
    <3>1. PICK got \in {Live, None} : current' = FinalTag(job[worker.job].tag, got)
      BY <2>3 DEF RollbackCommits, Finalized
    <3>2. Live' = Live
      BY <2>3 DEF RollbackCommits, Live
    <3>3. QED
      BY <2>1, <3>1, <3>2 DEF FinalTag
  <2>4. CASE HelmTookEffect(history') /\ current' = job[worker.job].tag
    BY <2>4 DEF HelmTookEffect, Live
  <2>5. QED
    BY <2>2, <2>3, <2>4, WhoCompletes
<1>2. QED
  BY <1>1, InvAlways, PTL DEF Spec, RecordedIsLive, Completes

\* Whatever is queued, retried or interrupted, the image a deploy sets goes to a service
\* that is not degraded, and never for a deploy that a rollback of hyper's own has ended:
\* "a retry would just re-apply it and race the rollback" (queue/handlers/deploy.ts).
THEOREM BadImagesStayAway == Spec => BadImageNotReapplied
<1>1. Inv => (MovesCluster("image") => ~degraded /\ \A k \in Id : AutoJob(k) => job[k].cause # worker.job)
  <2> SUFFICES ASSUME Inv, worker.pc = "image"
               PROVE  ~degraded /\ \A k \in Id : AutoJob(k) => job[k].cause # worker.job
    BY DEF MovesCluster
  <2>1. ~degraded /\ worker.job \in Id /\ worker.job # 0 /\ job[worker.job].state = "running"
    BY WaitingFacts DEF Waiting, DeployPc
  <2>2. QED
    BY <2>1 DEF Inv, Tables, Fits, Active
<1>2. QED
  BY <1>1, InvAlways, PTL DEF BadImageNotReapplied

-------------------------------------------------------------------------------
(* The pipeline implements DeployContract.                                 *)

AllRequests(q, r) == [i \in Id |-> AsRequest(q, r, i)]

LEMMA RequestFacts ==
    ASSUME Inv, NEW i \in Id
    PROVE  /\ Requests[i].status = row[i].status
           /\ row[i].status # "absent" => /\ Requests[i].kind = job[i].kind
                                          /\ Requests[i].auto = job[i].auto
                                          /\ Requests[i].tag = row[i].tag
           /\ row[i].status = "absent" => ~Requests[i].auto
<1>1. Requests[i] = AsRequest(job, row, i)
  BY DEF Requests
<1>2. CASE row[i].status = "absent"
  <2>1. Requests[i] = [kind |-> "none", auto |-> FALSE, tag |-> Revision, status |-> "absent"]
    BY <1>1, <1>2 DEF AsRequest, Unasked
  <2>2. QED
    BY <1>2, <2>1
<1>3. CASE row[i].status # "absent"
  <2>1. Requests[i] = [kind |-> job[i].kind, auto |-> job[i].auto, tag |-> row[i].tag,
                       status |-> row[i].status]
    BY <1>1, <1>3 DEF AsRequest, Unasked
  <2>2. QED
    BY <1>3, <2>1
<1>4. QED
  BY <1>2, <1>3

\* One request changes how it stands.
LEMMA RequestStands ==
    ASSUME NEW q, NEW r, NEW q2, NEW r2, NEW i \in Id, r \in RowTable,
           KeepsJob(q, q2, i), KeepsRow(r, r2, i),
           r[i].status # "absent", r2[i].status # "absent"
    PROVE  /\ AllRequests(q2, r2) = [AllRequests(q, r) EXCEPT ![i].status = r2[i].status]
           /\ AllRequests(q2, r2)[i].status = r2[i].status
<1> DEFINE A == AllRequests(q, r)
           a == [A[i] EXCEPT !.status = r2[i].status]
<1>1. A[i] = [kind |-> q[i].kind, auto |-> q[i].auto, tag |-> r[i].tag, status |-> r[i].status]
  BY DEF AllRequests, AsRequest, Unasked
<1>2. a = [kind |-> q[i].kind, auto |-> q[i].auto, tag |-> r[i].tag, status |-> r2[i].status]
  BY <1>1
<1>3. AsRequest(q2, r2, i) = a
  BY <1>2 DEF AsRequest, Unasked, KeepsJob, KeepsRow
<1>4. \A k \in Id \ {i} : AsRequest(q2, r2, k) = A[k]
  BY DEF AllRequests, AsRequest, Unasked, KeepsJob, KeepsRow
<1>5. [A EXCEPT ![i].status = r2[i].status] = [A EXCEPT ![i] = a]
  OBVIOUS
<1>6. DOMAIN A = Id /\ AllRequests(q2, r2) = [k \in Id |-> AsRequest(q2, r2, k)]
  BY DEF AllRequests
<1>7. [A EXCEPT ![i] = a] = [k \in Id |-> IF k = i THEN a ELSE A[k]]
  <2> HIDE DEF a
  <2>1. A = [k \in Id |-> AsRequest(q, r, k)]
    BY DEF AllRequests
  <2>2. QED
    BY <2>1
<1> HIDE DEF A, a
<1>8. AllRequests(q2, r2) = [A EXCEPT ![i] = a]
  BY <1>3, <1>4, <1>6, <1>7
<1>9. AllRequests(q2, r2)[i].status = r2[i].status
  BY DEF AllRequests, AsRequest, Unasked
<1>10. QED
  BY <1>5, <1>8, <1>9 DEF A

\* A job may change without its request.
LEMMA RequestStays ==
    ASSUME NEW q, NEW r, NEW q2, NEW i \in Id, KeepsJob(q, q2, i)
    PROVE  AllRequests(q2, r) = AllRequests(q, r)
<1>1. \A k \in Id : AsRequest(q2, r, k) = AsRequest(q, r, k)
  BY DEF AsRequest, Unasked, KeepsJob
<1>2. QED
  BY <1>1 DEF AllRequests

\* A new request is asked for.
LEMMA RequestAsked ==
    ASSUME NEW q \in JobTable, NEW r \in RowTable, NEW n \in Id, NEW j \in Job, NEW t,
           NEW A, A = AllRequests(Enqueued(q, n, j), Recorded(r, n, t))
    PROVE  /\ \A k \in Id \ {n} : A[k] = AllRequests(q, r)[k]
           /\ A[n].status = "pending" /\ A[n].kind = j.kind /\ A[n].auto = j.auto
<1> DEFINE q2 == Enqueued(q, n, j)
           r2 == Recorded(r, n, t)
<1>1. /\ q2[n].kind = j.kind /\ q2[n].auto = j.auto /\ r2[n].status = "pending"
      /\ \A k \in Id \ {n} : q2[k] = q[k] /\ r2[k] = r[k]
  BY EnqueuedFacts, RecordedFacts
<1>2. A = AllRequests(q2, r2)
  OBVIOUS
<1> HIDE DEF q2, r2
<1>3. A[n] = [kind |-> q2[n].kind, auto |-> q2[n].auto, tag |-> r2[n].tag, status |-> "pending"]
  BY <1>1, <1>2 DEF AllRequests, AsRequest, Unasked
<1>4. \A k \in Id \ {n} : A[k] = AllRequests(q, r)[k]
  BY <1>1, <1>2 DEF AllRequests, AsRequest, Unasked
<1>5. QED
  BY <1>1, <1>3, <1>4

LEMMA OneChanges ==
    ASSUME NEW A, NEW B, A = [k \in Id |-> A[k]], B = [k \in Id |-> B[k]], NEW n \in Id,
           \A k \in Id \ {n} : A[k] = B[k]
    PROVE  A = [B EXCEPT ![n] = A[n]]
OBVIOUS

LEMMA AreTables ==
    ASSUME NEW q, NEW r
    PROVE  AllRequests(q, r) = [k \in Id |-> AllRequests(q, r)[k]]
BY DEF AllRequests

LEMMA RequestsAre == Requests = AllRequests(job, row) /\ Requests' = AllRequests(job', row')
BY DEF Requests, AllRequests, AsRequest, Unasked

\* Mapped step by step.
LEMMA AskMaps ==
    ASSUME Inv, Fresh # {}, NEW j \in Job, NEW t, ~j.auto, j.kind = "deploy" => ~degraded,
           row' = Recorded(row, NextId, t), job' = Enqueued(job, NextId, j),
           UNCHANGED <<current, degraded, history, worker>>
    PROVE  Contract!Next
<1>1. NextId \in Id /\ row[NextId].status = "absent" /\ job \in JobTable /\ row \in RowTable
  BY NextIdIsFresh DEF Inv, Tables
<1>2. /\ Requests' = [Requests EXCEPT ![NextId] = Requests'[NextId]]
      /\ Requests'[NextId].status = "pending" /\ Requests'[NextId].kind = j.kind
      /\ Requests'[NextId].auto = j.auto
  <2>1. Requests' = AllRequests(Enqueued(job, NextId, j), Recorded(row, NextId, t))
    BY RequestsAre
  <2>2. /\ \A k \in Id \ {NextId} : Requests'[k] = Requests[k]
        /\ Requests'[NextId].status = "pending" /\ Requests'[NextId].kind = j.kind
        /\ Requests'[NextId].auto = j.auto
    BY <1>1, <2>1, RequestAsked, RequestsAre
  <2>3. Requests = [k \in Id |-> Requests[k]] /\ Requests' = [k \in Id |-> Requests'[k]]
    BY AreTables, RequestsAre
  <2>4. Requests' = [Requests EXCEPT ![NextId] = Requests'[NextId]]
    BY <1>1, <2>2, <2>3, OneChanges
  <2>5. QED
    BY <2>2, <2>4
<1>3. j.auto = FALSE
  BY DEF Job
<1>4. Requests[NextId].status = "absent"
  BY <1>1, RequestFacts
<1>5. UNCHANGED <<worker.job, Live, current, degraded>>
  BY DEF Live
<1>6. Contract!Ask(NextId)
  BY <1>2, <1>3, <1>4, <1>5 DEF Contract!Ask, Contract!Asks
<1>7. QED
  BY <1>1, <1>6 DEF Contract!Next

LEMMA RequestsMap ==
    ASSUME Inv,
           \/ \E t \in Asked : PostDeploy(t)
           \/ \E t \in AskedHelm : PostHelm(t)
           \/ \E n \in Notices : PushWebhook(n)
           \/ PostRollback \/ AskHistory \/ HistoryAnswers \/ Undegrade
    PROVE  [Contract!Next]_(Contract!vars)
<1>0. TypeOK /\ job \in JobTable /\ row \in RowTable /\ history \in Seq(Revs)
  BY DEF Inv, Tables, TypeOK, Revs
<1>1. ASSUME NEW t \in Tag, Fresh # {}, ~degraded, row' = Recorded(row, NextId, t),
             job' = Enqueued(job, NextId, [NoJob EXCEPT !.tag = t, !.due = TRUE]),
             UNCHANGED <<current, degraded, history, worker, asking>>
      PROVE  Contract!Next
  <2> DEFINE j == [NoJob EXCEPT !.tag = t, !.due = TRUE]
  <2>1. j \in Job /\ ~j.auto /\ job' = Enqueued(job, NextId, j)
    BY <1>1, NoJobFacts DEF Job
  <2> HIDE DEF j
  <2>2. QED
    BY <1>1, <2>1, AskMaps
<1>2. ASSUME NEW t \in Asked, PostDeploy(t) PROVE Contract!Next
  BY <1>1, <1>2, PipelineAssumption DEF PostDeploy
<1>3. ASSUME NEW n \in Notices, PushWebhook(n) PROVE Contract!Next
  <2>1. Pushed(n).first \in Tag
    BY <1>3, PushedIsAsked, PipelineAssumption DEF PushWebhook
  <2>2. QED
    BY <1>1, <1>3, <2>1 DEF PushWebhook
<1>4. ASSUME NEW t \in AskedHelm, PostHelm(t) PROVE Contract!Next
  <2> DEFINE j == [NoJob EXCEPT !.kind = "helm", !.tag = t, !.due = TRUE]
  <2>0. t \in Tag
    BY PipelineAssumption
  <2>1. j \in Job /\ ~j.auto /\ j.kind = "helm" /\ job' = Enqueued(job, NextId, j)
    BY <1>4, <2>0, NoJobFacts DEF Job, Kinds, PostHelm
  <2> HIDE DEF j
  <2>2. QED
    BY <1>4, <2>1, AskMaps DEF PostHelm
<1>5. ASSUME NEW t \in Tag \cup {Revision, None}, NEW rev \in Nat, Fresh # {}, NEW u,
             row' = Recorded(row, NextId, u),
             job' = Enqueued(job, NextId, Rollback(t, rev, FALSE, 0)),
             UNCHANGED <<current, degraded, history, worker>>
      PROVE  Contract!Next
  <2> DEFINE j == Rollback(t, rev, FALSE, 0)
  <2>1. j \in Job /\ ~j.auto /\ j.kind = "rollback"
    BY NoJobFacts DEF Job, Kinds, Rollback
  <2>2. job' = Enqueued(job, NextId, j)
    BY <1>5
  <2> HIDE DEF j
  <2>3. QED
    BY <1>5, <2>1, <2>2, AskMaps
<1>6. ASSUME PostRollback PROVE Contract!Next
  <2> DEFINE t == PreviousDoneTag(current)
  <2>1. t \in Tag \cup {Revision, None}
    BY <1>0, PreviousDoneIsTag
  <2>2. /\ Fresh # {} /\ row' = Recorded(row, NextId, t)
        /\ job' = Enqueued(job, NextId, Rollback(t, 0, FALSE, 0))
        /\ UNCHANGED <<current, degraded, history, worker>>
    BY <1>6 DEF PostRollback
  <2> HIDE DEF t
  <2>3. QED
    BY <1>5, <2>1, <2>2
<1>7. ASSUME HistoryAnswers, job' # job \/ row' # row PROVE Contract!Next
  <2>1. HasPrevious(history) /\ Previous(history).rev \in Nat
    BY <1>0, <1>7, PreviousFacts DEF HistoryAnswers
  <2>2. /\ Fresh # {} /\ row' = Recorded(row, NextId, Revision)
        /\ job' = Enqueued(job, NextId, Rollback(None, Previous(history).rev, FALSE, 0))
        /\ UNCHANGED <<current, degraded, history, worker>>
    BY <1>7 DEF HistoryAnswers
  <2>3. QED
    BY <1>5, <2>1, <2>2
<1>8. ASSUME UNCHANGED <<job, row, current, degraded, history, worker>>
      PROVE  UNCHANGED Contract!vars
  BY <1>8, RequestsAre DEF Contract!vars, Live
<1>9. ASSUME Undegrade PROVE Contract!Next
  <2>1. Requests' = Requests /\ Live' = Live
    BY <1>9, RequestsAre DEF Undegrade, Live
  <2>2. Contract!Clear
    BY <1>9, <2>1 DEF Contract!Clear, Undegrade
  <2>3. QED
    BY <2>2 DEF Contract!Next
<1>10. QED
  BY <1>2, <1>3, <1>4, <1>6, <1>7, <1>8, <1>9 DEF AskHistory, HistoryAnswers

LEMMA TimePassesMaps ==
    ASSUME Inv, NEW i \in Id, CancelAutoRollback(i) \/ BecomesDue(i) \/ Reap(i)
    PROVE  [Contract!Next]_(Contract!vars)
<1>0. /\ job \in JobTable /\ row \in RowTable /\ Tables(job, row) /\ Fits(job, row, i)
      /\ job[i] \in Job
  BY DEF Inv, Tables, JobTable
<1>1. CASE CancelAutoRollback(i)
  <2>1. /\ job[i].state = "pending" /\ job[i].auto
        /\ KeepsJob(job, job', i)
        /\ KeepsRow(row, row', i) /\ row'[i].status = "cancelled"
    BY <1>0, <1>1, EndedFacts, StatusFacts DEF CancelAutoRollback, Cancellable
  <2>2. row[i].status # "absent" /\ row[i].status # "cancelled"
    BY <1>0, <2>1 DEF Fits, Active
  <2>3. Requests' = [Requests EXCEPT ![i].status = "cancelled"]
    BY <1>0, <2>1, <2>2, RequestStands, RequestsAre
  <2>4. worker.job # i
    BY <2>1, WaitingFacts DEF Inv, TypeOK, Id
  <2>5. Requests[i].auto /\ Requests[i].status # "cancelled"
    BY <2>1, <2>2, RequestFacts
  <2>6. Requests'[i].status = "cancelled"
    BY <1>0, <2>1, <2>2, RequestStands, RequestsAre
  <2>7. UNCHANGED <<worker.job, Live, current, degraded>>
    BY <1>1 DEF CancelAutoRollback, Live
  <2>8. Contract!Cancel(i)
    BY <2>3, <2>4, <2>5, <2>6, <2>7 DEF Contract!Cancel, Contract!Stands
  <2>9. QED
    BY <2>8 DEF Contract!Next
<1>2. CASE BecomesDue(i) \/ Reap(i)
  <2>1. row' = row /\ UNCHANGED <<current, degraded, history, worker, asking>>
    BY <1>2 DEF BecomesDue, Reap
  <2>2. KeepsJob(job, job', i)
    <3>1. CASE job' = Ended(job, i, "dead")
      BY <1>0, <3>1, EndedFacts
    <3>2. CASE job' = [job EXCEPT ![i].due = TRUE]
      <4> DEFINE j == [job[i] EXCEPT !.due = TRUE]
      <4>1. /\ j \in Job /\ j.kind = job[i].kind /\ j.auto = job[i].auto
            /\ j.cause = job[i].cause
        BY <1>0 DEF Job
      <4>2. job' = [job EXCEPT ![i] = j]
        BY <3>2
      <4> HIDE DEF j
      <4>3. QED
        BY <1>0, <4>1, <4>2 DEF KeepsJob, JobTable
    <3>3. CASE job' = [job EXCEPT ![i].state = "pending", ![i].due = TRUE]
      <4> DEFINE j == [job[i] EXCEPT !.state = "pending", !.due = TRUE]
      <4>1. /\ j \in Job /\ j.kind = job[i].kind /\ j.auto = job[i].auto
            /\ j.cause = job[i].cause
        BY <1>0 DEF Job, Active
      <4>2. job' = [job EXCEPT ![i] = j]
        BY <3>3
      <4> HIDE DEF j
      <4>3. QED
        BY <1>0, <4>1, <4>2 DEF KeepsJob, JobTable
    <3>4. QED
      BY <1>2, <3>1, <3>2, <3>3 DEF BecomesDue, Reap
  <2>3. Requests' = Requests
    BY <2>1, <2>2, RequestStays, RequestsAre
  <2>4. QED
    BY <2>1, <2>3 DEF Contract!vars, Live
<1>3. QED
  BY <1>1, <1>2

LEMMA StartMaps ==
    ASSUME Inv, NEW i \in Id, StartDeploy(i) \/ StartRollback(i) \/ StartHelm(i)
    PROVE  Contract!Next
<1>0. job \in JobTable /\ row \in RowTable /\ Tables(job, row) /\ Fits(job, row, i)
  BY DEF Inv, Tables
<1>1. job[i].state = "pending" /\ worker.pc = "idle" /\ worker.job = 0
  BY DEF StartDeploy, StartRollback, StartHelm, Claimable, Due, Inv, TypeOK, Waiting
<1>2. row[i].status # "absent" /\ row[i].status # "cancelled"
  BY <1>0, <1>1 DEF Fits, Active
<1>3. KeepsJob(job, Claimed(i), i) /\ Claimed(i) \in JobTable
  BY <1>0, <1>1, ClaimedFacts DEF Fits, KeepsJob
<1>4. Requests[i].status \notin {"absent", "cancelled"} /\ Requests[i].kind = job[i].kind
  BY <1>2, RequestFacts
<1>5. UNCHANGED <<Live, current, degraded>>
  BY DEF StartDeploy, StartRollback, StartHelm, Live
<1>6. CASE StartDeploy(i) /\ degraded
  <2>1. KeepsJob(Claimed(i), job', i)
    BY <1>3, <1>6, RefusedFacts DEF StartDeploy, RefusesDeploys
  <2>2. KeepsJob(job, job', i)
    BY <1>3, <2>1 DEF KeepsJob
  <2>3. KeepsRow(row, row', i) /\ row'[i].status = "failed"
    BY <1>0, <1>6, StatusFacts DEF StartDeploy, RefusesDeploys
  <2>4. Requests' = [Requests EXCEPT ![i].status = "failed"]
    BY <1>0, <1>2, <2>2, <2>3, RequestStands, RequestsAre
  <2>5. worker'.job = 0 /\ job[i].kind = "deploy"
    BY <1>1, <1>6 DEF StartDeploy, RefusesDeploys
  <2>6. Contract!Begin(i)
    BY <1>1, <1>4, <1>5, <1>6, <2>4, <2>5 DEF Contract!Begin, Contract!Stands
  <2>7. QED
    BY <2>6 DEF Contract!Next
<1>7. CASE ~ (StartDeploy(i) /\ degraded)
  <2>1. job' = Claimed(i) /\ row' = Status(row, i, "applying") /\ worker'.job = i
    BY <1>7 DEF StartDeploy, StartRollback, StartHelm, RefusesDeploys, Applying
  <2>2. KeepsRow(row, row', i) /\ row'[i].status = "applying"
    BY <1>0, <2>1, StatusFacts
  <2>3. Requests' = [Requests EXCEPT ![i].status = "applying"]
    BY <1>0, <1>2, <1>3, <2>1, <2>2, RequestStands, RequestsAre
  <2>4. ~(job[i].kind = "deploy" /\ degraded)
    BY <1>7 DEF StartDeploy, StartRollback, StartHelm
  <2>5. Contract!Begin(i)
    BY <1>1, <1>4, <1>5, <2>1, <2>3, <2>4 DEF Contract!Begin, Contract!Stands
  <2>6. QED
    BY <2>5 DEF Contract!Next
<1>8. QED
  BY <1>6, <1>7

LEMMA WorkingFacts ==
    ASSUME Inv, Waiting
    PROVE  /\ worker.job \in Id /\ worker.job # 0 /\ job \in JobTable /\ row \in RowTable
           /\ row[worker.job].status # "absent"
           /\ Requests[worker.job].status = row[worker.job].status
           /\ Requests[worker.job].kind = job[worker.job].kind
           /\ Requests[worker.job].auto = job[worker.job].auto
           /\ Requests[worker.job].tag = row[worker.job].tag
<1>1. /\ worker.job \in Id /\ worker.job # 0 /\ row[worker.job].status # "absent"
      /\ job \in JobTable /\ row \in RowTable
  BY WaitingFacts DEF Inv, Tables
<1>2. QED
  BY <1>1, RequestFacts

\* The image changes only under a request that is worked on, and to what that one asks for.
LEMMA ChangesAreAllowed ==
    ASSUME Inv, Waiting,
           \/ history' = history
           \/ worker.pc \in {"image", "helm"} /\ Live' = job[worker.job].tag
           \/ worker.pc = "undo"
    PROVE  Contract!MayChange
<1>1. CASE history' = history
  BY <1>1 DEF Contract!MayChange, Live
<1>2. CASE worker.pc \in {"image", "helm"} /\ Live' = job[worker.job].tag
  <2>1. /\ row[worker.job].status = "applying" /\ job[worker.job].kind # "rollback"
        /\ job[worker.job].kind = "deploy" => ~degraded
        /\ row[worker.job].tag = job[worker.job].tag
    BY <1>2, WaitingFacts DEF DeployPc
  <2>2. QED
    BY <1>2, <2>1, WorkingFacts DEF Contract!MayChange
<1>3. CASE worker.pc = "undo"
  <2>1. row[worker.job].status = "applying" /\ job[worker.job].kind = "rollback"
    BY <1>3, WaitingFacts DEF DeployPc
  <2>2. QED
    BY <2>1, WorkingFacts DEF Contract!MayChange
<1>4. QED
  BY <1>1, <1>2, <1>3

LEMMA FailMaps ==
    ASSUME Inv, Waiting, KeepsJob(job, job', worker.job), Contract!MayChange,
           \/ /\ job[worker.job].kind = "deploy"
              /\ KeepsRow(row, row', worker.job) /\ row'[worker.job].status = "failed"
           \/ job[worker.job].kind # "deploy" /\ row' = row,
           current' = current, degraded' = (degraded \/ job[worker.job].auto),
           worker'.job \in {0, worker.job}
    PROVE  Contract!Next
<1>1. CASE job[worker.job].kind = "deploy"
  <2>1. Requests' = [Requests EXCEPT ![worker.job].status = "failed"]
    BY <1>1, WorkingFacts, RequestStands, RequestsAre
  <2>2. Contract!Fail
    BY <1>1, <2>1, WorkingFacts DEF Contract!Fail, Contract!Stands
  <2>3. QED
    BY <2>2 DEF Contract!Next
<1>2. CASE job[worker.job].kind # "deploy"
  <2>1. Requests' = Requests
    BY <1>2, WorkingFacts, RequestStays, RequestsAre
  <2>2. Contract!Fail
    BY <1>2, <2>1, WorkingFacts DEF Contract!Fail
  <2>3. QED
    BY <2>2 DEF Contract!Next
<1>3. QED
  BY <1>1, <1>2

\* A deploy fails and hyper asks for its rollback.
LEMMA FailAsksMaps ==
    ASSUME Inv, worker.pc \in {"gate", "history"}, NoAutoActive, Fresh # {},
           NEW q \in JobTable, KeepsJob(job, q, worker.job), NEW j \in Job, NEW u,
           j.auto = TRUE, j.kind = "rollback",
           job' = Enqueued(q, NextId, j),
           row' = Recorded(Status(row, worker.job, "failed"), NextId, u),
           UNCHANGED <<current, degraded, history>>, worker' = Idle
    PROVE  Contract!Next
<1> DEFINE r == Status(row, worker.job, "failed")
           failed == [Requests EXCEPT ![worker.job].status = "failed"]
<1>0. Waiting /\ job[worker.job].kind = "deploy" /\ ~job[worker.job].auto
  <2>1. Waiting /\ worker.pc \in DeployPc
    BY DEF Waiting, DeployPc
  <2>2. QED
    BY <2>1, WaitingFacts
<1>1. KeepsRow(row, r, worker.job) /\ r[worker.job].status = "failed" /\ r \in RowTable
  BY <1>0, WorkingFacts, StatusFacts DEF KeepsRow
<1> HIDE DEF r
<1>2. AllRequests(q, r) = failed
  BY <1>0, <1>1, WorkingFacts, RequestStands, RequestsAre
<1>3. NextId \in Id /\ row[NextId].status = "absent" /\ Requests[NextId].status = "absent"
  BY NextIdIsFresh, RequestFacts
<1>4. /\ Requests' = [failed EXCEPT ![NextId] = Requests'[NextId]]
      /\ Requests'[NextId].status = "pending" /\ Requests'[NextId].kind = j.kind
      /\ Requests'[NextId].auto = j.auto
  <2>1. job' = Enqueued(q, NextId, j) /\ row' = Recorded(r, NextId, u)
    BY DEF r
  <2>2. Requests' = AllRequests(Enqueued(q, NextId, j), Recorded(r, NextId, u))
    BY <2>1, RequestsAre
  <2>3. /\ \A k \in Id \ {NextId} : Requests'[k] = AllRequests(q, r)[k]
        /\ Requests'[NextId].status = "pending" /\ Requests'[NextId].kind = j.kind
        /\ Requests'[NextId].auto = j.auto
    BY <1>1, <1>3, <2>2, RequestAsked
  <2> HIDE DEF failed
  <2>4. failed = [k \in Id |-> failed[k]] /\ Requests' = [k \in Id |-> Requests'[k]]
    BY <1>2, AreTables, RequestsAre
  <2>5. Requests' = [failed EXCEPT ![NextId] = Requests'[NextId]]
    BY <1>2, <1>3, <2>3, <2>4, OneChanges
  <2>6. QED
    BY <2>3, <2>5
<1>5. ASSUME NEW k \in Id, Requests[k].auto PROVE Requests[k].status # "pending"
  <2>1. row[k].status # "absent" /\ job[k].auto /\ Requests[k].status = row[k].status
    BY <1>5, RequestFacts
  <2>2. Fits(job, row, k)
    BY DEF Inv, Tables
  <2>3. QED
    BY <2>1, <2>2 DEF NoAutoActive, AutoActive, Fits, Active
<1>6. Requests'[NextId].auto = TRUE
  BY <1>4
<1>7. degraded' = (degraded \/ Requests[worker.job].auto)
  <2>1. ~Requests[worker.job].auto /\ degraded \in BOOLEAN
    BY <1>0, WorkingFacts DEF Inv, TypeOK
  <2>2. QED
    BY <2>1
<1>8. worker'.job = 0 /\ current' = current /\ Requests[worker.job].kind = "deploy"
  BY <1>0, WorkingFacts DEF Idle
<1>9. Contract!MayChange /\ worker.job # 0
  BY <1>0, ChangesAreAllowed, WorkingFacts
<1> HIDE DEF failed
<1>10. \E i \in Id : /\ Requests[i].status = "absent" /\ Contract!Asks(i, TRUE)
                     /\ Requests'[i].kind = "rollback"
                     /\ Requests' = [failed EXCEPT ![i] = Requests'[i]]
  BY <1>3, <1>4, <1>6 DEF Contract!Asks
<1>11. Contract!Fail
  BY <1>5, <1>7, <1>8, <1>9, <1>10 DEF Contract!Fail, Contract!Stands, failed
<1>12. QED
  BY <1>11 DEF Contract!Next

LEMMA CommitMaps ==
    ASSUME Inv, Waiting, worker.pc # "history", KeepsJob(job, job', worker.job),
           KeepsRow(row, row', worker.job), row'[worker.job].status = "done",
           Contract!MayChange, current' \in {Live', Revision},
           job[worker.job].kind = "deploy" => current' = job[worker.job].tag /\ current' \notin Bad,
           degraded' = (degraded /\ job[worker.job].kind # "rollback"),
           worker'.job = 0
    PROVE  Contract!Next
<1>1. Requests' = [Requests EXCEPT ![worker.job].status = "done"]
  BY WorkingFacts, RequestStands, RequestsAre
<1>2. row[worker.job].status = "applying"
  BY WaitingFacts
<1>3. job[worker.job].kind = "deploy" => row[worker.job].tag = job[worker.job].tag
  BY WaitingFacts
<1>4. Contract!Commit
  BY <1>1, <1>2, <1>3, WorkingFacts DEF Contract!Commit, Contract!Stands
<1>5. QED
  BY <1>4 DEF Contract!Next

LEMMA DeployFailsMaps ==
    ASSUME Inv, worker.pc \in DeployPc, DeployFails, UNCHANGED <<current, degraded>>,
           history' = history \/ (worker.pc = "image" /\ Live' = job[worker.job].tag)
    PROVE  Contract!Next
<1>1. Waiting
  BY DEF Waiting, DeployPc
<1>2. job[worker.job].kind = "deploy" /\ ~job[worker.job].auto
  BY <1>1, WaitingFacts
<1>3. KeepsRow(row, row', worker.job) /\ row'[worker.job].status = "failed"
  BY <1>1, WorkingFacts, StatusFacts DEF DeployFails
<1>4. KeepsJob(job, job', worker.job)
  BY <1>1, WorkingFacts, FailedFacts DEF DeployFails
<1>5. Contract!MayChange
  BY <1>1, ChangesAreAllowed
<1>6. degraded' = (degraded \/ job[worker.job].auto)
  BY <1>2 DEF Inv, TypeOK
<1>7. worker'.job = 0
  BY DEF DeployFails, Idle
<1>8. QED
  BY <1>1, <1>2, <1>3, <1>4, <1>5, <1>6, <1>7, FailMaps

LEMMA EnqueueAutoRollbackMaps ==
    ASSUME Inv, worker.pc \in {"gate", "history"}, NoAutoActive,
           NEW t \in Tag \cup {Revision, None}, NEW rev \in Nat, EnqueueAutoRollback(t, rev),
           worker' = Idle, UNCHANGED <<current, degraded, history>>
    PROVE  Contract!Next
<1> DEFINE q == Failed(NoRetry(job, worker.job), worker.job)
           j == Rollback(t, rev, TRUE, worker.job)
           u == IF rev = 0 THEN t ELSE Revision
<1>1. Waiting
  BY DEF Waiting
<1>2. KeepsJob(job, q, worker.job) /\ q \in JobTable
  BY <1>1, WorkingFacts, RefusedFacts DEF KeepsJob
<1>3. j \in Job /\ j.auto = TRUE /\ j.kind = "rollback"
  BY <1>1, WorkingFacts, NoJobFacts DEF Rollback, Job, Kinds
<1>4. /\ Fresh # {} /\ job' = Enqueued(q, NextId, j)
      /\ row' = Recorded(Status(row, worker.job, "failed"), NextId, u)
  BY DEF EnqueueAutoRollback
<1> HIDE DEF q, j, u
<1>5. QED
  BY <1>2, <1>3, <1>4, FailAsksMaps

LEMMA DeployStepsMap ==
    ASSUME Inv, SetImage \/ RolloutFails \/ DeployCommits \/ GateFails \/ TargetAnswers
    PROVE  Contract!Next
<1>0. /\ Waiting /\ worker.pc \in DeployPc /\ job[worker.job].kind = "deploy"
      /\ job[worker.job].tag \in Tag /\ ~job[worker.job].auto
  <2>1. Waiting /\ worker.pc \in DeployPc
    BY DEF Waiting, DeployPc, SetImage, RolloutFails, DeployCommits, GateFails, TargetAnswers
  <2>2. QED
    BY <2>1, WaitingFacts
<1>1. history \in Seq(Revs) /\ history # <<>> /\ TypeOK
  BY LiveFacts DEF Inv
<1>2. history' = Patched(history, job[worker.job].tag) => Live' = job[worker.job].tag
  BY <1>0, <1>1, PatchedFacts DEF Live
<1>3. degraded = (degraded \/ job[worker.job].auto)
  BY <1>0 DEF Inv, TypeOK
<1>4. CASE SetImage
  <2>1. CASE DeployFails
    <3>1. /\ UNCHANGED <<current, degraded>>
          /\ history' = history \/ (worker.pc = "image" /\ Live' = job[worker.job].tag)
      BY <1>2, <1>4 DEF SetImage
    <3>2. QED
      BY <1>0, <2>1, <3>1, DeployFailsMaps
  <2>2. CASE /\ history' = Patched(history, job[worker.job].tag) /\ worker' = At("gate")
             /\ UNCHANGED <<job, row>>
    <3>1. worker'.job = worker.job /\ UNCHANGED <<current, degraded>>
      BY <1>1, <1>4, <2>2 DEF At, SetImage, TypeOK
    <3>2. Requests' = Requests
      BY <2>2, RequestsAre
    <3>3. Contract!MayChange
      BY <1>0, <1>2, <1>4, <2>2, ChangesAreAllowed DEF SetImage
    <3>4. Contract!Proceed
      BY <1>0, <3>1, <3>2, <3>3, WorkingFacts DEF Contract!Proceed
    <3>5. QED
      BY <3>4 DEF Contract!Next
  <2>3. QED
    BY <1>4, <2>1, <2>2 DEF SetImage
<1>5. CASE RolloutFails
  <2>1. UNCHANGED <<current, degraded, history>> /\ DeployFails
    BY <1>5 DEF RolloutFails
  <2>2. QED
    BY <1>0, <2>1, DeployFailsMaps
<1>6. CASE DeployCommits
  <2>1. KeepsRow(row, row', worker.job) /\ row'[worker.job].status = "done"
    BY <1>0, <1>6, WorkingFacts, StatusFacts DEF DeployCommits
  <2>2. KeepsJob(job, job', worker.job)
    BY <1>0, <1>6, WorkingFacts, EndedFacts DEF DeployCommits, Completed
  <2>3. /\ worker.pc = "gate" /\ current' = job[worker.job].tag /\ history' = history
        /\ Live \notin Bad /\ worker'.job = 0 /\ degraded' = degraded
    BY <1>6 DEF DeployCommits, GatePasses, Idle
  <2>4. Live = job[worker.job].tag /\ Live' = Live
    BY <1>0, <2>3, WaitingFacts DEF Live
  <2>5. Contract!MayChange
    BY <1>0, <2>3, ChangesAreAllowed
  <2>6. degraded' = (degraded /\ job[worker.job].kind # "rollback")
    BY <1>0, <1>1, <2>3 DEF TypeOK
  <2>7. QED
    BY <1>0, <2>1, <2>2, <2>3, <2>4, <2>5, <2>6, CommitMaps
<1>7. CASE GateFails
  <2> DEFINE target == PreviousDoneTag(current)
  <2>1. target \in Tag \cup {Revision, None}
    BY <1>0, WorkingFacts, PreviousDoneIsTag
  <2> HIDE DEF target
  <2>2. worker.pc = "gate" /\ UNCHANGED <<current, degraded, history>>
    BY <1>7 DEF GateFails
  <2>3. CASE ~HasActive("rollback") /\ EnqueueAutoRollback(target, 0) /\ worker' = Idle
    BY <2>1, <2>2, <2>3, NoneActive, EnqueueAutoRollbackMaps
  <2>4. CASE /\ row' = Status(row, worker.job, "failed")
             /\ \/ /\ job' = Failed(NoRetry(job, worker.job), worker.job)
                   /\ worker' = Idle
                \/ worker' = At("history") /\ UNCHANGED job
    <3>1. KeepsRow(row, row', worker.job) /\ row'[worker.job].status = "failed"
      BY <1>0, <2>4, WorkingFacts, StatusFacts
    <3>2. KeepsJob(job, job', worker.job)
      BY <1>0, <2>4, WorkingFacts, RefusedFacts DEF KeepsJob
    <3>3. worker'.job \in {0, worker.job}
      BY <1>1, <2>4 DEF At, Idle, TypeOK
    <3>4. Contract!MayChange
      BY <1>0, <2>2, ChangesAreAllowed
    <3>5. degraded' = (degraded \/ job[worker.job].auto)
      BY <1>3, <2>2
    <3>6. QED
      BY <1>0, <2>2, <3>1, <3>2, <3>3, <3>4, <3>5, FailMaps
  <2>5. QED
    BY <1>7, <2>3, <2>4 DEF GateFails, target
<1>8. CASE TargetAnswers
  <2>1. CASE DeployFails
    <3>1. UNCHANGED <<current, degraded, history>>
      BY <1>8 DEF TargetAnswers
    <3>2. QED
      BY <1>0, <2>1, <3>1, DeployFailsMaps
  <2>2. CASE HasPrevious(history) /\ EnqueueAutoRollback(None, Previous(history).rev)
    <3>1. Previous(history).rev \in Nat
      BY <1>1, <2>2, PreviousFacts
    <3>2. NoAutoActive
      BY <1>0, <1>8, WaitingFacts DEF TargetAnswers, NoAutoActive
    <3>3. QED
      BY <1>8, <2>2, <3>1, <3>2, EnqueueAutoRollbackMaps DEF TargetAnswers
  <2>3. QED
    BY <1>8, <2>1, <2>2 DEF TargetAnswers
<1>9. QED
  BY <1>4, <1>5, <1>6, <1>7, <1>8

LEMMA RollbackFailsMaps ==
    ASSUME Inv, worker.pc \in {"undo", "status"}, RollbackFails, UNCHANGED <<row, current>>,
           history' = history \/ worker.pc = "undo"
    PROVE  Contract!Next
<1>1. Waiting
  BY DEF Waiting
<1>2. job[worker.job].kind # "deploy"
  BY <1>1, WaitingFacts DEF DeployPc
<1>3. KeepsJob(job, job', worker.job)
  BY <1>1, WorkingFacts, FailedFacts DEF RollbackFails
<1>4. Contract!MayChange
  BY <1>1, ChangesAreAllowed
<1>5. degraded' = (degraded \/ job[worker.job].auto) /\ worker'.job = 0
  BY DEF RollbackFails, Degrades, Idle
<1>6. QED
  BY <1>1, <1>2, <1>3, <1>4, <1>5, FailMaps

LEMMA RollbackStepsMap ==
    ASSUME Inv, Undo \/ StatusFails \/ RollbackCommits PROVE Contract!Next
<1>0. /\ Waiting /\ worker.pc \in {"undo", "status"} /\ job[worker.job].kind = "rollback"
      /\ TypeOK /\ Live \in Tag
  <2>1. Waiting /\ worker.pc \in {"undo", "status"}
    BY DEF Waiting, Undo, StatusFails, RollbackCommits
  <2>2. QED
    BY <2>1, WaitingFacts, LiveFacts DEF Inv, DeployPc
<1>1. CASE Undo
  <2>1. worker.pc = "undo" /\ UNCHANGED <<row, current>>
    BY <1>1 DEF Undo
  <2>2. CASE RollbackFails
    BY <1>0, <2>1, <2>2, RollbackFailsMaps
  <2>3. CASE worker' = At("status") /\ UNCHANGED <<job, degraded>>
    <3>1. worker'.job = worker.job
      BY <1>0, <2>3 DEF At, TypeOK
    <3>2. Requests' = Requests
      BY <2>1, <2>3, RequestsAre
    <3>3. Contract!MayChange
      BY <1>0, <2>1, ChangesAreAllowed
    <3>4. Contract!Proceed
      BY <1>0, <2>1, <2>3, <3>1, <3>2, <3>3, WorkingFacts DEF Contract!Proceed
    <3>5. QED
      BY <3>4 DEF Contract!Next
  <2>4. QED
    BY <1>1, <2>2, <2>3 DEF Undo
<1>2. CASE StatusFails
  <2>1. RollbackFails /\ UNCHANGED <<row, current, history>>
    BY <1>2 DEF StatusFails
  <2>2. QED
    BY <1>0, <2>1, RollbackFailsMaps
<1>3. CASE RollbackCommits
  <2>1. PICK got \in {Live, None} : Finalized(worker.job, FinalTag(job[worker.job].tag, got))
    BY <1>3 DEF RollbackCommits
  <2>2. KeepsRow(row, row', worker.job) /\ row'[worker.job].status = "done"
    BY <1>0, <2>1, WorkingFacts, StatusFacts DEF Finalized
  <2>3. KeepsJob(job, job', worker.job)
    BY <1>0, <1>3, WorkingFacts, EndedFacts DEF RollbackCommits, Completed
  <2>4. /\ worker.pc = "status" /\ history' = history /\ Live' = Live /\ worker'.job = 0
        /\ degraded' = FALSE
    BY <1>3, <2>1 DEF RollbackCommits, Live, Idle, Finalized
  <2>5. current' \in {Live', Revision}
    BY <1>0, <2>1, <2>4 DEF Finalized, FinalTag
  <2>6. Contract!MayChange
    BY <1>0, <2>4, ChangesAreAllowed
  <2>7. degraded' = (degraded /\ job[worker.job].kind # "rollback")
    BY <1>0, <2>4
  <2>8. QED
    BY <1>0, <2>2, <2>3, <2>4, <2>5, <2>6, <2>7, CommitMaps
<1>4. QED
  BY <1>1, <1>2, <1>3

LEMMA HelmMaps == ASSUME Inv, HelmUpgrade PROVE Contract!Next
<1>0. /\ Waiting /\ worker.pc = "helm" /\ job[worker.job].kind = "helm"
      /\ job[worker.job].tag \in Tag /\ ~job[worker.job].auto
  <2>1. Waiting /\ worker.pc = "helm"
    BY DEF Waiting, HelmUpgrade
  <2>2. QED
    BY <2>1, WaitingFacts DEF DeployPc
<1>1. history \in Seq(Revs) /\ history # <<>> /\ TypeOK
  BY LiveFacts DEF Inv
<1>2. history' = history \/ Live' = job[worker.job].tag
  BY <1>0, <1>1, PatchedFacts DEF HelmUpgrade, Live
<1>3. Contract!MayChange
  BY <1>0, <1>2, ChangesAreAllowed
<1>4. worker'.job = 0 /\ degraded' = degraded /\ degraded \in BOOLEAN
  BY <1>1 DEF HelmUpgrade, Idle, TypeOK
<1>5. CASE /\ HelmTookEffect(history') /\ current' = job[worker.job].tag
           /\ row' = Status(row, worker.job, "done") /\ job' = Completed(job, worker.job)
  <2>1. KeepsRow(row, row', worker.job) /\ row'[worker.job].status = "done"
    BY <1>0, <1>5, WorkingFacts, StatusFacts
  <2>2. KeepsJob(job, job', worker.job)
    BY <1>0, <1>5, WorkingFacts, EndedFacts DEF Completed
  <2>3. current' = Live'
    BY <1>5 DEF HelmTookEffect, Live
  <2>4. degraded' = (degraded /\ job[worker.job].kind # "rollback")
    BY <1>0, <1>4
  <2>5. QED
    BY <1>0, <1>3, <1>4, <2>1, <2>2, <2>3, <2>4, CommitMaps
<1>6. CASE job' = Failed(job, worker.job) /\ UNCHANGED <<row, current>>
  <2>1. KeepsJob(job, job', worker.job)
    BY <1>0, <1>6, WorkingFacts, FailedFacts
  <2>2. degraded' = (degraded \/ job[worker.job].auto)
    BY <1>0, <1>4
  <2>3. QED
    BY <1>0, <1>3, <1>4, <1>6, <2>1, <2>2, FailMaps
<1>7. QED
  BY <1>5, <1>6 DEF HelmUpgrade

LEMMA CrashesMap ==
    ASSUME Inv, Crash \/ CrashBeforeNoRetry \/ CrashBeforeComplete
    PROVE  [Contract!Next]_(Contract!vars)
<1>0. history \in Seq(Revs) /\ history # <<>> /\ TypeOK /\ Live \in Tag
  BY LiveFacts DEF Inv
<1>1. CASE Crash
  <2>1. /\ worker'.job = 0 /\ Requests' = Requests
        /\ UNCHANGED <<current, degraded>>
    BY <1>1, RequestsAre DEF Crash, Idle
  <2>2. CASE Waiting
    <3>1. worker.pc \in {"image", "helm"} => job[worker.job].tag \in Tag
      BY <2>2, WaitingFacts DEF DeployPc
    <3>2. \/ history' = history
          \/ worker.pc \in {"image", "helm"} /\ Live' = job[worker.job].tag
          \/ worker.pc = "undo"
      BY <1>0, <1>1, <3>1, PatchedFacts DEF Crash, Live
    <3>3. Contract!MayChange
      BY <2>2, <3>2, ChangesAreAllowed
    <3>4. Contract!Die
      BY <2>1, <2>2, <3>3, WorkingFacts DEF Contract!Die
    <3>5. QED
      BY <3>4 DEF Contract!Next
  <2>3. CASE ~Waiting
    <3>1. worker.job = 0 /\ history' = history
      BY <1>0, <1>1, <2>3 DEF Crash, Waiting, TypeOK
    <3>2. QED
      BY <2>1, <3>1 DEF Contract!vars, Live
  <2>4. QED
    BY <2>2, <2>3
<1>2. CASE CrashBeforeNoRetry
  <2> DEFINE t == PreviousDoneTag(current)
             j == Rollback(t, 0, TRUE, 0)
  <2>0. /\ worker.pc = "gate" /\ Waiting /\ NoAutoActive /\ Fresh # {} /\ worker' = Idle
        /\ UNCHANGED <<current, degraded, history>>
    BY <1>2, NoneActive DEF CrashBeforeNoRetry, Waiting
  <2>1. t \in Tag \cup {Revision, None}
    BY <2>0, WorkingFacts, PreviousDoneIsTag
  <2>2. /\ row' = Recorded(Status(row, worker.job, "failed"), NextId, t)
        /\ job' = Enqueued(job, NextId, j)
    BY <1>2 DEF CrashBeforeNoRetry
  <2> HIDE DEF t
  <2>3. j \in Job /\ j.auto = TRUE /\ j.kind = "rollback"
    BY <2>1, NoJobFacts DEF Rollback, Job, Kinds
  <2>4. job \in JobTable /\ KeepsJob(job, job, worker.job)
    BY <2>0, WorkingFacts DEF KeepsJob
  <2> HIDE DEF j
  <2>5. QED
    BY <2>0, <2>2, <2>3, <2>4, FailAsksMaps
<1>3. CASE CrashBeforeComplete
  <2>1. /\ Waiting /\ worker.pc \in {"gate", "status"}
        /\ job' = job /\ history' = history /\ Live' = Live /\ worker'.job = 0
    BY <1>3 DEF CrashBeforeComplete, Waiting, Live, Idle
  <2>2. KeepsJob(job, job', worker.job)
    BY <2>1, WorkingFacts DEF KeepsJob
  <2>3. KeepsRow(row, row', worker.job) /\ row'[worker.job].status = "done"
    BY <1>3, <2>1, WorkingFacts, StatusFacts DEF CrashBeforeComplete, Finalized
  <2>4. Contract!MayChange
    BY <2>1, ChangesAreAllowed
  <2>5. CASE /\ worker.pc = "gate" /\ GatePasses /\ current' = job[worker.job].tag
             /\ UNCHANGED degraded
    <3>1. job[worker.job].kind = "deploy" /\ Live = job[worker.job].tag
      BY <2>1, <2>5, WaitingFacts DEF DeployPc
    <3>2. degraded' = (degraded /\ job[worker.job].kind # "rollback")
      BY <1>0, <2>5, <3>1 DEF TypeOK
    <3>3. current' \notin Bad /\ current' \in {Live', Revision}
      BY <2>1, <2>5, <3>1 DEF GatePasses
    <3>4. QED
      BY <2>1, <2>2, <2>3, <2>4, <2>5, <3>1, <3>2, <3>3, CommitMaps
  <2>6. CASE worker.pc = "status" /\ Finalized(worker.job, FinalTag(job[worker.job].tag, Live))
    <3>1. job[worker.job].kind = "rollback"
      BY <2>1, <2>6, WaitingFacts DEF DeployPc
    <3>2. degraded' = FALSE /\ current' = FinalTag(job[worker.job].tag, Live)
      BY <2>6 DEF Finalized
    <3>3. degraded' = (degraded /\ job[worker.job].kind # "rollback")
      BY <3>1, <3>2
    <3>4. current' \in {Live', Revision}
      BY <1>0, <2>1, <3>2 DEF FinalTag
    <3>5. QED
      BY <2>1, <2>2, <2>3, <2>4, <3>1, <3>3, <3>4, CommitMaps
  <2>7. QED
    BY <1>3, <2>5, <2>6 DEF CrashBeforeComplete
<1>4. QED
  BY <1>1, <1>2, <1>3

LEMMA ContractInit == Init => Contract!Init
<1> SUFFICES ASSUME Init PROVE Contract!Init
  OBVIOUS
<1>1. worker.job = 0 /\ ~degraded
  BY DEF Init, Idle
<1>2. Live \in Tag \ Bad
  <2>1. Live = First
    BY DEF Init, Live, Rev
  <2>2. QED
    BY <2>1, PipelineAssumption
<1>3. ASSUME NEW i \in Id PROVE Requests[i].status \in {"absent", "done"}
  <2>1. row[i].status \in {"absent", "done"}
    BY DEF Init, NoRow
  <2>2. QED
    BY <2>1, InvInit, RequestFacts
<1>4. QED
  BY <1>1, <1>2, <1>3 DEF Contract!Init

\* The pipeline with its jobs, attempts, revisions, retries and crashes does to the service
\* only what DeployContract allows: every step of it is a step of the contract or none.
THEOREM PipelineImplementsContract == Spec => ContractSpec
<1>1. Init => Contract!Init
  BY ContractInit
<1>2. Inv /\ [Next]_vars => [Contract!Next]_(Contract!vars)
  <2> SUFFICES ASSUME Inv, [Next]_vars PROVE [Contract!Next]_(Contract!vars)
    OBVIOUS
  <2>1. CASE UNCHANGED vars
    BY <2>1, RequestsAre DEF vars, Contract!vars, Live
  <2>2. CASE Next
    BY <2>2, RequestsMap, TimePassesMaps, StartMaps, DeployStepsMap, RollbackStepsMap,
       HelmMaps, CrashesMap DEF Next
  <2>3. QED
    BY <2>1, <2>2
<1>3. QED
  BY <1>1, <1>2, InvAlways, PTL DEF Spec, ContractSpec, Contract!Spec

===============================================================================

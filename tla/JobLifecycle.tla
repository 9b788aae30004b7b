----------------------------- MODULE JobLifecycle -----------------------------
(***************************************************************************)
(* What the persistent job queue promises about each job, whatever crashes *)
(* and stalls happen underneath it.  A job is inserted once, waits, is     *)
(* attempted at most MaxAttempts times and ends in exactly one terminal    *)
(* state.  src/queue/queue.ts is shown to implement this specification     *)
(* (module JobQueue, property LifecycleSpec).                              *)
(***************************************************************************)
EXTENDS Naturals

CONSTANTS Job, MaxAttempts

VARIABLES phase, tries

vars == <<phase, tries>>

\* JobState of the queue, plus the two ways of not having a row.
Terminal == {"done", "failed", "dead", "deleted"}

Init == /\ phase = [j \in Job |-> "new"]
        /\ tries = [j \in Job |-> 0]

\* One job's part of a step: it rests, or takes one edge of the life cycle.
\* A lapsed attempt may be given up and the job attempted again in one pass.
Rest(j) == phase'[j] = phase[j] /\ tries'[j] = tries[j]

Insert(j) == phase[j] = "new" /\ phase'[j] = "pending" /\ tries'[j] = 0

Delete(j) == phase[j] = "pending" /\ phase'[j] = "deleted" /\ tries'[j] = tries[j]

Attempt(j) == /\ phase[j] \in {"pending", "running"}
              /\ phase'[j] = "running"
              /\ tries[j] < MaxAttempts
              /\ tries'[j] = tries[j] + 1

GiveBack(j) == /\ phase[j] = "running" /\ phase'[j] = "pending"
               /\ tries[j] < MaxAttempts
               /\ tries'[j] = tries[j]

Settle(j) == /\ phase[j] = "running"
             /\ phase'[j] \in Terminal \ {"deleted"}
             /\ tries'[j] = tries[j]

Next == \A j \in Job : \/ Rest(j) \/ Insert(j) \/ Delete(j)
                       \/ Attempt(j) \/ GiveBack(j) \/ Settle(j)

Spec == Init /\ [][Next]_vars
===============================================================================

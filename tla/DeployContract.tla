---------------------------- MODULE DeployContract ----------------------------
(***************************************************************************)
(* Abstract specification of what hyper does to one service: the requests, *)
(* the image that is live, the tag on record and the degraded mark.  It    *)
(* knows nothing of jobs, attempts, revisions or kubectl: a request is     *)
(* worked on, one at a time, until it is done, fails or the process dies,  *)
(* and may be worked on again.  DeployPipeline is shown to implement it    *)
(* (property ContractSpec there).                                          *)
(***************************************************************************)
EXTENDS Naturals

CONSTANTS Request, Tag, Bad, Unknown

VARIABLES
    rows,      \* each request: its kind, its tag, whether hyper made it, how it stands
    working,   \* the request that is worked on, or 0
    live,      \* the image of the workload
    record,    \* the tag on record
    degraded

vars == <<rows, working, live, record, degraded>>

Asks(i, auto) == rows'[i].status = "pending" /\ rows'[i].auto = auto
Stands(i, status) == [rows EXCEPT ![i].status = status]

Init ==
    /\ \A i \in Request : rows[i].status \in {"absent", "done"}
    /\ working = 0 /\ live \in Tag \ Bad /\ ~degraded

\* A degraded service is not deployed to.
Ask(i) ==
    /\ UNCHANGED <<working, live, record, degraded>>
    /\ rows[i].status = "absent" /\ Asks(i, FALSE)
    /\ rows'[i].kind = "deploy" => ~degraded
    /\ rows' = [rows EXCEPT ![i] = rows'[i]]

\* What hyper asked for itself can be taken back while nobody works on it, also what was
\* done when the process died and is to be done again.
Cancel(i) ==
    /\ UNCHANGED <<working, live, record, degraded>>
    /\ rows[i].auto /\ working # i /\ rows[i].status # "cancelled"
    /\ rows'[i].status = "cancelled"
    /\ rows' = Stands(i, "cancelled")

Clear == degraded /\ degraded' = FALSE /\ UNCHANGED <<rows, working, live, record>>

\* Also for the second time, after a failure or a crash; never once cancelled.
Begin(i) ==
    /\ working = 0 /\ UNCHANGED <<live, record, degraded>>
    /\ rows[i].status \notin {"absent", "cancelled"}
    /\ IF rows[i].kind = "deploy" /\ degraded
       THEN working' = 0 /\ rows' = Stands(i, "failed")
       ELSE working' = i /\ rows' = Stands(i, "applying")

\* The image changes only for the request that is worked on: to its tag, or, for a
\* rollback, to what the cluster has before.
MayChange ==
    live' # live =>
        /\ rows[working].status = "applying"
        /\ rows[working].kind # "rollback" => live' = rows[working].tag
        /\ rows[working].kind = "deploy" => ~degraded

Proceed == working # 0 /\ UNCHANGED <<working, record, degraded, rows>> /\ MayChange

\* What is recorded is live, or said to be unknown, and for a deploy it is healthy.
Commit ==
    /\ working # 0 /\ working' = 0 /\ rows[working].status = "applying" /\ MayChange
    /\ record' \in {live', Unknown}
    /\ rows[working].kind = "deploy" => record' = rows[working].tag /\ record' \notin Bad
    /\ degraded' = (degraded /\ rows[working].kind # "rollback")
    /\ rows' = Stands(working, "done")

\* A deploy that fails may ask for a rollback, unless one that hyper asked for waits
\* already; such a rollback degrades the service when it fails.
Fail ==
    /\ working # 0 /\ MayChange /\ UNCHANGED record
    /\ LET failed == IF rows[working].kind = "deploy" THEN Stands(working, "failed") ELSE rows
       IN  \/ rows' = failed
           \/ /\ rows[working].kind = "deploy"
              /\ \A k \in Request : rows[k].auto => rows[k].status # "pending"
              /\ \E i \in Request :
                   /\ rows[i].status = "absent" /\ Asks(i, TRUE) /\ rows'[i].kind = "rollback"
                   /\ rows' = [failed EXCEPT ![i] = rows'[i]]
    /\ degraded' = (degraded \/ rows[working].auto)
    /\ working' \in {0, working}

Die == working # 0 /\ working' = 0 /\ UNCHANGED <<record, degraded, rows>> /\ MayChange

Next ==
    \/ Clear \/ Proceed \/ Commit \/ Die \/ Fail
    \/ \E i \in Request : Ask(i) \/ Cancel(i) \/ Begin(i)

Spec == Init /\ [][Next]_vars

===============================================================================

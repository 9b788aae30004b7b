------------------------------- MODULE MCFleet -------------------------------
(* Values for the TLC run of Fleet. *)
EXTENDS Fleet

CONSTANTS p1, p2, k1, k2, k3, t1, t2

\* Both tokens are for the cluster that is not configured.
TokensOf == [t \in {t1, t2} |-> 2]

\* k3s writes the first two files; the third is one that names its user twice, and the
\* entry that counts has no credentials.
Files ==
    LET context == <<[name |-> "default", is |-> [cluster |-> "k3s", user |-> "root"]]>>
        conf(users) == [users |-> users, contexts |-> context, current |-> "default",
                        clusters |-> <<[name |-> "k3s", is |-> "verified"]>>]
        static == [name |-> "root", is |-> "static"]
    IN  [k \in {k1, k2, k3} |->
            IF k = k3 THEN conf(<<static, [name |-> "root", is |-> "bare"]>>)
            ELSE conf(<<static>>)]

===============================================================================

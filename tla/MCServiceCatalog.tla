--------------------------- MODULE MCServiceCatalog ---------------------------
(* Values for the TLC runs of ServiceCatalog. *)
EXTENDS ServiceCatalog, TLC

CONSTANTS a, b, s1, s2, s3, c1, c2, n1

Symmetry == Permutations({a, b}) \cup Permutations({s1, s2, s3}) \cup Permutations({c1, c2})

Env(key, required, secret, default) ==
    [key |-> key, required |-> required, secret |-> secret, default |-> default]

\* nginx takes no variable, postgres needs a password.
Catalog == [nginx    |-> {},
            postgres |-> {Env("POSTGRES_PASSWORD", TRUE, TRUE, FALSE),
                          Env("POSTGRES_USER", FALSE, FALSE, TRUE)}]

\* A database with an autoscaler, an image of one's own without, and three that are
\* refused when they are rendered.
Asks ==
    LET order(template, env) == [template |-> template, env |-> env, autoscale |-> None,
                                 imageOk |-> TRUE]
        scaled(min, max) == [minReplicas |-> min, maxReplicas |-> max]
    IN  { [order("postgres", {"POSTGRES_PASSWORD"}) EXCEPT !.autoscale = scaled(1, 3)],
          order("custom", {}),
          order("postgres", {}),
          [order("nginx", {}) EXCEPT !.autoscale = scaled(3, 1)],
          [order("custom", {}) EXCEPT !.imageOk = FALSE] }

===============================================================================

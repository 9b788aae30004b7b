------------------------------ MODULE MCEnvGuard ------------------------------
(* Values for the TLC runs of EnvGuard. *)
EXTENDS EnvGuard, TLC

CONSTANTS s1, s2

Symmetry == Permutations({s1, s2})

\* A value that needs every kind of escape.
Values == {<<"\n", "\\", "\"">>}

\* A text that no row is written as: a value in single quotes, which the browser misreads
\* once it was written in double quotes.
Texts == {<<"'", "\\", "n", "#", "'">>}

===============================================================================

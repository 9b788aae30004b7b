--------------------------- MODULE MCDeployPipeline ---------------------------
(* Small instances of DeployPipeline for TLC.                              *)
EXTENDS DeployPipeline

CONSTANTS v0, v1, bad

Image == [host |-> "docker.io", path |-> "acme/api"]

\* A plain push, a list of two tags, a digest, an image of another registry, a deletion
\* and a push that is not signed.
Posts ==
    LET push(kind, host, tags) ==
            [kind |-> kind, ref |-> [host |-> host, path |-> "acme/api"], tags |-> tags,
             push |-> TRUE, signed |-> TRUE, inScope |-> TRUE]
    IN  { push("dockerhub", "", <<v0>>), push("generic", "index.docker.io", <<bad, v0>>),
          push("dockerhub", "", <<"digest">>), push("ghcr", "", <<v0>>),
          [push("acr", "", <<v0>>) EXCEPT !.push = FALSE],
          [push("dockerhub", "", <<bad>>) EXCEPT !.signed = FALSE] }
===============================================================================

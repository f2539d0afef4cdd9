----------------------------- MODULE MCPipeline -----------------------------
(***************************************************************************)
(* Small instances of Pipeline for TLC.                                    *)
(***************************************************************************)
EXTENDS Pipeline, TLC

CONSTANTS r1, r2

OneRequest == {r1}
TwoRequests == {r1, r2}

OneWorkload == {1}

RequestSymmetry == Permutations(Requests)
=============================================================================

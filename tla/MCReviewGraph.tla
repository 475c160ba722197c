--------------------------- MODULE MCReviewGraph ---------------------------
(***************************************************************************)
(* Instances of ReviewGraph for TLC: every dimension of the budget can be  *)
(* the first to go.  Calls are interchangeable.                            *)
(***************************************************************************)
EXTENDS ReviewGraph, TLC

SmallCap == [tokens |-> 3, seconds |-> 1, tool_bytes |-> 2,
             turns |-> 4, dead_ends |-> 2]

Interchangeable == Permutations(Calls)
=============================================================================

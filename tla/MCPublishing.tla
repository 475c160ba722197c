---------------------------- MODULE MCPublishing ----------------------------
(***************************************************************************)
(* Instances of Publishing for TLC: two commits whose diffs show one of    *)
(* two defects each, and one whose diff is too large.                      *)
(***************************************************************************)
EXTENDS Publishing, TLC

CONSTANTS s1, s2, s3, k1, k2

Commits == {s1, s2, s3}
Defects == {k1, k2}
OneInDiff == s1 :> {k1} @@ s2 :> {k2} @@ s3 :> {}
TooLarge == {s3}

(* Runs are interchangeable, and so are the two small commits, each taken *)
(* with the defect its diff shows.                                        *)
Swap == s1 :> s2 @@ s2 :> s1 @@ k1 :> k2 @@ k2 :> k1

Interchangeable == Permutations(Runs) \cup {Swap}
=============================================================================

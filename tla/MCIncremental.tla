----------------------------- MODULE MCIncremental -----------------------------
(***************************************************************************)
(* Incremental for TLC: an empty content, one shorter than the buffer, and *)
(* two of one length that is read in two turns.                            *)
(***************************************************************************)
EXTENDS Incremental, TLC

CONSTANTS c0, c1, c3, c4

MCLength == [c \in Content |-> ((c0 :> 0) @@ (c1 :> 1) @@ (c3 :> 3) @@ (c4 :> 3))[c]]

\* Contents of one length are alike.
Symmetry == Permutations({c3, c4})
==============================================================================

----------------------------- MODULE MCEvidence -----------------------------
(***************************************************************************)
(* An instance of Evidence; operators and destinations are interchangeable. *)
(***************************************************************************)
EXTENDS Evidence, TLC

Symmetry == Permutations(Operators) \cup Permutations(Destinations)
=============================================================================

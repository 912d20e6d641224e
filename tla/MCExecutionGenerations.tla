----------------------- MODULE MCExecutionGenerations -----------------------
(* Model values and symmetry for ExecutionGenerations. *)
EXTENDS ExecutionGenerations, TLC

CONSTANTS a, b, c, l1, l2

NewGenerations == {a, b, c}
TwoGenerations == {a, b}
WithLegacy == {a, b, l1, l2}
LegacyPair == {l1, l2}
=============================================================================

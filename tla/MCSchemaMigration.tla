------------------------- MODULE MCSchemaMigration -------------------------
(* Model values for SchemaMigration. *)
EXTENDS SchemaMigration, TLC

CONSTANTS p, q, v, r1

OneOpener == {p}
TwoOpeners == {p, q}
ThreeOpeners == {p, q, v}
OneRow == {r1}
OldVersions == {0, 1, 3, 6, 11, 13, 24}
AtCollapse == {13}
BeforeColumns == {12}
SameOpeners == Permutations({p, q})
SameThree == Permutations({p, q, v})
=============================================================================

--------------------------- MODULE MCRecoverySeals ---------------------------
(***************************************************************************)
(* An instance of RecoverySeals in which the first commit is the migration *)
(* to the schema the program expects.                                      *)
(***************************************************************************)
EXTENDS RecoverySeals

BeforeMigration == {0}
=============================================================================

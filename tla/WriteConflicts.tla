--------------------------- MODULE WriteConflicts ---------------------------
(***************************************************************************)
(* Several writers of several processes record conflicts in one ledger.    *)
(* SQLite gives the write lock to one of them at a time; the receipt is    *)
(* staged in the loser's transaction, which commits, is rolled back by an  *)
(* error, or dies with its process.  After the commit the caller is told   *)
(* the id of the row that holds its receipt.                               *)
(***************************************************************************)
EXTENDS ConflictLedger, FiniteSetsExt

CONSTANTS Writers,          \* the server and broker processes
          MaxReports        \* bound of the model: conflicts reported in all

\* An identity is a SHA-256 digest (_write_conflict_identity, db.py:1308): there
\* are finitely many.
ASSUME ConflictAssumption ==
    /\ IsFiniteSet(Identities)
    /\ IsFiniteSet(Surfaces)
    /\ SurfaceOf \in [Identities -> Surfaces]
    /\ MaxIdentities \in Nat \ {0}
    /\ MaxReports \in Nat

VARIABLES ledger,           \* the committed table
          staged,           \* the open write transaction, or NothingStaged
          reported,         \* history: conflicts committed, per identity
          told              \* history: <<identity, row>> told to callers

conflictVars == <<ledger, staged, reported, told>>

NothingStaged == [open |-> FALSE]

ConflictTypeOK ==
    /\ ledger \in Ledgers
    /\ staged = NothingStaged \/ /\ staged.open
                                 /\ staged.writer \in Writers
                                 /\ staged.id \in Identities
                                 /\ staged.image \in Ledgers
    /\ reported \in [Identities -> Nat]
    /\ told \subseteq Identities \X RowKeys

ConflictInit ==
    /\ ledger = EmptyLedger
    /\ staged = NothingStaged
    /\ reported = [id \in Identities |-> 0]
    /\ told = {}

TotalReports == MapThenSumSet(LAMBDA id : reported[id], Identities)

\* Mutant: the caller is told the row before the commit.
Stage_TellsEarly(w, id) ==
    /\ ~staged.open
    /\ staged' = [open |-> TRUE, writer |-> w, id |-> id, key |-> KeyFor(ledger, id),
                  image |-> RecordConflict(ledger, id)]
    /\ told' = told \cup {<<id, KeyFor(ledger, id)>>}
    /\ UNCHANGED <<ledger, reported>>
\* The losing write holds the write lock from its first statement; the
\* receipt is staged in the same transaction.
Stage(w, id) ==
    /\ ~staged.open
    /\ staged' = [open |-> TRUE, writer |-> w, id |-> id, key |-> KeyFor(ledger, id),
                  image |-> RecordConflict(ledger, id)]
    /\ UNCHANGED <<ledger, reported, told>>

\* COMMIT, and the refusal that carries the receipt's row id.
Commit(w) ==
    /\ staged.open /\ staged.writer = w
    /\ TotalReports < MaxReports
    /\ ledger' = staged.image
    /\ reported' = [reported EXCEPT ![staged.id] = @ + 1]
    /\ told' = told \cup {<<staged.id, staged.key>>}
    /\ staged' = NothingStaged

\* rollback_on_error, or the process dies: the staged rows vanish.
RollBack(w) ==
    /\ staged.open /\ staged.writer = w
    /\ staged' = NothingStaged
    /\ UNCHANGED <<ledger, reported, told>>

ConflictNext ==
    \E w \in Writers :
        \/ \E id \in Identities : Stage(w, id)
        \/ Commit(w)
        \/ RollBack(w)

ConflictSpec == ConflictInit /\ [][ConflictNext]_conflictVars

-----------------------------------------------------------------------------

\* The rows and the reports of one surface.
KeysOf(s) == {Exact(id) : id \in {i \in Identities : SurfaceOf[i] = s}}
             \cup {Overflow(s)}
ReportsOf(s) == MapThenSumSet(LAMBDA id : reported[id],
                              {i \in Identities : SurfaceOf[i] = s})

\* No conflict is lost or counted twice: per surface, the occurrence counts of
\* the ledger add up to the conflicts that were committed, even after the
\* identity quota folded some of them into the overflow row.
EveryConflictCounted ==
    \A s \in Surfaces :
        MapThenSumSet(LAMBDA k : ledger[k], KeysOf(s)) = ReportsOf(s)

\* The table cannot outgrow its quota by more than one overflow row per
\* surface, whatever is reported and in whatever order.
LedgerBounded ==
    /\ Cardinality(Rows(ledger) \cap ExactKeys) <= MaxIdentities
    /\ Cardinality(Rows(ledger)) <= MaxIdentities + Cardinality(Surfaces)

\* A receipt id a caller was told names a durable row, and the row is evidence
\* of that caller's conflict: its own identity, or its surface's overflow row.
ToldReceiptsAreDurable ==
    \A t \in told : /\ ledger[t[2]] > 0
                    /\ t[2] \in {Exact(t[1]), Overflow(SurfaceOf[t[1]])}
=============================================================================

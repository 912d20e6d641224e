--------------------------- MODULE ConflictLedger ---------------------------
(***************************************************************************)
(* The durable ledger of refused writes (table write_conflicts) and the    *)
(* upsert every losing writer stages into its own transaction.             *)
(*                                                                         *)
(* A row is keyed by the hash of the complete evidence of the conflict; an *)
(* exact repeat adds one to the row's occurrence count.  Distinct          *)
(* identities are limited: past the quota every new identity of a surface  *)
(* is aggregated in one overflow row of that surface.                      *)
(*                                                                         *)
(* The module has no variables: a ledger is a value, a function from every *)
(* possible row key to its occurrence count, 0 where there is no row.      *)
(***************************************************************************)
EXTENDS Integers, FiniteSets

CONSTANTS Identities,       \* the evidence identities that can be hashed
          Surfaces,         \* context_section, markdown_sync, handoff
          SurfaceOf,        \* the surface field of each identity
          MaxIdentities     \* config.WRITE_CONFLICT_MAX_IDENTITIES

Exact(id) == <<"exact_identity", id>>
Overflow(surface) == <<"capacity_overflow", surface>>

ExactKeys == {Exact(id) : id \in Identities}
RowKeys == ExactKeys \cup {Overflow(s) : s \in Surfaces}

Ledgers == [RowKeys -> Nat]
EmptyLedger == [k \in RowKeys |-> 0]

\* The rows of the table.  identity_hash is set in every one of them, the
\* overflow rows included, so every one of them counts against the quota.
Rows(ledger) == {k \in RowKeys : ledger[k] > 0}

\* The quota clause of the INSERT: the identity is stored already, or the
\* table has room for one more row.
HasRoom(ledger, id) ==
    \/ ledger[Exact(id)] > 0
    \/ Cardinality(Rows(ledger)) < MaxIdentities

\* The row a conflict is written to.
KeyFor(ledger, id) ==
    IF HasRoom(ledger, id) THEN Exact(id) ELSE Overflow(SurfaceOf[id])

\* Mutant: ON CONFLICT DO NOTHING.
Upsert_DoNothing(ledger, k) == [ledger EXCEPT ![k] = 1]
\* INSERT, or ON CONFLICT add one occurrence.
Upsert(ledger, k) == [ledger EXCEPT ![k] = @ + 1]

RecordConflict(ledger, id) == Upsert(ledger, KeyFor(ledger, id))
=============================================================================

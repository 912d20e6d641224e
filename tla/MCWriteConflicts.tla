-------------------------- MODULE MCWriteConflicts --------------------------
EXTENDS WriteConflicts

CONSTANTS w1, w2, pick, clear, sync

MCWriters == {w1, w2}
MCIdentities == {pick, clear, sync}
MCSurfaces == {"handoff", "markdown_sync"}
MCSurfaceOf == [i \in MCIdentities |-> IF i = sync THEN "markdown_sync" ELSE "handoff"]
=============================================================================

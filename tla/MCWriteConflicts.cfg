SPECIFICATION ConflictSpec
CONSTANTS
  w1 = w1
  w2 = w2
  pick = pick
  clear = clear
  sync = sync
  Writers <- MCWriters
  Identities <- MCIdentities
  Surfaces <- MCSurfaces
  SurfaceOf <- MCSurfaceOf
  MaxIdentities = 2
  MaxReports = 4
INVARIANTS
  EveryConflictCounted
  ToldReceiptsAreDurable

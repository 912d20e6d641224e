SPECIFICATION Spec
CONSTANTS
  career = career
  speaking = speaking
  x = x
  y = y
  z = z
  p1 = p1
  p2 = p2
  o1 = o1
  Placeholder = Placeholder
  NoText = NoText
  Nobody = Nobody
  NoFile = NoFile
  JobOwner = "claude_ai"
  Size <- MCSize
  Asked = {"operator"}
  Sections = {career, speaking}
  FileOrder <- MCTwoFile
  Contents = {y, z}
  SectionBytes = 2
  TotalBytes = 2
  Processes = {p2}
  RoleOf <- MCOneOwner
  Operators = {o1}
  Guarded = TRUE
  LegacyFile = TRUE
  MaxVersion = 2
  MaxWorld = 1
PROPERTIES
  OperatorTrustFollowsReview
INVARIANTS
  SyncReportIsDurable

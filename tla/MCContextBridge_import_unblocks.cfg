SPECIFICATION Spec
CONSTANTS
  career = career
  speaking = speaking
  x = x
  y = y
  z = z
  p1 = p1
  p2 = p2
  o1 = o1
  Placeholder = Placeholder
  NoText = NoText
  Nobody = Nobody
  NoFile = NoFile
  JobOwner = "claude_ai"
  Size <- MCSize
  Asked = {"agent"}
  Sections = {career}
  FileOrder <- MCOneFile
  Contents = {x, y}
  SectionBytes = 2
  TotalBytes = 3
  Processes = {p1, p2}
  RoleOf <- MCOwnerAndReader
  Operators = {}
  Guarded = TRUE
  LegacyFile = FALSE
  MaxVersion = 2
  MaxWorld = 0
INVARIANTS
  ImportUnblocksExport

SPECIFICATION Spec
CONSTANTS
  pii = pii
  odd = odd
  token = token
  NoText = NoText
  Texts <- MCTexts
  Redactions <- MCRedactions
  Seen <- MCSeen
  Submits = {1, 2}
  MaxSent = 2
  MaxMessages = 2
  MaxChanges = 2
  Turns = {1, 2}
  notes = notes
  list = list
  report = report
  scan = scan
  Files <- MCFiles
  Kind <- MCKind
  Dirty <- MCDirty
  Picks = {1}
  MaxFiles = 2
  Installers = {"boot"}
  Focus = {"upload"}
INVARIANTS
  WarnIsHonoured
CHECK_DEADLOCK FALSE

SPECIFICATION Spec
CONSTANTS
  pii = pii
  odd = odd
  token = token
  NoText = NoText
  Texts <- MCTexts
  Redactions <- MCRedactions
  Seen <- MCSeen
  Submits = {1, 2}
  MaxSent = 2
  MaxMessages = 2
  MaxChanges = 2
  Turns = {1, 2}
  notes = notes
  list = list
  report = report
  scan = scan
  Files <- MCFiles
  Kind <- MCKind
  Dirty <- MCDirty
  Picks = {1}
  MaxFiles = 2
  Installers = {"boot", "direct"}
  Focus = {"send", "reply", "upload"}
INVARIANTS
  InterceptorTypeOK
  OwnReplyFiled
  UploadTypeOK
  HandedOverIsVetted
PROPERTIES
  PromiseKept
  BlockLands
  EveryTurnFiledOnce
  AttachmentsEnd
CHECK_DEADLOCK FALSE

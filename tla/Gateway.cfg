SPECIFICATION Spec
CONSTANTS
  c1 = c1
  plain = plain
  mail = mail
  NoText = NoText
  Chats = {c1}
  Texts = {plain, mail}
  Mentioning = {plain}
  Files = {mail}
  Dirty = {mail}
  Extras = {NoText, mail}
  ReplyOf <- MCReply
  Runs = {1, 2}
  Approvals = 1
  MaxHashes = 2
  Counts = {0, 2}
  MaxMessages = 2
  MaxTurns = 2
  MaxFlips = 1
  web = web
  Surfaces = {web}
  None = None
  Modes <- MCModes
  ModesOf <- MCModesOf
  SeedMode <- MCSeedMode
  env = env
  built1 = built1
  built2 = built2
  ui = ui
  EnvRules <- MCEnv
  Defaults <- MCDefaults
  UiRules = {ui}
  Window = 2
  MaxAttempts = 2
  MaxTime = 5
  MaxLogins = 5
  Calls = {1}
  GuardOn = TRUE
  Reasons = {"end_turn", "max_tokens", "refusal"}
  StopMap <- MCStopMap
  MaxStarts = 2
  MaxSent = 3
  Focus = {"hooks", "surfaces", "rules", "login", "guards", "reframer"}
INVARIANTS
  TypeOK
  PendingHeldBack
  FlaggedWhenLeaked
  CleanRunCatchesUp
  LoggedOnceUndisturbed
  TrailTellsServed
  DefaultsStay
  LoginWindow
  AllowedWasJudged
  ReframedOnce
  OneMessage
CHECK_DEADLOCK FALSE

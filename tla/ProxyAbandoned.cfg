SPECIFICATION Spec
CONSTANTS
  NoRequest = nobody
  p1 = p1
  p2 = p2
  p3 = p3
  p4 = p4
  none = none
  Requests = {r1, r2}
  Arrivals <- MCArrivals
  Models <- MCModels
  TranslateModels = {"alias", "claude"}
  Resolve <- MCResolve
  Prompts = {p1, p2, p3, p4}
  NoPrompt = none
  Trivial = {p4}
  Known = {p3}
  CacheMax = 1
  TrafficCap = 2
  SecurityCap = 1
  ResponseCap = 1
  MaxToggles = 1
CHECK_DEADLOCK FALSE
INVARIANT AbandonedIsAborted

SPECIFICATION Spec
CONSTANTS
  Provider = "anthropic"
  Holdback = 2
  TextLen = 5
  MaxDelta = 2
  MaxChannel = 1
  MaxUnframed = 1
  MaxAside = 0
  RuleOrder <- TwoRules
  HitSets <- DisjointTexts
INVARIANTS
  TypeOK
  NoLeak
  InOrderDelivery
  StopAfterText
  TextStaysInChannel
  CountsAgree
PROPERTIES
  HeldForAReason

SPECIFICATION Spec
CONSTANTS
  Provider = "gemini"
  Holdback = 2
  TextLen = 5
  MaxDelta = 2
  MaxChannel = 0
  MaxUnframed = 1
  MaxAside = 0
  RuleOrder <- TwoRules
  HitSets <- DisjointTexts
INVARIANTS
  InOrderDelivery

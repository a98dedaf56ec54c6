SPECIFICATION Spec
CONSTANTS
  c1 = c1
  k1 = k1
  k2 = k2
  k3 = k3
  Convs = {c1}
  Keys = {k1, k2, k3}
  CapPerConv = 2
  Slots = {1, 2}
  Faults = {}
INVARIANTS
  ClearedAtStop

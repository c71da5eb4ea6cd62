\* A refused third client lets the overtaken second one in.
CONSTANTS
  r1 = r1
  r2 = r2
  r3 = r3
  p1 = p1
  Requests = {r1, r2, r3}
  Probes = {p1}
  MaxInflight = 1
  Modulus = 16
  MaxPanics = 0
SPECIFICATION Spec
INVARIANT InflightNeverExceedsMax

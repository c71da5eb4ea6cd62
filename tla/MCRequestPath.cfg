\* Two clients and a probe in the full stack and in the default one.
CONSTANTS
  r1 = r1
  r2 = r2
  p1 = p1
  Requests = {r1, r2}
  Probes = {p1}
  MaxInflight = 1
  Modulus = 5
  MaxPanics = 1
  Configs <- AllConfigs
  MaxArrivals = 3
SYMMETRY Interchangeable
SPECIFICATION Spec
INVARIANTS TypeOK FirstSampleClaimedOnce RequestsAccounted GaugeCoversTickets ClientCallsWithinLimit ReadyOnlyOnceAccepting
PROPERTIES StopEndsReadiness

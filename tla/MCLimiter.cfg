\* Three clients contend for one slot, one handler may panic, counters wrap at 6.
CONSTANTS
  r1 = r1
  r2 = r2
  r3 = r3
  p1 = p1
  Requests = {r1, r2, r3}
  Probes = {p1}
  MaxInflight = 1
  Modulus = 6
  MaxPanics = 1
SYMMETRY Interchangeable
SPECIFICATION Spec
INVARIANTS TypeOK TicketsConserved LimitHoldsUnlessOvertaken
PROPERTY NewestTicketExact

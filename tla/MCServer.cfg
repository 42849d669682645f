CONSTANTS
  Callers = {r1, r2, r3}
  Clients = {k1, k2}
  MaxRequests = 1
  Window = 2
  Capacity = 1
  LastTick = 2
  Slots = 2
  Deadline = 1
SPECIFICATION ServerSpec
INVARIANTS SlotsConserved Bounded CountsGrants
PROPERTIES SlotsReturn BudgetsKept
CHECK_DEADLOCK FALSE

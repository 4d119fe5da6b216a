\* Two inits and a call, each in any of the languages.
SPECIFICATION Spec
CONSTANTS
  p1 = p1
  p2 = p2
  p3 = p3
  alice = alice
  bob = bob
  behind = behind
  Behind = behind
  Proc = {p1, p2, p3}
  Address = {alice, bob}
  Value = {alice, bob}
  Key <- OwnerKeys
  Request <- OwnerRequest
  NoProc = NoProc
  None = None
INVARIANTS TypeOK ReportsAreTrue
PROPERTY ImplementsRegisters
CHECK_DEADLOCK FALSE

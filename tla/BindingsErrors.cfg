\* README.md:162: errors are returned.
SPECIFICATION Spec
CONSTANTS
  k1 = k1
  k2 = k2
  alice = alice
  bob = bob
  bytes = bytes
  Key = {k1, k2}
  Address = {alice, bob}
  Other = {bytes}
  MaxCalls = 2
  None = None
  Stray = Stray
SYMMETRY Symmetry
INVARIANT ErrorsAreReturned
CHECK_DEADLOCK FALSE

\* Programs of up to three calls behind open, in C++ and in Rust.
SPECIFICATION Spec
CONSTANTS
  k1 = k1
  k2 = k2
  alice = alice
  bob = bob
  bytes = bytes
  Key = {k1, k2}
  Address = {alice, bob}
  Other = {bytes}
  MaxCalls = 4
  None = None
  Stray = Stray
SYMMETRY Symmetry
INVARIANTS TypeOK OnlyKnownFaults OnlyKnownLeaks ReadsFindWrites
CHECK_DEADLOCK FALSE

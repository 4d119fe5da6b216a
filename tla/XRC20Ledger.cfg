\* Three processes, two competing owners, a reader, kills and power losses.
SPECIFICATION Spec
CONSTANTS
    alice = alice
    bob = bob
    s1 = s1
    s2 = s2
    p1 = p1
    p2 = p2
    p3 = p3
    NoProc = NoProc
    None = None
    Address <- MCAddress
    Supply <- MCSupply
    Key <- MCKey
    Value <- MCValue
    Proc = {p1, p2, p3}
    Request <- MCRequest
SYMMETRY Processes
INVARIANTS TypeOK InitsNeverMix OwnerHoldsSupply SuccessMeansAllPut
PROPERTY ImplementsLedger

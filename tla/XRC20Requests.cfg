\* Two processes and one command line on each side of every check of main.
SPECIFICATION FairSpec
CONSTANTS
    alice = alice
    bob = bob
    s1 = s1
    s2 = s2
    p1 = p1
    p2 = p2
    p3 = p3
    NoProc = NoProc
    None = None
    Address <- MCAddress
    Supply <- MCSupply
    Key <- MCKey
    Value <- MCValue
    Proc = {p1, p2}
    Request <- MCOddRequest
PROPERTIES ImplementsLedger StoreIsReleased

\* Every small context file, failing calls, and edits while it is read.
SPECIFICATION FairSpec
CONSTANTS
    alice = alice
    bob = bob
    call1 = call1
    call2 = call2
    Zero = Zero
    Garbled = Garbled
    None = None
    Content <- MCContent
    Text <- MCText
    Edits <- MCEdits
INVARIANTS TypeOK ContextOrError NoBadFree OnlyKnownLeaks ContextIsDecoded ErrorNamesFirstBadItem
PROPERTY ImplementsOpening
CHECK_DEADLOCK FALSE

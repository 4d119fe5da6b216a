\* qtum.h:53: the message is copied to an allocated struct.
SPECIFICATION Spec
CONSTANTS
    alice = alice
    bob = bob
    call1 = call1
    call2 = call2
    Zero = Zero
    Garbled = Garbled
    None = None
    Content <- MCContent
    Text <- MCText
    Edits <- MCEdits
INVARIANT MessageIsAString
CHECK_DEADLOCK FALSE

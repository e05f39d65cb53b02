SPECIFICATION FairSpec
CONSTANTS
    NQueues = 2
    Clients = {c1, c2}
    Cap = 1
    MaxMsgs = 2
INVARIANTS
    WaitAnyIsSound
    MessagesAccounted
PROPERTIES
    GetAnyReturns

CONSTANTS
    t1 = t1  t2 = t2  t3 = t3
    Threads = {t1, t2}
    Kinds = {"google", "refresh", "get", "post"}
    MaxRequests = 4
SPECIFICATION FairSpec
INVARIANTS
    AlwaysRegistered
    HandlersOutliveCalls
    Consistent
PROPERTIES
    LostOnlyInShutdown
    LateCallsRefused
    RequestsEnd

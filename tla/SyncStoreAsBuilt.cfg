CONSTANTS
    t1 = t1  t2 = t2  t3 = t3
    ann = ann  bob = bob  carl = carl
    pa = pa  pb = pb
    f = f  g = g
    Threads = {t1, t2}
    Emails = {ann, bob}
    Plugins = {"plugin"}
    Payloads = {pa}
    FieldKeys = {f, g}
    FieldsOf <- MCFieldsOf
    InitialUsers <- OneUser
    Kinds = {"google", "register", "post", "get"}
    FaultKinds = {"statement", "transaction"}
    DtorRollsBackAgain = TRUE
    NoThread = NoThread
    NoPayload = NoPayload
    MaxId = 2
    MaxRequests = 3
    MaxFaults = 2
    MaxCrashes = 1
SPECIFICATION FairSpec
INVARIANTS
    ConfinedDamage
    NoLeakedTransaction
PROPERTIES
    CommittedUsersStay
    Answered

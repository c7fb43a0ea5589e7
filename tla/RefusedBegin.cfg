CONSTANTS
    t1 = t1  t2 = t2  t3 = t3
    ann = ann  bob = bob  carl = carl
    pa = pa  pb = pb
    f = f  g = g
    Threads = {t1, t2}
    Emails = {ann, bob}
    Plugins = {"plugin"}
    Payloads = {pa, pb}
    FieldKeys = {f, g}
    FieldsOf <- MCFieldsOf
    InitialUsers <- OneUser
    Kinds = {"google", "post"}
    FaultKinds = {"statement", "transaction"}
    DtorRollsBackAgain = TRUE
    NoThread = NoThread
    NoPayload = NoPayload
    MaxId = 2
    MaxRequests = 2
    MaxFaults = 0
    MaxCrashes = 0
SPECIFICATION Spec
INVARIANTS
    NoSpuriousAbort

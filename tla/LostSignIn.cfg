CONSTANTS
    t1 = t1  t2 = t2  t3 = t3
    ann = ann  bob = bob  carl = carl
    pa = pa  pb = pb
    f = f  g = g
    Threads = {t1, t2, t3}
    Emails = {ann, bob, carl}
    Plugins = {"plugin"}
    Payloads = {pa}
    FieldKeys = {f, g}
    FieldsOf <- MCFieldsOf
    InitialUsers <- OneUser
    Kinds = {"google", "post"}
    FaultKinds = {"statement", "transaction"}
    DtorRollsBackAgain = TRUE
    NoThread = NoThread
    NoPayload = NoPayload
    MaxId = 3
    MaxRequests = 5
    MaxFaults = 0
    MaxCrashes = 0
SYMMETRY Symmetry
SPECIFICATION Spec
INVARIANTS
    IssuedIdsNameTheirUser

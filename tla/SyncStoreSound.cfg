CONSTANTS
    t1 = t1  t2 = t2  t3 = t3
    ann = ann  bob = bob  carl = carl
    pa = pa  pb = pb
    f = f  g = g
    Threads = {t1, t2, t3}
    Emails = {ann, bob}
    Plugins = {"plugin"}
    Payloads = {pa, pb}
    FieldKeys = {f, g}
    FieldsOf <- MCFieldsOf
    InitialUsers <- OneUser
    Kinds = {"google", "register", "post", "get"}
    FaultKinds = {"statement"}
    DtorRollsBackAgain = FALSE
    NoThread = NoThread
    NoPayload = NoPayload
    MaxId = 2
    MaxRequests = 4
    MaxFaults = 1
    MaxCrashes = 1
SYMMETRY Symmetry
SPECIFICATION Spec
INVARIANTS
    Inductive
    Isolated
    IssuedIdsNameTheirUser
    WholeOptions
    WholeAnswers
    TokensAccepted
PROPERTIES
    ImplementsAtomicStore

CONSTANTS
    t1 = t1  t2 = t2
    ann = ann  bob = bob
    pa = pa  pb = pb
    f = f  g = g
    secret = secret  guess = guess
    Threads = {t1, t2}
    Emails = {ann, bob}
    Plugins = {"plugin"}
    Payloads = {pa, pb}
    FieldKeys = {f, g}
    FieldsOf <- MCFieldsOf
    InitialUsers <- NoUsers
    Kinds = {"google", "register", "post", "get", "login", "update"}
    UpdateKinds = {"password", "email"}
    Passwords = {secret, guess}
    NoPassword = NoPassword
    NoPayload = NoPayload
    MaxId = 3
    MaxRequests = 4
    MaxFaults = 1
SPECIFICATION Spec
SYMMETRY Symmetry
INVARIANTS
    CopiesAgree
    OptionsOfTheirUser
    IssuedIdsFoundBothWays
    LoginsProven
    StaleOnlyAfterRename
PROPERTIES
    ImplementsAtomicStore
    CommittedExactlyOnSuccess

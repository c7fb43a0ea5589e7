CONSTANTS
    Threads = {t1, t2, t3}
    NoContext = NoContext
    Configured = Configured
    MaxExchanges = 4
SPECIFICATION FairSpec
INVARIANTS
    UpWhileInside
    CodeUnderOwnSettings
PROPERTIES
    ExchangesEnd

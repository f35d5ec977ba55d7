SPECIFICATION FairSpec
CONSTANTS
    name = name  mail = mail
    r1 = r1  r2 = r2  h1 = h1  h2 = h2
    NumScans = 5
    NumHistorical = 2
    NumProposals = 2
    Payloads = {name, mail}
    NoData = NoData
    Payload <- PayloadOf
    MaxConcurrent = 1
    Window = 1
    Requesters = {r1, r2}
    Pages = {}
    Deletable = {1}
    None = None
    MaxFaults = 1
INVARIANTS LedgerBacked LimitOverrun
PROPERTIES RequestSettles HistoryIsReconciled
CHECK_DEADLOCK FALSE

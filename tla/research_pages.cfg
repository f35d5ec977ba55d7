SPECIFICATION Spec
CONSTANTS
    name = name  mail = mail
    r1 = r1  r2 = r2  h1 = h1  h2 = h2
    NumScans = 1
    NumHistorical = 0
    NumProposals = 2
    Payloads = {name, mail}
    NoData = NoData
    Payload <- PayloadOf
    MaxConcurrent = 1
    Window = 1
    Requesters = {r1}
    Pages = {h1, h2}
    Deletable = {1}
    None = None
    MaxFaults = 1
INVARIANTS ImportedOnce
PROPERTIES SettledNeverLaunched
CHECK_DEADLOCK FALSE

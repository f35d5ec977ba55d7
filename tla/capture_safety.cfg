SPECIFICATION FairSpec
CONSTANTS
    j1 = j1  j2 = j2  j3 = j3
    f1 = f1  f2 = f2
    h1 = h1  h2 = h2
    Jobs = {j1, j2}
    Findings = {f1, f2}
    Handlers = {h1, h2}
    None = None
    MaxFaults = 2
INVARIANTS EvidenceBacked
PROPERTIES CancelOverwrittenOnlyInFlight ImplementsSlot QueuedIsSettled
CHECK_DEADLOCK FALSE

SPECIFICATION FairSpec
CONSTANTS
    r1 = r1  r2 = r2  r3 = r3  r4 = r4
    c1 = c1  c2 = c2
    Requests = {r1, r2, r3}
    Clients = {c1, c2}
    None = None
INVARIANTS GaplessNumbers TotalIsSum CommittedWorkIsBilled NotesInOrder
PROPERTIES EveryRequestEnds
CHECK_DEADLOCK FALSE

SPECIFICATION FairSpec
CONSTANTS
    a1 = a1  a2 = a2  a3 = a3
    t1 = t1  t2 = t2  t3 = t3
    p1 = p1  p2 = p2
    photo = photo  mail = mail
    Actions = {a1, a2}
    Kinds = {photo, mail}
    Photo = photo
    Kind <- AllPhotos
    Results = {mail}
    Procs = {p1}
    Threads = {t1, t2}
    None = None
    MaxFaults = 1
INVARIANTS ActiveHasWorker
PROPERTIES StartedEnds
CHECK_DEADLOCK FALSE

SPECIFICATION Spec
CONSTANTS
    a1 = a1  a2 = a2  a3 = a3
    t1 = t1  t2 = t2  t3 = t3
    p1 = p1  p2 = p2
    photo = photo  mail = mail
    Actions = {a1}
    Kinds = {photo, mail}
    Photo = photo
    Kind <- AllMail
    Results = {mail}
    Procs = {p1, p2}
    Threads = {t1, t2, t3}
    None = None
    MaxFaults = 1
SYMMETRY Symmetric
INVARIANTS HeardCancelSticks InvoicedOnce
PROPERTIES FinalIsFinal
CHECK_DEADLOCK FALSE

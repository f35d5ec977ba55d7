SPECIFICATION Spec
CONSTANTS
    g1 = g1  g2 = g2  r1 = r1  r2 = r2  r3 = r3
    v1 = v1  v2 = v2  e1 = e1  e2 = e2  e3 = e3  n1 = n1  n2 = n2
    Regs = {g1, g2}
    Requests = {r1, r2, r3}
    Visitors = {v1, v2}
    Emails = {e1, e2, e3}
    Names = {n1, n2}
    Home = Home
    None = None
    MailOf <- OneCustomer
    NameOf <- Namesakes
    MaxUsers = 1
SYMMETRY Symmetric
INVARIANTS OneEnvironment EnvironmentIsApproved OneAccess SeatsOverrun
CHECK_DEADLOCK FALSE

SPECIFICATION RowsSpec
CONSTANTS
    r1 = r1  r2 = r2  r3 = r3  r4 = r4  v1 = v1
    Requests = {r1, r2, r3}
    Investigations = {v1}
    Cases = {r1, r2, r3}
    Users = {u1, u2}
    Admins = {u1}
    Intakes = {i1}
    Tenants = {t1, t2}
    MaxSubs = 2
    None = None
SYMMETRY Symmetric
INVARIANTS OnlyReleasedText LostOnlyToStaleText FilledIsBilled
INVARIANTS EndFollowsStatus NoCircle EndlessOnlyOnCircle
INVARIANTS OneCase AttachmentsFollow PaidHasSubscription KeptByFailure
PROPERTIES ClosedReopensOnlyStale PayingIsKept
CHECK_DEADLOCK FALSE

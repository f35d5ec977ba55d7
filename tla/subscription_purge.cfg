SPECIFICATION Spec
CONSTANTS
    Tenants = {t1}
    MaxSubs = 2
    None = None
PROPERTIES ResubscribedIsKept
CHECK_DEADLOCK FALSE

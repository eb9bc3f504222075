SPECIFICATION Spec
CONSTANTS
    c1 = c1
    c2 = c2
    r1 = r1
    r2 = r2
    Callers = {c1, c2}
    Reservations = {r1, r2}
    Requests <- SmallRequests
    Usages <- SmallUsages
    Limits <- SmallLimits
    MaxCasRetries = 3
INVARIANTS TypeOK NeverOverspent Balanced

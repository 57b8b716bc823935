SPECIFICATION FairSpec
CONSTANTS
    Requests = {r1, r2}
    Addrs = {a}
    Domains = {d}
    BadName = bad
    Schemes = {s, f}
    Suited = {s}
    Margin = 1
    Leaf = 2
    RootFrom = 1
    RootTo = 4
    SignMax = 1
    MaxTime = 4
    MaxSets = 1
    ClockSets = {3}
    Allows = {{d}}
    None = None
INVARIANTS ServedIsValid ServedFits ServedWasEntitled
PROPERTIES RenewedOnlyWhenDue RequestsAreAnswered
CHECK_DEADLOCK FALSE

SPECIFICATION Spec
CONSTANTS
    s1 = s1  s2 = s2  ra = ra  rb = rb
    Snaps = {s1, s2}
    Requests = {ra, rb}
    NoRequest = NoRequest
    Order <- ByName
    Decisions <- NewCore
    NumDates = 1
    Budget = 1
    Lossy = FALSE
    MaxRuns = 1
    MaxSeq = 1
    MaxToken = 2
INVARIANTS NoRunRefused
CHECK_DEADLOCK FALSE

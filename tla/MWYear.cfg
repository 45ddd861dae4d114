SPECIFICATION Spec
CONSTANTS
    s1 = s1  s2 = s2  ra = ra
    Snaps = {s1}
    Requests = {ra}
    NoRequest = NoRequest
    None = None
    Order <- ByName
    Decisions <- Runnable
    YearOf <- NewYear
    NumDates = 2
    ChunkDates = 1
    Budget = 6
    Lossy = FALSE
    MaxRuns = 1
    MaxSeq = 1
    MaxToken = 6
    MaxFaults = 2
INVARIANT ReadsItsYear
CHECK_DEADLOCK FALSE

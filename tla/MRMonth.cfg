SPECIFICATION Spec
CONSTANTS
    s1 = s1  s2 = s2  ra = ra  rb = rb
    Snaps = {s1, s2}
    Requests = {ra, rb}
    NoRequest = NoRequest
    Order <- ByName
    Decisions <- Undecided
    NumDates = 1
    Budget = 1
    Lossy = TRUE
    MaxRuns = 2
    MaxSeq = 1
    MaxToken = 2
INVARIANTS TypeOK ChunksInOrder CompletedIsSeeded CanonicalIsLinked RowsFitRequests OneWinner
PROPERTIES ClosedRequestsStay
CHECK_DEADLOCK FALSE

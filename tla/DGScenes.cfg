SPECIFICATION Spec
CONSTANTS
    c1 = c1  d1 = d1  d2 = d2
    daily = daily  later = later  seed = seed  retry = retry  seed2 = seed2
    Codes = {c1}
    Digests = {d1, d2}
    Gens = {daily, later, seed, retry, seed2}
    Absent = Absent
    NoGen = NoGen
    MaxSwept = 1
    Profile <- MCProfile
    TradeDate <- MCDate
    Candidates <- MCCodes
    Request <- MCRequest
CONSTRAINTS WholeBatches Scenes
SYMMETRY RetrySymmetry
INVARIANTS IInv OneCommitted CommitIsWhole PublishedStaysServed LatestIsNewest
PROPERTIES AuditTrailKept ImplementsCatalog
CHECK_DEADLOCK FALSE

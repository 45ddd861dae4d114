SPECIFICATION DaySpec
CONSTANTS
    c1 = c1  daily = daily  later = later  backfill = backfill
    recon = recon  asof1 = asof1  asof2 = asof2  seed = seed  seed2 = seed2
    Gens = {daily, later, backfill, recon, asof1, asof2}
    Codes = {c1}
    Absent = Absent
    NoGen = NoGen
    Reconciles = {recon}
    MaxAttempts = 2
    Profile <- MCProfile
    TradeDate <- MCDate
    Candidates <- MCCodes
    Request <- MCRequest
    Group <- MCGroup
INVARIANTS ObjectsMatchRows
PROPERTIES ImplementsCatalog PublishesOnWhatItRead
CHECK_DEADLOCK FALSE

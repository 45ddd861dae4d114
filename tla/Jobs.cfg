SPECIFICATION JobsSpec
CONSTANTS
    a = a  b = b  i = i  wc1 = wc1  wc2 = wc2  s1 = s1  s2 = s2
    CoreCodes = {a, b}
    Bench = {i}
    NumPriceDays = 3  Required = 2  Window = 3  MaxPasses = 2  Threshold = 1
    NoDate = NoDate
    AsOfs = {1, 2}
    WebCodes = {wc1, wc2}
    BarOn <- MCBarOn
    LongHistory = {wc1}
    IndexBars = {1, 2}
    WebSets = {"s1", "s2"}
    Requested = 2  MaxWebPasses = 2  MaxTries = 2  MaxWebFaults = 1
    NoAsOf = NoAsOf
    Targets = {"patch", "monthly"}
    FireAt <- MCFireAt
    Grace <- MCGrace
    NeedsOpenDay = {"patch"}
    FirstOnly = {"monthly"}
    Skew = 1  DayLength = 4  NumWatchDays = 2
    DrainWindow = {1, 2, 3}
    PollLookback = 1  ListLength = 2
    Watchdogs = {w1}
    MaxHandRuns = 1
    Stocks = {s1, s2}
    NumDays = 3  MonthLength = 2  LookbackMonths = 1  MaxBuilds = 1  BuildDays = 2
    NoOutput = NoOutput
    Issues = {1, 2, 3}
    Codes = {1, 2, 3, 4, 5}
    Market <- MCMarket
    ClassShares = {5}
    Duplicated = {3}
    MinRows = 1  MaxRuns = 2
    NewsStocks = {1, 2}
    NumNewsDays = 2
    NewsMonth <- MCNewsMonth
    NewsLookback = 1
    Published <- MCPublished
    TdnetRows = 2  TopN = 2  MaxCauseRuns = 2  MaxAttempts = 2
    ConfigTable <- MCLimits
    DefaultTable <- MCLimits  LastRange = 5
    Prices = {0, 1, 2, 3, 4, 5, 6, 7, 8, 9, 10}
    OldBars <- MCOldBars
    Ranks = {10, 50, 96}
    MeanRange = 2  MaxBars = 2  Unknown = Unknown
    NameCodes = {1, 2}
    Words = {"long", "abc", "other", "noise"}
    OwnName <- MCOwnName
    ShortWords = {"abc"}
    NoiseWords = {"noise"}
    Shown <- MCShown
    Disclosed <- MCDisclosed
    Alphabet <- MCAlphabet
    NumNameDays = 2  SaveEvery = 1  Outages <- MCOutages  MaxNamePasses = 3
CONSTRAINTS Scenes
ACTION_CONSTRAINTS Steps
INVARIANTS  CauseSafe WordsSafe
PROPERTIES PriceSafe CronSafe SelectSafe MonthSafe
CHECK_DEADLOCK FALSE

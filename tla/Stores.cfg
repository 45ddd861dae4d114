SPECIFICATION StoresSpec
CONSTANTS
    c1 = c1  c2 = c2  daily = daily  seed = seed  retry = retry  web = web  web2 = web2
    i1 = i1  i2 = i2  i3 = i3  j1 = j1  j2 = j2  f1 = f1  q1 = q1  q2 = q2
    r1 = r1  r2 = r2  m0 = m0  m1 = m1  m2 = m2  e1 = e1  e2 = e2  o1 = o1  o2 = o2
    t1 = t1  t3 = t3  k1 = k1  k2 = k2  a1 = a1  a2 = a2  g1 = g1  g2 = g2  x1 = x1  x2 = x2
    Codes = {c1, c2}
    Digests = {d1}
    Gens = {daily, seed, retry, web, web2}
    Absent = Absent
    NoGen = NoGen
    Profile <- MCProfile
    TradeDate <- MCDate
    Candidates <- MCCodes
    Request <- MCRequest
    NSeries = 3  PageSize = 1  MaxVersions = 2  NItems = 3  ChunkSize = 2  MaxErrors = 2
    Puts = {i1, i2, i3, j1, j2, f1, q1, q2}
    PutKind <- MCKind
    PutBytes <- MCBytes
    Bytes = {"b1", "b2"}
    NoBytes = NoBytes
    MaxBusFaults = 2
    Runs = {r1, r2}
    Files = {"x1", "x2"}
    NoFile = NoFile
    NoRun = NoRun
    MaxAttempts = 2
    MaxRunFaults = 2
    Sets = {m0, m1, m2}
    FirstSet = m0
    NoSet = NoSet
    Canonical = {m0, m1}
    Ordinals = {1, 2}
    Seeders = {e1, e2}
    Operators = {o1, o2}
    Writers = {w1}
    Mints = {g1, g2}
    Requests = {n1}
    Actors = {a1, a2}
    Refs = {t1, t3}
    RefKey <- MCKey
    Contents = {x1, x2}
    Nothing = Nothing
    MaxChanges = 2
CONSTRAINTS Scenes
INVARIANTS ClientSafe PublishSafe GrantSafe
PROPERTIES DoubleSafe CacheSafe MetricSafe
CHECK_DEADLOCK FALSE

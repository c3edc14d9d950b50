SPECIFICATION ComponentsSpec
CONSTANTS
    Parts = {"gpu", "workers", "demucs", "admission", "tagger", "decode", "library"}
    Callers = {c1, c2, c3, c4}
    Lanes = {l1, l2}  Warmers = {p1}  Daemons = {d1, d2}
    maxDaemons = 1  maxRecycle = 2  MaxPoolFaults = 1
    c1 = c1  c2 = c2  c3 = c3  c4 = c4
    l1 = l1  l2 = l2  l3 = l3  p1 = p1  d1 = d1  d2 = d2  NoDaemon = NoDaemon
    s1 = s1  s2 = s2  m1 = m1  NoClient = NoClient
    r1 = r1  r2 = r2  k1 = k1  k2 = k2  NoKey = NoKey
    t1 = t1  t2 = t2  q1 = q1  h1 = h1  ka = ka  kh = kh  NoTag = NoTag
    Separators = {s1, s2}  Mixers = {m1}  Prewarmers = {p1}  Clients = {d1, d2}
    InitialLimit = 2  TasksPerClient = 2  MaxDemucsFaults = 1
    Runs = {r1, r2}  Keys = {k1, k2}  MaxWord = 3  RAMSizes = {1, 2}  VRAMSize = 1
    TrackCapacity = 2  MaxTokens = 4
    Taggers = {t1, t2}  Repairers = {q1}  Migrators = {h1}
    TagKeys = {ka, kh}  HnrKey = kh  TagSets = {{ka}}  Posix = FALSE
    RetryCount = 2  MaxTagFaults = 1
    Sheets <- CueSheets
    TotalSamples = 4  Readable = {1, 2, 4}  LongSlice = 3  Decodings = 2
    HeaderBytes = 3  ChunkBytes = 4
    Audios = {a1}  Ingesters = {i1}  Ingests = {o1}  Replayers = {x1}
    EmptyFixers = {f1}  HnrTools = {b1}  MetaTools = {b2}  AudioOf <- OneAudio
    a1 = a1  i1 = i1  o1 = o1  x1 = x1  f1 = f1  b1 = b1  b2 = b2
    NoDoc = NoDoc  LibraryBudget = 3
INVARIANTS
    TypeOK
    OneHolder
    NoLostWaiter
    PoolTypeOK
    OneUser
    BooksMatch
    RetirementIsSeen
    AnswersAreAwaited
    OneGPUPlace
    NoForgottenWaiter
    ClosedIsDead
    BooksBalance
    TaggerTypeOK
    NoLostUpdate
    SuccessIsWritten
    BrokenInPlaceOnly
    SlicesPartitionTheFile
    HashIsOfItsSlice
    HashIsStable
    ResultsSurvive
PROPERTIES
    NoOvercommit
    RepairsFillGaps
    SnapshotHolds
CHECK_DEADLOCK FALSE

SPECIFICATION FairSpec
CONSTANTS
    t1 = t1  t2 = t2  w1 = w1  w2 = w2  r1 = r1  r2 = r2  h1 = h1  h2 = h2
    None = None
    Tracks = {t1, t2}
    Hashes = {h1}
    Hash <- SharedHash
    Legacy = {t1}
    Workers = {w1}
    Size <- MCSize
    DownstreamTracks = 1
    IngestCap = 1
    SkipDupByHash = TRUE
    Requests = {r1}
    MaxFaults = 0
    MaxRestarts = 0
PROPERTY
    ForcedIsSettled

SPECIFICATION FairSpec
CONSTANTS
    s1 = s1  s2 = s2  c1 = c1  c2 = c2  g = g
    None = None
    Stems = {s1, s2}
    CPUConsumers = {c1, c2}
    GPUConsumer = g
    MaxFaults = 1
INVARIANTS
    TypeOK
    FeaturesAreComplete
    ReadersAreSafe
    RefsAreReaders
    HoldsAreReturned
PROPERTY
    StageEnds
CHECK_DEADLOCK FALSE

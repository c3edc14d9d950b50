SPECIFICATION Spec
CONSTANTS
    s1 = s1  s2 = s2  c1 = c1  c2 = c2  g = g
    None = None
    Stems = {s1, s2}
    CPUConsumers = {c1}
    GPUConsumer = g
    MaxFaults = 1
INVARIANT
    WaitStaysRetryable
CHECK_DEADLOCK FALSE

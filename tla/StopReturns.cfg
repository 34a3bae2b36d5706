\* join gives up after its timeout, the put before it has none.
SPECIFICATION Spec
CONSTANTS
    k1 = k1
    k2 = k2
    k3 = k3
    smaller = smaller
    Key = {k1, k2, k3}
    Rewrite = {smaller}
    None = None
    MaxEntries = 3
    w1 = w1
    w2 = w2
    Worker = {w1, w2}
    MaxQueue = 3
    Equivalent <- MCEquivalent
    Main = Main
    Pill = Pill
    DefaultCtx = DefaultCtx
PROPERTY
    StopReturns
CHECK_DEADLOCK FALSE

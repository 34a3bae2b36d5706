SPECIFICATION Spec
CONSTANTS
    k1 = k1
    k2 = k2
    k3 = k3
    good = good
    bad = bad
    w1 = w1
    Key = {k1, k2}
    Rewrite = {good, bad}
    None = None
    MaxEntries = 2
    Worker = {w1}
    MaxQueue = 1
    Equivalent <- MCEquivalent
    Main = Main
    Pill = Pill
    DefaultCtx = DefaultCtx
    Faults = FALSE
    FlushEvery = 2
    ProofModes = {TRUE}
    Z3AtStart = {FALSE}
    MaxSessions = 1
INVARIANT
    ContextExclusive

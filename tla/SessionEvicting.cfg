SPECIFICATION Spec
CONSTANTS
    k1 = k1
    k2 = k2
    k3 = k3
    good = good
    bad = bad
    w1 = w1
    Key = {k1, k2}
    Rewrite = {good, bad}
    None = None
    MaxEntries = 1
    Worker = {w1}
    MaxQueue = 1
    Equivalent <- MCEquivalent
    Main = Main
    Pill = Pill
    DefaultCtx = DefaultCtx
    Faults = TRUE
    FlushEvery = 1
    ProofModes = {TRUE, FALSE}
    Z3AtStart = {TRUE}
    MaxSessions = 2
SYMMETRY KeySymmetry
INVARIANTS
    TypeOK
    InstalledEquivalent
    PendingNeverDurable
    PendingOwned
    ContextExclusive
PROPERTY
    LatePendingErasesNothing

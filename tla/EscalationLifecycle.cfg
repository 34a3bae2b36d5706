\* Restarts, a three-place queue and a prover that may raise.  A blocked stop is
\* a state with no successor, so deadlock is not checked here: StopReturns is
\* the property about it.
SPECIFICATION Spec
CONSTANTS
    k1 = k1
    k2 = k2
    k3 = k3
    smaller = smaller
    Key = {k1, k2, k3}
    Rewrite = {smaller}
    None = None
    MaxEntries = 3
    w1 = w1
    w2 = w2
    Worker = {w1, w2}
    MaxQueue = 3
    Equivalent <- MCEquivalent
    Main = Main
    Pill = Pill
    DefaultCtx = DefaultCtx
INVARIANTS
    TypeOK
    PendingOwned
    EscalatedOnce
PROPERTIES
    DrainMeansSettled
    VerdictsStay
    StopEndsWorker
CHECK_DEADLOCK FALSE

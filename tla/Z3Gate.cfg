CONSTANTS
    Thread = {main, worker}
    MaxGeneration = 2
SPECIFICATION Spec
INVARIANTS
    NeverUsedUnbound
    GateOpens
    AnswersAreDefinite

SPECIFICATION Spec
CONSTANTS
    v1 = v1
    v2 = v2
    t1 = t1
    t2 = t2
    narrow = narrow
    heap = heap
    Width = 2
    Depth = 5
    Var = {v1, v2, t1, t2, narrow}
    Heap = heap
    None = None
    Size <- MCSize
    Code <- MCCode
    Rewrites <- MCRewrites
    MaxLen = 3
    MaxLeaves = 2
    MaxDepth = 5
    MaxNodes = 5
    RequireProof = TRUE
INVARIANT
    MatchedBack
CHECK_DEADLOCK FALSE

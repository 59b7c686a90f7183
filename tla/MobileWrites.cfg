CONSTANTS
    t1 = t1
    t2 = t2
    k1 = k1
    k2 = k2
    Threads = {t1, t2}
    Keys = {k1, k2}
    NoKey = NoKey
    DraftLists = {"receipts"}
    Batches <- SomeBatches
    MaxCounts = 1
    NoCall = NoCall
    MaxDesk = 2
SPECIFICATION DeskSpec
INVARIANTS
    CommentIsOfDecision
    AnswersAreTrue
PROPERTY
    ImplementsApplyOnce
SYMMETRY Alike

SPECIFICATION Spec
CONSTANTS
    v1 = v1
    v2 = v2
    v3 = v3
    plain = plain
    shared = shared
    file = file
    None = None
    Views = {v1, v2, v3}
    DocOf <- MCDocOf
    InitViews = {v1, v2}
    LoadingDocs = {plain}
    WorkspaceDocs = {shared, file}
    MAX_UNDO = 2
    MAX_UNDO_BYTES = 2
    MaxText <- MCMaxText
    MaxGroups = 1
    MaxEdits = 3
    Closable = {v2}
    ReadonlyDocs = {shared}
    Weights = {1}
INVARIANTS
    HistoryIsAChain
    ModifiedIsExact
    StoreWithinLimits
    GroupsMatchSteps
CHECK_DEADLOCK FALSE

SPECIFICATION FairSpec
CONSTANTS
    medium = medium
    large = large
    larger = larger
    rust = rust
    None = None
    Torn = Torn
    Garbled = Garbled
    Texts = {medium, large, larger}
    Bytes <- MCBytes
    InitText = large
    Edits <- MCEdits
    Langs = {rust}
    Viewports <- MCViewports
    InitView <- MCInitView
    max_concurrency = 2
    viewport_reserve = 1
    FULL_TREE_MEMORY_CAP = 2
    CacheCap = 1
    MaxEvents = 2
INVARIANTS
    TreesAreOfTheirVersion
    PendingIsExact
    ReadyIsCurrent
PROPERTIES
    TreeNeverRegresses
    
CHECK_DEADLOCK FALSE

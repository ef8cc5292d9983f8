SPECIFICATION Spec
CONSTANTS
    Circled = 20
    Letters = 14
    JoMin = 2
    JoMax = 4
    LongArticle = 3
    Enough = 3
    Reach = 2
    Layouts <- MCLayouts
    Editions <- MCEditions
    Searched <- MCSearched
    MaxLoads = 2
    MaxRuns = 2
INVARIANTS
    PoliciesKept
    KeysHold
    RefsResolve
    IndexTellsTables
CHECK_DEADLOCK FALSE

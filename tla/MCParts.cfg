CONSTANTS
    short = short
    longer = longer
    empty = empty
    shown = shown
    bare = bare
    \* Debounce
    Keys = {k1, k2}
    Calls = {c1, c2, c3}
    NoCall = none
    \* Knowledge
    Labels = {manual}
    Docs = {short, longer, empty}
    MaxUploads = 3
    ChunkCount <- PiecesOfDocs
    KnowledgeFaults = {"embed", "db"}
    \* AdminLogin
    Names = {"ana", "luis"}
    MaxRequests = 3
    Processes = {p1}
    Passwords = {1}
    MaxFailures = 1
    MaxPerMinute = 1
    AuthKinds = {"login", "second", "setup", "confirm", "create", "status", "password"}
    \* PanelSession
    PanelCalls = {f1, f2}
    MaxTokens = 2
    PanelFaults = {"network"}
    \* PanelViews
    Leads = {l1, l2}
    Files = {v1, v2}
    Pages = 2
    Slots = {s1, s2}
    None = none
    \* AgentTools
    Answers = {a1, a2}
    AgentProcs = {p1}
    Units = {shown, bare}
    PhotoCount <- PhotosOfUnits
    NoUnit = none
    MaxImages = 2
    MaxRounds = 1
    MaxRegen = 1
    AgentFaults = {"sheet", "wa", "llm", "crash"}
    \* HandoffRouting
    Sheets <- BranchSheets
    LeadFields <- BranchFields
    NoName = "none"
    Fallback = "fallback"
    RoutingFaults = {"sheet", "wa", "db"}
SPECIFICATION PartsSpec
INVARIANTS
    PartsTypeOK
    OneWindowPerKey
    DeferredIsCovered
    SourceIsOneUpload
    SerialSourceIsCurrent
    FailuresAreBounded
    EnabledSecretIsConfirmed
    TimersFollowTheTab
    FormIsUsable
    ViewsAreTrue
    NoPhotoIsSkipped
    EachPhotoOnce
    OneBranchIsTold
PROPERTIES
    ValidTokenIsKept
    PanelWithoutTokenIsLeft
CHECK_DEADLOCK FALSE

SPECIFICATION Spec
VIEW OwnState
CONSTANTS
    pinA = pinA
    pinB = pinB
    panC = panC
    pin = pin
    leftPanel = leftPanel
    s1 = s1
    k1 = k1
    NItems = 3
    MaxKey = 2
    MaxWinks = 1
    MaxRows = 1
    XWindow = {x1}
    MaxTitle = 1
    MaxPushes = 4
    view1 = view1
    details1 = details1
    pin1 = pin1
    desk = desk
    icon1 = icon1
    panel1 = panel1
    Widget = {view1, details1, pin1, desk, icon1, panel1}
    KindOf <- Kinds
    Outer <- Outers
    NoWidget = NoWidget
    Elsewhere = Elsewhere
    Options <- Tried
    MaxDown = 2
    NProcess = 3
    Request <- Requests
    MaxOpen = 1
    Icon = {pinA, pinB, panC}
    BoardOf <- Boards
    Pinboard = pin
    Path = {"p1", "p2"}
    Shortcut = {s1}
    KeyOf <- Keys
    NoShortcut = NoShortcut
    NoKey = NoKey
    NoIcon = NoIcon
    Entries <- Asked
    MaxIcons = 2
    Name = {"", "a", "b", "c", "./b", "./c"}
    Slashed = {"./b", "./c"}
    PathOf <- Spelled
    Listed0 <- Shown0
    MaxOthers = 2
    Row = {1, 2, 3}
    MaxSortKey = 2
    Opt = {"x", "y"}
    Val = {0, 1}
    Default <- Unset
    HasWidget = {"x"}
    OldFiles <- Olds
    Place = {"p", "q"}
    Nowhere = "nowhere"
    NameOrder <- Names4
    Fold <- Lower
    Contents <- InPlaces
    SubPlace <- SubOf
    Leaf <- Typed
    Pattern = {"g1"}
    Globs <- GlobOf
    Condition = {"c1", "bad"}
    NoCond = {"bad"}
    Selects <- TrueOf
    Command = {"k1"}
    MaxMiniSteps = 4
    Box = {"i1"}
    PermBit = {"w"}
    LinkTo = {"d", "none"}
    TargetKind <- KindOfTarget
    NoLink = "no link"
    MaxOutput = 2
    MaxFileSteps = 2
    MaxEdits = 2
    Mount = {"m"}
    ShownDir = {"top", "m", "m/d"}
    Above <- DirsAbove
    Parent <- DirParent
    Win = {"f1", "f2"}
    Job = {"j1"}
    NoDir = "nowhere"
    Way = {"eject"}
    MaxOffers = 1
    MaxMountEvents = 2
    Mark = {"a", "b"}
    Visitable = {"top", "a", "a/b", "c"}
    DirOver <- DirsIn
    HistoryMax = 2
    MaxMarks = 2
    MaxWrites = 2
    MaxCuts = 1
    MaxVisits = 5
    IsWord = {"IsReg", "IsLink"}
    Quoted = {"'a'"}
    DashFlags <- FlagsOf
    Number <- Numbers
    Unit = {"K"}
    Variable = {"size"}
    UnitValue <- UnitSizes
    FindFile <- Found
    Sign = {"IsReg", "prune", "!", "(", ")", ",", " ", "And", "Not"}
    Short = 4
    w2 = w2
    Pane = {w1, w2}
    Folder = {"d", "e"}
    NoFolder = "none"
    Crowded = {"e"}
    Alike = {"hidden"}
    Ticked <- TicksLeft
    MaxChoices = 1
    MaxBoxes = 2
    Type = {"xml", "xhtml"}
    MediaOf <- MediaTypes
    ParentsOf <- Parents
    DefaultsOf <- Defaults
    App = {"dir", "prog", "desk"}
    AppKind <- AppKinds
    Theirs = {"dir", "desk"}
    ShellCommand = {"long", "no $"}
    EmptyCommand = "blank"
    LongOnes = {"long"}
    Asking = {"blank", "long"}
    ActionBox = {"b1"}
    NoType = "none"
    MaxOutside = 1
    DataLength = 5
    PipeSize = 2
INVARIANTS TaskIconsRight OneFiler AnswerMeansDone
    BoardsRight ReleasedMeansReady
    SavedIsSaved NothingReplaced RowsFollow OptionsKept MiniFollows InfoRight BookmarksRight FindRight
PROPERTIES CollectionKept MountsRight SettingsUsed RunRight
CHECK_DEADLOCK FALSE

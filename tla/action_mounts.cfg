SPECIFICATION ChildrenSpec
VIEW OwnState
CONSTANTS
    d = d
    e = e
    f = f
    NoPath = NoPath
    Path <- ThreePaths
    Contents <- Flat
    Selected <- TwoDirs
    Kinds = {"link", "mount", "umount", "eject"}
    MaxToggles = 2
    MaxAborts = 2
    EFile = {d, e}
    FilesIn <- OneFile
    Chosen <- TheDir
    Text = {t1, t2, bad}
    Valid = {t1, t2}
    NoText = NoText
    NoItem = NoItem
    MaxTyping = 1
    MaxClicks = 1
    MaxSearches = 1
    one = one
    two = two
    w1 = w1
    w2 = w2
    d1 = d1
    d2 = d2
    Child = {c1, c2}
    BufLen = 1
    MaxForks = 3
    Window = {w1, w2}
    Image = {one, two}
    Dir = {d1, d2}
    DirOf <- TwoHomes
    NoProgram = {}
    Order <- Listed
    MaxVersion = 2
    MaxKids = 2
    MaxMoves = 3
    MaxEvents = 2
    IconItem = {folder1, page1}
    IconFolder = {folder1}
    Picture = {x1}
    MaxAsked = 2
    Wallpaper = {"image"}
    BackdropApp = {"wallpaper"}
    FitStyle = {"tile", "fit"}
    MaxPrograms = 3
    MaxLines = 2
    MaxSettings = 3
    pin1 = pin1
    pin2 = pin2
    small1 = small1
    small2 = small2
    PinnedIcon = {pin1, pin2}
    Iconified = {small1, small2}
    TitleOf <- Titles
    IconSizes <- LabelSizes
    ButtonSizes <- WindowSizes
    Screen <- SmallScreen
    GridStep = 2
    SearchStep = 3
    ButtonFrame = 1
    PanelArea <- BottomPanel
    Layouts <- BoardLayouts
    AskedPlaces <- AskedFor
    Spots <- DropPoints
    MaxPuts = 3
CHECK_DEADLOCK FALSE
INVARIANTS ClosedFirst EntryRight NoLostWakeUp ThumbsRight IconsRight BackdropRight PlacedApart
PROPERTIES ActionsEnd NoticeSpec ChainsEnd

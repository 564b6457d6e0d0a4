SPECIFICATION Spec
CONSTANTS
    Rows = {a, b}
    NoRow = none
    MaxDraftWrites = 2
    MaxFillings = 2
    MaxPosts = 3
    MaxVersions = 2
    Tasks = {}
    Tests = {u1}
    LateTasks = {t2}
    MaxSlots = 3
    MaxAttempts = 2
    MaxEdits = 2
    MaxFaults = 1
    Projects = {p1, p2}
    Away = away
    ListedRows = {1, 2}
    Worded = {1}
    PageSizes = {1, 2}
    MaxRowChanges = 1
    MaxNode = 3
    Named = {1, 3}
    MaxTreeChanges = 2
    Sprints = {s1, s2}
    NoSprint = noSprint
    MaxGestures = 2
    Cards = {c1, c2, c3}
    MAX_VOTES = 2
    MaxVotings = 2
    Targets = {r1, r2}
    Elsewhere = elsewhere
    MaxRequests = 2
    Tabs = {tab1, tab2}
    Routes = {sprints, teams}
    Home = sprints
    Teams = teams
    NoRoute = noRoute
    IdleLimits = {0, 2}
    MaxSignIns = 2
    MaxWalks = 1
INVARIANTS
    FrontendTypeOK
    RowsKeepTheirOwn
    SavesOfARowInOrder
    OneRowPerFilling
    CompletedBreakdownIsWhole
    EmptyPageOnlyAfterShrinking
    FiltersStayHome
    ListIsCurrent
    MatchesAreInSight
    PickMovesWhole
    ActsOnWhatWasMeant
    IdleTabsAreLeft
    BehindOnlyInBetween
PROPERTIES
    LiveViewCatchesUp
    UntouchedGoesOnlyWhenOvertaken
    OlderDataIsRefetched
    BackWhereHeWas
CHECK_DEADLOCK FALSE

SPECIFICATION MCSpec
CONSTANTS
    Entities = {"e"}
    Predicates = {"p"}
    Values = {x, y}
    None = None
    NoRow = NoRow
    RelTypes = {"t"}
    MaxEdgeEvents = 3
    Readers = {"r"}
    Grace = 2
    MaxGenerations = 3
    MaxClock = 6
    EntityRefs = {1, 2, 3}
    Metas <- MCMetas
    ReadScopes <- MCReadScopes
    PageLimit = 1
    MaxReadChanges = 3
    Facts = {9}
    SubjectOf <- MCSubjectOf
    MentionEvents <- MCMentionEvents
    FactTexts = {"l", "t"}
    Near = {}
    Requests <- MCRequests
    Questions <- MCQuestions
    Rows <- MCRows
    Graphs <- MCGraphs
    Null = Null
    MaxHead = 2
    LevelLimit = 2
    PageShapes <- MCPageShapes
    Starters = {"p", "q"}
    RootCrashes = 1
    Texts <- MCTexts
    SegmentPaths <- MCSegmentPaths
    Versions = {1, 2}
    MaxRange = 7
    Callers = {"c", "d"}
    RequestsPerWindow = 2
    WindowTicks = 2
    Burst = 1
    MaxTicks = 6
    MaxRequests = 6
    MaxStall = 1
    Operators = {"o", "p", "q"}
    Projections = {"a", "b"}
    ConcurrentRebuilds = 2
    MaxRebuilds = 4
CHECK_DEADLOCK FALSE
INVARIANTS EdgesAreReplay EdgesFollowDecisions GenerationsServe PagesAreTheListing SearchFollowsRows AnswersHonoured AdmissionBounded RebuildRightsExact
PROPERTIES RootComesUp LocatorsResolve

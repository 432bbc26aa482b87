SPECIFICATION MCSpec
CONSTANTS
    r1 = r1
    r2 = r2
    r3 = r3
    d1 = d1
    d2 = d2
    w1 = w1
    w2 = w2
    Requests <- MCRequests
    Digests <- MCDigests
    KnownWorks = {"w1"}
    GhostWorks = {"w9"}
    NamedIds = {"named"}
    MaxCrashes = 1
    None = None
    Subjects = {"k1"}
    MaxEvents = 3
    MaxBackups = 2
    TextWorkers <- MCWorkers
    Documents <- MCDocuments
    MaxOutages = 1
    MaxTextCrashes = 1
    MediaWorkers <- MCWorkers
    MediaSources <- MCMedia
    Uploads = {2}
    MaxRuns = 2
    MaxFaults = 1
    MaxMediaCrashes = 1
    Units <- MCUnits
    MaxUnits = 3
    MaxAppends = 1
SYMMETRY Interchangeable
CHECK_DEADLOCK FALSE
INVARIANTS ArchiveConsistent RestoresAreFaithful TextIsWhole MediaIsWhole AlignmentIsHonest
PROPERTIES NothingIsRewritten

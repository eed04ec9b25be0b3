CONSTANTS
    w1 = w1
    w2 = w2
    s1 = s1
    s2 = s2
    Workers <- TwoWorkers
    Sessions <- TwoSessions
    Formats <- Json
    Unknown = "xml"
    MaxVersion = 3
    TTL = 2
SPECIFICATION Spec
INVARIANTS
    TypeOK
    PurgeSuffices
    ForcedByFailure
PROPERTIES
    EventuallyFresh
    AnswersRecent

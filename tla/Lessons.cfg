CONSTANTS
    None = None
    repo = repo
    main = main
    q1 = q1
    q2 = q2
    Day = 1440
    Proximity <- InstanceProximity
    Ancestor <- InstanceAncestor
    VersionBefore <- InstanceBefore
    Scripts <- InstanceScripts
    Requests = {q1, q2}
    Nothing = Nothing
    Lessons = {"l1", "l2", "l3"}
    Wordings = {"x", "x2", "y"}
    Home <- InstanceHome
    Windows = {"w1", "w2", "w3"}
    Task <- InstanceTask
    Prompted = {"w1"}
    AttemptLimit = 1
    Life = 1
    MaxClock = 1
    MaxRevision = 2
    MaxAnswers = 3
    MaxFaults = 1
    MaxWords = 1
    Events = {"e1", "e2", "e3"}
    SessionOf <- InstanceSession
    RefersTo <- InstanceRefers
    Linked <- InstanceLinked
    Corrects = "e1"
    Proves = "e2"
    Jobs = {"j1", "j2"}
    LearnsFrom <- InstanceWindow
    Learns <- InstanceLearns
    Reviewed <- InstanceReviewed
    Rules = {"r1"}
    NoTarget = NoTarget
    MaxSayings = 1
    MaxDeletions = 2
    MaxInterrupts = 1
SPECIFICATION LessonsSpec
CONSTRAINT Followed
SYMMETRY Symmetric
INVARIANTS
    GroupingIsSound
    
    ReplacedStays
    ToldOnce
    DescribedAsItIs
    ErasedIsGone
PROPERTIES
    RefutedIsWithheld
    ProofStands
    AnswersYield
CHECK_DEADLOCK FALSE

CONSTANTS
    None = None
    repo = repo
    main = main
    q1 = q1
    q2 = q2
    Day = 1440
    Proximity <- InstanceProximity
    Ancestor <- InstanceAncestor
    VersionBefore <- InstanceBefore
    Scripts <- VersionScripts
    Requests = {q1, q2}
SPECIFICATION Spec
INVARIANT
    LatestVersionStands
CHECK_DEADLOCK FALSE

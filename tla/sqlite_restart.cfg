SPECIFICATION FairSpec
CONSTANTS
    Servers = {v1}
    Driver = "sqlite3"
    Groups <- MCGroups
    Parent <- MCParent
    BootUsers <- MCBootUsers
    GroupOf <- MCGroupOf
    Faults = FALSE
    MaxCrashes = 3
    None = none
    org = org
    dept = dept
    team = team
    unit = unit
    root = root
    auditor = auditor
INVARIANTS
    TypeOK
    ParentsFirst
    ServingFilled
PROPERTIES
    RestartFills

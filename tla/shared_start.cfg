SPECIFICATION Spec
CONSTANTS
    Servers = {v1, v2}
    Driver = "mysql"
    Groups <- MCGroups
    Parent <- MCParent
    BootUsers <- MCBootUsers
    GroupOf <- MCGroupOf
    Faults = TRUE
    MaxCrashes = 2
    None = none
    org = org
    dept = dept
    team = team
    unit = unit
    root = root
    auditor = auditor
SYMMETRY ServerSymmetry
INVARIANTS
    RowsUnique
    UsersGrouped

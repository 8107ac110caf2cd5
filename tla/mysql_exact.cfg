SPECIFICATION Spec
CONSTANTS
    Procs = {p1, p2}
    Users = {alice}
    Admin = admin
    Tokens = {t0, t1, t2}
    AdminToken = t0
    Serials = {s0, s1, s2, s3}
    AdminSerial = s0
    Types = {"client", "auditor"}
    GroupTypes = {"client"}
    AttrSets <- OnlyNoAttrs
    AdminAttrs <- MCAdminAttrs
    MaxEnrollments = 1
    Authentication = TRUE
    MySQL = TRUE
    Ops = {"enroll", "reenroll", "register", "revokeName", "revokeSerial"}
    ClientHeaders <- LibraryHeaders
    Faults = TRUE
    MaxRequests = 4
    None = none
SYMMETRY Symmetry
INVARIANTS
    RegisteredOnce
    StateCountsLogins
    EnrollLimit
PROPERTIES
    ImplementsEnrollment

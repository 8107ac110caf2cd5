SPECIFICATION Spec
CONSTANTS
    Procs = {p1, p2}
    Users = {alice}
    Admin = admin
    Tokens = {t0, t1, t2}
    AdminToken = t0
    Serials = {s0, s1, s2, s3, s4}
    AdminSerial = s0
    Types = {"client", "auditor"}
    GroupTypes = {"client"}
    AttrSets <- OnlyNoAttrs
    AdminAttrs <- MCAdminAttrs
    MaxEnrollments = 1
    Authentication = TRUE
    MySQL = FALSE
    Ops = {"register"}
    ClientHeaders <- LibraryHeaders
    Faults = FALSE
    MaxRequests = 4
    None = none
SYMMETRY Symmetry
INVARIANTS
    RegisteredOnce

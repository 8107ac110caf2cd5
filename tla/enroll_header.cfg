SPECIFICATION Spec
CONSTANTS
    Procs = {p1, p2}
    Users = {}
    Admin = admin
    Tokens = {t0, t1, t2}
    AdminToken = t0
    Serials = {s0, s1, s2, s3, s4}
    AdminSerial = s0
    Types = {"client", "auditor"}
    GroupTypes = {"client"}
    AttrSets <- OnlyNoAttrs
    AdminAttrs <- MCAdminAttrs
    MaxEnrollments = 1
    Authentication = TRUE
    MySQL = FALSE
    Ops = {"enroll"}
    ClientHeaders <- AnyHeaders
    Faults = FALSE
    MaxRequests = 2
    None = none
SYMMETRY Symmetry
INVARIANTS
    SignAuthenticated

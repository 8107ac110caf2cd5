SPECIFICATION FairSpec
CONSTANTS
    Procs = {p1, p2}
    Users = {}
    Admin = admin
    Tokens = {t0, t1, t2}
    AdminToken = t0
    Serials = {s0, s1, s2, s3}
    AdminSerial = s0
    Types = {"client", "auditor"}
    GroupTypes = {"client"}
    AttrSets <- OnlyNoAttrs
    AdminAttrs <- MCAdminAttrs
    MaxEnrollments = 0
    Authentication = TRUE
    MySQL = FALSE
    Ops = {"enroll", "revokeName"}
    ClientHeaders <- LibraryHeaders
    Faults = FALSE
    MaxRequests = 3
    None = none
PROPERTIES
    RevocationCompletes

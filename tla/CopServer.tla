------------------------------ MODULE CopServer ------------------------------
(***************************************************************************)
(* The COP server's request handlers over the shared database.             *)
(*                                                                         *)
(* net/http serves every request in a goroutine of its own, and several    *)
(* servers may share one database behind a proxy, so any number of         *)
(* requests is in progress at once.  A request is a process: it is         *)
(* authenticated (auth.go), runs its handler (enroll.go, register.go,      *)
(* revoke.go) and answers.  Its steps are the database statements it       *)
(* executes, in the order of the code; what the code does between two      *)
(* statements reads and writes only the goroutine's own variables and is   *)
(* part of the step of the statement that precedes or follows it.          *)
(***************************************************************************)
EXTENDS CopTables, FiniteSets

CONSTANTS
    Procs,          \* goroutines serving requests
    Users,          \* enrollment ids that requests register
    Admin,          \* the enrollment id of the bootstrap user
    Tokens,         \* enrollment secrets
    AdminToken,     \* the secret of the bootstrap user
    Serials,        \* serial numbers of certificates
    AdminSerial,    \* the bootstrap user's certificate
    Types,          \* user types, such as "client" or "auditor"
    GroupTypes,     \* the types requireGroup demands a group for
    AttrSets,       \* attributes a registration may ask for
    AdminAttrs,     \* attributes of the bootstrap user
    MaxEnrollments, \* CFG.UsrReg.MaxEnrollments
    Authentication, \* CFG.Authentication
    MySQL,          \* whether the database is MySQL
    Ops,            \* the operations clients request
    ClientHeaders,  \* the authorization headers clients send, per operation
    Faults,         \* whether statements, servers and connections may fail
    MaxRequests,    \* bound on the number of requests
    None            \* no value

AllUsers == Users \cup {Admin}

AllOps == {"enroll", "reenroll", "register", "revokeName", "revokeSerial"}

HeaderKinds == {"none", "basic", "token"}

Attrs == [roles : SUBSET Types, revoker : BOOLEAN]

ASSUME ConstantsAssumption ==
    /\ AdminToken \in Tokens /\ AdminSerial \in Serials /\ Admin \notin Users
    /\ GroupTypes \subseteq Types
    /\ AttrSets \subseteq Attrs /\ AdminAttrs \in Attrs
    /\ MaxEnrollments \in Int /\ MaxRequests \in Nat
    /\ Authentication \in BOOLEAN /\ MySQL \in BOOLEAN /\ Faults \in BOOLEAN
    /\ Ops \subseteq AllOps
    /\ ClientHeaders \in [AllOps -> SUBSET HeaderKinds]
    /\ None \notin Tokens /\ None \notin Serials /\ None \notin AllUsers
    /\ "none" \notin AllUsers

VARIABLES
    users,      \* table "users": the set of rows of each id
    certs,      \* table "certificates": the row of each serial
    pc,         \* the next statement of each process
    req,        \* the request it serves
    snap,       \* the row its GetUser read
    out,        \* the secret or the serial it answers with
    known,      \* <<id, secret>> pairs that clients have received
    held,       \* <<serial, id>> certificates that clients have received
    started,    \* number of requests so far
    logins,     \* history: successful logins of each id
    disabled,   \* history: ids that a revoke request has disabled
    prior,      \* history: a revoked id's certificates when the request began
    enrolled    \* history: <<serial, payer>> of the enroll requests' certificates

tables == <<users, certs>>
clients == <<known, held, started>>
history == <<logins, disabled, enrolled>>
vars == <<users, certs, pc, req, snap, out, known, held, started,
          logins, disabled, prior, enrolled>>

-----------------------------------------------------------------------------
(* Requests.  Clients fill the fields as they like, except that they know  *)
(* no secrets and hold no certificates but those they have received.  An   *)
(* enroll request names the user that logs in in its basic header, which   *)
(* is None when it has another header, and the user of the certificate in  *)
(* its CSR; nothing compares the two.  Its secret is None when it is       *)
(* wrong.  The registrar of a register request is the CallerID in its      *)
(* body, None when that is empty.  The caller of a revoke request is the   *)
(* common name of the certificate its token was made with; the other       *)
(* handlers do not look at who made theirs.  The header "token" stands for *)
(* every one that is not of basic authentication.                          *)

EnrollRequest ==
    [op : {"enroll"}, hdr : HeaderKinds, login : AllUsers \cup {None},
     pass : Tokens \cup {None}, name : AllUsers]

ReenrollRequest == [op : {"reenroll"}, hdr : HeaderKinds, name : AllUsers]

RegisterRequest ==
    [op : {"register"}, hdr : HeaderKinds, registrar : AllUsers \cup {None},
     name : Users, type : Types, groupExists : BOOLEAN, attrs : AttrSets]

RevokeNameRequest ==
    [op : {"revokeName"}, hdr : HeaderKinds, caller : AllUsers, name : AllUsers]

RevokeSerialRequest ==
    [op : {"revokeSerial"}, hdr : HeaderKinds, caller : AllUsers,
     serial : Serials]

Request == EnrollRequest \cup ReenrollRequest \cup RegisterRequest
             \cup RevokeNameRequest \cup RevokeSerialRequest

NoRequest == [op |-> "none"]

ClientSends(r) ==
    /\ r.op \in Ops
    /\ r.hdr \in ClientHeaders[r.op]
    /\ r.op = "enroll" =>
          /\ r.hdr = "basic" <=> r.login # None
          /\ r.pass = None \/ <<r.login, r.pass>> \in known
    /\ r.op \in {"revokeName", "revokeSerial"} =>
          \E s \in Serials : <<s, r.caller>> \in held

UserRecord == [pass : Tokens, state : Int, max : Int, attrs : Attrs]

NoUser == [pass |-> None]

CertRecord == [id : AllUsers, status : {"good", "revoked"}] \cup {NoCert}

Statements ==
    {"idle", "getUser", "login", "verifyToken", "sign", "canRegister",
     "checkUser", "insertUser", "setMaxEnrollments", "hasAttribute",
     "revokeSerial", "revokeGetUser", "disable", "revokeCerts", "respond"}

TypeOK ==
    /\ users \in [AllUsers -> SUBSET UserRecord]
    /\ certs \in [Serials -> CertRecord]
    /\ pc \in [Procs -> Statements]
    /\ req \in [Procs -> Request \cup {NoRequest}]
    /\ snap \in [Procs -> UserRecord \cup {NoUser}]
    /\ out \in [Procs -> Tokens \cup Serials \cup {None}]
    /\ known \subseteq AllUsers \X Tokens
    /\ held \subseteq Serials \X AllUsers
    /\ started \in Nat
    /\ logins \in [AllUsers -> Nat]
    /\ disabled \subseteq AllUsers
    /\ prior \in [Procs -> SUBSET Serials]
    /\ enrolled \subseteq Serials \X (AllUsers \cup {None})

(* A server that has bootstrapped its database, and whose bootstrap user   *)
(* has enrolled once.                                                      *)
Init ==
    /\ users = [u \in AllUsers |->
                  IF u = Admin
                  THEN {[pass |-> AdminToken,
                         state |-> IF MaxEnrollments >= 0 THEN 1 ELSE 0,
                         max |-> MaxEnrollments, attrs |-> AdminAttrs]}
                  ELSE {}]
    /\ certs = [s \in Serials |->
                  IF s = AdminSerial THEN NewCertRecord(Admin) ELSE NoCert]
    /\ pc = [p \in Procs |-> "idle"]
    /\ req = [p \in Procs |-> NoRequest]
    /\ snap = [p \in Procs |-> NoUser]
    /\ out = [p \in Procs |-> None]
    /\ known = {<<Admin, AdminToken>>}
    /\ held = {<<AdminSerial, Admin>>}
    /\ started = 0
    /\ logins = [u \in AllUsers |-> IF u = Admin THEN 1 ELSE 0]
    /\ disabled = {}
    /\ prior = [p \in Procs |-> {}]
    /\ enrolled = {<<AdminSerial, Admin>>}

-----------------------------------------------------------------------------
(* Control. *)

(* Go on to another statement, keeping the goroutine's variables.          *)
Goto(p, statement) ==
    /\ pc' = [pc EXCEPT ![p] = statement]
    /\ UNCHANGED <<req, prior>>

(* The request is over: its goroutine's variables are gone.                *)
Finish(p) ==
    /\ pc' = [pc EXCEPT ![p] = "idle"]
    /\ req' = [req EXCEPT ![p] = NoRequest]
    /\ snap' = [snap EXCEPT ![p] = NoUser]
    /\ out' = [out EXCEPT ![p] = None]
    /\ prior' = [prior EXCEPT ![p] = {}]

(* An error answer: nothing is written. *)
Fail(p) == Finish(p) /\ UNCHANGED <<tables, clients, history>>

(* The first statement of a handler, once the request may enter it.  The   *)
(* revoke handler verifies the token itself, whatever auth.go did.         *)
HandlerEntry(r) ==
    IF r.op \in {"enroll", "reenroll"} THEN "sign"
    ELSE IF r.op = "register" THEN "canRegister"
    ELSE IF r.hdr = "token" THEN "hasAttribute"
    ELSE "refused"

(* Mutant: basic authentication is taken on every path. *)
AuthEntryBasicAnywhere(r) ==
    IF ~Authentication THEN HandlerEntry(r)
    ELSE IF r.hdr = "none" THEN "refused"
    ELSE IF r.hdr = "basic" \/ r.op = "enroll" THEN HandlerEntry(r)
    ELSE "verifyToken"

(* serveHTTP of auth.go up to its first use of the database or of the      *)
(* certificate: enroll takes basic authentication, the others a token.  An *)
(* enroll request with any other header is asked for neither.              *)
AuthEntry(r) ==
    IF ~Authentication THEN HandlerEntry(r)
    ELSE IF r.hdr = "none" THEN "refused"
    ELSE IF r.hdr = "basic"
         THEN IF r.op = "enroll" THEN "getUser" ELSE "refused"
         ELSE IF r.op = "enroll" THEN HandlerEntry(r) ELSE "verifyToken"

CertsOf(id) == {s \in Serials : certs[s].status # "none" /\ certs[s].id = id}

(* A client sends a request and the server reads its header.               *)
Receive(p) ==
    /\ pc[p] = "idle"
    /\ started < MaxRequests
    /\ \E r \in Request :
          /\ ClientSends(r)
          /\ IF AuthEntry(r) = "refused"
             THEN UNCHANGED <<pc, req, prior>>
             ELSE /\ pc' = [pc EXCEPT ![p] = AuthEntry(r)]
                  /\ req' = [req EXCEPT ![p] = r]
                  /\ prior' = [prior EXCEPT ![p] =
                        IF r.op = "revokeName" THEN CertsOf(r.name) ELSE {}]
    /\ started' = started + 1
    /\ UNCHANGED <<tables, snap, out, known, held, history>>

-----------------------------------------------------------------------------
(* Authentication (auth.go). *)

(* The SELECT of GetUser; with several rows it returns one of them.        *)
GetUser(p) ==
    /\ pc[p] = "getUser"
    /\ \/ /\ users[req[p].login] = {}
          /\ Fail(p)
       \/ \E u \in users[req[p].login] :
            /\ snap' = [snap EXCEPT ![p] = u]
            /\ Goto(p, "login")
            /\ UNCHANGED <<tables, out, clients, history>>

(* Login checks the password and the limit against the row that GetUser    *)
(* read, then writes that row's count plus one to every row of the id.     *)
(* The write stays when the number of affected rows is then found not to   *)
(* be one.                                                                 *)
Login(p) ==
    LET name == req[p].login
        u    == snap[p]
        pass == u.pass = req[p].pass /\ ~LimitReached(u)
    IN
    /\ pc[p] = "login"
    /\ IF pass /\ LoginCounted(u)
       THEN users' = [users EXCEPT ![name] = UpdateState(@, u.state + 1)]
       ELSE UNCHANGED users
    /\ IF pass /\ (LoginCounted(u) => OneRowAffected(users[name], u.state + 1, MySQL))
       THEN /\ logins' = [logins EXCEPT ![name] = @ + 1]
            /\ Goto(p, HandlerEntry(req[p]))
            /\ UNCHANGED <<snap, out>>
       ELSE /\ Finish(p)
            /\ UNCHANGED logins
    /\ UNCHANGED <<certs, clients, disabled, enrolled>>

(* VerifyToken and cfssl's VerifyCertificate, which looks at the clock and *)
(* at the CRL and OCSP servers the certificate names: their answer is      *)
(* outside the system, and the table of certificates has no part in it.    *)
VerifyToken(p) ==
    /\ pc[p] = "verifyToken"
    /\ \/ /\ Goto(p, HandlerEntry(req[p]))
          /\ UNCHANGED <<tables, snap, out, clients, history>>
       \/ Fail(p)

-----------------------------------------------------------------------------
(* Enroll and reenroll (enroll.go, and cfssl's signer). *)

(* Mutant: a serial is used whether it is new or not. *)
FreshSerialIgnored(s) == TRUE

(* The certificates table has the primary key (serial, AKI).               *)
FreshSerial(s) == certs[s].status = "none"

(* The id that a request logs in as before it is signed, or None. *)
Payer(r) == IF Authentication /\ r.op = "enroll" THEN r.login ELSE None

(* Sign draws a serial and inserts the certificate before it returns it.   *)
(* The id of the row is the common name in the CSR.                        *)
Sign(p) ==
    /\ pc[p] = "sign"
    /\ \E s \in Serials :
          /\ FreshSerial(s)
          /\ certs' = [certs EXCEPT ![s] = NewCertRecord(req[p].name)]
          /\ out' = [out EXCEPT ![p] = s]
          /\ enrolled' = IF req[p].op = "enroll"
                         THEN enrolled \cup {<<s, Payer(req[p])>>}
                         ELSE enrolled
    /\ Goto(p, "respond")
    /\ UNCHANGED <<users, snap, clients, logins, disabled>>

-----------------------------------------------------------------------------
(* Register (register.go). *)

(* validateID.  The groups do not change while the server runs, so whether *)
(* the group exists is part of the request.                                *)
ValidID(r) == r.type \in GroupTypes => r.groupExists

(* RegisterUser up to registerUserID: canRegister reads the row of the     *)
(* registrar, unless none is named, and then validateID decides.           *)
CanRegister(p) ==
    LET r == req[p]
        registrars == IF r.registrar = None THEN {} ELSE users[r.registrar] IN
    /\ pc[p] = "canRegister"
    /\ \/ /\ r.registrar = None \/ \E u \in registrars : r.type \in u.attrs.roles
          /\ ValidID(r)
          /\ Goto(p, "checkUser")
          /\ UNCHANGED <<tables, snap, out, clients, history>>
       \/ /\ \/ r.registrar # None /\ registrars = {}
             \/ \E u \in registrars : r.type \notin u.attrs.roles
             \/ ~ValidID(r)
          /\ Fail(p)

(* registerUserID goes on when GetUser returns an error: when there is no  *)
(* such user, and also when the statement itself failed.                   *)
CheckUser(p) ==
    /\ pc[p] = "checkUser"
    /\ \/ /\ users[req[p].name] = {} \/ Faults
          /\ Goto(p, "insertUser")
          /\ UNCHANGED <<tables, snap, out, clients, history>>
       \/ /\ users[req[p].name] # {}
          /\ Fail(p)

InUse(t) == \E u \in AllUsers : \E row \in users[u] : row.pass = t

(* Mutant: the INSERT replaces nothing and refuses nothing. *)
InsertRefusedNever(name) == FALSE

(* In MySQL users.id is a primary key: a second INSERT is an error.        *)
InsertRefused(name) == MySQL /\ users[name] # {}

InsertUser(p) ==
    LET r == req[p] IN
    /\ pc[p] = "insertUser"
    /\ \/ /\ InsertRefused(r.name)
          /\ Fail(p)
       \/ /\ ~InsertRefused(r.name)
          /\ \E t \in Tokens :
                /\ ~InUse(t)
                /\ users' = [users EXCEPT
                      ![r.name] = @ \cup {NewUserRecord(t, r.attrs)}]
                /\ out' = [out EXCEPT ![p] = t]
          /\ Goto(p, "setMaxEnrollments")
          /\ UNCHANGED <<certs, snap, clients, history>>

SetMaxEnrollments(p) ==
    /\ pc[p] = "setMaxEnrollments"
    /\ users' = [users EXCEPT
          ![req[p].name] = UpdateMaxEnrollments(@, MaxEnrollments)]
    /\ Goto(p, "respond")
    /\ UNCHANGED <<certs, snap, out, clients, history>>

-----------------------------------------------------------------------------
(* Revoke (revoke.go). *)

(* userHasAttribute(caller, "hf.Revoker"), then the request decides which  *)
(* branch is taken.                                                        *)
HasAttribute(p) ==
    /\ pc[p] = "hasAttribute"
    /\ \/ /\ users[req[p].caller] = {}
          /\ Fail(p)
       \/ \E u \in users[req[p].caller] :
            IF u.attrs.revoker
            THEN /\ Goto(p, IF req[p].op = "revokeSerial" THEN "revokeSerial"
                            ELSE "revokeGetUser")
                 /\ UNCHANGED <<tables, snap, out, clients, history>>
            ELSE Fail(p)

(* The UPDATE must affect a row: MySQL finds none when the certificate was *)
(* revoked with the same reason in the same second.                        *)
RevokeSerial(p) ==
    /\ pc[p] = "revokeSerial"
    /\ \/ /\ \/ certs[req[p].serial].status = "none"
             \/ certs[req[p].serial].status = "revoked" /\ MySQL
          /\ Fail(p)
       \/ /\ certs[req[p].serial].status # "none"
          /\ certs' = RevokeCertificate(certs, req[p].serial)
          /\ Goto(p, "respond")
          /\ UNCHANGED <<users, snap, out, clients, history>>

RevokeGetUser(p) ==
    /\ pc[p] = "revokeGetUser"
    /\ IF users[req[p].name] = {}
       THEN Fail(p)
       ELSE /\ Goto(p, "disable")
            /\ UNCHANGED <<tables, snap, out, clients, history>>

Disable(p) ==
    /\ pc[p] = "disable"
    /\ users' = [users EXCEPT ![req[p].name] = UpdateState(@, -1)]
    /\ disabled' = disabled \cup {req[p].name}
    /\ Goto(p, "revokeCerts")
    /\ UNCHANGED <<certs, snap, out, clients, logins, enrolled>>

(* RevokeCertificatesByID.  The rows its SELECT returns are not used by    *)
(* the handler; its UPDATE decides on its own which rows to write.         *)
RevokeCerts(p) ==
    /\ pc[p] = "revokeCerts"
    /\ certs' = RevokeCertificatesByID(certs, req[p].name)
    /\ Goto(p, "respond")
    /\ UNCHANGED <<users, snap, out, clients, history>>

-----------------------------------------------------------------------------
(* The answer reaches the client. *)
Respond(p) ==
    LET r == req[p] IN
    /\ pc[p] = "respond"
    /\ known' = IF r.op = "register" THEN known \cup {<<r.name, out[p]>>}
                ELSE known
    /\ held' = IF r.op \in {"enroll", "reenroll"}
               THEN held \cup {<<out[p], r.name>>}
               ELSE held
    /\ Finish(p)
    /\ UNCHANGED <<tables, started, history>>

(* A statement returns an error and has no effect, the signer fails, the   *)
(* server stops, or the answer is lost: the request ends where it is, and  *)
(* what it wrote stays.                                                    *)
Abort(p) ==
    /\ Faults
    /\ pc[p] # "idle"
    /\ Fail(p)

Step(p) ==
    \/ GetUser(p) \/ Login(p) \/ VerifyToken(p) \/ Sign(p)
    \/ CanRegister(p) \/ CheckUser(p) \/ InsertUser(p) \/ SetMaxEnrollments(p)
    \/ HasAttribute(p) \/ RevokeSerial(p)
    \/ RevokeGetUser(p) \/ Disable(p) \/ RevokeCerts(p)
    \/ Respond(p)

(* The bound on requests is reached and all of them are answered.          *)
Quiescent ==
    /\ started = MaxRequests
    /\ \A p \in Procs : pc[p] = "idle"
    /\ UNCHANGED vars

Next ==
    \/ \E p \in Procs : Receive(p) \/ Step(p) \/ Abort(p)
    \/ Quiescent

Spec == Init /\ [][Next]_vars

(* The runtime schedules every goroutine: a request that can take a step   *)
(* takes one in the end.  Clients need not send anything.                  *)
FairSpec == Spec /\ \A p \in Procs : WF_vars(Step(p))

-----------------------------------------------------------------------------
(* Properties. *)

(* registerUserID inserts a row without a limit and sets the limit in a    *)
(* second statement.  A secret that a client has received always belongs   *)
(* to a row that has the configured limit, whatever other registrations of *)
(* the same id, failures and logins happen between the two statements.     *)
LimitSetBeforeUse ==
    \A u \in AllUsers : \A row \in users[u] :
        <<u, row.pass>> \in known => row.max = MaxEnrollments

(* The count in the database never passes the configured limit, although   *)
(* Login tests and increments it from a row read earlier, and although     *)
(* rows without a limit exist while registrations are in progress.         *)
CounterWithinLimit ==
    MaxEnrollments > 0 =>
        \A u \in AllUsers : \A row \in users[u] : row.state <= MaxEnrollments

(* Every certificate a client has received is in the certificates table    *)
(* under the id it was requested for, so that a revoke request finds it.   *)
DeliveredRecorded ==
    \A c \in held : certs[c[1]].status # "none" /\ certs[c[1]].id = c[2]

(* When the revocation of a name is about to be answered, every            *)
(* certificate the name had when the request arrived is revoked, whatever  *)
(* enrollments and other revocations ran meanwhile.                        *)
EarlierCertsRevoked ==
    \A p \in Procs :
        pc[p] = "respond" /\ req[p].op = "revokeName" =>
            \A s \in prior[p] : certs[s].status = "revoked"

(* Every certificate issued for an enroll request that names a user and a  *)
(* secret, and every such request about to be signed, stands for a         *)
(* successful login of that user that no other certificate stands for.     *)
EnrollmentsCounted ==
    \A u \in AllUsers :
        Cardinality({s \in Serials : <<s, u>> \in enrolled})
        + Cardinality({p \in Procs : pc[p] = "sign" /\ Payer(req[p]) = u})
            <= logins[u]

(* "Authentication has already occurred for both enroll and reenroll prior *)
(* to calling this function": when authentication is on, an enroll request *)
(* that is about to be signed has come with the secret of a user.          *)
SignAuthenticated ==
    \A p \in Procs :
        Authentication /\ pc[p] = "sign" /\ req[p].op = "enroll" =>
            snap[p] # NoUser /\ snap[p].pass = req[p].pass

(* A certificate never loses its row, its id or its revocation.            *)
RevocationIsFinal ==
    [][\A s \in Serials : certs[s].status # "none" =>
          /\ certs'[s].id = certs[s].id
          /\ certs'[s].status \in {certs[s].status, "revoked"}]_vars

(* A registration is answered with a secret at most once per id.           *)
RegisteredOnce ==
    \A x, y \in known : x[1] = y[1] => x = y

(* The state column is the number of successful logins, as the comment in  *)
(* Login has it, of every user that no revoke request has disabled.  A     *)
(* statement that fails has written nothing here: an UPDATE that commits   *)
(* and whose acknowledgement is lost would count a login that failed.      *)
StateCountsLogins ==
    \A u \in AllUsers \ disabled : \A row \in users[u] :
        row.max >= 0 => row.state = logins[u]

(* A secret is good for max_enrollments enrollments: no user that has not  *)
(* been disabled logs in more often, however its logins overlap.           *)
EnrollLimit ==
    MaxEnrollments > 0 =>
        \A u \in AllUsers \ disabled : logins[u] <= MaxEnrollments

Serialized == \E p \in Procs : Procs = {p}

(* The configurations in which an id cannot get a second row: users.id is  *)
(* a primary key, or nothing comes between the look-up and the INSERT.     *)
OneRowPerId == MySQL \/ (Serialized /\ ~Faults)

(* The configurations in which logins cannot pass the limit: they do not   *)
(* overlap, or the database reports that a late one has changed nothing.   *)
LimitReliable == Serialized \/ (MySQL /\ MaxEnrollments = 1)

(* The configurations in which no certificate is issued for an enroll      *)
(* request without a login: all such requests have a basic header or none. *)
LoginRequired ==
    Authentication /\ ClientHeaders["enroll"] \subseteq {"none", "basic"}

(* The abstract service: an enrollment that has logged in is one that is   *)
(* about to be signed, and what clients have received is what they have    *)
(* been told.  The limit, that there is one secret per id and that every   *)
(* enrollment logs in are part of the service in the configurations in     *)
(* which they can be relied on.                                            *)
LoggedIn ==
    [p \in Procs |-> IF pc[p] = "sign" THEN Payer(req[p]) ELSE None]

Enrollment ==
    INSTANCE CopEnrollment
        WITH Ids <- AllUsers, Secrets <- Tokens, Sessions <- Procs,
             Limit <- IF LimitReliable THEN MaxEnrollments ELSE 0,
             OneSecret <- OneRowPerId, FirstId <- Admin,
             FirstSecret <- AdminToken, FirstSerial <- AdminSerial,
             Nobody <- None, told <- known, record <- certs,
             session <- LoggedIn, paid <- enrolled

(* The handlers, with their statements interleaved and failing, do nothing *)
(* that the service of CopEnrollment does not allow: each id is told a     *)
(* secret of its own, logins are with such a secret and within the limit,  *)
(* each login is spent on one certificate at most, an enroll request that  *)
(* logs in gets no certificate otherwise, a serial is issued once and to   *)
(* one id, and revocation is final.                                        *)
ImplementsEnrollment == Enrollment!Spec

(* A revocation that has disabled its user ends with the certificates the  *)
(* user had at the start revoked, when nothing fails.                      *)
RevocationCompletes ==
    \A s \in Serials :
        (\E p \in Procs : pc[p] = "disable" /\ s \in prior[p])
            ~> certs[s].status = "revoked"
=============================================================================

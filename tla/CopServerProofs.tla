--------------------------- MODULE CopServerProofs ---------------------------
(***************************************************************************)
(* Theorems about CopServer, for every number of processes, users, secrets *)
(* and certificates, every limit and every choice of the other constants.  *)
(***************************************************************************)
EXTENDS CopServer, TLAPS

(* Zenon is tried first: most leaves are first-order, and to encode one    *)
(* for SMT takes long when its context is.                                 *)
USE ZenonT(3), SMTT(20), SMTT(30), ZenonT(20)

(* The statement a process is at determines the request it serves: the     *)
(* control flow from serveHTTP into each handler.                          *)
ControlOK ==
    \A p \in Procs :
        /\ pc[p] \in {"getUser", "login"} =>
              /\ req[p] \in EnrollRequest /\ req[p].login \in AllUsers
              /\ Authentication
        /\ pc[p] = "login" => snap[p] \in UserRecord
        /\ pc[p] = "verifyToken" =>
              /\ req[p] \in Request \ EnrollRequest
              /\ req[p].hdr = "token"
        /\ pc[p] = "sign" => req[p] \in EnrollRequest \cup ReenrollRequest
        /\ pc[p] \in {"canRegister", "checkUser", "insertUser",
                      "setMaxEnrollments"} => req[p] \in RegisterRequest
        /\ pc[p] = "setMaxEnrollments" => out[p] \in Tokens
        /\ pc[p] = "hasAttribute" =>
              req[p] \in RevokeNameRequest \cup RevokeSerialRequest
        /\ pc[p] = "revokeSerial" => req[p] \in RevokeSerialRequest
        /\ pc[p] \in {"revokeGetUser", "disable", "revokeCerts"} =>
              req[p] \in RevokeNameRequest
        /\ pc[p] = "respond" =>
              /\ req[p] \in Request
              /\ req[p] \in RegisterRequest => out[p] \in Tokens
              /\ req[p] \in EnrollRequest \cup ReenrollRequest =>
                    out[p] \in Serials

TypeInv == TypeOK /\ ControlOK

-----------------------------------------------------------------------------
(* A request's operation names its kind, and the fields that kind has.     *)
LEMMA RequestKinds ==
    ASSUME NEW r \in Request
    PROVE  /\ r.op = "enroll" <=> r \in EnrollRequest
           /\ r.op = "reenroll" <=> r \in ReenrollRequest
           /\ r.op = "register" <=> r \in RegisterRequest
           /\ r.op = "revokeName" <=> r \in RevokeNameRequest
           /\ r.op = "revokeSerial" <=> r \in RevokeSerialRequest
           /\ r.op \in AllOps
           /\ r.hdr \in HeaderKinds
  BY DEF Request, EnrollRequest, ReenrollRequest, RegisterRequest,
         RevokeNameRequest, RevokeSerialRequest, AllOps

(* Where a request that is let into its handler begins.                    *)
LEMMA HandlerEntryCases ==
    ASSUME NEW r \in Request
    PROVE  /\ r \in EnrollRequest \cup ReenrollRequest =>
                 HandlerEntry(r) = "sign"
           /\ r \in RegisterRequest => HandlerEntry(r) = "canRegister"
           /\ r \in RevokeNameRequest \cup RevokeSerialRequest =>
                 HandlerEntry(r) = IF r.hdr = "token" THEN "hasAttribute"
                                   ELSE "refused"
  BY RequestKinds DEF HandlerEntry

(* Where serveHTTP sends a request.                                        *)
LEMMA AuthEntryCases ==
    ASSUME NEW r \in Request, AuthEntry(r) # "refused"
    PROVE  \/ /\ AuthEntry(r) = "getUser"
              /\ r \in EnrollRequest
              /\ Authentication /\ r.hdr = "basic"
           \/ /\ AuthEntry(r) = "verifyToken"
              /\ r \notin EnrollRequest
              /\ r.hdr = "token"
           \/ AuthEntry(r) = HandlerEntry(r)
  BY RequestKinds, ConstantsAssumption DEF AuthEntry, HeaderKinds

(* The server starts with an administrator who is enrolled. *)
LEMMA TypeInvInit == Init => TypeInv
  <1> SUFFICES ASSUME Init PROVE TypeInv
    OBVIOUS
  <1> USE ConstantsAssumption DEF Init
  <1>1. TypeOK
    <2>1. users \in [AllUsers -> SUBSET UserRecord]
      BY DEF AllUsers, UserRecord
    <2>2. certs \in [Serials -> CertRecord]
      BY DEF CertRecord, NewCertRecord, AllUsers
    <2>3. QED
      BY <2>1, <2>2 DEF TypeOK, Statements, AllUsers
  <1>2. ControlOK
    BY DEF ControlOK
  <1>3. QED
    BY <1>1, <1>2 DEF TypeInv

-----------------------------------------------------------------------------
(* The rows of a table keep their type under every statement.              *)
LEMMA UpdatedRowsTyped ==
    ASSUME NEW rows \in SUBSET UserRecord, NEW val \in Int
    PROVE  /\ UpdateState(rows, val) \in SUBSET UserRecord
           /\ UpdateMaxEnrollments(rows, val) \in SUBSET UserRecord
  BY DEF UpdateState, UpdateMaxEnrollments, WithState, WithMax, UserRecord

(* The two revocations keep the table of certificates typed. *)
LEMMA RevokedCertsTyped ==
    ASSUME NEW c \in [Serials -> CertRecord], NEW id
    PROVE  /\ RevokeCertificatesByID(c, id) \in [Serials -> CertRecord]
           /\ \A s \in Serials : c[s].status # "none" =>
                 RevokeCertificate(c, s) \in [Serials -> CertRecord]
  BY DEF RevokeCertificatesByID, RevokeCertificate, CertRecord, NoCert

(* The rows that registration and signing insert are typed. *)
LEMMA NewRecordsTyped ==
    /\ \A t \in Tokens, a \in Attrs : NewUserRecord(t, a) \in UserRecord
    /\ \A u \in AllUsers : NewCertRecord(u) \in CertRecord
  BY DEF NewUserRecord, UserRecord, NewCertRecord, CertRecord

(* The end of a request, with an answer or without.                        *)
LEMMA FinishTyped ==
    ASSUME TypeInv, NEW p \in Procs, Finish(p)
    PROVE  /\ pc' \in [Procs -> Statements]
           /\ req' \in [Procs -> Request \cup {NoRequest}]
           /\ snap' \in [Procs -> UserRecord \cup {NoUser}]
           /\ out' \in [Procs -> Tokens \cup Serials \cup {None}]
           /\ prior' \in [Procs -> SUBSET Serials]
           /\ ControlOK'
  <1>1. /\ pc' \in [Procs -> Statements]
        /\ req' \in [Procs -> Request \cup {NoRequest}]
        /\ snap' \in [Procs -> UserRecord \cup {NoUser}]
        /\ out' \in [Procs -> Tokens \cup Serials \cup {None}]
        /\ prior' \in [Procs -> SUBSET Serials]
    BY DEF Finish, TypeInv, TypeOK, Statements
  <1>2. ControlOK'
    BY DEF Finish, TypeInv, TypeOK, ControlOK
  <1>3. QED
    BY <1>1, <1>2

(* An error answer of any handler. *)
LEMMA FailTyped ==
    ASSUME TypeInv, NEW p \in Procs, Fail(p)
    PROVE  TypeInv'
  BY FinishTyped DEF Fail, TypeInv, TypeOK, tables, clients, history

-----------------------------------------------------------------------------
(* Every action preserves the types and the control flow.                  *)
LEMMA ReceiveTyped ==
    ASSUME TypeInv, NEW p \in Procs, Receive(p)
    PROVE  TypeInv'
  <1>1. PICK r \in Request :
          /\ ClientSends(r)
          /\ IF AuthEntry(r) = "refused"
             THEN UNCHANGED <<pc, req, prior>>
             ELSE /\ pc' = [pc EXCEPT ![p] = AuthEntry(r)]
                  /\ req' = [req EXCEPT ![p] = r]
                  /\ prior' = [prior EXCEPT ![p] =
                        IF r.op = "revokeName" THEN CertsOf(r.name) ELSE {}]
    BY DEF Receive
  <1>2. CASE AuthEntry(r) = "refused"
    BY <1>1, <1>2 DEF Receive, TypeInv, TypeOK, ControlOK, tables, history
  <1>3. CASE AuthEntry(r) # "refused"
    <2>1. \/ /\ AuthEntry(r) = "getUser"
             /\ r \in EnrollRequest
             /\ Authentication /\ r.login \in AllUsers
          \/ /\ AuthEntry(r) = "verifyToken"
             /\ r \notin EnrollRequest
             /\ r.hdr = "token"
          \/ AuthEntry(r) = "sign" /\ r \in EnrollRequest \cup ReenrollRequest
          \/ AuthEntry(r) = "canRegister" /\ r \in RegisterRequest
          \/ /\ AuthEntry(r) = "hasAttribute"
             /\ r \in RevokeNameRequest \cup RevokeSerialRequest
      <3>1. r \in EnrollRequest /\ r.hdr = "basic" => r.login \in AllUsers
        BY <1>1 DEF ClientSends, EnrollRequest
      <3>2. QED
        BY <1>3, <3>1, AuthEntryCases, HandlerEntryCases DEF Request
    <2>2. TypeOK'
      BY <1>1, <1>3, <2>1
      DEF Receive, TypeInv, TypeOK, Statements, CertsOf, tables, history
    <2>3. ControlOK'
      BY <1>1, <1>3, <2>1
      DEF Receive, TypeInv, TypeOK, ControlOK
    <2>4. QED
      BY <2>2, <2>3 DEF TypeInv
  <1>4. QED
    BY <1>2, <1>3

(* BasicAuth's read of the row. *)
LEMMA GetUserTyped ==
    ASSUME TypeInv, NEW p \in Procs, GetUser(p)
    PROVE  TypeInv'
  <1>1. CASE Fail(p)
    BY <1>1, FailTyped
  <1>2. CASE ~Fail(p)
    <2>1. PICK u \in users[req[p].login] :
            /\ snap' = [snap EXCEPT ![p] = u]
            /\ Goto(p, "login")
            /\ UNCHANGED <<tables, out, clients, history>>
      BY <1>2 DEF GetUser
    <2>2. /\ pc[p] = "getUser"
          /\ req[p] \in EnrollRequest /\ req[p].login \in AllUsers
          /\ Authentication /\ u \in UserRecord
      BY DEF GetUser, TypeInv, TypeOK, ControlOK, EnrollRequest
    <2>3. QED
      BY <2>1, <2>2
      DEF Goto, TypeInv, TypeOK, ControlOK, Statements, tables, clients, history
  <1>3. QED
    BY <1>1, <1>2

(* Login, with the update of its count. *)
LEMMA LoginTyped ==
    ASSUME TypeInv, NEW p \in Procs, Login(p)
    PROVE  TypeInv'
  <1>1. /\ pc[p] = "login"
        /\ req[p] \in EnrollRequest
        /\ req[p].login \in AllUsers
        /\ snap[p] \in UserRecord
        /\ HandlerEntry(req[p]) = "sign"
    BY HandlerEntryCases DEF Login, TypeInv, ControlOK, EnrollRequest, Request
  <1>2. users' \in [AllUsers -> SUBSET UserRecord]
    <2>1. UpdateState(users[req[p].login], snap[p].state + 1)
             \in SUBSET UserRecord
      <3>1. snap[p].state + 1 \in Int
        BY <1>1 DEF UserRecord
      <3>2. users[req[p].login] \in SUBSET UserRecord
        BY <1>1 DEF TypeInv, TypeOK
      <3>3. QED
        BY <3>1, <3>2, UpdatedRowsTyped
    <2>2. QED
      BY <1>1, <2>1 DEF Login, TypeInv, TypeOK
  <1>3. /\ logins' \in [AllUsers -> Nat]
        /\ UNCHANGED <<certs, known, held, started, disabled, enrolled>>
    BY <1>1 DEF Login, TypeInv, TypeOK, clients
  <1>4. CASE Finish(p)
    <2>1. /\ pc' \in [Procs -> Statements]
          /\ req' \in [Procs -> Request \cup {NoRequest}]
          /\ snap' \in [Procs -> UserRecord \cup {NoUser}]
          /\ out' \in [Procs -> Tokens \cup Serials \cup {None}]
          /\ prior' \in [Procs -> SUBSET Serials]
          /\ ControlOK'
      BY <1>4, FinishTyped
    <2>2. QED
      BY <1>2, <1>3, <2>1 DEF TypeInv, TypeOK
  <1>5. CASE ~Finish(p)
    <2>1. /\ pc' = [pc EXCEPT ![p] = "sign"]
          /\ UNCHANGED <<req, prior, snap, out>>
      BY <1>1, <1>5 DEF Login, Goto
    <2>2. TypeOK'
      BY <1>2, <1>3, <2>1 DEF TypeInv, TypeOK, Statements
    <2>3. ControlOK'
      BY <1>1, <2>1 DEF TypeInv, TypeOK, ControlOK
    <2>4. QED
      BY <2>2, <2>3 DEF TypeInv
  <1>6. QED
    BY <1>4, <1>5

(* The verification of a token and its certificate. *)
LEMMA VerifyTokenTyped ==
    ASSUME TypeInv, NEW p \in Procs, VerifyToken(p)
    PROVE  TypeInv'
  <1>1. CASE Fail(p)
    BY <1>1, FailTyped
  <1>2. CASE ~Fail(p)
    <2>1. /\ pc[p] = "verifyToken"
          /\ Goto(p, HandlerEntry(req[p]))
          /\ UNCHANGED <<tables, snap, out, clients, history>>
          /\ req[p] \in Request \ EnrollRequest
          /\ req[p].hdr = "token"
      BY <1>2 DEF VerifyToken, TypeInv, ControlOK
    <2>2. \/ HandlerEntry(req[p]) = "sign" /\ req[p] \in ReenrollRequest
          \/ HandlerEntry(req[p]) = "canRegister" /\ req[p] \in RegisterRequest
          \/ /\ HandlerEntry(req[p]) = "hasAttribute"
             /\ req[p] \in RevokeNameRequest \cup RevokeSerialRequest
      BY <2>1, HandlerEntryCases DEF Request
    <2>3. QED
      BY <2>1, <2>2
      DEF Goto, TypeInv, TypeOK, ControlOK, Statements, tables, clients, history
  <1>3. QED
    BY <1>1, <1>2

(* The signer's certificate and its row. *)
LEMMA SignTyped ==
    ASSUME TypeInv, NEW p \in Procs, Sign(p)
    PROVE  TypeInv'
  <1>1. PICK s \in Serials :
          /\ certs' = [certs EXCEPT ![s] = NewCertRecord(req[p].name)]
          /\ out' = [out EXCEPT ![p] = s]
          /\ \/ enrolled' = enrolled \cup {<<s, Payer(req[p])>>}
             \/ enrolled' = enrolled
    BY DEF Sign
  <1>2. /\ pc[p] = "sign"
        /\ req[p] \in EnrollRequest \cup ReenrollRequest
        /\ req[p] \in Request
        /\ req[p] \notin RegisterRequest
        /\ req[p].name \in AllUsers
    BY DEF Sign, TypeInv, ControlOK, EnrollRequest, ReenrollRequest,
           RegisterRequest, Request
  <1>3. NewCertRecord(req[p].name) \in CertRecord
    BY <1>2, NewRecordsTyped
  <1>4. TypeOK'
    <2>1. /\ pc' = [pc EXCEPT ![p] = "respond"]
          /\ UNCHANGED <<req, prior, users, snap, known, held, started, logins,
                         disabled>>
      BY DEF Sign, Goto, clients
    <2>2. certs' \in [Serials -> CertRecord]
      BY <1>1, <1>3 DEF TypeInv, TypeOK
    <2>3. /\ out' \in [Procs -> Tokens \cup Serials \cup {None}]
          /\ enrolled' \subseteq Serials \X (AllUsers \cup {None})
      <3>1. Payer(req[p]) \in AllUsers \cup {None}
        BY <1>2, RequestKinds DEF Payer, EnrollRequest
      <3>2. QED
        BY <1>1, <3>1 DEF TypeInv, TypeOK
    <2>4. pc' \in [Procs -> Statements]
      BY <2>1 DEF TypeInv, TypeOK, Statements
    <2>5. QED
      BY <2>1, <2>2, <2>3, <2>4 DEF TypeInv, TypeOK
  <1>5. ControlOK'
    BY <1>1, <1>2 DEF Sign, Goto, TypeInv, TypeOK, ControlOK
  <1>6. QED
    BY <1>4, <1>5 DEF TypeInv

(* The steps that only read the database and go on.                        *)
LEMMA ReadStepTyped ==
    ASSUME TypeInv, NEW p \in Procs,
           NEW l \in {"checkUser", "insertUser", "revokeSerial",
                      "revokeGetUser", "disable"},
           l \in {"checkUser", "insertUser"} => req[p] \in RegisterRequest,
           l = "revokeSerial" => req[p] \in RevokeSerialRequest,
           l \in {"revokeGetUser", "disable"} => req[p] \in RevokeNameRequest,
           Goto(p, l),
           UNCHANGED <<tables, snap, out, clients, history>>
    PROVE  TypeInv'
  BY DEF Goto, TypeInv, TypeOK, ControlOK, Statements, tables, clients, history

(* The check of the registrar's attribute. *)
LEMMA CanRegisterTyped ==
    ASSUME TypeInv, NEW p \in Procs, CanRegister(p)
    PROVE  TypeInv'
  <1>1. CASE Fail(p)
    BY <1>1, FailTyped
  <1>2. CASE ~Fail(p)
    BY <1>2, ReadStepTyped DEF CanRegister, TypeInv, ControlOK
  <1>3. QED
    BY <1>1, <1>2

(* The check that the id is new. *)
LEMMA CheckUserTyped ==
    ASSUME TypeInv, NEW p \in Procs, CheckUser(p)
    PROVE  TypeInv'
  <1>1. CASE Fail(p)
    BY <1>1, FailTyped
  <1>2. CASE ~Fail(p)
    BY <1>2, ReadStepTyped DEF CheckUser, TypeInv, ControlOK
  <1>3. QED
    BY <1>1, <1>2

(* The INSERT of a registration. *)
LEMMA InsertUserTyped ==
    ASSUME TypeInv, NEW p \in Procs, InsertUser(p)
    PROVE  TypeInv'
  <1>1. CASE Fail(p)
    BY <1>1, FailTyped
  <1>2. CASE ~Fail(p)
    <2>1. PICK t \in Tokens :
            /\ users' = [users EXCEPT ![req[p].name] =
                            @ \cup {NewUserRecord(t, req[p].attrs)}]
            /\ out' = [out EXCEPT ![p] = t]
            /\ Goto(p, "setMaxEnrollments")
            /\ UNCHANGED <<certs, snap, clients, history>>
      BY <1>2 DEF InsertUser
    <2>2. /\ pc[p] = "insertUser"
          /\ req[p] \in RegisterRequest
          /\ req[p].name \in AllUsers
          /\ req[p].attrs \in Attrs
      BY ConstantsAssumption
      DEF InsertUser, TypeInv, ControlOK, RegisterRequest, AllUsers
    <2>3. NewUserRecord(t, req[p].attrs) \in UserRecord
      BY <2>2, NewRecordsTyped
    <2>4. TypeOK'
      BY <2>1, <2>2, <2>3
      DEF Goto, TypeInv, TypeOK, Statements, clients, history
    <2>5. ControlOK'
      BY <2>1, <2>2 DEF Goto, TypeInv, TypeOK, ControlOK
    <2>6. QED
      BY <2>4, <2>5 DEF TypeInv
  <1>3. QED
    BY <1>1, <1>2

(* The UPDATE of a registration that sets the limit. *)
LEMMA SetMaxEnrollmentsTyped ==
    ASSUME TypeInv, NEW p \in Procs, SetMaxEnrollments(p)
    PROVE  TypeInv'
  <1>1. /\ pc[p] = "setMaxEnrollments"
        /\ req[p] \in RegisterRequest
        /\ req[p] \in Request
        /\ req[p] \notin EnrollRequest \cup ReenrollRequest
        /\ req[p].name \in AllUsers
        /\ out[p] \in Tokens
    BY DEF SetMaxEnrollments, TypeInv, ControlOK, Request, RegisterRequest,
           EnrollRequest, ReenrollRequest, AllUsers
  <1>2. UpdateMaxEnrollments(users[req[p].name], MaxEnrollments)
           \in SUBSET UserRecord
    BY <1>1, UpdatedRowsTyped, ConstantsAssumption DEF TypeInv, TypeOK
  <1>3. TypeOK'
    BY <1>1, <1>2
    DEF SetMaxEnrollments, Goto, TypeInv, TypeOK, Statements, clients, history
  <1>4. ControlOK'
    BY <1>1 DEF SetMaxEnrollments, Goto, TypeInv, TypeOK, ControlOK
  <1>5. QED
    BY <1>3, <1>4 DEF TypeInv

(* The check of the revoker's attribute. *)
LEMMA HasAttributeTyped ==
    ASSUME TypeInv, NEW p \in Procs, HasAttribute(p)
    PROVE  TypeInv'
  <1>1. CASE Fail(p)
    BY <1>1, FailTyped
  <1>2. CASE ~Fail(p)
    <2>1. /\ Goto(p, IF req[p].op = "revokeSerial" THEN "revokeSerial"
                     ELSE "revokeGetUser")
          /\ UNCHANGED <<tables, snap, out, clients, history>>
          /\ req[p] \in RevokeNameRequest \cup RevokeSerialRequest
      BY <1>2 DEF HasAttribute, TypeInv, ControlOK
    <2>2. \/ req[p].op = "revokeSerial" /\ req[p] \in RevokeSerialRequest
          \/ req[p].op # "revokeSerial" /\ req[p] \in RevokeNameRequest
      BY <2>1 DEF RevokeNameRequest, RevokeSerialRequest
    <2>3. QED
      BY <2>1, <2>2, ReadStepTyped
  <1>3. QED
    BY <1>1, <1>2

(* The revocation of one certificate. *)
LEMMA RevokeSerialTyped ==
    ASSUME TypeInv, NEW p \in Procs, RevokeSerial(p)
    PROVE  TypeInv'
  <1>1. CASE Fail(p)
    BY <1>1, FailTyped
  <1>2. CASE ~Fail(p)
    <2>1. /\ req[p] \in RevokeSerialRequest
          /\ req[p] \in Request
          /\ req[p].serial \in Serials
          /\ req[p] \notin RegisterRequest \cup EnrollRequest \cup ReenrollRequest
          /\ certs[req[p].serial].status # "none"
          /\ certs' = RevokeCertificate(certs, req[p].serial)
          /\ Goto(p, "respond")
          /\ UNCHANGED <<users, snap, out, clients, history>>
      BY <1>2 DEF RevokeSerial, TypeInv, ControlOK, RevokeSerialRequest, Request,
                  RegisterRequest, EnrollRequest, ReenrollRequest
    <2>2. certs' \in [Serials -> CertRecord]
      BY <2>1, RevokedCertsTyped DEF TypeInv, TypeOK
    <2>3. QED
      BY <2>1, <2>2
      DEF Goto, TypeInv, TypeOK, ControlOK, Statements, clients, history
  <1>3. QED
    BY <1>1, <1>2

(* The read of the user to revoke. *)
LEMMA RevokeGetUserTyped ==
    ASSUME TypeInv, NEW p \in Procs, RevokeGetUser(p)
    PROVE  TypeInv'
  <1>1. CASE Fail(p)
    BY <1>1, FailTyped
  <1>2. CASE ~Fail(p)
    BY <1>2, ReadStepTyped DEF RevokeGetUser, TypeInv, ControlOK
  <1>3. QED
    BY <1>1, <1>2

(* The UPDATE that disables a user. *)
LEMMA DisableTyped ==
    ASSUME TypeInv, NEW p \in Procs, Disable(p)
    PROVE  TypeInv'
  <1>1. /\ pc[p] = "disable"
        /\ req[p] \in RevokeNameRequest
        /\ req[p].name \in AllUsers
    BY DEF Disable, TypeInv, ControlOK, RevokeNameRequest
  <1>2. UpdateState(users[req[p].name], -1) \in SUBSET UserRecord
    <2>1. users[req[p].name] \in SUBSET UserRecord
      BY <1>1 DEF TypeInv, TypeOK
    <2>2. -1 \in Int
      OBVIOUS
    <2>3. QED
      BY <2>1, <2>2, UpdatedRowsTyped
  <1>3. TypeOK'
    BY <1>1, <1>2
    DEF Disable, Goto, TypeInv, TypeOK, Statements, clients
  <1>4. ControlOK'
    BY <1>1 DEF Disable, Goto, TypeInv, TypeOK, ControlOK
  <1>5. QED
    BY <1>3, <1>4 DEF TypeInv

(* The revocation of a user's certificates. *)
LEMMA RevokeCertsTyped ==
    ASSUME TypeInv, NEW p \in Procs, RevokeCerts(p)
    PROVE  TypeInv'
  <1>1. /\ pc[p] = "revokeCerts"
        /\ req[p] \in RevokeNameRequest
        /\ req[p] \in Request
        /\ req[p] \notin RegisterRequest \cup EnrollRequest \cup ReenrollRequest
    BY DEF RevokeCerts, TypeInv, ControlOK, RevokeNameRequest, Request,
           RegisterRequest, EnrollRequest, ReenrollRequest
  <1>2. certs' \in [Serials -> CertRecord]
    BY RevokedCertsTyped DEF RevokeCerts, TypeInv, TypeOK
  <1>3. TypeOK'
    BY <1>1, <1>2
    DEF RevokeCerts, Goto, TypeInv, TypeOK, Statements, clients, history
  <1>4. ControlOK'
    BY <1>1 DEF RevokeCerts, Goto, TypeInv, TypeOK, ControlOK
  <1>5. QED
    BY <1>3, <1>4 DEF TypeInv

(* The answer of a handler. *)
LEMMA RespondTyped ==
    ASSUME TypeInv, NEW p \in Procs, Respond(p)
    PROVE  TypeInv'
  <1>1. /\ req[p] \in Request
        /\ req[p].op = "register" =>
              out[p] \in Tokens /\ req[p].name \in AllUsers
        /\ req[p].op \in {"enroll", "reenroll"} =>
              out[p] \in Serials /\ req[p].name \in AllUsers
    <2>1. req[p] \in Request
      BY DEF Respond, TypeInv, ControlOK
    <2>2. QED
      BY <2>1, RequestKinds
      DEF Respond, TypeInv, ControlOK, RegisterRequest, EnrollRequest,
          ReenrollRequest, AllUsers
  <1>2. known' \subseteq AllUsers \X Tokens /\ held' \subseteq Serials \X AllUsers
    BY <1>1 DEF Respond, TypeInv, TypeOK
  <1>3. Finish(p)
    BY DEF Respond
  <1>4. QED
    BY <1>2, <1>3, FinishTyped DEF Respond, TypeInv, TypeOK, tables, history

(* Every step keeps the types and the control flow. *)
LEMMA TypeInvStep == TypeInv /\ [Next]_vars => TypeInv'
  <1> SUFFICES ASSUME TypeInv, [Next]_vars PROVE TypeInv'
    OBVIOUS
  <1>1. ASSUME NEW p \in Procs, Receive(p) \/ Step(p) \/ Abort(p)
        PROVE  TypeInv'
    BY <1>1, ReceiveTyped, GetUserTyped, LoginTyped, VerifyTokenTyped, SignTyped,
       CanRegisterTyped, CheckUserTyped, InsertUserTyped, SetMaxEnrollmentsTyped,
       HasAttributeTyped, RevokeSerialTyped, RevokeGetUserTyped, DisableTyped,
       RevokeCertsTyped, RespondTyped, FailTyped
    DEF Step, Abort
  <1>2. CASE UNCHANGED vars
    BY <1>2 DEF vars, TypeInv, TypeOK, ControlOK
  <1>3. QED
    BY <1>1, <1>2 DEF Next, Quiescent

(* A handler never runs on another operation's request, and none that      *)
(* auth.go or the revoke handler has refused reaches a statement.          *)
THEOREM ControlCorrect == Spec => []TypeInv
  BY TypeInvInit, TypeInvStep, PTL DEF Spec

(* Every column, and every variable of a goroutine, keeps its type.        *)
THEOREM TypeCorrect == Spec => []TypeOK
  <1>1. TypeInv => TypeOK
    BY DEF TypeInv
  <1>2. QED
    BY <1>1, ControlCorrect, PTL

-----------------------------------------------------------------------------
(* The life of a certificate: enrollment and revocation. *)

(* What RevocationIsFinal says of one step.                                *)
CertsKept ==
    \A s \in Serials : certs[s].status # "none" =>
        /\ certs'[s].id = certs[s].id
        /\ certs'[s].status \in {certs[s].status, "revoked"}

(* The inductive invariant.  A certificate that is about to be answered is *)
(* recorded; the certificates that were there when a revocation began are  *)
(* recorded under its name, so that its UPDATE selects them, and are       *)
(* revoked once it has run.                                                *)
Recorded(s, id) == certs[s].status # "none" /\ certs[s].id = id

IssuedBy(p) ==
    pc[p] = "respond" /\ req[p] \in EnrollRequest \cup ReenrollRequest =>
        Recorded(out[p], req[p].name)

RevokedBy(p) ==
    pc[p] # "idle" /\ req[p] \in RevokeNameRequest =>
        \A s \in prior[p] :
            /\ Recorded(s, req[p].name)
            /\ pc[p] = "respond" => certs[s].status = "revoked"

CertInv ==
    /\ DeliveredRecorded
    /\ \A p \in Procs : IssuedBy(p) /\ RevokedBy(p)

-----------------------------------------------------------------------------
(* The initial certificate is the bootstrap user's. *)
LEMMA CertInvInit == Init => CertInv
  <1> SUFFICES ASSUME Init
               PROVE  CertInv
    OBVIOUS
  <1>1. DeliveredRecorded
    BY ConstantsAssumption DEF Init, DeliveredRecorded, NewCertRecord
  <1>2. \A p \in Procs : IssuedBy(p) /\ RevokedBy(p)
    BY DEF Init, IssuedBy, RevokedBy
  <1>3. QED
    BY <1>1, <1>2 DEF CertInv

(* The UPDATE of RevokeCertificatesByID on one row. *)
LEMMA RevokedRow ==
    ASSUME NEW id, NEW s \in Serials, TypeInv
    PROVE  /\ Recorded(s, id) =>
                 /\ RevokeCertificatesByID(certs, id)[s].id = id
                 /\ RevokeCertificatesByID(certs, id)[s].status = "revoked"
           /\ ~Recorded(s, id) =>
                 RevokeCertificatesByID(certs, id)[s] = certs[s]
  <1>1. DOMAIN certs = Serials /\ certs[s] \in CertRecord
    BY DEF TypeInv, TypeOK
  <1>2. certs[s].status # "none" =>
           /\ certs[s] \in [id : AllUsers, status : {"good", "revoked"}]
           /\ [certs[s] EXCEPT !.status = "revoked"] =
                 [id |-> certs[s].id, status |-> "revoked"]
    BY <1>1 DEF CertRecord, NoCert
  <1>3. QED
    BY <1>1, <1>2 DEF RevokeCertificatesByID, Recorded

(* The UPDATE of RevokeCertificate on a serial that has a row.             *)
LEMMA RevokedSerial ==
    ASSUME NEW s \in Serials, TypeInv, certs[s].status # "none"
    PROVE  /\ RevokeCertificate(certs, s)[s].id = certs[s].id
           /\ RevokeCertificate(certs, s)[s].status = "revoked"
           /\ \A q \in Serials \ {s} : RevokeCertificate(certs, s)[q] = certs[q]
  <1>1. DOMAIN certs = Serials /\ certs[s] \in CertRecord
    BY DEF TypeInv, TypeOK
  <1>2. /\ certs[s] \in [id : AllUsers, status : {"good", "revoked"}]
        /\ [certs[s] EXCEPT !.status = "revoked"] =
                 [id |-> certs[s].id, status |-> "revoked"]
    BY <1>1 DEF CertRecord, NoCert
  <1>3. QED
    BY <1>1, <1>2 DEF RevokeCertificate

(* No step loses a certificate, changes its id or takes its revocation     *)
(* back: only Sign and the two UPDATEs write the table.                    *)
LEMMA StepKeepsCerts ==
    ASSUME TypeInv, [Next]_vars
    PROVE  CertsKept
  <1>1. CASE UNCHANGED certs
    BY <1>1 DEF CertsKept
  <1>2. ASSUME NEW p \in Procs, Sign(p)
        PROVE  CertsKept
    BY <1>2 DEF Sign, FreshSerial, CertsKept, TypeInv, TypeOK
  <1>3. ASSUME NEW p \in Procs, RevokeSerial(p), ~UNCHANGED certs
        PROVE  CertsKept
    <2>1. req[p].serial \in Serials
      BY <1>3 DEF RevokeSerial, TypeInv, ControlOK, RevokeSerialRequest
    <2>2. /\ certs[req[p].serial].status # "none"
          /\ certs' = RevokeCertificate(certs, req[p].serial)
      BY <1>3 DEF RevokeSerial, Fail, tables
    <2>3. /\ certs'[req[p].serial].id = certs[req[p].serial].id
          /\ certs'[req[p].serial].status = "revoked"
          /\ \A q \in Serials \ {req[p].serial} : certs'[q] = certs[q]
      BY <2>1, <2>2, RevokedSerial
    <2>4. QED
      BY <2>3 DEF CertsKept
  <1>4. ASSUME NEW p \in Procs, RevokeCerts(p)
        PROVE  CertsKept
    <2>1. certs' = RevokeCertificatesByID(certs, req[p].name)
      BY <1>4 DEF RevokeCerts
    <2>2. \A s \in Serials :
             \/ /\ certs'[s].id = certs[s].id
                /\ certs'[s].status = "revoked"
             \/ certs'[s] = certs[s]
      BY <2>1, RevokedRow DEF Recorded
    <2>3. QED
      BY <2>2 DEF CertsKept
  <1>5. ASSUME NEW p \in Procs, Receive(p) \/ Step(p) \/ Abort(p),
               ~(Sign(p) \/ RevokeSerial(p) \/ RevokeCerts(p))
        PROVE  UNCHANGED certs
    BY <1>5 DEF Receive, Step, Abort, GetUser, Login, VerifyToken, CanRegister,
                CheckUser, InsertUser, SetMaxEnrollments, HasAttribute,
                RevokeGetUser, Disable, Respond, Fail, tables
  <1>6. QED
    BY <1>1, <1>2, <1>3, <1>4, <1>5 DEF Next, Quiescent, vars, Step

-----------------------------------------------------------------------------
(* The processes other than p are where they were.                         *)
OthersStay(p) ==
    \A q \in Procs \ {p} :
        pc'[q] = pc[q] /\ req'[q] = req[q] /\ out'[q] = out[q] /\ prior'[q] = prior[q]

(* A recorded certificate stays recorded. *)
LEMMA RecordedKept ==
    ASSUME CertsKept, NEW s \in Serials, NEW id, Recorded(s, id)
    PROVE  certs'[s].status # "none" /\ certs'[s].id = id
  BY DEF CertsKept, Recorded

(* Putting a step together: the table is kept, and the process that moves  *)
(* finds what its new statement relies on.                                 *)
LEMMA CertInvFromParts ==
    ASSUME TypeInv, CertInv, NEW p \in Procs, CertsKept, OthersStay(p),
           DeliveredRecorded', IssuedBy(p)', RevokedBy(p)'
    PROVE  CertInv'
  <1> SUFFICES ASSUME NEW q \in Procs \ {p}
               PROVE  IssuedBy(q)' /\ RevokedBy(q)'
    BY DEF CertInv
  <1>1. /\ pc'[q] = pc[q] /\ req'[q] = req[q]
        /\ out'[q] = out[q] /\ prior'[q] = prior[q]
    BY DEF OthersStay
  <1>2. IssuedBy(q) /\ RevokedBy(q) /\ prior[q] \subseteq Serials
    BY DEF CertInv, TypeInv, TypeOK
  <1>3. pc[q] = "respond" /\ req[q] \in EnrollRequest \cup ReenrollRequest =>
           out[q] \in Serials
    BY DEF TypeInv, ControlOK
  <1>4. IssuedBy(q)'
    BY <1>1, <1>2, <1>3 DEF IssuedBy, Recorded, CertsKept
  <1>5. RevokedBy(q)'
    BY <1>1, <1>2 DEF RevokedBy, Recorded, CertsKept
  <1>6. QED
    BY <1>4, <1>5

(* What clients hold stays recorded when they receive nothing.             *)
LEMMA HeldKept ==
    ASSUME TypeInv, CertInv, CertsKept, UNCHANGED held
    PROVE  DeliveredRecorded'
  <1>1. \A c \in held : c[1] \in Serials
    BY DEF TypeInv, TypeOK
  <1>2. QED
    BY <1>1 DEF CertInv, DeliveredRecorded, CertsKept

(* A request that ends without an answer. *)
LEMMA FinishCert ==
    ASSUME TypeInv, CertInv, NEW p \in Procs, CertsKept, Finish(p),
           UNCHANGED held
    PROVE  CertInv'
  <1>1. OthersStay(p) /\ pc'[p] = "idle"
    BY DEF Finish, OthersStay, TypeInv, TypeOK
  <1>2. IssuedBy(p)' /\ RevokedBy(p)'
    BY <1>1 DEF IssuedBy, RevokedBy
  <1>3. QED
    BY <1>1, <1>2, HeldKept, CertInvFromParts

(* A request that goes on to a statement other than the answer.            *)
LEMMA GotoCert ==
    ASSUME TypeInv, CertInv, NEW p \in Procs, CertsKept,
           NEW s, Goto(p, s), s # "respond", pc[p] # "idle",
           UNCHANGED held, \A q \in Procs \ {p} : out'[q] = out[q]
    PROVE  CertInv'
  <1>1. OthersStay(p) /\ UNCHANGED <<req, prior>> /\ pc'[p] = s
    BY DEF Goto, OthersStay, TypeInv, TypeOK
  <1>2. RevokedBy(p) /\ prior[p] \subseteq Serials
    BY DEF CertInv, TypeInv, TypeOK
  <1>3. IssuedBy(p)' /\ RevokedBy(p)'
    BY <1>1, <1>2 DEF IssuedBy, RevokedBy, Recorded, CertsKept
  <1>4. QED
    BY <1>1, <1>3, HeldKept, CertInvFromParts

(* The kinds of requests are disjoint. *)
LEMMA DisjointKinds ==
    /\ RevokeNameRequest \cap (EnrollRequest \cup ReenrollRequest) = {}
    /\ RegisterRequest \cap (EnrollRequest \cup ReenrollRequest) = {}
    /\ RevokeSerialRequest \cap (EnrollRequest \cup ReenrollRequest) = {}
    /\ RevokeNameRequest \cap (RegisterRequest \cup RevokeSerialRequest) = {}
  BY DEF EnrollRequest, ReenrollRequest, RegisterRequest,
         RevokeNameRequest, RevokeSerialRequest

(* A request to revoke a name finds the certificates of that name.         *)
LEMMA ReceiveCert ==
    ASSUME TypeInv, CertInv, NEW p \in Procs, CertsKept, Receive(p)
    PROVE  CertInv'
  <1>1. OthersStay(p) /\ UNCHANGED <<held, certs, out>>
    BY DEF Receive, tables, OthersStay, TypeInv, TypeOK
  <1>2. IssuedBy(p)' /\ RevokedBy(p)'
    <2>1. CASE UNCHANGED <<pc, req, prior>>
      BY <1>1, <2>1 DEF CertInv, IssuedBy, RevokedBy, Recorded
    <2>2. CASE ~UNCHANGED <<pc, req, prior>>
      <3> PICK r \in Request :
             /\ pc' = [pc EXCEPT ![p] = AuthEntry(r)]
             /\ req' = [req EXCEPT ![p] = r]
             /\ prior' = [prior EXCEPT ![p] =
                   IF r.op = "revokeName" THEN CertsOf(r.name) ELSE {}]
        BY <2>2 DEF Receive
      <3>1. pc'[p] = AuthEntry(r) /\ req'[p] = r
        BY DEF TypeInv, TypeOK
      <3>2. AuthEntry(r) # "respond"
        BY DEF AuthEntry, HandlerEntry
      <3>3. r \in RevokeNameRequest => prior'[p] = CertsOf(r.name)
        BY RequestKinds DEF TypeInv, TypeOK
      <3>4. IssuedBy(p)'
        BY <3>1, <3>2 DEF IssuedBy
      <3>5. RevokedBy(p)'
        BY <1>1, <3>1, <3>2, <3>3 DEF RevokedBy, Recorded, CertsOf
      <3>6. QED
        BY <3>4, <3>5
    <2>3. QED
      BY <2>1, <2>2
  <1>3. QED
    BY <1>1, <1>2, HeldKept, CertInvFromParts

(* The signer inserts the certificate that is then answered.               *)
LEMMA SignCert ==
    ASSUME TypeInv, CertInv, NEW p \in Procs, CertsKept, Sign(p)
    PROVE  CertInv'
  <1>1. PICK s \in Serials :
           /\ certs' = [certs EXCEPT ![s] = NewCertRecord(req[p].name)]
           /\ out' = [out EXCEPT ![p] = s]
    BY DEF Sign
  <1>2. /\ OthersStay(p) /\ UNCHANGED <<held, req, prior>>
        /\ out'[p] = s /\ certs'[s] = NewCertRecord(req[p].name)
    BY <1>1 DEF Sign, Goto, clients, OthersStay, TypeInv, TypeOK
  <1>3. req[p] \in EnrollRequest \cup ReenrollRequest
    BY DEF Sign, TypeInv, ControlOK
  <1>4. IssuedBy(p)'
    BY <1>2 DEF IssuedBy, Recorded, NewCertRecord
  <1>5. RevokedBy(p)'
    BY <1>2, <1>3, DisjointKinds DEF RevokedBy
  <1>6. QED
    BY <1>2, <1>4, <1>5, HeldKept, CertInvFromParts

(* RevokeCertificatesByID revokes all that was there at the beginning.     *)
LEMMA RevokeCertsCert ==
    ASSUME TypeInv, CertInv, NEW p \in Procs, CertsKept, RevokeCerts(p)
    PROVE  CertInv'
  <1>1. /\ OthersStay(p) /\ UNCHANGED <<held, req, prior>>
        /\ certs' = RevokeCertificatesByID(certs, req[p].name)
    BY DEF RevokeCerts, Goto, clients, OthersStay, TypeInv, TypeOK
  <1>2. /\ req[p] \in RevokeNameRequest /\ prior[p] \subseteq Serials
        /\ \A s \in prior[p] : Recorded(s, req[p].name)
    BY DEF RevokeCerts, TypeInv, TypeOK, ControlOK, CertInv, RevokedBy
  <1>3. \A s \in prior[p] :
           certs'[s].id = req[p].name /\ certs'[s].status = "revoked"
    BY <1>1, <1>2, RevokedRow
  <1>4. IssuedBy(p)'
    BY <1>1, <1>2, DisjointKinds DEF IssuedBy
  <1>5. RevokedBy(p)'
    BY <1>1, <1>3 DEF RevokedBy, Recorded
  <1>6. QED
    BY <1>1, <1>4, <1>5, HeldKept, CertInvFromParts

(* The other two ways to an answer: the certificates have no part in a     *)
(* registration, and the revocation of a serial promises nothing about     *)
(* other serials.                                                          *)
LEMMA AnswerCert ==
    ASSUME TypeInv, CertInv, NEW p \in Procs, CertsKept, Goto(p, "respond"),
           req[p] \in RegisterRequest \cup RevokeSerialRequest,
           UNCHANGED <<held, out>>
    PROVE  CertInv'
  <1>1. OthersStay(p) /\ UNCHANGED req
    BY DEF Goto, OthersStay, TypeInv, TypeOK
  <1>2. IssuedBy(p)' /\ RevokedBy(p)'
    BY <1>1, DisjointKinds DEF IssuedBy, RevokedBy
  <1>3. QED
    BY <1>1, <1>2, HeldKept, CertInvFromParts

(* A client receives the certificate that was recorded for its name.       *)
LEMMA RespondCert ==
    ASSUME TypeInv, CertInv, NEW p \in Procs, CertsKept, Respond(p)
    PROVE  CertInv'
  <1>1. OthersStay(p) /\ UNCHANGED certs /\ pc'[p] = "idle"
    BY DEF Respond, Finish, tables, OthersStay, TypeInv, TypeOK
  <1>2. req[p].op \in {"enroll", "reenroll"} => Recorded(out[p], req[p].name)
    BY RequestKinds DEF Respond, TypeInv, ControlOK, CertInv, IssuedBy
  <1>3. DeliveredRecorded'
    <2>1. \A c \in held : certs[c[1]].status # "none" /\ certs[c[1]].id = c[2]
      BY DEF CertInv, DeliveredRecorded
    <2>2. CASE req[p].op \in {"enroll", "reenroll"}
      <3>1. held' = held \cup {<<out[p], req[p].name>>}
        BY <2>2 DEF Respond
      <3>2. certs[out[p]].status # "none" /\ certs[out[p]].id = req[p].name
        BY <1>2, <2>2 DEF Recorded
      <3>3. QED
        BY <1>1, <2>1, <3>1, <3>2 DEF DeliveredRecorded
    <2>3. CASE req[p].op \notin {"enroll", "reenroll"}
      <3>1. held' = held
        BY <2>3 DEF Respond
      <3>2. QED
        BY <1>1, <2>1, <3>1 DEF DeliveredRecorded
    <2>4. QED
      BY <2>2, <2>3
  <1>4. IssuedBy(p)' /\ RevokedBy(p)'
    BY <1>1 DEF IssuedBy, RevokedBy
  <1>5. QED
    BY <1>1, <1>3, <1>4, CertInvFromParts

(* The statements that lead neither to an answer nor to the table of       *)
(* certificates.                                                           *)
LEMMA OtherStepsCert ==
    ASSUME TypeInv, CertInv, NEW p \in Procs, CertsKept,
           \/ GetUser(p) \/ Login(p) \/ VerifyToken(p) \/ CanRegister(p)
           \/ CheckUser(p) \/ InsertUser(p) \/ HasAttribute(p)
           \/ RevokeGetUser(p) \/ Disable(p)
    PROVE  CertInv'
  <1>1. \A r : HandlerEntry(r) # "respond"
    BY DEF HandlerEntry
  <1>2. UNCHANGED held /\ pc[p] # "idle"
    BY DEF GetUser, Login, VerifyToken, CanRegister, CheckUser, InsertUser,
           HasAttribute, RevokeGetUser, Disable, Fail, clients
  <1>3. \/ Finish(p)
        \/ \E s : s # "respond" /\ Goto(p, s)
    BY <1>1 DEF GetUser, Login, VerifyToken, CanRegister, CheckUser, InsertUser,
                HasAttribute, RevokeGetUser, Disable, Fail
  <1>4. ~Finish(p) => \A q \in Procs \ {p} : out'[q] = out[q]
    BY DEF GetUser, Login, VerifyToken, CanRegister, CheckUser, InsertUser,
           HasAttribute, RevokeGetUser, Disable, Fail, TypeInv, TypeOK
  <1>5. QED
    BY <1>2, <1>3, <1>4, FinishCert, GotoCert

(* Every step of the server preserves the invariant. *)
LEMMA CertInvStep == TypeInv /\ CertInv /\ [Next]_vars => CertInv'
  <1> SUFFICES ASSUME TypeInv, CertInv, [Next]_vars
               PROVE  CertInv'
    OBVIOUS
  <1>1. CertsKept
    BY StepKeepsCerts
  <1>2. CASE UNCHANGED vars
    BY <1>2 DEF vars, CertInv, DeliveredRecorded, IssuedBy, RevokedBy, Recorded
  <1>3. ASSUME NEW p \in Procs, Receive(p) \/ Abort(p)
        PROVE  CertInv'
    BY <1>1, <1>3, ReceiveCert, FinishCert DEF Abort, Fail, clients
  <1>4. ASSUME NEW p \in Procs, SetMaxEnrollments(p) \/ RevokeSerial(p)
        PROVE  CertInv'
    <2>1. CASE Fail(p)
      BY <1>1, <2>1, FinishCert DEF Fail, clients
    <2>2. CASE ~Fail(p)
      <3>1. Goto(p, "respond") /\ UNCHANGED <<held, out>>
        BY <1>4, <2>2 DEF SetMaxEnrollments, RevokeSerial, clients
      <3>2. req[p] \in RegisterRequest \cup RevokeSerialRequest
        BY <1>4 DEF SetMaxEnrollments, RevokeSerial, TypeInv, ControlOK
      <3>3. QED
        BY <1>1, <3>1, <3>2, AnswerCert
    <2>3. QED
      BY <2>1, <2>2
  <1>5. ASSUME NEW p \in Procs, Step(p), ~SetMaxEnrollments(p), ~RevokeSerial(p)
        PROVE  CertInv'
    BY <1>1, <1>5, SignCert, RevokeCertsCert, RespondCert, OtherStepsCert
       DEF Step
  <1>6. QED
    BY <1>2, <1>3, <1>4, <1>5 DEF Next, Quiescent

(* The invariant holds in every reachable state. *)
LEMMA CertInvariant == Spec => []CertInv
  BY ControlCorrect, CertInvInit, CertInvStep, PTL DEF Spec

-----------------------------------------------------------------------------
(* A certificate that a client holds is in the table under the id it was   *)
(* issued to, because Sign inserts it before it returns it.                *)
THEOREM DeliveredAreRecorded == Spec => []DeliveredRecorded
  <1>1. CertInv => DeliveredRecorded
    BY DEF CertInv
  <1>2. QED
    BY <1>1, CertInvariant, PTL

(* The answer to the revocation of a name comes after every certificate    *)
(* the name had when the request arrived is revoked, whatever else ran     *)
(* meanwhile and whatever failed.                                          *)
THEOREM EarlierAreRevoked == Spec => []EarlierCertsRevoked
  <1>1. TypeInv /\ CertInv => EarlierCertsRevoked
    <2> SUFFICES ASSUME TypeInv, CertInv, NEW p \in Procs,
                        pc[p] = "respond", req[p].op = "revokeName"
                 PROVE  \A s \in prior[p] : certs[s].status = "revoked"
      BY DEF EarlierCertsRevoked
    <2>1. req[p] \in RevokeNameRequest
      BY RequestKinds DEF TypeInv, ControlOK
    <2>2. QED
      BY <2>1 DEF CertInv, RevokedBy
  <1>2. QED
    BY <1>1, ControlCorrect, CertInvariant, PTL

(* Nothing the server does loses a certificate, gives it to another id or  *)
(* takes its revocation back.                                              *)
THEOREM RevocationStays == Spec => RevocationIsFinal
  <1>1. TypeInv /\ [Next]_vars =>
           [\A s \in Serials : certs[s].status # "none" =>
              /\ certs'[s].id = certs[s].id
              /\ certs'[s].status \in {certs[s].status, "revoked"}]_vars
    BY StepKeepsCerts DEF CertsKept
  <1>2. QED
    BY <1>1, ControlCorrect, PTL DEF Spec, RevocationIsFinal

-----------------------------------------------------------------------------
(* An id that registerUserID is about to insert is free, when requests are *)
(* served one at a time and GetUser fails only when there is no such user. *)
FreeInv ==
    Serialized /\ ~Faults =>
        \A p \in Procs : pc[p] = "insertUser" => users[req[p].name] = {}

(* The only way to the INSERT is through the look-up of the id. *)
LEMMA InsertEntered ==
    ASSUME TypeInv, NEW p \in Procs, Receive(p) \/ Step(p) \/ Abort(p),
           pc'[p] = "insertUser"
    PROVE  CheckUser(p) /\ ~Fail(p)
  <1>1. ~Finish(p)
    BY DEF Finish, TypeInv, TypeOK
  <1>2. ~Receive(p)
    <2>1. \A r : AuthEntry(r) # "insertUser"
      BY DEF AuthEntry, HandlerEntry
    <2>2. QED
      BY <2>1 DEF Receive, TypeInv, TypeOK
  <1>3. CASE ~CheckUser(p)
    <2>1. \A r : HandlerEntry(r) # "insertUser"
      BY DEF HandlerEntry
    <2>2. \/ Goto(p, "login") \/ Goto(p, "respond")
          \/ Goto(p, HandlerEntry(req[p]))
          \/ Goto(p, "checkUser") \/ Goto(p, "setMaxEnrollments")
          \/ Goto(p, "revokeSerial") \/ Goto(p, "revokeGetUser")
          \/ Goto(p, "disable") \/ Goto(p, "revokeCerts")
      <3>1. CASE GetUser(p) \/ Login(p) \/ VerifyToken(p) \/ Sign(p)
        BY <1>1, <3>1 DEF GetUser, Login, VerifyToken, Sign, Fail
      <3>2. CASE CanRegister(p) \/ InsertUser(p) \/ SetMaxEnrollments(p)
        BY <1>1, <3>2 DEF CanRegister, InsertUser, SetMaxEnrollments, Fail
      <3>3. CASE HasAttribute(p)
        BY <1>1, <3>3 DEF HasAttribute, Fail
      <3>4. CASE \/ RevokeSerial(p) \/ RevokeGetUser(p) \/ Disable(p)
                 \/ RevokeCerts(p) \/ Respond(p)
        BY <1>1, <3>4
           DEF RevokeSerial, RevokeGetUser, Disable, RevokeCerts, Respond, Fail
      <3>5. QED
        BY <1>1, <1>2, <1>3, <3>1, <3>2, <3>3, <3>4 DEF Step, Abort, Fail
    <2>3. QED
      BY <2>1, <2>2 DEF Goto, TypeInv, TypeOK
  <1>4. QED
    BY <1>1, <1>3 DEF Fail

(* Every step preserves this: the request that looked the id up is the     *)
(* only one there is.                                                      *)
LEMMA FreeInvStep == TypeInv /\ FreeInv /\ [Next]_vars => FreeInv'
  <1> SUFFICES ASSUME TypeInv, FreeInv, [Next]_vars, Serialized, ~Faults,
                      NEW p \in Procs, pc'[p] = "insertUser"
               PROVE  users'[req'[p].name] = {}
    BY DEF FreeInv
  <1>1. CASE UNCHANGED vars
    BY <1>1 DEF vars, FreeInv
  <1>2. ASSUME NEW q \in Procs, Receive(q) \/ Step(q) \/ Abort(q)
        PROVE  users'[req'[p].name] = {}
    <2>1. q = p
      BY DEF Serialized
    <2>2. CheckUser(p) /\ ~Fail(p)
      BY <1>2, <2>1, InsertEntered
    <2>3. users[req[p].name] = {} /\ UNCHANGED <<users, req>>
      BY <2>2 DEF CheckUser, Goto, tables
    <2>4. QED
      BY <2>3
  <1>3. QED
    BY <1>1, <1>2 DEF Next, Quiescent

(* The invariant holds in every reachable state. *)
LEMMA FreeInvariant == Spec => []FreeInv
  <1>1. Init => FreeInv
    BY DEF Init, FreeInv
  <1>2. QED
    BY <1>1, ControlCorrect, FreeInvStep, PTL DEF Spec

-----------------------------------------------------------------------------
(* The life of an enrollment secret: registration, the limit on            *)
(* enrollments and the count of logins.                                    *)

(* The inductive invariant.  Rows are told apart by their secret, and in   *)
(* some configurations an id has one row only; a secret that has left the  *)
(* server, or is about to, has a row with the configured limit; and a      *)
(* login that will pass was started with such a secret, so the row it has  *)
(* read carries that limit.  The last is what keeps a row that still has   *)
(* no limit from being used.                                               *)
DistinctSecrets ==
    \A u, v \in AllUsers : \A r \in users[u], q \in users[v] :
        r.pass = q.pass => u = v /\ r = q

HasRow(u, t) == \E r \in users[u] : r.pass = t

HasLimitedRow(u, t) ==
    \E r \in users[u] : r.pass = t /\ r.max = MaxEnrollments

SingleRow ==
    OneRowPerId => \A u \in AllUsers : \A r, q \in users[u] : r = q

KnownLimited ==
    \A u \in AllUsers, t \in Tokens : <<u, t>> \in known => HasLimitedRow(u, t)

SecretOf(p) ==
    /\ pc[p] = "setMaxEnrollments" => HasRow(req[p].name, out[p])
    /\ pc[p] = "respond" /\ req[p] \in RegisterRequest =>
          HasLimitedRow(req[p].name, out[p])

LoginOf(p) ==
    /\ pc[p] \in {"getUser", "login"} /\ req[p].pass # None =>
          <<req[p].login, req[p].pass>> \in known
    /\ pc[p] = "login" /\ snap[p].pass = req[p].pass =>
          snap[p].max = MaxEnrollments

SecretInv ==
    /\ DistinctSecrets
    /\ SingleRow
    /\ KnownLimited
    /\ \A p \in Procs : SecretOf(p) /\ LoginOf(p)
    /\ CounterWithinLimit

-----------------------------------------------------------------------------
(* What the UPDATEs write and keep of a row, and which rows they produce.  *)
LEMMA WithStateFields ==
    ASSUME NEW r \in UserRecord, NEW val \in Int
    PROVE  /\ WithState(r, val).state = val
           /\ WithState(r, val).pass = r.pass
           /\ WithState(r, val).max = r.max
           /\ WithState(r, val).attrs = r.attrs
  BY DEF WithState, UserRecord

(* The same of the UPDATE of the limit. *)
LEMMA WithMaxFields ==
    ASSUME NEW r \in UserRecord, NEW val \in Int
    PROVE  /\ WithMax(r, val).max = val
           /\ WithMax(r, val).pass = r.pass
           /\ WithMax(r, val).state = r.state
           /\ WithMax(r, val).attrs = r.attrs
  BY DEF WithMax, UserRecord

(* An UPDATE writes every row it is given and adds none. *)
LEMMA UpdateRows ==
    ASSUME NEW rows, NEW val
    PROVE  /\ \A r \in rows : WithState(r, val) \in UpdateState(rows, val)
           /\ \A q \in UpdateState(rows, val) :
                 \E r \in rows : q = WithState(r, val)
           /\ \A r \in rows :
                 WithMax(r, val) \in UpdateMaxEnrollments(rows, val)
           /\ \A q \in UpdateMaxEnrollments(rows, val) :
                 \E r \in rows : q = WithMax(r, val)
  BY DEF UpdateState, UpdateMaxEnrollments

-----------------------------------------------------------------------------
(* A step loses no row and takes the limit from none.                      *)
RowsKept ==
    \A u \in AllUsers, t \in Tokens :
        /\ HasRow(u, t) => HasRow(u, t)'
        /\ HasLimitedRow(u, t) => HasLimitedRow(u, t)'

(* What a step does to the table of users, as far as the invariant goes.   *)
TableStep == RowsKept /\ DistinctSecrets' /\ SingleRow' /\ CounterWithinLimit'

(* The processes other than p are where they were.                         *)
OthersWait(p) ==
    \A q \in Procs \ {p} :
        pc'[q] = pc[q] /\ req'[q] = req[q] /\ snap'[q] = snap[q] /\ out'[q] = out[q]

(* A step that leaves the table alone. *)
LEMMA SameTable ==
    ASSUME SecretInv, UNCHANGED users
    PROVE  TableStep
  <1>1. RowsKept
    BY DEF RowsKept, HasRow, HasLimitedRow
  <1>2. DistinctSecrets'
    BY DEF SecretInv, DistinctSecrets
  <1>3. SingleRow'
    BY DEF SecretInv, SingleRow
  <1>4. CounterWithinLimit'
    BY DEF SecretInv, CounterWithinLimit
  <1>5. QED
    BY <1>1, <1>2, <1>3, <1>4 DEF TableStep

(* UpdateField(id, state, val), as Login and the revoke handler use it.     *)
LEMMA UpdateStateStep ==
    ASSUME TypeInv, SecretInv, NEW name \in AllUsers, NEW val \in Int,
           MaxEnrollments > 0 => val <= MaxEnrollments,
           users' = [users EXCEPT ![name] = UpdateState(@, val)]
    PROVE  TableStep
  <1>1. /\ \A u \in AllUsers : users[u] \subseteq UserRecord
        /\ users'[name] = UpdateState(users[name], val)
        /\ \A u \in AllUsers \ {name} : users'[u] = users[u]
    BY DEF TypeInv, TypeOK
  <1>2. \A r \in users[name] :
          /\ WithState(r, val) \in users'[name]
          /\ WithState(r, val).pass = r.pass
          /\ WithState(r, val).max = r.max
          /\ WithState(r, val).state = val
    BY <1>1, WithStateFields, UpdateRows
  <1>3. \A q \in users'[name] : \E r \in users[name] : q = WithState(r, val)
    BY <1>1, UpdateRows
  <1>4. RowsKept
    BY <1>1, <1>2 DEF RowsKept, HasRow, HasLimitedRow
  <1>5. DistinctSecrets'
    BY <1>1, <1>2, <1>3 DEF SecretInv, DistinctSecrets
  <1>6. CounterWithinLimit'
    BY <1>1, <1>2, <1>3 DEF SecretInv, CounterWithinLimit
  <1>7. SingleRow'
    BY <1>1, <1>3 DEF SecretInv, SingleRow
  <1>8. QED
    BY <1>4, <1>5, <1>6, <1>7 DEF TableStep

(* UpdateField(id, maxEnrollments, MaxEnrollments) gives the limit to every *)
(* row of the id, its own and those of other registrations.                *)
LEMMA UpdateMaxStep ==
    ASSUME TypeInv, SecretInv, NEW name \in AllUsers,
           users' = [users EXCEPT
                        ![name] = UpdateMaxEnrollments(@, MaxEnrollments)]
    PROVE  /\ TableStep
           /\ \A t \in Tokens : HasRow(name, t) => HasLimitedRow(name, t)'
  <1>1. /\ \A u \in AllUsers : users[u] \subseteq UserRecord
        /\ users'[name] = UpdateMaxEnrollments(users[name], MaxEnrollments)
        /\ \A u \in AllUsers \ {name} : users'[u] = users[u]
    BY DEF TypeInv, TypeOK
  <1>2. \A r \in users[name] :
          /\ WithMax(r, MaxEnrollments) \in users'[name]
          /\ WithMax(r, MaxEnrollments).pass = r.pass
          /\ WithMax(r, MaxEnrollments).max = MaxEnrollments
          /\ WithMax(r, MaxEnrollments).state = r.state
    BY <1>1, WithMaxFields, UpdateRows, ConstantsAssumption
  <1>3. \A q \in users'[name] :
           \E r \in users[name] : q = WithMax(r, MaxEnrollments)
    BY <1>1, UpdateRows
  <1>4. /\ RowsKept
        /\ \A t \in Tokens : HasRow(name, t) => HasLimitedRow(name, t)'
    BY <1>1, <1>2 DEF RowsKept, HasRow, HasLimitedRow
  <1>5. DistinctSecrets'
    BY <1>1, <1>2, <1>3 DEF SecretInv, DistinctSecrets
  <1>6. CounterWithinLimit'
    BY <1>1, <1>2, <1>3 DEF SecretInv, CounterWithinLimit
  <1>7. SingleRow'
    BY <1>1, <1>3 DEF SecretInv, SingleRow
  <1>8. QED
    BY <1>4, <1>5, <1>6, <1>7 DEF TableStep

(* The INSERT of a row with a new secret. *)
LEMMA InsertStep ==
    ASSUME TypeInv, SecretInv, NEW name \in AllUsers, NEW t \in Tokens,
           NEW a \in Attrs, ~InUse(t), OneRowPerId => users[name] = {},
           users' = [users EXCEPT ![name] = @ \cup {NewUserRecord(t, a)}]
    PROVE  TableStep /\ HasRow(name, t)'
  <1>1. /\ users'[name] = users[name] \cup {NewUserRecord(t, a)}
        /\ \A u \in AllUsers \ {name} : users'[u] = users[u]
    BY DEF TypeInv, TypeOK
  <1>2. NewUserRecord(t, a).pass = t /\ NewUserRecord(t, a).state = 0
    BY DEF NewUserRecord
  <1>3. \A u \in AllUsers : \A r \in users[u] : r.pass # t
    BY DEF InUse
  <1>4. RowsKept /\ HasRow(name, t)'
    BY <1>1, <1>2 DEF RowsKept, HasRow, HasLimitedRow
  <1>5. DistinctSecrets'
    BY <1>1, <1>2, <1>3 DEF SecretInv, DistinctSecrets
  <1>6. CounterWithinLimit'
    BY <1>1, <1>2, ConstantsAssumption DEF SecretInv, CounterWithinLimit
  <1>7. SingleRow'
    BY <1>1 DEF SecretInv, SingleRow
  <1>8. QED
    BY <1>4, <1>5, <1>6, <1>7 DEF TableStep

-----------------------------------------------------------------------------
(* The invariant holds when the server has just bootstrapped.              *)
LEMMA SecretInvInit == Init => SecretInv
  <1> SUFFICES ASSUME Init
               PROVE  SecretInv
    OBVIOUS
  <1>1. DistinctSecrets
    BY ConstantsAssumption DEF Init, DistinctSecrets, AllUsers
  <1>2. KnownLimited
    BY ConstantsAssumption DEF Init, KnownLimited, HasLimitedRow, AllUsers
  <1>3. \A p \in Procs : SecretOf(p) /\ LoginOf(p)
    BY DEF Init, SecretOf, LoginOf
  <1>4. CounterWithinLimit
    BY ConstantsAssumption DEF Init, CounterWithinLimit, AllUsers
  <1>5. SingleRow
    BY ConstantsAssumption DEF Init, SingleRow, AllUsers
  <1>6. QED
    BY <1>1, <1>2, <1>3, <1>4, <1>5 DEF SecretInv

(* What a process relies on is not taken away by a step of another one.    *)
LEMMA OthersKeep ==
    ASSUME TypeInv, SecretInv, NEW p \in Procs, NEW q \in Procs \ {p},
           RowsKept, OthersWait(p), known \subseteq known'
    PROVE  SecretOf(q)' /\ LoginOf(q)'
  <1>1. /\ pc'[q] = pc[q] /\ req'[q] = req[q]
        /\ snap'[q] = snap[q] /\ out'[q] = out[q]
    BY DEF OthersWait
  <1>2. SecretOf(q) /\ LoginOf(q)
    BY DEF SecretInv
  <1>3. ASSUME pc[q] = "setMaxEnrollments" \/
               (pc[q] = "respond" /\ req[q] \in RegisterRequest)
        PROVE  req[q].name \in AllUsers /\ out[q] \in Tokens
    BY <1>3 DEF TypeInv, ControlOK, RegisterRequest, AllUsers
  <1>4. SecretOf(q)'
    BY <1>1, <1>2, <1>3 DEF SecretOf, RowsKept, HasRow, HasLimitedRow
  <1>5. LoginOf(q)'
    BY <1>1, <1>2 DEF LoginOf
  <1>6. QED
    BY <1>4, <1>5

(* Putting a step together: what it does to the table, to what clients     *)
(* know, and to its own process.                                           *)
LEMMA SecretInvFromParts ==
    ASSUME TypeInv, SecretInv, NEW p \in Procs,
           TableStep, OthersWait(p), known \subseteq known', KnownLimited',
           SecretOf(p)', LoginOf(p)'
    PROVE  SecretInv'
  <1>1. \A q \in Procs : SecretOf(q)' /\ LoginOf(q)'
    BY OthersKeep DEF TableStep
  <1>2. QED
    BY <1>1 DEF SecretInv, TableStep

(* Clients that learn nothing know only secrets that had their limit.      *)
LEMMA KnownKept ==
    ASSUME SecretInv, RowsKept, UNCHANGED known
    PROVE  KnownLimited'
  BY DEF SecretInv, RowsKept, KnownLimited, HasLimitedRow

(* A request that fails. *)
LEMMA FailSecret ==
    ASSUME TypeInv, SecretInv, NEW p \in Procs, Fail(p)
    PROVE  SecretInv'
  <1> USE DEF Fail, Finish, tables, clients, history
  <1>1. TableStep
    BY SameTable
  <1>2. KnownLimited'
    BY <1>1, KnownKept DEF TableStep
  <1>3. OthersWait(p) /\ known \subseteq known'
    BY DEF OthersWait, TypeInv, TypeOK
  <1>4. SecretOf(p)' /\ LoginOf(p)'
    BY DEF SecretOf, LoginOf, TypeInv, TypeOK
  <1>5. QED
    BY <1>1, <1>2, <1>3, <1>4, SecretInvFromParts

-----------------------------------------------------------------------------
(* The actions. *)

(* A step that writes neither the users nor what clients know, and whose   *)
(* process goes to a statement that uses no secret.                        *)
LEMMA QuietStep ==
    ASSUME TypeInv, SecretInv, NEW p \in Procs,
           UNCHANGED <<users, known>>, OthersWait(p),
           SecretOf(p)', LoginOf(p)'
    PROVE  SecretInv'
  <1>1. TableStep
    BY SameTable
  <1>2. KnownLimited' /\ known \subseteq known'
    BY <1>1, KnownKept DEF TableStep
  <1>3. QED
    BY <1>1, <1>2, SecretInvFromParts

(* A client logs in with a secret it has received.                         *)
LEMMA ReceiveSecret ==
    ASSUME TypeInv, SecretInv, NEW p \in Procs, Receive(p)
    PROVE  SecretInv'
  <1>1. UNCHANGED <<users, known>> /\ OthersWait(p)
    BY DEF Receive, tables, history, OthersWait, TypeInv, TypeOK
  <1>2. CASE UNCHANGED <<pc, req>>
    <2>1. SecretOf(p)' /\ LoginOf(p)'
      BY <1>1, <1>2 DEF Receive, SecretInv, SecretOf, LoginOf, HasRow, HasLimitedRow
    <2>2. QED
      BY <1>1, <2>1, QuietStep
  <1>3. CASE ~UNCHANGED <<pc, req>>
    <2> PICK r \in Request :
          /\ ClientSends(r)
          /\ pc' = [pc EXCEPT ![p] = AuthEntry(r)]
          /\ req' = [req EXCEPT ![p] = r]
      BY <1>3 DEF Receive
    <2>1. pc'[p] = AuthEntry(r) /\ req'[p] = r
      BY DEF TypeInv, TypeOK
    <2>2. AuthEntry(r) \notin {"setMaxEnrollments", "respond", "login"}
      BY DEF AuthEntry, HandlerEntry
    <2>3. AuthEntry(r) = "getUser" => r \in EnrollRequest
      BY RequestKinds DEF AuthEntry, HandlerEntry
    <2>4. SecretOf(p)'
      BY <2>1, <2>2 DEF SecretOf
    <2>5. LoginOf(p)'
      <3>1. AuthEntry(r) = "getUser" => r.op = "enroll"
        BY <2>3, RequestKinds
      <3>2. AuthEntry(r) = "getUser" /\ r.pass # None => <<r.login, r.pass>> \in known
        BY <3>1 DEF ClientSends
      <3>3. pc'[p] = "getUser" /\ req'[p].pass # None =>
               <<req'[p].login, req'[p].pass>> \in known'
        BY <1>1, <2>1, <3>2
      <3>4. pc'[p] # "login"
        BY <2>1, <2>2
      <3>5. QED
        BY <3>3, <3>4 DEF LoginOf
    <2>6. QED
      BY <1>1, <2>4, <2>5, QuietStep
  <1>4. QED
    BY <1>2, <1>3

(* The row GetUser reads is the only one with its secret: if the client    *)
(* sent that secret, it is a row with the configured limit.                *)
LEMMA GetUserSecret ==
    ASSUME TypeInv, SecretInv, NEW p \in Procs, GetUser(p)
    PROVE  SecretInv'
  <1>1. CASE Fail(p)
    BY <1>1, FailSecret
  <1>2. ASSUME NEW u \in users[req[p].login],
               snap' = [snap EXCEPT ![p] = u], Goto(p, "login"),
               UNCHANGED <<tables, out, clients, history>>
        PROVE  SecretInv'
    <2>1. /\ UNCHANGED <<users, known, req>> /\ OthersWait(p)
          /\ pc'[p] = "login" /\ snap'[p] = u
      BY <1>2 DEF Goto, OthersWait, tables, clients, TypeInv, TypeOK
    <2>2. /\ req[p] \in EnrollRequest /\ pc[p] = "getUser"
          /\ req[p].login \in AllUsers /\ req[p].pass \in Tokens \cup {None}
      BY DEF GetUser, TypeInv, ControlOK, EnrollRequest
    <2>3. u.pass \in Tokens /\ u.pass # None
      <3>1. u \in UserRecord
        BY <2>2 DEF TypeInv, TypeOK
      <3>2. QED
        BY <3>1, ConstantsAssumption DEF UserRecord
    <2>4. req[p].pass # None => <<req[p].login, req[p].pass>> \in known
      BY <2>2 DEF SecretInv, LoginOf
    <2>5. u.pass = req[p].pass => HasLimitedRow(req[p].login, u.pass)
      BY <2>2, <2>3, <2>4 DEF SecretInv, KnownLimited
    <2>6. u.pass = req[p].pass => u.max = MaxEnrollments
      BY <2>2, <2>5 DEF SecretInv, DistinctSecrets, HasLimitedRow
    <2>7. SecretOf(p)' /\ LoginOf(p)'
      BY <2>1, <2>4, <2>6 DEF SecretOf, LoginOf
    <2>8. QED
      BY <2>1, <2>7, QuietStep
  <1>3. QED
    BY <1>1, <1>2 DEF GetUser

(* Login writes a count that the limit allows. *)
LEMMA LoginSecret ==
    ASSUME TypeInv, SecretInv, NEW p \in Procs, Login(p)
    PROVE  SecretInv'
  <1> DEFINE u == snap[p]
             name == req[p].login
             pass == u.pass = req[p].pass /\ ~LimitReached(u)
  <1>1. /\ pc[p] = "login" /\ req[p] \in EnrollRequest /\ name \in AllUsers
        /\ u \in UserRecord /\ u.state \in Int /\ u.max \in Int
    BY DEF Login, TypeInv, ControlOK, EnrollRequest, UserRecord
  <1>2. HandlerEntry(req[p]) = "sign"
    BY <1>1, HandlerEntryCases DEF Request
  <1>3. pass => (MaxEnrollments > 0 => u.state + 1 <= MaxEnrollments)
    <2>1. pass => u.max = MaxEnrollments
      <3>1. LoginOf(p)
        BY DEF SecretInv
      <3>2. QED
        BY <1>1, <3>1 DEF LoginOf
    <2>2. u.state \in Int /\ MaxEnrollments \in Int
      BY <1>1, ConstantsAssumption
    <2>3. pass => ~(MaxEnrollments > 0 /\ u.state >= MaxEnrollments)
      BY <2>1 DEF LimitReached
    <2> HIDE DEF u, pass
    <2>4. ASSUME ~(MaxEnrollments > 0 /\ u.state >= MaxEnrollments), MaxEnrollments > 0
          PROVE  u.state + 1 <= MaxEnrollments
      BY <2>2, <2>4
    <2>5. QED
      BY <2>3, <2>4
  <1>4. TableStep
    <2>1. CASE pass /\ LoginCounted(u)
      <3>1. users' = [users EXCEPT ![name] = UpdateState(@, u.state + 1)]
        BY <2>1 DEF Login
      <3>2. u.state + 1 \in Int
        BY <1>1
      <3>3. QED
        BY <1>1, <1>3, <2>1, <3>1, <3>2, UpdateStateStep
    <2>2. CASE ~(pass /\ LoginCounted(u))
      <3>1. UNCHANGED users
        BY <2>2 DEF Login
      <3>2. QED
        BY <3>1, SameTable
    <2>3. QED
      BY <2>1, <2>2
  <1>5. UNCHANGED known /\ OthersWait(p) /\ pc'[p] \in {"sign", "idle"}
    BY <1>2 DEF Login, Goto, Finish, OthersWait, clients, TypeInv, TypeOK
  <1>6. SecretOf(p)' /\ LoginOf(p)'
    BY <1>5 DEF SecretOf, LoginOf
  <1>7. QED
    BY <1>4, <1>5, <1>6, KnownKept, SecretInvFromParts DEF TableStep

(* A new row is the only one with its secret. *)
LEMMA InsertUserSecret ==
    ASSUME TypeInv, SecretInv, FreeInv, NEW p \in Procs, InsertUser(p)
    PROVE  SecretInv'
  <1>1. CASE Fail(p)
    BY <1>1, FailSecret
  <1>2. CASE ~Fail(p)
    <2>1. PICK t \in Tokens :
            /\ ~InsertRefused(req[p].name) /\ ~InUse(t)
            /\ users' = [users EXCEPT
                  ![req[p].name] = @ \cup {NewUserRecord(t, req[p].attrs)}]
            /\ out' = [out EXCEPT ![p] = t]
            /\ Goto(p, "setMaxEnrollments")
            /\ UNCHANGED <<certs, snap, clients, history>>
      BY <1>2 DEF InsertUser
    <2>2. req[p].name \in AllUsers /\ req[p].attrs \in Attrs
      BY ConstantsAssumption
         DEF InsertUser, TypeInv, ControlOK, RegisterRequest, AllUsers
    <2>3. TableStep /\ HasRow(req[p].name, t)'
      <3>1. OneRowPerId => users[req[p].name] = {}
        BY <2>1 DEF InsertUser, InsertRefused, OneRowPerId, FreeInv
      <3>2. /\ TableStep
            /\ \E r \in users'[req[p].name] : r.pass = t
        BY <2>1, <2>2, <3>1, InsertStep DEF HasRow
      <3>3. UNCHANGED req
        BY <2>1 DEF Goto
      <3>4. QED
        BY <3>2, <3>3 DEF HasRow
    <2>4. /\ OthersWait(p) /\ UNCHANGED <<known, req>>
          /\ pc'[p] = "setMaxEnrollments" /\ out'[p] = t
      BY <2>1 DEF OthersWait, Goto, clients, TypeInv, TypeOK
    <2>5. SecretOf(p)' /\ LoginOf(p)'
      BY <2>3, <2>4 DEF SecretOf, LoginOf, HasRow
    <2>6. QED
      BY <2>3, <2>4, <2>5, KnownKept, SecretInvFromParts DEF TableStep
  <1>3. QED
    BY <1>1, <1>2

(* The row whose secret is about to be answered gets its limit.            *)
LEMMA SetMaxEnrollmentsSecret ==
    ASSUME TypeInv, SecretInv, NEW p \in Procs, SetMaxEnrollments(p)
    PROVE  SecretInv'
  <1>1. /\ pc[p] = "setMaxEnrollments" /\ out[p] \in Tokens
        /\ req[p].name \in AllUsers /\ HasRow(req[p].name, out[p])
    BY DEF SetMaxEnrollments, TypeInv, ControlOK, RegisterRequest, AllUsers,
           SecretInv, SecretOf
  <1>2. /\ TableStep
        /\ \E r \in users'[req[p].name] :
              r.pass = out[p] /\ r.max = MaxEnrollments
    BY <1>1, UpdateMaxStep DEF SetMaxEnrollments, HasLimitedRow
  <1>3. /\ OthersWait(p) /\ UNCHANGED <<known, req, out>>
        /\ pc'[p] = "respond"
    BY DEF SetMaxEnrollments, OthersWait, Goto, clients, TypeInv, TypeOK
  <1>4. SecretOf(p)' /\ LoginOf(p)'
    BY <1>2, <1>3 DEF SecretOf, LoginOf, HasLimitedRow
  <1>5. QED
    BY <1>2, <1>3, <1>4, KnownKept, SecretInvFromParts DEF TableStep

(* Disabling a user writes a count below every limit.                      *)
LEMMA DisableSecret ==
    ASSUME TypeInv, SecretInv, NEW p \in Procs, Disable(p)
    PROVE  SecretInv'
  <1>1. req[p].name \in AllUsers
    BY DEF Disable, TypeInv, ControlOK, RevokeNameRequest
  <1>2. -1 \in Int /\ (MaxEnrollments > 0 => -1 <= MaxEnrollments)
    BY ConstantsAssumption
  <1>3. TableStep
    BY <1>1, <1>2, UpdateStateStep DEF Disable
  <1>4. OthersWait(p) /\ UNCHANGED known /\ pc'[p] = "revokeCerts"
    BY DEF Disable, OthersWait, Goto, clients, TypeInv, TypeOK
  <1>5. SecretOf(p)' /\ LoginOf(p)'
    BY <1>4 DEF SecretOf, LoginOf
  <1>6. QED
    BY <1>3, <1>4, <1>5, KnownKept, SecretInvFromParts DEF TableStep

(* A client learns a secret whose row has its limit.                       *)
LEMMA RespondSecret ==
    ASSUME TypeInv, SecretInv, NEW p \in Procs, Respond(p)
    PROVE  SecretInv'
  <1>1. UNCHANGED users /\ known \subseteq known' /\ OthersWait(p)
    BY DEF Respond, Finish, OthersWait, tables, TypeInv, TypeOK
  <1>2. TableStep
    BY <1>1, SameTable
  <1>3. req[p].op = "register" =>
           /\ req[p].name \in AllUsers
           /\ HasLimitedRow(req[p].name, out[p])
    BY RequestKinds DEF Respond, TypeInv, ControlOK, SecretInv, SecretOf,
                        RegisterRequest, AllUsers
  <1>4. KnownLimited'
    BY <1>1, <1>3 DEF Respond, SecretInv, KnownLimited, HasLimitedRow
  <1>5. SecretOf(p)' /\ LoginOf(p)'
    BY DEF Respond, Finish, SecretOf, LoginOf, TypeInv, TypeOK
  <1>6. QED
    BY <1>1, <1>2, <1>4, <1>5, SecretInvFromParts

(* Going on to a statement that uses no secret. *)
LEMMA GotoSecret ==
    ASSUME TypeInv, SecretInv, NEW p \in Procs, NEW s, Goto(p, s),
           s \notin {"getUser", "login", "setMaxEnrollments"},
           s = "respond" => req[p] \notin RegisterRequest,
           UNCHANGED <<users, known, snap>>,
           \A q \in Procs \ {p} : out'[q] = out[q]
    PROVE  SecretInv'
  <1>1. OthersWait(p) /\ UNCHANGED req /\ pc'[p] = s
    BY DEF Goto, OthersWait, TypeInv, TypeOK
  <1>2. SecretOf(p)' /\ LoginOf(p)'
    BY <1>1 DEF SecretOf, LoginOf
  <1>3. QED
    BY <1>1, <1>2, QuietStep

(* The kinds of requests are disjoint. *)
LEMMA NotRegister ==
    ASSUME NEW r \in EnrollRequest \cup ReenrollRequest
                       \cup RevokeNameRequest \cup RevokeSerialRequest
    PROVE  r \notin RegisterRequest
  BY DEF EnrollRequest, ReenrollRequest, RegisterRequest,
         RevokeNameRequest, RevokeSerialRequest

(* The other statements fail or go on without touching a secret; the ones  *)
(* that go on to answer do not serve a registration.                       *)
LEMMA OtherStepsSecret ==
    ASSUME TypeInv, SecretInv, NEW p \in Procs,
           \/ VerifyToken(p) \/ Sign(p) \/ CanRegister(p) \/ CheckUser(p)
           \/ HasAttribute(p) \/ RevokeSerial(p) \/ RevokeGetUser(p)
           \/ RevokeCerts(p)
    PROVE  SecretInv'
  <1> USE DEF tables, clients, history
  <1>1. CASE Fail(p)
    BY <1>1, FailSecret
  <1>2. CASE VerifyToken(p) /\ ~Fail(p)
    <2>1. HandlerEntry(req[p]) \notin
             {"getUser", "login", "setMaxEnrollments", "respond"}
      BY DEF HandlerEntry
    <2>2. /\ Goto(p, HandlerEntry(req[p]))
          /\ UNCHANGED <<users, known, snap, out>>
      BY <1>2 DEF VerifyToken
    <2>3. QED
      BY <2>1, <2>2, GotoSecret
  <1>3. CASE Sign(p)
    <2>1. Goto(p, "respond") /\ UNCHANGED <<users, known, snap>>
      BY <1>3 DEF Sign
    <2>2. \A q \in Procs \ {p} : out'[q] = out[q]
      BY <1>3 DEF Sign, TypeInv, TypeOK
    <2>3. req[p] \notin RegisterRequest
      BY <1>3, NotRegister DEF Sign, TypeInv, ControlOK
    <2>4. QED
      BY <2>1, <2>2, <2>3, GotoSecret
  <1>4. CASE CanRegister(p) /\ ~Fail(p)
    <2>1. Goto(p, "checkUser") /\ UNCHANGED <<users, known, snap, out>>
      BY <1>4 DEF CanRegister
    <2>2. QED
      BY <2>1, GotoSecret
  <1>5. CASE CheckUser(p) /\ ~Fail(p)
    <2>1. Goto(p, "insertUser") /\ UNCHANGED <<users, known, snap, out>>
      BY <1>5 DEF CheckUser
    <2>2. QED
      BY <2>1, GotoSecret
  <1>6. CASE HasAttribute(p) /\ ~Fail(p)
    <2>1. /\ Goto(p, "revokeSerial") \/ Goto(p, "revokeGetUser")
          /\ UNCHANGED <<users, known, snap, out>>
      BY <1>6 DEF HasAttribute
    <2>2. QED
      BY <2>1, GotoSecret
  <1>7. CASE (RevokeSerial(p) /\ ~Fail(p)) \/ RevokeCerts(p)
    <2>1. Goto(p, "respond") /\ UNCHANGED <<users, known, snap, out>>
      BY <1>7 DEF RevokeSerial, RevokeCerts
    <2>2. req[p] \notin RegisterRequest
      BY <1>7, NotRegister DEF RevokeSerial, RevokeCerts, TypeInv, ControlOK
    <2>3. QED
      BY <2>1, <2>2, GotoSecret
  <1>8. CASE RevokeGetUser(p) /\ ~Fail(p)
    <2>1. Goto(p, "disable") /\ UNCHANGED <<users, known, snap, out>>
      BY <1>8 DEF RevokeGetUser
    <2>2. QED
      BY <2>1, GotoSecret
  <1>9. QED
    BY <1>1, <1>2, <1>3, <1>4, <1>5, <1>6, <1>7, <1>8

(* Every step of the server preserves the invariant. *)
LEMMA SecretInvStep ==
    TypeInv /\ SecretInv /\ FreeInv /\ [Next]_vars => SecretInv'
  <1> SUFFICES ASSUME TypeInv, SecretInv, FreeInv, [Next]_vars
               PROVE  SecretInv'
    OBVIOUS
  <1>1. CASE UNCHANGED vars
    <2>1. UNCHANGED <<users, known, pc, req, snap, out>>
      BY <1>1 DEF vars
    <2>2. DistinctSecrets' /\ SingleRow' /\ CounterWithinLimit'
      BY <2>1 DEF SecretInv, DistinctSecrets, SingleRow, CounterWithinLimit
    <2>3. KnownLimited'
      BY <2>1 DEF SecretInv, KnownLimited, HasLimitedRow
    <2>4. ASSUME NEW p \in Procs
          PROVE  SecretOf(p)'
      BY <2>1 DEF SecretInv, SecretOf, HasRow, HasLimitedRow
    <2>5. ASSUME NEW p \in Procs
          PROVE  LoginOf(p)'
      BY <2>1 DEF SecretInv, LoginOf
    <2>6. QED
      BY <2>2, <2>3, <2>4, <2>5 DEF SecretInv
  <1>2. ASSUME NEW p \in Procs, Receive(p) \/ Step(p) \/ Abort(p)
        PROVE  SecretInv'
    BY <1>2, ReceiveSecret, GetUserSecret, LoginSecret, InsertUserSecret,
       SetMaxEnrollmentsSecret, DisableSecret, RespondSecret,
       OtherStepsSecret, FailSecret
       DEF Step, Abort
  <1>3. QED
    BY <1>1, <1>2 DEF Next, Quiescent

(* The invariant holds in every reachable state. *)
LEMMA SecretInvariant == Spec => []SecretInv
  BY ControlCorrect, FreeInvariant, SecretInvInit, SecretInvStep, PTL DEF Spec

-----------------------------------------------------------------------------
(* A row is inserted without a limit, but by the time registerUserID       *)
(* answers, and ever after, the secret it drew has the configured limit.   *)
THEOREM LimitBeforeUse == Spec => []LimitSetBeforeUse
  <1>1. TypeInv /\ SecretInv => LimitSetBeforeUse
    <2> SUFFICES ASSUME TypeInv, SecretInv, NEW u \in AllUsers,
                        NEW row \in users[u], <<u, row.pass>> \in known
                 PROVE  row.max = MaxEnrollments
      BY DEF LimitSetBeforeUse
    <2>1. row.pass \in Tokens
      BY DEF TypeInv, TypeOK, UserRecord
    <2>2. HasLimitedRow(u, row.pass)
      BY <2>1 DEF SecretInv, KnownLimited
    <2>3. QED
      BY <2>2 DEF HasLimitedRow, SecretInv, DistinctSecrets
  <1>2. QED
    BY <1>1, ControlCorrect, SecretInvariant, PTL

(* However many logins, registrations and revocations overlap, Login never *)
(* writes a count above the configured limit.                              *)
THEOREM CounterBounded == Spec => []CounterWithinLimit
  <1>1. SecretInv => CounterWithinLimit
    BY DEF SecretInv
  <1>2. QED
    BY <1>1, SecretInvariant, PTL

(* When users.id is a primary key, registerUserID answers one registration *)
(* of an id at most, although it tests for the id in an earlier statement. *)
(* Without the key it does so when requests are served one at a time and   *)
(* no statement fails.                                                     *)
THEOREM RegistersOnce ==
    ASSUME OneRowPerId
    PROVE  Spec => []RegisteredOnce
  <1>1. TypeInv /\ SecretInv => RegisteredOnce
    <2> SUFFICES ASSUME TypeInv, SecretInv, NEW x \in known, NEW y \in known,
                        x[1] = y[1]
                 PROVE  x = y
      BY DEF RegisteredOnce
    <2>1. PICK u \in AllUsers, s \in Tokens, t \in Tokens :
             x = <<u, s>> /\ y = <<u, t>>
      BY DEF TypeInv, TypeOK
    <2>2. HasLimitedRow(u, s) /\ HasLimitedRow(u, t)
      BY <2>1 DEF SecretInv, KnownLimited
    <2>3. s = t
      BY <2>2, OneRowPerId DEF HasLimitedRow, SecretInv, SingleRow
    <2>4. QED
      BY <2>1, <2>3
  <1>2. QED
    BY <1>1, ControlCorrect, SecretInvariant, PTL
=============================================================================

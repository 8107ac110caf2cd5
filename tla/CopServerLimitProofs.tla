------------------------ MODULE CopServerLimitProofs ------------------------
(***************************************************************************)
(* When the limit on enrollments is exact.  Login increments a count that  *)
(* it read in an earlier statement, and the limit can be passed when       *)
(* logins overlap.  For users that are not disabled it is kept in two      *)
(* cases: requests are served one at a time, or the database is MySQL and  *)
(* the limit is one enrollment.  In the second case it is the number of    *)
(* affected rows that stops the late login: it writes the value that is    *)
(* there already.                                                          *)
(***************************************************************************)
EXTENDS CopServerProofs, FiniteSetTheorems

(* Zenon is tried first: most leaves are first-order, and to encode one    *)
(* for SMT takes long when its context is.                                 *)
USE ZenonT(3), SMTT(20), SMTT(30), ZenonT(20)

SingleUse == MySQL /\ MaxEnrollments = 1

(* The row that a login has read. *)
LoginFresh(p) ==
    pc[p] = "login" =>
        /\ Serialized => snap[p] \in users[req[p].login]
        /\ SingleUse /\ req[p].login \notin disabled => snap[p].state >= 0

(* The count in the only row of a user is the number of logins, also       *)
(* before the row gets its limit.  A user with several rows, which no      *)
(* login succeeds for, has not passed the limit before it got them.        *)
CountOf(u) ==
    u \notin disabled =>
        /\ users[u] = {} => logins[u] = 0
        /\ \A r \in users[u] :
              /\ r.max = 0 \/ r.max = MaxEnrollments
              /\ users[u] = {r} /\ r.max >= 0 => r.state = logins[u]
        /\ MaxEnrollments > 0 => logins[u] <= MaxEnrollments

CountInv ==
    /\ \A p \in Procs : LoginFresh(p)
    /\ \A u \in AllUsers : CountOf(u)

-----------------------------------------------------------------------------
(* The bootstrap user has logged in once. *)
LEMMA CountInvInit == Init => CountInv
  <1> SUFFICES ASSUME Init
               PROVE  CountInv
    OBVIOUS
  <1>1. \A p \in Procs : LoginFresh(p)
    BY DEF Init, LoginFresh
  <1>2. \A u \in AllUsers : users[u] = {} => logins[u] = 0
    BY DEF Init
  <1>3. \A u \in AllUsers : \A r \in users[u] :
          /\ r.max = 0 \/ r.max = MaxEnrollments
          /\ r.max >= 0 => r.state = logins[u]
    BY ConstantsAssumption DEF Init
  <1>4. \A u \in AllUsers : MaxEnrollments > 0 => logins[u] <= MaxEnrollments
    BY ConstantsAssumption DEF Init
  <1>5. QED
    BY <1>1, <1>2, <1>3, <1>4 DEF CountInv, CountOf

(* A step that changes neither a row nor a count.                          *)
LEMMA SameCounts ==
    ASSUME CountInv, UNCHANGED <<users, logins, disabled>>
    PROVE  \A u \in AllUsers : CountOf(u)'
  BY DEF CountInv, CountOf

(* The login in progress is the only request when requests are served one  *)
(* at a time; otherwise what it has read does not change.                  *)
LEMMA FreshKept ==
    ASSUME TypeInv, CountInv, NEW p \in Procs, pc'[p] # "login",
           disabled \subseteq disabled',
           \A q \in Procs \ {p} :
              pc'[q] = pc[q] /\ req'[q] = req[q] /\ snap'[q] = snap[q]
    PROVE  \A q \in Procs : LoginFresh(q)'
  <1>1. LoginFresh(p)'
    BY DEF LoginFresh
  <1>2. ASSUME NEW q \in Procs \ {p}
        PROVE  LoginFresh(q)'
    <2>1. ~Serialized
      BY DEF Serialized
    <2>2. QED
      BY <2>1 DEF CountInv, LoginFresh
  <1>3. QED
    BY <1>1, <1>2

(* A step that writes no row and counts no login. *)
LEMMA QuietCount ==
    ASSUME TypeInv, CountInv, NEW p \in Procs,
           UNCHANGED <<users, logins, disabled>>, pc'[p] # "login", OthersWait(p)
    PROVE  CountInv'
  <1>1. \A q \in Procs : LoginFresh(q)'
    BY FreshKept DEF OthersWait
  <1>2. QED
    BY <1>1, SameCounts DEF CountInv

(* The end of a request. *)
LEMMA FinishWaits ==
    ASSUME TypeInv, NEW p \in Procs, Finish(p)
    PROVE  OthersWait(p) /\ pc'[p] # "login"
  BY DEF Finish, OthersWait, TypeInv, TypeOK

(* No request starts with Login. *)
LEMMA ReceiveCount ==
    ASSUME TypeInv, CountInv, NEW p \in Procs, Receive(p)
    PROVE  CountInv'
  <1>1. /\ UNCHANGED <<users, logins, disabled>> /\ OthersWait(p)
        /\ pc[p] = "idle"
    BY DEF Receive, tables, history, OthersWait, TypeInv, TypeOK
  <1>2. \A r : AuthEntry(r) # "login"
    BY DEF AuthEntry, HandlerEntry
  <1>3. pc'[p] # "login"
    BY <1>1, <1>2 DEF Receive, TypeInv, TypeOK
  <1>4. QED
    BY <1>1, <1>3, QuietCount

(* GetUser reads a row as it is. *)
LEMMA GetUserCount ==
    ASSUME TypeInv, SecretInv, CountInv, NEW p \in Procs, GetUser(p)
    PROVE  CountInv'
  <1>1. CASE Fail(p)
    BY <1>1, FinishWaits, QuietCount DEF Fail, tables, history
  <1>2. CASE ~Fail(p)
    <2> PICK u \in users[req[p].login] :
           /\ snap' = [snap EXCEPT ![p] = u]
           /\ Goto(p, "login")
           /\ UNCHANGED <<tables, out, clients, history>>
      BY <1>2 DEF GetUser
    <2>1. /\ UNCHANGED <<users, logins, disabled, req>> /\ OthersWait(p)
          /\ snap'[p] = u /\ pc[p] = "getUser" /\ req[p].login \in AllUsers
      BY DEF GetUser, Goto, OthersWait, tables, history, TypeInv, TypeOK,
             ControlOK, EnrollRequest
    <2>2. ASSUME SingleUse, req[p].login \notin disabled
          PROVE  u.state >= 0
      <3>1. users[req[p].login] = {u}
        BY <2>1, <2>2 DEF SingleUse, OneRowPerId, SecretInv, SingleRow
      <3>2. u.max >= 0 /\ u.state = logins[req[p].login]
        BY <2>1, <2>2, <3>1 DEF SingleUse, CountInv, CountOf
      <3>3. QED
        BY <2>1, <3>2 DEF TypeInv, TypeOK
    <2>3. LoginFresh(p)'
      BY <2>1, <2>2 DEF LoginFresh
    <2>4. \A q \in Procs \ {p} : LoginFresh(q)'
      BY <2>1 DEF CountInv, LoginFresh, OthersWait
    <2>5. QED
      BY <2>1, <2>3, <2>4, SameCounts DEF CountInv
  <1>3. QED
    BY <1>1, <1>2

(* The first row of an id is inserted before any login of the id, and a    *)
(* second one leaves the id with several.                                  *)
LEMMA InsertUserCount ==
    ASSUME TypeInv, CountInv, NEW p \in Procs, InsertUser(p)
    PROVE  CountInv'
  <1>1. CASE Fail(p)
    BY <1>1, FinishWaits, QuietCount DEF Fail, tables, history
  <1>2. CASE ~Fail(p)
    <2> DEFINE name == req[p].name
    <2> PICK t \in Tokens :
           /\ ~InUse(t)
           /\ users' = [users EXCEPT
                 ![name] = @ \cup {NewUserRecord(t, req[p].attrs)}]
           /\ out' = [out EXCEPT ![p] = t]
           /\ Goto(p, "setMaxEnrollments")
           /\ UNCHANGED <<certs, snap, clients, history>>
      BY <1>2 DEF InsertUser
    <2>1. /\ UNCHANGED <<logins, disabled, req, snap>> /\ OthersWait(p)
          /\ pc'[p] # "login" /\ name \in AllUsers
      <3>1. UNCHANGED <<logins, disabled, req, snap>>
        BY DEF Goto, history
      <3>2. OthersWait(p) /\ pc'[p] # "login"
        BY DEF Goto, OthersWait, TypeInv, TypeOK
      <3>3. req[p] \in RegisterRequest
        BY DEF InsertUser, TypeInv, ControlOK
      <3>4. name \in AllUsers
        BY <3>3 DEF RegisterRequest, AllUsers
      <3>5. QED
        BY <3>1, <3>2, <3>4
    <2> DEFINE row == NewUserRecord(t, req[p].attrs)
    <2>2. /\ users'[name] = users[name] \cup {row}
          /\ \A u \in AllUsers \ {name} : users'[u] = users[u]
      BY <2>1 DEF TypeInv, TypeOK
    <2>3. row.pass = t /\ row.state = 0 /\ row.max = 0
      BY DEF NewUserRecord
    <2>4. ASSUME NEW r \in users'[name], users'[name] = {r}
          PROVE  r = row /\ users[name] = {}
      <3>1. r = row
        BY <2>2, <2>4
      <3>2. \A q \in users[name] : q.pass # t
        BY <2>1 DEF InUse
      <3>3. QED
        BY <2>2, <2>3, <2>4, <3>1, <3>2
    <2>5. CountOf(name)'
      <3>1. CountOf(name)
        BY <2>1 DEF CountInv
      <3>2. \A r \in users'[name] : r \in users[name] \/ r = row
        BY <2>2
      <3>3. users'[name] # {}
        BY <2>2
      <3>4. QED
        BY <2>1, <2>3, <2>4, <3>1, <3>2, <3>3 DEF CountOf
    <2>6. \A u \in AllUsers : CountOf(u)'
      BY <2>1, <2>2, <2>5 DEF CountInv, CountOf
    <2>7. \A q \in Procs : LoginFresh(q)'
      BY <2>1, FreshKept DEF OthersWait
    <2>8. QED
      BY <2>6, <2>7 DEF CountInv
  <1>3. QED
    BY <1>1, <1>2

(* When an UPDATE leaves one row of an id there was one before. *)
LEMMA OneRowBefore ==
    ASSUME SecretInv, NEW name \in AllUsers, NEW r \in users[name], NEW q,
           \A x \in users[name] : x.pass = q.pass
    PROVE  users[name] = {r}
  BY DEF SecretInv, DistinctSecrets

(* Setting the limit leaves the count as it is. *)
LEMMA SetMaxEnrollmentsCount ==
    ASSUME TypeInv, SecretInv, CountInv, NEW p \in Procs, SetMaxEnrollments(p)
    PROVE  CountInv'
  <1> DEFINE name == req[p].name
  <1>1. /\ UNCHANGED <<logins, disabled, req, snap>> /\ OthersWait(p)
        /\ pc'[p] # "login" /\ name \in AllUsers
        /\ users'[name] = UpdateMaxEnrollments(users[name], MaxEnrollments)
        /\ \A u \in AllUsers \ {name} : users'[u] = users[u]
        /\ users[name] \subseteq UserRecord
    BY DEF SetMaxEnrollments, Goto, OthersWait, history, TypeInv, TypeOK,
           ControlOK, RegisterRequest, AllUsers
  <1>2. \A r \in users[name] :
          /\ WithMax(r, MaxEnrollments) \in users'[name]
          /\ WithMax(r, MaxEnrollments).max = MaxEnrollments
          /\ WithMax(r, MaxEnrollments).state = r.state
          /\ WithMax(r, MaxEnrollments).pass = r.pass
    BY <1>1, WithMaxFields, UpdateRows, ConstantsAssumption
  <1>3. \A q \in users'[name] :
           \E r \in users[name] : q = WithMax(r, MaxEnrollments)
    BY <1>1, UpdateRows
  <1>4. CountOf(name)'
    <2> SUFFICES ASSUME name \notin disabled
                 PROVE  CountOf(name)'
      BY <1>1 DEF CountOf
    <2>1. CountOf(name)
      BY <1>1 DEF CountInv
    <2>2. users'[name] = {} => logins'[name] = 0
      BY <1>1, <1>2, <2>1 DEF CountOf
    <2>3. ASSUME NEW q \in users'[name]
          PROVE  /\ q.max = MaxEnrollments
                 /\ users'[name] = {q} /\ q.max >= 0 => q.state = logins'[name]
      <3>1. PICK r \in users[name] : q = WithMax(r, MaxEnrollments)
        BY <1>3, <2>3
      <3>2. q.max = MaxEnrollments /\ q.state = r.state
        BY <1>2, <3>1
      <3>3. ASSUME users'[name] = {q}, q.max >= 0
            PROVE  q.state = logins'[name]
        <4>1. \A x \in users[name] : x.pass = q.pass
          BY <1>2, <3>3
        <4>2. users[name] = {r}
          BY <1>1, <4>1, OneRowBefore
        <4>3. r.max >= 0
          BY <2>1, <3>2, <3>3 DEF CountOf
        <4>4. QED
          BY <1>1, <2>1, <3>2, <4>2, <4>3 DEF CountOf
      <3>4. QED
        BY <3>2, <3>3
    <2>4. QED
      BY <1>1, <2>1, <2>2, <2>3 DEF CountOf
  <1>5. \A u \in AllUsers : CountOf(u)'
    BY <1>1, <1>4 DEF CountInv, CountOf
  <1>6. \A q \in Procs : LoginFresh(q)'
    BY <1>1, FreshKept DEF OthersWait
  <1>7. QED
    BY <1>5, <1>6 DEF CountInv

(* A login that succeeds adds one to the count and to the row.  When the   *)
(* limit is one and another login came first, the row holds one already    *)
(* and no row is affected.                                                 *)
LEMMA LoginCount ==
    ASSUME LimitReliable,
           TypeInv, SecretInv, CountInv, NEW p \in Procs, Login(p)
    PROVE  CountInv'
  <1>0. /\ pc[p] = "login" /\ req[p] \in EnrollRequest
        /\ req[p].login \in AllUsers
    BY DEF Login, TypeInv, ControlOK, EnrollRequest
  <1> PICK name \in AllUsers : name = req[p].login
    BY <1>0
  <1> DEFINE u == snap[p]
             val == u.state + 1
             pass == u.pass = req[p].pass /\ ~LimitReached(u)
             one == OneRowAffected(users[name], val, MySQL)
  <1>1. /\ u \in UserRecord /\ u.state \in Int /\ u.max \in Int /\ val \in Int
        /\ logins[name] \in Nat /\ users[name] \subseteq UserRecord
    BY <1>0 DEF TypeInv, TypeOK, ControlOK, UserRecord
  <1>2. HandlerEntry(req[p]) = "sign"
    BY <1>0, HandlerEntryCases DEF Request
  <1>3. /\ OthersWait(p) /\ pc'[p] # "login" /\ UNCHANGED disabled
        /\ \A v \in AllUsers \ {name} :
              users'[v] = users[v] /\ logins'[v] = logins[v]
    <2>1. OthersWait(p) /\ UNCHANGED disabled
      BY DEF Login, Goto, Finish, OthersWait, TypeInv, TypeOK
    <2>2. pc'[p] # "login"
      BY <1>2 DEF Login, Goto, Finish, TypeInv, TypeOK
    <2>3. \A v \in AllUsers \ {name} :
             users'[v] = users[v] /\ logins'[v] = logins[v]
      BY DEF Login, TypeInv, TypeOK
    <2>4. QED
      BY <2>1, <2>2, <2>3
  <1>4. CountOf(name)
    BY <1>1 DEF CountInv, CountOf
  <1>5. Serialized \/ SingleUse
    BY LimitReliable DEF LimitReliable, SingleUse
  <1>6. CountOf(name)'
    <2> SUFFICES ASSUME name \notin disabled
                 PROVE  CountOf(name)'
      BY <1>3 DEF CountOf
    <2>1. CASE ~pass
      BY <1>4, <2>1 DEF Login, CountOf
    <2>2. CASE pass /\ ~LoginCounted(u)
      <3>1. users' = users /\ logins'[name] = logins[name] + 1
        BY <1>1, <2>2 DEF Login, TypeInv, TypeOK
      <3>2. u.max = MaxEnrollments /\ ~(u.max >= 0)
        BY <1>0, <2>2 DEF SecretInv, LoginOf, LoginCounted
      <3>3. u \in users[name]
        BY <1>0, <1>1, <1>5, <3>2 DEF SingleUse, CountInv, LoginFresh
      <3>4. ~(MaxEnrollments > 0)
        BY <3>2, ConstantsAssumption
      <3>5. QED
        BY <1>3, <1>4, <3>1, <3>2, <3>3, <3>4 DEF CountOf
    <2>3. CASE pass /\ LoginCounted(u)
      <3>1. users'[name] = UpdateState(users[name], val)
        BY <1>1, <2>3 DEF Login, TypeInv, TypeOK
      <3>2. \A r \in users[name] :
              /\ WithState(r, val) \in users'[name]
              /\ WithState(r, val).max = r.max
              /\ WithState(r, val).state = val
              /\ WithState(r, val).pass = r.pass
        BY <1>1, <3>1, WithStateFields, UpdateRows
      <3>3. \A q \in users'[name] : \E r \in users[name] : q = WithState(r, val)
        BY <3>1, UpdateRows
      <3>4. logins'[name] = IF one THEN logins[name] + 1 ELSE logins[name]
        BY <1>1, <2>3 DEF Login, TypeInv, TypeOK
      <3>5. ASSUME NEW r \in users[name], users[name] = {r}, r.max >= 0
            PROVE  val = logins'[name]
        <4>1. r.state = logins[name] /\ r.state \in Int
          BY <1>1, <1>4, <3>5 DEF CountOf
        <4>2. {q \in users[name] : MySQL => q.state # val} =
                 IF MySQL => r.state # val THEN {r} ELSE {}
          BY <3>5
        <4>3. one <=> (MySQL => r.state # val)
          BY <3>5, <4>2 DEF OneRowAffected
        <4>4. CASE Serialized
          <5>1. u = r
            BY <1>0, <3>5, <4>4 DEF CountInv, LoginFresh
          <5>2. val = r.state + 1 /\ r.state # val
            BY <1>1, <4>1, <5>1
          <5>3. one
            BY <4>3, <5>2
          <5>4. QED
            BY <3>4, <4>1, <5>2, <5>3
        <4>5. CASE SingleUse
          <5>1. u.max = 1
            BY <1>0, <2>3, <4>5 DEF SecretInv, LoginOf, SingleUse
          <5>2. u.state = 0
            <6>1. u.state >= 0
              BY <1>0, <4>5 DEF CountInv, LoginFresh
            <6>2. ~(u.state >= 1)
              BY <2>3, <5>1 DEF LimitReached
            <6>3. QED
              BY <1>1, <6>1, <6>2
          <5>3. r.state = 0 \/ r.state = 1
            BY <1>1, <3>5, <4>1, <4>5
               DEF SingleUse, SecretInv, CounterWithinLimit
          <5>4. val = 1
            BY <5>2
          <5>5. CASE r.state = 0
            <6>1. r.state # val
              BY <5>4, <5>5
            <6>2. one
              BY <4>3, <6>1, Zenon
            <6>3. QED
              BY <3>4, <4>1, <5>4, <5>5, <6>2
          <5>6. CASE r.state = 1
            <6>1. ~one
              BY <4>3, <4>5, <5>4, <5>6 DEF SingleUse
            <6>2. QED
              BY <3>4, <4>1, <5>4, <5>6, <6>1
          <5>7. QED
            BY <5>3, <5>5, <5>6
        <4>6. QED
          BY <1>5, <4>4, <4>5
      <3>6. one => users[name] # {}
        BY DEF OneRowAffected
      <3>7. ASSUME MaxEnrollments > 0
            PROVE  logins'[name] <= MaxEnrollments
        <4>1. CASE ~one
          BY <1>4, <3>4, <3>7, <4>1 DEF CountOf
        <4>2. CASE one
          <5>1. PICK r \in users[name] : users[name] = {r}
            <6>1. CASE MySQL
              BY <3>6, <4>2, <6>1 DEF SecretInv, SingleRow, OneRowPerId
            <6>2. CASE ~MySQL
              BY <4>2, <6>2 DEF OneRowAffected
            <6>3. QED
              BY <6>1, <6>2
          <5>2. r.max >= 0
            BY <1>4, <3>7, ConstantsAssumption DEF CountOf
          <5>3. val = logins'[name]
            BY <3>5, <5>1, <5>2
          <5>4. u.max = MaxEnrollments
            BY <1>0, <2>3 DEF SecretInv, LoginOf
          <5>5. ~(u.state >= MaxEnrollments)
            BY <2>3, <3>7, <5>4 DEF LimitReached
          <5>6. QED
            BY <1>1, <5>3, <5>5, ConstantsAssumption
        <4>3. QED
          BY <4>1, <4>2
      <3>8. QED
        <4>1. users'[name] = {} => logins'[name] = 0
          BY <1>4, <3>2, <3>4, <3>6 DEF CountOf
        <4>2. ASSUME NEW q \in users'[name]
              PROVE  /\ q.max = 0 \/ q.max = MaxEnrollments
                     /\ users'[name] = {q} /\ q.max >= 0 =>
                           q.state = logins'[name]
          <5>1. PICK r \in users[name] : q = WithState(r, val)
            BY <3>3, <4>2
          <5>2. q.max = r.max /\ q.state = val
            BY <3>2, <5>1
          <5>3. ASSUME users'[name] = {q}
                PROVE  users[name] = {r}
            <6>1. \A x \in users[name] : x.pass = q.pass
              BY <3>2, <5>3
            <6>2. QED
              BY <1>1, <6>1, OneRowBefore
          <5>4. QED
            BY <1>4, <3>5, <5>2, <5>3 DEF CountOf
        <4>3. QED
          BY <3>7, <4>1, <4>2 DEF CountOf
    <2>4. QED
      BY <2>1, <2>2, <2>3
  <1>7. \A v \in AllUsers : CountOf(v)'
    BY <1>3, <1>6 DEF CountInv, CountOf
  <1>8. \A q \in Procs : LoginFresh(q)'
    BY <1>3, FreshKept DEF OthersWait
  <1>9. QED
    BY <1>7, <1>8 DEF CountInv

(* The rows of a disabled user are no longer spoken of. *)
LEMMA DisableCount ==
    ASSUME TypeInv, CountInv, NEW p \in Procs, Disable(p)
    PROVE  CountInv'
  <1>1. /\ OthersWait(p) /\ pc'[p] # "login" /\ UNCHANGED logins
        /\ disabled' = disabled \cup {req[p].name}
        /\ \A u \in AllUsers \ {req[p].name} : users'[u] = users[u]
    BY DEF Disable, Goto, OthersWait, TypeInv, TypeOK
  <1>2. \A u \in AllUsers : CountOf(u)'
    BY <1>1 DEF CountInv, CountOf
  <1>3. \A q \in Procs : LoginFresh(q)'
    BY <1>1, FreshKept DEF OthersWait
  <1>4. QED
    BY <1>2, <1>3 DEF CountInv

(* The other statements write no row of users. *)
LEMMA OtherStepsCount ==
    ASSUME TypeInv, CountInv, NEW p \in Procs,
           \/ VerifyToken(p) \/ Sign(p) \/ CanRegister(p) \/ CheckUser(p)
           \/ HasAttribute(p) \/ RevokeSerial(p) \/ RevokeGetUser(p)
           \/ RevokeCerts(p) \/ Respond(p) \/ Abort(p)
    PROVE  CountInv'
  <1>1. \A r : HandlerEntry(r) # "login"
    BY DEF HandlerEntry
  <1>2. UNCHANGED <<users, logins, disabled>>
    BY DEF VerifyToken, Sign, CanRegister, CheckUser, HasAttribute,
           RevokeSerial, RevokeGetUser, RevokeCerts, Respond, Abort, Fail,
           tables, history
  <1>3. CASE Finish(p)
    BY <1>2, <1>3, FinishWaits, QuietCount
  <1>4. CASE ~Finish(p)
    <2>1. /\ \E s : s # "login" /\ Goto(p, s)
          /\ UNCHANGED snap
      BY <1>1, <1>4
         DEF VerifyToken, Sign, CanRegister, CheckUser, HasAttribute,
             RevokeSerial, RevokeGetUser, RevokeCerts, Respond, Abort, Fail
    <2>2. \A q \in Procs \ {p} : out'[q] = out[q]
      BY <1>4
         DEF VerifyToken, Sign, CanRegister, CheckUser, HasAttribute,
             RevokeSerial, RevokeGetUser, RevokeCerts, Respond, Abort, Fail,
             TypeInv, TypeOK
    <2>3. OthersWait(p) /\ pc'[p] # "login"
      BY <2>1, <2>2 DEF Goto, OthersWait, TypeInv, TypeOK
    <2>4. QED
      BY <1>2, <2>3, QuietCount
  <1>5. QED
    BY <1>3, <1>4

(* Every step preserves the invariant. *)
LEMMA CountInvStep ==
    ASSUME LimitReliable
    PROVE  TypeInv /\ SecretInv /\ CountInv /\ [Next]_vars => CountInv'
  <1> SUFFICES ASSUME TypeInv, SecretInv, CountInv, [Next]_vars
               PROVE  CountInv'
    OBVIOUS
  <1>1. CASE UNCHANGED vars
    BY <1>1 DEF vars, CountInv, CountOf, LoginFresh
  <1>2. ASSUME NEW p \in Procs, Receive(p) \/ Step(p) \/ Abort(p)
        PROVE  CountInv'
    BY <1>2, ReceiveCount, GetUserCount, LoginCount, InsertUserCount,
       SetMaxEnrollmentsCount, DisableCount, OtherStepsCount, LimitReliable
       DEF Step
  <1>3. QED
    BY <1>1, <1>2 DEF Next, Quiescent

(* The invariant holds in every reachable state. *)
LEMMA CountInvariant ==
    ASSUME LimitReliable
    PROVE  Spec => []CountInv
  BY ControlCorrect, SecretInvariant, CountInvInit, CountInvStep,
     LimitReliable, PTL DEF Spec

(* The state column of a user that is not disabled is the number of its    *)
(* logins, if an id has one row, and requests are served one at a time or  *)
(* the database is MySQL and the limit is one enrollment.                  *)
THEOREM StateIsLoginCount ==
    ASSUME OneRowPerId, LimitReliable
    PROVE  Spec => []StateCountsLogins
  <1>1. SecretInv /\ CountInv => StateCountsLogins
    <2> SUFFICES ASSUME SecretInv, CountInv, NEW u \in AllUsers \ disabled,
                        NEW row \in users[u], row.max >= 0
                 PROVE  row.state = logins[u]
      BY DEF StateCountsLogins
    <2>1. users[u] = {row}
      BY OneRowPerId DEF SecretInv, SingleRow
    <2>2. QED
      BY <2>1 DEF CountInv, CountOf
  <1>2. QED
    BY <1>1, CountInvariant, SecretInvariant, LimitReliable, PTL

(* No user that is not disabled logs in more often than the configured     *)
(* limit allows, if requests are served one at a time, on any database and *)
(* whatever fails, or if the database is MySQL and the limit is one        *)
(* enrollment.                                                             *)
THEOREM LimitIsExact ==
    ASSUME LimitReliable
    PROVE  Spec => []EnrollLimit
  <1>1. CountInv => EnrollLimit
    BY DEF CountInv, CountOf, EnrollLimit
  <1>2. QED
    BY <1>1, CountInvariant, LimitReliable, PTL

-----------------------------------------------------------------------------
(***************************************************************************)
(* The server implements the service of CopEnrollment.  Beside the         *)
(* invariants above this needs to know which enroll requests are signed    *)
(* without a login.                                                        *)
(***************************************************************************)
LoggedInToSign ==
    \A p \in Procs :
        LoginRequired /\ pc[p] = "sign" /\ req[p] \in EnrollRequest =>
            req[p].login # None

(* What a request does to the enrollments that are logged in. *)
Quiet(p) ==
    \A q \in Procs \ {p} : pc'[q] = pc[q] /\ req'[q] = req[q]

Signing(p) == pc[p] = "sign" /\ Payer(req[p]) # None

(* The logins that wait for a certificate stay as they are. *)
LEMMA SameSessions ==
    ASSUME NEW p \in Procs, Quiet(p), ~Signing(p), ~Signing(p)'
    PROVE  LoggedIn' = LoggedIn
  BY DEF Quiet, Signing, LoggedIn

(* One request begins or ends to wait for its certificate. *)
LEMMA SessionChanged ==
    ASSUME NEW p \in Procs, Quiet(p)
    PROVE  LoggedIn' = [LoggedIn EXCEPT ![p] =
                           IF Signing(p)' THEN Payer(req'[p]) ELSE None]
  BY DEF Quiet, Signing, LoggedIn

(* What a request that waits for a certificate, or does not, maps to. *)
LEMMA SessionNow ==
    ASSUME NEW p \in Procs
    PROVE  LoggedIn[p] = IF Signing(p) THEN Payer(req[p]) ELSE None
  BY DEF Signing, LoggedIn

Hidden == UNCHANGED <<known, logins, certs, enrolled, disabled>>

(* Steps between the ones the service can see. *)
LEMMA HiddenStep ==
    ASSUME NEW p \in Procs, Quiet(p), ~Signing(p), ~Signing(p)', Hidden
    PROVE  UNCHANGED Enrollment!vars
  BY SameSessions DEF Hidden, Enrollment!vars

(* A request that ends without an answer may lose its login. *)
LEMMA FailLoses ==
    ASSUME TypeInv, NEW p \in Procs, Finish(p), Hidden
    PROVE  [Enrollment!Next]_(Enrollment!vars)
  <1>1. Quiet(p) /\ ~Signing(p)'
    BY DEF Finish, Quiet, Signing, TypeInv, TypeOK
  <1>2. CASE ~Signing(p)
    BY <1>1, <1>2, HiddenStep
  <1>3. CASE Signing(p)
    <2>1. Enrollment!Lose(p)
      BY <1>1, <1>3, SessionNow, SessionChanged
         DEF Enrollment!Lose, Hidden, Signing
    <2>2. QED
      BY <2>1 DEF Enrollment!Next
  <1>4. QED
    BY <1>2, <1>3

(* An enroll request that names a user is not signed without a login. *)
LEMMA ReceiveSigns ==
    ASSUME TypeInv, NEW p \in Procs, Receive(p)
    PROVE  Quiet(p) /\ ~Signing(p) /\ ~Signing(p)'
  <1>1. Quiet(p) /\ ~Signing(p)
    BY DEF Receive, Quiet, Signing, TypeInv, TypeOK
  <1>2. CASE UNCHANGED <<pc, req>>
    BY <1>1, <1>2 DEF Signing
  <1>3. CASE ~UNCHANGED <<pc, req>>
    <2> PICK r \in Request :
           /\ ClientSends(r)
           /\ pc' = [pc EXCEPT ![p] = AuthEntry(r)]
           /\ req' = [req EXCEPT ![p] = r]
      BY <1>3 DEF Receive
    <2>1. Payer(r) # None => AuthEntry(r) # "sign"
      <3>1. Payer(r) # None => Authentication /\ r.op = "enroll" /\ r.hdr = "basic"
        BY DEF ClientSends, Payer
      <3>2. QED
        BY <3>1 DEF AuthEntry
    <2>2. pc'[p] = AuthEntry(r) /\ req'[p] = r
      BY DEF TypeInv, TypeOK
    <2>3. QED
      BY <1>1, <2>1, <2>2 DEF Signing
  <1>4. QED
    BY <1>1, <1>2, <1>3

(* The arrival of a request is not seen by the service. *)
LEMMA ReceiveImplements ==
    ASSUME TypeInv, NEW p \in Procs, Receive(p)
    PROVE  UNCHANGED Enrollment!vars
  <1>1. Hidden
    BY DEF Receive, Hidden, tables, history
  <1>2. QED
    BY <1>1, ReceiveSigns, HiddenStep

(* A login that passes is within the limit, because the count after it is. *)
LEMMA LoginImplements ==
    ASSUME TypeInv, SecretInv, LimitReliable => EnrollLimit',
           NEW p \in Procs, Login(p)
    PROVE  [Enrollment!Next]_(Enrollment!vars)
  <1> DEFINE name == req[p].login
  <1>1. /\ pc[p] = "login" /\ name \in AllUsers /\ req[p] \in EnrollRequest
        /\ snap[p].pass \in Tokens /\ Payer(req[p]) = name /\ name # None
    BY ConstantsAssumption
       DEF Login, TypeInv, ControlOK, EnrollRequest, UserRecord, Payer
  <1>2. CASE Finish(p)
    <2>1. logins' = logins
      BY <1>1, <1>2, HandlerEntryCases
         DEF Login, Finish, Goto, TypeInv, TypeOK, Request
    <2>2. QED
      BY <1>2, <2>1, FailLoses DEF Login, Hidden, clients
  <1>3. CASE ~Finish(p)
    <2>1. /\ snap[p].pass = req[p].pass
          /\ logins' = [logins EXCEPT ![name] = @ + 1]
          /\ Goto(p, HandlerEntry(req[p]))
          /\ UNCHANGED <<certs, known, enrolled, disabled>>
      BY <1>3 DEF Login, clients
    <2>2. <<name, req[p].pass>> \in known
      BY <1>1, <2>1, ConstantsAssumption DEF SecretInv, LoginOf
    <2>3. Quiet(p) /\ Signing(p)' /\ ~Signing(p) /\ req'[p] = req[p]
      BY <1>1, <2>1, HandlerEntryCases
         DEF Goto, Quiet, Signing, TypeInv, TypeOK, Request
    <2> DEFINE limit == IF LimitReliable THEN MaxEnrollments ELSE 0
    <2>4. limit > 0 /\ name \notin disabled => logins[name] < limit
      <3>1. logins[name] \in Nat /\ logins'[name] = logins[name] + 1
        BY <1>1, <2>1 DEF TypeInv, TypeOK
      <3>2. CASE LimitReliable
        <4>1. EnrollLimit' /\ limit = MaxEnrollments
          BY <3>2
        <4>2. MaxEnrollments > 0 /\ name \notin disabled' =>
                 logins'[name] <= MaxEnrollments
          BY <1>1, <4>1 DEF EnrollLimit
        <4>3. QED
          BY <2>1, <3>1, <4>1, <4>2, ConstantsAssumption
      <3>3. CASE ~LimitReliable
        BY <3>3
      <3>4. QED
        BY <3>2, <3>3
    <2>5. Enrollment!Registered(name)
      BY <2>2 DEF Enrollment!Registered
    <2>6. Enrollment!Login(p, name)
      BY <1>1, <2>1, <2>3, <2>4, <2>5, SessionNow, SessionChanged
         DEF Enrollment!Login
    <2>7. QED
      BY <1>1, <2>6 DEF Enrollment!Next
  <1>4. QED
    BY <1>2, <1>3

(* A certificate is paid for by a login, or issued for an enroll request   *)
(* that need not log in, or for a reenroll request.                        *)
LEMMA SignImplements ==
    ASSUME TypeInv, LoggedInToSign, NEW p \in Procs, Sign(p)
    PROVE  [Enrollment!Next]_(Enrollment!vars)
  <1> DEFINE name == req[p].name
             payer == Payer(req[p])
  <1> PICK s \in Serials :
         /\ certs[s].status = "none"
         /\ certs' = [certs EXCEPT ![s] = [id |-> name, status |-> "good"]]
         /\ enrolled' = IF req[p].op = "enroll"
                        THEN enrolled \cup {<<s, payer>>} ELSE enrolled
    BY DEF Sign, FreshSerial, NewCertRecord
  <1>1. /\ pc[p] = "sign" /\ req[p] \in EnrollRequest \cup ReenrollRequest
        /\ name \in AllUsers
        /\ UNCHANGED <<known, logins, disabled>>
    BY DEF Sign, clients, TypeInv, ControlOK, EnrollRequest, ReenrollRequest
  <1>2. Quiet(p) /\ ~Signing(p)'
    BY DEF Sign, Goto, Quiet, Signing, TypeInv, TypeOK
  <1>3. Enrollment!Issue(s, name)
    BY DEF Enrollment!Issue, Enrollment!Issued
  <1>4. CASE payer # None
    <2>1. Signing(p) /\ req[p].op = "enroll"
      BY <1>1, <1>4 DEF Signing, Payer
    <2>2. Enrollment!Enroll(p, s, name)
      BY <1>1, <1>2, <1>3, <1>4, <2>1, SessionNow, SessionChanged
         DEF Enrollment!Enroll
    <2>3. QED
      BY <1>1, <2>2 DEF Enrollment!Next
  <1>5. CASE payer = None
    <2>1. ~Signing(p)
      BY <1>5 DEF Signing
    <2>2. CASE req[p] \in EnrollRequest
      <3>1. req[p].op = "enroll"
        BY <2>2 DEF EnrollRequest
      <3>2. ~LoginRequired
        BY <1>1, <1>5, <2>2, <3>1 DEF LoggedInToSign, Payer, LoginRequired
      <3>3. Enrollment!EnrollOpenly(s, name)
        BY <1>1, <1>2, <1>3, <1>5, <2>1, <3>1, <3>2, SameSessions
           DEF Enrollment!EnrollOpenly
      <3>4. QED
        BY <1>1, <3>3 DEF Enrollment!Next
    <2>3. CASE req[p] \in ReenrollRequest
      <3>1. req[p].op # "enroll"
        BY <2>3 DEF ReenrollRequest
      <3>2. Enrollment!Reenroll(s, name)
        BY <1>1, <1>2, <1>3, <2>1, <3>1, SameSessions
           DEF Enrollment!Reenroll
      <3>3. QED
        BY <1>1, <3>2 DEF Enrollment!Next
    <2>4. QED
      BY <1>1, <2>2, <2>3
  <1>6. QED
    BY <1>4, <1>5

(* A serial that has a row is that of a certificate with an owner. *)
LEMMA RecordedCert ==
    ASSUME TypeInv, NEW c \in Serials, certs[c].status # "none"
    PROVE  certs[c] \in [id : AllUsers, status : {"good", "revoked"}]
  <1>1. certs \in [Serials -> CertRecord]
    BY DEF TypeInv, TypeOK
  <1>2. certs[c] \in CertRecord
    BY <1>1
  <1>3. certs[c] # NoCert
    <2>1. NoCert.status = "none"
      BY DEF NoCert
    <2>2. QED
      BY <2>1
  <1>4. QED
    BY <1>2, <1>3 DEF CertRecord

(* The two UPDATEs revoke certificates and change nothing else of them.    *)
LEMMA RevokeSerialImplements ==
    ASSUME TypeInv, NEW p \in Procs, RevokeSerial(p)
    PROVE  [Enrollment!Next]_(Enrollment!vars)
  <1>1. CASE Fail(p)
    BY <1>1, FailLoses DEF Fail, Hidden, tables, clients, history
  <1>2. CASE ~Fail(p)
    <2> DEFINE s == req[p].serial
    <2>1. /\ certs[s].status # "none" /\ s \in Serials
          /\ certs' = RevokeCertificate(certs, s)
          /\ UNCHANGED <<known, logins, enrolled, disabled>>
          /\ Quiet(p) /\ ~Signing(p) /\ ~Signing(p)'
      BY <1>2 DEF RevokeSerial, Goto, Quiet, Signing, clients, history,
                  TypeInv, TypeOK, ControlOK, RevokeSerialRequest
    <2>2. certs' = [c \in Serials |->
                      IF c \in {s}
                      THEN [id |-> certs[c].id, status |-> "revoked"]
                      ELSE certs[c]]
      <3>1. certs[s] \in [id : AllUsers, status : {"good", "revoked"}]
        BY <2>1, RecordedCert
      <3>2. [certs[s] EXCEPT !.status = "revoked"] =
               [id |-> certs[s].id, status |-> "revoked"]
        BY <3>1
      <3>3. certs' = [certs EXCEPT ![s] =
                        [id |-> certs[s].id, status |-> "revoked"]]
        BY <2>1, <3>2 DEF RevokeCertificate
      <3>4. QED
        BY <2>1, <3>3 DEF TypeInv, TypeOK
    <2>3. Enrollment!RevokeSerial(s)
      BY <2>1, <2>2, SameSessions
         DEF Enrollment!RevokeSerial, Enrollment!Revoke, Enrollment!Issued
    <2>4. QED
      BY <2>1, <2>3 DEF Enrollment!Next
  <1>3. QED
    BY <1>1, <1>2

(* The UPDATE of revoke by name covers all certificates of the id. *)
LEMMA RevokeCertsImplements ==
    ASSUME TypeInv, NEW p \in Procs, RevokeCerts(p)
    PROVE  [Enrollment!Next]_(Enrollment!vars)
  <1> DEFINE id == req[p].name
             revoked == {c \in Serials : certs[c].status # "none"
                                         /\ certs[c].id = id}
  <1>1. /\ id \in AllUsers
        /\ certs' = RevokeCertificatesByID(certs, id)
        /\ UNCHANGED <<known, logins, enrolled, disabled>>
        /\ Quiet(p) /\ ~Signing(p) /\ ~Signing(p)'
    BY DEF RevokeCerts, Goto, Quiet, Signing, clients, history,
           TypeInv, TypeOK, ControlOK, RevokeNameRequest
  <1>2. ASSUME NEW c \in Serials
        PROVE  certs'[c] = IF c \in revoked
                           THEN [id |-> certs[c].id, status |-> "revoked"]
                           ELSE certs[c]
    <2>1. CASE c \in revoked
      <3>1. certs[c] \in [id : AllUsers, status : {"good", "revoked"}]
        BY <2>1, RecordedCert
      <3>2. QED
        BY <1>1, <2>1, <3>1 DEF RevokeCertificatesByID, TypeInv, TypeOK
    <2>2. CASE c \notin revoked
      BY <1>1, <2>2 DEF RevokeCertificatesByID, TypeInv, TypeOK
    <2>3. QED
      BY <2>1, <2>2
  <1>3. certs' = [c \in Serials |->
                    IF c \in revoked
                    THEN [id |-> certs[c].id, status |-> "revoked"]
                    ELSE certs[c]]
    BY <1>1, <1>2 DEF RevokeCertificatesByID, TypeInv, TypeOK
  <1>4. Enrollment!RevokeName(id)
    BY <1>1, <1>3, SameSessions
       DEF Enrollment!RevokeName, Enrollment!Revoke, Enrollment!Issued
  <1>5. QED
    BY <1>1, <1>4 DEF Enrollment!Next

(* Writing -1 into the count disables the id. *)
LEMMA DisableImplements ==
    ASSUME TypeInv, NEW p \in Procs, Disable(p)
    PROVE  [Enrollment!Next]_(Enrollment!vars)
  <1>1. /\ req[p].name \in AllUsers
        /\ disabled' = disabled \cup {req[p].name}
        /\ UNCHANGED <<known, logins, certs, enrolled>>
        /\ Quiet(p) /\ ~Signing(p) /\ ~Signing(p)'
    BY DEF Disable, Goto, Quiet, Signing, clients,
           TypeInv, TypeOK, ControlOK, RevokeNameRequest
  <1>2. Enrollment!Disable(req[p].name)
    BY <1>1, SameSessions DEF Enrollment!Disable
  <1>3. QED
    BY <1>1, <1>2 DEF Enrollment!Next

(* The answer to a registration tells a secret whose row is that of the id *)
(* alone, and the only one of the id if it has one row.                    *)
LEMMA RespondImplements ==
    ASSUME TypeInv, SecretInv, NEW p \in Procs, Respond(p)
    PROVE  [Enrollment!Next]_(Enrollment!vars)
  <1>1. /\ pc[p] = "respond" /\ req[p] \in Request
        /\ UNCHANGED <<logins, certs, enrolled, disabled>>
        /\ Quiet(p) /\ ~Signing(p) /\ ~Signing(p)'
    BY DEF Respond, Finish, Quiet, Signing, tables, history,
           TypeInv, TypeOK, ControlOK
  <1>2. CASE req[p].op # "register"
    <2>1. Hidden
      BY <1>1, <1>2 DEF Respond, Hidden
    <2>2. QED
      BY <1>1, <2>1, HiddenStep
  <1>3. CASE req[p].op = "register"
    <2> DEFINE id == req[p].name
               t == out[p]
    <2>1. /\ req[p] \in RegisterRequest
          /\ id \in AllUsers /\ t \in Tokens
          /\ known' = known \cup {<<id, t>>}
      BY <1>1, <1>3, RequestKinds
         DEF Respond, TypeInv, ControlOK, RegisterRequest, AllUsers
    <2>2. HasLimitedRow(id, t)
      BY <1>1, <2>1 DEF SecretInv, SecretOf
    <2>3. ASSUME NEW x \in known
          PROVE  /\ x[2] = t => x[1] = id
                 /\ OneRowPerId /\ x[1] = id => x[2] = t
      <3>1. /\ x[1] \in AllUsers /\ x[2] \in Tokens /\ x = <<x[1], x[2]>>
        BY DEF TypeInv, TypeOK
      <3>2. PICK r \in users[x[1]] : r.pass = x[2]
        BY <3>1 DEF SecretInv, KnownLimited, HasLimitedRow
      <3>3. PICK q \in users[id] : q.pass = t
        BY <2>2 DEF HasLimitedRow
      <3>4. ASSUME x[1] = id, OneRowPerId
            PROVE  r = q
        <4>1. r \in users[id]
          BY <3>2, <3>4
        <4>2. QED
          BY <2>1, <3>3, <3>4, <4>1 DEF SecretInv, SingleRow
      <3>5. x[2] = t => x[1] = id
        BY <2>1, <3>1, <3>2, <3>3 DEF SecretInv, DistinctSecrets
      <3>6. QED
        BY <3>2, <3>3, <3>4, <3>5
    <2>4. Enrollment!Register(id, t)
      BY <1>1, <2>1, <2>3, SameSessions DEF Enrollment!Register
    <2>5. QED
      BY <2>1, <2>4 DEF Enrollment!Next
  <1>4. QED
    BY <1>2, <1>3

(* The remaining statements read, or write rows that the service does not  *)
(* speak of.                                                               *)
LEMMA OtherStepsImplement ==
    ASSUME TypeInv, NEW p \in Procs,
           \/ GetUser(p) \/ VerifyToken(p) \/ CanRegister(p) \/ CheckUser(p)
           \/ InsertUser(p) \/ SetMaxEnrollments(p) \/ HasAttribute(p)
           \/ RevokeGetUser(p) \/ Abort(p)
    PROVE  [Enrollment!Next]_(Enrollment!vars)
  <1>1. Hidden
    BY DEF GetUser, VerifyToken, CanRegister, CheckUser, InsertUser,
           SetMaxEnrollments, HasAttribute, RevokeGetUser, Abort, Fail,
           Hidden, tables, clients, history
  <1>2. CASE Finish(p)
    BY <1>1, <1>2, FailLoses
  <1>3. CASE ~Finish(p)
    <2>1. pc[p] # "sign" /\ ~Abort(p)
      BY <1>3 DEF GetUser, VerifyToken, CanRegister, CheckUser, InsertUser,
                  SetMaxEnrollments, HasAttribute, RevokeGetUser, Abort, Fail
    <2>2. CASE VerifyToken(p)
      <3>1. Goto(p, HandlerEntry(req[p])) /\ req[p] \in Request \ EnrollRequest
        BY <1>3, <2>2 DEF VerifyToken, Fail, TypeInv, ControlOK
      <3>2. Payer(req[p]) = None
        BY <3>1, RequestKinds DEF Payer
      <3>3. Quiet(p) /\ ~Signing(p) /\ ~Signing(p)'
        BY <3>1, <3>2 DEF Goto, Quiet, Signing, TypeInv, TypeOK
      <3>4. QED
        BY <1>1, <3>3, HiddenStep
    <2>3. CASE ~VerifyToken(p)
      <3>1. \E s : s # "sign" /\ Goto(p, s)
        BY <1>3, <2>1, <2>3
           DEF GetUser, CanRegister, CheckUser, InsertUser,
               SetMaxEnrollments, HasAttribute, RevokeGetUser, Fail
      <3>2. Quiet(p) /\ ~Signing(p) /\ ~Signing(p)'
        BY <2>1, <3>1 DEF Goto, Quiet, Signing, TypeInv, TypeOK
      <3>3. QED
        BY <1>1, <3>2, HiddenStep
    <2>4. QED
      BY <2>2, <2>3
  <1>4. QED
    BY <1>2, <1>3

(* The filled database maps to the service's first state. *)
LEMMA InitImplements == Init => Enrollment!Init
  <1> SUFFICES ASSUME Init
               PROVE  Enrollment!Init
    OBVIOUS
  <1>1. LoggedIn = [s \in Procs |-> None]
    BY DEF Init, LoggedIn
  <1>2. QED
    BY <1>1 DEF Init, Enrollment!Init, NewCertRecord, NoCert

(* Every step of a handler is a step of the service or none. *)
LEMMA StepImplements ==
    TypeInv /\ SecretInv /\ LoggedInToSign
        /\ (LimitReliable => EnrollLimit')
        /\ [Next]_vars => [Enrollment!Next]_(Enrollment!vars)
  <1> SUFFICES ASSUME TypeInv, SecretInv, LoggedInToSign,
                      LimitReliable => EnrollLimit', [Next]_vars
               PROVE  [Enrollment!Next]_(Enrollment!vars)
    OBVIOUS
  <1>1. CASE UNCHANGED vars
    BY <1>1 DEF vars, Enrollment!vars, LoggedIn
  <1>2. ASSUME NEW p \in Procs, Receive(p) \/ Step(p) \/ Abort(p)
        PROVE  [Enrollment!Next]_(Enrollment!vars)
    BY <1>2, ReceiveImplements, LoginImplements,
       SignImplements, RevokeSerialImplements, RevokeCertsImplements,
       DisableImplements, RespondImplements, OtherStepsImplement DEF Step
  <1>3. QED
    BY <1>1, <1>2 DEF Next, Quiescent

(* Only Receive, Login and VerifyToken send a request to be signed. *)
LEMMA SignEntered ==
    ASSUME TypeInv, NEW p \in Procs, Step(p) \/ Abort(p)
    PROVE  /\ Quiet(p)
           /\ \/ pc'[p] # "sign"
              \/ /\ pc[p] = "login" \/ req[p] \notin EnrollRequest
                 /\ req'[p] = req[p]
  <1>1. CASE Finish(p)
    BY <1>1 DEF Finish, Quiet, TypeInv, TypeOK
  <1>2. CASE Login(p) /\ ~Finish(p)
    BY <1>2 DEF Login, Goto, Quiet, TypeInv, TypeOK
  <1>3. CASE VerifyToken(p) /\ ~Finish(p)
    <2>1. Goto(p, HandlerEntry(req[p])) /\ req[p] \notin EnrollRequest
      BY <1>3 DEF VerifyToken, Fail, TypeInv, ControlOK
    <2>2. QED
      BY <2>1 DEF Goto, Quiet, TypeInv, TypeOK
  <1>4. CASE ~Finish(p) /\ ~Login(p) /\ ~VerifyToken(p)
    <2>1. \E s : s # "sign" /\ Goto(p, s)
      BY <1>4 DEF Step, Abort, GetUser, Sign, CanRegister, CheckUser,
                  InsertUser, SetMaxEnrollments, HasAttribute, RevokeSerial,
                  RevokeGetUser, Disable, RevokeCerts, Respond, Fail
    <2>2. QED
      BY <2>1 DEF Goto, Quiet, TypeInv, TypeOK
  <1>5. QED
    BY <1>1, <1>2, <1>3, <1>4

(* When all enroll requests have a basic header or none, serveHTTP sends   *)
(* none of them to its handler before Login.                               *)
LEMMA LoggedInToSignStep ==
    TypeInv /\ LoggedInToSign /\ [Next]_vars => LoggedInToSign'
  <1> SUFFICES ASSUME TypeInv, LoggedInToSign, [Next]_vars
               PROVE  LoggedInToSign'
    OBVIOUS
  <1>1. CASE UNCHANGED vars
    BY <1>1 DEF vars, LoggedInToSign
  <1>2. ASSUME NEW p \in Procs, Receive(p)
        PROVE  LoggedInToSign'
    <2>1. CASE UNCHANGED <<pc, req>>
      BY <2>1 DEF LoggedInToSign
    <2>2. CASE ~UNCHANGED <<pc, req>>
      <3> PICK r \in Request :
             /\ ClientSends(r)
             /\ pc' = [pc EXCEPT ![p] = AuthEntry(r)]
             /\ req' = [req EXCEPT ![p] = r]
        BY <1>2, <2>2 DEF Receive
      <3>1. LoginRequired /\ r \in EnrollRequest => AuthEntry(r) # "sign"
        <4>1. LoginRequired /\ r \in EnrollRequest =>
                 Authentication /\ r.op = "enroll" /\ r.hdr \in {"none", "basic"}
          BY DEF ClientSends, LoginRequired, EnrollRequest
        <4>2. QED
          BY <4>1 DEF AuthEntry
      <3>2. /\ pc'[p] = AuthEntry(r) /\ req'[p] = r
            /\ \A q \in Procs \ {p} : pc'[q] = pc[q] /\ req'[q] = req[q]
        BY DEF TypeInv, TypeOK
      <3>3. QED
        BY <3>1, <3>2 DEF LoggedInToSign
    <2>3. QED
      BY <2>1, <2>2
  <1>3. ASSUME NEW p \in Procs, Step(p) \/ Abort(p)
        PROVE  LoggedInToSign'
    <2>1. pc[p] = "login" => req[p].login # None
      BY ConstantsAssumption DEF TypeInv, ControlOK
    <2>2. QED
      BY <1>3, <2>1, SignEntered DEF LoggedInToSign, Quiet
  <1>4. QED
    BY <1>1, <1>2, <1>3 DEF Next, Quiescent

(* The handlers implement the service of CopEnrollment, whatever headers   *)
(* clients send, on every database, for any number of requests, ids,       *)
(* secrets and certificates and whatever fails.  The service has the       *)
(* configured limit on logins if LimitReliable, gives an id one secret     *)
(* only if OneRowPerId, and requires a login to enroll if LoginRequired.   *)
THEOREM ServerImplementsEnrollment == Spec => ImplementsEnrollment
  <1>1. Init => LoggedInToSign
    BY DEF Init, LoggedInToSign
  <1>2. Spec => []LoggedInToSign
    BY <1>1, LoggedInToSignStep, ControlCorrect, PTL DEF Spec
  <1>3. CASE LimitReliable
    <2>1. Spec => []EnrollLimit
      BY <1>3, LimitIsExact
    <2>2. TypeInv /\ SecretInv /\ LoggedInToSign /\ EnrollLimit'
             /\ [Next]_vars => [Enrollment!Next]_(Enrollment!vars)
      BY StepImplements
    <2>3. QED
      BY <1>2, <2>1, <2>2, ControlCorrect, SecretInvariant,
         InitImplements, PTL
         DEF Spec, Enrollment!Spec, ImplementsEnrollment
  <1>4. CASE ~LimitReliable
    <2>1. TypeInv /\ SecretInv /\ LoggedInToSign
             /\ [Next]_vars => [Enrollment!Next]_(Enrollment!vars)
      BY <1>4, StepImplements
    <2>2. QED
      BY <1>2, <2>1, ControlCorrect, SecretInvariant, InitImplements, PTL
         DEF Spec, Enrollment!Spec, ImplementsEnrollment
  <1>5. QED
    BY <1>3, <1>4

-----------------------------------------------------------------------------
(***************************************************************************)
(* Every certificate issued for an enroll request that names a user stands *)
(* for a login of its own.  The sets that the property counts are finite,  *)
(* and a serial that an enroll request was given keeps its row.            *)
(***************************************************************************)
EnrolledOf(u) == {s \in Serials : <<s, u>> \in enrolled}

SigningFor(u) == {p \in Procs : pc[p] = "sign" /\ Payer(req[p]) = u}

PaidFor(u) ==
    /\ IsFiniteSet(EnrolledOf(u))
    /\ IsFiniteSet(SigningFor(u))
    /\ Cardinality(EnrolledOf(u)) + Cardinality(SigningFor(u)) <= logins[u]

EnrollInv ==
    /\ \A x \in enrolled : certs[x[1]].status # "none"
    /\ \A u \in AllUsers : PaidFor(u)

(* The bootstrap user has logged in once and holds one certificate. *)
LEMMA EnrollInvInit == Init => EnrollInv
  <1> SUFFICES ASSUME Init
               PROVE  EnrollInv
    OBVIOUS
  <1>1. IsFiniteSet({AdminSerial}) /\ Cardinality({AdminSerial}) = 1
    BY FS_Singleton
  <1>2. IsFiniteSet({}) /\ Cardinality({}) = 0
    BY FS_EmptySet
  <1>3. /\ enrolled = {<<AdminSerial, Admin>>} /\ AdminSerial \in Serials
        /\ certs[AdminSerial] = NewCertRecord(Admin)
    BY ConstantsAssumption DEF Init
  <1>4. \A u \in AllUsers : SigningFor(u) = {}
    BY DEF Init, SigningFor
  <1>5. \A u \in AllUsers : EnrolledOf(u) = IF u = Admin THEN {AdminSerial} ELSE {}
    BY <1>3 DEF EnrolledOf
  <1>6. ASSUME NEW u \in AllUsers
        PROVE  PaidFor(u)
    <2>1. logins[u] = IF u = Admin THEN 1 ELSE 0
      BY DEF Init
    <2>2. /\ IsFiniteSet(EnrolledOf(u))
          /\ Cardinality(EnrolledOf(u)) = IF u = Admin THEN 1 ELSE 0
      BY <1>1, <1>2, <1>5
    <2>3. IsFiniteSet(SigningFor(u)) /\ Cardinality(SigningFor(u)) = 0
      BY <1>2, <1>4
    <2>4. QED
      BY <2>1, <2>2, <2>3 DEF PaidFor
  <1>7. NewCertRecord(Admin).status # "none"
    BY DEF NewCertRecord
  <1>8. \A x \in enrolled : certs[x[1]].status # "none"
    BY <1>3, <1>7
  <1>9. QED
    BY <1>6, <1>8 DEF EnrollInv

(* The counts are numbers. *)
LEMMA EnrollCounts ==
    ASSUME TypeInv, EnrollInv, NEW u \in AllUsers
    PROVE  /\ IsFiniteSet(EnrolledOf(u)) /\ IsFiniteSet(SigningFor(u))
           /\ Cardinality(EnrolledOf(u)) \in Nat
           /\ Cardinality(SigningFor(u)) \in Nat
           /\ logins[u] \in Nat
           /\ Cardinality(EnrolledOf(u)) + Cardinality(SigningFor(u)) <= logins[u]
  BY FS_CardinalityType DEF EnrollInv, PaidFor, TypeInv, TypeOK

(* The certificates that were issued keep their rows. *)
LEMMA EnrolledKept ==
    ASSUME TypeInv, EnrollInv, CertsKept
    PROVE  \A x \in enrolled : certs'[x[1]].status # "none"
  <1> SUFFICES ASSUME NEW x \in enrolled
               PROVE  certs'[x[1]].status # "none"
    OBVIOUS
  <1>1. x[1] \in Serials /\ certs[x[1]].status # "none"
    BY DEF EnrollInv, TypeInv, TypeOK
  <1>2. QED
    BY <1>1 DEF CertsKept

(* A step that issues nothing to a user who has logged in, counts no login *)
(* and sends no such request to be signed: at most one that was waiting    *)
(* ends.                                                                   *)
LEMMA NothingPaid ==
    ASSUME TypeInv, EnrollInv, CertsKept, NEW p \in Procs, Quiet(p),
           ~Signing(p)', logins' = logins,
           \A u \in AllUsers : EnrolledOf(u)' = EnrolledOf(u),
           \A x \in enrolled' : x \in enrolled \/ certs'[x[1]].status # "none"
    PROVE  EnrollInv'
  <1>1. ASSUME NEW u \in AllUsers
        PROVE  PaidFor(u)'
    <2>1. EnrolledOf(u)' = EnrolledOf(u)
      OBVIOUS
    <2>2. SigningFor(u)' \subseteq SigningFor(u)
      BY ConstantsAssumption DEF SigningFor, Signing, Quiet
    <2>3. /\ IsFiniteSet(SigningFor(u)')
          /\ Cardinality(SigningFor(u)') <= Cardinality(SigningFor(u))
          /\ Cardinality(SigningFor(u)') \in Nat
      BY <2>2, EnrollCounts, FS_Subset, FS_CardinalityType
    <2>4. Cardinality(EnrolledOf(u)) + Cardinality(SigningFor(u)') <= logins'[u]
      BY <2>3, EnrollCounts
    <2>5. QED
      BY <2>1, <2>3, <2>4, EnrollCounts DEF PaidFor
  <1>2. QED
    BY <1>1, EnrolledKept DEF EnrollInv

(* A login pays for the request that has passed it. *)
LEMMA LoginPays ==
    ASSUME TypeInv, EnrollInv, CertsKept, NEW p \in Procs, Login(p)
    PROVE  EnrollInv'
  <1> DEFINE name == req[p].login
  <1>1. /\ pc[p] = "login" /\ name \in AllUsers /\ req[p] \in EnrollRequest
        /\ Payer(req[p]) = name /\ enrolled' = enrolled
    BY DEF Login, TypeInv, ControlOK, EnrollRequest, Payer
  <1>2. \A u \in AllUsers : EnrolledOf(u)' = EnrolledOf(u)
    BY <1>1 DEF EnrolledOf
  <1>3. CASE Finish(p)
    <2>1. Quiet(p) /\ ~Signing(p)'
      BY <1>3 DEF Finish, Quiet, Signing, TypeInv, TypeOK
    <2>2. logins' = logins
      BY <1>1, <1>3, HandlerEntryCases
         DEF Login, Finish, Goto, TypeInv, TypeOK, Request
    <2>3. QED
      BY <1>1, <1>2, <2>1, <2>2, NothingPaid
  <1>4. CASE ~Finish(p)
    <2>1. /\ logins' = [logins EXCEPT ![name] = @ + 1]
          /\ Quiet(p) /\ req'[p] = req[p]
      BY <1>1, <1>4 DEF Login, Goto, Quiet, TypeInv, TypeOK
    <2>2. ASSUME NEW u \in AllUsers, u # name
          PROVE  PaidFor(u)'
      <3>1. SigningFor(u)' = SigningFor(u)
        BY <1>1, <2>1, <2>2 DEF SigningFor, Quiet
      <3>2. logins'[u] = logins[u]
        BY <2>1, <2>2 DEF TypeInv, TypeOK
      <3>3. QED
        BY <1>2, <3>1, <3>2 DEF EnrollInv, PaidFor
    <2>3. ASSUME NEW u \in AllUsers, u = name
          PROVE  PaidFor(u)'
      <3>1. SigningFor(u)' \subseteq SigningFor(u) \cup {p}
        BY <2>1 DEF SigningFor, Quiet
      <3>2. p \notin SigningFor(u)
        BY <1>1 DEF SigningFor
      <3>3. /\ IsFiniteSet(SigningFor(u) \cup {p})
            /\ Cardinality(SigningFor(u) \cup {p})
                  = Cardinality(SigningFor(u)) + 1
        BY <3>2, EnrollCounts, FS_AddElement
      <3>4. /\ IsFiniteSet(SigningFor(u)')
            /\ Cardinality(SigningFor(u)') <= Cardinality(SigningFor(u)) + 1
            /\ Cardinality(SigningFor(u)') \in Nat
        BY <3>1, <3>3, FS_Subset, FS_CardinalityType
      <3>5. logins'[u] = logins[u] + 1
        BY <2>1, <2>3 DEF TypeInv, TypeOK
      <3>6. Cardinality(EnrolledOf(u)) + Cardinality(SigningFor(u)')
               <= logins'[u]
        BY <3>4, <3>5, EnrollCounts
      <3>7. QED
        BY <1>2, <3>4, <3>6, EnrollCounts DEF PaidFor
    <2>4. \A u \in AllUsers : PaidFor(u)'
      BY <2>2, <2>3
    <2>5. QED
      BY <1>1, <2>4, EnrolledKept DEF EnrollInv
  <1>5. QED
    BY <1>3, <1>4

(* A certificate takes the place of the request that waited for it. *)
LEMMA SignPays ==
    ASSUME TypeInv, EnrollInv, CertsKept, NEW p \in Procs, Sign(p)
    PROVE  EnrollInv'
  <1> DEFINE payer == Payer(req[p])
  <1>0. PICK s \in Serials :
         /\ certs[s].status = "none"
         /\ certs' = [certs EXCEPT ![s] = NewCertRecord(req[p].name)]
         /\ enrolled' = IF req[p].op = "enroll"
                        THEN enrolled \cup {<<s, payer>>} ELSE enrolled
    BY DEF Sign, FreshSerial
  <1>1. /\ pc[p] = "sign" /\ logins' = logins
        /\ Quiet(p) /\ pc'[p] = "respond"
    BY DEF Sign, Goto, Quiet, TypeInv, TypeOK
  <1>2. certs'[s].status # "none"
    <2>1. certs'[s] = NewCertRecord(req[p].name)
      BY <1>0 DEF TypeInv, TypeOK
    <2>2. QED
      BY <2>1 DEF NewCertRecord
  <1>3. \A x \in enrolled' : x \in enrolled \/ certs'[x[1]].status # "none"
    BY <1>0, <1>2
  <1>4. \A u \in AllUsers : <<s, u>> \notin enrolled
    BY <1>0 DEF EnrollInv
  <1>5. CASE payer = None
    <2>1. \A u \in AllUsers : EnrolledOf(u)' = EnrolledOf(u)
      BY <1>0, <1>5, ConstantsAssumption DEF EnrolledOf
    <2>2. QED
      BY <1>1, <1>3, <2>1, NothingPaid DEF Signing
  <1>6. CASE payer # None
    <2>1. enrolled' = enrolled \cup {<<s, payer>>} /\ payer \in AllUsers
      <3>1. req[p].op = "enroll" /\ payer = req[p].login
        BY <1>6 DEF Payer
      <3>2. req[p] \in EnrollRequest
        BY <1>1, <3>1 DEF TypeInv, ControlOK, ReenrollRequest
      <3>3. QED
        BY <1>0, <1>6, <3>1, <3>2 DEF EnrollRequest
    <2>2. ASSUME NEW u \in AllUsers, u # payer
          PROVE  PaidFor(u)'
      <3>1. EnrolledOf(u)' = EnrolledOf(u)
        BY <2>1, <2>2 DEF EnrolledOf
      <3>2. SigningFor(u)' = SigningFor(u)
        BY <1>1, <2>2 DEF SigningFor, Quiet
      <3>3. QED
        BY <1>1, <3>1, <3>2 DEF EnrollInv, PaidFor
    <2>3. ASSUME NEW u \in AllUsers, u = payer
          PROVE  PaidFor(u)'
      <3> DEFINE e == EnrolledOf(u)
                 w == SigningFor(u)
      <3>1. EnrolledOf(u)' = e \cup {s} /\ s \notin e
        BY <1>4, <2>1, <2>3 DEF EnrolledOf
      <3>2. SigningFor(u)' = w \ {p} /\ p \in w
        BY <1>1, <2>3 DEF SigningFor, Quiet
      <3>3. /\ IsFiniteSet(e) /\ IsFiniteSet(w) /\ Cardinality(e) \in Nat
            /\ Cardinality(w) \in Nat /\ logins[u] \in Nat
            /\ Cardinality(e) + Cardinality(w) <= logins[u]
        BY EnrollCounts
      <3>4. IsFiniteSet(e \cup {s}) /\ Cardinality(e \cup {s}) = Cardinality(e) + 1
        BY <3>1, <3>3, FS_AddElement
      <3>5. IsFiniteSet(w \ {p}) /\ Cardinality(w \ {p}) = Cardinality(w) - 1
        BY <3>2, <3>3, FS_RemoveElement
      <3>6. Cardinality(e \cup {s}) + Cardinality(w \ {p}) <= logins'[u]
        BY <1>1, <3>3, <3>4, <3>5
      <3>7. QED
        BY <3>1, <3>2, <3>4, <3>5, <3>6 DEF PaidFor
    <2>4. \A u \in AllUsers : PaidFor(u)'
      BY <2>2, <2>3
    <2>5. QED
      BY <1>3, <2>4, EnrolledKept DEF EnrollInv
  <1>7. QED
    BY <1>5, <1>6

(* The other statements, and the end of a request. *)
LEMMA OthersPayNothing ==
    ASSUME TypeInv, EnrollInv, CertsKept,
           NEW p \in Procs, Receive(p) \/ Step(p) \/ Abort(p),
           ~Login(p), ~Sign(p)
    PROVE  EnrollInv'
  <1>1. UNCHANGED <<enrolled, logins>>
    BY DEF Receive, Step, Abort, GetUser, VerifyToken, CanRegister, CheckUser,
           InsertUser, SetMaxEnrollments, HasAttribute, RevokeSerial,
           RevokeGetUser, Disable, RevokeCerts, Respond, Fail, history
  <1>2. Quiet(p) /\ ~Signing(p)'
    <2>1. CASE Receive(p)
      BY <2>1, ReceiveSigns
    <2>2. CASE ~Receive(p) /\ pc[p] # "login"
      <3>1. pc'[p] = "sign" => req[p] \notin EnrollRequest /\ req'[p] = req[p]
        BY <2>2, SignEntered
      <3>2. pc'[p] = "sign" => Payer(req'[p]) = None
        BY <3>1, RequestKinds DEF Payer, TypeInv, TypeOK, NoRequest
      <3>3. QED
        BY <2>2, <3>2, SignEntered DEF Signing
    <2>3. CASE ~Receive(p) /\ pc[p] = "login"
      <3>1. Fail(p)
        BY <2>3 DEF Step, Abort, GetUser, VerifyToken, CanRegister, CheckUser,
                    InsertUser, SetMaxEnrollments, HasAttribute, RevokeSerial,
                    RevokeGetUser, Disable, RevokeCerts, Respond
      <3>2. QED
        BY <3>1 DEF Fail, Finish, Quiet, Signing, TypeInv, TypeOK
    <2>4. QED
      BY <2>1, <2>2, <2>3
  <1>3. QED
    BY <1>1, <1>2, NothingPaid DEF EnrolledOf

(* Every step of the server preserves the invariant. *)
LEMMA EnrollInvStep == TypeInv /\ EnrollInv /\ [Next]_vars => EnrollInv'
  <1> SUFFICES ASSUME TypeInv, EnrollInv, [Next]_vars
               PROVE  EnrollInv'
    OBVIOUS
  <1>1. CertsKept
    BY StepKeepsCerts
  <1>2. CASE UNCHANGED vars
    BY <1>2 DEF vars, EnrollInv, PaidFor, EnrolledOf, SigningFor
  <1>3. ASSUME NEW p \in Procs, Receive(p) \/ Step(p) \/ Abort(p)
        PROVE  EnrollInv'
    BY <1>1, <1>3, LoginPays, SignPays, OthersPayNothing
  <1>4. QED
    BY <1>2, <1>3 DEF Next, Quiescent

(* No user has more certificates from enroll requests with its name and    *)
(* secret, issued or about to be, than it has logged in, whatever other    *)
(* headers clients send and whatever fails between the login and the       *)
(* certificate.                                                            *)
THEOREM EnrollmentsArePaidFor == Spec => []EnrollmentsCounted
  <1>1. EnrollInv => EnrollmentsCounted
    BY DEF EnrollInv, PaidFor, EnrolledOf, SigningFor, EnrollmentsCounted
  <1>2. QED
    BY <1>1, EnrollInvInit, EnrollInvStep, ControlCorrect, PTL DEF Spec
=============================================================================

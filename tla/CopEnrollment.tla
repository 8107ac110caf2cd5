---------------------------- MODULE CopEnrollment ----------------------------
(***************************************************************************)
(* What the server promises its clients about secrets and certificates,    *)
(* without tables, rows, statements or requests: an id is given a secret   *)
(* of its own, a secret is good for a limited number of logins, a login    *)
(* yields one certificate, a certificate belongs to one id for good, and   *)
(* its revocation is final.  Which id a certificate belongs to is up to    *)
(* whoever asks for it.  CopServer says in which configurations there is a *)
(* limit, an id is given no second secret, and enrolling takes a login.    *)
(***************************************************************************)
EXTENDS Integers

CONSTANTS
    Ids,        \* enrollment ids
    Secrets,    \* enrollment secrets
    Serials,    \* serial numbers of certificates
    Sessions,   \* enrollments that may be in progress at once
    Limit,      \* logins a secret is good for; not limited unless positive
    OneSecret,  \* whether an id is given one secret only
    LoginRequired, \* whether one has to log in to enroll
    FirstId, FirstSecret, FirstSerial, \* those of the bootstrap user
    Nobody      \* no id

VARIABLES
    told,       \* <<id, secret>> pairs that clients have been given
    logins,     \* successful logins of each id
    session,    \* the id that has logged in and waits for its certificate
    record,     \* each serial's certificate
    paid,       \* <<serial, id>>: enrollments, and who logged in for them
    disabled    \* ids that have been disabled

vars == <<told, logins, session, record, paid, disabled>>

Registered(id) == \E x \in told : x[1] = id

Issued(c) == record[c].status # "none"

-----------------------------------------------------------------------------
(* One id has been registered, has logged in and holds a certificate.      *)
Init ==
    /\ told = {<<FirstId, FirstSecret>>}
    /\ logins = [i \in Ids |-> IF i = FirstId THEN 1 ELSE 0]
    /\ session = [s \in Sessions |-> Nobody]
    /\ record = [c \in Serials |->
                   IF c = FirstSerial THEN [id |-> FirstId, status |-> "good"]
                   ELSE [id |-> "none", status |-> "none"]]
    /\ paid = {<<FirstSerial, FirstId>>}
    /\ disabled = {}

(* An id is given a secret that no other id has, the only one it ever gets *)
(* if OneSecret.                                                           *)
Register(id, secret) ==
    /\ \A x \in told : x[2] = secret => x[1] = id
    /\ OneSecret => \A x \in told : x[1] = id => x[2] = secret
    /\ told' = told \cup {<<id, secret>>}
    /\ UNCHANGED <<logins, session, record, paid, disabled>>

(* The limit binds every id until it is disabled. *)
Login(s, id) ==
    /\ session[s] = Nobody
    /\ Registered(id)
    /\ Limit > 0 /\ id \notin disabled => logins[id] < Limit
    /\ logins' = [logins EXCEPT ![id] = @ + 1]
    /\ session' = [session EXCEPT ![s] = id]
    /\ UNCHANGED <<told, record, paid, disabled>>

Issue(c, id) ==
    /\ ~Issued(c)
    /\ record' = [record EXCEPT ![c] = [id |-> id, status |-> "good"]]

(* A login yields one certificate. *)
Enroll(s, c, id) ==
    /\ session[s] # Nobody
    /\ Issue(c, id)
    /\ paid' = paid \cup {<<c, session[s]>>}
    /\ session' = [session EXCEPT ![s] = Nobody]
    /\ UNCHANGED <<told, logins, disabled>>

(* A login may fail to yield one. *)
Lose(s) ==
    /\ session[s] # Nobody
    /\ session' = [session EXCEPT ![s] = Nobody]
    /\ UNCHANGED <<told, logins, record, paid, disabled>>

(* An enrollment that nobody has logged in for. *)
EnrollOpenly(c, id) ==
    /\ ~LoginRequired
    /\ Issue(c, id)
    /\ paid' = paid \cup {<<c, Nobody>>}
    /\ UNCHANGED <<told, logins, session, disabled>>

(* The holder of a certificate gets another one, which is no enrollment.   *)
Reenroll(c, id) ==
    /\ Issue(c, id)
    /\ UNCHANGED <<told, logins, session, paid, disabled>>

Revoke(revoked) ==
    /\ \A c \in revoked : Issued(c)
    /\ record' = [c \in Serials |->
                    IF c \in revoked
                    THEN [id |-> record[c].id, status |-> "revoked"]
                    ELSE record[c]]
    /\ UNCHANGED <<told, logins, session, paid, disabled>>

(* One certificate, or all certificates of one id. *)
RevokeSerial(c) == Revoke({c})

RevokeName(id) == Revoke({c \in Serials : Issued(c) /\ record[c].id = id})

Disable(id) ==
    /\ disabled' = disabled \cup {id}
    /\ UNCHANGED <<told, logins, session, record, paid>>

Next ==
    \/ \E id \in Ids :
          \/ \E t \in Secrets : Register(id, t)
          \/ \E s \in Sessions : Login(s, id)
          \/ \E c \in Serials :
                \/ \E s \in Sessions : Enroll(s, c, id)
                \/ EnrollOpenly(c, id) \/ Reenroll(c, id)
          \/ RevokeName(id) \/ Disable(id)
    \/ \E s \in Sessions : Lose(s)
    \/ \E c \in Serials : RevokeSerial(c)

Spec == Init /\ [][Next]_vars
=============================================================================

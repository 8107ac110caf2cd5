------------------------------ MODULE CopTables ------------------------------
(***************************************************************************)
(* The SQL statements of cli/server/dbaccessor.go and                      *)
(* cli/server/certdbaccessor.go, each as an operator on a table.  No       *)
(* statement runs inside a transaction, so each of these operators is one  *)
(* atomic step of a request and nothing larger is.                         *)
(*                                                                         *)
(* The rows of "users" with one id form a set of records: the SQLite and   *)
(* the Postgres schema give the table no primary key, so there may be      *)
(* several.  Rows with one id differ in their password, which              *)
(* registerUserID draws at random.  Of the columns the records keep the    *)
(* ones that the handlers read back: the password, the login count         *)
(* "state", max_enrollments, and the two attributes that grant a right.    *)
(***************************************************************************)
EXTENDS Integers

(* newDBUser and the INSERT of InsertUser: state and max_enrollments are   *)
(* the zero values of UserRecord.                                          *)
NewUserRecord(pass, attrs) ==
    [pass |-> pass, state |-> 0, max |-> 0, attrs |-> attrs]

(* Mutant: the limit is never written. *)
UpdateMaxEnrollmentsSkipped(rows, val) == rows

(* The two cases of UpdateField.  Both UPDATEs select on the id alone and  *)
(* write every row that has it.                                            *)
WithState(r, val) == [r EXCEPT !.state = val]

(* Mutant: the count is never written. *)
UpdateStateSkipped(rows, val) == rows

UpdateState(rows, val) == {WithState(r, val) : r \in rows}

WithMax(r, val) == [r EXCEPT !.max = val]

UpdateMaxEnrollments(rows, val) == {WithMax(r, val) : r \in rows}

(* Mutant: the number of affected rows is not looked at. *)
OneRowAffectedIgnored(rows, val, changedOnly) == TRUE

(* Login treats any number of affected rows other than one as a failure.   *)
(* SQLite and Postgres report the rows an UPDATE selects, and the MySQL    *)
(* driver the rows it changes (ClientFoundRows is off by default).         *)
OneRowAffected(rows, val, changedOnly) ==
    \E r \in rows :
        {q \in rows : changedOnly => q.state # val} = {r}

(* Mutant: one login too many. *)
LimitReachedOffByOne(u) == u.max > 0 /\ u.state > u.max

(* The decision of Login, taken from the row that GetUser had read: a      *)
(* negative limit is not counted, a zero limit is counted but never        *)
(* refused.                                                                *)
LimitReached(u) == u.max > 0 /\ u.state >= u.max

LoginCounted(u) == u.max >= 0

-----------------------------------------------------------------------------
(* A row of "certificates"; a serial that has no row has status "none".    *)
NoCert == [id |-> "none", status |-> "none"]

(* Mutant: the row is inserted without the status column. *)
NewCertRecordNoStatus(id) == [id |-> id]

NewCertRecord(id) == [id |-> id, status |-> "good"]

(* Mutant: the UPDATE selects the rows that are revoked already. *)
RevokeCertificatesByIDInverted(certs, id) ==
    [s \in DOMAIN certs |->
        IF certs[s].status = "revoked" /\ certs[s].id = id
        THEN [certs[s] EXCEPT !.status = "revoked"]
        ELSE certs[s]]

(* Mutant: the UPDATE does not select by id. *)
RevokeCertificatesByIDOfAll(certs, id) ==
    [s \in DOMAIN certs |->
        IF certs[s].status # "none"
        THEN [certs[s] EXCEPT !.status = "revoked"]
        ELSE certs[s]]

(* updateRevokeSQL: the rows of an id that are not revoked yet.            *)
RevokeCertificatesByID(certs, id) ==
    [s \in DOMAIN certs |->
        IF certs[s].status \notin {"none", "revoked"} /\ certs[s].id = id
        THEN [certs[s] EXCEPT !.status = "revoked"]
        ELSE certs[s]]

(* The UPDATE of cfssl's RevokeCertificate selects one serial and AKI.     *)
RevokeCertificate(certs, s) == [certs EXCEPT ![s].status = "revoked"]
=============================================================================

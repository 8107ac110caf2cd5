------------------------------ MODULE CopTCert ------------------------------
(***************************************************************************)
(* A batch of transaction certificates: the tcert handler's choice of      *)
(* attributes, the size and validity of the batch, and the extensions and  *)
(* keys of each certificate (cli/server/tcert.go, lib/tcert/tcert.go).     *)
(* Keys are named after what they are derived from; that derivation and    *)
(* encryption are one-to-one is assumed.                                   *)
(***************************************************************************)
EXTENDS Integers, Sequences, Functions

CONSTANTS
    Names,                \* attribute names
    UserAttrs,            \* the user's value of each name, or ""
    MaxNames,             \* bound on the length of a list of names
    MaxAllowedBatchSize,  \* Mgr.MaxAllowedBatchSize
    ValidityPeriod,       \* Mgr.ValidityPeriod
    Counts, Periods,      \* the counts and periods a request may ask for
    None

ASSUME TCertAssumption ==
    /\ Names \subseteq STRING /\ UserAttrs \in [Names -> STRING]
    /\ MaxNames \in Nat /\ MaxAllowedBatchSize \in Nat /\ Counts \subseteq Nat
    /\ ValidityPeriod \in Nat /\ Periods \subseteq Int
    /\ None \notin Nat

VARIABLES
    pc,      \* the next step of the handler
    req,     \* the request: count, attribute names, encryption, period
    looked,  \* the number of names it has looked up
    attrs,   \* the attributes that go into the certificates
    num,     \* numTCertsInBatch
    period,  \* the validity period of the batch
    set      \* the certificates made so far

vars == <<pc, req, looked, attrs, num, period, set>>

Request ==
    [count : Counts, names : UNION {[1..n -> Names] : n \in 0..MaxNames},
     encrypt : BOOLEAN, period : Periods]

Init ==
    /\ pc = "userInfo"
    /\ req \in Request
    /\ looked = 0 /\ attrs = <<>>
    /\ num = 0 /\ period = 0 /\ set = <<>>

-----------------------------------------------------------------------------
(* An attribute that the user does not have is left out. *)
WithAttribute(name) ==
    IF UserAttrs[name] = "" THEN attrs
    ELSE Append(attrs, [name |-> name, value |-> UserAttrs[name]])

(* One round of the loop over the names, in the order of the request.      *)
(* GetUser before it and GetKey after it may fail.                         *)
getUserInfo ==
    /\ pc = "userInfo"
    /\ \/ /\ looked < Len(req.names)
          /\ looked' = looked + 1
          /\ attrs' = WithAttribute(req.names[looked + 1])
          /\ UNCHANGED pc
       \/ /\ looked = Len(req.names)
          /\ pc' = "size"
          /\ UNCHANGED <<looked, attrs>>
       \/ /\ looked \in {0, Len(req.names)}
          /\ pc' = "failed"
          /\ UNCHANGED <<looked, attrs>>
    /\ UNCHANGED <<req, num, period, set>>

-----------------------------------------------------------------------------
(* Mutant: the largest batch cannot be asked for. *)
BatchSizeOffByOne(count) ==
    IF count = 0 THEN MaxAllowedBatchSize
    ELSE IF count < MaxAllowedBatchSize THEN count
    ELSE None

(* The number of certificates, or None for an error. *)
BatchSize(count) ==
    IF count = 0 THEN MaxAllowedBatchSize
    ELSE IF count <= MaxAllowedBatchSize THEN count
    ELSE None

BatchPeriod(asked) ==
    IF asked > 0 /\ asked < ValidityPeriod THEN asked ELSE ValidityPeriod

Size ==
    /\ pc = "size"
    /\ pc' = IF BatchSize(req.count) = None THEN "refused" ELSE "issue"
    /\ num' = IF BatchSize(req.count) = None THEN 0 ELSE BatchSize(req.count)
    /\ period' = BatchPeriod(req.period)
    /\ UNCHANGED <<req, looked, attrs, set>>

-----------------------------------------------------------------------------
(* The key that hides a value in the certificate with this serial number.  *)
DerivedKey(serial, label) == <<serial, label>>

Extension(id, k, v) == [id |-> id, key |-> k, value |-> v]

(* The last number of the object identifiers 1.2.3.4.5.6.x. *)
TCertEncTCertIndex == 7
TCertEncEnrollmentID == 8
TCertAttributesHeaders == 9

AttributeId(position) == TCertAttributesHeaders + position

AttributeExtension(serial, position) ==
    Extension(AttributeId(position),
              IF req.encrypt THEN DerivedKey(serial, attrs[position].name)
              ELSE None,
              attrs[position].value)

AttributeNames == {attrs[i].name : i \in 1..Len(attrs)}

(* The header names the last position of an attribute. *)
attributesHeader ==
    [n \in AttributeNames |->
        CHOOSE i \in 1..Len(attrs) :
            /\ attrs[i].name = n
            /\ \A j \in 1..Len(attrs) : attrs[j].name = n => j <= i]

Extensions(serial, tidx) ==
    [i \in 1..Len(attrs) |-> AttributeExtension(serial, i)]
    \o << Extension(TCertEncTCertIndex, "extKey", tidx),
          Extension(TCertEncEnrollmentID,
                    DerivedKey(serial, "enrollmentID"), "id") >>
    \o IF attrs = <<>> THEN <<>>
       ELSE << Extension(TCertAttributesHeaders, None, attributesHeader) >>

(* Mutant: the keys of the attributes are not handed out. *)
KsEnrollmentOnly(serial) ==
    [n \in {"enrollmentId"} |-> DerivedKey(serial, "enrollmentID")]

(* Mutant: the saved key of the enrollment id is derived from its label.   *)
KsOtherLabel(serial) ==
    [n \in {"enrollmentId"} \cup (IF req.encrypt THEN AttributeNames ELSE {}) |->
        DerivedKey(serial, n)]

(* The map of keys: that of the enrollment id, then those of the           *)
(* attributes when they are encrypted.                                     *)
Ks(serial) ==
    [n \in {"enrollmentId"} \cup (IF req.encrypt THEN AttributeNames ELSE {}) |->
        IF req.encrypt /\ n \in AttributeNames THEN DerivedKey(serial, n)
        ELSE DerivedKey(serial, "enrollmentID")]

(* One round of GetBatch's loop.  The serial number is random; it is       *)
(* named by its round.  Any step of a round may fail, and then the         *)
(* certificates made so far are dropped.                                   *)
Issue ==
    LET i == Len(set)
        serial == i + 1 IN
    /\ pc = "issue"
    /\ i < num
    /\ \/ /\ set' = Append(set,
                [serial |-> serial, index |-> 2 * i + 1, period |-> period,
                 extensions |-> Extensions(serial, 2 * i + 1),
                 keys |-> Ks(serial)])
          /\ UNCHANGED pc
       \/ pc' = "failed" /\ UNCHANGED set
    /\ UNCHANGED <<req, looked, attrs, num, period>>

Respond ==
    /\ pc = "issue"
    /\ Len(set) = num
    /\ pc' = "done"
    /\ UNCHANGED <<req, looked, attrs, num, period, set>>

Ended == pc \in {"refused", "failed", "done"} /\ UNCHANGED vars

Next == getUserInfo \/ Size \/ Issue \/ Respond \/ Ended

Spec == Init /\ [][Next]_vars

-----------------------------------------------------------------------------
(* Properties. *)

(* The extension of certificate t with an object identifier. *)
ExtensionOf(t, id) ==
    t.extensions[CHOOSE i \in 1..Len(t.extensions) : t.extensions[i].id = id]

(* "If 0 are requested, retrieve the maximum allowable; otherwise,         *)
(* retrieve the number requested": an answer has exactly that many         *)
(* certificates, never a part of them, and all are valid for "the min of   *)
(* requested and configured max"; only a request for too many is refused.  *)
BatchComplete ==
    /\ pc = "done" =>
          /\ Len(set) = IF req.count = 0 THEN MaxAllowedBatchSize ELSE req.count
          /\ Len(set) <= MaxAllowedBatchSize
          /\ \A i \in 1..Len(set) :
                set[i].period \in {p \in {req.period, ValidityPeriod} :
                    p <= ValidityPeriod /\ (req.period > 0 => p <= req.period)}
    /\ pc = "refused" => req.count > MaxAllowedBatchSize

(* A reader finds each requested attribute that the user has: the header   *)
(* gives its position, the extension there holds its value, and when it is *)
(* encrypted the keys that come with the certificate open it.  Attributes  *)
(* that the user does not have are not mentioned, and no two extensions    *)
(* have one object identifier, however often a name is requested.          *)
AttributesReadable ==
    \A t \in Range(set) :
        LET held == {n \in Range(req.names) : UserAttrs[n] # ""} IN
        /\ held = AttributeNames
        /\ \A i, j \in 1..Len(t.extensions) :
              t.extensions[i].id = t.extensions[j].id => i = j
        /\ \A n \in held :
              LET header == ExtensionOf(t, TCertAttributesHeaders).value
                  e == ExtensionOf(t, TCertAttributesHeaders + header[n])
              IN  /\ n \in DOMAIN header
                  /\ e.value = UserAttrs[n]
                  /\ IF req.encrypt
                     THEN n \in DOMAIN t.keys /\ e.key = t.keys[n]
                     ELSE e.key = None

(* "the list of Ks used to encrypt the EnrollmentID and the attributes"    *)
(* (generateExtensions): the key listed for the enrollment id opens it,    *)
(* except where an encrypted attribute of that name has taken its place.   *)
EnrollmentIDReadable ==
    \A t \in Range(set) :
        ~(req.encrypt /\ "enrollmentId" \in AttributeNames) =>
            ExtensionOf(t, TCertEncEnrollmentID).key = t.keys["enrollmentId"]
=============================================================================

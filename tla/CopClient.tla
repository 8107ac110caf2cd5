------------------------------ MODULE CopClient ------------------------------
(***************************************************************************)
(* The client commands enroll, reenroll, register and revoke, and the      *)
(* identity they share on disk: a key file and a certificate file          *)
(* (cli/client, lib/client.go, lib/identity.go).  A certificate is named   *)
(* by the key it certifies.                                                *)
(***************************************************************************)
EXTENDS FiniteSets

CONSTANTS
    Commands,    \* processes that run a client command
    ClientKeys,  \* private keys
    Absent,      \* contents of a file that does not exist
    Empty        \* contents of a file that is truncated and not yet written

ASSUME ClientAssumption ==
    Absent \notin ClientKeys /\ Empty \notin ClientKeys /\ Absent # Empty

VARIABLES
    keyFile,           \* key.pem
    certFile,          \* cert.pem
    made,              \* the keys that were ever generated
    issued,            \* the keys the server has certified
    clientPc,          \* the next step of a command
    kind,              \* the command line
    key,               \* the key it loaded
    cert,              \* the certificate it loaded
    new,               \* the key it generated
    clientOverlapped,  \* history: whether two commands ran at the same time
    interrupted        \* history: whether a command ended within a store

clientVars == <<keyFile, certFile, made, issued, clientPc, kind, key, cert, new,
                clientOverlapped, interrupted>>

files == <<keyFile, certFile>>

loaded == <<key, cert, new>>

clientHistory == <<clientOverlapped, interrupted>>

Contents == ClientKeys \cup {Absent, Empty}

Kinds == {"enroll", "reenroll", "register", "revoke"}

Storing == {"truncateKey", "writeKey", "truncateCert", "writeCert"}

Steps ==
    {"idle", "loadKey", "loadCert", "genCSR", "post", "stored"} \cup Storing

(* The variables have their types. *)
ClientTypeOK ==
    /\ keyFile \in Contents /\ certFile \in Contents
    /\ made \subseteq ClientKeys /\ issued \subseteq made
    /\ clientPc \in [Commands -> Steps]
    /\ kind \in [Commands -> Kinds]
    /\ key \in [Commands -> Contents] /\ cert \in [Commands -> Contents]
    /\ new \in [Commands -> Contents]
    /\ clientOverlapped \in BOOLEAN /\ interrupted \in BOOLEAN

ClientInit ==
    /\ keyFile = Absent /\ certFile = Absent
    /\ made = {} /\ issued = {}
    /\ clientPc = [c \in Commands |-> "idle"]
    /\ kind \in [Commands -> {"enroll"}]
    /\ key = [c \in Commands |-> Absent]
    /\ cert = key /\ new = key
    /\ clientOverlapped = FALSE /\ interrupted = FALSE

ClientGoto(c, step) == clientPc' = [clientPc EXCEPT ![c] = step]

-----------------------------------------------------------------------------
Begin(c, command, step) ==
    /\ clientPc[c] = "idle"
    /\ clientOverlapped' =
          (clientOverlapped \/ \E d \in Commands : clientPc[d] # "idle")
    /\ kind' = [kind EXCEPT ![c] = command]
    /\ ClientGoto(c, step)
    /\ key' = [key EXCEPT ![c] = Absent]
    /\ cert' = [cert EXCEPT ![c] = Absent]
    /\ new' = [new EXCEPT ![c] = Absent]
    /\ UNCHANGED <<files, made, issued, interrupted>>

enrollMain(c) == Begin(c, "enroll", "genCSR")

reenrollMain(c) == Begin(c, "reenroll", "loadKey")

registerMain(c) == Begin(c, "register", "loadKey")

revokeMain(c) == Begin(c, "revoke", "loadKey")

(* LoadIdentity reads the key file; a file that is there but empty is no   *)
(* error yet.                                                              *)
LoadKey(c) ==
    /\ clientPc[c] = "loadKey"
    /\ keyFile # Absent
    /\ key' = [key EXCEPT ![c] = keyFile]
    /\ ClientGoto(c, "loadCert")
    /\ UNCHANGED <<files, made, issued, kind, cert, new, clientHistory>>

(* It then reads the certificate file, and NewIdentity takes the name out  *)
(* of the certificate, which fails for an empty one.                       *)
LoadCert(c) ==
    /\ clientPc[c] = "loadCert"
    /\ certFile \in ClientKeys
    /\ cert' = [cert EXCEPT ![c] = certFile]
    /\ ClientGoto(c, IF kind[c] = "reenroll" THEN "genCSR" ELSE "post")
    /\ UNCHANGED <<files, made, issued, kind, key, new, clientHistory>>

(* Mutant: the key is stored before there is a certificate for it. *)
AfterCSRStore == "truncateKey"

(* The request is sent before anything is stored. *)
AfterCSR == "post"

(* A fresh key for the certificate signing request. *)
GenCSR(c) ==
    /\ clientPc[c] = "genCSR"
    /\ \E k \in ClientKeys \ made :
          /\ made' = made \cup {k}
          /\ new' = [new EXCEPT ![c] = k]
    /\ ClientGoto(c, AfterCSR)
    /\ UNCHANGED <<files, issued, kind, key, cert, clientHistory>>

-----------------------------------------------------------------------------
(* A token is made with whatever key was read, unless that is empty.       *)
CreateToken(c) == key[c] \in ClientKeys

(* The server checks it with the public key of the certificate in it.      *)
VerifyToken(c) == cert[c] = key[c] /\ cert[c] \in issued

(* Enroll has a name and a secret instead of a token. *)
Authorized(c) == kind[c] # "enroll" => CreateToken(c) /\ VerifyToken(c)

(* The server answers a request to sign.  The answer may be lost, and      *)
(* SendPost returns an error.                                              *)
Sign(c) ==
    /\ clientPc[c] = "post"
    /\ kind[c] \in {"enroll", "reenroll"}
    /\ Authorized(c)
    /\ issued' = issued \cup {new[c]}
    /\ \/ ClientGoto(c, "truncateKey")
       \/ ClientGoto(c, "idle")
    /\ UNCHANGED <<files, made, kind, loaded, clientHistory>>

(* The server answers a register or revoke request. *)
Serve(c) ==
    /\ clientPc[c] = "post"
    /\ kind[c] \in {"register", "revoke"}
    /\ Authorized(c)
    /\ ClientGoto(c, "idle")
    /\ UNCHANGED <<files, made, issued, kind, loaded, clientHistory>>

-----------------------------------------------------------------------------
(* Mutant: the certificate is not written. *)
StoreNextKeyOnly(step) ==
    IF step = "truncateKey" THEN "writeKey" ELSE "stored"

(* StoreMyIdentity writes the key, then the certificate. *)
StoreNext(step) ==
    IF step = "truncateKey" THEN "writeKey"
    ELSE IF step = "writeKey" THEN "truncateCert"
    ELSE IF step = "truncateCert" THEN "writeCert"
    ELSE "stored"

(* One system call of ioutil.WriteFile: it truncates the file when it      *)
(* opens it and then writes the contents.                                  *)
Store(c) ==
    /\ clientPc[c] \in Storing
    /\ keyFile' = IF clientPc[c] = "truncateKey" THEN Empty
                  ELSE IF clientPc[c] = "writeKey" THEN new[c] ELSE keyFile
    /\ certFile' = IF clientPc[c] = "truncateCert" THEN Empty
                   ELSE IF clientPc[c] = "writeCert" THEN new[c] ELSE certFile
    /\ ClientGoto(c, StoreNext(clientPc[c]))
    /\ UNCHANGED <<made, issued, kind, loaded, clientHistory>>

(* The message "enrollment information was successfully stored". *)
Report(c) ==
    /\ clientPc[c] = "stored"
    /\ ClientGoto(c, "idle")
    /\ UNCHANGED <<files, made, issued, kind, loaded, clientHistory>>

(* A command ends with an error, or is killed: before it stores anything,  *)
(* or between the steps of the store.                                      *)
Fail(c) ==
    /\ clientPc[c] # "idle"
    /\ interrupted' = (interrupted \/ clientPc[c] \in Storing)
    /\ ClientGoto(c, "idle")
    /\ UNCHANGED <<files, made, issued, kind, loaded, clientOverlapped>>

ClientStep(c) ==
    \/ enrollMain(c) \/ reenrollMain(c) \/ registerMain(c) \/ revokeMain(c)
    \/ LoadKey(c) \/ LoadCert(c) \/ GenCSR(c)
    \/ Sign(c) \/ Serve(c) \/ Store(c) \/ Report(c) \/ Fail(c)

ClientNext == \E c \in Commands : ClientStep(c)

ClientSpec == ClientInit /\ [][ClientNext]_clientVars

-----------------------------------------------------------------------------
(* Properties. *)

(* Whatever was interrupted and whichever commands overlap, a key on disk  *)
(* is one the server has certified, and so is every certificate: nothing   *)
(* is stored for a request that was refused or whose answer was lost.      *)
StoredKeyCertified ==
    /\ keyFile \in ClientKeys => keyFile \in issued
    /\ certFile \in ClientKeys => certFile \in issued

(* "enrollment information was successfully stored in" the two files:      *)
(* after commands that ran one at a time and were not interrupted in a     *)
(* store they belong together, as long as no command is writing them,      *)
(* whichever requests were refused and whichever answers were lost.        *)
StoredPairMatches ==
    ~clientOverlapped /\ ~interrupted
        /\ (\A c \in Commands : clientPc[c] \notin Storing) => keyFile = certFile

(* "your previously stored private key is used to authenticate to the COP  *)
(* server": under the same conditions the token a command makes from the   *)
(* files it has loaded is one the server accepts.                          *)
StoredKeyAuthenticates ==
    ~clientOverlapped /\ ~interrupted =>
        \A c \in Commands :
            clientPc[c] = "post" /\ kind[c] # "enroll" =>
                CreateToken(c) /\ VerifyToken(c)

(* When a command says "enrollment information was successfully stored",   *)
(* both files hold what it got, whatever interrupted commands left there,  *)
(* unless commands have overlapped.                                        *)
SuccessMeansStored ==
    ~clientOverlapped =>
        \A c \in Commands :
            clientPc[c] = "stored" => keyFile = new[c] /\ certFile = new[c]
=============================================================================

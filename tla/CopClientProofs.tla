-------------------------- MODULE CopClientProofs --------------------------
(***************************************************************************)
(* What the client keeps on disk, for any number of commands and keys.     *)
(***************************************************************************)
EXTENDS CopClient, TLAPS

(* A command has a fresh key when it posts a request to sign, and a        *)
(* certified one once it stores.                                           *)
NewInv ==
    \A c \in Commands :
        /\ clientPc[c] = "post" /\ kind[c] \in {"enroll", "reenroll"}
              => new[c] \in made
        /\ clientPc[c] \in Storing \cup {"stored"} => new[c] \in issued
        /\ clientPc[c] = "genCSR" => kind[c] \in {"enroll", "reenroll"}
        /\ clientPc[c] \in {"loadKey", "loadCert"} => kind[c] # "enroll"

CertifiedInv == ClientTypeOK /\ NewInv /\ StoredKeyCertified

(* The state in which nothing was stored has the invariant. *)
LEMMA CertifiedInit == ClientInit => CertifiedInv
BY ClientAssumption
   DEF ClientInit, CertifiedInv, ClientTypeOK, NewInv, StoredKeyCertified, Contents, Kinds,
       Steps, Storing

(* Every step of a command keeps it. *)
LEMMA CertifiedNext == CertifiedInv /\ [ClientNext]_clientVars => CertifiedInv'
<1> SUFFICES ASSUME CertifiedInv, [ClientNext]_clientVars PROVE CertifiedInv'
  OBVIOUS
<1> USE ClientAssumption DEF CertifiedInv, ClientTypeOK, NewInv, StoredKeyCertified,
        Contents, Kinds, Steps, Storing, ClientGoto, files, loaded, clientHistory
<1>1. CASE UNCHANGED clientVars
  BY <1>1 DEF clientVars
<1>2. ASSUME NEW c \in Commands, ClientStep(c) PROVE CertifiedInv'
  <2>1. CASE enrollMain(c)
    BY <2>1 DEF enrollMain, Begin
  <2>2. CASE reenrollMain(c) \/ registerMain(c) \/ revokeMain(c)
    <3>1. PICK k \in Kinds \ {"enroll"} : Begin(c, k, "loadKey")
      BY <2>2 DEF reenrollMain, registerMain, revokeMain
    <3> QED
      BY <3>1 DEF Begin
  <2>3. CASE LoadKey(c)
    BY <2>3 DEF LoadKey
  <2>4. CASE LoadCert(c)
    BY <2>4 DEF LoadCert
  <2>5. CASE GenCSR(c)
    <3>1. PICK k \in ClientKeys \ made :
             made' = made \cup {k} /\ new' = [new EXCEPT ![c] = k]
      BY <2>5 DEF GenCSR
    <3>2. /\ clientPc' = [clientPc EXCEPT ![c] = "post"]
          /\ UNCHANGED <<keyFile, certFile, issued, kind, key, cert,
                        clientOverlapped, interrupted>>
      BY <2>5 DEF GenCSR, AfterCSR
    <3>3. ClientTypeOK'
      BY <3>1, <3>2
    <3>4. NewInv'
      BY <3>1, <3>2
    <3> QED
      BY <3>2, <3>3, <3>4
  <2>6. CASE Sign(c)
    BY <2>6 DEF Sign
  <2>7. CASE Serve(c)
    BY <2>7 DEF Serve
  <2>8. CASE Store(c)
    BY <2>8 DEF Store, StoreNext
  <2>9. CASE Report(c) \/ Fail(c)
    BY <2>9 DEF Report, Fail
  <2> QED
    BY <1>2, <2>1, <2>2, <2>3, <2>4, <2>5, <2>6, <2>7, <2>8, <2>9 DEF ClientStep
<1> QED
  BY <1>1, <1>2 DEF ClientNext

(* Nothing is stored for a request that was refused or whose answer was    *)
(* lost, however many commands overlap or are interrupted.                 *)
THEOREM StoredIsCertified == ClientSpec => []StoredKeyCertified
<1>1. CertifiedInv => StoredKeyCertified
  BY DEF CertifiedInv
<1> QED
  BY CertifiedInit, CertifiedNext, <1>1, PTL DEF ClientSpec

-----------------------------------------------------------------------------
(* Commands run one at a time. *)
AloneInv ==
    \A c, d \in Commands : clientPc[c] # "idle" /\ clientPc[d] # "idle" => c = d

(* What the files hold at each step of a store, and otherwise. *)
FilesInv ==
    /\ (\A c \in Commands : clientPc[c] \notin Storing) => keyFile = certFile
    /\ \A c \in Commands :
        /\ clientPc[c] = "truncateCert" => keyFile = new[c]
        /\ clientPc[c] = "writeCert" => keyFile = new[c]

(* What a command has loaded is what the files hold, since no other        *)
(* command runs.                                                           *)
LoadedInv ==
    \A c \in Commands :
        /\ clientPc[c] = "loadCert" => key[c] = keyFile
        /\ clientPc[c] \in {"genCSR", "post"} /\ kind[c] # "enroll" =>
              key[c] = keyFile /\ cert[c] = certFile /\ certFile \in ClientKeys

(* The files and the commands are in order as long as commands ran one at  *)
(* a time and were not interrupted in a store.                             *)
OrderInv == AloneInv /\ FilesInv /\ LoadedInv

PairInv == CertifiedInv /\ (~clientOverlapped /\ ~interrupted => OrderInv)

(* One at a time and without interruption, every step keeps the files      *)
(* together and what was loaded from them up to date.                      *)
LEMMA PairNext == PairInv /\ [ClientNext]_clientVars => PairInv'
<1> SUFFICES ASSUME PairInv, [ClientNext]_clientVars PROVE PairInv'
  OBVIOUS
<1>0. CertifiedInv'
  BY CertifiedNext DEF PairInv
<1>a. ClientTypeOK
  BY DEF PairInv, CertifiedInv
<1>1. CASE UNCHANGED clientVars
  BY <1>0, <1>1 DEF clientVars, PairInv, OrderInv, AloneInv, FilesInv, LoadedInv
<1>2. ASSUME NEW c \in Commands, ClientStep(c) PROVE PairInv'
  <2> SUFFICES ASSUME ~clientOverlapped', ~interrupted' PROVE OrderInv'
    BY <1>0 DEF PairInv
  <2> USE <1>a, ClientAssumption DEF ClientTypeOK, Contents, Steps, Storing, ClientGoto,
          files, loaded, clientHistory, OrderInv
  <2>o. ~clientOverlapped /\ ~interrupted
    BY <1>2 DEF ClientStep, enrollMain, reenrollMain, registerMain, revokeMain,
       Begin, LoadKey, LoadCert, GenCSR, Sign, Serve, Store, Report, Fail
  <2>i. OrderInv
    BY <2>o DEF PairInv
  <2>0. \A d \in Commands : d # c => clientPc'[d] = clientPc[d]
    BY <1>2 DEF ClientStep, enrollMain, reenrollMain, registerMain, revokeMain,
       Begin, LoadKey, LoadCert, GenCSR, Sign, Serve, Store, Report, Fail
  <2>a. \A d \in Commands : d # c => clientPc[d] = "idle"
    BY <1>2, <2>i DEF AloneInv, ClientStep, enrollMain, reenrollMain, registerMain,
       revokeMain, Begin, LoadKey, LoadCert, GenCSR, Sign, Serve, Store,
       Report, Fail
  <2>b. AloneInv' /\ \A d \in Commands : d # c => clientPc'[d] = "idle"
    BY <2>0, <2>a DEF AloneInv
  <2> USE <2>i DEF AloneInv, FilesInv, LoadedInv
  <2>1. CASE enrollMain(c) \/ reenrollMain(c) \/ registerMain(c) \/ revokeMain(c)
    BY <2>1, <2>a, <2>b DEF enrollMain, reenrollMain, registerMain,
       revokeMain, Begin
  <2>3. CASE LoadKey(c)
    BY <2>3, <2>b DEF LoadKey
  <2>4. CASE LoadCert(c)
    BY <2>4, <2>b DEF LoadCert
  <2>5. CASE GenCSR(c)
    BY <2>5, <2>b DEF GenCSR, AfterCSR
  <2>6. CASE Sign(c) \/ Serve(c)
    BY <2>6, <2>a, <2>b DEF Sign, Serve
  <2>8. CASE Store(c)
    BY <2>8, <2>a, <2>b DEF Store, StoreNext
  <2>9. CASE Report(c) \/ Fail(c)
    <3>1. /\ clientPc[c] \notin Storing
          /\ clientPc' = [clientPc EXCEPT ![c] = "idle"]
          /\ UNCHANGED <<keyFile, certFile, kind, key, cert, new>>
      BY <2>9 DEF Report, Fail
    <3>2. \A d \in Commands : clientPc[d] \notin Storing
      BY <3>1, <2>a
    <3> QED
      BY <3>1, <3>2, <2>b
  <2> QED
    BY <1>2, <2>1, <2>3, <2>4, <2>5, <2>6, <2>8, <2>9 DEF ClientStep
<1> QED
  BY <1>1, <1>2 DEF ClientNext

(* In the first state the files and the commands are in order. *)
LEMMA PairInit == ClientInit => PairInv
<1> SUFFICES ASSUME ClientInit PROVE PairInv
  OBVIOUS
<1>1. CertifiedInv
  BY CertifiedInit
<1> QED
  BY <1>1 DEF ClientInit, PairInv, OrderInv, AloneInv, FilesInv, LoadedInv

(* Commands that run one at a time and are not interrupted leave a key and *)
(* a certificate that belong together.                                     *)
THEOREM PairsMatch == ClientSpec => []StoredPairMatches
<1>1. PairInv => StoredPairMatches
  BY DEF PairInv, OrderInv, FilesInv, StoredPairMatches
<1> QED
  BY PairInit, PairNext, <1>1, PTL DEF ClientSpec

(* Under the same conditions the server accepts every token that is made   *)
(* from the stored identity, as long as it does not refuse the request for *)
(* another reason.                                                         *)
THEOREM StoredAuthenticates == ClientSpec => []StoredKeyAuthenticates
<1>1. PairInv => StoredKeyAuthenticates
  <2> SUFFICES ASSUME PairInv, ~clientOverlapped, ~interrupted,
                      NEW c \in Commands, clientPc[c] = "post", kind[c] # "enroll"
               PROVE  CreateToken(c) /\ VerifyToken(c)
    BY DEF StoredKeyAuthenticates
  <2>0. OrderInv /\ StoredKeyCertified
    BY DEF PairInv, CertifiedInv
  <2>1. key[c] = keyFile /\ cert[c] = certFile /\ certFile \in ClientKeys
    BY <2>0 DEF OrderInv, LoadedInv
  <2>2. \A d \in Commands : clientPc[d] \notin Storing
    BY <2>0 DEF OrderInv, AloneInv, Storing
  <2>3. keyFile = certFile /\ certFile \in issued
    BY <2>0, <2>1, <2>2 DEF OrderInv, FilesInv, StoredKeyCertified
  <2> QED
    BY <2>1, <2>3 DEF CreateToken, VerifyToken
<1> QED
  BY PairInit, PairNext, <1>1, PTL DEF ClientSpec

-----------------------------------------------------------------------------
(* As long as commands ran one at a time, a command that stores finds in   *)
(* the files what it has written so far, whatever earlier commands were    *)
(* interrupted in.                                                         *)
WrittenInv ==
    \A c \in Commands :
        /\ clientPc[c] \in {"truncateCert", "writeCert", "stored"} => keyFile = new[c]
        /\ clientPc[c] = "stored" => certFile = new[c]

StoreInv == ClientTypeOK /\ (~clientOverlapped => AloneInv /\ WrittenInv)

(* Nothing is being stored in the first state. *)
LEMMA StoreInit == ClientInit => StoreInv
<1> SUFFICES ASSUME ClientInit PROVE StoreInv
  OBVIOUS
<1>1. ClientTypeOK
  BY CertifiedInit DEF CertifiedInv
<1> QED
  BY <1>1 DEF ClientInit, StoreInv, AloneInv, WrittenInv

(* No step of a command that runs alone undoes what it has written. *)
LEMMA StoreNextInv == ClientTypeOK' /\ StoreInv /\ [ClientNext]_clientVars => StoreInv'
<1> SUFFICES ASSUME ClientTypeOK', StoreInv, [ClientNext]_clientVars PROVE StoreInv'
  OBVIOUS
<1>1. CASE UNCHANGED clientVars
  BY <1>1 DEF clientVars, StoreInv, AloneInv, WrittenInv
<1>2. ASSUME NEW c \in Commands, ClientStep(c) PROVE StoreInv'
  <2> SUFFICES ASSUME ~clientOverlapped' PROVE AloneInv' /\ WrittenInv'
    BY DEF StoreInv
  <2> USE DEF ClientGoto, files, loaded, clientHistory
  <2>a. ClientTypeOK
    BY DEF StoreInv
  <2>o. ~clientOverlapped
    BY <1>2 DEF ClientStep, enrollMain, reenrollMain, registerMain, revokeMain,
       Begin, LoadKey, LoadCert, GenCSR, Sign, Serve, Store, Report, Fail
  <2>i. AloneInv /\ WrittenInv
    BY <2>o DEF StoreInv
  <2>0. \A d \in Commands : d # c => clientPc'[d] = clientPc[d]
    BY <1>2, <2>a DEF ClientTypeOK, ClientStep, enrollMain, reenrollMain, registerMain,
       revokeMain, Begin, LoadKey, LoadCert, GenCSR, Sign, Serve, Store,
       Report, Fail
  <2>1. \A d \in Commands : d # c => clientPc[d] = "idle"
    BY <1>2, <2>i DEF AloneInv, ClientStep, enrollMain, reenrollMain, registerMain,
       revokeMain, Begin, LoadKey, LoadCert, GenCSR, Sign, Serve, Store,
       Report, Fail, Storing
  <2>2. AloneInv' /\ \A d \in Commands : d # c => clientPc'[d] = "idle"
    BY <2>0, <2>1 DEF AloneInv
  <2>3. SUFFICES /\ clientPc'[c] \in {"truncateCert", "writeCert", "stored"} =>
                       keyFile' = new'[c]
                 /\ clientPc'[c] = "stored" => certFile' = new'[c]
    BY <2>2 DEF WrittenInv
  <2>4. CASE Store(c)
    BY <2>4, <2>a, <2>i DEF Store, StoreNext, Storing, WrittenInv, ClientTypeOK
  <2>5. CASE ~Store(c)
    <3>1. clientPc'[c] \notin {"truncateCert", "writeCert", "stored"}
      BY <1>2, <2>a, <2>5 DEF ClientTypeOK, ClientStep, enrollMain, reenrollMain,
         registerMain, revokeMain, Begin, LoadKey, LoadCert, GenCSR, AfterCSR,
         Sign, Serve, Report, Fail
    <3> QED
      BY <3>1
  <2> QED
    BY <2>4, <2>5
<1> QED
  BY <1>1, <1>2 DEF ClientNext

(* Unless commands have overlapped, a command that reports success has     *)
(* left its own key and certificate in the two files, also after commands  *)
(* that were killed while they stored theirs.                              *)
THEOREM SuccessIsStored == ClientSpec => []SuccessMeansStored
<1>1. CertifiedInv => ClientTypeOK
  BY DEF CertifiedInv
<1>2. StoreInv => SuccessMeansStored
  BY DEF StoreInv, WrittenInv, SuccessMeansStored
<1> QED
  BY CertifiedInit, CertifiedNext, StoreInit, StoreNextInv, <1>1, <1>2, PTL
     DEF ClientSpec
=============================================================================

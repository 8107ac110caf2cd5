---------------------------- MODULE CopServeProofs ---------------------------
(***************************************************************************)
(* Theorems about CopServe: for every set of configurations and any number *)
(* of init commands, starts, stops and requests.                           *)
(***************************************************************************)
EXTENDS CopServe, TLAPS

(* Zenon is tried first: most leaves are first-order, and to encode one    *)
(* for SMT takes long when its context is.                                 *)
USE ZenonT(3), SMTT(20), SMTT(30), ZenonT(20)

Phases ==
    {"down", "config", "registry", "signer", "signerKey", "handlers",
     "mgrCert", "register", "listen", "listenKey", "serving"}

InitSteps == {"idle", "truncateCert", "writeCert", "truncateKey", "writeKey"}

Server ==
    [pc : Phases, cfg : Configs \cup {None}, driver : Drivers \cup {"", "other"},
     certFile : {"", "ca-cert", "tls-cert"}, keyFile : {"", "ca-key", "tls-key"},
     registry : {None, "ldap", "db"}, db : BOOLEAN, certDB : BOOLEAN,
     signer : Signer \cup {None}, mgr : KeyPair \cup {None},
     tls : KeyPair \cup {None}, handlers : SUBSET Endpoints,
     half : Nat \cup {None}, disturbed : BOOLEAN,
     answer : {"", "ok", "error", "panic"}]

ServeTypeOK ==
    /\ files \in [Files -> Nat \cup {None}]
    /\ ipc \in InitSteps /\ inits \in Nat /\ complete \in BOOLEAN
    /\ srv \in Server
    /\ srv.pc # "down" => srv.cfg \in Configs
    /\ srv.pc \in {"signerKey", "mgrCert", "listenKey"} => srv.half \in Nat
    /\ requests \in Nat

(* A process that has not run. *)
LEMMA DownTyped == Down \in Server /\ Down.pc = "down"
<1>1. Down.pc = "down"
  BY DEF Down
<1>2. "down" \in Phases /\ "" \in Drivers \cup {"", "other"}
  BY DEF Phases
<1>3. Down \in Server
  BY <1>2 DEF Down, Server
<1> QED
  BY <1>1, <1>3

(* The files of TLS are there, those of the CA are not. *)
LEMMA ServeInitTyped == Init => ServeTypeOK
<1> SUFFICES ASSUME Init PROVE ServeTypeOK
  OBVIOUS
<1>1. srv \in Server /\ srv.pc = "down"
  BY DownTyped DEF Init
<1>2. files \in [Files -> Nat \cup {None}]
  BY DEF Init
<1>3. ipc \in InitSteps /\ inits \in Nat /\ complete \in BOOLEAN /\ requests \in Nat
  BY DEF Init, InitSteps
<1> QED
  BY <1>1, <1>2, <1>3 DEF ServeTypeOK

(* The file an init command is at. *)
LEMMA InitStepsTyped ==
    ASSUME ipc \in InitSteps, ipc # "idle"
    PROVE  InitStepFile(ipc) \in Files /\ InitStepAfter(ipc) \in InitSteps
  BY DEF InitSteps, InitStepFile, InitStepAfter, Files

(* The steps of the init command keep the types. *)
LEMMA InitCommandTyped ==
    ASSUME ServeTypeOK, InitCommand \/ WriteFile \/ InitEnds
    PROVE  ServeTypeOK'
  <1>1. CASE InitCommand
    BY <1>1 DEF InitCommand, ServeTypeOK, InitSteps
  <1>2. CASE WriteFile
    <2>1. InitStepFile(ipc) \in Files /\ InitStepAfter(ipc) \in InitSteps
      BY <1>2, InitStepsTyped DEF WriteFile, ServeTypeOK
    <2>2. files' \in [Files -> Nat \cup {None}]
      BY <1>2, <2>1 DEF WriteFile, ServeTypeOK
    <2>3. srv \in Server /\ (srv.disturbed \/ Starting) \in BOOLEAN
      BY DEF ServeTypeOK
    <2>4. /\ srv' \in Server
          /\ srv'.pc = srv.pc /\ srv'.cfg = srv.cfg /\ srv'.half = srv.half
      BY <1>2, <2>3 DEF WriteFile, Server
    <2>5. QED
      BY <1>2, <2>1, <2>2, <2>4 DEF WriteFile, ServeTypeOK
  <1>3. CASE InitEnds
    BY <1>3 DEF InitEnds, ServeTypeOK, InitSteps
  <1>4. QED
    BY <1>1, <1>2, <1>3

(* The steps of the start command keep the types, and set what the phases  *)
(* that follow read.                                                       *)
LEMMA ConfigTyped ==
    ASSUME ServeTypeOK, configInit \/ InitUserRegistry
    PROVE  ServeTypeOK'
<1> USE DEF ServerStep
<1>1. CASE configInit
  <2>1. srv.cfg \in Config /\ srv \in Server
    BY <1>1, ServeAssumption DEF configInit, ServeTypeOK
  <2>2. CASE ~srv.cfg.valid
    BY <1>1, <2>2, DownTyped DEF configInit, ServeTypeOK
  <2>3. CASE srv.cfg.valid
    <3>1. /\ TLSCertFile(srv.cfg) \in {"ca-cert", "tls-cert"}
          /\ TLSKeyFile(srv.cfg) \in {"ca-key", "tls-key"}
          /\ srv.cfg.driver \in Drivers \cup {"", "other"}
          /\ "sqlite3" \in Drivers
      BY <2>1 DEF Config, TLSCertFile, TLSKeyFile, Drivers
    <3> DEFINE driver == IF srv.cfg.driver = "" THEN "sqlite3" ELSE srv.cfg.driver
    <3>a. driver \in Drivers \cup {"", "other"}
      BY <3>1
    <3>b. srv' = [srv EXCEPT !.pc = "registry",
                     !.certFile = TLSCertFile(srv.cfg),
                     !.keyFile = TLSKeyFile(srv.cfg), !.driver = driver]
      BY <1>1, <2>3 DEF configInit
    <3> HIDE DEF driver
    <3>c. "registry" \in Phases
      BY DEF Phases
    <3>d. srv' \in Server
      BY <2>1, <3>1, <3>a, <3>b, <3>c DEF Server
    <3>2. srv' \in Server /\ srv'.pc = "registry" /\ srv'.cfg = srv.cfg
      BY <2>1, <3>b, <3>d DEF Server
    <3> QED
      BY <1>1, <3>2 DEF configInit, ServeTypeOK
  <2> QED
    BY <2>2, <2>3
<1>2. CASE InitUserRegistry
  <2>1. srv \in Server
    BY DEF ServeTypeOK
  <2>2. \/ srv' = Down
        \/ srv' = [srv EXCEPT !.pc = "signer", !.registry = "ldap"]
        \/ srv' = [srv EXCEPT !.pc = "signer", !.registry = "db", !.db = TRUE]
    BY <1>2 DEF InitUserRegistry
  <2>3. CASE srv' = Down
    BY <1>2, <2>3, DownTyped DEF InitUserRegistry, ServeTypeOK
  <2>4. CASE srv' # Down
    <3>1. CASE srv' = [srv EXCEPT !.pc = "signer", !.registry = "ldap"]
      <4>1. srv' \in Server /\ srv'.pc = "signer" /\ srv'.cfg = srv.cfg
        BY <2>1, <3>1 DEF Server, Phases
      <4> QED
        BY <1>2, <4>1 DEF InitUserRegistry, ServeTypeOK
    <3>2. CASE srv' = [srv EXCEPT !.pc = "signer", !.registry = "db", !.db = TRUE]
      <4>1. srv' \in Server /\ srv'.pc = "signer" /\ srv'.cfg = srv.cfg
        BY <2>1, <3>2 DEF Server, Phases
      <4> QED
        BY <1>2, <4>1 DEF InitUserRegistry, ServeTypeOK
    <3> QED
      BY <2>2, <2>4, <3>1, <3>2
  <2> QED
    BY <2>3, <2>4
<1> QED
  BY <1>1, <1>2

(* What is found in a file is the number of a key pair or None. *)
LEMMA LoadedTyped ==
    ASSUME ServeTypeOK, NEW f
    PROVE  LoadCert(f) \in Nat \cup {None} /\ LoadKey(f) \in Nat \cup {None}
  BY DEF ServeTypeOK, LoadCert, LoadKey, Files

(* What the end of SignerFromConfigAndDB sets, whichever signer it makes.  *)
LEMMA WithSignerSets ==
    ASSUME srv \in Server, NEW signer \in Signer \cup {None}
    PROVE  /\ WithSigner(signer) \in Server
           /\ WithSigner(signer).pc = "handlers"
           /\ WithSigner(signer).signer = signer
           /\ signer # None /\ srv.db => WithSigner(signer).certDB
           /\ \A f \in {"cfg", "tls", "certFile", "db", "answer", "disturbed", "registry"} :
                 WithSigner(signer)[f] = srv[f]
<1>0. "handlers" \in Phases
  BY DEF Phases
<1>1. CASE signer # None /\ srv.db
  <2>1. WithSigner(signer) = [srv EXCEPT !.pc = "handlers", !.half = None,
                                         !.signer = signer, !.certDB = TRUE]
    BY <1>1 DEF WithSigner, InitCertificateAccessor
  <2> QED
    BY <1>0, <2>1 DEF Server
<1>2. CASE ~(signer # None /\ srv.db)
  <2>1. WithSigner(signer) = [srv EXCEPT !.pc = "handlers", !.half = None,
                                         !.signer = signer]
    BY <1>2 DEF WithSigner
  <2> QED
    BY <1>0, <1>2, <2>1 DEF Server
<1> QED
  BY <1>1, <1>2

(* A signer is made of the two files, or of none.                          *)
LEMMA NewSignerTyped ==
    ASSUME NEW remotes \in SUBSET Profiles, NEW cert \in Nat \cup {None},
           NEW key \in Nat \cup {None}, NEW db \in BOOLEAN
    PROVE  /\ NewSigner(remotes, cert, key, db) \in Signer
           /\ NewSigner(remotes, cert, key, db) # None
<1>1. NewSigner(remotes, cert, key, db) \in Signer
  BY DEF NewSigner, Signer
<1> QED
  BY <1>1, ServeAssumption

(* The profiles that a configuration has signed for remotely. *)
LEMMA RemotesTyped ==
    ASSUME ServeTypeOK, srv.pc # "down"
    PROVE  srv.cfg.remotes \in SUBSET Profiles
<1>1. srv.cfg \in Config
  BY ServeAssumption DEF ServeTypeOK
<1> QED
  BY <1>1 DEF Config

(* The steps that load the signer and the manager. *)
LEMMA LoadTyped ==
    ASSUME ServeTypeOK,
           SignerCert \/ SignerFromConfigAndDB \/ LoadMgrKey \/ LoadMgrCert
    PROVE  ServeTypeOK'
<1> USE DEF ServerStep
<1>0. srv \in Server
  BY DEF ServeTypeOK
<1>1. CASE SignerCert
  <2>1. LoadCert("ca-cert") \in Nat \cup {None}
    BY LoadedTyped
  <2>3. ASSUME NEW signer \in Signer \cup {None}, srv' = WithSigner(signer)
        PROVE  ServeTypeOK'
    <3>1. srv' \in Server /\ srv'.cfg = srv.cfg /\ srv'.pc = "handlers"
      BY <1>0, <2>3, WithSignerSets
    <3> QED
      BY <1>1, <3>1 DEF SignerCert, ServeTypeOK
  <2>4. NewSigner(Profiles, None, None, srv.db) \in Signer
    BY <1>0, NewSignerTyped DEF Server
  <2>5. CASE /\ LoadCert("ca-cert") # None
             /\ srv' = [srv EXCEPT !.pc = "signerKey", !.half = LoadCert("ca-cert")]
    <3>1. /\ srv' \in Server /\ srv'.cfg = srv.cfg
          /\ srv'.pc = "signerKey" /\ srv'.half \in Nat
      BY <1>0, <2>1, <2>5 DEF Server, Phases
    <3> QED
      BY <1>1, <3>1 DEF SignerCert, ServeTypeOK
  <2> QED
    BY <1>1, <2>3, <2>4, <2>5 DEF SignerCert
<1>2. CASE SignerFromConfigAndDB
  <2> DEFINE signer == IF LoadKey("ca-key") = None THEN None
                       ELSE NewSigner(srv.cfg.remotes, srv.half, LoadKey("ca-key"), srv.db)
  <2>1. /\ LoadKey("ca-key") \in Nat \cup {None} /\ srv.half \in Nat
        /\ srv.db \in BOOLEAN /\ srv.cfg.remotes \in SUBSET Profiles
    BY <1>0, <1>2, LoadedTyped, RemotesTyped DEF SignerFromConfigAndDB, ServeTypeOK, Server
  <2>2. signer \in Signer \cup {None}
    BY <2>1, NewSignerTyped
  <2>3. srv' = WithSigner(signer)
    BY <1>2 DEF SignerFromConfigAndDB
  <2> HIDE DEF signer
  <2>4. srv' \in Server /\ srv'.pc = "handlers" /\ srv'.cfg = srv.cfg
    BY <1>0, <2>2, <2>3, WithSignerSets
  <2> QED
    BY <1>2, <2>4 DEF SignerFromConfigAndDB, ServeTypeOK
<1>3. CASE LoadMgrKey
  <2>1. LoadKey(MgrKeyFile) \in Nat \cup {None}
    BY LoadedTyped
  <2>a. \/ srv' = [srv EXCEPT !.pc = "register", !.half = LoadKey(MgrKeyFile)]
        \/ /\ LoadKey(MgrKeyFile) # None
           /\ srv' = [srv EXCEPT !.pc = "mgrCert", !.half = LoadKey(MgrKeyFile)]
    BY <1>3 DEF LoadMgrKey
  <2>2. CASE srv' = [srv EXCEPT !.pc = "register", !.half = LoadKey(MgrKeyFile)]
    <3>1. srv' \in Server /\ srv'.cfg = srv.cfg /\ srv'.pc = "register"
      BY <1>0, <2>1, <2>2 DEF Server, Phases
    <3> QED
      BY <1>3, <3>1 DEF LoadMgrKey, ServeTypeOK
  <2>3. CASE /\ LoadKey(MgrKeyFile) # None
             /\ srv' = [srv EXCEPT !.pc = "mgrCert", !.half = LoadKey(MgrKeyFile)]
    <3>1. /\ srv' \in Server /\ srv'.cfg = srv.cfg
          /\ srv'.pc = "mgrCert" /\ srv'.half \in Nat
      BY <1>0, <2>1, <2>3 DEF Server, Phases
    <3> QED
      BY <1>3, <3>1 DEF LoadMgrKey, ServeTypeOK
  <2> QED
    BY <2>a, <2>2, <2>3
<1>4. CASE LoadMgrCert
  <2>1. LoadCert("ca-cert") \in Nat \cup {None} /\ srv.half \in Nat
    BY <1>4, LoadedTyped DEF LoadMgrCert, ServeTypeOK
  <2> DEFINE mgr == IF LoadCert("ca-cert") = None THEN None
                    ELSE [cert |-> LoadCert("ca-cert"), key |-> srv.half]
  <2>2. mgr \in KeyPair \cup {None}
    BY <2>1 DEF KeyPair
  <2>3. srv' = [srv EXCEPT !.pc = "register", !.half = None, !.mgr = mgr]
    BY <1>4 DEF LoadMgrCert
  <2> HIDE DEF mgr
  <2>4. srv' \in Server /\ srv'.pc = "register" /\ srv'.cfg = srv.cfg
    BY <1>0, <2>2, <2>3 DEF Server, Phases
  <2> QED
    BY <1>4, <2>4 DEF LoadMgrCert, ServeTypeOK
<1> QED
  BY <1>1, <1>2, <1>3, <1>4

(* The steps that end the start. *)
LEMMA ListenTyped ==
    ASSUME ServeTypeOK, registerHandlers \/ Listen \/ ListenAndServeTLS
    PROVE  ServeTypeOK'
<1> USE DEF ServerStep
<1>0. srv \in Server
  BY DEF ServeTypeOK
<1>1. CASE registerHandlers
  <2> DEFINE made == {e \in Endpoints :
             /\ e = "tcert" => srv.mgr # None
             /\ e \in SignerEndpoints => srv.signer # None
             /\ e = "ocspsign" => srv.cfg.responder
             /\ e \notin srv.cfg.broken}
  <2>1. made \subseteq Endpoints
    OBVIOUS
  <2>2. srv' = [srv EXCEPT !.pc = "listen", !.handlers = made]
    BY <1>1 DEF registerHandlers
  <2> HIDE DEF made
  <2>3. srv' \in Server /\ srv'.pc = "listen" /\ srv'.cfg = srv.cfg
    BY <1>0, <2>1, <2>2 DEF Server, Phases
  <2> QED
    BY <1>1, <2>3 DEF registerHandlers, ServeTypeOK
<1>2. CASE Listen
  <2>1. LoadCert(srv.certFile) \in Nat \cup {None}
    BY LoadedTyped
  <2>2. CASE srv' = [srv EXCEPT !.pc = "serving"]
    <3>1. srv' \in Server /\ srv'.pc = "serving" /\ srv'.cfg = srv.cfg
      BY <1>0, <2>2 DEF Server, Phases
    <3> QED
      BY <1>2, <3>1 DEF Listen, ServeTypeOK
  <2>3. CASE srv' = Down
    BY <1>2, <2>3, DownTyped DEF Listen, ServeTypeOK
  <2>4. CASE /\ LoadCert(srv.certFile) # None
             /\ srv' = [srv EXCEPT !.pc = "listenKey", !.half = LoadCert(srv.certFile)]
    <3>1. /\ srv' \in Server /\ srv'.pc = "listenKey" /\ srv'.cfg = srv.cfg
          /\ srv'.half \in Nat
      BY <1>0, <2>1, <2>4 DEF Server, Phases
    <3> QED
      BY <1>2, <3>1 DEF Listen, ServeTypeOK
  <2> QED
    BY <1>2, <2>2, <2>3, <2>4 DEF Listen
<1>3. CASE ListenAndServeTLS
  <2>1. CASE LoadKey(srv.keyFile) # srv.half
    BY <1>3, <2>1, DownTyped DEF ListenAndServeTLS, ServeTypeOK
  <2>2. CASE LoadKey(srv.keyFile) = srv.half
    <3> DEFINE pair == [cert |-> srv.half, key |-> LoadKey(srv.keyFile)]
    <3>1. pair \in KeyPair
      BY <1>3, <2>2 DEF ListenAndServeTLS, ServeTypeOK, KeyPair
    <3>2. srv' = [srv EXCEPT !.pc = "serving", !.half = None, !.tls = pair]
      BY <1>3, <2>2 DEF ListenAndServeTLS
    <3> HIDE DEF pair
    <3>3. srv' \in Server /\ srv'.pc = "serving" /\ srv'.cfg = srv.cfg
      BY <1>0, <3>1, <3>2 DEF Server, Phases
    <3> QED
      BY <1>3, <3>3 DEF ListenAndServeTLS, ServeTypeOK
  <2> QED
    BY <2>1, <2>2
<1> QED
  BY <1>1, <1>2, <1>3

(* A server starts from its zero globals, and a request leaves them alone. *)
LEMMA ServeStepTyped == ServeTypeOK /\ [Next]_vars => ServeTypeOK'
<1> SUFFICES ASSUME ServeTypeOK, [Next]_vars PROVE ServeTypeOK'
  OBVIOUS
<1>0. srv \in Server
  BY DEF ServeTypeOK
<1>1. CASE UNCHANGED vars
  BY <1>1 DEF vars, ServeTypeOK
<1>2. ASSUME NEW c \in Configs, Start(c) PROVE ServeTypeOK'
  <2>1. PICK b \in BOOLEAN :
           srv' = [Down EXCEPT !.pc = "config", !.cfg = c, !.disturbed = b]
    BY <1>2 DEF Start
  <2>2. Down \in Server
    BY DownTyped
  <2>3. srv' \in Server /\ srv'.pc = "config" /\ srv'.cfg = c
    BY <2>1, <2>2 DEF Server, Phases
  <2> QED
    BY <1>2, <2>3 DEF Start, ServeTypeOK
<1>3. CASE Stop
  BY <1>3, DownTyped DEF Stop, ServeTypeOK
<1>4. ASSUME NEW a \in {"ok", "error", "panic"}, Answer(a), srv.pc = "serving"
      PROVE  ServeTypeOK'
  <2>1. srv' \in Server /\ srv'.pc = "serving" /\ srv'.cfg = srv.cfg
    BY <1>0, <1>4 DEF Answer, Server
  <2> QED
    BY <1>4, <2>1 DEF Answer, ServeTypeOK
<1>5. ASSUME NEW e \in Endpoints, Sign(e) PROVE ServeTypeOK'
  BY <1>4, <1>5 DEF Sign
<1>6. CASE RevokeSerial \/ RevokeName
  BY <1>4, <1>6 DEF RevokeSerial, RevokeName
<1> QED
  BY <1>1, <1>2, <1>3, <1>5, <1>6, InitCommandTyped, ConfigTyped, LoadTyped,
     ListenTyped DEF Next, Step, Done

-----------------------------------------------------------------------------
(***************************************************************************)
(* The inductive invariant.  The two files belong to one init command when *)
(* the last one was complete; a server that has found such files, and that *)
(* no init command has disturbed, has loaded nothing but that pair; and    *)
(* what it has loaded so far fits what it will still load.                 *)
(***************************************************************************)
FilesInv ==
    /\ complete => /\ files["ca-cert"] \in Nat
                   /\ files["ca-key"] = files["ca-cert"]
    /\ ipc \in {"truncateKey", "writeKey"} => files["ca-cert"] = inits

SignerLoaded == {"handlers", "mgrCert", "register", "listen", "listenKey"}

MgrLoaded == {"register", "listen", "listenKey"}

RegistrySet == {"signer", "signerKey", "serving"} \cup SignerLoaded

PairLoaded(n) ==
    /\ srv.pc \in {"signerKey", "mgrCert"} => srv.half = n
    /\ srv.pc = "listenKey" /\ srv.cfg.tlsCert = "" => srv.half = n
    /\ srv.pc \in SignerLoaded /\ (srv.cfg.caFlags \/ srv.cfg.remotes = Profiles) =>
          srv.signer # None
    /\ srv.pc \in SignerLoaded /\ srv.signer # None /\ srv.cfg.remotes # Profiles =>
          srv.signer.cert = n /\ srv.signer.key = n
    /\ srv.pc \in MgrLoaded =>
          srv.mgr # None /\ srv.mgr.cert = n /\ srv.mgr.key = n
    /\ srv.pc \in {"listen", "listenKey"} /\ srv.signer # None =>
          SignerEndpoints \ srv.cfg.broken \subseteq srv.handlers

StartInv ==
    Starting /\ ~srv.disturbed => complete /\ PairLoaded(files["ca-cert"])

GlobalsInv ==
    /\ Starting => srv.tls = None
    /\ srv.pc \in RegistrySet =>
          /\ srv.certFile = TLSCertFile(srv.cfg)
          /\ srv.registry \in {"ldap", "db"}
          /\ srv.registry = "db" <=> srv.db
    /\ srv.pc = "registry" => srv.certFile = TLSCertFile(srv.cfg)
    /\ srv.pc \in {"config", "registry"} => ~srv.db
    /\ srv.signer # None =>
          /\ srv.pc \in RegistrySet
          /\ srv.signer.recording <=> srv.db /\ srv.signer.remotes # Profiles
          /\ srv.db => srv.certDB
    /\ srv.answer # "" => srv.pc = "serving"

ServerInv == StartInv /\ GlobalsInv /\ OneKeyPair /\ NothingNil

(* The init command writes the certificate, then the key. *)
LEMMA FilesStep == ServeTypeOK /\ FilesInv /\ [Next]_vars => FilesInv'
<1> SUFFICES ASSUME ServeTypeOK, FilesInv, [Next]_vars PROVE FilesInv'
  OBVIOUS
<1>1. CASE UNCHANGED <<files, complete, ipc, inits>>
  BY <1>1 DEF FilesInv
<1>2. CASE InitCommand \/ InitEnds
  BY <1>2 DEF InitCommand, InitEnds, FilesInv
<1>3. CASE WriteFile
  <2>1. /\ ipc \in {"truncateCert", "writeCert", "truncateKey", "writeKey"}
        /\ files \in [{"ca-cert", "ca-key", "tls-cert", "tls-key"} -> Nat \cup {None}]
        /\ inits \in Nat /\ inits' = inits
    BY <1>3 DEF WriteFile, ServeTypeOK, InitSteps, Files
  <2>2. CASE ipc = "truncateCert"
    BY <1>3, <2>1, <2>2 DEF WriteFile, InitStepFile, InitStepAfter, FilesInv
  <2>3. CASE ipc = "writeCert"
    BY <1>3, <2>1, <2>3 DEF WriteFile, InitStepFile, InitStepAfter, FilesInv
  <2>4. CASE ipc = "truncateKey"
    BY <1>3, <2>1, <2>4 DEF WriteFile, InitStepFile, InitStepAfter, FilesInv
  <2>5. CASE ipc = "writeKey"
    BY <1>3, <2>1, <2>5 DEF WriteFile, InitStepFile, InitStepAfter, FilesInv
  <2> QED
    BY <2>1, <2>2, <2>3, <2>4, <2>5
<1> QED
  BY <1>1, <1>2, <1>3 DEF Next, Step, Start, Stop, Sign, RevokeSerial, RevokeName,
     Answer, Done, vars, configInit, InitUserRegistry, SignerCert,
     SignerFromConfigAndDB, LoadMgrKey, LoadMgrCert, registerHandlers, Listen,
     ListenAndServeTLS, ServerStep

(* A server that has ended, or was never started, promises nothing. *)
LEMMA DownServer ==
    ASSUME srv' = Down
    PROVE  ServerInv'
<1>1. srv'.pc = "down" /\ srv'.signer = None /\ srv'.answer = ""
  BY DEF Down
<1> QED
  BY <1>1 DEF ServerInv, StartInv, GlobalsInv, OneKeyPair, NothingNil, Starting,
     RegistrySet, SignerLoaded

(* A step that leaves the server and the files alone. *)
LEMMA SameServer ==
    ASSUME ServerInv, UNCHANGED <<srv, files, complete>>
    PROVE  ServerInv'
<1>1. StartInv'
  BY DEF ServerInv, StartInv, Starting, PairLoaded
<1>2. GlobalsInv'
  BY DEF ServerInv, GlobalsInv, Starting
<1>3. OneKeyPair' /\ NothingNil'
  BY DEF ServerInv, OneKeyPair, NothingNil
<1> QED
  BY <1>1, <1>2, <1>3 DEF ServerInv

(* An init command cannot touch a running server, and marks one that is    *)
(* starting.                                                               *)
LEMMA InitCommandServer ==
    ASSUME ServeTypeOK, ServerInv, InitCommand \/ WriteFile \/ InitEnds
    PROVE  ServerInv'
<1>1. CASE InitCommand \/ InitEnds
  <2>1. UNCHANGED <<srv, files, complete>>
    BY <1>1 DEF InitCommand, InitEnds
  <2> QED
    BY <2>1, SameServer
<1>2. CASE WriteFile
  <2>0. srv \in Server
    BY DEF ServeTypeOK
  <2>1. PICK b \in BOOLEAN :
           b = (srv.disturbed \/ Starting) /\ srv' = [srv EXCEPT !.disturbed = b]
    BY <1>2 DEF WriteFile
  <2>2. /\ srv'.pc = srv.pc /\ srv'.cfg = srv.cfg /\ srv'.tls = srv.tls
        /\ srv'.certFile = srv.certFile /\ srv'.registry = srv.registry
        /\ srv'.db = srv.db /\ srv'.certDB = srv.certDB
        /\ srv'.signer = srv.signer /\ srv'.mgr = srv.mgr
        /\ srv'.handlers = srv.handlers /\ srv'.answer = srv.answer
        /\ srv'.disturbed = b
    BY <2>0, <2>1 DEF Server
  <2>3. Starting' => b
    BY <2>1, <2>2 DEF Starting
  <2>4. StartInv'
    BY <2>2, <2>3 DEF StartInv
  <2>5. GlobalsInv'
    BY <2>2 DEF ServerInv, GlobalsInv, Starting
  <2>6. OneKeyPair' /\ NothingNil'
    BY <2>1, <2>2 DEF ServerInv, OneKeyPair, NothingNil
  <2> QED
    BY <2>4, <2>5, <2>6 DEF ServerInv
<1> QED
  BY <1>1, <1>2

(* The start begins with the files as they are. *)
LEMMA StartServer ==
    ASSUME NEW c \in Configs, Start(c)
    PROVE  ServerInv'
<1>1. PICK b \in BOOLEAN :
         /\ b = ~complete
         /\ srv' = [Down EXCEPT !.pc = "config", !.cfg = c, !.disturbed = b]
  BY DEF Start
<1>2. Down \in Server
  BY DownTyped
<1>3. /\ srv'.pc = "config" /\ srv'.disturbed = b
      /\ srv'.tls = Down.tls /\ srv'.signer = Down.signer
      /\ srv'.answer = Down.answer /\ srv'.db = Down.db
  BY <1>1, <1>2 DEF Server
<1>4. Down.tls = None /\ Down.signer = None /\ Down.answer = "" /\ ~Down.db
  BY DEF Down
<1>5. UNCHANGED <<files, complete>>
  BY DEF Start
<1> QED
  BY <1>1, <1>3, <1>4, <1>5
     DEF ServerInv, StartInv, PairLoaded, GlobalsInv, OneKeyPair, NothingNil,
         RegistrySet, SignerLoaded, MgrLoaded, Starting

(* The configuration is read and the registry chosen: nothing is loaded    *)
(* yet.                                                                    *)
LEMMA ConfigServer ==
    ASSUME ServeTypeOK, ServerInv, configInit \/ InitUserRegistry
    PROVE  ServerInv'
<1> USE DEF ServerStep
<1>0. srv \in Server /\ StartInv /\ GlobalsInv
  BY DEF ServeTypeOK, ServerInv
<1>1. CASE srv' = Down
  BY <1>1, DownServer
<1>2. CASE configInit /\ srv' # Down
  <2> DEFINE driver == IF srv.cfg.driver = "" THEN "sqlite3" ELSE srv.cfg.driver
  <2>1. srv' = [srv EXCEPT !.pc = "registry",
                   !.certFile = TLSCertFile(srv.cfg),
                   !.keyFile = TLSKeyFile(srv.cfg), !.driver = driver]
    BY <1>2 DEF configInit
  <2> HIDE DEF driver
  <2>2. /\ srv'.pc = "registry" /\ srv'.cfg = srv.cfg /\ srv'.tls = srv.tls
        /\ srv'.certFile = TLSCertFile(srv.cfg) /\ srv'.signer = srv.signer
        /\ srv'.answer = srv.answer /\ srv'.disturbed = srv.disturbed
        /\ srv'.db = srv.db
    BY <1>0, <2>1 DEF Server
  <2>3. srv.pc = "config" /\ UNCHANGED <<files, complete>>
    BY <1>2 DEF configInit
  <2>4. srv.signer = None /\ srv.answer = "" /\ srv.tls = None
    BY <1>0, <2>3 DEF GlobalsInv, Starting, RegistrySet, SignerLoaded
  <2>5. StartInv'
    BY <1>0, <2>2, <2>3 DEF StartInv, Starting, PairLoaded, SignerLoaded, MgrLoaded
  <2>6. GlobalsInv'
    BY <1>0, <2>2, <2>3, <2>4 DEF GlobalsInv, Starting, RegistrySet, SignerLoaded, TLSCertFile
  <2> QED
    BY <2>2, <2>4, <2>5, <2>6 DEF ServerInv, OneKeyPair, NothingNil
<1>3. CASE InitUserRegistry /\ srv' # Down
  <2>1. \/ srv' = [srv EXCEPT !.pc = "signer", !.registry = "ldap"]
        \/ srv' = [srv EXCEPT !.pc = "signer", !.registry = "db", !.db = TRUE]
    BY <1>3 DEF InitUserRegistry
  <2>2. /\ srv'.pc = "signer" /\ srv'.cfg = srv.cfg /\ srv'.tls = srv.tls
        /\ srv'.certFile = srv.certFile /\ srv'.signer = srv.signer
        /\ srv'.answer = srv.answer /\ srv'.disturbed = srv.disturbed
        /\ srv'.registry \in {"ldap", "db"} /\ (srv'.registry = "db" <=> srv'.db)
    <3>1. CASE srv' = [srv EXCEPT !.pc = "signer", !.registry = "ldap"]
      <4>1. ~srv.db
        BY <1>0, <1>3 DEF InitUserRegistry, GlobalsInv
      <4> QED
        BY <1>0, <3>1, <4>1 DEF Server
    <3>2. CASE srv' = [srv EXCEPT !.pc = "signer", !.registry = "db", !.db = TRUE]
      BY <1>0, <3>2 DEF Server
    <3> QED
      BY <2>1, <3>1, <3>2
  <2>3. srv.pc = "registry" /\ UNCHANGED <<files, complete>>
    BY <1>3 DEF InitUserRegistry
  <2>4. srv.signer = None /\ srv.answer = "" /\ srv.tls = None
    BY <1>0, <2>3 DEF GlobalsInv, Starting, RegistrySet, SignerLoaded
  <2>5. StartInv'
    BY <1>0, <2>2, <2>3 DEF StartInv, Starting, PairLoaded, SignerLoaded, MgrLoaded
  <2>6. GlobalsInv'
    BY <1>0, <2>2, <2>3, <2>4 DEF GlobalsInv, Starting, RegistrySet, SignerLoaded, TLSCertFile
  <2> QED
    BY <2>2, <2>4, <2>5, <2>6 DEF ServerInv, OneKeyPair, NothingNil
<1> QED
  BY <1>1, <1>2, <1>3

(* The signer is made of the two files, with the database when the         *)
(* registry has one.                                                       *)
LEMMA SignerServer ==
    ASSUME ServeTypeOK, FilesInv, ServerInv, SignerCert \/ SignerFromConfigAndDB
    PROVE  ServerInv'
<1> USE DEF ServerStep
<1>0. srv \in Server /\ StartInv /\ GlobalsInv
  BY DEF ServeTypeOK, ServerInv
<1>1. CASE SignerCert
  <2> DEFINE cert == LoadCert("ca-cert")
  <2>1. cert = files["ca-cert"]
    BY DEF LoadCert
  <2>2. srv.pc = "signer" /\ UNCHANGED <<files, complete>>
    BY <1>1 DEF SignerCert
  <2>3. ~srv.disturbed => complete /\ cert \in Nat /\ cert # None
    BY <1>0, <2>1, <2>2, ServeAssumption DEF StartInv, Starting, FilesInv
  <2>4. ASSUME NEW signer \in Signer \cup {None}, srv' = WithSigner(signer),
               signer = None => /\ srv.cfg.remotes # Profiles
                                /\ ~srv.cfg.caFlags \/ cert = None,
               signer # None => srv.cfg.remotes = Profiles /\ ~signer.recording
                                /\ signer.remotes = Profiles
        PROVE  ServerInv'
    <3>1. /\ srv'.pc = "handlers" /\ srv'.cfg = srv.cfg /\ srv'.tls = srv.tls
          /\ srv'.certFile = srv.certFile /\ srv'.signer = signer
          /\ srv'.db = srv.db /\ srv'.answer = srv.answer
          /\ srv'.disturbed = srv.disturbed /\ srv'.registry = srv.registry
          /\ signer # None /\ srv.db => srv'.certDB
      BY <1>0, <2>4, WithSignerSets
    <3>2. StartInv'
      BY <2>2, <2>3, <2>4, <3>1 DEF StartInv, PairLoaded, SignerLoaded, MgrLoaded
    <3>3. GlobalsInv'
      BY <1>0, <2>2, <2>4, <3>1
         DEF GlobalsInv, Starting, RegistrySet, SignerLoaded, TLSCertFile
    <3>4. srv.answer = ""
      BY <1>0, <2>2 DEF GlobalsInv
    <3> QED
      BY <3>1, <3>2, <3>3, <3>4 DEF ServerInv, OneKeyPair, NothingNil
  <2>5. CASE srv.cfg.remotes = Profiles
    <3> DEFINE signer == NewSigner(Profiles, None, None, srv.db)
    <3>0. srv.db \in BOOLEAN /\ None \in Nat \cup {None} /\ Profiles \in SUBSET Profiles
      BY <1>0 DEF Server
    <3>1. signer \in Signer /\ signer # None
      BY <3>0, NewSignerTyped
    <3>2. ~signer.recording /\ signer.remotes = Profiles
      BY DEF NewSigner
    <3>3. srv' = WithSigner(signer)
      BY <1>1, <2>5 DEF SignerCert
    <3> QED
      BY <2>4, <2>5, <3>1, <3>2, <3>3
  <2>6. CASE srv.cfg.remotes # Profiles /\ (~srv.cfg.caFlags \/ cert = None)
    <3>1. srv' = WithSigner(None)
      BY <1>1, <2>6 DEF SignerCert
    <3> QED
      BY <2>4, <2>6, <3>1
  <2>7. CASE srv.cfg.remotes # Profiles /\ srv.cfg.caFlags /\ cert # None
    <3>1. srv' = [srv EXCEPT !.pc = "signerKey", !.half = cert]
      BY <1>1, <2>7 DEF SignerCert
    <3> HIDE DEF cert
    <3>2. /\ srv'.pc = "signerKey" /\ srv'.half = cert
          /\ srv'.cfg = srv.cfg /\ srv'.tls = srv.tls
          /\ srv'.certFile = srv.certFile /\ srv'.signer = srv.signer
          /\ srv'.db = srv.db /\ srv'.certDB = srv.certDB
          /\ srv'.answer = srv.answer /\ srv'.disturbed = srv.disturbed
          /\ srv'.registry = srv.registry
      BY <1>0, <3>1 DEF Server
    <3>3. StartInv'
      BY <2>1, <2>2, <2>3, <3>2 DEF StartInv, PairLoaded, SignerLoaded, MgrLoaded
    <3>4. GlobalsInv'
      BY <1>0, <2>2, <3>2
         DEF GlobalsInv, Starting, RegistrySet, SignerLoaded, TLSCertFile
    <3>5. srv.answer = ""
      BY <1>0, <2>2 DEF GlobalsInv
    <3> QED
      BY <3>2, <3>3, <3>4, <3>5 DEF ServerInv, OneKeyPair, NothingNil
  <2> QED
    BY <2>5, <2>6, <2>7
<1>2. CASE SignerFromConfigAndDB
  <2> DEFINE key == LoadKey("ca-key")
             signer == IF key = None THEN None
                       ELSE NewSigner(srv.cfg.remotes, srv.half, key, srv.db)
  <2>1. key = files["ca-key"] /\ srv.db \in BOOLEAN
    BY <1>0 DEF LoadKey, Server
  <2>2. srv.pc = "signerKey" /\ UNCHANGED <<files, complete>>
    BY <1>2 DEF SignerFromConfigAndDB
  <2>3. signer # None =>
          /\ signer.cert = srv.half /\ signer.key = key
          /\ signer.recording <=> srv.db /\ signer.remotes # Profiles
    BY DEF NewSigner
  <2>4. /\ signer \in Signer \cup {None}
        /\ key # None => signer # None
    <3>1. key \in Nat \cup {None} /\ srv.half \in Nat /\ srv.cfg.remotes \in SUBSET Profiles
      BY <2>2, LoadedTyped, RemotesTyped DEF ServeTypeOK
    <3> QED
      BY <2>1, <3>1, NewSignerTyped
  <2>5. srv' = WithSigner(signer)
    BY <1>2 DEF SignerFromConfigAndDB
  <2> HIDE DEF signer, key
  <2>6. /\ srv'.pc = "handlers" /\ srv'.cfg = srv.cfg /\ srv'.tls = srv.tls
        /\ srv'.certFile = srv.certFile /\ srv'.signer = signer
        /\ srv'.db = srv.db /\ srv'.answer = srv.answer
        /\ srv'.disturbed = srv.disturbed /\ srv'.registry = srv.registry
        /\ signer # None /\ srv.db => srv'.certDB
    BY <1>0, <2>4, <2>5, WithSignerSets
  <2>7. StartInv'
    <3> SUFFICES ASSUME ~srv.disturbed
                 PROVE  complete' /\ PairLoaded(files["ca-cert"])'
      BY <2>6 DEF StartInv
    <3>1. /\ complete /\ files["ca-cert"] \in Nat
          /\ files["ca-key"] = files["ca-cert"] /\ srv.half = files["ca-cert"]
      BY <1>0, <2>2 DEF StartInv, Starting, FilesInv, PairLoaded
    <3>2. key # None
      BY <2>1, <3>1, ServeAssumption
    <3> QED
      BY <2>1, <2>2, <2>3, <2>4, <2>6, <3>1, <3>2
         DEF PairLoaded, SignerLoaded, MgrLoaded
  <2>8. GlobalsInv'
    BY <1>0, <2>2, <2>3, <2>6
       DEF GlobalsInv, Starting, RegistrySet, SignerLoaded, TLSCertFile
  <2>9. srv.answer = ""
    BY <1>0, <2>2 DEF GlobalsInv
  <2> QED
    BY <2>6, <2>7, <2>8, <2>9 DEF ServerInv, OneKeyPair, NothingNil
<1> QED
  BY <1>1, <1>2

(* The manager of tcert is made of the two files, read in the other order. *)
LEMMA MgrServer ==
    ASSUME ServeTypeOK, FilesInv, ServerInv, LoadMgrKey \/ LoadMgrCert
    PROVE  ServerInv'
<1> USE DEF ServerStep
<1>0. srv \in Server /\ StartInv /\ GlobalsInv
  BY DEF ServeTypeOK, ServerInv
<1>a. srv.pc \in {"handlers", "mgrCert"} /\ UNCHANGED <<files, complete>>
  BY DEF LoadMgrKey, LoadMgrCert
<1>b. srv.answer = ""
  BY <1>0, <1>a DEF GlobalsInv
<1>1. CASE LoadMgrKey
  <2> DEFINE key == LoadKey(MgrKeyFile)
             pc == IF key = None THEN "register" ELSE "mgrCert"
  <2>1. key = files["ca-key"]
    BY DEF LoadKey, MgrKeyFile
  <2>2. srv.pc = "handlers"
    BY <1>1 DEF LoadMgrKey
  <2>3. srv' = [srv EXCEPT !.pc = pc, !.half = key]
    BY <1>1 DEF LoadMgrKey
  <2>4. pc \in {"register", "mgrCert"} /\ (key # None => pc = "mgrCert")
    OBVIOUS
  <2> HIDE DEF pc, key
  <2>5. /\ srv'.pc = pc /\ srv'.half = key
        /\ srv'.cfg = srv.cfg /\ srv'.tls = srv.tls
        /\ srv'.certFile = srv.certFile /\ srv'.signer = srv.signer
        /\ srv'.db = srv.db /\ srv'.certDB = srv.certDB
        /\ srv'.answer = srv.answer /\ srv'.disturbed = srv.disturbed
        /\ srv'.registry = srv.registry
    BY <1>0, <2>3 DEF Server
  <2>6. StartInv'
    <3> SUFFICES ASSUME ~srv.disturbed
                 PROVE  complete' /\ PairLoaded(files["ca-cert"])'
      BY <2>5 DEF StartInv
    <3>1. /\ complete /\ files["ca-cert"] \in Nat
          /\ files["ca-key"] = files["ca-cert"] /\ PairLoaded(files["ca-cert"])
      BY <1>0, <2>2 DEF StartInv, Starting, FilesInv
    <3>2. key # None
      BY <2>1, <3>1, ServeAssumption
    <3> QED
      BY <1>a, <2>1, <2>2, <2>4, <2>5, <3>1, <3>2
         DEF PairLoaded, SignerLoaded, MgrLoaded
  <2>7. GlobalsInv'
    BY <1>0, <2>2, <2>4, <2>5
       DEF GlobalsInv, Starting, RegistrySet, SignerLoaded, TLSCertFile
  <2> QED
    BY <1>b, <2>4, <2>5, <2>6, <2>7 DEF ServerInv, OneKeyPair, NothingNil
<1>2. CASE LoadMgrCert
  <2> DEFINE cert == LoadCert("ca-cert")
             mgr == IF cert = None THEN None ELSE [cert |-> cert, key |-> srv.half]
  <2>1. cert = files["ca-cert"]
    BY DEF LoadCert
  <2>2. srv.pc = "mgrCert"
    BY <1>2 DEF LoadMgrCert
  <2>3. srv' = [srv EXCEPT !.pc = "register", !.half = None, !.mgr = mgr]
    BY <1>2 DEF LoadMgrCert
  <2>4. cert # None => mgr # None /\ mgr.cert = cert /\ mgr.key = srv.half
    <3>1. cert \in Nat \cup {None} /\ srv.half \in Nat
      BY <2>2, LoadedTyped DEF ServeTypeOK
    <3>2. cert # None => [cert |-> cert, key |-> srv.half] \in KeyPair
      BY <3>1 DEF KeyPair
    <3> QED
      BY <3>2, ServeAssumption
  <2> HIDE DEF mgr, cert
  <2>5. /\ srv'.pc = "register" /\ srv'.mgr = mgr
        /\ srv'.cfg = srv.cfg /\ srv'.tls = srv.tls
        /\ srv'.certFile = srv.certFile /\ srv'.signer = srv.signer
        /\ srv'.db = srv.db /\ srv'.certDB = srv.certDB
        /\ srv'.answer = srv.answer /\ srv'.disturbed = srv.disturbed
        /\ srv'.registry = srv.registry
    BY <1>0, <2>3 DEF Server
  <2>6. StartInv'
    <3> SUFFICES ASSUME ~srv.disturbed
                 PROVE  complete' /\ PairLoaded(files["ca-cert"])'
      BY <2>5 DEF StartInv
    <3>1. /\ complete /\ files["ca-cert"] \in Nat
          /\ PairLoaded(files["ca-cert"])
      BY <1>0, <2>2 DEF StartInv, Starting, FilesInv
    <3>2. cert # None
      BY <2>1, <3>1, ServeAssumption
    <3> QED
      BY <1>a, <2>1, <2>2, <2>4, <2>5, <3>1, <3>2
         DEF PairLoaded, SignerLoaded, MgrLoaded
  <2>7. GlobalsInv'
    BY <1>0, <2>2, <2>5
       DEF GlobalsInv, Starting, RegistrySet, SignerLoaded, TLSCertFile
  <2> QED
    BY <1>b, <2>5, <2>6, <2>7 DEF ServerInv, OneKeyPair, NothingNil
<1> QED
  BY <1>1, <1>2

(* The endpoints are made of what was loaded. *)
LEMMA HandlersServer ==
    ASSUME ServeTypeOK, FilesInv, ServerInv, registerHandlers
    PROVE  ServerInv'
<1> USE DEF ServerStep
<1>0. srv \in Server /\ StartInv /\ GlobalsInv
  BY DEF ServeTypeOK, ServerInv
<1>1. srv.pc = "register" /\ UNCHANGED <<files, complete>>
  BY DEF registerHandlers
<1> DEFINE made == {e \in Endpoints :
             /\ e = "tcert" => srv.mgr # None
             /\ e \in SignerEndpoints => srv.signer # None
             /\ e = "ocspsign" => srv.cfg.responder
             /\ e \notin srv.cfg.broken}
<1>2. srv' = [srv EXCEPT !.pc = "listen", !.handlers = made]
  BY DEF registerHandlers
<1>3. srv.signer # None => SignerEndpoints \ srv.cfg.broken \subseteq made
  BY DEF SignerEndpoints, Endpoints
<1> HIDE DEF made
<1>4. /\ srv'.pc = "listen" /\ srv'.handlers = made /\ srv'.mgr = srv.mgr
      /\ srv'.cfg = srv.cfg /\ srv'.tls = srv.tls
      /\ srv'.certFile = srv.certFile /\ srv'.signer = srv.signer
      /\ srv'.db = srv.db /\ srv'.certDB = srv.certDB
      /\ srv'.answer = srv.answer /\ srv'.disturbed = srv.disturbed
      /\ srv'.registry = srv.registry
  BY <1>0, <1>2 DEF Server
<1>5. StartInv'
  <2> SUFFICES ASSUME ~srv.disturbed
               PROVE  complete' /\ PairLoaded(files["ca-cert"])'
    BY <1>4 DEF StartInv
  <2>1. complete /\ PairLoaded(files["ca-cert"])
    BY <1>0, <1>1 DEF StartInv, Starting
  <2> QED
    BY <1>1, <1>3, <1>4, <2>1 DEF PairLoaded, SignerLoaded, MgrLoaded
<1>6. GlobalsInv' /\ srv.answer = ""
  BY <1>0, <1>1, <1>4
     DEF GlobalsInv, Starting, RegistrySet, SignerLoaded, TLSCertFile
<1> QED
  BY <1>4, <1>5, <1>6 DEF ServerInv, OneKeyPair, NothingNil

(* The server listens.  TLS reads the files of the CA again unless it has  *)
(* its own.                                                                *)
LEMMA ListenServer ==
    ASSUME ServeTypeOK, FilesInv, ServerInv, Listen \/ ListenAndServeTLS
    PROVE  ServerInv'
<1> USE DEF ServerStep
<1>0. srv \in Server /\ StartInv /\ GlobalsInv
  BY DEF ServeTypeOK, ServerInv
<1>1. srv.pc \in {"listen", "listenKey"} /\ UNCHANGED <<files, complete>>
  BY DEF Listen, ListenAndServeTLS
<1>2. srv.answer = "" /\ srv.tls = None /\ srv.certFile = TLSCertFile(srv.cfg)
  BY <1>0, <1>1 DEF GlobalsInv, Starting, RegistrySet, SignerLoaded
<1>3. ~srv.disturbed =>
        /\ complete /\ files["ca-cert"] \in Nat
        /\ files["ca-key"] = files["ca-cert"] /\ PairLoaded(files["ca-cert"])
  BY <1>0, <1>1 DEF StartInv, Starting, FilesInv
<1>4. CASE srv' = Down
  BY <1>4, DownServer
<1>5. CASE srv' = [srv EXCEPT !.pc = "serving"]
  <2>1. /\ srv'.pc = "serving" /\ srv'.handlers = srv.handlers /\ srv'.mgr = srv.mgr
        /\ srv'.cfg = srv.cfg /\ srv'.tls = srv.tls
        /\ srv'.certFile = srv.certFile /\ srv'.signer = srv.signer
        /\ srv'.db = srv.db /\ srv'.certDB = srv.certDB
        /\ srv'.answer = srv.answer /\ srv'.disturbed = srv.disturbed
        /\ srv'.registry = srv.registry
    BY <1>0, <1>5 DEF Server
  <2>2. StartInv' /\ NothingNil'
    BY <1>2, <2>1 DEF StartInv, Starting, NothingNil
  <2>3. GlobalsInv'
    BY <1>0, <1>1, <2>1
       DEF GlobalsInv, Starting, RegistrySet, SignerLoaded, TLSCertFile
  <2>4. OneKeyPair'
    BY <1>1, <1>2, <1>3, <2>1 DEF OneKeyPair, PairLoaded, SignerLoaded, MgrLoaded
  <2> QED
    BY <2>2, <2>3, <2>4 DEF ServerInv
<1>6. CASE Listen /\ srv' = [srv EXCEPT !.pc = "listenKey", !.half = LoadCert(srv.certFile)]
  <2>1. /\ srv'.pc = "listenKey" /\ srv'.half = LoadCert(srv.certFile)
        /\ srv'.handlers = srv.handlers /\ srv'.mgr = srv.mgr
        /\ srv'.cfg = srv.cfg /\ srv'.tls = srv.tls
        /\ srv'.certFile = srv.certFile /\ srv'.signer = srv.signer
        /\ srv'.db = srv.db /\ srv'.certDB = srv.certDB
        /\ srv'.answer = srv.answer /\ srv'.disturbed = srv.disturbed
        /\ srv'.registry = srv.registry
    BY <1>0, <1>6 DEF Server
  <2>2. srv.pc = "listen"
    BY <1>6 DEF Listen
  <2>3. srv.cfg.tlsCert = "" => LoadCert(srv.certFile) = files["ca-cert"]
    BY <1>2 DEF LoadCert, TLSCertFile
  <2>4. StartInv'
    BY <1>1, <1>3, <2>1, <2>2, <2>3
       DEF StartInv, Starting, PairLoaded, SignerLoaded, MgrLoaded
  <2>5. GlobalsInv'
    BY <1>0, <2>1, <2>2
       DEF GlobalsInv, Starting, RegistrySet, SignerLoaded, TLSCertFile
  <2> QED
    BY <1>2, <2>1, <2>4, <2>5 DEF ServerInv, OneKeyPair, NothingNil
<1>7. CASE ListenAndServeTLS /\ srv' # Down
  <2> DEFINE key == LoadKey(srv.keyFile)
             pair == [cert |-> srv.half, key |-> key]
  <2>1. srv.pc = "listenKey" /\ key = srv.half
        /\ srv' = [srv EXCEPT !.pc = "serving", !.half = None, !.tls = pair]
    BY <1>7 DEF ListenAndServeTLS
  <2>2. pair \in KeyPair /\ pair.cert = srv.half /\ pair.key = srv.half
    BY <2>1 DEF ServeTypeOK, KeyPair
  <2> HIDE DEF key, pair
  <2>3. /\ srv'.pc = "serving" /\ srv'.handlers = srv.handlers /\ srv'.mgr = srv.mgr
        /\ srv'.cfg = srv.cfg /\ srv'.tls = pair
        /\ srv'.certFile = srv.certFile /\ srv'.signer = srv.signer
        /\ srv'.db = srv.db /\ srv'.certDB = srv.certDB
        /\ srv'.answer = srv.answer /\ srv'.disturbed = srv.disturbed
        /\ srv'.registry = srv.registry
    BY <1>0, <2>1 DEF Server
  <2>4. StartInv' /\ NothingNil'
    BY <1>2, <2>3 DEF StartInv, Starting, NothingNil
  <2>5. GlobalsInv'
    BY <1>0, <1>1, <2>3
       DEF GlobalsInv, Starting, RegistrySet, SignerLoaded, TLSCertFile
  <2>6. ASSUME ~srv.disturbed, srv.cfg.tlsCert = "" PROVE pair = srv.mgr
    <3>1. /\ srv.mgr # None /\ srv.mgr.cert = srv.half /\ srv.mgr.key = srv.half
      BY <1>3, <2>1, <2>6 DEF PairLoaded, MgrLoaded
    <3>2. srv.mgr \in KeyPair
      BY <1>0, <3>1 DEF Server
    <3> QED
      BY <2>2, <3>1, <3>2 DEF KeyPair
  <2>7. OneKeyPair'
    <3> SUFFICES ASSUME ~srv.disturbed
        PROVE /\ srv.mgr # None /\ srv.mgr.cert = srv.mgr.key
              /\ srv.cfg.caFlags \/ srv.cfg.remotes = Profiles =>
                    /\ srv.signer # None
                    /\ SignerEndpoints \ srv.cfg.broken \subseteq srv.handlers
              /\ srv.signer # None /\ srv.cfg.remotes # Profiles =>
                    /\ srv.signer.cert = srv.mgr.cert
                    /\ srv.signer.key = srv.mgr.key
              /\ srv.cfg.tlsCert = "" => pair = srv.mgr
      BY <2>3 DEF OneKeyPair
    <3>1. PairLoaded(files["ca-cert"])
      BY <1>3
    <3> QED
      BY <2>1, <2>6, <3>1 DEF PairLoaded, SignerLoaded, MgrLoaded
  <2> QED
    BY <2>4, <2>5, <2>7 DEF ServerInv
<1> QED
  BY <1>4, <1>5, <1>6, <1>7 DEF Listen

(* A request changes nothing of the server but its answer. *)
LEMMA AnswerServer ==
    ASSUME ServeTypeOK, ServerInv, srv.pc = "serving",
           NEW a \in {"ok", "error", "panic"}, Answer(a),
           a = "panic" => srv.registry = "ldap" \/ srv.signer = None
    PROVE  ServerInv'
<1>0. srv \in Server /\ GlobalsInv /\ OneKeyPair
  BY DEF ServeTypeOK, ServerInv
<1>1. /\ srv'.pc = srv.pc /\ srv'.handlers = srv.handlers /\ srv'.mgr = srv.mgr
      /\ srv'.cfg = srv.cfg /\ srv'.tls = srv.tls
      /\ srv'.certFile = srv.certFile /\ srv'.signer = srv.signer
      /\ srv'.db = srv.db /\ srv'.certDB = srv.certDB
      /\ srv'.answer = a /\ srv'.disturbed = srv.disturbed
      /\ srv'.registry = srv.registry
  BY <1>0 DEF Answer, Server
<1>2. StartInv' /\ NothingNil'
  BY <1>1 DEF StartInv, Starting, NothingNil
<1>3. GlobalsInv'
  BY <1>0, <1>1 DEF GlobalsInv, Starting, TLSCertFile
<1>4. OneKeyPair'
  BY <1>0, <1>1 DEF OneKeyPair
<1> QED
  BY <1>2, <1>3, <1>4 DEF ServerInv

(* Every step keeps the invariant of the server.  A revocation finds the   *)
(* accessor nil only where the signer is: both are set in one step.        *)
LEMMA ServerInvStep ==
    ServeTypeOK /\ FilesInv /\ ServerInv /\ [Next]_vars => ServerInv'
<1> SUFFICES ASSUME ServeTypeOK, FilesInv, ServerInv, [Next]_vars PROVE ServerInv'
  OBVIOUS
<1>1. CASE UNCHANGED vars
  BY <1>1, SameServer DEF vars
<1>2. CASE Stop
  BY <1>2, DownServer DEF Stop
<1>3. ASSUME NEW e \in Endpoints, Sign(e) PROVE ServerInv'
  <2>1. CASE Answer("ok")
    BY <1>3, <2>1, AnswerServer DEF Sign
  <2>2. CASE Answer(IF srv.signer = None THEN "panic" ELSE "error")
    BY <1>3, <2>2, AnswerServer DEF Sign
  <2> QED
    BY <1>3, <2>1, <2>2 DEF Sign
<1>4. ASSUME srv.pc = "serving" PROVE ~srv.certDB => srv.registry = "ldap" \/ srv.signer = None
  BY <1>4 DEF ServerInv, GlobalsInv, RegistrySet
<1>5. CASE RevokeSerial
  <2>1. PICK ok \in {"ok", "error"} : Answer(IF srv.certDB THEN ok ELSE "panic")
    BY <1>5 DEF RevokeSerial
  <2> QED
    BY <1>4, <1>5, <2>1, AnswerServer DEF RevokeSerial
<1>6. CASE RevokeName
  <2>1. PICK ok \in {"ok", "error"} :
           Answer(IF srv.registry = "ldap" THEN "error"
                  ELSE IF srv.certDB THEN ok ELSE "panic")
    BY <1>6 DEF RevokeName
  <2> QED
    BY <1>4, <1>6, <2>1, AnswerServer DEF RevokeName
<1> QED
  BY <1>1, <1>2, <1>3, <1>5, <1>6, InitCommandServer, StartServer, ConfigServer,
     SignerServer, MgrServer, HandlersServer, ListenServer DEF Next, Step, Done

(* The number of a request is new, and so is the serial it gives. *)
SerialsUsed ==
    /\ recorded \in SUBSET Nat /\ \A n \in recorded : n < requests
    /\ \A c \in issued : c.serial \in Nat /\ c.serial < requests

RecordInv == SerialsUsed /\ IssuedRecorded

(* A certificate is recorded in the step that hands it out, or never. *)
LEMMA RecordStep ==
    ServeTypeOK /\ ServerInv /\ RecordInv /\ [Next]_vars => RecordInv'
<1> SUFFICES ASSUME ServeTypeOK, ServerInv, RecordInv, [Next]_vars PROVE RecordInv'
  OBVIOUS
<1>0. requests \in Nat
  BY DEF ServeTypeOK
<1>1. CASE UNCHANGED <<issued, recorded>> /\ requests' \in {requests, requests + 1}
  BY <1>0, <1>1 DEF RecordInv, SerialsUsed, IssuedRecorded
<1>2. ASSUME NEW e \in Endpoints, Sign(e), ~UNCHANGED <<issued, recorded>>
      PROVE  RecordInv'
  <2>1. PICK p \in Profiles :
          LET local == p \notin srv.signer.remotes IN
          /\ issued' = issued \cup
                {[serial |-> requests, registry |-> srv.registry, local |-> local]}
          /\ recorded' = IF local /\ srv.signer.recording
                         THEN recorded \cup {requests} ELSE recorded
    BY <1>2 DEF Sign
  <2>2. srv.pc = "serving" /\ srv.signer # None /\ requests' = requests + 1
    BY <1>2 DEF Sign, Answer
  <2> DEFINE local == p \notin srv.signer.remotes
             new == [serial |-> requests, registry |-> srv.registry, local |-> local]
  <2>3. local => (srv.signer.recording <=> srv.registry = "db")
    BY <2>2 DEF ServerInv, GlobalsInv, RegistrySet
  <2>4. new.serial = requests /\ new.registry = srv.registry /\ new.local = local
    OBVIOUS
  <2>5. /\ issued' = issued \cup {new}
        /\ recorded' \in {recorded, recorded \cup {requests}}
        /\ requests \in recorded' <=> local /\ srv.registry = "db"
    BY <1>0, <2>1, <2>3 DEF RecordInv, SerialsUsed
  <2> HIDE DEF local, new
  <2>6. SerialsUsed'
    BY <1>0, <2>2, <2>4, <2>5 DEF RecordInv, SerialsUsed
  <2>7. IssuedRecorded'
    <3> SUFFICES ASSUME NEW c \in issued'
                 PROVE  c.serial \in recorded' <=> c.registry = "db" /\ c.local
      BY DEF IssuedRecorded
    <3>1. CASE c = new
      BY <2>4, <2>5, <3>1
    <3>2. CASE c \in issued
      BY <1>0, <2>5, <3>2 DEF RecordInv, SerialsUsed, IssuedRecorded
    <3> QED
      BY <2>5, <3>1, <3>2
  <2> QED
    BY <2>6, <2>7 DEF RecordInv
<1> QED
  BY <1>1, <1>2 DEF Next, Step, InitCommand, WriteFile, InitEnds, Start, Stop, Sign,
     Answer, RevokeSerial, RevokeName, Done, vars, configInit, InitUserRegistry,
     SignerCert, SignerFromConfigAndDB, LoadMgrKey, LoadMgrCert, registerHandlers,
     Listen, ListenAndServeTLS, ServerStep

(* The inductive invariant holds at the start. *)
LEMMA ServeInvInit == Init => FilesInv /\ ServerInv /\ RecordInv
<1> SUFFICES ASSUME Init PROVE FilesInv /\ ServerInv /\ RecordInv
  OBVIOUS
<1>1. FilesInv /\ RecordInv
  BY DEF Init, FilesInv, RecordInv, SerialsUsed, IssuedRecorded
<1>2. srv.pc = "down" /\ srv.signer = None /\ srv.answer = ""
  BY DEF Init, Down
<1>3. ServerInv
  BY <1>2 DEF ServerInv, StartInv, GlobalsInv, OneKeyPair, NothingNil, Starting,
     RegistrySet, SignerLoaded
<1> QED
  BY <1>1, <1>3

(* ServeTypeOK, FilesInv, ServerInv and RecordInv are one inductive        *)
(* invariant.                                                              *)
LEMMA ServeInductive ==
    Spec => [](ServeTypeOK /\ FilesInv /\ ServerInv /\ RecordInv)
  BY ServeInitTyped, ServeInvInit, ServeStepTyped, FilesStep, ServerInvStep,
     RecordStep, PTL DEF Spec

(* For every set of configurations, and however init commands, kills and   *)
(* starts follow each other: a server that found the files of a complete   *)
(* init command, and was not disturbed while it started, serves with one   *)
(* key pair in enroll, tcert and TLS, and with the endpoints of the signer.*)
THEOREM ServesOneKeyPair == Spec => []OneKeyPair
<1>1. ServerInv => OneKeyPair
  BY DEF ServerInv
<1> QED
  BY <1>1, ServeInductive, PTL

(* What a server with the database registry signs itself is in the         *)
(* certificates table, across restarts with any configurations, and what a *)
(* remote server signs for it, or one with LDAP hands out, is not.         *)
THEOREM RecordedWhatWasSignedHere == Spec => []IssuedRecorded
<1>1. RecordInv => IssuedRecorded
  BY DEF RecordInv
<1> QED
  BY <1>1, ServeInductive, PTL

(* With the database registry and a signer, no request meets a global that *)
(* the start left nil.                                                     *)
THEOREM NoGlobalIsNil == Spec => []NothingNil
<1>1. ServerInv => NothingNil
  BY DEF ServerInv
<1> QED
  BY <1>1, ServeInductive, PTL
=============================================================================

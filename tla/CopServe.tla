------------------------------ MODULE CopServe ------------------------------
(***************************************************************************)
(* The two commands of a COP server and what they put together: "init"     *)
(* writes a certificate and its key (cli/server/init.go), "start" reads    *)
(* the configuration, chooses the user registry, loads the signer,         *)
(* registers the endpoints and listens (config.go, factory.go, server.go). *)
(* "start" reads the files of "init" up to three times, and both may be    *)
(* killed at any point.  A file holds the number of the key pair that its  *)
(* contents belong to, or None when it is missing or half written.  Names  *)
(* of files stand for absolute ones; ca_cert and ca_key of the             *)
(* configuration, and -ca and -ca-key when they are given, name the files  *)
(* of "init".                                                              *)
(***************************************************************************)
EXTENDS Integers

CONSTANTS
    Configs,    \* the configurations the server is started with
    MaxInits, MaxStarts, MaxStops, MaxRequests,  \* bounds
    None

VARIABLES
    files,     \* the contents of each file
    ipc,       \* the next step of the init command
    inits,     \* the number of key pairs made so far
    complete,  \* history: the last init command wrote both files
    srv,       \* the server process: its globals, and what it has loaded
    starts,    \* the number of starts so far
    stops,     \* the number of times the server was ended from outside
    issued,    \* history: the certificates handed out
    recorded,  \* the certificates in the database
    requests   \* the number of requests so far

vars == <<files, ipc, inits, complete, srv, starts, stops,
          issued, recorded, requests>>

Drivers == {"sqlite3", "postgres", "mysql"}

(* The profiles of the signing policy that a request can name. *)
Profiles == {"default", "other"}

(* What Configs is drawn from.  tlsCert and tlsKey may be empty; caFlags   *)
(* says whether -ca and -ca-key were given, remotes which profiles have a  *)
(* remote server sign (all of them with -remote), broken which endpoints   *)
(* lack the bundle files or static assets they load or, for sign and       *)
(* authsign, a profile of the right kind: without or with authentication.  *)
Breakable == {"sign", "authsign", "newcert", "bundle", "scan", "/"}

Config ==
    [valid : BOOLEAN, ldap : BOOLEAN, driver : Drivers \cup {"", "other"},
     caFlags : BOOLEAN, remotes : SUBSET Profiles, responder : BOOLEAN,
     broken : SUBSET Breakable,
     tlsDisable : BOOLEAN, tlsCert : {"", "tls-cert"}, tlsKey : {"", "tls-key"},
     mutual : {"", "good", "bad"}]

(* What a server holds of a pair of files, by the number of the init       *)
(* command that wrote each.  A signer that is remote for every profile     *)
(* holds neither.                                                          *)
KeyPair == [cert : Nat, key : Nat]
Signer ==
    [remotes : SUBSET Profiles, cert : Nat \cup {None}, key : Nat \cup {None},
     recording : BOOLEAN]

ASSUME ServeAssumption ==
    /\ Configs \subseteq Config
    /\ {MaxInits, MaxStarts, MaxStops, MaxRequests} \subseteq Nat
    /\ None \notin Nat \cup KeyPair \cup Signer

CopEndpoints == {"register", "enroll", "reenroll", "revoke"}
SignerEndpoints == {"sign", "authsign", "info", "gencrl", "newcert"}
PlainEndpoints ==
    {"newkey", "init_ca", "scaninfo", "certinfo", "bundle", "scan", "/"}

Endpoints ==
    CopEndpoints \cup SignerEndpoints \cup PlainEndpoints \cup {"tcert", "ocspsign"}

(* The globals of a process that has not run yet.  "half" is the first     *)
(* file of a pair that is being read; disturbed is history: an init        *)
(* command was at work while the server started.                           *)
Down ==
    [pc |-> "down", cfg |-> None, driver |-> "", certFile |-> "", keyFile |-> "",
     registry |-> None, db |-> FALSE, certDB |-> FALSE, signer |-> None,
     mgr |-> None, tls |-> None, handlers |-> {}, half |-> None,
     disturbed |-> FALSE, answer |-> ""]

Files == {"ca-cert", "ca-key", "tls-cert", "tls-key"}

Init ==
    /\ files = [f \in Files |-> IF f \in {"tls-cert", "tls-key"} THEN 0 ELSE None]
    /\ ipc = "idle" /\ inits = 0 /\ complete = FALSE
    /\ srv = Down /\ starts = 0 /\ stops = 0
    /\ issued = {} /\ recorded = {} /\ requests = 0

Starting == srv.pc \notin {"down", "serving"}

-----------------------------------------------------------------------------
(* The init command. *)

(* initMain up to its first write: the request is read, a key pair is made *)
(* and CreateHome makes the directory.  An error on the way changes no     *)
(* file.                                                                   *)
InitCommand ==
    /\ ipc = "idle" /\ inits < MaxInits
    /\ inits' = inits + 1
    /\ ipc' = "truncateCert"
    /\ UNCHANGED <<files, complete, srv, starts, stops, issued, recorded, requests>>

InitStepFile(step) ==
    IF step \in {"truncateCert", "writeCert"} THEN "ca-cert" ELSE "ca-key"

InitStepAfter(step) ==
    CASE step = "truncateCert" -> "writeCert"
      [] step = "writeCert"    -> "truncateKey"
      [] step = "truncateKey"  -> "writeKey"
      [] step = "writeKey"     -> "idle"

(* ioutil.WriteFile empties the file, then fills it. *)
WriteFile ==
    /\ ipc # "idle"
    /\ files' = [files EXCEPT ![InitStepFile(ipc)] =
                    IF ipc \in {"writeCert", "writeKey"} THEN inits ELSE None]
    /\ ipc' = InitStepAfter(ipc)
    /\ complete' = (ipc = "writeKey")
    /\ srv' = [srv EXCEPT !.disturbed = @ \/ Starting]
    /\ UNCHANGED <<inits, starts, stops, issued, recorded, requests>>

(* A write fails and log.Fatal ends the command, or it is killed. *)
InitEnds ==
    /\ ipc # "idle"
    /\ ipc' = "idle"
    /\ UNCHANGED <<files, inits, complete, srv, starts, stops, issued, recorded,
                   requests>>

-----------------------------------------------------------------------------
(* The start command. *)

Start(c) ==
    /\ srv.pc = "down" /\ starts < MaxStarts
    /\ starts' = starts + 1
    /\ srv' = [Down EXCEPT !.pc = "config", !.cfg = c, !.disturbed = ~complete]
    /\ UNCHANGED <<files, ipc, inits, complete, stops, issued, recorded, requests>>

(* Only the server process changes. *)
ServerStep(next) ==
    /\ srv' = next
    /\ UNCHANGED <<files, ipc, inits, complete, starts, stops, issued, recorded,
                   requests>>

TLSCertFile(c) == IF c.tlsCert # "" THEN c.tlsCert ELSE "ca-cert"

(* Mutant: the key of TLS is that of the CA, whatever the configuration.   *)
TLSKeyFileOfCA(c) == "ca-key"

TLSKeyFile(c) == IF c.tlsKey # "" THEN c.tlsKey ELSE "ca-key"

(* A configuration that cannot be read or parsed is a panic. *)
configInit ==
    LET c == srv.cfg IN
    /\ srv.pc = "config"
    /\ ServerStep(
         IF ~c.valid THEN Down
         ELSE [srv EXCEPT !.pc = "registry",
                  !.certFile = TLSCertFile(c), !.keyFile = TLSKeyFile(c),
                  !.driver = IF c.driver = "" THEN "sqlite3" ELSE c.driver])

(* With LDAP the database is not opened.  CopStartup has the steps of      *)
(* opening, creating and filling one, and Stop their failures.             *)
InitUserRegistry ==
    /\ srv.pc = "registry"
    /\ ServerStep(
         IF srv.cfg.ldap THEN [srv EXCEPT !.pc = "signer", !.registry = "ldap"]
         ELSE IF srv.driver \in Drivers
         THEN [srv EXCEPT !.pc = "signer", !.registry = "db", !.db = TRUE]
         ELSE Down)

(* What a reader of a certificate, or of a key, finds in a file. *)
LoadCert(f) == IF f \in {"ca-cert", "tls-cert"} THEN files[f] ELSE None
LoadKey(f) == IF f \in {"ca-key", "tls-key"} THEN files[f] ELSE None

(* Mutant: the accessor is given to the signer only. *)
InitCertificateAccessorLocal(s) == s

(* The global that the revoke handler uses. *)
InitCertificateAccessor(s) == [s EXCEPT !.certDB = TRUE]

(* Mutant: the signer does not get the database. *)
NewSignerUnrecorded(remotes, cert, key, db) ==
    [remotes |-> remotes, cert |-> cert, key |-> key, recording |-> FALSE]

(* universal.NewSigner, and SetDBAccessor on it.  A profile is signed for  *)
(* by the remote or by the local signer, which is made only when some      *)
(* profile needs it; SetDBAccessor of a remote signer does nothing.        *)
NewSigner(remotes, cert, key, db) ==
    [remotes |-> remotes, cert |-> cert, key |-> key,
     recording |-> db /\ remotes # Profiles]

(* The end of SignerFromConfigAndDB: no signer, or one with the database   *)
(* when there is one.                                                      *)
WithSigner(signer) ==
    LET next == [srv EXCEPT !.pc = "handlers", !.half = None, !.signer = signer] IN
    IF signer # None /\ srv.db THEN InitCertificateAccessor(next) ELSE next

(* serverMain.  A remote signer reads no file.  A local one reads the      *)
(* certificate of -ca, then the key of -ca-key, and does not compare them. *)
(* Without them, or when one cannot be read, the server goes on without a  *)
(* signer, and then there is no remote part either.                        *)
SignerCert ==
    LET cert == LoadCert("ca-cert") IN
    /\ srv.pc = "signer"
    /\ ServerStep(
         IF srv.cfg.remotes = Profiles
         THEN WithSigner(NewSigner(Profiles, None, None, srv.db))
         ELSE IF srv.cfg.caFlags /\ cert # None
         THEN [srv EXCEPT !.pc = "signerKey", !.half = cert]
         ELSE WithSigner(None))

SignerFromConfigAndDB ==
    LET key == LoadKey("ca-key") IN
    /\ srv.pc = "signerKey"
    /\ ServerStep(WithSigner(
         IF key = None THEN None
         ELSE NewSigner(srv.cfg.remotes, srv.half, key, srv.db)))

(* Mutant: LoadMgr is given its files in the wrong order. *)
MgrKeyFileSwapped == "ca-cert"

(* LoadMgr(CFG.KeyFile, CFG.CAFile): the key is read first. *)
MgrKeyFile == "ca-key"

(* registerHandlers, when it comes to the tcert endpoint. *)
LoadMgrKey ==
    LET key == LoadKey(MgrKeyFile) IN
    /\ srv.pc = "handlers"
    /\ ServerStep([srv EXCEPT !.pc = IF key = None THEN "register" ELSE "mgrCert",
                              !.half = key])

LoadMgrCert ==
    LET cert == LoadCert("ca-cert") IN
    /\ srv.pc = "mgrCert"
    /\ ServerStep([srv EXCEPT !.pc = "register", !.half = None,
                      !.mgr = IF cert = None THEN None
                              ELSE [cert |-> cert, key |-> srv.half]])

(* The endpoints whose handler can be made.  The others are disabled.      *)
registerHandlers ==
    /\ srv.pc = "register"
    /\ ServerStep([srv EXCEPT !.pc = "listen",
         !.handlers = {e \in Endpoints :
             /\ e = "tcert" => srv.mgr # None
             /\ e \in SignerEndpoints => srv.signer # None
             /\ e = "ocspsign" => srv.cfg.responder
             /\ e \notin srv.cfg.broken}])

(* The end of serverMain: without TLS the server listens at once; with it, *)
(* the pool of mutual TLS and the certificate are loaded first.            *)
Listen ==
    /\ srv.pc = "listen"
    /\ ServerStep(
         IF srv.cfg.tlsDisable THEN [srv EXCEPT !.pc = "serving"]
         ELSE IF srv.cfg.mutual = "bad" \/ LoadCert(srv.certFile) = None THEN Down
         ELSE [srv EXCEPT !.pc = "listenKey", !.half = LoadCert(srv.certFile)])

(* ListenAndServeTLS refuses a key of another pair. *)
ListenAndServeTLS ==
    LET key == LoadKey(srv.keyFile) IN
    /\ srv.pc = "listenKey"
    /\ ServerStep(
         IF key # srv.half THEN Down
         ELSE [srv EXCEPT !.pc = "serving", !.half = None,
                  !.tls = [cert |-> srv.half, key |-> key]])

Step ==
    \/ configInit \/ InitUserRegistry \/ SignerCert \/ SignerFromConfigAndDB
    \/ LoadMgrKey \/ LoadMgrCert \/ registerHandlers \/ Listen \/ ListenAndServeTLS

(* The server is killed, or what it depends on fails: the database or LDAP *)
(* cannot be reached, the metadata file cannot be read, the port is taken. *)
Stop ==
    /\ srv.pc # "down" /\ stops < MaxStops
    /\ srv' = Down
    /\ stops' = stops + 1
    /\ UNCHANGED <<files, ipc, inits, complete, starts, issued, recorded, requests>>

-----------------------------------------------------------------------------
(* Requests, as far as they depend on what the start put together.         *)

Answer(answer) ==
    /\ srv' = [srv EXCEPT !.answer = answer]
    /\ requests' = requests + 1
    /\ UNCHANGED <<files, ipc, inits, complete, starts, stops>>

(* A request for a certificate, with the profile it names.  The handlers   *)
(* of COP use enrollSigner without a test: without one the request ends in *)
(* a panic, which net/http recovers.  The local signer inserts the         *)
(* certificate in the database it was given, and fails when that fails;    *)
(* the remote one returns what the other server signed.                    *)
Sign(e) ==
    /\ srv.pc = "serving" /\ requests < MaxRequests
    /\ e \in {"enroll", "reenroll", "sign", "authsign", "newcert"} \cap srv.handlers
    /\ \/ /\ srv.signer # None
          /\ \E p \in Profiles :
                LET local == p \notin srv.signer.remotes IN
                /\ issued' = issued \cup
                      {[serial |-> requests, registry |-> srv.registry, local |-> local]}
                /\ recorded' = IF local /\ srv.signer.recording
                               THEN recorded \cup {requests} ELSE recorded
          /\ Answer("ok")
       \/ /\ Answer(IF srv.signer = None THEN "panic" ELSE "error")
          /\ UNCHANGED <<issued, recorded>>

(* The method of a nil *CertDBAccessor dereferences it. *)
RevokeSerial ==
    /\ srv.pc = "serving" /\ requests < MaxRequests
    /\ \E ok \in {"ok", "error"} : Answer(IF srv.certDB THEN ok ELSE "panic")
    /\ UNCHANGED <<issued, recorded>>

(* The user is disabled first, which the LDAP registry does not support. *)
RevokeName ==
    /\ srv.pc = "serving" /\ requests < MaxRequests
    /\ \E ok \in {"ok", "error"} :
          Answer(IF srv.registry = "ldap" THEN "error"
                 ELSE IF srv.certDB THEN ok ELSE "panic")
    /\ UNCHANGED <<issued, recorded>>

(* Nothing is left to do. *)
Done ==
    /\ ipc = "idle" /\ inits = MaxInits /\ starts = MaxStarts
    /\ srv.pc = "down" \/ (srv.pc = "serving" /\ requests = MaxRequests)
    /\ UNCHANGED vars

Next ==
    \/ InitCommand \/ WriteFile \/ InitEnds
    \/ \E c \in Configs : Start(c)
    \/ Step \/ Stop
    \/ \E e \in Endpoints : Sign(e)
    \/ RevokeSerial \/ RevokeName
    \/ Done

(* A server that has been started goes on. *)
Spec == Init /\ [][Next]_vars /\ WF_vars(Step)

-----------------------------------------------------------------------------
(* Properties. *)

(* A server whose start no init command got in the way of, and that found  *)
(* the files of a complete one, works with one key pair: the local signer  *)
(* of enroll, the manager of tcert and, unless TLS has files of its own,   *)
(* TLS read the certificate and the key of the same init command, although *)
(* each opens the files by itself; and then tcert is not disabled, nor is  *)
(* any endpoint that needs the signer when -ca is given or every profile   *)
(* is remote.                                                              *)
OneKeyPair ==
    srv.pc = "serving" /\ ~srv.disturbed =>
        /\ srv.mgr # None /\ srv.mgr.cert = srv.mgr.key
        /\ srv.cfg.caFlags \/ srv.cfg.remotes = Profiles =>
              /\ srv.signer # None
              /\ SignerEndpoints \ srv.cfg.broken \subseteq srv.handlers
        /\ srv.signer # None /\ srv.cfg.remotes # Profiles =>
              srv.signer.cert = srv.mgr.cert /\ srv.signer.key = srv.mgr.key
        /\ srv.tls # None /\ srv.cfg.tlsCert = "" => srv.tls = srv.mgr

(* The certificates table holds what a server with the database registry   *)
(* signed itself, where revoke finds it, and nothing else: not what a      *)
(* remote server signed for it, nor what a server with LDAP handed out.    *)
(* So it is for every endpoint and profile, and after restarts with other  *)
(* configurations.                                                         *)
IssuedRecorded ==
    \A c \in issued : c.serial \in recorded <=> c.registry = "db" /\ c.local

(* No request meets a global that the start left nil, when the registry is *)
(* the database and the signer could be loaded: the accessor of the revoke *)
(* handler is set on the way to the signer, after the database is opened.  *)
NothingNil ==
    srv.answer = "panic" => srv.registry = "ldap" \/ srv.signer = None

CanServe(c) ==
    /\ c.valid /\ (c.ldap \/ c.driver # "other")
    /\ c.tlsDisable \/ ((c.tlsCert = "" <=> c.tlsKey = "") /\ c.mutual # "bad")

(* A start that can succeed does: with a configuration in which TLS has a  *)
(* certificate and a key of its own or neither, on the files of a complete *)
(* init command, the server comes to listen unless it is ended from        *)
(* outside or an init command writes in the meantime.                      *)
SoundStartServes ==
    \A n \in 0..MaxStops :
        (Starting /\ CanServe(srv.cfg) /\ ~srv.disturbed /\ stops = n)
            ~> (srv.pc = "serving" \/ srv.disturbed \/ stops # n)
=============================================================================

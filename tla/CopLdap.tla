------------------------------- MODULE CopLdap -------------------------------
(***************************************************************************)
(* The LDAP user registry: the administrator connection that all requests  *)
(* share, and the connection each login opens to check a password          *)
(* (cli/server/ldap/client.go).  Users cannot be changed through it.       *)
(***************************************************************************)
EXTENDS Naturals, FiniteSets

CONSTANTS
    Requests,   \* requests that the server handles at the same time
    Conns,      \* connections to the LDAP server
    AdminBind,  \* whether the URL names an administrator and a password
    NoConn

ASSUME LdapAssumption ==
    /\ AdminBind \in BOOLEAN
    /\ NoConn \notin Conns

VARIABLES
    AdminConn,       \* the connection cached in the client
    conns,           \* the state of each connection
    ldapPc,          \* the next step of a request
    login,           \* whether the request goes on to Login
    held,            \* the connection that a request has in a local variable
    ldapOverlapped,  \* history: whether two requests ran at the same time
    failures         \* history: how often binding as administrator failed

ldapVars == <<AdminConn, conns, ldapPc, login, held, ldapOverlapped, failures>>

ldapHistory == <<ldapOverlapped, failures>>

(* NewClient reads the configuration and connects to nothing yet. *)
LdapInit ==
    /\ AdminConn = NoConn
    /\ conns = [c \in Conns |-> "new"]
    /\ ldapPc = [r \in Requests |-> "idle"]
    /\ login = [r \in Requests |-> FALSE]
    /\ held = [r \in Requests |-> NoConn]
    /\ ldapOverlapped = FALSE
    /\ failures = 0

LdapGoto(r, step) == ldapPc' = [ldapPc EXCEPT ![r] = step]

-----------------------------------------------------------------------------
(* A handler calls GetUser; after a basic authorization header it calls    *)
(* Login on the result.                                                    *)
GetUser(r) ==
    /\ ldapPc[r] = "idle"
    /\ ldapOverlapped' = (ldapOverlapped \/ \E q \in Requests : ldapPc[q] # "idle")
    /\ login' \in {[login EXCEPT ![r] = b] : b \in BOOLEAN}
    /\ LdapGoto(r, "adminConnect")
    /\ UNCHANGED <<AdminConn, conns, held, failures>>

adminConnect(r) ==
    /\ ldapPc[r] = "adminConnect"
    /\ LdapGoto(r, IF AdminConn = NoConn THEN "dial" ELSE "search")
    /\ UNCHANGED <<AdminConn, conns, login, held, ldapHistory>>

(* Mutant: the cache is filled whether or not the bind succeeded. *)
AfterBindFailureCached == "cache"

(* newConnection returns an error, and so do its callers. *)
AfterBindFailure == "idle"

(* The first half of newConnection: dial. *)
Dial(r) ==
    /\ ldapPc[r] \in {"dial", "dialLogin"}
    /\ \/ \E c \in Conns :
             /\ conns[c] = "new"
             /\ conns' = [conns EXCEPT ![c] = "open"]
             /\ held' = [held EXCEPT ![r] = c]
             /\ LdapGoto(r, IF ldapPc[r] = "dial" THEN "bind" ELSE "bindLogin")
       \/ /\ LdapGoto(r, "idle")
          /\ UNCHANGED <<conns, held>>
    /\ UNCHANGED <<AdminConn, login, ldapHistory>>

(* The second half: bind as administrator, if one is configured.  When     *)
(* that fails nil is returned, and nothing refers to the connection.       *)
Bind(r) ==
    /\ ldapPc[r] \in {"bind", "bindLogin"}
    /\ \/ /\ AdminBind => conns[held[r]] = "open"
          /\ LdapGoto(r, IF ldapPc[r] = "bind" THEN "cache" ELSE "bindUser")
          /\ UNCHANGED <<held, failures>>
       \/ /\ AdminBind
          /\ LdapGoto(r, AfterBindFailure)
          /\ held' = [held EXCEPT ![r] = NoConn]
          /\ failures' = failures + 1
    /\ UNCHANGED <<AdminConn, conns, login, ldapOverlapped>>

(* The end of adminConnect. *)
Cache(r) ==
    /\ ldapPc[r] = "cache"
    /\ AdminConn' = held[r]
    /\ held' = [held EXCEPT ![r] = NoConn]
    /\ LdapGoto(r, "search")
    /\ UNCHANGED <<conns, login, ldapHistory>>

(* The search fails on a lost connection, and GetUser does unless there is *)
(* exactly one entry.                                                      *)
Search(r) ==
    /\ ldapPc[r] = "search"
    /\ \/ /\ AdminConn # NoConn /\ conns[AdminConn] = "open"
          /\ LdapGoto(r, IF login[r] THEN "dialLogin" ELSE "idle")
       \/ LdapGoto(r, "idle")
    /\ UNCHANGED <<AdminConn, conns, login, held, ldapHistory>>

(* Mutant: the connection of a login stays open. *)
AfterLoginLeft(c) == conns

(* The deferred Close, whether or not the password was right. *)
AfterLogin(c) == [conns EXCEPT ![c] = "closed"]

(* Login binds as the user and returns. *)
Login(r) ==
    /\ ldapPc[r] = "bindUser"
    /\ conns' = AfterLogin(held[r])
    /\ held' = [held EXCEPT ![r] = NoConn]
    /\ LdapGoto(r, "idle")
    /\ UNCHANGED <<AdminConn, login, ldapHistory>>

(* The LDAP server, or the network, drops a connection. *)
Lose(c) ==
    /\ conns[c] = "open"
    /\ conns' = [conns EXCEPT ![c] = "lost"]
    /\ UNCHANGED <<AdminConn, ldapPc, login, held, ldapHistory>>

LdapStep(r) == GetUser(r) \/ adminConnect(r) \/ Dial(r) \/ Bind(r) \/ Cache(r)
           \/ Search(r) \/ Login(r)

LdapNext == (\E r \in Requests : LdapStep(r)) \/ (\E c \in Conns : Lose(c))

LdapSpec == LdapInit /\ [][LdapNext]_ldapVars

-----------------------------------------------------------------------------
(* Properties. *)

(* GetUser never searches on a nil connection, however the requests that   *)
(* find no connection overlap, fail and lose theirs.                       *)
SearchHasConn ==
    \A r \in Requests : ldapPc[r] = "search" => AdminConn # NoConn

(* "Create an admin connection to the LDAP server and cache it in the      *)
(* client": the open connections are the cached one and those in use.  One *)
(* more may stay open for each time binding as administrator has failed,   *)
(* and none for a login or a search that fails, as long as requests come   *)
(* one at a time.                                                          *)
NoStrayConns ==
    ~ldapOverlapped =>
        Cardinality({c \in Conns : /\ conns[c] = "open"
                                   /\ c # AdminConn
                                   /\ \A r \in Requests : held[r] # c})
            <= failures
=============================================================================

---------------------------- MODULE CopLdapProofs ----------------------------
(***************************************************************************)
(* Theorems about CopLdap, for any number of requests and connections.     *)
(***************************************************************************)
EXTENDS CopLdap, FiniteSetTheorems, TLAPS

(* Where a request has a connection in a local variable. *)
Holding == {"bind", "bindLogin", "cache", "bindUser"}

Steps == {"idle", "adminConnect", "dial", "dialLogin", "search"} \cup Holding

LdapTypeOK ==
    /\ AdminConn \in Conns \cup {NoConn}
    /\ conns \in [Conns -> {"new", "open", "lost", "closed"}]
    /\ ldapPc \in [Requests -> Steps]
    /\ login \in [Requests -> BOOLEAN]
    /\ held \in [Requests -> Conns \cup {NoConn}]
    /\ ldapOverlapped \in BOOLEAN /\ failures \in Nat

HoldInv == \A r \in Requests : ldapPc[r] \in Holding <=> held[r] # NoConn

LdapInv == LdapTypeOK /\ HoldInv /\ SearchHasConn

(* NewClient connects to nothing. *)
LEMMA LdapInvInit == LdapInit => LdapInv
<1> SUFFICES ASSUME LdapInit PROVE LdapInv
  OBVIOUS
<1>1. LdapTypeOK
  BY DEF LdapInit, LdapTypeOK, Steps
<1>2. HoldInv /\ SearchHasConn
  BY DEF LdapInit, HoldInv, SearchHasConn, Holding
<1> QED
  BY <1>1, <1>2 DEF LdapInv

(* The steps that change no connection. *)
LEMMA QuietStep ==
    ASSUME LdapInv, NEW r \in Requests,
           GetUser(r) \/ adminConnect(r) \/ Search(r)
    PROVE  LdapInv'
<1> USE DEF LdapInv, LdapTypeOK, LdapGoto, ldapHistory
<1>1. CASE GetUser(r)
  <2>1. PICK b \in BOOLEAN : login' = [login EXCEPT ![r] = b]
    BY <1>1 DEF GetUser
  <2>2. LdapTypeOK'
    BY <1>1, <2>1 DEF GetUser, Steps
  <2>3. HoldInv' /\ SearchHasConn'
    BY <1>1 DEF GetUser, HoldInv, SearchHasConn, Holding
  <2> QED
    BY <2>2, <2>3
<1>2. CASE adminConnect(r)
  <2>1. LdapTypeOK'
    BY <1>2 DEF adminConnect, Steps
  <2>2. HoldInv'
    BY <1>2 DEF adminConnect, HoldInv, Holding
  <2>3. SearchHasConn'
    BY <1>2 DEF adminConnect, SearchHasConn
  <2> QED
    BY <2>1, <2>2, <2>3
<1>3. CASE Search(r)
  <2>1. LdapTypeOK'
    BY <1>3 DEF Search, Steps
  <2>2. HoldInv' /\ SearchHasConn'
    BY <1>3 DEF Search, HoldInv, SearchHasConn, Holding
  <2> QED
    BY <2>1, <2>2
<1> QED
  BY <1>1, <1>2, <1>3

(* A connection is dialled, bound, cached or closed. *)
LEMMA ConnStep ==
    ASSUME LdapInv, NEW r \in Requests,
           Dial(r) \/ Bind(r) \/ Cache(r) \/ Login(r)
    PROVE  LdapInv'
<1> USE DEF LdapInv, LdapTypeOK, LdapGoto, ldapHistory
<1>0. ldapPc[r] \in Holding => held[r] \in Conns
  BY DEF HoldInv
<1>1. CASE Dial(r)
  <2>1. CASE \E c \in Conns :
             /\ conns[c] = "new"
             /\ conns' = [conns EXCEPT ![c] = "open"]
             /\ held' = [held EXCEPT ![r] = c]
             /\ LdapGoto(r, IF ldapPc[r] = "dial" THEN "bind" ELSE "bindLogin")
    <3>1. PICK c \in Conns :
             /\ conns' = [conns EXCEPT ![c] = "open"]
             /\ held' = [held EXCEPT ![r] = c]
             /\ LdapGoto(r, IF ldapPc[r] = "dial" THEN "bind" ELSE "bindLogin")
      BY <2>1
    <3>2. LdapTypeOK'
      BY <1>1, <3>1 DEF Dial, Steps, Holding
    <3>3. HoldInv' /\ SearchHasConn'
      BY <1>1, <3>1, LdapAssumption DEF Dial, HoldInv, SearchHasConn, Holding
    <3> QED
      BY <3>2, <3>3
  <2>2. CASE LdapGoto(r, "idle") /\ UNCHANGED <<conns, held>>
    <3>1. LdapTypeOK'
      BY <1>1, <2>2 DEF Dial, Steps
    <3>2. HoldInv' /\ SearchHasConn'
      BY <1>1, <2>2 DEF Dial, HoldInv, SearchHasConn, Holding
    <3> QED
      BY <3>1, <3>2
  <2> QED
    BY <1>1, <2>1, <2>2 DEF Dial
<1>2. CASE Bind(r)
  <2>1. LdapTypeOK'
    BY <1>2 DEF Bind, AfterBindFailure, Steps, Holding
  <2>2. HoldInv' /\ SearchHasConn'
    BY <1>2 DEF Bind, AfterBindFailure, HoldInv, SearchHasConn, Holding
  <2> QED
    BY <2>1, <2>2
<1>3. CASE Cache(r)
  <2>0. held[r] \in Conns
    BY <1>0, <1>3 DEF Cache, Holding
  <2>1. LdapTypeOK'
    BY <1>3, <2>0 DEF Cache, Steps
  <2>2. HoldInv' /\ SearchHasConn'
    BY <1>3, <2>0, LdapAssumption DEF Cache, HoldInv, SearchHasConn, Holding
  <2> QED
    BY <2>1, <2>2
<1>4. CASE Login(r)
  <2>0. held[r] \in Conns
    BY <1>0, <1>4 DEF Login, Holding
  <2>1. LdapTypeOK'
    BY <1>4, <2>0 DEF Login, AfterLogin, Steps
  <2>2. HoldInv' /\ SearchHasConn'
    BY <1>4 DEF Login, HoldInv, SearchHasConn, Holding
  <2> QED
    BY <2>1, <2>2
<1> QED
  BY <1>1, <1>2, <1>3, <1>4

(* Every step. *)
LEMMA LdapInvStep == LdapInv /\ [LdapNext]_ldapVars => LdapInv'
<1> SUFFICES ASSUME LdapInv, [LdapNext]_ldapVars PROVE LdapInv'
  OBVIOUS
<1>1. ASSUME NEW c \in Conns, Lose(c) PROVE LdapInv'
  BY <1>1 DEF Lose, ldapHistory, LdapInv, LdapTypeOK, HoldInv, SearchHasConn
<1>2. CASE UNCHANGED ldapVars
  BY <1>2 DEF ldapVars, LdapInv, LdapTypeOK, HoldInv, SearchHasConn
<1> QED
  BY <1>1, <1>2, QuietStep, ConnStep DEF LdapNext, LdapStep

(* The types, the connection a request holds, and the cached connection.   *)
LEMMA LdapInvariant == LdapSpec => []LdapInv
  BY LdapInvInit, LdapInvStep, PTL DEF LdapSpec

(* For any number of requests that overlap, fail and lose their            *)
(* connections in any order, GetUser does not search on a nil connection:  *)
(* AdminConn is cached before the search and never cleared.                *)
THEOREM SearchesHaveConn == LdapSpec => []SearchHasConn
<1>1. LdapInv => SearchHasConn
  BY DEF LdapInv
<1> QED
  BY <1>1, LdapInvariant, PTL

-----------------------------------------------------------------------------
(***************************************************************************)
(* Connections that nothing refers to.  As long as requests come one at a  *)
(* time, the one that dials has found no connection in the cache and none  *)
(* comes there before its own.                                             *)
(***************************************************************************)
Stray ==
    {c \in Conns : /\ conns[c] = "open"
                   /\ c # AdminConn
                   /\ \A r \in Requests : held[r] # c}

AloneInv ==
    ~ldapOverlapped =>
        /\ \A q, r \in Requests : ldapPc[q] # "idle" /\ ldapPc[r] # "idle" => q = r
        /\ \A r \in Requests : ldapPc[r] \in {"dial", "bind", "cache"} => AdminConn = NoConn
        /\ IsFiniteSet(Stray) /\ Cardinality(Stray) <= failures

(* Fewer stray connections, or one more and one more failure. *)
LEMMA StrayCounted ==
    ASSUME LdapInv, LdapInv', IsFiniteSet(Stray), Cardinality(Stray) <= failures,
           \/ Stray' \subseteq Stray /\ failures' = failures
           \/ (\E c \in Conns : Stray' \subseteq Stray \cup {c}) /\ failures' = failures + 1
    PROVE  IsFiniteSet(Stray') /\ Cardinality(Stray') <= failures'
<1>0. failures \in Nat /\ Cardinality(Stray) \in Nat
  BY FS_CardinalityType DEF LdapInv, LdapTypeOK
<1>1. CASE Stray' \subseteq Stray /\ failures' = failures
  <2>1. IsFiniteSet(Stray') /\ Cardinality(Stray') <= Cardinality(Stray)
    BY <1>1, FS_Subset
  <2>2. Cardinality(Stray') \in Nat
    BY <2>1, FS_CardinalityType
  <2> QED
    BY <1>0, <1>1, <2>1, <2>2
<1>2. ASSUME NEW c \in Conns, Stray' \subseteq Stray \cup {c}, failures' = failures + 1
      PROVE  IsFiniteSet(Stray') /\ Cardinality(Stray') <= failures'
  <2>1. /\ IsFiniteSet(Stray \cup {c})
        /\ Cardinality(Stray \cup {c}) <= Cardinality(Stray) + 1
    BY <1>0, FS_AddElement
  <2>2. /\ IsFiniteSet(Stray')
        /\ Cardinality(Stray') <= Cardinality(Stray \cup {c})
    BY <1>2, <2>1, FS_Subset
  <2>3. Cardinality(Stray') \in Nat /\ Cardinality(Stray \cup {c}) \in Nat
    BY <2>1, <2>2, FS_CardinalityType
  <2> QED
    BY <1>0, <1>2, <2>1, <2>2, <2>3
<1> QED
  BY <1>1, <1>2

(* What a step does to the connections that nothing refers to.  A request  *)
(* that caches its connection replaces none, as it is alone.               *)
LEMMA StrayStep ==
    ASSUME LdapInv, AloneInv, ~ldapOverlapped, NEW r \in Requests, LdapStep(r)
    PROVE  \/ Stray' \subseteq Stray /\ failures' = failures
           \/ (\E c \in Conns : Stray' \subseteq Stray \cup {c}) /\ failures' = failures + 1
<1> USE DEF LdapInv, LdapTypeOK, ldapHistory
<1>0. ldapPc[r] \in Holding => held[r] \in Conns
  BY DEF HoldInv
<1>1. CASE GetUser(r) \/ adminConnect(r) \/ Search(r)
  BY <1>1 DEF GetUser, adminConnect, Search, Stray
<1>2. CASE Dial(r)
  <2>1. held[r] = NoConn
    BY <1>2 DEF Dial, HoldInv, Holding
  <2> QED
    BY <1>2, <2>1, LdapAssumption DEF Dial, Stray
<1>3. CASE Bind(r)
  <2>1. held[r] \in Conns
    BY <1>0, <1>3 DEF Bind, Holding
  <2>2. CASE UNCHANGED <<held, failures>>
    BY <1>3, <2>2 DEF Bind, Stray
  <2>3. CASE held' = [held EXCEPT ![r] = NoConn] /\ failures' = failures + 1
    <3>1. Stray' \subseteq Stray \cup {held[r]}
      BY <1>3, <2>3 DEF Bind, Stray
    <3> QED
      BY <2>1, <2>3, <3>1
  <2> QED
    BY <1>3, <2>2, <2>3 DEF Bind
<1>4. CASE Cache(r)
  <2>1. AdminConn = NoConn
    BY <1>4 DEF Cache, AloneInv
  <2>2. AdminConn' = held[r] /\ \A q \in Requests \ {r} : held'[q] = held[q]
    BY <1>4 DEF Cache
  <2>3. Stray' \subseteq Stray
    BY <1>4, <2>1, <2>2, LdapAssumption DEF Cache, Stray
  <2> QED
    BY <1>4, <2>3 DEF Cache
<1>5. CASE Login(r)
  <2>1. held[r] \in Conns
    BY <1>0, <1>5 DEF Login, Holding
  <2>2. /\ conns'[held[r]] = "closed"
        /\ \A c \in Conns \ {held[r]} : conns'[c] = conns[c]
        /\ \A q \in Requests \ {r} : held'[q] = held[q]
    BY <1>5, <2>1 DEF Login, AfterLogin
  <2>3. Stray' \subseteq Stray
    BY <1>5, <2>2 DEF Login, Stray
  <2> QED
    BY <1>5, <2>3 DEF Login
<1> QED
  BY <1>1, <1>2, <1>3, <1>4, <1>5 DEF LdapStep

(* A request that begins while another runs sets overlapped, so the others *)
(* are idle when one takes a step.                                         *)
LEMMA AloneStep ==
    ASSUME LdapInv, LdapInv', AloneInv, NEW r \in Requests, LdapStep(r)
    PROVE  AloneInv'
<1> SUFFICES ASSUME ~ldapOverlapped' PROVE AloneInv'
  BY DEF AloneInv
<1> USE DEF LdapInv, LdapTypeOK, ldapHistory
<1>1. ~ldapOverlapped /\ \A q \in Requests \ {r} : ldapPc[q] = "idle"
  <2>1. CASE GetUser(r)
    BY <2>1 DEF GetUser
  <2>2. CASE ~GetUser(r)
    <3>1. ldapPc[r] # "idle" /\ ldapOverlapped' = ldapOverlapped
      BY <2>2 DEF LdapStep, adminConnect, Dial, Bind, Cache, Search, Login
    <3> QED
      BY <3>1 DEF AloneInv
  <2> QED
    BY <2>1, <2>2
<1>2. \A q \in Requests \ {r} : ldapPc'[q] = "idle"
  BY <1>1 DEF LdapStep, GetUser, adminConnect, Dial, Bind, Cache, Search, Login, LdapGoto
<1>3. ldapPc'[r] \in {"dial", "bind", "cache"} => AdminConn' = NoConn
  <2>1. CASE GetUser(r) \/ Search(r) \/ Login(r)
    BY <2>1 DEF GetUser, Search, Login, LdapGoto
  <2>2. CASE adminConnect(r)
    BY <2>2 DEF adminConnect, LdapGoto
  <2>3. CASE Dial(r)
    BY <1>1, <2>3 DEF Dial, LdapGoto, AloneInv
  <2>4. CASE Bind(r)
    BY <1>1, <2>4 DEF Bind, LdapGoto, AfterBindFailure, AloneInv
  <2>5. CASE Cache(r)
    BY <2>5 DEF Cache, LdapGoto
  <2> QED
    BY <2>1, <2>2, <2>3, <2>4, <2>5 DEF LdapStep
<1>4. IsFiniteSet(Stray') /\ Cardinality(Stray') <= failures'
  BY <1>1, StrayStep, StrayCounted DEF AloneInv
<1> QED
  BY <1>2, <1>3, <1>4 DEF AloneInv

(* Every step.  A connection that is lost is not open any more. *)
LEMMA AloneInvStep == LdapInv /\ LdapInv' /\ AloneInv /\ [LdapNext]_ldapVars => AloneInv'
<1> SUFFICES ASSUME LdapInv, LdapInv', AloneInv, [LdapNext]_ldapVars PROVE AloneInv'
  OBVIOUS
<1>1. ASSUME NEW c \in Conns, Lose(c) PROVE AloneInv'
  <2>1. UNCHANGED <<AdminConn, ldapPc, held, ldapOverlapped, failures>>
    BY <1>1 DEF Lose, ldapHistory
  <2>2. Stray' \subseteq Stray
    BY <1>1 DEF Lose, Stray, LdapInv, LdapTypeOK
  <2>3. ~ldapOverlapped => IsFiniteSet(Stray') /\ Cardinality(Stray') <= failures'
    BY <2>1, <2>2, StrayCounted DEF AloneInv
  <2> QED
    BY <2>1, <2>3 DEF AloneInv
<1>2. CASE UNCHANGED ldapVars
  <2>1. Stray' = Stray
    BY <1>2 DEF ldapVars, Stray
  <2> QED
    BY <1>2, <2>1 DEF ldapVars, AloneInv
<1> QED
  BY <1>1, <1>2, AloneStep DEF LdapNext

(* As long as requests come one at a time, the connections that nothing    *)
(* refers to are at most as many as the failures to bind as administrator: *)
(* no request that succeeds, no search and no login leaves one open, for   *)
(* any number of requests and connections.                                 *)
THEOREM StrayConnsAreFailures == LdapSpec => []NoStrayConns
<1>1. LdapInit => AloneInv
  <2> SUFFICES ASSUME LdapInit PROVE AloneInv
    OBVIOUS
  <2>1. Stray = {}
    BY DEF LdapInit, Stray
  <2>2. IsFiniteSet(Stray) /\ Cardinality(Stray) <= failures
    BY <2>1, FS_EmptySet DEF LdapInit
  <2> QED
    BY <2>2 DEF LdapInit, AloneInv
<1>2. AloneInv => NoStrayConns
  BY DEF AloneInv, NoStrayConns, Stray
<1> QED
  BY <1>1, <1>2, LdapInvariant, AloneInvStep, PTL DEF LdapSpec
==============================================================================

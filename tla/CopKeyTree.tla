----------------------------- MODULE CopKeyTree -----------------------------
(***************************************************************************)
(* The handler of tcert requests (cli/server/tcert.go) and the tree of     *)
(* derived keys that all of its goroutines share (lib/tcert/keytree.go).   *)
(* The keys are kept in a Go map that is read and written without a lock.  *)
(***************************************************************************)
EXTENDS Integers, SequencesExt

CONSTANTS
    Handlers,      \* goroutines that serve tcert requests
    Paths,         \* the affiliation paths of the users
    Faults,        \* whether the derivation of a key may fail
    Racing,        \* whether two goroutines may be inside the map at once
    MaxCollisions, \* bound on the number of inserts that collide
    MaxRestarts,   \* bound on the number of restarts of the server
    None

(* An element of a path is the sequence of the pieces between its slashes: *)
(* newDBUser splits a group at the slashes, GetAffiliationPath of the LDAP *)
(* client a DN at its commas.                                              *)
ASSUME KeyTreeAssumption ==
    /\ \A p \in Paths : p \in Seq(Seq(STRING)) /\ p # <<>>
    /\ Faults \in BOOLEAN /\ Racing \in BOOLEAN
    /\ MaxRestarts \in Nat /\ MaxCollisions \in Nat

VARIABLES
    root,       \* the root key of the running server, by number
    keys,       \* KeyTree.keys: the key stored under a joined path, or None
    pc,         \* the next step of each goroutine
    path,       \* the affiliation path its user has
    depth,      \* the length of the prefix its call of GetKey is about
    key,        \* the key its call of GetKey returns
    issued,     \* history: the keys it derived batches from, until inserts collide
    collisions  \* history: the number of inserts that collided in it

vars == <<root, keys, pc, path, depth, key, issued, collisions>>

(* Key derivation (HMAC) is taken to have no collisions: a key is the path *)
(* of its node under its root key.                                         *)
Key(r, p) == [root |-> r, path |-> p]

(* Mutant: the key of the root is taken for that of the parent. *)
deriveChildKeyOfRoot(parentKey, childName) ==
    Key(parentKey.root, <<childName>>)

deriveChildKey(parentKey, childName) ==
    Key(parentKey.root, Append(parentKey.path, childName))

PrefixOf(p, n) == SubSeq(p, 1, n)

(* The nodes of the tree below its root. *)
Nodes == UNION {{PrefixOf(p, n) : n \in 1..Len(p)} : p \in Paths}

(* strings.Join(path, "/") *)
Join(p) == FlattenSeq(p)

PathStrings == {Join(p) : p \in Nodes}

KeySet == [root : Nat, path : Seq(Seq(STRING))]

TypeOK ==
    /\ root \in Nat
    /\ keys \in [PathStrings -> KeySet \cup {None}]
    /\ pc \in [Handlers -> {"idle", "lookUp", "store", "batch"}]
    /\ path \in [Handlers -> Paths \cup {<<>>}]
    /\ depth \in [Handlers -> Nat]
    /\ \A h \in Handlers : depth[h] <= Len(path[h])
    /\ key \in [Handlers -> KeySet \cup {None}]
    /\ issued \subseteq [path : Paths, key : KeySet]
    /\ collisions \in Nat

Init ==
    /\ root = 0
    /\ keys = [s \in PathStrings |-> None]
    /\ pc = [h \in Handlers |-> "idle"]
    /\ path = [h \in Handlers |-> <<>>]
    /\ depth = [h \in Handlers |-> 0]
    /\ key = [h \in Handlers |-> None]
    /\ issued = {}
    /\ collisions = 0

-----------------------------------------------------------------------------
(* The request ends, with an answer or without. *)
Finish(h) ==
    /\ pc' = [pc EXCEPT ![h] = "idle"]
    /\ path' = [path EXCEPT ![h] = <<>>]
    /\ depth' = [depth EXCEPT ![h] = 0]
    /\ key' = [key EXCEPT ![h] = None]

(* A request arrives, and getUserInfo finds the path of its user.          *)
Receive(h) ==
    /\ pc[h] = "idle"
    /\ \E p \in Paths :
          /\ path' = [path EXCEPT ![h] = p]
          /\ depth' = [depth EXCEPT ![h] = Len(p)]
    /\ pc' = [pc EXCEPT ![h] = "lookUp"]
    /\ UNCHANGED <<root, keys, key, issued, collisions>>

(* Where GetKey returns to with the key of the prefix of length d: to the  *)
(* handler, or to the call for the next longer prefix.                     *)
Caller(h, d) == IF d = Len(path[h]) THEN "batch" ELSE "store"

Return(h, d, k) ==
    /\ depth' = [depth EXCEPT ![h] = d]
    /\ key' = [key EXCEPT ![h] = k]
    /\ pc' = [pc EXCEPT ![h] = Caller(h, d)]
    /\ UNCHANGED path

(* Mutant: the recursive call is made for the same path. *)
ParentDepthSame(d) == d

(* path[0 : len(path)-1] *)
ParentDepth(d) == d - 1

(* GetKey up to its recursive call.  While another goroutine is inside the *)
(* map, an entry may be missed.                                            *)
LookUp(h) ==
    LET s == Join(PrefixOf(path[h], depth[h])) IN
    /\ pc[h] = "lookUp"
    /\ \/ /\ depth[h] = 0
          /\ Return(h, 0, Key(root, <<>>))
       \/ /\ depth[h] > 0 /\ keys[s] # None
          /\ Return(h, depth[h], keys[s])
       \/ /\ depth[h] > 0
          /\ keys[s] = None \/ Racing
          /\ depth' = [depth EXCEPT ![h] = ParentDepth(@)]
          /\ UNCHANGED <<pc, path, key>>
    /\ UNCHANGED <<root, keys, issued, collisions>>

(* Reading a map that another goroutine changes may also panic, and the    *)
(* HTTP server ends the request.                                           *)
Panic(h) ==
    /\ Racing
    /\ pc[h] = "lookUp"
    /\ Finish(h)
    /\ UNCHANGED <<root, keys, issued, collisions>>

(* The rest of GetKey: the key of the child is derived and stored.         *)
Store(h) ==
    LET d == depth[h] + 1
        k == deriveChildKey(key[h], path[h][d]) IN
    /\ pc[h] = "store"
    /\ \/ /\ keys' = [keys EXCEPT ![Join(PrefixOf(path[h], d))] = k]
          /\ Return(h, d, k)
       \/ Faults /\ Finish(h) /\ UNCHANGED keys
    /\ UNCHANGED <<root, issued, collisions>>

(* Two goroutines are given the same free cell of the map: the path of one *)
(* and the key of the other stay in it.                                    *)
StoreRace(g, h) ==
    LET next(x) == depth[x] + 1
        k(x) == deriveChildKey(key[x], path[x][next(x)]) IN
    /\ Racing /\ collisions < MaxCollisions
    /\ collisions' = collisions + 1
    /\ g # h /\ pc[g] = "store" /\ pc[h] = "store"
    /\ keys' = [keys EXCEPT ![Join(PrefixOf(path[g], next(g)))] = k(h)]
    /\ depth' = [depth EXCEPT ![g] = next(g), ![h] = next(h)]
    /\ key' = [key EXCEPT ![g] = k(g), ![h] = k(h)]
    /\ pc' = [pc EXCEPT ![g] = Caller(g, next(g)), ![h] = Caller(h, next(h))]
    /\ issued' = {}
    /\ UNCHANGED <<root, path>>

(* GetBatch derives the certificates from the key, and they are sent.      *)
Batch(h) ==
    /\ pc[h] = "batch"
    /\ issued' = IF collisions = 0
                 THEN issued \cup {[path |-> path[h], key |-> key[h]]}
                 ELSE issued
    /\ Finish(h)
    /\ UNCHANGED <<root, keys, collisions>>

(* The server starts anew, with an empty tree below a new root key.  The   *)
(* runtime ends it when it notices two goroutines inside the map.          *)
Restart ==
    /\ root < MaxRestarts
    /\ root' = root + 1
    /\ keys' = [s \in PathStrings |-> None]
    /\ pc' = [h \in Handlers |-> "idle"]
    /\ path' = [h \in Handlers |-> <<>>]
    /\ depth' = [h \in Handlers |-> 0]
    /\ key' = [h \in Handlers |-> None]
    /\ issued' = {}
    /\ collisions' = 0

Serve(h) == LookUp(h) \/ Store(h) \/ Batch(h)

Next ==
    \/ \E h \in Handlers : Receive(h) \/ Serve(h) \/ Panic(h)
    \/ \E g, h \in Handlers : StoreRace(g, h)
    \/ Restart

Spec == Init /\ [][Next]_vars

(* Every goroutine is scheduled; nobody has to send a request.             *)
FairSpec == Spec /\ \A h \in Handlers : WF_vars(Serve(h))

-----------------------------------------------------------------------------
(* Properties. *)

(* No other node has the joined path of p, or of one of its prefixes.      *)
Distinct(p) ==
    \A n \in 1..Len(p) : \A q \in Nodes :
        Join(q) = Join(PrefixOf(p, n)) => q = PrefixOf(p, n)

(* The keys of two paths are related as the paths are.                     *)
KeysRelated(i, j) ==
    IsPrefix(i.key.path, j.key.path) <=> IsPrefix(i.path, j.path)

(* The comment at the head of keytree.go: the key of a node allows to      *)
(* derive the keys of the nodes in its subtree and no others.  It holds of *)
(* the keys GetKey hands out, whichever of them it took from the map, for  *)
(* any two requests to one run of the server whose paths share no entry of *)
(* the map with another node: above all, equal paths get equal keys and    *)
(* different paths different ones, whatever other paths there are.  A read *)
(* that misses an entry, or panics, does no harm; inserts that collide do. *)
SubtreeKeys ==
    collisions = 0 =>
        \A i, j \in issued :
            /\ i.key.root = j.key.root
            /\ Distinct(i.path) /\ Distinct(j.path) => KeysRelated(i, j)

(* The same of all keys, as the comment has it: "it is not possible to     *)
(* derive the keys associated with other nodes in the tree which are not   *)
(* part of this sub-tree".                                                 *)
SubtreePromise ==
    collisions = 0 => \A i, j \in issued : KeysRelated(i, j)

(* What is left for paths that do share an entry: the key is that of a     *)
(* node with the same joined path.                                         *)
NamesakeKeys ==
    collisions = 0 => \A i \in issued : Join(i.key.path) = Join(i.path)

(* Every request is answered, or ends with an error: GetKey calls itself   *)
(* until it meets a key in the map or the root, and others fill the map    *)
(* meanwhile, and then derives a key for each of its calls.                *)
GetKeyReturns ==
    \A h \in Handlers : pc[h] = "lookUp" ~> pc[h] \in {"batch", "idle"}
=============================================================================

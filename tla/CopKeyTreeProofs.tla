-------------------------- MODULE CopKeyTreeProofs --------------------------
(***************************************************************************)
(* Proof that the keys GetKey hands out are those of the nodes it is asked *)
(* for, for any paths and any number of goroutines, as long as no inserts  *)
(* collide in the map and the nodes share no entry of the map with others. *)
(***************************************************************************)
EXTENDS CopKeyTree, TLAPS

(* Zenon is tried first: most leaves are first-order, and to encode one    *)
(* for SMT takes long when its context is.                                 *)
USE ZenonT(3), SMTT(20), SMTT(30), ZenonT(20)

(* A key of this run of the server that is the node's own, unless the node *)
(* or one above it has a namesake.                                         *)
KeyOf(k, p) ==
    /\ k \in KeySet
    /\ k.root = root
    /\ Distinct(p) => k.path = p

(* What the map holds of a node is such a key.                             *)
CacheInv == \A p \in Nodes : keys[Join(p)] # None => KeyOf(keys[Join(p)], p)

(* A call that has returned has such a key of its prefix.                  *)
HandlerInv ==
    \A h \in Handlers :
        /\ pc[h] # "idle" => path[h] \in Paths
        /\ pc[h] = "store" => depth[h] < Len(path[h])
        /\ pc[h] = "batch" => depth[h] = Len(path[h])
        /\ pc[h] \in {"store", "batch"} =>
              KeyOf(key[h], PrefixOf(path[h], depth[h]))

(* A batch is derived from such a key of its user's path.                  *)
IssuedInv == \A i \in issued : KeyOf(i.key, i.path)

KeyInv == TypeOK /\ CacheInv /\ HandlerInv /\ IssuedInv

-----------------------------------------------------------------------------
(* The prefixes of a path: the empty one, one that is longer by an element *)
(* and the whole path; all but the empty one are nodes.                    *)
LEMMA PrefixFacts ==
  ASSUME NEW p \in Paths
  PROVE  /\ Len(p) \in Nat /\ Len(p) > 0
         /\ PrefixOf(p, 0) = <<>>
         /\ PrefixOf(p, Len(p)) = p
         /\ \A n \in 1..Len(p) : PrefixOf(p, n) \in Nodes
         /\ \A n \in 0..Len(p) : PrefixOf(p, n) \in Seq(Seq(STRING))
         /\ \A n \in 0..(Len(p) - 1) :
               Append(PrefixOf(p, n), p[n + 1]) = PrefixOf(p, n + 1)
  <1>1. p \in Seq(Seq(STRING)) /\ p # <<>>
    BY KeyTreeAssumption
  <1>2. Len(p) \in Nat /\ Len(p) > 0
    BY <1>1
  <1>3. PrefixOf(p, 0) = <<>> /\ PrefixOf(p, Len(p)) = p
    BY <1>1, <1>2 DEF PrefixOf
  <1>4. \A n \in 1..Len(p) : PrefixOf(p, n) \in Nodes
    BY DEF Nodes
  <1>5. ASSUME NEW n \in 0..(Len(p) - 1)
        PROVE  Append(PrefixOf(p, n), p[n + 1]) = PrefixOf(p, n + 1)
    BY <1>1, <1>2, <1>5 DEF PrefixOf
  <1>6. ASSUME NEW n \in 0..Len(p)
        PROVE  PrefixOf(p, n) \in Seq(Seq(STRING))
    BY <1>1, <1>2, <1>6 DEF PrefixOf
  <1>7. QED
    BY <1>2, <1>3, <1>4, <1>5, <1>6

(* The prefixes of a prefix are prefixes of the path. *)
LEMMA PrefixOfPrefix ==
  ASSUME NEW p \in Paths, NEW n \in 0..Len(p)
  PROVE  /\ Len(PrefixOf(p, n)) = n
         /\ \A m \in 0..n : PrefixOf(PrefixOf(p, n), m) = PrefixOf(p, m)
  <1>1. p \in Seq(Seq(STRING)) /\ Len(p) \in Nat
    BY KeyTreeAssumption
  <1>2. Len(PrefixOf(p, n)) = n /\ PrefixOf(p, n) \in Seq(Seq(STRING))
    BY <1>1 DEF PrefixOf
  <1>3. ASSUME NEW m \in 0..n
        PROVE  PrefixOf(PrefixOf(p, n), m) = PrefixOf(p, m)
    BY <1>1, <1>2 DEF PrefixOf
  <1>4. QED
    BY <1>2, <1>3

(* What makes a node distinct makes the nodes above it so. *)
LEMMA DistinctParent ==
  ASSUME NEW p \in Paths, NEW n \in 0..(Len(p) - 1),
         Distinct(PrefixOf(p, n + 1))
  PROVE  Distinct(PrefixOf(p, n))
  <1>1. Len(p) \in Nat /\ n \in 0..Len(p) /\ n + 1 \in 0..Len(p)
    BY PrefixFacts
  <1>2. /\ Len(PrefixOf(p, n)) = n /\ Len(PrefixOf(p, n + 1)) = n + 1
        /\ \A m \in 1..n : /\ PrefixOf(PrefixOf(p, n), m) = PrefixOf(p, m)
                            /\ PrefixOf(PrefixOf(p, n + 1), m) = PrefixOf(p, m)
    BY <1>1, PrefixOfPrefix
  <1>3. \A m \in 1..n : m \in 1..(n + 1)
    BY <1>1
  <1>4. QED
    BY <1>2, <1>3 DEF Distinct

(* An empty map below the first root key. *)
LEMMA KeyInvInit == Init => KeyInv
  <1> SUFFICES ASSUME Init
               PROVE  KeyInv
    OBVIOUS
  <1>1. TypeOK
    <2>1. /\ root \in Nat
          /\ keys \in [PathStrings -> KeySet \cup {None}]
          /\ pc \in [Handlers -> {"idle", "lookUp", "store", "batch"}]
          /\ path \in [Handlers -> Paths \cup {<<>>}]
          /\ depth \in [Handlers -> Nat]
          /\ key \in [Handlers -> KeySet \cup {None}]
          /\ issued \subseteq [path : Paths, key : KeySet]
          /\ collisions \in Nat
      BY DEF Init
    <2>2. \A h \in Handlers : depth[h] <= Len(path[h])
      BY DEF Init
    <2>3. QED
      BY <2>1, <2>2 DEF TypeOK
  <1>2. CacheInv
    BY DEF Init, CacheInv, PathStrings
  <1>3. HandlerInv /\ IssuedInv
    BY DEF Init, HandlerInv, IssuedInv
  <1>4. QED
    BY <1>1, <1>2, <1>3 DEF KeyInv

(* A request that ends leaves the others and the map alone. *)
LEMMA FinishKeeps ==
  ASSUME KeyInv, NEW h \in Handlers, Finish(h),
         UNCHANGED <<root, keys, issued, collisions>>
  PROVE  KeyInv'
  <1>1. /\ root' \in Nat
        /\ keys' \in [PathStrings -> KeySet \cup {None}]
        /\ pc' \in [Handlers -> {"idle", "lookUp", "store", "batch"}]
        /\ path' \in [Handlers -> Paths \cup {<<>>}]
        /\ depth' \in [Handlers -> Nat]
        /\ key' \in [Handlers -> KeySet \cup {None}]
        /\ issued' \subseteq [path : Paths, key : KeySet]
        /\ collisions' \in Nat
    BY DEF KeyInv, TypeOK, Finish
  <1>2. \A g \in Handlers : depth'[g] <= Len(path'[g])
    BY DEF KeyInv, TypeOK, Finish
  <1>3. CacheInv' /\ IssuedInv'
    BY DEF KeyInv, CacheInv, IssuedInv, KeyOf
  <1>4. HandlerInv'
    BY DEF KeyInv, TypeOK, HandlerInv, KeyOf, Finish
  <1>5. QED
    BY <1>1, <1>2, <1>3, <1>4 DEF KeyInv, TypeOK

(* A call of GetKey that returns a key of its prefix. *)
LEMMA ReturnKeeps ==
  ASSUME KeyInv, NEW h \in Handlers, pc[h] # "idle",
         NEW d \in 0..Len(path[h]), NEW k,
         KeyOf(k, PrefixOf(path[h], d)), Return(h, d, k),
         UNCHANGED <<root, issued, collisions>>,
         keys' \in [PathStrings -> KeySet \cup {None}], CacheInv'
  PROVE  KeyInv'
  <1>1. path[h] \in Paths
    BY DEF KeyInv, HandlerInv
  <1>3. k \in KeySet
    BY DEF KeyOf
  <1>4. d \in Nat /\ d <= Len(path[h]) /\ Len(path[h]) \in Nat
    BY <1>1, PrefixFacts
  <1>5. /\ pc' \in [Handlers -> {"idle", "lookUp", "store", "batch"}]
        /\ path' \in [Handlers -> Paths \cup {<<>>}]
        /\ depth' \in [Handlers -> Nat]
    BY <1>4 DEF KeyInv, TypeOK, Return, Caller
  <1>6. key' \in [Handlers -> KeySet \cup {None}]
    BY <1>3 DEF KeyInv, TypeOK, Return
  <1>7. \A g \in Handlers : depth'[g] <= Len(path'[g])
    BY <1>4 DEF KeyInv, TypeOK, Return
  <1>8. HandlerInv'
    <2>1. ASSUME NEW g \in Handlers, g # h
          PROVE  pc'[g] = pc[g] /\ path'[g] = path[g] /\ depth'[g] = depth[g]
                 /\ key'[g] = key[g]
      BY <2>1 DEF KeyInv, TypeOK, Return
    <2>2. /\ pc'[h] = IF d = Len(path[h]) THEN "batch" ELSE "store"
          /\ path'[h] = path[h] /\ depth'[h] = d /\ key'[h] = k
      BY DEF KeyInv, TypeOK, Return, Caller
    <2>3. QED
      BY <2>1, <2>2, <1>1, <1>4 DEF KeyInv, HandlerInv, KeyOf
  <1>9. QED
    BY <1>5, <1>6, <1>7, <1>8 DEF KeyInv, TypeOK, IssuedInv, KeyOf

(* A request arrives. *)
LEMMA ReceiveKeeps ==
  ASSUME KeyInv, NEW h \in Handlers, Receive(h)
  PROVE  KeyInv'
  <1>1. PICK p \in Paths : /\ path' = [path EXCEPT ![h] = p]
                           /\ depth' = [depth EXCEPT ![h] = Len(p)]
    BY DEF Receive
  <1>2. Len(p) \in Nat
    BY PrefixFacts
  <1>3. /\ pc' \in [Handlers -> {"idle", "lookUp", "store", "batch"}]
        /\ path' \in [Handlers -> Paths \cup {<<>>}]
        /\ depth' \in [Handlers -> Nat]
    BY <1>1, <1>2 DEF KeyInv, TypeOK, Receive
  <1>4. \A g \in Handlers : depth'[g] <= Len(path'[g])
    BY <1>1, <1>2 DEF KeyInv, TypeOK
  <1>5. HandlerInv'
    BY <1>1 DEF KeyInv, TypeOK, HandlerInv, KeyOf, Receive
  <1>6. CacheInv' /\ IssuedInv'
    BY DEF KeyInv, CacheInv, IssuedInv, KeyOf, Receive
  <1>7. QED
    BY <1>3, <1>4, <1>5, <1>6 DEF KeyInv, TypeOK, Receive

(* GetKey up to its recursive call: the map has the node's key or none. *)
LEMMA LookUpKeeps ==
  ASSUME KeyInv, NEW h \in Handlers, LookUp(h)
  PROVE  KeyInv'
  <1> DEFINE p == PrefixOf(path[h], depth[h])
  <1>1. /\ pc[h] = "lookUp" /\ path[h] \in Paths
        /\ depth[h] \in Nat /\ depth[h] <= Len(path[h])
    BY DEF LookUp, KeyInv, TypeOK, HandlerInv
  <1>2. /\ Len(path[h]) \in Nat
        /\ depth[h] > 0 => p \in Nodes
        /\ PrefixOf(path[h], 0) = <<>>
    BY <1>1, PrefixFacts
  <1>3. CacheInv' /\ IssuedInv'
    BY DEF LookUp, KeyInv, CacheInv, IssuedInv, KeyOf
  <1>4. UNCHANGED <<root, keys, issued, collisions>>
    BY DEF LookUp
  <1>5. keys' \in [PathStrings -> KeySet \cup {None}]
    BY <1>4 DEF KeyInv, TypeOK
  <1>6. CASE depth[h] = 0 /\ Return(h, 0, Key(root, <<>>))
    <2>1. KeyOf(Key(root, <<>>), PrefixOf(path[h], 0))
      BY <1>2 DEF KeyOf, Key, KeySet, KeyInv, TypeOK
    <2>2. 0 \in 0..Len(path[h])
      BY <1>2
    <2>3. QED
      BY <2>1, <2>2, <1>1, <1>3, <1>4, <1>5, <1>6, ReturnKeeps
  <1>7. CASE depth[h] > 0 /\ keys[Join(p)] # None
             /\ Return(h, depth[h], keys[Join(p)])
    <2>1. KeyOf(keys[Join(p)], p)
      BY <1>2, <1>7 DEF KeyInv, CacheInv
    <2>2. depth[h] \in 0..Len(path[h])
      BY <1>1, <1>2
    <2>3. QED
      BY <2>1, <2>2, <1>1, <1>3, <1>4, <1>5, <1>7, ReturnKeeps
  <1>8. CASE /\ depth[h] > 0
             /\ depth' = [depth EXCEPT ![h] = ParentDepth(@)]
             /\ UNCHANGED <<pc, path, key>>
    <2>1. ParentDepth(depth[h]) \in Nat /\ ParentDepth(depth[h]) < depth[h]
      BY <1>1, <1>8 DEF ParentDepth
    <2>2. depth' \in [Handlers -> Nat]
      BY <1>8, <2>1 DEF KeyInv, TypeOK
    <2>3. \A g \in Handlers : depth'[g] <= Len(path'[g])
      BY <1>1, <1>2, <1>8, <2>1 DEF KeyInv, TypeOK
    <2>4. HandlerInv'
      BY <1>1, <1>4, <1>8 DEF KeyInv, TypeOK, HandlerInv, KeyOf
    <2>5. QED
      BY <2>2, <2>3, <2>4, <1>3, <1>4, <1>8 DEF KeyInv, TypeOK
  <1>9. QED
    BY <1>6, <1>7, <1>8 DEF LookUp

(* The rest of GetKey: the child's key is stored under the child's path.   *)
(* A node with another key there has a namesake.                           *)
LEMMA StoreKeeps ==
  ASSUME KeyInv, NEW h \in Handlers, Store(h)
  PROVE  KeyInv'
  <1> DEFINE d == depth[h] + 1
             p == PrefixOf(path[h], d)
             k == deriveChildKey(key[h], path[h][d])
  <1>1. /\ pc[h] = "store" /\ path[h] \in Paths
        /\ depth[h] \in Nat /\ depth[h] < Len(path[h])
        /\ KeyOf(key[h], PrefixOf(path[h], depth[h]))
    BY DEF Store, KeyInv, TypeOK, HandlerInv
  <1>2. Len(path[h]) \in Nat
    BY <1>1, PrefixFacts
  <1>3. d \in 1..Len(path[h]) /\ depth[h] \in 0..(Len(path[h]) - 1)
    BY <1>1, <1>2
  <1>4. /\ p \in Nodes /\ path[h][d] \in Seq(STRING)
        /\ Append(PrefixOf(path[h], depth[h]), path[h][d]) = p
    <2>1. p \in Nodes /\ Append(PrefixOf(path[h], depth[h]), path[h][d]) = p
      BY <1>1, <1>3, PrefixFacts
    <2>2. path[h] \in Seq(Seq(STRING))
      BY <1>1, KeyTreeAssumption
    <2>3. path[h][d] \in Seq(STRING)
      BY <1>3, <2>2
    <2>4. QED
      BY <2>1, <2>3
  <1>5. KeyOf(k, p)
    <2>1. Append(key[h].path, path[h][d]) \in Seq(Seq(STRING))
      BY <1>1, <1>4 DEF KeyOf, KeySet
    <2>2. Distinct(p) => Append(key[h].path, path[h][d]) = p
      <3>1. Distinct(p) => Distinct(PrefixOf(path[h], depth[h]))
        BY <1>1, <1>3, DistinctParent
      <3>2. QED
        BY <1>1, <1>4, <3>1 DEF KeyOf
    <2>3. key[h].root = root /\ root \in Nat
      BY <1>1 DEF KeyOf, KeyInv, TypeOK
    <2>4. /\ k.root = root /\ k.path = Append(key[h].path, path[h][d])
          /\ k \in KeySet
      BY <2>1, <2>3 DEF deriveChildKey, Key, KeySet
    <2>5. QED
      BY <2>2, <2>4 DEF KeyOf
  <1>6. CASE /\ keys' = [keys EXCEPT ![Join(p)] = k]
             /\ Return(h, d, k)
    <2>1. k \in KeySet
      BY <1>5 DEF KeyOf
    <2>2. keys' \in [PathStrings -> KeySet \cup {None}]
      BY <1>6, <2>1 DEF KeyInv, TypeOK
    <2>3. root' = root /\ issued' = issued /\ collisions' = collisions
      BY DEF Store
    <2>4. CacheInv'
      <3> SUFFICES ASSUME NEW q \in Nodes, keys'[Join(q)] # None
                   PROVE  KeyOf(keys'[Join(q)], q)
        BY <2>3 DEF CacheInv, KeyOf
      <3>1. Join(q) \in PathStrings
        BY DEF PathStrings
      <3>2. CASE Join(q) = Join(p)
        <4>1. keys'[Join(q)] = k
          BY <3>1, <3>2, <1>6 DEF KeyInv, TypeOK
        <4>2. Distinct(q) => q = p
          <5>0. PICK r \in Paths : q \in {PrefixOf(r, n) : n \in 1..Len(r)}
            BY DEF Nodes
          <5>1. PICK n \in 1..Len(r) : q = PrefixOf(r, n)
            BY <5>0
          <5>2. /\ Len(q) = n /\ n \in 1..n /\ PrefixOf(q, n) = q
            <6>1. n \in 0..Len(r) /\ n \in 0..n /\ n \in 1..n
              BY <5>1, PrefixFacts
            <6>2. QED
              BY <5>1, <6>1, PrefixOfPrefix
          <5>3. QED
            BY <1>4, <3>2, <5>2 DEF Distinct
        <4>3. QED
          BY <1>5, <4>1, <4>2 DEF KeyOf
      <3>3. CASE Join(q) # Join(p)
        <4>1. keys'[Join(q)] = keys[Join(q)]
          BY <3>1, <3>3, <1>6 DEF KeyInv, TypeOK
        <4>2. QED
          BY <4>1 DEF KeyInv, CacheInv
      <3>4. QED
        BY <3>2, <3>3
    <2>5. d \in 0..Len(path[h])
      BY <1>3
    <2>6. QED
      BY <2>2, <2>3, <2>4, <2>5, <1>1, <1>5, <1>6, ReturnKeeps
  <1>7. CASE Finish(h) /\ UNCHANGED keys
    BY <1>7, FinishKeeps DEF Store
  <1>8. QED
    BY <1>6, <1>7 DEF Store

(* A batch is issued from a key of its user's path. *)
LEMMA BatchKeeps ==
  ASSUME KeyInv, collisions = 0, NEW h \in Handlers, Batch(h)
  PROVE  KeyInv'
  <1>1. /\ pc[h] = "batch" /\ path[h] \in Paths /\ depth[h] = Len(path[h])
        /\ KeyOf(key[h], PrefixOf(path[h], depth[h]))
    BY DEF Batch, KeyInv, HandlerInv
  <1>2. PrefixOf(path[h], depth[h]) = path[h]
    BY <1>1, PrefixFacts
  <1>3. KeyOf(key[h], path[h]) /\ key[h] \in KeySet
    BY <1>1, <1>2 DEF KeyOf
  <1> DEFINE i == [path |-> path[h], key |-> key[h]]
  <1>4. i \in [path : Paths, key : KeySet] /\ KeyOf(i.key, i.path)
    BY <1>1, <1>3
  <1>5. issued' = issued \cup {i} /\ root' = root
    BY DEF Batch
  <1>6. /\ issued' \subseteq [path : Paths, key : KeySet]
        /\ IssuedInv'
    BY <1>4, <1>5 DEF KeyInv, TypeOK, IssuedInv, KeyOf
  <1>7. /\ pc' \in [Handlers -> {"idle", "lookUp", "store", "batch"}]
        /\ path' \in [Handlers -> Paths \cup {<<>>}]
        /\ depth' \in [Handlers -> Nat]
        /\ key' \in [Handlers -> KeySet \cup {None}]
    BY DEF KeyInv, TypeOK, Batch, Finish
  <1>8. \A g \in Handlers : depth'[g] <= Len(path'[g])
    BY DEF KeyInv, TypeOK, Batch, Finish
  <1>9. HandlerInv'
    BY DEF KeyInv, TypeOK, HandlerInv, KeyOf, Batch, Finish
  <1>10. CacheInv' /\ UNCHANGED <<root, keys, collisions>>
    BY DEF KeyInv, CacheInv, KeyOf, Batch
  <1>11. QED
    BY <1>6, <1>7, <1>8, <1>9, <1>10 DEF KeyInv, TypeOK

(* A new root key below which nothing is cached yet. *)
LEMMA RestartKeeps ==
  ASSUME root \in Nat, Restart
  PROVE  KeyInv'
  <1>1. /\ root' \in Nat
        /\ keys' \in [PathStrings -> KeySet \cup {None}]
        /\ pc' \in [Handlers -> {"idle", "lookUp", "store", "batch"}]
        /\ path' \in [Handlers -> Paths \cup {<<>>}]
        /\ depth' \in [Handlers -> Nat]
        /\ key' \in [Handlers -> KeySet \cup {None}]
        /\ issued' \subseteq [path : Paths, key : KeySet]
        /\ collisions' \in Nat
    BY DEF Restart
  <1>2. \A h \in Handlers : depth'[h] <= Len(path'[h])
    BY DEF Restart
  <1>3. CacheInv'
    BY DEF Restart, CacheInv, PathStrings
  <1>4. HandlerInv' /\ IssuedInv'
    BY DEF Restart, HandlerInv, IssuedInv
  <1>5. QED
    BY <1>1, <1>2, <1>3, <1>4 DEF KeyInv, TypeOK

(* As long as no inserts have collided, everything is in order. *)
CollisionInv ==
    /\ root \in Nat /\ collisions \in Nat
    /\ collisions = 0 => KeyInv

(* Every step.  A collision is counted until the server is restarted.     *)
LEMMA KeyInvStep == CollisionInv /\ [Next]_vars => CollisionInv'
  <1> SUFFICES ASSUME CollisionInv, [Next]_vars
               PROVE  CollisionInv'
    OBVIOUS
  <1> USE DEF CollisionInv
  <1>1. CASE \E h \in Handlers : Receive(h) \/ Serve(h) \/ Panic(h)
    <2>1. PICK h \in Handlers : Receive(h) \/ Serve(h) \/ Panic(h)
      BY <1>1
    <2>2. collisions' = collisions /\ root' = root
      BY <2>1 DEF Receive, Serve, LookUp, Store, Batch, Panic
    <2>3. KeyInv /\ collisions = 0 => KeyInv'
      BY <2>1, ReceiveKeeps, LookUpKeeps, StoreKeeps, BatchKeeps, FinishKeeps
         DEF Serve, Panic
    <2>4. QED
      BY <2>2, <2>3
  <1>2. CASE \E g, h \in Handlers : StoreRace(g, h)
    <2>1. collisions' = collisions + 1 /\ root' = root
      BY <1>2 DEF StoreRace
    <2>2. QED
      BY <2>1
  <1>3. CASE Restart
    BY <1>3, RestartKeeps DEF KeyInv, TypeOK
  <1>4. CASE UNCHANGED vars
    BY <1>4 DEF KeyInv, TypeOK, CacheInv, HandlerInv, IssuedInv, KeyOf, vars
  <1>5. QED
    BY <1>1, <1>2, <1>3, <1>4 DEF Next

(* The keys that GetKey hands out in one run of the server are below one   *)
(* root, and those of the paths that share no entry of the map allow to    *)
(* derive the keys of the subtree of their node and no others, until two   *)
(* inserts collide: for any affiliation paths, whether or not others of    *)
(* them share entries, any number of requests in any order of their steps, *)
(* missed entries, failures of the derivation and restarts.                *)
THEOREM KeysFollowTree == Spec => []SubtreeKeys
  <1>1. CollisionInv => SubtreeKeys
    <2> SUFFICES ASSUME CollisionInv, collisions = 0, NEW i \in issued,
                        NEW j \in issued
                 PROVE  /\ i.key.root = j.key.root
                        /\ Distinct(i.path) /\ Distinct(j.path) =>
                              KeysRelated(i, j)
      BY DEF SubtreeKeys
    <2>1. KeyOf(i.key, i.path) /\ KeyOf(j.key, j.path)
      BY DEF CollisionInv, KeyInv, IssuedInv
    <2>2. QED
      BY <2>1 DEF KeyOf, KeysRelated
  <1>2. Init => CollisionInv
    BY KeyInvInit DEF CollisionInv, Init
  <1>3. Spec => []CollisionInv
    BY <1>2, KeyInvStep, PTL DEF Spec
  <1>4. QED
    BY <1>1, <1>3, PTL
=============================================================================

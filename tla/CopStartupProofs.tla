-------------------------- MODULE CopStartupProofs --------------------------
(***************************************************************************)
(* Theorems about CopStartup, for every set of servers, every tree of      *)
(* groups, every set of users, and any number of crashes and failures.     *)
(***************************************************************************)
EXTENDS CopStartup, FiniteSetTheorems, TLAPS

(* Zenon is tried first: most leaves are first-order, and to encode one    *)
(* for SMT takes long when its context is.                                 *)
USE ZenonT(3), SMTT(20), SMTT(30), ZenonT(20)

(* A statement about one group or one user has one. *)
CurrentOK ==
    \A s \in Servers :
        /\ pc[s] = "insertGroup" => cur[s] \in Groups
        /\ pc[s] \in {"checkUser", "insertUser", "setMaxEnrollments"} =>
              cur[s] \in BootUsers

TypeInv == TypeOK /\ CurrentOK

-----------------------------------------------------------------------------
(* The statement that follows is one of the bootstrap or the last one.     *)
LEMMA Phases ==
    /\ NextPhase("tables") = "populateGroups"
    /\ NextPhase("groups") = "populateUsers"
    /\ NextPhase("users") = "serving"
    /\ \A statement \in CreateStatements :
          /\ AfterTable(statement) \in CreateStatements \cup {"populateGroups"}
          /\ TableOf(statement) \in Tables
  BY DEF NextPhase, AfterTable, TableOf, CreateStatements, Tables

(* No server runs and the database is not there. *)
LEMMA TypeInvInit == Init => TypeInv
  <1> SUFFICES ASSUME Init
               PROVE  TypeInv
    OBVIOUS
  <1>1. users \in [BootUsers -> [fresh : Nat, limited : Nat]]
    BY DEF Init
  <1>2. pc \in [Servers -> {"down", "probe", "createDatabase", "serving"}
                             \cup CreateStatements \cup FillStatements]
    BY DEF Init
  <1>3. exists \in BOOLEAN /\ tables \subseteq Tables /\ groups \in [Groups -> Nat]
        /\ crashes \in Nat
    BY DEF Init
  <1>4. /\ found \in [Servers -> BOOLEAN]
        /\ done \in [Servers -> SUBSET Items]
        /\ cur \in [Servers -> Items \cup {None}]
    BY DEF Init
  <1>5. CurrentOK
    BY DEF Init, CurrentOK
  <1>6. QED
    BY <1>1, <1>2, <1>3, <1>4, <1>5 DEF TypeInv, TypeOK

(* The rows of a user after an INSERT and after an UPDATE. *)
LEMMA RowsTyped ==
    ASSUME NEW rows \in [fresh : Nat, limited : Nat]
    PROVE  /\ NewRow(rows) \in [fresh : Nat, limited : Nat]
           /\ NewRow(rows).fresh = rows.fresh + 1
           /\ NewRow(rows).limited = rows.limited
           /\ LimitRows(rows) \in [fresh : Nat, limited : Nat]
           /\ LimitRows(rows).fresh = 0
           /\ LimitRows(rows).limited = rows.fresh + rows.limited
  BY DEF NewRow, LimitRows

(* The control operators keep the types of a server's variables. *)
LEMMA ControlTyped ==
    ASSUME TypeInv, NEW s \in Servers,
           \/ Exit(s)
           \/ \E st \in {"probe", "serving", "createDatabase",
                         "populateGroups", "populateUsers"}
                          \cup CreateStatements : Goto(s, st)
           \/ cur[s] \in BootUsers /\ \E st \in FillStatements \ {"insertGroup"} :
                 Goto(s, st)
           \/ \E item \in Items, st \in {"populateGroups", "populateUsers"} :
                 ItemDone(s, item, st)
           \/ \E g \in Groups : ItemBegun(s, g, "insertGroup")
           \/ \E u \in BootUsers : ItemBegun(s, u, "checkUser")
    PROVE  /\ pc' \in [Servers -> {"down", "probe", "createDatabase", "serving"}
                             \cup CreateStatements \cup FillStatements]
           /\ found' \in [Servers -> BOOLEAN]
           /\ done' \in [Servers -> SUBSET Items]
           /\ cur' \in [Servers -> Items \cup {None}]
           /\ CurrentOK'
  <1> USE DEF TypeInv, TypeOK, CurrentOK
  <1>1. CASE Exit(s)
    BY <1>1 DEF Exit
  <1>2. ASSUME NEW st \in {"probe", "serving", "createDatabase",
                           "populateGroups", "populateUsers"}
                            \cup CreateStatements, Goto(s, st)
        PROVE  /\ pc' \in [Servers -> {"down", "probe", "createDatabase", "serving"}
                             \cup CreateStatements \cup FillStatements]
               /\ UNCHANGED <<found, done, cur>>
               /\ CurrentOK'
    BY <1>2 DEF Goto, CreateStatements, FillStatements
  <1>3. ASSUME cur[s] \in BootUsers, NEW st \in FillStatements \ {"insertGroup"},
               Goto(s, st)
        PROVE  /\ pc' \in [Servers -> {"down", "probe", "createDatabase", "serving"}
                             \cup CreateStatements \cup FillStatements]
               /\ UNCHANGED <<found, done, cur>>
               /\ CurrentOK'
    BY <1>3 DEF Goto, FillStatements
  <1>4. ASSUME NEW item \in Items, NEW st \in {"populateGroups", "populateUsers"},
               ItemDone(s, item, st)
        PROVE  /\ pc' \in [Servers -> {"down", "probe", "createDatabase", "serving"}
                             \cup CreateStatements \cup FillStatements]
               /\ done' \in [Servers -> SUBSET Items]
               /\ cur' \in [Servers -> Items \cup {None}]
               /\ UNCHANGED found
               /\ CurrentOK'
    BY <1>4 DEF ItemDone, FillStatements
  <1>5. ASSUME NEW g \in Groups, ItemBegun(s, g, "insertGroup")
        PROVE  /\ pc' \in [Servers -> {"down", "probe", "createDatabase", "serving"}
                             \cup CreateStatements \cup FillStatements]
               /\ cur' \in [Servers -> Items \cup {None}]
               /\ UNCHANGED <<found, done>>
               /\ CurrentOK'
    BY <1>5 DEF ItemBegun, FillStatements, Items
  <1>6. ASSUME NEW u \in BootUsers, ItemBegun(s, u, "checkUser")
        PROVE  /\ pc' \in [Servers -> {"down", "probe", "createDatabase", "serving"}
                             \cup CreateStatements \cup FillStatements]
               /\ cur' \in [Servers -> Items \cup {None}]
               /\ UNCHANGED <<found, done>>
               /\ CurrentOK'
    BY <1>6 DEF ItemBegun, FillStatements, Items
  <1>7. QED
    BY <1>1, <1>2, <1>3, <1>4, <1>5, <1>6

(* Finding and creating the database. *)
LEMMA CreateTyped ==
    ASSUME TypeInv, NEW s \in Servers,
           Probe(s) \/ CreateDatabase(s) \/ CreateTable(s)
    PROVE  TypeInv'
  <1>1. CASE Probe(s)
    <2> USE <1>1 DEF Probe, AfterProbe, ProbeError
    <2>1. UNCHANGED <<exists, tables, groups, users, crashes>>
      BY DEF database
    <2>2. CASE Exit(s)
      BY <2>1, <2>2, ControlTyped DEF TypeInv, TypeOK
    <2>3. CASE ~Exit(s)
      <3>1. /\ UNCHANGED <<done, cur>>
            /\ \E st \in {"createDatabase", "populateGroups", "serving"} :
                  pc' = [pc EXCEPT ![s] = st]
            /\ found' \in [Servers -> BOOLEAN]
        BY <2>3, Phases DEF TypeInv, TypeOK
      <3>2. pc' \in [Servers -> {"down", "probe", "createDatabase", "serving"}
                               \cup CreateStatements \cup FillStatements]
        BY <3>1 DEF TypeInv, TypeOK, FillStatements
      <3>3. CurrentOK'
        BY <3>1 DEF TypeInv, TypeOK, CurrentOK
      <3>4. QED
        BY <2>1, <3>1, <3>2, <3>3 DEF TypeInv, TypeOK
    <2>4. QED
      BY <2>2, <2>3
  <1>2. CASE CreateDatabase(s)
    <2>1. exists' \in BOOLEAN /\ UNCHANGED <<tables, groups, users, crashes>>
      BY <1>2 DEF CreateDatabase, Goto, database, TypeInv, TypeOK
    <2>2. Exit(s) \/ Goto(s, "createUsers")
      BY <1>2 DEF CreateDatabase
    <2>3. "createUsers" \in CreateStatements
      BY DEF CreateStatements
    <2>4. QED
      BY <2>1, <2>2, <2>3, ControlTyped DEF TypeInv, TypeOK
  <1>3. CASE CreateTable(s)
    <2>1. /\ tables' \subseteq Tables
          /\ UNCHANGED <<exists, groups, users, crashes>>
      BY <1>3, Phases DEF CreateTable, Goto, database, TypeInv, TypeOK
    <2>2. Exit(s) \/ Goto(s, AfterTable(pc[s])) \/ Goto(s, "populateGroups")
      BY <1>3, Phases DEF CreateTable
    <2>3. AfterTable(pc[s]) \in CreateStatements \cup {"populateGroups"}
      BY <1>3, Phases DEF CreateTable
    <2>4. QED
      BY <2>1, <2>2, <2>3, ControlTyped DEF TypeInv, TypeOK
  <1>4. QED
    BY <1>1, <1>2, <1>3

(* What PopulateGroups and PopulateUsers do to the server's variables. *)
LEMMA PopulateCases ==
    ASSUME TypeInv, NEW s \in Servers
    PROVE  /\ PopulateGroups(s) =>
                 \/ \E g \in Groups \ done[s] : ItemDone(s, g, "populateGroups")
                 \/ \E g \in Groups \ done[s] : ItemBegun(s, g, "insertGroup")
                 \/ Goto(s, "populateUsers")
           /\ PopulateUsers(s) =>
                 \/ \E u \in BootUsers \ done[s] : ItemDone(s, u, "populateUsers")
                 \/ \E u \in BootUsers \ done[s] :
                       ValidID(u) /\ ItemBegun(s, u, "checkUser")
                 \/ Goto(s, "serving")
  <1>1. \A g \in NextGroups(done[s]) : g \in Groups \ done[s]
    BY DEF NextGroups
  <1>2. PopulateGroups(s) =>
                 \/ \E g \in Groups \ done[s] : ItemDone(s, g, "populateGroups")
                 \/ \E g \in Groups \ done[s] : ItemBegun(s, g, "insertGroup")
                 \/ Goto(s, "populateUsers")
    BY <1>1, Phases DEF PopulateGroups
  <1>3. PopulateUsers(s) =>
                 \/ \E u \in BootUsers \ done[s] : ItemDone(s, u, "populateUsers")
                 \/ \E u \in BootUsers \ done[s] :
                       ValidID(u) /\ ItemBegun(s, u, "checkUser")
                 \/ Goto(s, "serving")
    BY Phases DEF PopulateUsers
  <1>4. QED
    BY <1>2, <1>3

(* Filling the tables. *)
LEMMA FillTyped ==
    ASSUME TypeInv, NEW s \in Servers,
           \/ PopulateGroups(s) \/ InsertGroup(s) \/ PopulateUsers(s)
           \/ CheckUser(s) \/ InsertUser(s) \/ SetMaxEnrollments(s)
    PROVE  TypeInv'
  <1>1. CASE PopulateGroups(s)
    <2>1. UNCHANGED <<exists, tables, groups, users, crashes>>
      BY <1>1 DEF PopulateGroups, Goto, ItemDone, ItemBegun, database
    <2>2. QED
      BY <1>1, <2>1, PopulateCases, ControlTyped DEF TypeInv, TypeOK, Items
  <1>2. CASE InsertGroup(s)
    <2>1. cur[s] \in Groups
      BY <1>2 DEF InsertGroup, TypeInv, CurrentOK
    <2>2. groups' \in [Groups -> Nat] /\ UNCHANGED <<exists, tables, users, crashes>>
      BY <1>2, <2>1 DEF InsertGroup, ItemDone, TypeInv, TypeOK
    <2>3. ItemDone(s, cur[s], "populateGroups")
      BY <1>2 DEF InsertGroup
    <2>4. QED
      BY <2>1, <2>2, <2>3, ControlTyped DEF TypeInv, TypeOK, Items
  <1>3. CASE PopulateUsers(s)
    <2>1. UNCHANGED <<exists, tables, groups, users, crashes>>
      BY <1>3 DEF PopulateUsers, Goto, ItemDone, ItemBegun, database
    <2>2. QED
      BY <1>3, <2>1, PopulateCases, ControlTyped DEF TypeInv, TypeOK, Items
  <1>4. CASE CheckUser(s)
    <2>1. cur[s] \in BootUsers
      BY <1>4 DEF CheckUser, TypeInv, CurrentOK
    <2>2. UNCHANGED <<exists, tables, groups, users, crashes>>
      BY <1>4 DEF CheckUser, Goto, ItemDone, database
    <2>3. ItemDone(s, cur[s], "populateUsers") \/ Goto(s, "insertUser")
      BY <1>4 DEF CheckUser
    <2>4. "insertUser" \in FillStatements \ {"insertGroup"}
      BY DEF FillStatements
    <2>5. QED
      BY <2>1, <2>2, <2>3, <2>4, ControlTyped DEF TypeInv, TypeOK, Items
  <1>5. CASE InsertUser(s)
    <2>1. cur[s] \in BootUsers
      BY <1>5 DEF InsertUser, TypeInv, CurrentOK
    <2>2. /\ users' \in [BootUsers -> [fresh : Nat, limited : Nat]]
          /\ UNCHANGED <<exists, tables, groups, crashes>>
      <3>1. users[cur[s]] \in [fresh : Nat, limited : Nat]
        BY <2>1 DEF TypeInv, TypeOK
      <3>2. NewRow(users[cur[s]]) \in [fresh : Nat, limited : Nat]
        BY <3>1, RowsTyped
      <3>3. \/ users' = [users EXCEPT ![cur[s]] = NewRow(users[cur[s]])]
            \/ users' = users
        BY <1>5 DEF InsertUser
      <3>4. users' \in [BootUsers -> [fresh : Nat, limited : Nat]]
        BY <2>1, <3>2, <3>3 DEF TypeInv, TypeOK
      <3>5. QED
        BY <1>5, <3>4 DEF InsertUser, Goto, ItemDone
    <2>3. ItemDone(s, cur[s], "populateUsers") \/ Goto(s, "setMaxEnrollments")
      BY <1>5 DEF InsertUser
    <2>4. "setMaxEnrollments" \in FillStatements \ {"insertGroup"}
      BY DEF FillStatements
    <2>5. QED
      BY <2>1, <2>2, <2>3, <2>4, ControlTyped DEF TypeInv, TypeOK, Items
  <1>6. CASE SetMaxEnrollments(s)
    <2>1. cur[s] \in BootUsers
      BY <1>6 DEF SetMaxEnrollments, TypeInv, CurrentOK
    <2>2. /\ users' \in [BootUsers -> [fresh : Nat, limited : Nat]]
          /\ UNCHANGED <<exists, tables, groups, crashes>>
      <3>1. users[cur[s]] \in [fresh : Nat, limited : Nat]
        BY <2>1 DEF TypeInv, TypeOK
      <3>2. LimitRows(users[cur[s]]) \in [fresh : Nat, limited : Nat]
        BY <3>1, RowsTyped
      <3>3. \/ users' = [users EXCEPT ![cur[s]] = LimitRows(users[cur[s]])]
            \/ users' = users
        BY <1>6 DEF SetMaxEnrollments
      <3>4. users' \in [BootUsers -> [fresh : Nat, limited : Nat]]
        BY <2>1, <3>2, <3>3 DEF TypeInv, TypeOK
      <3>5. QED
        BY <1>6, <3>4 DEF SetMaxEnrollments, ItemDone
    <2>3. ItemDone(s, cur[s], "populateUsers")
      BY <1>6 DEF SetMaxEnrollments
    <2>4. QED
      BY <2>1, <2>2, <2>3, ControlTyped DEF TypeInv, TypeOK, Items
  <1>7. QED
    BY <1>1, <1>2, <1>3, <1>4, <1>5, <1>6

(* Every step. *)
LEMMA TypeInvStep == TypeInv /\ [Next]_vars => TypeInv'
  <1> SUFFICES ASSUME TypeInv, [Next]_vars
               PROVE  TypeInv'
    OBVIOUS
  <1>1. ASSUME NEW s \in Servers, Start(s)
        PROVE  TypeInv'
    BY <1>1, ControlTyped DEF Start, Goto, database, TypeInv, TypeOK
  <1>2. ASSUME NEW s \in Servers, Crash(s)
        PROVE  TypeInv'
    BY <1>2, ControlTyped DEF Crash, database, TypeInv, TypeOK
  <1>3. ASSUME NEW s \in Servers, Step(s)
        PROVE  TypeInv'
    BY <1>3, CreateTyped, FillTyped DEF Step
  <1>4. CASE UNCHANGED vars
    BY <1>4 DEF vars, TypeInv, TypeOK, CurrentOK
  <1>5. QED
    BY <1>1, <1>2, <1>3, <1>4 DEF Next, AllServing

(* The types hold always, and a server that is at a statement of           *)
(* registerGroup or registerUserID has a group or a user of the            *)
(* configuration in hand.                                                  *)
LEMMA TypeInvariant == Spec => []TypeInv
  BY TypeInvInit, TypeInvStep, PTL DEF Spec

(* Every state a start of the servers can reach is well typed.             *)
THEOREM TypeCorrect == Spec => []TypeOK
  <1>1. TypeInv => TypeOK
    BY DEF TypeInv
  <1>2. QED
    BY TypeInvariant, <1>1, PTL

-----------------------------------------------------------------------------
(* Users and their groups.  The inductive invariant adds the user that is  *)
(* being registered: validateID has found its group, and no step of any    *)
(* server takes a group away.                                              *)
RowsOf(u) == users[u].fresh + users[u].limited

HasGroup(u) == GroupOf[u] # None => groups[GroupOf[u]] > 0

GroupedInv ==
    /\ UsersGrouped
    /\ \A s \in Servers :
          pc[s] \in {"checkUser", "insertUser", "setMaxEnrollments"} =>
              HasGroup(cur[s])

(* InsertGroup is the only step that writes the groups table, and it adds  *)
(* a row.                                                                  *)
LEMMA GroupsGrow ==
    ASSUME TypeInv, NEW s \in Servers, Start(s) \/ Step(s) \/ Crash(s)
    PROVE  /\ ~InsertGroup(s) => UNCHANGED groups
           /\ \A u \in BootUsers : HasGroup(u) => HasGroup(u)'
  <1>1. ~InsertGroup(s) => UNCHANGED groups
    BY DEF Start, Step, Crash, Probe, CreateDatabase, CreateTable,
           PopulateGroups, PopulateUsers, CheckUser, InsertUser,
           SetMaxEnrollments, database
  <1>2. CASE InsertGroup(s)
    <2>1. cur[s] \in Groups
      BY <1>2 DEF InsertGroup, TypeInv, CurrentOK
    <2>2. \A g \in Groups : groups[g] > 0 => groups'[g] > 0
      BY <1>2, <2>1 DEF InsertGroup, TypeInv, TypeOK
    <2>3. QED
      BY <1>2, <2>2, StartupAssumption DEF HasGroup
  <1>3. QED
    BY <1>1, <1>2 DEF HasGroup

(* Only InsertUser and SetMaxEnrollments write the users table, the row of *)
(* the user at hand.                                                       *)
LEMMA UsersWritten ==
    ASSUME TypeInv, NEW s \in Servers, Start(s) \/ Step(s) \/ Crash(s)
    PROVE  \/ UNCHANGED users
           \/ \E c \in BootUsers :
                 /\ c = cur[s]
                 /\ \A u \in BootUsers \ {c} : users'[u] = users[u]
                 /\ \/ /\ InsertUser(s)
                       /\ pc'[s] = "setMaxEnrollments"
                       /\ RowsOf(c)' = RowsOf(c) + 1
                    \/ /\ SetMaxEnrollments(s)
                       /\ RowsOf(c)' = RowsOf(c)
  <1>1. CASE InsertUser(s) \/ SetMaxEnrollments(s)
    <2>1. cur[s] \in BootUsers
      BY <1>1 DEF InsertUser, SetMaxEnrollments, TypeInv, CurrentOK
    <2>2. PICK c \in BootUsers : c = cur[s]
      BY <2>1
    <2>3. users[c] \in [fresh : Nat, limited : Nat]
      BY DEF TypeInv, TypeOK
    <2>4. /\ NewRow(users[c]).fresh + NewRow(users[c]).limited
                 = users[c].fresh + users[c].limited + 1
          /\ LimitRows(users[c]).fresh + LimitRows(users[c]).limited
                 = users[c].fresh + users[c].limited
      BY <2>3, RowsTyped
    <2>5. CASE InsertUser(s)
      BY <2>2, <2>4, <2>5 DEF InsertUser, Goto, TypeInv, TypeOK, RowsOf
    <2>6. CASE SetMaxEnrollments(s)
      BY <2>2, <2>4, <2>6 DEF SetMaxEnrollments, TypeInv, TypeOK, RowsOf
    <2>7. QED
      BY <1>1, <2>5, <2>6
  <1>2. CASE ~(InsertUser(s) \/ SetMaxEnrollments(s))
    BY <1>2 DEF Start, Step, Crash, Probe, CreateDatabase, CreateTable,
           PopulateGroups, InsertGroup, PopulateUsers, CheckUser, database
  <1>3. QED
    BY <1>1, <1>2

(* Which server goes on to the statements of registerUserID, and with      *)
(* which user.                                                             *)
LEMMA Registering ==
    ASSUME TypeInv, NEW s \in Servers, Start(s) \/ Step(s) \/ Crash(s)
    PROVE  /\ \A t \in Servers \ {s} :
                 pc'[t] = pc[t] /\ cur'[t] = cur[t] /\ done'[t] = done[t]
           /\ pc'[s] \in {"checkUser", "insertUser", "setMaxEnrollments"} =>
                 \/ /\ pc[s] \in {"checkUser", "insertUser"}
                    /\ cur'[s] = cur[s]
                 \/ \E u \in BootUsers : ValidID(u) /\ cur'[s] = u
  <1> USE DEF TypeInv, TypeOK
  <1>1. ASSUME Exit(s) \/ (\E st : Goto(s, st))
                 \/ (\E i, st : ItemDone(s, i, st))
                 \/ (\E i, st : ItemBegun(s, i, st))
        PROVE  \A t \in Servers \ {s} :
                 pc'[t] = pc[t] /\ cur'[t] = cur[t] /\ done'[t] = done[t]
    BY <1>1 DEF Exit, Goto, ItemDone, ItemBegun
  <1>2. CASE Start(s)
    BY <1>1, <1>2 DEF Start, Goto
  <1>3. CASE Crash(s)
    BY <1>1, <1>3 DEF Crash, Exit
  <1>4. CASE Probe(s)
    BY <1>4, Phases DEF Probe, AfterProbe, ProbeError, Exit
  <1>5. CASE CreateDatabase(s)
    BY <1>1, <1>5 DEF CreateDatabase, Goto, Exit
  <1>6. CASE CreateTable(s)
    BY <1>1, <1>6, Phases DEF CreateTable, Goto, Exit, CreateStatements
  <1>7. CASE PopulateGroups(s)
    BY <1>1, <1>7, PopulateCases DEF Goto, ItemDone, ItemBegun
  <1>8. CASE InsertGroup(s)
    BY <1>1, <1>8 DEF InsertGroup, ItemDone
  <1>9. CASE PopulateUsers(s)
    BY <1>1, <1>9, PopulateCases DEF Goto, ItemDone, ItemBegun
  <1>10. CASE CheckUser(s)
    BY <1>1, <1>10 DEF CheckUser, Goto, ItemDone
  <1>11. CASE InsertUser(s)
    BY <1>1, <1>11 DEF InsertUser, Goto, ItemDone
  <1>12. CASE SetMaxEnrollments(s)
    BY <1>1, <1>12 DEF SetMaxEnrollments, ItemDone
  <1>13. QED
    BY <1>2, <1>3, <1>4, <1>5, <1>6, <1>7, <1>8, <1>9, <1>10, <1>11, <1>12
    DEF Step

(* A step of one server. *)
LEMMA GroupedStep ==
    ASSUME TypeInv, TypeInv', GroupedInv, NEW s \in Servers,
           Start(s) \/ Step(s) \/ Crash(s)
    PROVE  GroupedInv'
  <1>1. \A u \in BootUsers : ValidID(u) => HasGroup(u)
    BY DEF ValidID, GroupThere, HasGroup
  <1>2. ASSUME NEW t \in Servers,
               pc'[t] \in {"checkUser", "insertUser", "setMaxEnrollments"}
        PROVE  HasGroup(cur[t])'
    <2>1. PICK c \in BootUsers : c = cur'[t]
      BY <1>2 DEF TypeInv, CurrentOK
    <2>2. HasGroup(c)
      BY <1>1, <1>2, <2>1, Registering DEF GroupedInv
    <2>3. HasGroup(c)'
      BY <2>2, GroupsGrow
    <2>4. QED
      BY <2>1, <2>3 DEF HasGroup
  <1>3. ASSUME NEW u \in BootUsers, RowsOf(u)' > 0
        PROVE  HasGroup(u)'
    <2>1. HasGroup(u) => HasGroup(u)'
      BY GroupsGrow
    <2>2. CASE RowsOf(u) > 0
      BY <2>1, <2>2 DEF GroupedInv, UsersGrouped, HasGroup, RowsOf
    <2>3. CASE ~(RowsOf(u) > 0)
      <3>1. u = cur[s] /\ pc[s] \in {"insertUser", "setMaxEnrollments"}
        BY <1>3, <2>3, UsersWritten
        DEF RowsOf, InsertUser, SetMaxEnrollments
      <3>2. QED
        BY <2>1, <3>1 DEF GroupedInv
    <2>4. QED
      BY <2>2, <2>3
  <1>4. QED
    BY <1>2, <1>3 DEF GroupedInv, UsersGrouped, HasGroup, RowsOf

(* Every step. *)
LEMMA GroupedInvStep ==
    TypeInv /\ TypeInv' /\ GroupedInv /\ [Next]_vars => GroupedInv'
  <1> SUFFICES ASSUME TypeInv, TypeInv', GroupedInv, [Next]_vars
               PROVE  GroupedInv'
    OBVIOUS
  <1>1. CASE UNCHANGED vars
    BY <1>1 DEF vars, GroupedInv, UsersGrouped, HasGroup
  <1>2. QED
    BY <1>1, GroupedStep DEF Next, AllServing

(* A user of the configuration is in the users table only when the group   *)
(* that its type demands is in the groups table, for any number of servers *)
(* starting at once on any of the three databases, with crashes and failed *)
(* statements anywhere.                                                    *)
THEOREM UsersHaveGroups == Spec => []UsersGrouped
  <1>1. Init => GroupedInv
    BY DEF Init, GroupedInv, UsersGrouped
  <1>2. GroupedInv => UsersGrouped
    BY DEF GroupedInv
  <1>3. QED
    BY <1>1, <1>2, TypeInvariant, GroupedInvStep, PTL DEF Spec

-----------------------------------------------------------------------------
(* One row per name.  On Postgres and MySQL only the server whose CREATE   *)
(* DATABASE succeeded creates tables and fills them, so at most one ever   *)
(* does; what it has not dealt with yet has no row.                        *)
Creating(s) == pc[s] \in CreateStatements \cup FillStatements

Untouched(s) ==
    /\ \A g \in Groups \ done[s] : groups[g] = 0
    /\ \A u \in BootUsers \ done[s] :
          RowsOf(u) = 0 \/ (pc[s] = "setMaxEnrollments" /\ u = cur[s])
    /\ pc[s] \in {"insertGroup", "checkUser", "insertUser", "setMaxEnrollments"}
          => cur[s] \notin done[s]

EmptyDatabase ==
    /\ \A g \in Groups : groups[g] = 0
    /\ \A u \in BootUsers : RowsOf(u) = 0

UniqueInv ==
    /\ RowsUnique
    /\ \A s, t \in Servers : Creating(s) /\ Creating(t) => s = t
    /\ \A s \in Servers : Creating(s) => exists /\ Untouched(s)
    /\ ~exists => EmptyDatabase

(* Before the first start there is no database and no row. *)
LEMMA UniqueInvInit == Init => UniqueInv
  <1> SUFFICES ASSUME Init
               PROVE  UniqueInv
    OBVIOUS
  <1>1. EmptyDatabase
    BY DEF Init, EmptyDatabase, RowsOf
  <1>2. \A s \in Servers : ~Creating(s)
    BY DEF Init, Creating, CreateStatements, FillStatements
  <1>3. RowsUnique
    BY DEF Init, RowsUnique
  <1>4. QED
    BY <1>1, <1>2, <1>3 DEF UniqueInv

(* A server begins to create or fill only by creating the database.        *)
LEMMA CreatorEnters ==
    ASSUME Driver # "sqlite3", TypeInv, NEW s \in Servers,
           Start(s) \/ Step(s) \/ Crash(s), Creating(s)'
    PROVE  \/ Creating(s) /\ exists' = exists
           \/ /\ ~exists /\ exists' /\ pc'[s] = "createUsers"
              /\ UNCHANGED <<groups, users>>
  <1> USE DEF TypeInv, TypeOK, Creating, CreateStatements, FillStatements
  <1>1. CASE Start(s)
    BY <1>1 DEF Start, Goto
  <1>2. CASE Crash(s)
    BY <1>2 DEF Crash, Exit
  <1>3. CASE Probe(s)
    BY <1>3 DEF Probe, AfterProbe, ProbeError, Exit, BootstrapNeeded
  <1>4. CASE CreateDatabase(s)
    BY <1>4 DEF CreateDatabase, Goto, Exit
  <1>5. CASE CreateTable(s)
    BY <1>5 DEF CreateTable, database
  <1>6. CASE PopulateGroups(s) \/ PopulateUsers(s) \/ CheckUser(s)
    BY <1>6 DEF PopulateGroups, PopulateUsers, CheckUser, database
  <1>7. CASE InsertGroup(s) \/ InsertUser(s) \/ SetMaxEnrollments(s)
    BY <1>7 DEF InsertGroup, InsertUser, SetMaxEnrollments
  <1>8. QED
    BY <1>1, <1>2, <1>3, <1>4, <1>5, <1>6, <1>7 DEF Step

(* Nothing but CREATE DATABASE changes "exists", and only towards true.    *)
LEMMA ExistsStays ==
    ASSUME TypeInv, NEW s \in Servers, Start(s) \/ Step(s) \/ Crash(s)
    PROVE  /\ exists => exists'
           /\ ~exists' => UNCHANGED <<groups, users>> \/ Creating(s)
  <1> USE DEF Creating, CreateStatements, FillStatements
  <1>1. CASE CreateDatabase(s)
    BY <1>1 DEF CreateDatabase, database
  <1>2. CASE InsertGroup(s) \/ InsertUser(s) \/ SetMaxEnrollments(s)
    BY <1>2 DEF InsertGroup, InsertUser, SetMaxEnrollments
  <1>3. CASE Start(s)
    BY <1>3 DEF Start, database
  <1>4. CASE Crash(s)
    BY <1>4 DEF Crash, database
  <1>5. CASE Probe(s)
    BY <1>5 DEF Probe, database
  <1>6. CASE CreateTable(s)
    BY <1>6 DEF CreateTable, database
  <1>7. CASE PopulateGroups(s)
    BY <1>7 DEF PopulateGroups, database
  <1>8. CASE PopulateUsers(s)
    BY <1>8 DEF PopulateUsers, database
  <1>9. CASE CheckUser(s)
    BY <1>9 DEF CheckUser, database
  <1>10. QED
    BY <1>1, <1>2, <1>3, <1>4, <1>5, <1>6, <1>7, <1>8, <1>9 DEF Step

(* A server that is not creating or filling writes no row.                 *)
LEMMA OnlyCreatorWrites ==
    ASSUME TypeInv, NEW s \in Servers, Start(s) \/ Step(s) \/ Crash(s),
           ~Creating(s)
    PROVE  UNCHANGED <<groups, users>>
  <1>1. ~InsertGroup(s) /\ ~InsertUser(s) /\ ~SetMaxEnrollments(s)
    BY DEF InsertGroup, InsertUser, SetMaxEnrollments, Creating,
           FillStatements
  <1>2. QED
    BY <1>1, GroupsGrow, UsersWritten

(* A server that goes on without writing a row leaves untouched what is    *)
(* not done yet.                                                           *)
LEMMA QuietUntouched ==
    ASSUME TypeInv, NEW s \in Servers, Untouched(s),
           UNCHANGED <<groups, users>>, pc[s] # "setMaxEnrollments",
           \/ \E st \in CreateStatements \cup {"populateGroups", "populateUsers",
                                                "serving"} : Goto(s, st)
           \/ pc[s] \in {"checkUser", "insertUser"}
                 /\ \E st \in {"insertUser", "populateUsers"} : Goto(s, st)
           \/ \E i \in Items, st \in {"populateGroups", "populateUsers"} :
                 ItemDone(s, i, st)
           \/ \E i \in Items \ done[s], st \in {"insertGroup", "checkUser"} :
                 ItemBegun(s, i, st)
    PROVE  Untouched(s)'
  <1> USE DEF TypeInv, TypeOK, Untouched, RowsOf
  <1>1. ASSUME NEW st \in CreateStatements \cup {"populateGroups",
                                  "populateUsers", "serving"}, Goto(s, st)
        PROVE  Untouched(s)'
    BY <1>1 DEF Goto, CreateStatements
  <1>2. ASSUME pc[s] \in {"checkUser", "insertUser"},
               NEW st \in {"insertUser", "populateUsers"}, Goto(s, st)
        PROVE  Untouched(s)'
    BY <1>2 DEF Goto
  <1>3. ASSUME NEW i \in Items, NEW st \in {"populateGroups", "populateUsers"},
               ItemDone(s, i, st)
        PROVE  Untouched(s)'
    BY <1>3 DEF ItemDone
  <1>4. ASSUME NEW i \in Items \ done[s], NEW st \in {"insertGroup", "checkUser"},
               ItemBegun(s, i, st)
        PROVE  Untouched(s)'
    BY <1>4 DEF ItemBegun
  <1>5. QED
    BY <1>1, <1>2, <1>3, <1>4

(* The steps of the creator that write no row. *)
LEMMA ReadingUntouched ==
    ASSUME TypeInv, NEW s \in Servers, Untouched(s),
           \/ CreateTable(s) /\ pc'[s] # "down"
           \/ PopulateGroups(s) \/ PopulateUsers(s) \/ CheckUser(s)
    PROVE  UNCHANGED <<groups, users>> /\ Untouched(s)'
  <1>1. CASE CreateTable(s) /\ pc'[s] # "down"
    <2>1. UNCHANGED <<groups, users>> /\ pc[s] # "setMaxEnrollments"
      BY <1>1 DEF CreateTable, database, CreateStatements
    <2>2. Goto(s, AfterTable(pc[s])) \/ Goto(s, "populateGroups")
      BY <1>1, Phases DEF CreateTable, Exit, TypeInv, TypeOK
    <2>3. AfterTable(pc[s]) \in CreateStatements \cup {"populateGroups"}
      BY <1>1, Phases DEF CreateTable
    <2>4. QED
      BY <2>1, <2>2, <2>3, QuietUntouched
  <1>2. CASE PopulateGroups(s)
    <2>1. UNCHANGED <<groups, users>> /\ pc[s] # "setMaxEnrollments"
      BY <1>2 DEF PopulateGroups, database
    <2>2. QED
      BY <1>2, <2>1, PopulateCases, QuietUntouched DEF Items
  <1>3. CASE PopulateUsers(s)
    <2>1. UNCHANGED <<groups, users>> /\ pc[s] # "setMaxEnrollments"
      BY <1>3 DEF PopulateUsers, database
    <2>2. QED
      BY <1>3, <2>1, PopulateCases, QuietUntouched DEF Items
  <1>4. CASE CheckUser(s)
    <2>1. UNCHANGED <<groups, users>> /\ pc[s] = "checkUser"
      BY <1>4 DEF CheckUser, database
    <2>2. cur[s] \in Items
      BY <2>1 DEF TypeInv, CurrentOK, Items
    <2>3. QED
      BY <1>4, <2>1, <2>2, QuietUntouched DEF CheckUser
  <1>5. QED
    BY <1>1, <1>2, <1>3, <1>4

(* The INSERT of a group: it had no row before. *)
LEMMA InsertGroupUnique ==
    ASSUME TypeInv, NEW s \in Servers, Untouched(s), RowsUnique, InsertGroup(s)
    PROVE  RowsUnique' /\ Untouched(s)'
  <1>1. PICK c \in Groups : c = cur[s]
    BY DEF InsertGroup, TypeInv, CurrentOK
  <1>2. c \notin done[s] /\ groups[c] = 0
    BY <1>1 DEF InsertGroup, Untouched
  <1>3. /\ UNCHANGED users
        /\ groups' \in [Groups -> Nat]
        /\ groups'[c] <= 1
        /\ \A g \in Groups \ {c} : groups'[g] = groups[g]
    BY <1>1, <1>2 DEF InsertGroup, TypeInv, TypeOK
  <1>4. /\ done'[s] = done[s] \cup {c}
        /\ pc'[s] = "populateGroups"
        /\ pc[s] = "insertGroup"
    BY <1>1 DEF InsertGroup, ItemDone, TypeInv, TypeOK
  <1>5. RowsUnique'
    BY <1>3 DEF RowsUnique
  <1>6. Untouched(s)'
    BY <1>3, <1>4 DEF Untouched, RowsOf
  <1>7. QED
    BY <1>5, <1>6

(* The statements that write a user: it had no row before the INSERT.      *)
LEMMA InsertUserUnique ==
    ASSUME TypeInv, NEW s \in Servers, Untouched(s), RowsUnique,
           InsertUser(s) \/ SetMaxEnrollments(s)
    PROVE  RowsUnique' /\ Untouched(s)'
  <1>1. PICK c \in BootUsers : c = cur[s]
    BY DEF InsertUser, SetMaxEnrollments, TypeInv, CurrentOK
  <1>2. UNCHANGED groups /\ c \notin done[s]
    BY <1>1 DEF InsertUser, SetMaxEnrollments, Untouched
  <1>3. /\ RowsOf(c) \in Nat
        /\ RowsOf(c) <= 1
        /\ pc[s] = "insertUser" => RowsOf(c) = 0
    BY <1>1, <1>2 DEF Untouched, RowsUnique, RowsOf, TypeInv, TypeOK
  <1>4. CASE UNCHANGED users
    <2>1. ItemDone(s, c, "populateUsers") \/ Goto(s, "setMaxEnrollments")
      BY <1>1 DEF InsertUser, SetMaxEnrollments
    <2>2. /\ pc'[s] \in {"populateUsers", "setMaxEnrollments"}
          /\ done'[s] = done[s] \cup {c} \/ (done'[s] = done[s] /\ cur'[s] = c)
          /\ pc'[s] = "setMaxEnrollments" => cur'[s] = c /\ done'[s] = done[s]
          /\ pc'[s] = "populateUsers" => done'[s] = done[s] \cup {c}
      <3>1. CASE ItemDone(s, c, "populateUsers")
        <4>1. pc'[s] = "populateUsers" /\ done'[s] = done[s] \cup {c}
          BY <1>1, <3>1 DEF ItemDone, TypeInv, TypeOK
        <4>2. QED
          BY <4>1
      <3>2. CASE Goto(s, "setMaxEnrollments")
        <4>1. pc'[s] = "setMaxEnrollments" /\ done'[s] = done[s] /\ cur'[s] = c
          BY <1>1, <3>2 DEF Goto, TypeInv, TypeOK
        <4>2. QED
          BY <4>1
      <3>3. QED
        BY <2>1, <3>1, <3>2
    <2>3. QED
      BY <1>1, <1>2, <1>4, <2>2 DEF RowsUnique, Untouched, RowsOf
  <1>5. CASE ~UNCHANGED users
    <2>1. /\ \A u \in BootUsers \ {c} : users'[u] = users[u]
          /\ \/ pc[s] = "insertUser" /\ InsertUser(s) /\ RowsOf(c)' = RowsOf(c) + 1
                /\ pc'[s] = "setMaxEnrollments"
             \/ pc[s] = "setMaxEnrollments" /\ SetMaxEnrollments(s)
                /\ RowsOf(c)' = RowsOf(c)
      BY <1>1, <1>5, UsersWritten DEF Step, InsertUser, SetMaxEnrollments
    <2>2. RowsOf(c)' <= 1
      BY <1>3, <2>1
    <2>3. RowsUnique'
      BY <1>2, <2>1, <2>2 DEF RowsUnique, RowsOf
    <2>4. CASE pc[s] = "insertUser"
      <3>1. pc'[s] = "setMaxEnrollments" /\ cur'[s] = c /\ done'[s] = done[s]
        BY <1>1, <2>1, <2>4 DEF InsertUser, Goto, ItemDone, TypeInv, TypeOK
      <3>2. Untouched(s)'
        BY <1>2, <2>1, <2>4, <3>1 DEF Untouched, RowsOf
      <3>3. QED
        BY <2>3, <3>2
    <2>5. CASE pc[s] = "setMaxEnrollments"
      <3>1. pc'[s] = "populateUsers" /\ done'[s] = done[s] \cup {c}
        BY <1>1, <2>1, <2>5 DEF SetMaxEnrollments, ItemDone, TypeInv, TypeOK
      <3>2. Untouched(s)'
        BY <1>1, <1>2, <2>1, <2>5, <3>1 DEF Untouched, RowsOf
      <3>3. QED
        BY <2>3, <3>2
    <2>6. QED
      BY <2>1, <2>4, <2>5
  <1>6. QED
    BY <1>4, <1>5

(* A step of one server. *)
LEMMA UniqueStep ==
    ASSUME Driver # "sqlite3", TypeInv, UniqueInv, NEW s \in Servers,
           Start(s) \/ Step(s) \/ Crash(s)
    PROVE  UniqueInv'
  <1>1. \A t \in Servers \ {s} :
            /\ pc'[t] = pc[t] /\ cur'[t] = cur[t] /\ done'[t] = done[t]
            /\ Creating(t)' = Creating(t)
    BY Registering DEF Creating
  <1>2. CASE ~Creating(s)
    <2>1. UNCHANGED <<groups, users>>
      BY <1>2, OnlyCreatorWrites
    <2>2. RowsUnique' /\ EmptyDatabase' = EmptyDatabase
      BY <2>1 DEF UniqueInv, RowsUnique, EmptyDatabase, RowsOf
    <2>3. ASSUME NEW t \in Servers \ {s}, Creating(t)'
          PROVE  exists' /\ Untouched(t)'
      BY <1>1, <2>1, <2>3, ExistsStays DEF UniqueInv, Untouched, RowsOf
    <2>4. ASSUME Creating(s)'
          PROVE  /\ ~exists /\ exists'
                 /\ Untouched(s)'
                 /\ \A t \in Servers : Creating(t)' => t = s
      <3>1. ~exists /\ exists' /\ pc'[s] = "createUsers"
        BY <1>2, <2>4, CreatorEnters
      <3>2. EmptyDatabase'
        BY <2>2, <3>1 DEF UniqueInv
      <3>3. Untouched(s)'
        BY <3>1, <3>2 DEF Untouched, EmptyDatabase
      <3>4. QED
        BY <1>1, <3>1, <3>3 DEF UniqueInv
    <2>5. ~exists' => EmptyDatabase'
      BY <2>2, ExistsStays DEF UniqueInv
    <2>6. QED
      BY <1>1, <2>2, <2>3, <2>4, <2>5 DEF UniqueInv
  <1>3. CASE Creating(s)
    <2>1. exists /\ exists' /\ Untouched(s) /\ RowsUnique
      BY <1>3, ExistsStays DEF UniqueInv
    <2>2. \A t \in Servers \ {s} : ~Creating(t)'
      BY <1>1, <1>3 DEF UniqueInv
    <2>3. RowsUnique' /\ (Creating(s)' => Untouched(s)')
      <3>1. CASE InsertGroup(s)
        BY <2>1, <3>1, InsertGroupUnique
      <3>2. CASE InsertUser(s) \/ SetMaxEnrollments(s)
        BY <2>1, <3>2, InsertUserUnique
      <3>3. CASE PopulateGroups(s) \/ PopulateUsers(s) \/ CheckUser(s)
        BY <2>1, <3>3, ReadingUntouched DEF RowsUnique
      <3>4. CASE CreateTable(s)
        <4>1. UNCHANGED <<groups, users>>
          BY <3>4 DEF CreateTable, database
        <4>2. Creating(s)' => pc'[s] # "down"
          BY DEF Creating, CreateStatements, FillStatements
        <4>3. QED
          BY <2>1, <3>4, <4>1, <4>2, ReadingUntouched DEF RowsUnique
      <3>5. CASE Crash(s)
        BY <2>1, <3>5 DEF Crash, Exit, database, RowsUnique, Creating,
             CreateStatements, FillStatements, TypeInv, TypeOK
      <3>6. ~Start(s) /\ ~Probe(s) /\ ~CreateDatabase(s)
        BY <1>3 DEF Start, Probe, CreateDatabase, Creating,
             CreateStatements, FillStatements
      <3>7. QED
        BY <3>1, <3>2, <3>3, <3>4, <3>5, <3>6 DEF Step
    <2>4. QED
      BY <2>1, <2>2, <2>3 DEF UniqueInv
  <1>4. QED
    BY <1>2, <1>3

(* Every step. *)
LEMMA UniqueInvStep ==
    ASSUME Driver # "sqlite3"
    PROVE  TypeInv /\ UniqueInv /\ [Next]_vars => UniqueInv'
  <1> SUFFICES ASSUME TypeInv, UniqueInv, [Next]_vars
               PROVE  UniqueInv'
    OBVIOUS
  <1>1. CASE UNCHANGED vars
    BY <1>1 DEF vars, UniqueInv, RowsUnique, Creating, Untouched,
         EmptyDatabase, RowsOf
  <1>2. QED
    BY <1>1, UniqueStep DEF Next, AllServing

(* On Postgres and MySQL no group and no user of the configuration gets a  *)
(* second row, however many servers start at once, are killed and started  *)
(* again, and whichever statements fail.                                   *)
THEOREM RowsStayUnique ==
    ASSUME Driver # "sqlite3"
    PROVE  Spec => []RowsUnique
  <1>1. UniqueInv => RowsUnique
    BY DEF UniqueInv
  <1>2. TypeInv /\ UniqueInv /\ [Next]_vars => UniqueInv'
    BY UniqueInvStep
  <1>3. QED
    BY <1>1, <1>2, UniqueInvInit, TypeInvariant, PTL DEF Spec

-----------------------------------------------------------------------------
(***************************************************************************)
(* The group above a group, and what a completed start has filled.  A      *)
(* server that creates or fills, or is through with some of it, is the     *)
(* only one: on Postgres and MySQL because CREATE DATABASE succeeds once,  *)
(* on SQLite when there is one server.  So no table appears behind its     *)
(* back, and what it is through with is in the table if there is one.      *)
(***************************************************************************)
Filler(s) == Creating(s) \/ done[s] # {}

OneFiller ==
    /\ \A s, t \in Servers : Filler(s) /\ Filler(t) => s = t
    /\ Driver # "sqlite3" => \A s \in Servers : Filler(s) => exists

Early == CreateStatements \cup {"down", "probe", "createDatabase"}

GroupsFilled(s) ==
    /\ pc[s] \in Early => done[s] = {}
    /\ "groups" \in tables => \A g \in Groups \cap done[s] : groups[g] > 0
    /\ pc[s] = "insertGroup" /\ Parent[cur[s]] # None => Parent[cur[s]] \in done[s]

ParentInv ==
    /\ ParentsFirst
    /\ OneFiller
    /\ \A s \in Servers : GroupsFilled(s)

(* Only a server that creates or fills gets through with anything.         *)
LEMMA DoneGrows ==
    ASSUME TypeInv, NEW s \in Servers, Start(s) \/ Step(s) \/ Crash(s)
    PROVE  done'[s] \subseteq done[s] \/ Creating(s)
  <1> USE DEF TypeInv, TypeOK
  <1>1. CASE Start(s) \/ Crash(s)
    BY <1>1 DEF Start, Crash, Goto, Exit
  <1>2. CASE Probe(s)
    BY <1>2 DEF Probe, ProbeError, Exit
  <1>3. CASE CreateDatabase(s)
    BY <1>3 DEF CreateDatabase, Goto, Exit
  <1>4. CASE ~Start(s) /\ ~Crash(s) /\ ~Probe(s) /\ ~CreateDatabase(s)
    BY <1>4 DEF Step, CreateTable, PopulateGroups, InsertGroup, PopulateUsers,
         CheckUser, InsertUser, SetMaxEnrollments, Creating, FillStatements
  <1>5. QED
    BY <1>1, <1>2, <1>3, <1>4

(* At most one server ever creates or fills. *)
LEMMA OneFillerStep ==
    ASSUME TypeInv, OneFiller, NEW s \in Servers, Start(s) \/ Step(s) \/ Crash(s),
           Driver # "sqlite3" \/ \E t \in Servers : Servers = {t}
    PROVE  OneFiller'
  <1>1. \A t \in Servers \ {s} : Filler(t)' = Filler(t)
    BY Registering DEF Filler, Creating
  <1>2. CASE Driver # "sqlite3"
    <2>1. exists => exists'
      BY ExistsStays
    <2>2. Creating(s)' => Filler(s) \/ (~exists /\ exists')
      BY <1>2, CreatorEnters DEF Filler
    <2>3. done'[s] # {} => Filler(s)
      BY DoneGrows DEF Filler
    <2>4. Filler(s)' => Filler(s) \/ (~exists /\ exists')
      BY <2>2, <2>3 DEF Filler
    <2>5. QED
      BY <1>1, <1>2, <2>1, <2>4 DEF OneFiller
  <1>3. CASE Driver = "sqlite3"
    BY <1>3 DEF OneFiller
  <1>4. QED
    BY <1>2, <1>3

(* The groups table is created by a filler that is through with nothing,   *)
(* and no row of it goes away.                                             *)
LEMMA TablesStep ==
    ASSUME TypeInv, NEW s \in Servers, Start(s) \/ Step(s) \/ Crash(s)
    PROVE  /\ UNCHANGED tables \/ (CreateTable(s) /\ pc[s] \in CreateStatements)
           /\ tables \subseteq tables'
           /\ \A g \in Groups : groups[g] > 0 => groups'[g] > 0
           /\ UNCHANGED groups \/ (InsertGroup(s) /\ "groups" \in tables)
  <1>1. UNCHANGED tables \/ (CreateTable(s) /\ pc[s] \in CreateStatements)
    BY DEF Start, Step, Crash, Probe, CreateDatabase, CreateTable, PopulateGroups,
       InsertGroup, PopulateUsers, CheckUser, InsertUser, SetMaxEnrollments, database
  <1>2. tables \subseteq tables'
    BY <1>1 DEF CreateTable, database
  <1>3. CASE InsertGroup(s)
    <2>1. cur[s] \in Groups
      BY <1>3 DEF InsertGroup, TypeInv, CurrentOK
    <2>2. \A g \in Groups : groups[g] > 0 => groups'[g] > 0
      BY <1>3, <2>1 DEF InsertGroup, TypeInv, TypeOK
    <2>3. QED
      BY <1>1, <1>2, <1>3, <2>2 DEF InsertGroup
  <1>4. CASE ~InsertGroup(s)
    BY <1>1, <1>2, <1>4, GroupsGrow
  <1>5. QED
    BY <1>3, <1>4

(* A server that starts or ends is through with nothing. *)
LEMMA EarlyFilled ==
    ASSUME TypeInv, NEW s \in Servers, GroupsFilled(s), ~Faults,
           \/ Start(s) \/ Crash(s) \/ Probe(s)
           \/ CreateDatabase(s) \/ CreateTable(s)
    PROVE  GroupsFilled(s)' /\ done'[s] = {}
  <1> USE DEF TypeInv, TypeOK
  <1>1. ASSUME Exit(s)
        PROVE  pc'[s] = "down" /\ done'[s] = {}
    BY <1>1 DEF Exit
  <1>2. ASSUME pc[s] \in Early
        PROVE  done[s] = {}
    BY <1>2 DEF GroupsFilled
  <1>3. done'[s] = {} /\ pc'[s] # "insertGroup"
    <2>1. CASE Start(s)
      BY <1>2, <2>1 DEF Start, Goto, Early
    <2>2. CASE Crash(s)
      BY <1>1, <2>2 DEF Crash
    <2>3. CASE Probe(s)
      BY <1>2, <2>3 DEF Probe, AfterProbe, NextPhase, Early
    <2>4. CASE CreateDatabase(s)
      BY <1>1, <1>2, <2>4 DEF CreateDatabase, Goto, Early
    <2>5. CASE CreateTable(s)
      <3>1. done[s] = {} /\ AfterTable(pc[s]) # "insertGroup"
        BY <1>2, <2>5 DEF CreateTable, Early, AfterTable, NextPhase
      <3>2. QED
        BY <1>1, <2>5, <3>1, Phases DEF CreateTable, Goto
    <2>6. QED
      BY <2>1, <2>2, <2>3, <2>4, <2>5
  <1>4. QED
    BY <1>3 DEF GroupsFilled

(* A group is inserted after the one above it. *)
LEMMA FillGroupsFilled ==
    ASSUME TypeInv, NEW s \in Servers, GroupsFilled(s), ~Faults,
           PopulateGroups(s) \/ InsertGroup(s)
    PROVE  GroupsFilled(s)'
  <1> USE DEF TypeInv, TypeOK
  <1>1. UNCHANGED tables /\ \A g \in Groups : groups[g] > 0 => groups'[g] > 0
    BY TablesStep DEF Step, PopulateGroups, InsertGroup, CreateTable, CreateStatements
  <1>2. ASSUME NEW g \in Groups, done'[s] = done[s] \cup {g},
               "groups" \in tables => groups'[g] > 0, pc'[s] = "populateGroups"
        PROVE  GroupsFilled(s)'
    BY <1>1, <1>2 DEF GroupsFilled, Early, CreateStatements
  <1>3. ASSUME NEW g \in NextGroups(done[s]), GroupThere(g),
               ItemDone(s, g, "populateGroups"), UNCHANGED groups
        PROVE  GroupsFilled(s)'
    BY <1>2, <1>3 DEF ItemDone, GroupThere, NextGroups
  <1>4. ASSUME NEW g \in NextGroups(done[s]), ItemBegun(s, g, "insertGroup")
        PROVE  GroupsFilled(s)'
    <2>1. g \in Groups /\ (Parent[g] # None => Parent[g] \in done[s])
      BY DEF NextGroups
    <2>2. /\ cur'[s] = g /\ pc'[s] = "insertGroup" /\ done'[s] = done[s]
      BY <1>4 DEF ItemBegun
    <2>3. QED
      BY <1>1, <2>1, <2>2 DEF GroupsFilled, Early, CreateStatements
  <1>5. ASSUME Goto(s, "populateUsers"), UNCHANGED groups
        PROVE  GroupsFilled(s)'
    BY <1>1, <1>5 DEF Goto, GroupsFilled, Early, CreateStatements
  <1>6. CASE PopulateGroups(s)
    BY <1>3, <1>4, <1>5, <1>6, Phases DEF PopulateGroups, database
  <1>7. CASE InsertGroup(s)
    <2>1. PICK c \in Groups : c = cur[s]
      BY <1>7 DEF InsertGroup, CurrentOK
    <2>2. "groups" \in tables => groups'[c] > 0
      BY <1>7, <2>1 DEF InsertGroup
    <2>3. done'[s] = done[s] \cup {c} /\ pc'[s] = "populateGroups"
      BY <1>7, <2>1 DEF InsertGroup, ItemDone
    <2>4. QED
      BY <1>2, <2>2, <2>3
  <1>8. QED
    BY <1>6, <1>7

(* The users leave the groups alone. *)
LEMMA FillUsersFilled ==
    ASSUME TypeInv, NEW s \in Servers, GroupsFilled(s),
           PopulateUsers(s) \/ CheckUser(s) \/ InsertUser(s) \/ SetMaxEnrollments(s)
    PROVE  GroupsFilled(s)'
  <1> USE DEF TypeInv, TypeOK
  <1>1. UNCHANGED <<tables, groups>>
    BY DEF PopulateUsers, CheckUser, InsertUser, SetMaxEnrollments, database
  <1>2. /\ pc'[s] \notin Early \cup {"insertGroup"}
        /\ done'[s] \subseteq done[s] \cup BootUsers
    <2>1. CASE PopulateUsers(s)
      BY <2>1, PopulateCases
         DEF Goto, ItemDone, ItemBegun, Early, CreateStatements
    <2>2. CASE ~PopulateUsers(s)
      <3>1. cur[s] \in BootUsers
        BY <2>2 DEF CheckUser, InsertUser, SetMaxEnrollments, CurrentOK
      <3>2. \/ ItemDone(s, cur[s], "populateUsers")
            \/ Goto(s, "insertUser") \/ Goto(s, "setMaxEnrollments")
        BY <2>2 DEF CheckUser, InsertUser, SetMaxEnrollments
      <3>3. QED
        BY <3>1, <3>2 DEF Goto, ItemDone, Early, CreateStatements
    <2>3. QED
      BY <2>1, <2>2
  <1>3. QED
    BY <1>1, <1>2, StartupAssumption DEF GroupsFilled

(* Every step of one server. *)
LEMMA GroupsFilledStep ==
    ASSUME TypeInv, NEW s \in Servers, GroupsFilled(s), ~Faults,
           Start(s) \/ Step(s) \/ Crash(s)
    PROVE  GroupsFilled(s)'
  BY EarlyFilled, FillGroupsFilled, FillUsersFilled DEF Step

(* A step of one server keeps what the invariant says of all of them.      *)
LEMMA ParentStep ==
    ASSUME TypeInv, ParentInv, NEW s \in Servers, ~Faults,
           Start(s) \/ Step(s) \/ Crash(s),
           Driver # "sqlite3" \/ \E t \in Servers : Servers = {t}
    PROVE  ParentInv'
  <1>1. OneFiller'
    BY OneFillerStep DEF ParentInv
  <1>2. GroupsFilled(s)'
    BY GroupsFilledStep DEF ParentInv
  <1>3. ASSUME NEW t \in Servers \ {s}
        PROVE  GroupsFilled(t)'
    <2>1. /\ pc'[t] = pc[t] /\ cur'[t] = cur[t] /\ done'[t] = done[t]
          /\ GroupsFilled(t)
      BY Registering DEF ParentInv
    <2>2. CASE UNCHANGED tables
      BY <2>1, <2>2, TablesStep DEF GroupsFilled
    <2>3. CASE CreateTable(s) /\ pc[s] \in CreateStatements
      <3>1. done[t] = {} /\ ~Creating(t)
        BY <2>3 DEF ParentInv, OneFiller, Filler, Creating
      <3>2. pc[t] # "insertGroup"
        BY <3>1 DEF Creating, FillStatements
      <3>3. QED
        BY <2>1, <3>1, <3>2 DEF GroupsFilled
    <2>4. QED
      BY <2>2, <2>3, TablesStep
  <1>4. ParentsFirst'
    <2>1. CASE UNCHANGED groups
      BY <2>1 DEF ParentInv, ParentsFirst
    <2>2. CASE InsertGroup(s) /\ "groups" \in tables
      <3>1. PICK c \in Groups : c = cur[s] /\ pc[s] = "insertGroup"
        BY <2>2 DEF InsertGroup, TypeInv, CurrentOK
      <3>2. Parent[c] # None => Parent[c] \in Groups /\ groups[Parent[c]] > 0
        BY <2>2, <3>1, StartupAssumption DEF ParentInv, GroupsFilled
      <3>3. \A g \in Groups \ {c} : groups'[g] = groups[g]
        BY <2>2, <3>1 DEF InsertGroup, TypeInv, TypeOK
      <3>4. \A g \in Groups : Parent[g] # None => Parent[g] \in Groups
        BY StartupAssumption
      <3>5. QED
        BY <3>2, <3>3, <3>4, TablesStep DEF ParentInv, ParentsFirst
    <2>3. QED
      BY <2>1, <2>2, TablesStep
  <1>5. QED
    BY <1>1, <1>2, <1>3, <1>4 DEF ParentInv

(* Nothing is filled before the first start. *)
LEMMA ParentInvInit == Init => ParentInv
  <1> SUFFICES ASSUME Init
               PROVE  ParentInv
    OBVIOUS
  <1>1. \A s \in Servers : pc[s] = "down" /\ done[s] = {} /\ ~Creating(s)
    BY DEF Init, Creating, CreateStatements, FillStatements
  <1>2. ParentsFirst
    BY DEF Init, ParentsFirst
  <1>3. QED
    BY <1>1, <1>2 DEF ParentInv, OneFiller, Filler, GroupsFilled

(* Every step. *)
LEMMA ParentInvStep ==
    ASSUME ~Faults, Driver # "sqlite3" \/ \E t \in Servers : Servers = {t}
    PROVE  TypeInv /\ ParentInv /\ [Next]_vars => ParentInv'
  <1> SUFFICES ASSUME TypeInv, ParentInv, [Next]_vars
               PROVE  ParentInv'
    OBVIOUS
  <1>1. CASE UNCHANGED vars
    BY <1>1 DEF vars, ParentInv, ParentsFirst, OneFiller, Filler, Creating,
         GroupsFilled
  <1>2. QED
    BY <1>1, ParentStep DEF Next, AllServing

(* When no statement fails, a group is in the table only when the group    *)
(* above it is: for any number of servers on Postgres or MySQL and for one *)
(* server on SQLite, whatever the tree of groups and however often servers *)
(* are killed and started again.                                           *)
THEOREM ParentsComeFirst ==
    ASSUME ~Faults, Driver # "sqlite3" \/ \E t \in Servers : Servers = {t}
    PROVE  Spec => []ParentsFirst
  <1>1. ParentInv => ParentsFirst
    BY DEF ParentInv
  <1>2. TypeInv /\ ParentInv /\ [Next]_vars => ParentInv'
    BY ParentInvStep
  <1>3. QED
    BY <1>1, <1>2, ParentInvInit, TypeInvariant, PTL DEF Spec

-----------------------------------------------------------------------------
(***************************************************************************)
(* What a start on SQLite has filled when it listens: it is through with   *)
(* all groups before the first user, and with all users at the end.        *)
(***************************************************************************)
UsersFilled(s) ==
    /\ pc[s] \in {"populateUsers", "checkUser", "insertUser", "setMaxEnrollments"} =>
          Groups \subseteq done[s]
    /\ pc[s] = "serving" => Items \subseteq done[s]
    /\ "groups" \in tables /\ "users" \in tables =>
          \A u \in BootUsers \cap done[s] : RowsOf(u) > 0
    /\ pc[s] = "setMaxEnrollments" => RowsOf(cur[s]) > 0

(* No row of a user goes away. *)
LEMMA RowsGrow ==
    ASSUME TypeInv, NEW s \in Servers, Start(s) \/ Step(s) \/ Crash(s)
    PROVE  \A u \in BootUsers : RowsOf(u) > 0 => RowsOf(u)' > 0
  <1> SUFFICES ASSUME NEW u \in BootUsers, RowsOf(u) > 0
               PROVE  RowsOf(u)' > 0
    OBVIOUS
  <1>1. users[u] \in [fresh : Nat, limited : Nat]
    BY DEF TypeInv, TypeOK
  <1>2. RowsOf(u) \in Nat
    BY <1>1 DEF RowsOf
  <1>3. RowsOf(u)' = RowsOf(u) \/ RowsOf(u)' = RowsOf(u) + 1
    BY UsersWritten DEF RowsOf
  <1>4. QED
    BY <1>2, <1>3

(* Before the bootstrap, and while it registers groups, no user is done.   *)
LEMMA EarlyUsersFilled ==
    ASSUME TypeInv, NEW s \in Servers, GroupsFilled(s), UsersFilled(s),
           ~Faults, Driver = "sqlite3",
           \/ Start(s) \/ Crash(s) \/ Probe(s)
           \/ CreateDatabase(s) \/ CreateTable(s)
    PROVE  UsersFilled(s)'
  <1> USE DEF TypeInv, TypeOK
  <1>1. done'[s] = {}
    BY EarlyFilled
  <1>2. pc'[s] \in Early \cup {"populateGroups"}
    <2>1. CASE Start(s)
      BY <2>1 DEF Start, Goto, Early
    <2>2. CASE Crash(s)
      BY <2>2 DEF Crash, Exit, Early
    <2>3. CASE Probe(s)
      BY <2>3 DEF Probe, AfterProbe, BootstrapNeeded, NextPhase, Early
    <2>4. CASE CreateDatabase(s)
      BY <2>4 DEF CreateDatabase, Goto, Exit, Early, CreateStatements
    <2>5. CASE CreateTable(s)
      <3>1. AfterTable(pc[s]) \in CreateStatements \cup {"populateGroups"}
        BY <2>5, Phases DEF CreateTable
      <3>2. QED
        BY <2>5, <3>1, Phases DEF CreateTable, Goto, Exit, Early
    <2>6. QED
      BY <2>1, <2>2, <2>3, <2>4, <2>5
  <1>3. pc'[s] \notin {"populateUsers", "checkUser", "insertUser",
                       "setMaxEnrollments", "serving"}
    BY <1>2 DEF Early, CreateStatements
  <1>4. QED
    BY <1>1, <1>3 DEF UsersFilled

(* The users come after the last group. *)
LEMMA GroupsUsersFilled ==
    ASSUME TypeInv, NEW s \in Servers, UsersFilled(s),
           PopulateGroups(s) \/ InsertGroup(s)
    PROVE  UsersFilled(s)'
  <1> USE DEF TypeInv, TypeOK
  <1>1. UNCHANGED <<tables, users>>
    BY DEF PopulateGroups, InsertGroup, database
  <1>2. ASSUME NEW g \in Groups, ItemDone(s, g, "populateGroups")
        PROVE  UsersFilled(s)'
    <2>1. done'[s] = done[s] \cup {g} /\ pc'[s] = "populateGroups" /\ g \notin BootUsers
      BY <1>2, StartupAssumption DEF ItemDone
    <2>2. QED
      BY <1>1, <2>1 DEF UsersFilled, RowsOf
  <1>3. ASSUME NEW g \in Groups, ItemBegun(s, g, "insertGroup")
        PROVE  UsersFilled(s)'
    BY <1>1, <1>3 DEF ItemBegun, UsersFilled, RowsOf
  <1>4. ASSUME Groups \subseteq done[s], Goto(s, "populateUsers")
        PROVE  UsersFilled(s)'
    BY <1>1, <1>4 DEF Goto, UsersFilled, RowsOf
  <1>5. CASE PopulateGroups(s)
    <2>1. \A g \in NextGroups(done[s]) : g \in Groups
      BY DEF NextGroups
    <2>2. QED
      BY <1>2, <1>3, <1>4, <1>5, <2>1, Phases DEF PopulateGroups
  <1>6. CASE InsertGroup(s)
    <2>1. cur[s] \in Groups
      BY <1>6 DEF InsertGroup, CurrentOK
    <2>2. QED
      BY <1>2, <1>6, <2>1 DEF InsertGroup
  <1>7. QED
    BY <1>5, <1>6

(* A user is left out only where a table is missing: its group is there.   *)
LEMMA UsersUsersFilled ==
    ASSUME TypeInv, NEW s \in Servers, GroupsFilled(s), UsersFilled(s), ~Faults,
           Driver = "sqlite3",
           PopulateUsers(s) \/ CheckUser(s) \/ InsertUser(s) \/ SetMaxEnrollments(s)
    PROVE  UsersFilled(s)'
  <1> USE DEF TypeInv, TypeOK
  <1>1. UNCHANGED tables /\ Groups \subseteq done[s]
    BY DEF PopulateUsers, CheckUser, InsertUser, SetMaxEnrollments, database,
       UsersFilled
  <1>2. \A u \in BootUsers : RowsOf(u) > 0 => RowsOf(u)' > 0
    BY RowsGrow DEF Step
  <1>3. ASSUME NEW u \in BootUsers, ItemDone(s, u, "populateUsers"),
               "groups" \in tables /\ "users" \in tables => RowsOf(u)' > 0
        PROVE  UsersFilled(s)'
    <2>1. done'[s] = done[s] \cup {u} /\ pc'[s] = "populateUsers"
      BY <1>3 DEF ItemDone
    <2>2. QED
      BY <1>1, <1>2, <1>3, <2>1 DEF UsersFilled
  <1>4. CASE PopulateUsers(s)
    <2>1. UNCHANGED users
      BY <1>4 DEF PopulateUsers, database
    <2>2. ASSUME NEW u \in BootUsers, ~ValidID(u), ItemDone(s, u, "populateUsers")
          PROVE  UsersFilled(s)'
      <3>1. "groups" \notin tables
        <4>1. GroupOf[u] # None /\ GroupOf[u] \in Groups
          BY <2>2, StartupAssumption DEF ValidID
        <4>2. QED
          BY <1>1, <2>2, <4>1, StartupAssumption DEF ValidID, GroupThere, GroupsFilled
      <3>2. QED
        BY <1>3, <2>2, <3>1
    <2>3. ASSUME NEW u \in BootUsers, ItemBegun(s, u, "checkUser")
          PROVE  UsersFilled(s)'
      BY <1>1, <2>1, <2>3 DEF ItemBegun, UsersFilled, RowsOf
    <2>4. ASSUME BootUsers \subseteq done[s], Goto(s, "serving")
          PROVE  UsersFilled(s)'
      BY <1>1, <2>1, <2>4 DEF Goto, UsersFilled, RowsOf, Items
    <2>5. QED
      BY <1>4, <2>2, <2>3, <2>4, Phases DEF PopulateUsers
  <1>5. CASE CheckUser(s)
    <2>1. PICK c \in BootUsers : c = cur[s]
      BY <1>5 DEF CheckUser, CurrentOK
    <2>2. UNCHANGED users
      BY <1>5 DEF CheckUser, database
    <2>3. CASE UserThere(c) /\ ItemDone(s, c, "populateUsers")
      <3>1. RowsOf(c)' > 0
        BY <1>2, <2>3 DEF UserThere, RowsOf
      <3>2. QED
        BY <1>3, <2>3, <3>1
    <2>4. CASE Goto(s, "insertUser")
      BY <1>1, <2>2, <2>4 DEF Goto, UsersFilled, RowsOf
    <2>5. QED
      BY <1>5, <2>1, <2>3, <2>4 DEF CheckUser
  <1>6. CASE InsertUser(s)
    <2>1. PICK c \in BootUsers : c = cur[s]
      BY <1>6 DEF InsertUser, CurrentOK
    <2>2. CASE InsertRefused(c) /\ ItemDone(s, c, "populateUsers")
      <3>1. "users" \notin tables
        BY <2>2 DEF InsertRefused
      <3>2. QED
        BY <1>3, <2>2, <3>1
    <2>3. CASE /\ users' = [users EXCEPT ![c] = NewRow(users[c])]
               /\ Goto(s, "setMaxEnrollments")
      <3>1. /\ users[c] \in [fresh : Nat, limited : Nat]
            /\ users'[c] = NewRow(users[c])
        BY <2>3
      <3>2. RowsOf(c)' > 0
        BY <3>1, RowsTyped DEF RowsOf
      <3>3. cur'[s] = c /\ pc'[s] = "setMaxEnrollments" /\ done'[s] = done[s]
        BY <2>1, <2>3 DEF Goto
      <3>4. QED
        BY <1>1, <1>2, <3>2, <3>3 DEF UsersFilled, RowsOf
    <2>4. QED
      BY <1>6, <2>1, <2>2, <2>3 DEF InsertUser
  <1>7. CASE SetMaxEnrollments(s)
    <2>1. PICK c \in BootUsers : c = cur[s] /\ RowsOf(c) > 0
      BY <1>7 DEF SetMaxEnrollments, CurrentOK, UsersFilled
    <2>2. QED
      BY <1>2, <1>3, <1>7, <2>1 DEF SetMaxEnrollments
  <1>8. QED
    BY <1>4, <1>5, <1>6, <1>7

(* The users without a limit that no server is about to give one. *)
LeftBehind ==
    {u \in BootUsers :
        /\ users[u].fresh > 0
        /\ \A s \in Servers : pc[s] = "setMaxEnrollments" => cur[s] # u}

LimitInv == IsFiniteSet(LeftBehind) /\ Cardinality(LeftBehind) <= crashes

(* A server that is not killed leaves no user behind: it goes on from the  *)
(* INSERT to the UPDATE.                                                   *)
LEMMA NoneLeftBehind ==
    ASSUME TypeInv, NEW s \in Servers, ~Faults, Start(s) \/ Step(s)
    PROVE  LeftBehind' \subseteq LeftBehind
  <1> USE DEF TypeInv, TypeOK
  <1>1. \A t \in Servers \ {s} : pc'[t] = pc[t] /\ cur'[t] = cur[t]
    BY Registering
  <1>2. CASE SetMaxEnrollments(s)
    <2>1. PICK c \in BootUsers : c = cur[s]
      BY <1>2 DEF SetMaxEnrollments, CurrentOK
    <2>2. /\ users[c] \in [fresh : Nat, limited : Nat]
          /\ users'[c] = LimitRows(users[c])
          /\ \A u \in BootUsers \ {c} : users'[u] = users[u]
      BY <1>2, <2>1 DEF SetMaxEnrollments
    <2>3. ~(users'[c].fresh > 0)
      BY <2>2, RowsTyped
    <2>4. QED
      BY <1>1, <2>1, <2>2, <2>3 DEF LeftBehind
  <1>3. CASE InsertUser(s)
    <2>1. PICK c \in BootUsers : c = cur[s]
      BY <1>3 DEF InsertUser, CurrentOK
    <2>2. \A u \in BootUsers \ {c} : users'[u] = users[u]
      BY <1>3, <2>1 DEF InsertUser
    <2>3. UNCHANGED users \/ (pc'[s] = "setMaxEnrollments" /\ cur'[s] = c)
      BY <1>3, <2>1 DEF InsertUser, Goto
    <2>4. pc[s] # "setMaxEnrollments"
      BY <1>3 DEF InsertUser
    <2>5. QED
      BY <1>1, <2>1, <2>2, <2>3, <2>4 DEF LeftBehind
  <1>4. CASE ~SetMaxEnrollments(s) /\ ~InsertUser(s)
    <2>1. UNCHANGED users
      BY <1>4, UsersWritten
    <2>2. pc[s] # "setMaxEnrollments"
      BY <1>4 DEF Start, Step, Probe, CreateDatabase, CreateTable, PopulateGroups,
         InsertGroup, PopulateUsers, CheckUser, CreateStatements
    <2>3. QED
      BY <1>1, <2>1, <2>2 DEF LeftBehind
  <1>5. QED
    BY <1>2, <1>3, <1>4

(* Each crash leaves at most one user behind, the one at hand. *)
LEMMA LimitStep ==
    ASSUME TypeInv, LimitInv, NEW s \in Servers, ~Faults,
           Start(s) \/ Step(s) \/ Crash(s)
    PROVE  LimitInv'
  <1>0. crashes \in Nat /\ Cardinality(LeftBehind) \in Nat
    BY FS_CardinalityType DEF TypeInv, TypeOK, LimitInv
  <1>1. CASE Start(s) \/ Step(s)
    <2>1. LeftBehind' \subseteq LeftBehind
      BY <1>1, NoneLeftBehind
    <2>2. UNCHANGED crashes
      BY <1>1 DEF Start, Step, Probe, CreateDatabase, CreateTable, PopulateGroups,
         InsertGroup, PopulateUsers, CheckUser, InsertUser, SetMaxEnrollments,
         Goto, ItemDone, ItemBegun
    <2>3. IsFiniteSet(LeftBehind') /\ Cardinality(LeftBehind') <= Cardinality(LeftBehind)
      BY <2>1, FS_Subset DEF LimitInv
    <2>4. Cardinality(LeftBehind') \in Nat
      BY <2>3, FS_CardinalityType
    <2>5. QED
      BY <1>0, <2>2, <2>3, <2>4 DEF LimitInv
  <1>2. CASE Crash(s)
    <2>1. UNCHANGED users /\ crashes' = crashes + 1
      BY <1>2 DEF Crash, database
    <2>2. \A t \in Servers \ {s} : pc'[t] = pc[t] /\ cur'[t] = cur[t]
      BY Registering
    <2>3. LeftBehind' \subseteq LeftBehind \cup {cur[s]}
      BY <2>1, <2>2 DEF LeftBehind
    <2>4. /\ IsFiniteSet(LeftBehind \cup {cur[s]})
          /\ Cardinality(LeftBehind \cup {cur[s]}) <= Cardinality(LeftBehind) + 1
      BY <1>0, FS_AddElement DEF LimitInv
    <2>5. /\ IsFiniteSet(LeftBehind')
          /\ Cardinality(LeftBehind') <= Cardinality(LeftBehind \cup {cur[s]})
      BY <2>3, <2>4, FS_Subset
    <2>6. Cardinality(LeftBehind') \in Nat /\ Cardinality(LeftBehind \cup {cur[s]}) \in Nat
      BY <2>4, <2>5, FS_CardinalityType
    <2>7. QED
      BY <1>0, <2>1, <2>4, <2>5, <2>6 DEF LimitInv
  <1>3. QED
    BY <1>1, <1>2

(* ParentInv, UsersFilled and LimitInv are inductive together. *)
FilledInv == ParentInv /\ LimitInv /\ \A s \in Servers : UsersFilled(s)

(* At the start no server has reached the users, and none is left behind. *)
LEMMA FilledInvInit == Init => FilledInv
  <1> SUFFICES ASSUME Init
               PROVE  FilledInv
    OBVIOUS
  <1>1. \A s \in Servers : UsersFilled(s)
    BY DEF Init, UsersFilled
  <1>2. LeftBehind = {} /\ crashes = 0
    BY DEF Init, LeftBehind
  <1>3. LimitInv
    BY <1>2, FS_EmptySet DEF LimitInv
  <1>4. QED
    BY <1>1, <1>3, ParentInvInit DEF FilledInv

(* Every step of the only server. *)
LEMMA FilledInvStep ==
    ASSUME ~Faults, Driver = "sqlite3", NEW t \in Servers, Servers = {t}
    PROVE  TypeInv /\ FilledInv /\ [Next]_vars => FilledInv'
  <1> SUFFICES ASSUME TypeInv, FilledInv, [Next]_vars
               PROVE  FilledInv'
    OBVIOUS
  <1>1. CASE UNCHANGED vars
    <2>1. ParentInv'
      BY <1>1, ParentInvStep DEF FilledInv
    <2>2. UNCHANGED <<tables, users, done, pc, cur, crashes>>
      BY <1>1 DEF vars
    <2>3. \A s \in Servers : UsersFilled(s)'
      BY <2>2 DEF FilledInv, UsersFilled, RowsOf
    <2>4. LeftBehind' = LeftBehind
      BY <2>2 DEF LeftBehind
    <2>5. QED
      BY <2>1, <2>2, <2>3, <2>4 DEF FilledInv, LimitInv
  <1>2. ASSUME Start(t) \/ Step(t) \/ Crash(t)
        PROVE  FilledInv'
    <2>1. ParentInv' /\ LimitInv'
      BY <1>2, ParentStep, LimitStep DEF FilledInv
    <2>2. UsersFilled(t) /\ GroupsFilled(t)
      BY DEF FilledInv, ParentInv
    <2>3. UsersFilled(t)'
      BY <1>2, <2>2, EarlyUsersFilled, GroupsUsersFilled, UsersUsersFilled DEF Step
    <2>4. QED
      BY <2>1, <2>3 DEF FilledInv
  <1>3. QED
    BY <1>1, <1>2 DEF Next, AllServing

(* One SQLite server whose statements do not fail: when it listens on a    *)
(* database with all its tables, every group and every user of the         *)
(* configuration has a row, whatever earlier starts left there, and the    *)
(* users without a limit are at most as many as the crashes.               *)
THEOREM ServingIsFilled ==
    ASSUME ~Faults, Driver = "sqlite3", NEW t \in Servers, Servers = {t}
    PROVE  Spec => []ServingFilled
  <1>1. TypeInv /\ FilledInv => ServingFilled
    <2> SUFFICES ASSUME TypeInv, FilledInv, pc[t] = "serving", tables = Tables
                 PROVE  /\ Filled
                        /\ Cardinality({u \in BootUsers : users[u].fresh > 0}) <= crashes
      BY DEF ServingFilled
    <2>1. Items \subseteq done[t] /\ "groups" \in tables /\ "users" \in tables
      BY DEF FilledInv, UsersFilled, Tables
    <2>2. \A g \in Groups : groups[g] > 0
      BY <2>1 DEF FilledInv, ParentInv, GroupsFilled, Items
    <2>3. \A u \in BootUsers : RowsOf(u) > 0
      BY <2>1 DEF FilledInv, UsersFilled, Items
    <2>4. LeftBehind = {u \in BootUsers : users[u].fresh > 0}
      BY DEF LeftBehind
    <2>5. QED
      BY <2>2, <2>3, <2>4 DEF Filled, RowsOf, FilledInv, LimitInv
  <1>2. TypeInv /\ FilledInv /\ [Next]_vars => FilledInv'
    BY FilledInvStep
  <1>3. QED
    BY <1>1, <1>2, FilledInvInit, TypeInvariant, PTL DEF Spec
=============================================================================

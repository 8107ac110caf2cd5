----------------------------- MODULE CopStartup -----------------------------
(***************************************************************************)
(* The start of COP servers on a database they may share: finding the      *)
(* database, creating it and its tables (dbutil.go), and filling it with   *)
(* the groups and users of the configuration file (bootstrap.go).  A       *)
(* server may be killed between any two statements and be started again.   *)
(***************************************************************************)
EXTENDS Integers, FiniteSets

CONSTANTS
    Servers,     \* server processes
    Driver,      \* CFG.DBdriver
    Groups,      \* the groups of the configuration
    Parent,      \* the group above a group, or None
    BootUsers,   \* the users of the configuration
    GroupOf,     \* the group that validateID demands of a user, or None
    Faults,      \* whether statements may fail
    MaxCrashes,  \* bound on the number of times a server is killed
    None

ASSUME StartupAssumption ==
    /\ Driver \in {"sqlite3", "postgres", "mysql"}
    /\ Groups \cap BootUsers = {}
    /\ None \notin Groups \cup BootUsers
    /\ Parent \in [Groups -> Groups \cup {None}]
    /\ GroupOf \in [BootUsers -> Groups \cup {None}]
    /\ Faults \in BOOLEAN /\ MaxCrashes \in Nat

VARIABLES
    exists,   \* whether the database is there
    tables,   \* the tables that are there
    groups,   \* the number of rows of each group
    users,    \* the rows of each user, without and with a limit
    pc,       \* the next statement of each server
    found,    \* whether the server found the database when it started
    done,     \* the groups and users its bootstrap is through with
    cur,      \* the group or user it is registering
    crashes   \* number of crashes so far

database == <<exists, tables, groups, users>>
vars == <<exists, tables, groups, users, pc, found, done, cur, crashes>>

Tables == {"users", "groups", "certificates"}

Items == Groups \cup BootUsers

CreateStatements == {"createUsers", "createGroups", "createCertificates"}

FillStatements ==
    {"populateGroups", "insertGroup", "populateUsers", "checkUser",
     "insertUser", "setMaxEnrollments"}

TypeOK ==
    /\ exists \in BOOLEAN
    /\ tables \subseteq Tables
    /\ groups \in [Groups -> Nat]
    /\ users \in [BootUsers -> [fresh : Nat, limited : Nat]]
    /\ pc \in [Servers -> {"down", "probe", "createDatabase", "serving"}
                             \cup CreateStatements \cup FillStatements]
    /\ found \in [Servers -> BOOLEAN]
    /\ done \in [Servers -> SUBSET Items]
    /\ cur \in [Servers -> Items \cup {None}]
    /\ crashes \in Nat

Init ==
    /\ exists = FALSE
    /\ tables = {}
    /\ groups = [g \in Groups |-> 0]
    /\ users = [u \in BootUsers |-> [fresh |-> 0, limited |-> 0]]
    /\ pc = [s \in Servers |-> "down"]
    /\ found = [s \in Servers |-> FALSE]
    /\ done = [s \in Servers |-> {}]
    /\ cur = [s \in Servers |-> None]
    /\ crashes = 0

-----------------------------------------------------------------------------
(* Control. *)

Goto(s, statement) ==
    /\ pc' = [pc EXCEPT ![s] = statement]
    /\ UNCHANGED <<found, done, cur, crashes>>

(* The process is gone, and its variables with it.                         *)
Exit(s) ==
    /\ pc' = [pc EXCEPT ![s] = "down"]
    /\ found' = [found EXCEPT ![s] = FALSE]
    /\ done' = [done EXCEPT ![s] = {}]
    /\ cur' = [cur EXCEPT ![s] = None]

(* bootstrapDB fills the groups, then the users; then the server listens.  *)
NextPhase(phase) ==
    IF phase = "tables" THEN "populateGroups"
    ELSE IF phase = "groups" THEN "populateUsers"
    ELSE "serving"

(* The current group or user is dealt with, whether it succeeded or not:   *)
(* errors of the bootstrap are logged and dropped.                         *)
ItemDone(s, item, statement) ==
    /\ done' = [done EXCEPT ![s] = @ \cup {item}]
    /\ cur' = [cur EXCEPT ![s] = None]
    /\ pc' = [pc EXCEPT ![s] = statement]
    /\ UNCHANGED <<found, crashes>>

ItemBegun(s, item, statement) ==
    /\ cur' = [cur EXCEPT ![s] = item]
    /\ pc' = [pc EXCEPT ![s] = statement]
    /\ UNCHANGED <<found, done, crashes>>

-----------------------------------------------------------------------------
(* Finding and creating the database. *)

Start(s) ==
    /\ pc[s] = "down"
    /\ Goto(s, "probe")
    /\ UNCHANGED database

(* Mutant: every start fills the database. *)
BootstrapAlways(dbFound) == TRUE

(* Mutant: only the start that creates the database fills it. *)
BootstrapIfNew(dbFound) == ~dbFound

(* Whether InitUserRegistry calls bootstrapDB.  NewUserRegistrySQLLite3    *)
(* leaves "exists" false when it finds the file.                           *)
BootstrapNeeded(dbFound) == Driver = "sqlite3" \/ ~dbFound

(* Where a server goes on that has found the database, or has not.         *)
AfterProbe(dbFound) ==
    IF ~dbFound THEN "createDatabase"
    ELSE IF BootstrapNeeded(dbFound) THEN NextPhase("tables")
    ELSE "serving"

(* An error of the query ends the start; an error of SQLite's Stat is      *)
(* taken to mean that the database exists.                                 *)
ProbeError(s) ==
    IF Driver = "sqlite3"
    THEN pc' = [pc EXCEPT ![s] = "serving"] /\ UNCHANGED <<found, done, cur>>
    ELSE Exit(s)

(* The test for the database. *)
Probe(s) ==
    /\ pc[s] = "probe"
    /\ \/ /\ pc' = [pc EXCEPT ![s] = AfterProbe(exists)]
          /\ found' = [found EXCEPT ![s] = exists]
          /\ UNCHANGED <<done, cur>>
       \/ Faults /\ ProbeError(s)
    /\ UNCHANGED <<database, crashes>>

(* CREATE DATABASE fails when another server was faster: the start ends,   *)
(* on MySQL with a panic.  SQLite creates the file when the first CREATE   *)
(* TABLE opens it, and does not mind if it is there.                       *)
CreateDatabase(s) ==
    /\ pc[s] = "createDatabase"
    /\ \/ /\ ~exists \/ Driver = "sqlite3"
          /\ exists' = TRUE
          /\ Goto(s, "createUsers")
          /\ UNCHANGED <<tables, groups, users>>
       \/ /\ Faults \/ (exists /\ Driver # "sqlite3")
          /\ Exit(s)
          /\ UNCHANGED <<database, crashes>>

TableOf(statement) ==
    IF statement = "createUsers" THEN "users"
    ELSE IF statement = "createGroups" THEN "groups"
    ELSE "certificates"

AfterTable(statement) ==
    IF statement = "createUsers" THEN "createGroups"
    ELSE IF statement = "createGroups" THEN "createCertificates"
    ELSE NextPhase("tables")

(* CREATE TABLE, with IF NOT EXISTS on SQLite only.  An error ends the     *)
(* start, except on MySQL, where createMySQLTables returns it to a caller  *)
(* that does not look at it.                                               *)
CreateTable(s) ==
    LET table == TableOf(pc[s]) IN
    /\ pc[s] \in CreateStatements
    /\ \/ /\ table \notin tables \/ Driver = "sqlite3"
          /\ tables' = tables \cup {table}
          /\ Goto(s, AfterTable(pc[s]))
          /\ UNCHANGED <<exists, groups, users>>
       \/ /\ Faults \/ (table \in tables /\ Driver # "sqlite3")
          /\ IF Driver = "mysql" THEN Goto(s, NextPhase("tables"))
             ELSE Exit(s) /\ UNCHANGED crashes
          /\ UNCHANGED database
-----------------------------------------------------------------------------
(* Filling the groups table. *)

Ancestor(g, h) ==
    \/ Parent[h] = g
    \/ Parent[h] # None /\ Parent[Parent[h]] = g

(* Mutant: the groups are registered in any order. *)
NextGroupsAnyOrder(attempted) == Groups \ attempted

(* Mutant: registerGroup is given the group above for the group. *)
NextGroupsSwapped(attempted) == {Parent[g] : g \in Groups \ attempted}

(* The group populateGroup registers next.  It walks the three levels of   *)
(* the configuration depth first, the children of a group in any order.    *)
NextGroups(attempted) ==
    {g \in Groups \ attempted :
        /\ Parent[g] # None => Parent[g] \in attempted
        /\ \A h \in attempted :
              (\E k \in Groups \ attempted : Ancestor(h, k)) => Ancestor(h, g)}

GroupThere(g) == "groups" \in tables /\ g # None /\ groups[g] > 0

(* registerGroup takes any error of GetGroup to mean that the group is not *)
(* there.                                                                  *)
PopulateGroups(s) ==
    /\ pc[s] = "populateGroups"
    /\ \/ \E g \in NextGroups(done[s]) :
            \/ /\ GroupThere(g)
               /\ ItemDone(s, g, "populateGroups")
            \/ /\ ~GroupThere(g) \/ Faults
               /\ ItemBegun(s, g, "insertGroup")
       \/ /\ Groups \subseteq done[s]
          /\ Goto(s, NextPhase("groups"))
    /\ UNCHANGED database

InsertGroup(s) ==
    /\ pc[s] = "insertGroup"
    /\ \/ /\ "groups" \in tables
          /\ groups' = [groups EXCEPT ![cur[s]] = @ + 1]
       \/ /\ "groups" \notin tables \/ Faults
          /\ UNCHANGED groups
    /\ ItemDone(s, cur[s], "populateGroups")
    /\ UNCHANGED <<exists, tables, users>>

-----------------------------------------------------------------------------
(* Filling the users table: RegisterUser without a registrar. *)

UserThere(u) ==
    "users" \in tables /\ users[u].fresh + users[u].limited > 0

(* Mutant: a user is registered whether its group is there or not. *)
ValidIDAlways(u) == TRUE

(* validateID: a group that the user's type demands has to be found.       *)
ValidID(u) == GroupOf[u] = None \/ GroupThere(GroupOf[u])

(* A user that validateID refuses is skipped.                              *)
PopulateUsers(s) ==
    /\ pc[s] = "populateUsers"
    /\ \/ \E u \in BootUsers \ done[s] :
            \/ /\ ValidID(u)
               /\ ItemBegun(s, u, "checkUser")
            \/ /\ ~ValidID(u) \/ (GroupOf[u] # None /\ Faults)
               /\ ItemDone(s, u, "populateUsers")
       \/ /\ BootUsers \subseteq done[s]
          /\ Goto(s, NextPhase("users"))
    /\ UNCHANGED database

(* registerUserID: GetUser, with any error taken for "not registered".     *)
CheckUser(s) ==
    /\ pc[s] = "checkUser"
    /\ \/ UserThere(cur[s]) /\ ItemDone(s, cur[s], "populateUsers")
       \/ (~UserThere(cur[s]) \/ Faults) /\ Goto(s, "insertUser")
    /\ UNCHANGED database

(* MySQL's primary key on users.id. *)
InsertRefused(u) ==
    "users" \notin tables \/ (Driver = "mysql" /\ UserThere(u))

NewRow(rows) == [rows EXCEPT !.fresh = @ + 1]

InsertUser(s) ==
    /\ pc[s] = "insertUser"
    /\ \/ /\ ~InsertRefused(cur[s])
          /\ users' = [users EXCEPT ![cur[s]] = NewRow(@)]
          /\ Goto(s, "setMaxEnrollments")
       \/ /\ InsertRefused(cur[s]) \/ Faults
          /\ ItemDone(s, cur[s], "populateUsers")
          /\ UNCHANGED users
    /\ UNCHANGED <<exists, tables, groups>>

(* UpdateField(id, maxEnrollments, ...) writes every row of the id.        *)
LimitRows(rows) == [fresh |-> 0, limited |-> rows.fresh + rows.limited]

SetMaxEnrollments(s) ==
    /\ pc[s] = "setMaxEnrollments"
    /\ \/ users' = [users EXCEPT ![cur[s]] = LimitRows(@)]
       \/ Faults /\ UNCHANGED users
    /\ ItemDone(s, cur[s], "populateUsers")
    /\ UNCHANGED <<exists, tables, groups>>

-----------------------------------------------------------------------------
(* A server is killed, while it starts or later. *)
Crash(s) ==
    /\ pc[s] # "down"
    /\ crashes < MaxCrashes
    /\ crashes' = crashes + 1
    /\ Exit(s)
    /\ UNCHANGED database

Step(s) ==
    \/ Probe(s) \/ CreateDatabase(s) \/ CreateTable(s)
    \/ PopulateGroups(s) \/ InsertGroup(s)
    \/ PopulateUsers(s) \/ CheckUser(s) \/ InsertUser(s)
    \/ SetMaxEnrollments(s)

(* All servers listen, and none of them is killed any more.                *)
AllServing ==
    /\ \A s \in Servers : pc[s] = "serving"
    /\ UNCHANGED vars

Next ==
    \/ \E s \in Servers : Start(s) \/ Step(s) \/ Crash(s)
    \/ AllServing

Spec == Init /\ [][Next]_vars

(* A server that has been started goes on; nobody has to start one.        *)
FairSpec == Spec /\ \A s \in Servers : WF_vars(Step(s))

-----------------------------------------------------------------------------
(* Properties. *)

(* No group and no user of the configuration gets a second row, although   *)
(* registerGroup and registerUserID test and insert in separate            *)
(* statements, a failed test counts as "not there", and only MySQL's users *)
(* table has a key that forbids it.                                        *)
RowsUnique ==
    /\ \A g \in Groups : groups[g] <= 1
    /\ \A u \in BootUsers : users[u].fresh + users[u].limited <= 1

(* A group is in the table only when the group above it is: a crash leaves *)
(* no group whose parent_id names nothing. (For one SQLite server: of two, *)
(* one may begin to fill tables that the other has not all created.)       *)
ParentsFirst ==
    \A g \in Groups :
        groups[g] > 0 /\ Parent[g] # None => groups[Parent[g]] > 0

(* A user is in the table only when the group its type demands is, however *)
(* many servers fill the tables at once and whichever statements fail.     *)
UsersGrouped ==
    \A u \in BootUsers :
        users[u].fresh + users[u].limited > 0 /\ GroupOf[u] # None =>
            groups[GroupOf[u]] > 0

(* Every group and user of the configuration has a row.                    *)
Filled ==
    /\ \A g \in Groups : groups[g] > 0
    /\ \A u \in BootUsers : users[u].fresh + users[u].limited > 0

(* A server that listens on a database with all its tables has all groups  *)
(* and users of the configuration, however often earlier starts were       *)
(* killed while they filled it.  A user without a limit is left behind by  *)
(* a start that was killed between its INSERT and its UPDATE, at most one  *)
(* by each. (For one SQLite server, as above, whose statements do not      *)
(* fail: without a crash, a failed UPDATE leaves one behind too.)          *)
ServingFilled ==
    \A s \in Servers : pc[s] = "serving" /\ tables = Tables =>
        /\ Filled
        /\ Cardinality({u \in BootUsers : users[u].fresh > 0}) <= crashes

(* A start after the last crash fills a database that has its tables.      *)
RestartFills ==
    \A s \in Servers :
        (pc[s] = "probe" /\ tables = Tables /\ crashes = MaxCrashes) ~> Filled
=============================================================================

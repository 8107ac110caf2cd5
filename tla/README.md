# A TLA+ model of COP

COP ("fabric-cop") is a certificate authority: users are registered by a
registrar, enroll with a one-time secret, receive certificates, and can be
revoked. This directory holds TLA+ specifications of the server (its request
handlers over their database, its commands and its start, its transaction
certificates, its LDAP registry) and of the client's commands, the TLC configurations that check them
on small instances, and TLAPS proofs of their main properties for every
instance.
`PROJECT.json` lists the components, the runs, the source lines of every
definition, the hazards and the theorems.

## The system

| Part | Source | State | Operations |
|---|---|---|---|
| Authentication | `cli/server/auth.go` | none of its own | `serveHTTP` in front of every handler: basic authentication for enroll (GetUser, Login), a signed token for the rest |
| Enroll, reenroll | `cli/server/enroll.go`, cfssl's signer | certificates table | sign a CSR, insert the certificate, answer |
| Register | `cli/server/register.go` | users, groups tables | canRegister, validateID, registerUserID |
| Revoke | `cli/server/revoke.go`, `user.go` | users, certificates tables | by serial number and AKI, or by name |
| User accessor | `cli/server/dbaccessor.go` | users, groups tables | InsertUser, UpdateField, GetUser, Login, group operations |
| Certificate accessor | `cli/server/certdbaccessor.go` | certificates table | InsertCertificate, RevokeCertificatesByID, RevokeCertificate |
| Start-up | `server.go`, `factory.go`, `bootstrap.go`, `dbutil/dbutil.go` | database, tables, bootstrap rows | test for the database, create it, fill it |
| Transaction certificates | `cli/server/tcert.go`, `lib/tcert/` | key cache, root key | GetKey, GetBatch, padding, random numbers |
| LDAP registry | `cli/server/ldap/client.go` | shared administrator connection | GetUser, Login |
| Client library | `lib/` | key and certificate files | Enroll, Reenroll, Register, Revoke, store and load an identity |
| Server commands | `cli/server/init.go`, `config.go`, `server.go`, `factory.go` | certificate and key files, globals of the process | init writes a key pair; start loads it, registers the endpoints and listens |
| Secrets | `util/util.go` | one random source | RandomString |
| Other commands and utilities | `cli/`, `util/`, `api/`, `idp/` | none that changes | parsing, encoding, file helpers |

The parts meet in the database. Every HTTP request runs in a goroutine of its
own, several servers may share one database, and no handler uses a transaction
or a lock: between any two statements of a request, statements of others may
run. A request may also end between two of its statements, because a statement
fails, the server stops or the connection is lost; what it wrote stays.

What is hard about it:

* `Login` increments a count that it read in an earlier statement.
* `registerUserID` tests for an id, inserts it, and sets its limit, in three
  statements. A new row has `max_enrollments` 0, which means *unlimited*.
* A failed `GetUser` is taken by `registerUserID` to mean that the id is free.
* The three databases differ. Only MySQL has a primary key on `users.id`, and
  only MySQL's driver counts *changed* rather than matched rows.
* `revoke` disables the user and revokes the certificates in two statements,
  while enrollments of the user may be anywhere between login and answer.
* The `state` column is a count of logins and, with -1, a disabled flag.
* Token authentication and the certificates table know nothing of each other.
* A server may be killed while it creates or fills its database, and two servers
  may start on one database.
* Requests share a Go map (the key tree), a connection (LDAP) and a random source
  (the secrets) without a lock.
* start opens the CA's files up to three times, for the signer, for tcert and for
  TLS, while init may be rewriting them; and handlers use globals that some
  configurations leave nil.
* The client's identity is two files that are written one after the other.

## Modules

| Module | Contents |
|---|---|
| `CopTables` | what each SQL statement does to the rows of a table, and the tests `Login` makes on a row |
| `CopEnrollment` | what clients are promised about secrets and certificates, without tables or statements |
| `CopServer` | the requests, the handlers as processes, the specification, the properties |
| `MCCopServer` | constants for TLC |
| `CopServerProofs` | type and control invariant; the life of a certificate (recording, revocation) and of a secret (limits, counts, single registration) |
| `CopServerLimitProofs` | when the count of logins and the limit on enrollments are exact, and that `CopServer` implements `CopEnrollment` |
| `CopStartup`, `MCCopStartup`, `CopStartupProofs` | servers that start on a database, with crashes |
| `CopKeyTree`, `MCCopKeyTree`, `CopKeyTreeProofs` | tcert requests and the key cache they share |
| `CopServe`, `MCCopServe`, `CopServeProofs` | the init and start commands, and the requests that depend on what they load |
| `CopTCert` | one batch of transaction certificates |
| `CopCrypt` | padding, unpadding and fixed-length numbers |
| `CopRandom` | the letters of a secret and the random source they come from |
| `CopAlgorithmsProofs` | the theorems about the last three |
| `CopClient`, `CopClientProofs` | the client commands and the identity on disk |
| `CopLdap`, `CopLdapProofs` | the connections of the LDAP registry |
| `MCCopParts` | constants for `CopTCert`, `CopCrypt`, `CopRandom`, `CopClient` and `CopLdap`, which share no state: each behaviour exercises one of the five |

`CopServer` uses `CopTables` and instantiates `CopEnrollment`; the other modules
stand for themselves. `CopServe` has the start from the command line to listening and
leaves the filling of the database to `CopStartup`; `CopStartup` ends where `CopServer` begins, with
a filled database; `CopClient` keeps of the server only whether it accepts a
token and signs; `CopTCert` keeps of `CopKeyTree` only that `GetKey` may fail.

### State of `CopServer`

* `users` is the users table: a *set* of rows per id, because SQLite and
  Postgres allow several. A row is told apart by its secret. It keeps the
  secret, the count, the limit and the attributes the handlers test (the
  registrar's roles, `hf.Revoker`).
* `certs` is the certificates table, by serial number: owner and status.
* `pc`, `req`, `snap`, `out` are a goroutine's next statement, its request, the
  row `GetUser` returned, and the value it will answer with.
* `known` and `held` are the secrets and certificates clients have received.
  Clients use only those, apart from wrong passwords.
* `logins`, `disabled`, `prior`, `enrolled` are history: they record what
  happened and are read by properties only.

### Actions

There is one action per database statement, and the code between two statements
belongs to one of them.

| Action | Code |
|---|---|
| `Receive` | a client sends a request; `serveHTTP` looks at the header |
| `GetUser`, `Login` | `auth.go` 105 and 109, `DBUser.Login` |
| `VerifyToken` | `auth.go` 119-142; cfssl's answer about CRL and OCSP is free |
| `Sign` | `signHandler.Handle` and cfssl's signer with its INSERT |
| `CanRegister`, `CheckUser`, `InsertUser`, `SetMaxEnrollments` | `RegisterUser` in its order |
| `HasAttribute`, `RevokeSerial`, `RevokeGetUser`, `Disable`, `RevokeCerts` | `revokeHandler.Handle` |
| `Respond` | the answer is written and arrives |
| `Abort` | a request ends where it is (only when `Faults`) |

Groups do not change while the server runs, so whether a group exists is part of
a register request. X.509 contents, encodings, messages and logging are left
out. Secrets are drawn distinct; `CopRandom` shows under which condition the
random source gives every secret words of its own.
`ClientHeaders` says which headers clients send: the ones the client library sends
(`LibraryHeaders` in `MCCopServer`), or any of them to any endpoint (`AnyHeaders`).
A header is missing, of basic authentication, or of any other kind (`"token"`,
whether or not it holds a valid token: `VerifyToken` may refuse it). The theorems are
for every choice of `ClientHeaders`. The name in an enroll request's header (`login`)
and the one in its CSR (`name`) are separate fields, since nothing compares them; the
registrar of a register request is the caller its body names, or none.

### The abstract service

`CopEnrollment` has the pairs of id and secret that clients were told, the logins
of each id, the enrollments that have logged in and not yet been signed, and the
certificates. Its actions are `Register` (an id gets a secret of its own, the only
one if `OneSecret`), `Login` (within the limit, if there is one, until the id is
disabled), `Enroll` (one certificate for a login, for any id), `EnrollOpenly`
(without a login, unless `LoginRequired`), `Reenroll`, `RevokeSerial`, `RevokeName`,
`Disable`, and `Lose` for a login that comes to nothing. `CopServer` maps `known` to the
pairs, `certs` to the certificates, and the requests that stand at `sign` after a
login to the sessions (`LoggedIn`); `logins` and `disabled` are its own history.
All other statements are stuttering steps of the service.

Three of its promises depend on the configuration, and the mapping states them where
it keeps them. `LoginRequired`: authentication is on and no enroll request has a
header other than that of basic authentication. `OneSecret` is `OneRowPerId`: `users.id` is a primary key (MySQL),
or requests are served one at a time and no statement fails. The limit is the
configured one if `LimitReliable`: requests are served one at a time, or the
database is MySQL and the limit is one. Elsewhere the service has no limit, may
give an id a second secret, or enrolls without a login, and its other promises
remain: an enroll request that does log in gets its one certificate by its login.

### The other modules

**`CopServe`.** The four files, the next step of an init command, and the server
process as one record of its globals. A file holds the number of the key pair its
contents belong to, or `None` when it is missing or half written; `WriteFile`
empties and fills a file in two steps, and `InitEnds` kills the command in between.
`configInit`, `InitUserRegistry`, `SignerCert` and `SignerFromConfigAndDB`,
`LoadMgrKey` and `LoadMgrCert`, `registerHandlers`, `Listen` and
`ListenAndServeTLS` are the start in its order, with one step for each file read.
A signer signs locally or, for the profiles in `remotes`, has a remote server sign;
one that is remote for every profile reads no file and records nothing.
`Stop` ends the server at any point. `Sign`, `RevokeSerial` and `RevokeName` are
requests as far as they depend on the globals; a nil one is a panic, which
`net/http` recovers. `disturbed` and `complete` are history: whether init wrote
during the start, and whether the last init command wrote both files.

**`CopRandom`.** The words the source has produced, each as its bits, and per handler
the bits and letters it has. `EnterSource` and `LeaveSource` are one call of `Int63`; a handler
inside the source together with another may be given the other's word. `TakeLetter`
is one round of the loop. `raced` is history: whether two handlers were ever inside
the source at once.

**`CopStartup`.** The database (`exists`, `tables`), its rows (`groups`, and per
user the rows without and with a limit), and per server its next statement.
One action per statement: `Probe`, `CreateDatabase`, `CreateTable`, the walk over
the groups (`PopulateGroups`, `InsertGroup`) and over the users (`PopulateUsers`,
`CheckUser`, `InsertUser`, `SetMaxEnrollments`), then listening. `Driver` selects
SQLite, Postgres or MySQL: what an existing database, table or row does to the
statement, and which errors are dropped. `Crash` ends a server at any point.

**`CopKeyTree`.** The map of derived keys under joined paths, and goroutines
that walk up their path until they find a key (`LookUp`) and down again
(`Store`). An element of a path is the sequence of its pieces between slashes, so that
`Join` may take two paths to one string: `newDBUser` splits a group at its slashes, but
the LDAP client splits a DN at its commas. A key is the path of its node under its root key, since derivation is
taken to be one-to-one. Overlapping operations on a Go map are undefined; with
`Racing` a read may miss an entry (`LookUp`) or panic (`Panic`), and two inserts
may leave the key of one under the path of the other (`StoreRace`, counted in
the history variable `collisions`, which is where the properties stop). `Restart` draws a new root key.

**`CopTCert`.** One request: `getUserInfo` looks up one of its names and adds the
attribute if the user has it, and fails or goes on when all are looked up, `Size` decides
on the number and the validity period, and each `Issue` makes a certificate with
its extensions and keys, or ends the batch. A key is named by the serial number
and the label it is derived from. The header is a function from names to positions;
how it is written out, and names that contain its separators, are left out.

**`CopCrypt`.** PKCS7 padding on sequences of bytes for any block size; a
ciphertext is its key and its text, and another key yields any text of the same
length. `GenNumber` takes the drawn number as an argument. An empty plaintext is
not decrypted: encryption never makes one.

**`CopClient`.** Two files, the keys made and certified, and commands as
processes. A file is truncated and written in two steps, as `ioutil.WriteFile`
does. A command may fail at any step before it stores, or between the steps of a
store (killed, or the disk is full). A certificate is named by its key, and a
token is accepted when the key fits the certificate. `clientOverlapped` and
`interrupted` are history: whether two commands ever ran at once, and whether a
store was ever cut short.

**`CopLdap`.** `AdminConn`, the state of each connection, and per request the
connection in its local variable. `Lose` drops a connection. `ldapOverlapped` and
`failures` are history: whether two requests ever ran at once, and how many
binds failed.

## Runs

Passing:

| Run | Instance | What it shows |
|---|---|---|
| `server_safety` | SQLite or Postgres, 2 processes, 4 requests of every kind with any header, limit 1, failures | types; `LimitSetBeforeUse`, `CounterWithinLimit`, `DeliveredRecorded`, `EarlierCertsRevoked`, `EnrollmentsCounted`, `RevocationIsFinal`; the handlers implement `CopEnrollment` without its limit, with more than one secret per id and with enrollments nobody logged in for (`ImplementsEnrollment`) |
| `mysql_exact` | MySQL, 2 processes, 4 requests of every kind with the library's headers, limit 1, failures | an id is answered with one secret only (`RegisteredOnce`); for users that are not disabled `state` is the number of logins (`StateCountsLogins`) and the limit holds (`EnrollLimit`); the handlers implement `CopEnrollment` with all its promises (`ImplementsEnrollment`) |
| `revoke_liveness` | 2 processes, 3 requests, no failures | a revocation that reaches `Disable` gets its certificates revoked (`RevocationCompletes`) |
| `sqlite_restart` | SQLite, 1 server, 3 crashes | types; a group never lacks its parent (`ParentsFirst`); a server that listens on complete tables has filled them, and each crash has left at most one user without a limit (`ServingFilled`); a start after the last crash fills them (`RestartFills`) |
| `shared_start` | MySQL, 2 servers, 2 crashes, failures | no second row of a group or user (`RowsUnique`); no user without the group its type demands (`UsersGrouped`) |
| `tcert_keys` | 2 requests, nested and separate paths and one that joins as another does, failures, overlapping map operations, 1 restart | until inserts collide, keys of paths with entries of their own open the subtree of their node and nothing else (`SubtreeKeys`), and any key is that of a node with the same joined path (`NamesakeKeys`); GetKey's recursion ends (`GetKeyReturns`) |
| `separate_parts`: batches | up to 3 names, counts and periods around their limits | the batch is complete (`BatchComplete`) and its contents can be found and opened (`AttributesReadable`, `EnrollmentIDReadable`) |
| padding | blocks of 2, texts of up to 3 bytes, numbers of 1 digit | `RoundTrip`, `UnpaddingExact`, `FixedLength` |
| secrets | 2 handlers, 3 letters from words of 5 bits | each letter comes from random bits of its own (`LettersFromDraws`), and until handlers meet in the source no two secrets share a word (`DrawsDisjoint`) |
| client | 2 commands, 3 keys, overlaps, refusals, lost answers, interrupted stores | what is on disk was certified (`StoredKeyCertified`); until commands overlap or a store is interrupted, the stored pair fits (`StoredPairMatches`) and authenticates (`StoredKeyAuthenticates`); until commands overlap, success means that both files are the new ones (`SuccessMeansStored`) |
| LDAP | 3 requests, 3 connections, overlaps, failed binds, losses | no search on a nil connection (`SearchHasConn`); until requests overlap, only a failed bind leaves a connection open (`NoStrayConns`) |
| `server_start` | 2 init commands, 2 starts with any of 13 configurations, 1 stop, 2 requests | an undisturbed start on the files of a complete init uses one key pair everywhere (`OneKeyPair`) and comes to listen (`SoundStartServes`); the certificates table has exactly what was signed locally while the registry was the database (`IssuedRecorded`), and with a signer no request meets a nil global (`NothingNil`) |

Violations, each of something a comment, a message or a test of the repository
says (quoted in `PROJECT.json`):

| Run | What happens |
|---|---|
| `concurrent_limit` | two logins read the same count and both succeed at the limit |
| `duplicate_register` | without a primary key two overlapping registrations of an id succeed |
| `enroll_header` | an enroll request whose header is not of basic authentication is signed without a login |
| `key_promise` | two different paths that join to one string are given one key |

`mysql_exact` and `LimitIsExact` below belong together: they say when the limit
on enrollments can be relied on (for a user that is not disabled, with one request
at a time on any database, or on MySQL with a limit of one), and `concurrent_limit`
shows what happens otherwise.

### What the code does not promise

Some properties one would expect do not hold, and the models keep the behaviour
that breaks them. The properties above are stated around it:

* A disabled user that logs in counts on from -1, and is no longer disabled.
* The token check does not read the certificates table.
* An enroll request with a header that is neither missing nor of basic authentication
  reaches the signer without a login, and the name in the CSR need not be the one that
  logged in. `EnrollmentsCounted` therefore speaks of who logged in (`Payer`).
* The registrar of a register request is whoever the body names. When it names nobody,
  `canRegister` is not asked; nothing compares the name with the token's certificate.
* Affiliation paths that join to one string share a key; `SubtreeKeys` speaks of the
  others, whatever paths of that kind there are.
* What a remote server signs, or what is signed with the LDAP registry, is not in the
  certificates table.
* A SQLite database that exists is bootstrapped again. Of two SQLite
  servers that start together, one may begin to fill tables the other has not
  all created: its failed INSERTs are dropped, a group may lack its parent, and
  the server listens on tables that are not filled. Hence one server in
  `sqlite_restart`.
* On Postgres and MySQL a server killed during the bootstrap leaves a database
  that no later start fills.
* A crash between a bootstrap user's INSERT and its limit leaves it unlimited.
* Colliding inserts into the key map give a path the key of another; a restart
  changes every key.
* An encrypted attribute called `enrollmentId` takes the place of the enrollment
  id's key.
* A store that is interrupted, or two that overlap, leave a key and a certificate
  that do not belong together.
* Two first LDAP requests open two administrator connections, and one stays open.
  A connection whose bind fails is not closed, and an administrator connection
  that was lost is not replaced.
* Handlers that are inside the random source at once may be given the same word.
* A start while init writes may load a certificate and the key of another pair,
  or go on without a signer: then enroll and revoke end in a panic, as revoke by
  serial number does with the LDAP registry.
* A bootstrap user also stays unlimited when the UPDATE of its limit fails; hence
  no failing statements in `sqlite_restart`.

### Bounds

* *Processes.* Every hazard above is about two requests.
* *Requests* (`MaxRequests`). Four allow register, enroll, and two requests that
  overlap. When all are used and answered the model stutters (`Quiescent`), so TLC's
  deadlock check stays on.
* *Secrets.* One for the bootstrap user and two to hand out. An `InsertUser`
  that finds none left waits, and can be aborted. `duplicate_register` uses both.
* *Serials.* The bootstrap user's and three to issue. A `Sign` that finds none left
  waits, and can be aborted. `enroll_header` has one for every request.
* *Types.* `mysql_exact` has a type that demands a group and one that does not, of which
  the bootstrap user may register the first only; `server_safety`, which has all
  headers, has the first.
* *Symmetry.* Processes, secrets and serials other than the bootstrap user's are
  interchangeable; the liveness runs use no symmetry.
* *Start-up.* Four groups on three levels exercise the order of the walk; one
  user with a group and one without exercise `validateID`. Two servers race;
  three crashes hit three different statements of one start.
* *Key tree.* A path, two below it, and one beside it that joins as one of those two
  does. One collision of inserts and one
  restart; a restart forgets the history that `SubtreeKeys` reads.
  `key_promise` needs one request at a time and no failure.
* *Batches.* Three names of which the user has two, so that a name may be
  repeated, unknown, or all may be asked for; counts from 0 to one above the
  largest batch, periods from -1 to one above the configured one.
* *Padding.* Texts shorter than, as long as, and longer than a block, over bytes
  that include every padding value and one too large.
* *Client.* Three keys allow an enrollment, an interrupted one and one more.
* *Secrets' letters.* Words of two letters and a bit left over, with a rejected index
  in each place; three letters need a second word. A handler that has used its two
  words stops.
* *Commands.* Two init commands allow a pair to be overwritten during a start, two
  starts a change of configuration. The configurations differ from that of
  `testdata/cop.json` in one respect each.
* *LDAP.* Connections are never reused, so their number bounds the logins; three
  serve two administrators that race and a login, or an administrator and two logins.

### Fairness

`FairSpec` of `CopServer` assumes weak fairness of each process's steps: the Go
runtime schedules every goroutine, and a database statement returns. It assumes
nothing of clients, and `Abort` is disabled in the liveness run: after a failure
nothing in the code resumes a revocation.

In `CopStartup` a server that was started goes on; nobody has to start or restart
one, which is why `RestartFills` begins with a start. In `CopKeyTree` every
goroutine is scheduled; neither requests nor the panic of a map read are assumed
to happen. In `CopServe` a server that was started goes on (`Step`); init commands,
starts, stops and requests need not happen.

## Proofs

All proofs about `CopServer` are for arbitrary sets of processes, users, secrets
and serials, any limit, any headers, and with or without failures, from
`ConstantsAssumption` alone (the bootstrap user's values exist, `None` is none of
the values). Those about the other modules rest on the assumption each module
states about its constants.

* `TypeCorrect`, `ControlCorrect`. `TypeOK` is not inductive: `Login` reads
  `snap[p].state`, which only a process that has been through `GetUser` has, and
  `Respond` hands on `out[p]`. `TypeInv` adds which kind of request may be at
  which statement and what its variables hold there.
* `LimitBeforeUse`, `CounterBounded`, `RegistersOnce`. The count stays
  within the limit because no row is used before its limit is set, and that in
  turn because a secret leaves the server only after `SetMaxEnrollments`.
  `SecretInv` says so: secrets identify rows; a secret that is out, or about to
  be, has a row with the limit; and a login in progress whose password matches
  has read a row with the limit. `RegistersOnce` assumes `OneRowPerId`: with a
  primary key the INSERT is refused, and when requests come one at a time and
  `GetUser` fails only for a missing user, the id is still free at the INSERT
  (`FreeInv`). `duplicate_register` shows that some such assumption is needed.
* `DeliveredAreRecorded`, `EarlierAreRevoked`, `RevocationStays`. `CertInv` says
  that a certificate about to be answered is recorded, and that the certificates
  present when a revocation began stay recorded under its name until its UPDATE
  revokes them. `RevocationStays` is an action property and follows from
  `FreshSerial`.
* `LimitIsExact` assumes `LimitReliable`, `StateIsLoginCount` also `OneRowPerId`;
  both speak of users that are not disabled. `CountInv` says that the count in the
  only row of a user is the number of logins, also before the row gets its limit,
  that the logins are within the limit, and that the row a login has read is still
  there (one process) or has a count that was never negative (limit one). A user
  with two rows, which a failed `GetUser` can make even when requests come one at a
  time, cannot log in: the UPDATE of its count affects both rows. With a limit of
  one a login that is late writes 1 over 1, MySQL reports no changed row, and the
  login fails.
* `EnrollmentsArePaidFor` assumes nothing: any headers, with or without
  authentication, any database. The certificates an id's logins got by enrolling, with
  the requests of that login that stand at `sign`, are at most its logins: `Login`
  counts before the request reaches `sign`, a request without a login has no `Payer`,
  and `Sign` turns one request into one certificate with a fresh serial number
  (`EnrollInv`).
* `ServerImplementsEnrollment` assumes nothing either. Each statement maps to one step
  of `CopEnrollment` or to none: where the service has a limit, a login is within it
  because the count after it is (`CountInv`); the secret that `Respond` tells is no
  other id's, and where rows are unique the only one of its id (`SecretInv`); a
  revocation by name is of recorded certificates; and where a login is
  required, an enroll request stands at `sign` only with one (`LoggedInToSign`).
* `TypeCorrect`, `UsersHaveGroups`, `RowsStayUnique` of `CopStartup`, for any
  number of servers and crashes. A user is inserted only after its group was
  found, and rows are never deleted, so the invariant adds that a server past
  `validateID` has seen the group. `RowsStayUnique` assumes Postgres or MySQL:
  CREATE DATABASE succeeds once, so at most one server ever fills the tables, and
  it deals with each group and user once.
* `ParentsComeFirst` of `CopStartup` assumes that no statement fails and, for SQLite,
  that there is one server. On Postgres and MySQL only the server whose CREATE
  DATABASE succeeded fills the tables, so under each driver at most one does
  (`OneFiller`). `GroupsFilled` says that the groups it has dealt with are in the
  table, and that the parent of the group it inserts is one of them.
* `ServingIsFilled` of `CopStartup` assumes one SQLite server and no failing
  statements. `UsersFilled` says that the users the server has dealt with are in the
  table and that a server that serves has dealt with all, and `LimitInv` counts the
  users without a limit against the crashes: apart from the user the server
  is at, each was left by a crash of its own.
* `KeysFollowTree` of `CopKeyTree`, for any paths. A path is `Distinct` when no other
  node has the joined string of one of its prefixes. `KeyInv` says that each entry of
  the map, and the key each call holds, has the current root and is the key of its
  path if that is `Distinct` (`KeyOf`), as long as no inserts have collided
  (`CollisionInv`). Prefixes of a `Distinct` path are `Distinct`, so its key is only
  ever derived from such keys; what other paths put into the map does not matter.
* `UnpadPad`, `DecryptionRestores`, `UnpaddingIsExact`, `NumbersHaveLength` of
  `CopCrypt`, for any block size and text and any drawn number. `UnpaddingIsExact`
  is the converse of `UnpadPad`, for any decrypted text (`PadUnpad`). The last takes the upper bound to be
  ten times the lower one, because powers are beyond the provers.
* `BatchesAreComplete`, `AttributesAreReadable`, `EnrollmentIDsAreReadable` of
  `CopTCert`, for any names, attributes, batch size and period. `AttrsInv` says that
  the attributes are those of the names looked up so far, and that every name has a
  last position, which is what the header points to. `BatchInv` says that
  the certificates are the ones the loop is meant to make, in order. `ShapeOf` gives
  the list of extensions by position, from which the object identifiers are distinct
  (`FoundById`), so that looking one up finds its extension.
* `DrawsStayDisjoint` of `CopRandom`, for any number of handlers. `SourceInv` says that
  until two handlers are inside the source at once, the one inside has met no other,
  and every word drawn so far is one the source has produced; so the next word is new.
* `LettersAreDrawnGroups` of `CopRandom`, for any word and letter width, any alphabet
  and any interleaving of the handlers, collisions in the source included.
  `LettersFromDraws` speaks only of finished strings. `LettersInv` adds, for a
  handler at any point, which groups it has consumed, that its cache is the rest of
  its last word shifted down (`CacheLeft`), and that its letters are those in the
  groups consumed (`LettersSoFar`). What number a group of bits is stays unexpanded:
  the proof needs only that equal bits have equal numbers.
* `StoredIsCertified` of `CopClient` for any overlapping and interrupted
  commands: a command that stores has a certified key (`NewInv`). `PairsMatch`
  and `StoredAuthenticates` hold until commands overlap or a store is
  interrupted; `OrderInv`, the part of `PairInv` under that condition, adds what
  the files hold between the writes and that what a command has loaded is still
  what the files hold. `SuccessIsStored` holds until commands overlap, also after
  interrupted stores: `WrittenInv` says which files a command in its store has
  replaced.
* `SearchesHaveConn`, `StrayConnsAreFailures` of `CopLdap`, for any number of requests
  and connections. `AdminConn` is set before a search and never cleared. A
  connection is stray when neither `AdminConn` nor a request refers to it; while
  requests come one at a time, only a failed bind makes one (`AloneInv`).
* `ServesOneKeyPair`, `RecordedWhatWasSignedHere`, `NoGlobalIsNil` of `CopServe`, for any
  set of configurations and any init commands, kills, starts and requests.
  `FilesInv` says that after a complete init both files hold one pair, `StartInv`
  that an undisturbed start has loaded that pair wherever it has loaded one yet,
  `GlobalsInv` which globals are set in which phase of the start, and `RecordInv` that
  serial numbers are new, so that what is not recorded when it is issued never is.

Only model-checked, because they are liveness under fairness: `RevocationCompletes`,
`RestartFills`, `GetKeyReturns`, `SoundStartServes`; and because the joining of a path
of any length is a recursion: `NamesakeKeys`. Every other invariant and every
action property of the passing runs, and the refinement, is proved.

Liveness under fairness, induction over data and operators declared `RECURSIVE`
are beyond the prover; the modules with theorems use none of the last.

## Not modelled

* `DeleteUser`, `UpdateUser`, `DeleteGroup`, `GetField` and `GetRootGroup` of the
  user accessor: no handler and no step of the start calls them. A contract of one
  record per user would not hold of the accessor by itself: on SQLite and Postgres
  `InsertUser` accepts a second row, and `UpdateUser` and `Login` then write both
  rows and report an error.
* The methods of the certificate accessor that pass through to cfssl and that
  nothing here calls.
* A statement that commits and whose acknowledgement is lost: a statement that fails
  has written nothing. Such a login would be counted although it failed.
* What a repeated secret does to `CopServer`, whose rows are told apart by their
  secret.
* `CopClient` and `CopServer` in one model, with a revocation while a client holds
  a certificate: the token check reads nothing that a revocation writes, so neither
  side would see the other.
* Reading of key and certificate files in `lib/tcert`, the client's TLS options
  and addresses, and the methods that return NotImplemented.
* The elliptic-curve, AES, HMAC and X.509 computations, which are out of reach and
  taken to be one-to-one.
* Argument and configuration syntax, type and interface declarations, and logging,
  which have no state that changes.

Four hazards in `PROJECT.json` have a note in place of a property, because the code
does what they describe: the count that doubles as the disabled flag, the token
check, the root key that every start draws anew, and the LDAP connection that is
not replaced.

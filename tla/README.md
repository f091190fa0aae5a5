# A formal model of the Glimpse API

Glimpse (`rpitv/glimpse-api`) is the GraphQL API of RPI TV: a NestJS server over
PostgreSQL (through Prisma), Redis (sessions) and RabbitMQ (video streams). This
directory holds TLA+ modules translated from its source, configurations that
model-check them with TLC, and proofs that TLAPS checks. Paths below are relative
to the repository (`src/...`). `PROJECT.json` lists components, runs, mutants,
hazards, findings and theorems, and maps every definition to the lines it
translates.

How to run (in this directory): `tlc -config X.cfg MCY` for a run,
`tlapm Y_proofs.tla` for the proofs. Which module goes with which configuration
is in the table of runs.

## 1. The system

### Components

| Component (source) | State | Operations | Modelled in |
|---|---|---|---|
| Request transaction: `PrismaPlugin`, `PrismaService` (`src/prisma/`) | one interactive transaction per GraphQL operation, `req.prismaTx`, the promise that keeps it open, a 2000 ms timer, the pool's connections | open on `requestDidStart`, end on `willSendResponse`, time out, be refused, commit | `RequestTx` |
| Mutations and queries of the 28 resolver classes (`src/types/**`) | rows and audit entries | findMany, findOne, create, update, delete, count; streams, contact submissions and `permissionsFor` differ | `MutationPrograms`, `Resolvers` (what each runs), `RequestTx` (under a transaction), `RowHistory` (on shared rows), `ReadRules` (queries) |
| Audit log (`genAuditLog`, `src/types/audit_log/`) | one entry per change, with the old and the new value | written by every mutation after its change | `RequestTx`, `RowHistory` |
| Permission generation (`CaslPlugin`, `CaslAbilityFactory`) | `req.permissions` | three queries for a user, two for a guest | `Permissions`; its place among the plugins in `RequestTx` |
| Rule evaluation (CASL) | a list of rules, in order | `can(action, subject or row, field)`, `accessibleBy` | `Ability` |
| Read rules: `RuleDirective`, `ReadMany`, `ReadOne`, `Count`, `CaslHelper` | `req.passed`; the rows on their way out | questions before the resolver, questions and masking after it | `ReadRules` |
| Write rules: `Create`, `Update`, `Delete` handlers | - | the same around mutations | steps of `RequestTx`, checks of `RowHistory` |
| `permissionsFor` (`user_permission.resolver.ts`, its rule handler) | - | permissions of any user, over a second connection | step `outside` of `RequestTx` |
| Relation fields (`@ResolveField` methods) and the schema (`prisma/schema.prisma`) | foreign keys | one statement for each row of the parent | `Schema`, `Resolvers`, `ReadRules` |
| Streams (`stream.resolver.ts`) | a list in memory with a time stamp for each element, the connection to RabbitMQ | consume a report, sweep every 10 s, connect and retry, list and page, create, delete | `Streams`, `LiveStreams` |
| Sessions (`src/auth/`, configured in `main.ts`) | the session in Redis, the cookie, `req.user`, `req.permissions`, the access log | login (local, Discord), logout, deserialisation, saving at the end of a request | `Session` |
| OAuth redirect (`auth.controller.ts`, `DiscordAuthGuard`) | state in the session | start, callback | `Session`, but for the choice of the URL |
| HTTP interceptors (`prisma.interceptor.ts`, `casl.interceptor.ts`) | as the plugins | as the plugins, for the one plain route | `Session` (`Intercept`, `TxRefused`) |
| Command line tool (`cli.ts`) | - | `groups`, `user`, `exit`; the default permissions | `Cli`, `DefaultRules` |
| Complexity plugin, validators, DTOs, entities, exception filter, wiring | none | - | no: they keep no state; validation is one step of the programs, with both outcomes |

### How they interact

One GraphQL operation goes through these parts in this order:

1. `PrismaPlugin.requestDidStart` asks the pool for a connection and opens a
   transaction; the callback stores it in `req.prismaTx` and then waits on a
   promise. `CaslPlugin.requestDidStart` queries the permissions over *another*
   connection of the same pool, unless `req.permissions` is there already. Nothing in
   this code orders the two.
2. `RuleDirective` wraps each field: the rule handlers ask `req.permissions`
   about the subject type and the selected fields, then call the resolver.
3. The resolver validates, finds the row (narrowed by `accessibleBy`), checks
   it, writes, and adds an audit entry, each with an `await` of its own on
   `ctx.req.prismaTx`, which is read again each time.
4. The handler asks again, about the returned rows; lists are masked.
5. `willSendResponse` resolves the promise; the callback returns and Prisma sends
   COMMIT while the response is already on its way.

Shared between operations: the connection pool, the rows of the database and the
locks on them, the process itself (an unhandled rejection ends it), and, for the
operations of one HTTP array, the request object with its `prismaTx` and
`permissions`. Requests of one browser share its session: each loads a copy when it arrives
and, if it has changed it, saves that copy when it answers. All requests share the list of
streams and its very elements. The command line tool shares the database with a running
server and finds groups there by id and by name, as the server finds its Guest group.

### What is hard about it

- **Interleaving.** Every `await` lets other operations run. A row that was found
  and checked may be changed or gone before it is written; permissions may be
  revoked between the queries that collect them; a document's fields are resolved by
  separate statements.
- **Failure between two steps.** A statement may fail, the transaction may time
  out, the process may exit between a change and its audit entry, or between the
  response and the commit.
- **Resources.** Operations hold one connection and may need a second; row locks are
  held until the response.
- **Two evaluations of the same rules.** The rules are asked about the type before
  the resolver, are turned into a query for it, and are asked about each row
  after it, by three different algorithms.
- **State outside the database.** Sessions in Redis name accounts in PostgreSQL with no
  constraint between them; login and logout change session, cookie, user and permissions
  one after another. The list of streams is kept up by messages that may be late or lost.
- **Copies.** 28 resolver classes follow one template by hand; the permissions of members
  repeat those of guests by hand.

### What makes it correct

*Request transaction*: all changes of an operation are committed together or not at
all; each committed change has its audit entry; an operation's statements run in its
own transaction; every operation is answered and every connection returned; a
rejected operation changes nothing. *Audit log and rows*: the trail of a
row replays to the row; no update is lost; old values are values the row
had; nobody waits for ever. *Permissions*: what is collected while it changes was
in force at some moment and lacks nothing that was in force throughout; permissions
apply in the documented order. *Rules*: the early questions refuse nothing
the late ones allow; lists are not refused because of what the query itself found;
exactly what may not be read is masked; relations follow foreign keys. *Sessions*: a field is judged by the permissions of the user that the audit log
names, also after a login or a logout in the same document; no session outlives its account; a
session that was logged out stays so; no session of one user becomes that of another; every request settles. *Streams*: the list shows
streams that report and clears silent ones, sorted, without repetition; paging misses nothing; a
deleted stream leaves for good; the server finds its broker. *Command line tool*: one group
of each name, none missing, and logging in takes no permission away but the one that is missing today, for the
contact form.

## 2. Modules

```
MutationPrograms  <--  RequestTx  --implements-->  AtomicRequests
       ^                   ^--- MCRequestTx, RequestTx_proofs
   Resolvers  --> Schema
       ^
   ReadRules  -->  Ability  <--  Permissions  <--- MCPermissions, Permissions_proofs
       ^              ^--- Ability_proofs
       '--- MCReadRules, ReadRules_proofs
RowHistory  <--- MCRowHistory, RowHistory_proofs
Streams  --implements-->  LiveStreams        Streams  <--- MCStreams, Streams_proofs
Session  <--- MCSession, Session_proofs
DefaultRules  <--  Cli  <--- MCCli, Cli_proofs
```

**MutationPrograms.** The methods of the resolvers as sequences of awaited steps
(`rules`, `validate`, `find`, `check`, `write`, `audit`, `notify`, `outside`, `verify`).
Nine programs cover all methods of all resolvers.

**Resolvers**, **Schema.** The catalogue: for each of the 28 classes, the
program of each query and mutation, the subject whose `accessibleBy` filter narrows
its count, and its relation fields with the column they follow. Three assumptions,
evaluated by TLC in every run that extends the module, relate it to itself: each relation
follows a foreign key of the schema and each foreign key can be followed both ways; field names
are unique; every program of the catalogue is one that `RequestTx` knows, and none is unused.

**RequestTx.** One or more operations under `PrismaPlugin` and `CaslPlugin`. An
operation runs the program of its root field (`prog`, `step`); mutation documents have
several root fields, run one after the other. `txn`, `spoiled` and `pending` are the
Prisma transaction, `bound[q]` is `req.prismaTx` of request `q`, `side` the second
connection, `store` what is committed. `TxStart` is the callback at
`prisma.plugin.ts:38-43`, `Respond` is `willSendResponse`, `Commit` the end of the callback,
`TxTimeout` the timer, `TxRefused` the rejection whose handler at line 59 calls a variable
that nobody has assigned. A statement finds its transaction through `Tx(o) ==
bound[ReqOf[o]]`, as the resolvers do through `ctx.req.prismaTx`. A statement
that fails *spoils* the transaction: PostgreSQL ignores what follows and turns COMMIT
into a rollback.

**AtomicRequests.** The abstract specification: an operation performs effects nobody sees, and
in one step all of them reach the store, audited, or none ever does. `RequestTx` implements it
by `verdict` (from `txn`) and `work <- pending`.

**RowHistory.** The rows that update and delete share, under READ COMMITTED (the default; the code
never asks for another level). `View` is what a statement sees, `lock` the row lock
held from the write to the end of the transaction, `trail` the committed audit entries. `After(r, k)` is
the row after the first `k` of them as they state it, `Made(r)` as their mutations, applied one after the other, make it.
For an update without a column Prisma sends a SELECT and no UPDATE: `WriteNothing` waits for no lock and takes none.
Its audit entry says that nothing changed, of a version that may be old by then, so the trail is made of the
entries of changes, and `WriteNote` leaves this one out.

**Ability.** CASL's `can` and the query that `accessibleBy` builds, over
rules with and without conditions, field lists and inversion. The condition of a rule is
the set of rows that meet it. External code, modelled from how it is called.

**Permissions.** `getPermissions`: the queries of a user or a guest, rows in any order, with
grants, revocations and changes of membership in between. An update of a permission is a
revocation and a grant. `ever` and `always` record what has been in force since the request arrived, at
some moment and throughout; they are only observed.

**ReadRules.** One query document: the root field, and below it relation fields that are resolved
once per row, in any order, while others commit. `Permitted` stands for the questions before
the resolver, `AnswerMany`/`AnswerOne` for those after it, `Masking` for the loop that
sets columns to null *in the row that the following columns are asked about*; it is a recursive function of how
many columns it has passed, and `Masked` is the row after the last.
`FollowOne`/`FollowMany` use the parent's value as it was answered, masked or not,
as the resolvers do. `req.passed` is no variable: the rule handlers set and consume it
synchronously. Resolvers of updates and deletions set it after an `await`, and it is read when their
promise settles: promise callbacks of one turn of the event loop lie between the two,
none of which belongs to another operation's resolver, so the flag needs no step of its own.
`KeysAssumption` says of the tables what PostgreSQL enforces (finitely many rows, one of each id) and that rows have the
columns that tie them together, `MaskedRowsAssumption` that a masked row is a row the rules can be asked about. Two named
*circumstances*, in which what the code says of itself is true, are hypotheses of theorems, not assumptions:
`MaskingIsBlind` (whether a selected field may be read does not depend on
selected fields that are hidden), `IdsMayBeRead` (a selected id may be read wherever its row may).
`CursorsNeedSort` and `CountIsOfReadable` state what the comments in the code say of cursors and counts. Neither is so
(section 3), and where it is, it is a guard or an assignment of one step: no passing run and no theorem is about them.

**Streams.** The resolver with its environment. `Consume` is the consumer at
`stream.resolver.ts:32-52` (`Placed`: an update in place, or a push and a sort), `Sweep` the interval (`Kept` is
its loop of splices),
`Connect`, `ConnectFails` and `GiveUp` are `connectToRabbit`, and `ProcessExit` what an unhandled
rejection or an `error` event without a listener leads to. `createStream` and `deleteStream`
send their command (`SendStart`, `SendStop`), then write the audit entry (`AuditStream`) and commit
or not. `FindManyStream` is one request of a client that pages with `skip: 1` behind the last element it
was given; the ReadMany rule masks the elements of the list itself. `BrokerDown` drops
what is in flight; after an orderly shutdown the server stays `deaf`. Time passes in units: `Tick` ages the time
stamps, and `quiet` observes how long a stream has really been silent.

**LiveStreams.** The abstract specification: a set of shown streams and how long each has been
silent; a report shows a stream, only those silent for longer than `Silence` are cleared, and they are cleared in the
end. `Streams` implements it by `shown <- Listed`, `silent <- quiet`.

**Session.** Requests with their copies of the session (`holds`), user and permissions, against
`store` (Redis), `cookie` and the tables `accounts` and `logged`. A request is `deserialize`d, gets its
permissions (`GeneratePermissions`), resolves its fields one after the other (`Act`; login: `FindUser`,
`LogAccess`, `LogIn`, `Regenerate`, `SaveLogin`, `LoggedIn`; logout: `LogOut`, `RegenerateEmpty`, `Repermit`) and
answers (`Respond`), saving its session only if it has changed it, as `resave: false` says. A call of the store
may fail in a login, in a logout or at the end (`LoginFault`, `LogoutFault`, `RespondFault`), and is then taken to have had
no effect. express-session counts a session as saved (`saved`) before it asks the store. A save that fails in a logout is
therefore not repeated at the end: the field is an error, Redis keeps the user, and his cookie is sent again.
The Discord
route runs `Authorize` on the way out and `FindDiscordUser` on the way back; a wrong state or a code that Discord does not take ends it there. `Intercept` is
the interceptor's transaction around it. `ended` observes which session ids a logout has ended.
Accounts are created before the behaviour starts and may be deleted in it, unless the access log refers to them.

**Cli**, **DefaultRules.** Runs of the tool as sequences of statements: `groups` looks each of its ids
up and inserts what is missing, `user` counts the users, finds the Admin group, asks, and inserts. A run may be interrupted between
any two. The server creates groups from the sequence, which still counts from 1, renames
and deletes them; it is taken not to give a group one of the three names. `DefaultRules` transcribes
the three lists of permissions.

Operators whose name ends in `_Bug` are wrong forms of the definition they precede. No
specification uses them; replacing the definition by its wrong form must violate the property
that `PROJECT.json` pairs with it.

## 3. Runs

| Run | Question | Result |
|---|---|---|
| `requesttx` (MCRequestTx, RequestTx.cfg) | Is each operation atomic, audited, in its own transaction, never acknowledged after a failed statement, never asked about without permissions? | holds |
| `requesttx_liveness` (RequestTxLiveness.cfg) | Does every operation end and every connection return, though operations hold one connection while they wait for another? | holds |
| `rowhistory` (MCRowHistory, RowHistory.cfg) | Do three operations on two rows leave a trail that replays to the rows, and does everyone get on? | holds |
| `permissions` (MCPermissions, Permissions.cfg) | Are the permissions collected those in force, and do early questions agree with late ones? | holds |
| `readrules` (MCReadRules, ReadRules.cfg) | Are lists, masks and relations right, for rules without conditions on masked columns and with readable ids? | holds |
| `streams` (MCStreams, Streams.cfg) | Does the list implement `LiveStreams`, stay sorted, page exactly; do deleted streams leave, running ones come back, and does the server find its broker? | holds |
| `session` (MCSession, Session.cfg) | Do permissions, user, session and cookie agree through logins and logouts of concurrent requests, does no session pass to another user, and is every request answered? | holds |
| `cli` (MCCli, Cli.cfg) | Do racing and interrupted runs of the tool leave one complete set of groups, and does logging in cost nothing but the contact form? | holds |
| `requesttx_forbidden` (RequestTxForbidden.cfg) | Is a mutation rolled back when a rule fails? (`prisma.plugin.ts:7`, `rule.decorator.ts:273`) | **violated** |
| `requesttx_batch` (RequestTxBatch.cfg) | Does a transaction last for its request when an HTTP array shares the request object? (`prisma.plugin.ts:7`) | **violated** |
| `permissions_order` (PermissionsOrder.cfg) | Are permissions applied in order of priority, the user's own last? (`casl-ability.factory.ts:194`) | **violated** |
| `streams_mask` (MCStreams, StreamsMask.cfg) | Is a field of a stream null only for those who may not read it? (`rule.decorator.ts:122`) | **violated** |

Four more configurations of `MCReadRules` reproduce known divergences; they are kept for whoever changes
that code and are not part of the table. Two of them leave a circumstance in which the property is proved, and
the run `readrules` leaves none: `CircumstancesAssumption` in `MCReadRules`, evaluated in every one of these runs, says so.

| Configuration | Property | Circumstance left | Divergence |
|---|---|---|---|
| ReadRulesCount.cfg | `CountIsOfReadable` | - | `personCount` and seven other counts are narrowed by `accessibleBy(...).Credit`; `count.ts:3` says "count resolvers should only be returning the count of resources the user has permission to read" |
| ReadRulesMask.cfg | `MasksAreExact` | `MaskingIsBlind` | masking changes the row that later fields are asked about (`readMany.ts:191`); `rule.decorator.ts:122` says "the fields that the user does not have permission to read will be set to null" |
| ReadRulesRelation.cfg | `RelationsHold` | `IdsMayBeRead` | `children` of an asset whose id is masked answers the assets without a parent; `asset.resolver.ts:239` says "all Assets which have this Asset as their {@link Asset#parentId}" |
| ReadRulesCursor.cfg | `CursorsNeedSort` | - | a cursor in a variable is a string and is not asked about (`casl.helper.ts:497`); `casl.helper.ts:422` says "cursor-based pagination requires sorting by ID, and therefore to use it, the user needs to have permission to sort by ID" |

### What the violations show

- *Forbidden is committed.* `willSendResponse` ends the transaction by resolving its
  promise whatever the response says; `failTransaction` is called from the catch handler only.
  Shortest run: create a row and its audit entry, fail the check on the result,
  answer Forbidden, commit.
- *Batches.* Apollo gives the operations of an array shallow copies of one context. The second
  `TxStart` rebinds `req.prismaTx`; the response of that operation commits the
  transaction in which the first one is still writing.
- *Order of permissions.* Rows of the user come first, group rows in any order (neither query has an
  ORDER BY); the last matching rule wins.
- *Shared streams.* `findManyStream` answers a slice of the array whose elements are the server's
  own; the rule sets hidden fields to null in them. Until the stream reports again, a second user who
  may read the field is given null.
- *Counts.* Eight resolvers were copied from the one of credits and count with
  `accessibleBy(...).Credit`.
- *Masking in place.* A denial whose condition is on column `c` no longer matches once `c` has been
  set to null, and whether it is set first depends on the order of the selection.
- *Relations of masked rows.* The parent's id that the resolver uses is the masked one.
  With null, Prisma looks for rows without a parent.
- *Cursors.* GraphQL turns an ID in a variable into a string; the check asks about numbers only.

### Bounds, and why they are enough

| Run | Instance | Why |
|---|---|---|
| `requesttx` | 2 operations, separate requests, pool of 2, documents of up to 2 fields, `permissionsFor` and the programs of update, contact submission and stream deletion, 1 crash | Everything the operations share is the pool and the process; two operations that need two connections each already use the pool up. The programs contain every kind of step, and a second field shows that effects of different fields do not mix. |
| `requesttx_liveness` | 2 operations of one batch, pool of 1, 1 crash | A single connection is the worst case: an operation holds it and waits for another. |
| `rowhistory` | 3 operations, 2 rows of 2 columns with 2 values, 4 documents of up to 2 mutations, one an update of no column | Two rows in opposite orders are the shortest cycle of waits; a third operation changes a row between the other two; the columns let two updates change different parts of a row. An update of no column meets every stage of the others. |
| `permissions` | 1 user, 2 groups and Guest, 6 permission rows, 2 changes | At most three queries run, so two changes reach every gap between them and every order of revocation and grant. |
| `readrules` | 3 subjects, 8 versions of their rows, 96 abilities, 5 documents of up to 3 levels, 1 commit | The documents go down and up foreign keys and through a self-relation; each kind of rule (field list, condition, inversion, both orders) occurs. |
| `streams` | 3 streams of which 2 run at first, 1 client with pages of 1, 1 mutation, 2 attempts to connect, 1 message in flight, 1 outage, `Silence` 0 | Three elements make a first, a middle and a last one for findIndex, the sweep and the pages. One report in flight is the one a sweep or a deletion can race. With `Silence` 0 one unit of time is too long, which makes lateness as easy as it can be; nothing depends on how many units there are. Two attempts are enough to fail once and connect, or to give up. |
| `session` | 1 browser, 2 requests at a time and 2 in all, 2 users, 6 documents, 1 fault, 7 session ids | Two concurrent requests are what one session needs to be loaded twice and saved in either order; documents log in and out and query afterwards. Each request draws at most three ids. One fault lets the store fail in one of them while the other goes on. |
| `cli` | 2 runs of the tool, 2 users, ids up to 5 | Three ids belong to the tool and one more to the server; two runs race for each statement. |

`CHECK_DEADLOCK FALSE` is set because all of these systems stop: requests are answered and nobody
sends another.

### Fairness

`RequestTx.FairSpec` assumes weak fairness for each operation's steps once they are enabled: a wait for a
connection ends in a connection or in Prisma's timer (`maxWait`), the event loop resumes
what is ready, PostgreSQL answers, the transaction's own timer fires (`prisma.plugin.ts:54-56`).
It assumes neither that clients send requests (`Arrive`) nor that the process is killed (`Crash`).
`RowHistory.Spec` is fair to the resolver and to commits, and to nothing else: operations settle
without any timeout, because PostgreSQL's deadlock detector rejects one of the waiting
statements (`StatementFails` under `Deadlocked`).

`Streams.Spec` is weakly fair to what the runtime drives: the interval, the consumer, the attempts to connect, the clock,
and each mutation under way. A worker with a `stop` in its queue reads it, and a running worker that again and again
could publish does (strong fairness, since the queue fills and empties). The broker is brought up again; that is an
operator's duty, and without it no retry could help. Clients need not page and nobody need create or delete.
`Session.Spec` is fair to each request's own steps, because both databases answer or fail; it assumes
nothing of arrivals, crashes or administrators. `Cli.Spec` states no fairness: its properties are about safety.

## 4. Proofs

All proofs hold for every value of the constants that meets the named assumptions of
the modules.

**RequestTx_proofs** - any set of operations, pool size, bounds, and any programs in which an audit
entry follows each write (`AuditFollowsWrite`, evaluated by TLC for the programs of the code).

- `TypeCorrect` and `PermissionsBeforeRules` hold without further assumption; the second needs
  `PermissionsOnTheWay`: an operation whose side connection is done while it is starting has its
  permissions, because a failure answers it at once.
- `AuditCompleteness`, `TransactionForRequest`, `AcknowledgedCorrect` and `RequestsAreAtomic`
  assume `SeparateRequests`, that no two operations share a request object; the run
  `requesttx_batch` shows that they need it. The inductive invariant `IInv` is `TypeOK` and
  - `TxFollowsPhase`: a running operation has not given up its transaction,
  - `BoundToOwn`: `req.prismaTx` is the operation's own while it runs,
  - `OwnEffects`: so a transaction holds effects of its operation only,
  - `SpoiledHasThrown`: a failed statement has already ended the document,
  - `AuditIsNext`: a row without its audit entry means that the resolver stands between the
    two statements, or that the transaction will not be committed,
  - `ChangesAreAudited` itself.

  `AuditIsNext` is why the invariant is not inductive on its own: a commit is harmless only
  if `Respond` cannot come between the two statements. `RequestsAreAtomic` shows that
  `Init` maps to `Init` of `AtomicRequests` and that each step is a `Perform`, a `Settle`
  (of several operations at once when the process exits) or a stutter.

**Permissions_proofs** - any users, groups, finite set of permission rows, and any number of changes.
`IInv` adds to the types: `WhoAsks` (which queries run for whom), `Bracket` (what is in
force now lies between `always` and `ever`) and `FetchedSoFar` (how far the queries have come: after
the first one the user's own steady rows are there, after the second the rows of the groups as
well). From it follow `NothingInvented`, `NothingMissed`, and, with the lemmas on
abilities, `QuestionsAgree`.

**Ability_proofs** - for every list of rules: `QueriedIsReadable` (what `accessibleBy` finds
passes `can`), `TypeAllowsField` and `FieldAllowsRow` (the early questions are weaker than the late
ones). The converse of the first is false: a grant after a conditional denial is not seen by the
query, so it may be narrower than `can`.

**RowHistory_proofs** - any operations, rows, columns, documents and rules, however transactions interleave, deadlock,
fail and commit. `IInv` consists of the types, `TrailEndsAtRow`, `Chained` (each committed entry is what its mutation makes of
the one before), `OldValueExisted`, and for each operation

- `Stops`: a failed statement ends the transaction at once, and none ends between a change and its audit entry,
- `Sane`, while the transaction may still commit: `Held` (whoever changed a row holds its lock, and has audited all
  changes of it but the one at hand, so that the draft is what its last entry says), `Continues` (its entries, put behind the
  committed ones, continue them), and `Found` (what the resolver has found is a version that was committed or its own).

The properties are not inductive by themselves, because `Commit` publishes all drafts and all entries of a transaction in one
step: it is harmless only if they agree before it, and if nobody else has committed to these rows since the first draft,
which is what the lock is for. `TypeCorrect`, `TrailDescribesTheRow` and `OldValuesAreTrue` follow (an update of no column changes nothing that the
invariant speaks of); `NothingIsLost` from
`Chained` by the lemma `Replay`, that the mutations of the trail, applied from the first version on, make the row.
It is an induction over the trail, done by a smallest counterexample (`<` is well-founded on the natural numbers), since the
induction theorems of the library cannot be instantiated.

**ReadRules_proofs** - any rules, documents, tables, commits and order of resolution. The one invariant says of each field that
has been answered where it is (`FieldOfDocument`: a place of the document, below a row that its parent answered) and what the
rules and the query made sure of (`Sound`): it was permitted beforehand; it is not "forbidden" if it is a list; each
row of it was stored (`Stored`), may be read and is shown as it is or as `Masked` leaves it (`Shows`), and has the key that the
*value* of its parent shows (`Follows`); a relation to one row answers at most one. From it

- `ListsPass`: no list is refused because of a row in it, and `TypeCorrect`, in all circumstances,
- `MaskingHidesTheUnreadable` in `MaskingIsBlind`: the loop, which asks about a row it has changed, sets exactly the
  columns to null that may not be read in the stored row (lemmas about `Masking` by smallest counterexample),
- `RelationsFollowTheirKeys` in `MaskingIsBlind` and `IdsMayBeRead`. The rows of a relation have the key that their parent
  shows; the theorem says that it is the key their parent has. It rests on `OneKeyBetweenTwo`, a lemma about the transcribed
  schema: the key a resolver follows between two subjects is determined by the subjects and the column.

The mask and relation configurations of section 3 show that each circumstance is needed for one of these properties.

**Streams_proofs** - any finite sets of ids and calls, any clients and limits. `IInv` has one part for each group of variables:
`ListInv` (the list is sorted without repetition, unlisted streams have no age, `quiet` is `streamLastSeen`), `LinkInv`,
`CallInv` (no more workers are asked for than there are calls), and `PageInv`, with `Reading`: as long as its cursor has stayed
on the list, a client has been given, in order, everything steady up to the cursor. `ListStaysOrdered`, `PagesAreExact` and
`TypeCorrect` follow. The lemmas about `Sorted` use that the list was sorted before the push: then
an order of its indices exists that sorts it (`PlaceExists`, `OrderExists`), and as no id occurs twice, whichever is chosen sorts it strictly (`SortedList`). That `Kept` keeps the living, in order, is shown
by a smallest counterexample. `ListIsLive` is the safety half of the refinement: `Init` maps to `Init` of `LiveStreams`, and
every step is a `Report`, a `Pass`, a `Clear`, a `Forget` or a stutter. That dead streams *are* cleared (`WF(Clear)`) is
liveness.

**Cli_proofs** - any number of runs, users and ids. `IInv` adds to the types that a run looks at one of its own
ids (`StageInv`), that ids from the sequence on are free or the tool's, and every collision has used one of those up
(`SequenceInv`), that a group bears the name its id was chosen for or a new one (`NameInv`), and that a run has
left nothing out behind it (`ProgressInv`). `OneGroupOfEachName` follows because the id is chosen with the
name, `GroupsAreComplete` and `CollisionsAreFew` from the last two. `MembersMayAllButContact` is about the transcribed lists:
each of a guest's rules for reading, filtering or sorting is covered by one of the members', subject by subject, and the one
for creating contact submissions is covered by none.

**Session_proofs** - any users, browsers, documents, bounds and number of requests at a time, under `[]IdsLast`: there is
always a session id that nobody has (express-session draws them from 24 random bytes; the run has seven, and TLC
would stop if it needed an eighth). `IInv` adds to the types that accounts with an access log exist, that stored sessions
name such accounts or nobody, and of each request (`GoodReq`)

- `FieldOf`, `Alone`: what stage belongs to what field, and a visit of the Discord route is alone,
- `Logged`, `Judged`: who logs in has an access log first, and permissions are those of the user between the awaits,
- `Matching`: the session in memory is the user's, except in the middle of a login,
- `Outlived`: a request whose session was logged out has no user to save there,
- `Kept`: only what is nobody's has no id yet, a changed session with an id is that of a login, and only a failed
  logout counts as saved.

`Outlived` is not inductive by itself: a logout could end a session that another request has changed and not saved yet.
`OwnInv` rules that out: a changed session with a user came from a login, and its id is known to no other request and no
browser, and is stored as it is in memory: so it does not matter whether the last save fails. `OneUser` says that Redis and
all requests that know an id name one user, or nobody. Steps that only change their request are reduced by `Local` to what the request may become (`Sound`). From `IInv`
follow `FieldsAreJudgedAsTheirUser`, `AccessLogKeepsAccounts`, `LogoutIsFinal`, `CookiesAreTheUsers` and
`SessionsAreOfOneUser`.

*Only model-checked*: liveness, which TLAPS does not prove: `OperationsEnd` and `ConnectionsReturn` (`RequestTx`),
`OperationsSettle` (`RowHistory`), `DeletedStreamsLeave`, `FeedComesUp`, `RunningStreamsAreListed` and the fairness
half of `LiveSpec` (`Streams`), `RequestsSettle` (`Session`). Every invariant and every action property of a passing run
is stated by a theorem.

## 5. Findings and limits

Besides the findings above, the models record behaviours that no document rules out,
as notes of the hazards in `PROJECT.json`: the response may leave before a commit that then
fails; the Discord post and the stream command go out before the transaction is committed; a
guest permission that mentions `$id` fails every guest's request; the old value of an
audit entry, and the row that was checked, may be older than the one that was changed
(`OldValueExisted` says that it was at least a committed version). After an orderly shutdown of the broker nobody
connects again, and the list empties. A report is acknowledged by nobody (`consume` without `noAck`, no
`ack`), so the broker keeps every one until the connection ends. A user from whom a rule hides the *id* of a stream
sets it to null in the shared list, where the next sort or sweep meets it; `Streams` takes ids to be readable.
A visit to the Discord route saves the session it came with, also after a logout elsewhere
(`LogoutEnds` excludes it), and a store that fails during a login may leave a saved session behind an answer that is an error, one that fails
during a logout leaves the browser logged in (`CookieMeansUser` excludes both). The audit entry of an update of no column
may name versions that were gone when it was written. Without a group named Guest no guest is answered, and a logout ends the process
(`Repermit`), although `casl-ability.factory.ts:199` says that then "it's assumed the user has no permissions, and must
log in to do anything": nobody could. Two runs of the tool side by
side both create an administrator, although it "can only be ran once" (`cli.ts:637`). The default rules of members have
conditions on `userId` for `User`, which has no such column, and do not let members send a contact
submission, as guests may (`LoginCostsOnlyContact` says that this is all).

Abstractions: column values are model values; hashing of passwords and validation are one step with both
outcomes; times are nondeterministic (a timer may fire whenever it is set); in `ReadRules` lists
are sets, since their order matters to no property there; the options `strict`, `excludeFields` and
`defer` of rules are left out, since no list or relation resolver uses them. The order in which the plugins are
started is left open. In `Session` each GraphQL request is of its own (batches are the business of `RequestTx`), accounts
are not created, and of permissions only whose they are is kept. Not modelled at all are the parts marked so in section 1; the
reasons are in `PROJECT.json`.

## 6. Plan

Done: `RequestTx` with `AtomicRequests`, `RowHistory`, `Permissions`, `Ability`, `ReadRules`, `Streams` with
`LiveStreams`, `Session` with the Discord route and the interceptors, `Cli` with `DefaultRules`.

Every safety property that a passing run checks is also proved. Left, in order of importance:

1. The safety arguments behind the liveness properties: for `RequestTx` and `RowHistory`, that each step of an
   operation brings it nearer to its end and no step of another takes it back (a measure that only decreases), and that a cycle of waits always contains
   a statement that `Deadlocked` lets fail.
2. `Session` and `RequestTx` composed through `req.permissions`, for a login inside a batch.
3. The rule handlers of creations, updates and deletions in the detail of `ReadRules`, with rules about the columns of the input.

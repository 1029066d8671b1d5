# Luxid: a verification development

Luxid is a web framework in Rust: an HTTP core over salvo (`crates/luxid-core`), a
data layer over SeaORM (`luxid-orm`), derive macros, a CLI and a test harness. This
directory holds TLA+ models of the parts that keep state across awaits, requests,
threads and commands, the TLC runs that check them on small instances, and TLAPS proofs of
the properties that matter most. Every definition is translated from the source under
`src/`; the `map` of `PROJECT.json` says from which lines.

## Inventory

| Component | State it keeps | Operations | Hard behaviour | What makes it correct |
|---|---|---|---|---|
| Session handle (`session.rs`) | id, data, `dirty`, `destroyed` behind one mutex; cloned into the context | put, forget, flash, age_flash, flush, destroy/logout, set_subject, regenerate, login | the id can change while the guard remembers the presented one; flash lives across requests | login rotates; flash is read once; logout kills the id |
| Session store (`session.rs`) | id → (data, deadline) in memory | load (drops what expired), save, destroy | expiry is checked on read only, nothing sweeps | an entry is found only before its deadline; no entry leaks |
| Session guard (`auth.rs`) | nothing of its own; the store, and the browser's cookie | load, age flash, run the action, write back, Set-Cookie | loads before and saves after an await; several requests of one browser overlap; errors skip the write-back; answers reorder | clients never share data; dead ids stay dead; one cell of values per client |
| JWT guard, `Auth` (`auth.rs`) | none across requests | sign, verify, require | expiry at the boundary | a bad token is refused even when authentication is optional |
| Container (`container.rs`) | singleton cache (RwLock), scoped cache (Mutex), a thread-local chain of names being resolved | register, scope, get, get_dyn, eager_init | factories run without the lock and resolve recursively; threads race; factories fail or panic | every caller gets the same singleton; a cycle is an error, never a hang; no false cycle |
| Database scope (`db.rs`) | task-local handle, connection pool, open transactions | scope, rollback_scope, transaction, WithDatabase, WithRollbackDatabase | nested scopes take a second connection; handles that escape | what runs in a scope runs on its transaction; nothing waits on itself |
| Models, hooks, queries (`model.rs`, `hooks.rs`) | the database | insert, update, delete, paginate, `with` | hooks around a write, two statements per page | hooks always run; an error before the write leaves no row |
| Relations (`relations.rs`, `loading.rs`) | loaded rows per model instance | has_many, has_one, belongs_to, many, one | strict mode for relations not loaded | loading groups every child under its parent, once |
| Validation (`validation.rs`, `macros/validate.rs`) | collected errors | rules, unique, exists | check, then insert | a refused form has every message; `unique` is advisory |
| Inertia (`inertia.rs`) | flashed errors and the last url, in the session | version check, shared props, redirect back | layered inside the session guard, early returns | the errors of a failed form are seen by the next page of that client |
| Router, App (`router.rs`, `app.rs`) | route tables, middleware stacks | group, resource, flatten, describe, into_parts | nested prefixes, order of mounts | what `describe` lists is what is served |
| Middleware chain, adapter (`middleware.rs`, `adapter.rs`) | position in the chain | run, handle | early returns | each middleware runs once, outermost first |
| Errors, HTTP types (`error.rs`, `http/`) | none | status, problem document, decode, validate | an error leaves through every middleware | each failure has its status |
| CLI, scaffolding (`luxid-cli`) | the files of a project | new, make:model, the writes of a plan | a command stopped between two files; files written before an insertion fails; the developer's edits | registries name what exists; a generator only adds; the application builds |
| Migrations, schema (`migration.rs`, `schema.rs`, `lib.rs`) | tables and their record of migrations | migrate, rollback, fresh, status, db:sync | a stop between a table and its record; a sync over the developer's lines | tables are those of the applied migrations; entity and factory agree |
| Config, factories, OpenAPI | – | – | – | not modelled, see below |

How they interact: the adapter builds a context with a scoped container and walks the
middleware chain; `SessionGuard` resolves its store from the container, attaches a
handle to the context and writes it back after the action; `Inertia` runs inside it and
uses the handle for flashed errors and the last url; `WithDatabase` sets the task-local
handle that models and the asynchronous validation rules read. The command line writes the
application these parts make up: a registry line per module, route and migration, and the
field lines of entities and factories that db:sync rewrites from the schema.

`PROJECT.json` lists under `hazards` what is hard to test in this code, at the line
where it bites, and which property would catch it.

## Modules

| Module | Models | Role |
|---|---|---|
| `Session` | `session.rs`: `State`, `Session` | the operations of the handle, as functions from handle to handle |
| `SessionStore` | `session.rs`: `MemoryStore` | the store's map and its three calls, as functions |
| `SessionGuard` | `auth.rs`: `SessionGuard::handle` | the state machine: requests, handles, store, browsers' cookies, time |
| `SessionCell` | – | the abstract specification: one cell of values per client |
| `SessionProperties` | – | the properties, and the refinement mapping onto `SessionCell` |
| `MCSession` | – | the instances TLC checks |
| `SessionProofs` | – | the theorems about it, whatever requests overlap |
| `SerialProofs` | – | the theorems about clients that send one request at a time, and the refinement of `SessionCell` |
| `Container` | `container.rs`, eager start in `app.rs` | the state machine: registration, boot, threads resolving a graph of providers |
| `ContainerProperties` | – | its properties |
| `MCContainer` | – | the catalogue of registrations and the instances TLC checks |
| `ContainerProofs` | – | the theorems about it |
| `Database` | `db.rs` | the state machine: tasks with stacks of scopes, a pool, transactions, handles that escape |
| `DatabaseProperties` | – | its properties |
| `MCDatabase` | – | the instances TLC checks |
| `DatabaseProofs` | – | the theorems about it |
| `Selection`, `SequenceLemmas` | – | the members of a sequence that lie in a set; induction over numbers, and facts about sequences |
| `Naming` | `naming.rs`, the singular rules | the names derived from a typed one |
| `Scaffold` | `scaffold.rs` | the plans of generators, and the two edits of existing files |
| `Workspace` | `bin/luxid.rs`, `lib.rs`, `prompt.rs`, `scaffold.rs` (`write`), `migration.rs`, `schema.rs` | the state machine: a directory, a database, one command at a time, the developer |
| `WorkspaceProperties`, `MCWorkspace` | – | its properties; the instance TLC checks |
| `WorkspaceProofs` | – | the shape of commands; the tables |
| `GeneratorProofs` | – | the theorems about what generators write and the migrator makes of it |
| `Routing` | `router.rs`, `app.rs`, the controller macro | the tree of routes, flattened and described |
| `Matching` | – | how salvo picks the handler of a request (external) |
| `Application` | the Inertia scaffold, the tests' applications | the tree of routes the stack serves |
| `Models` | `model.rs`, `loading.rs` | pages, and relations loaded in batches |
| `Validation` | `macros/validate.rs`, `validation.rs` | forms, rules and their errors |
| `Inertia` | `inertia.rs`, `auth.rs`, `middleware.rs`, `context.rs`, `error.rs` | what each middleware does on the way in and out; uses `Session` |
| `Stack` | `adapter.rs`, `model.rs`, `hooks.rs`, the tests' controllers | the state machine: an application, its requests, its clients, deployments |
| `StackProperties`, `MCStack` | – | its properties; the instance TLC checks |
| `StackProofs` | – | the theorems about it |

### The session guard

A request `r` goes through the awaits of `SessionGuard::handle`; `pc[r]` names the await
it is at. Between two awaits the handler runs alone as far as shared state goes (the
store and the handle are each one mutex, held for one call), so each action is the code
from one await to the next:

| `pc` | action | code |
|---|---|---|
| idle → load | `Send` | the browser sends the cookie it holds (`presented`) |
| load → action | `LoadKnown`, `LoadFresh` | `store.load`; attach the handle; `age_flash`; the subject becomes `ctx.auth` |
| action | `PutValue` … `LogIn` | one call on `ctx.session` by the action or a middleware inside |
| action → destroy, save or reply | `Finish` | `next.run` returned `Ok`; `snapshot()`; which branch |
| destroy → reply | `DestroyEntry` | `store.destroy(&id)` |
| save → drop or reply | `SaveEntry` | `store.save` |
| drop → reply | `DropPrevious` | `store.destroy(previous)` |
| reply → done | `Reply` | the response arrives, the browser applies its Set-Cookie |
| any → failed | `Fail` | a `?` returns early, the connection goes away and the handler is dropped at an await, or the answer is lost |

`Restart` empties the store and ends every running request; `Tick` is time, which expires
entries and cookies. Which operations the action of a request calls is a constant (`Ops`),
so runs can be about routes of one kind, and a theorem may assume something of the routes.

What is abstracted: an id is the pair of the request that drew it and a counter, because
ids are 256 bits from the OS generator and two draws never agree; a stored or flashed
value is named by the request that wrote it, which is all that isolation and flash are
about; keys of the flash bag are left out (a bag is the set of its writers); typed reads,
cookie attributes other than the id and its Max-Age, and the detached session (an error
and no change) are left out. A browser sends only cookies it was given.

### The container

`resolve` calls a factory with no lock held, and the factory resolves its dependencies by
calling `get` again. A thread's state is therefore what its call stack holds: `goal[t]` is
the type `resolve` is about to look up, `stack[t]` the factories that are running, each
with the number of dependencies it has resolved so far, and `failing[t]` an `Err` on its
way to whoever asked. `chain[t]` is the thread-local `RESOLVING`, which the code pushes
and pops by hand next to the call of the factory: that the two agree is a property, not a
definition.

| action | code |
|---|---|
| `Register` | `Providers::bind`: replace, keep the place in the order |
| `Build` | `Providers::build`, then `run`/`try_into_service` (eager) or `into_service` (not) |
| `BootNext`, `Booted` | `eager_init`, one singleton at a time in registration order |
| `Begin` | `get` or `get_dyn` on the application's container or on a request's |
| `Missing`, `Hit`, `Cycle`, `Invoke` | `resolve` up to the call of the factory: not registered; cached; in the chain; push and call |
| `Depend`, `DoWithout` | the factory asks for its next dependency; drops an error and goes on |
| `Publish`, `Unwind` | the factory returned: pop; `or_insert` and return what the cache has, or return the error |
| `Panic` | the factory panics: the stack is gone, the chain stays; at boot the process ends |
| `Report` | the error reaches the caller of `get`, or ends the boot |

A cache is read in one step and written in one step, because each lock is held for one
call on a map; between the two any other thread may run. A factory is any sequence of
dependencies. What is abstracted: a type is its `type_name`; the instance is the thread
that built it and a counter; a downcast never fails, since a registration stores what its
own factory builds; which container a factory hands on to what it builds is left out (the
hazard list has it). A failing closure is `try_singleton`; the factories of `singleton`,
`scoped` and `transient` return a value or panic.

### The database scope

The task-local `CURRENT` nests: `scopes[t]` is the stack of scopes task `t` is in, each
with the handle it put in scope, and `current()` is the last. A task awaits two things: a
connection of the pool (`asked[t]`, served in the order of `queue`), and the end of a
transaction (`ending[t]`). A transaction holds its connection while it is open, so
`Free` is what the pool has left. `tried[t]` counts the scopes a task asked for, which
names its transactions and bounds the runs.

| action | code |
|---|---|
| `EnterScope` | `Db::scope`: always the pool's handle |
| `Begin`, then `Grant` or `TimeOut` | `transaction`, `rollback_scope`: `pool.begin()`, then the handle in scope; or its error |
| `Dispatch` | a request through `WithDatabase`: the handle in scope, or the pool's |
| `DispatchRollback` | a request through `WithRollbackDatabase`: the handle in scope, or a `rollback_scope` |
| `Write`, then `Grant` or `TimeOut` on the pool's handle | `insert`: `current()?`, `with_connection!` |
| `Clone`, `StrayWrite`, `DropStray` | code in the scope keeps a clone of the handle; it writes through it; it drops it |
| `LeaveScope`, `LeaveAlone`, `LeaveStray` | the work returned: leave; `Arc::into_inner` finds no other clone; it finds one |
| `Finish` | `commit` or `rollback` returned |
| `Cancel` | the task is dropped at an await, or panics |

What is abstracted: rows are the handle they were written through and whether that
happened inside a `rollback_scope`; the driver's part is what `db.rs` relies on (a
transaction whose last handle is dropped is rolled back; a commit that fails may have
committed; a pool serves who waits in turn). A query through the pool takes and returns
its connection in one step. `Nesting` says whether the application opens scopes of its own
inside a transaction; requests are dispatched there in any case, as tests do.

### The workspace

One directory and one database, one command at a time. `cmd` is the command that runs with
what is left of its plan, so that every file, line, table and record is written in a step
of its own, and `Stop` may end the command between any two.

| action | code |
|---|---|
| `New`, `Answer`, `HangUp` | `luxid new`: flags, questions (`choose`), the input that closes; then the files |
| `MakeModelCommand` | `make:model`: the plan of the flags; declined when a file of it exists |
| `WriteFile`, `Insert`, `Written` | `write`: all files, then each line above its marker |
| `Migrate`, `MigrateRollback`, `MigrateFresh` | what the migrator is asked; `Up`, `Down`, `Record`, `Fresh` are its steps (external) |
| `DbSync`, `SyncFile`, `SyncDone` | for each table, the entity and then the factory `Singular` leads to |
| `FillMigration`, `Annotate`, `RemoveMarker` | the developer between commands |
| `Stop` | the command is killed |

A file is the sequence of the lines that generators write or read back; the rest of its
text is one line `Code`. A name is a tuple of an opaque stem and the letters the plural
rules look at. `Builds` is what cargo asks of the files: modules exist, references resolve,
a factory sets only fields its entity has; the application's own commands need it.

Met while modelling, and named in the properties where they bite: the documented `-c`
without `-a` generates a controller that refers to requests and a policy nobody wrote, and
`-s` without `-f` a missing factory (`Complete` excludes both); an entity whose field
markers are gone is passed over while its factory is refreshed; `singular` does not bring
back the plural of box, status, cache or movie, and db:sync then passes over the factory
(`Regular`); a generator checks for files that are in its way before the first write
(`design.md` and the tutorial say that a half-applied one is worse than one that declined),
but finds a missing marker only when it comes to it: then its files are on disk, some
registered and some not, and a second try is refused because they exist (`AppliedWhole`
excludes a marker taken out); a rollback killed between the drop and its record fails at every
retry; and `interval` and `int4range` contain `int`, which makes them `i64`.

### The stack

One application (`Application`): the page group of the Inertia scaffold with the controllers of the
framework's own tests, and an API of users who belong to teams, with resource routes, nested
groups, a mount and a route outside the page group. `serving[a]` is the request of actor
`a`: its handler's middleware, its context, its outcome and the statement it is at. The way
in and the way out of the middleware touch only the request and its client's session, so
each is one step; a statement against the database is a step, and the statements of two
requests interleave.

| `pc` | action | code |
|---|---|---|
| idle → … | `Send`, `FollowUp` | `RouteHandler::handle`: dispatch, a fresh context, the chain inwards, the action up to its first statement |
| check → check, insert, update or answer | `Check` | one query of `validate_async`; the verdict after the last |
| insert, update → after | `RefuseWrite`, `Insert`, `Update` | the hooks before, the write |
| after → answer | `AfterHooks` | the hooks after, which may refuse |
| find → check or delete | `Find` | `find_or_fail`, `authorize` |
| delete → answer | `Delete` | `delete_by_id` |
| count → fetch → load → answer | `Count`, `Fetch`, `LoadTeam` | `paginate` with a relation: three statements |
| all → members → answer | `All`, `LoadMembers` | `all` with two relations |
| answer → idle | `Answer` | the chain outwards, the session's write, the response, what the tab makes of it |

The session is used as `SessionCell` promises it: one cell of values per client, which the
next request finds as the last one left it. That is what the `serial` run checks of the
session guard for requests of one client that do not overlap; the two tabs of the browser
therefore wait for each other, and what overlapping requests do to a session is in the
session runs. A submission is a name, and the flash holds the names of those that failed;
the second tab only loads pages and follows links, which is what another tab can do to the
first one's session. A tab keeps the headers of its request across a redirect and drops
them to load a page afresh, as the Inertia client does.

`Deploy` replaces the process at any moment: running requests are cut off, the version of
the assets changes, and the sessions are kept or not.

Met while modelling: a GET action that fails validation is redirected to its own url
without end; the comment in `app.rs` says that mounts go first so as not to shadow routes,
but the first registered handler answers, so a mount's wildcard does shadow the routes
under it; `validation.rs` says that the database rules run in one batch, the derive awaits
them one after another; a race that a database constraint decides is an internal error, not
a validation error; `except` reads the id from the body of the request, not from its path,
so the model's clients repeat it there. None of them is stated as a property.

Left out of the stack: `x-inertia-partial-except`, shared closures, `length(equal)`,
first, count, insert without hooks and nested relations, headers and bytes, errors
of the database other than a row that is gone.

## Runs

Session runs use `MCSession`. Requests of one client are symmetric (the model names them only in
quantifiers; the routes of one client are the same set). The view drops what no step and
no property reads of a request that has ended.

| Run | Instance | Shows |
|---|---|---|
| `overlapping` | requests of one client all in flight; flash, flush, regenerate, login, destroy; 2 ids per request; either 3 of them, or 2 and one of another client that logs in, with a ttl of 1 and a clock to 2 | `TypeOK`; `FixationDefeated`; `FlashConsumed`; `SessionsIsolated`; `DeadIdsStayDead` |
| `serial` | 3 requests of one client, one at a time, all operations | `RetiredIdsGone`; `NoEntryLeftBehind`; `ImplementsCell`, the refinement of `SessionCell` |
| `logout_rotated` | one at a time; login or regenerate, and destroy | violation of `LogoutInvalidates` |
| `logout_raced` | two overlapping; put and destroy | violation of `LogoutInvalidates` |
| `flash_kept` | one at a time; flash | violation of `FlashReadOnce` |
| `container` | 3 types, 5 possible registrations (chain, diamond, cycle, gap), eager and lazy boot, 2 threads with one call each in 2 containers | `TypeOK`; `CallersAgree`; `CyclesRealUntilPanic`; `BootedMeansReady`; `EveryCallReturns` |
| `container_panic` | registrations that depend on nothing, one thread with two calls | violation of `CyclesAreReal` |
| `database` | 2 tasks, one with two scopes and one with one, pool of 1 and of 2, no nesting by the application | `TypeOK`; `RollbackLeavesNothing`; `OutcomesAreTrue`; `HandlesAreLive`; `WaitsEnd` |
| `database_nested` | 1 task with two scopes, nesting allowed | violation of `RollbackLeavesNothing` |
| `workspace` | the words categor-y and bo-x, the flags `-mfsc` and `-a`, every answer to `new`, 2 edits or kills | `TypeOK`; `RegistriesAlwaysHold`; `ApplicationBuilds`; `FailuresHaveACause`; `AppliedWhole`; `StatusInDeclarationOrder`; `TablesFollowMigrations`; `SyncedFilesAgree`; `SyncTouchesOnlyFields`; `GeneratorsOnlyAdd`; `CommandsEnd` |
| `workspace_attributes` | the same directory | violation of `SyncKeepsAttributes` |
| `stack` | three settings of two actors: two tabs of a browser; two clients who write the same rows; one who lists and one who writes. 3 rows, pages of 2, 2 teams | `TypeOK`; `GuardsBeforeActions`; `RouteTableIsTrue`; `UniqueUnlessOvertaken`; `HooksSurroundWrites`; `PagesAddUp`; `EagerLoadIsTheJoin`; `BouncesLand`; `ErrorsFollowTheSubmission`; `DeploysCostNoInput`; `PagesComplete` |

Bounds. `MaxInFlight` is how many requests one client has in flight, `MaxDraws` how many
ids one request draws (one at load and one rotation), `MaxClock` how far time goes. Three
requests are enough for each property to be in danger: one that creates state, one that
retires it, one that was under way meanwhile or comes after; with a ttl of 1 and a clock
to 2 an entry is created, expires, and is presented again. The constraint `Either` keeps
the two halves of `overlapping` apart: no property needs a third request of one client and
another client or an expiry at once. A value that is put is data like one that is flashed,
so putting and forgetting are left to the `serial` run. In the container runs
`MaxCalls` is how often each thread calls `get`, and `MaxDepth` the room of a call stack.
`MaxDepth` is one more than the number of types, so it never stops a resolution that
detects its cycles: with a chain that misses one, the stack fills up and `EveryCallReturns`
fails, which is what an overflow of the real stack would be. Two threads with one call
each race for every cache; a cycle, a failure and a diamond need three types. In the
database runs `MaxScopes` is how many scopes each task asks for: a test with a request in
it is two, and the other task competes for the connection. A pool of one is
`Db::in_memory`; with two, both tasks can hold a transaction.

In the workspace run `MaxDisturbances` bounds edits and kills together: one edit and one
kill, or two of either, is what it takes for a sync to meet an annotation in a database a
command left half way. Two words are needed, one whose names invert and one whose do not,
and they give the order of migrations something to be wrong about. In the stack run
`MaxUsers` bounds the rows ever inserted and `PerPage` is 2, so that a listing has a full
page, a short one, an empty one and one past the end, while a row comes or goes between its
statements; two actors are enough for a race for one address, since each property speaks of
a pair; the two versions alternate, so a tab can meet its own assets again. The three
settings share the code and the properties but not the requests: the browser's session and
the clients' tables never meet in one property, and together they would only multiply.

Fairness. The session runs assume none: all their properties are safety properties, and a
request may stop for ever at any await. The container run assumes weak fairness of
`Resolve(t)` for each thread `t`: a thread in the middle of a resolution is runnable, the
operating system schedules it, and the only locks it takes are held for one step. It does
not assume that anybody calls `get` (`Begin`), that the application is built, or that a
factory chooses any particular outcome. The database run assumes weak fairness of `Grant`
(a free connection is handed to the task that waits longest, as sqlx's pool does), of
`Returns` (the work in a scope ends), of `Finish` (the database answers) and of `DropStray`
(a clone that escaped is dropped at last); it does not assume that anybody times out or is
cancelled, so `WaitsEnd` is not met by giving up. The workspace run assumes weak fairness of
one action, `Work \/ Reply`, on the variable `cmd`: a command that runs goes on, and
somebody answers its question in the end or has closed its input; an answer that is not an
option changes nothing and does not count, and a closed input must be enough by itself,
which is what `CommandsEnd` is about. It assumes nothing of which command is called. The
stack run assumes none; its properties are safety properties.

Deadlock is checked in the session runs (`Restart` and time leave a step enabled), in the
workspace run and in the stack run (a command, a deployment can always come). In the
container runs it is not: an application whose boot failed has ended, and threads that
have made their calls have nothing to do; that a resolution never waits for ever is
`EveryCallReturns`. Nor is it in the database runs, where tasks end; that nobody waits for
ever is `WaitsEnd`.

What the violations say. `logout()` promises that the old cookie is worthless. It is not
(a) when the same request rotated the id first, because the guard destroys the current id
and not the presented one, and (b) when a request that loaded the session earlier saves
after the logout. The passing properties therefore state logout and rotation with these
two cases excluded, by name: `RetiredIdsGone` excludes (a) and is checked for clients that
send one request at a time. `flash` promises one reader. A request that read the flash and
failed writes nothing back, so the next request reads it again: `FlashConsumed` states what
does hold, also for overlapping requests, once the reader was answered. The chain of
`RESOLVING` is popped after the factory returns, so a factory that panics leaves its name
there; the task that panicked is gone, its worker thread is not, and the next resolution of
that service on that thread is refused as a cycle, although it depends on nothing
(`container_panic`).
`CyclesRealUntilPanic` states what holds. The middlewares join the handle in scope, but
`scope` and `transaction` themselves do not look for one: code under test that opens a
scope or a transaction of its own, as the tutorial's handlers do, leaves the test's
transaction, and what it writes stays (`database_nested`); on a pool of one it waits for the
connection the test holds. The `database` run and the theorem `Rollback` state what holds
when the application does not nest.

The comments of db:sync promise that the attributes of a field survive. `AttributesOf` is
what Rust makes of the lines above a field: every attribute there, comments among them or
not. `field_attributes` forgets what it has collected at the first line that is neither an
attribute nor a field, so an attribute above a comment is lost (`workspace_attributes`).
`SyncTouchesOnlyFields` states what holds: nothing outside the markers changes, no field
comes to carry another's attribute, and one without a comment above it keeps its own.
Between the change of a table and its record a kill leaves one
migration out of step; `TablesFollowMigrations` counts, and allows one per kill: no later
command adds to it.

What the stack's properties promise, and what they do not. `unique` is advisory: it is
stated with the one case excepted in which somebody else wrote the value between the query
and the write, and `raced` records exactly that. A hook after a write may refuse it, and
the row stays: an answer of 409 with a write is allowed for that cause only. A page and its
counters are two queries: `PagesAddUp` says which disagreement each of an arrival and a
departure may cause and allows no other. The errors of a form are in the first answer that
succeeds after it, which need not be one that can show them: a 409 that asks for a reload,
a partial page and another tab's page use them up. `due` and `last` are histories of what
the clients were told; the properties compare what the session says with them.

## Proofs

`SessionProofs`, for any sets of clients, requests and keys, any routes, ttl and bounds,
from `NoneAssumption` and `GuardAssumption`:

- `TypeCorrect`: `Spec => []TypeOK`. The lemmas before it say that each operation of the
  handle maps handles to handles (`OperationTypes`) and that each call of the store keeps
  the type of the map (`StoreTypes`).
- `Isolation`: `Spec => []SessionsIsolated`. The property is inductive relative to the
  types; the argument is per step and rests on two lemmas that say all the rest of the
  file needs to know of a step: `LoadStep` (a loaded handle holds what one entry held, or
  nothing under a new id) and `ActStep` (an operation adds at most the request's own
  writes, and keeps the id or draws a new one).
- `DeadIds`: `Spec => DeadIdsStayDead`, an action property: a step that revives an id
  would have to load it (then an entry has it), save it (then a handle has it) or draw it
  (then it was not drawn before).

- `Fixation`: `Spec => []FixationDefeated`, under `RoutesRotate`: no route calls
  `set_subject` alone (`session.rs` says to use `login`; TLC shows what happens otherwise
  with the mutant `LoginInPlace`). An entry with a subject could be saved later by a
  request that has not saved yet, so the strengthening `SubjectsApart` says of handles what
  the property says of entries.
- `FlashOnce`: `Spec => []FlashConsumed`. `FlashInv` says where a flashed value can be:
  a handle that may still save it belongs to a request that is not answered.

`AllDrawnInductive` is the lemma that every id in a cookie, a request, a handle or an
entry was drawn before, so the next one drawn is fresh (`NewIdFresh`).

`SerialProofs`, for the same constants, under two conditions on them.
`OneAtATime` is `MaxInFlight = 1`: no client has two requests in flight, which is what the
three properties are about (`logout_raced` shows why). `NothingExpires` is
`MaxClock < TTL`: a time shorter than the ttl. It is needed because the guard sets a cookie
only when the id changes while every save prolongs the entry: a client in steady use loses
its cookie before the entry runs out, and the entry stays behind.

- `RetiredForGood`: `Spec => []RetiredIdsGone`, under `OneAtATime`. The property speaks of
  the store alone and a later save could break it, so `RetiredInv` adds who might save:
  once the response is out, the client's cookie names another id, no request presents the
  retired one and no handle holds it. Until then the request is the client's only one
  (`SerialInductive`), and requests of other clients hold ids of their own
  (`OwnersDiffer`, from `Isolation`). `StageInv` says which branch of the write-back the
  flags of a handle lead to.
- `NothingLeftBehind`: `Spec => []NoEntryLeftBehind`, under both. `TidyInv` says of each
  await of the handler which entries its client can have there: the presented one, between
  save and drop also the new one, after them only what the answer will name. `KeptInv`:
  the client still has the cookie its request presented.
- `Refinement`: `Spec => ImplementsCell`, under both. `HandleMaps` takes the guard's
  steps one by one: loading is `Open`; an operation is `Edit` or `End`; the step after which
  the store has what the request leaves (`Finish` of a clean handle, the save, the drop, the
  destroy, or the cookie removed by the answer) is `WriteBack`; the response is `Answer`; a
  failure is `GiveUp` or, when the store has the result already, `LoseAnswer`; the rest
  changes nothing of the cell. It rests on `CellKnown` (the cell by where the one request
  in flight is), `StepMaps` (a step of one request changes no other client's cell, by
  `Isolation`), `CellSteps` (the steps of the cell, seen at one request) and `StoredInv`
  (what a handle and the store have in common).

`ContainerProofs`, for any types, registrations, threads, containers and bounds, from
`ContainerAssumption`:

- `TypeCorrect`: `Spec => []TypeOK`. `TypeInv` adds that a running factory has a
  registration (`FramesBound`) and that nothing runs before the container is built
  (`Untouched`), which is why replacing a registration harms nobody.
- `Identity`: `Spec => []CallersAgree`. `CacheInv`: every instance returned is the one its
  cache holds, and what a cache holds was built before now, so an instance that is new in
  one container is in no other.
- `BootIsComplete`: `Spec => []BootedMeansReady`. `BootInv`: while the application boots, a
  singleton is still in the order, or cached, or in the hands of the main thread (about to
  be resolved, being built by the outermost factory, or failed).
- `RealCycles`: `Spec => []CyclesRealUntilPanic`. `ChainInv`: the chain of a thread names
  the factories on its stack, each depends on the next, and what is looked up is a
  dependency of the last. A panic breaks exactly the first part.

`DatabaseProofs`, for any tasks, pool sizes and bounds, from `DatabaseAssumption`:

- `TypeCorrect`: `Spec => []TypeOK`. Of the queue of the pool, `QueueInv` says that it
  holds who waits, each once; what a task that leaves makes of it is an `Among`, and
  `SequenceLemmas` shows that to take out the task and no other.
- `LiveHandles`: `Spec => []HandlesAreLive`, and `TrueOutcomes`:
  `Spec => []OutcomesAreTrue`, whether or not the application nests. `ScopeInv` says that
  the frames of a task are `WellNested` (a handle on the stack is that of an open
  transaction of this task of which nothing was told, and the frame that begins it is the
  first with it, so what leaves with that frame is gone from the stack), that what is being
  ended is nobody else's (`EndingOK`), and that names of transactions are not used twice
  (`NamesApart`). `Aside` is what a step leaves of the tasks it is not about.
- `Rollback`: `Spec => []RollbackLeavesNothing`, if `Nesting = FALSE`. `RollbackInv` adds
  that everything entered inside a `rollback_scope` has its handle (`RollbackNested`) and
  that a task that waits to begin a transaction is in none (`OutermostWaits`); the run
  `database_nested` shows that the assumption is needed.

`WorkspaceProofs`, for any words, flags, columns, attributes, markers and bound on the
edits, and for any command lines of `luxid new` (`OptionsAssumption`):

- `TablesAreTheMigrations`: `Spec => []TablesFollowMigrations`. The property says nothing
  of the moment between a table and its record, so it is not inductive. `TablesInv` is: it
  counts the difference (`Drift`) between the tables and `Recorded`, the migrations
  recorded now or, once `up` or `down` has run, those that will be. Only the actions of the
  migrator change either, and `MigratorKeepsTables` shows that none of them adds to the
  difference: `up` and `down` change the table that they are about to record, `Fresh`
  empties both. A kill in the middle of a migration makes what would be recorded what is,
  and adds that one (`StopDrifts`). All need `CmdOK`, the shape of the record of each
  command, which `CommandStep` shows every step to keep.

The library's induction theorems take an operator as a parameter, which no prover here can
instantiate. `SequenceLemmas` goes around them: the intervals `0 .. n` are finite sets
ordered by inclusion, that order is well founded (`FS_StrictSubsetOrderingWellFounded`),
and `WFMin` takes a set, not a predicate. So a set of numbers has a least one
(`LeastOfNumbers`), a set closed under successor has them all (`SetInduction`), and a
function defined by recursion on a number can be reasoned about. `Among`, the members of a
sequence that lie in a set, is such a function: lemmas say what it is of a sequence with an
element appended, inserted or taken out, and how long it is. The chain of middleware, the
batches of the loaders and the errors of a form are others.

`GeneratorProofs`, for the same constants and from `WordsAssumption` and
`OptionsAssumption`. Its steps are those of `StepKinds`: a step leaves the files alone,
starts a plan, writes a file, inserts a line, changes a generated file, or is the developer
taking a marker out.

- `RegistriesNameWhatIsThere`: `Spec => []RegistriesAlwaysHold`. In the middle of a plan
  the property depends on the rest of the plan, so `WritingInv` says of what is left: its
  files are not there yet; each line registers something that is there or will be, is not
  in its file yet, and a box or a route comes after the module it names. That every plan of
  `make:model` is like that, whatever the flags, is `MakeModelIsGood`, put together part by
  part with `PlanOfTwo`; that it is not there yet is what the check for clashes gives, and
  that a file that is missing is registered nowhere is the property itself.
- `GeneratorsKeepWhatIsThere`: `Spec => GeneratorsOnlyAdd`, from the same invariant: a
  file is written where there was none, and an insertion puts one line in.
- `StatusFollowsDeclarations`: `Spec => []StatusInDeclarationOrder`. The status table is
  in order only because the applied migrations are the first of those declared; that
  depends on what a running command will still record, so `OrderInv` says it with what is
  left to do: what `up` runs are the next ones, what `down` runs the last ones backwards.
  A new migration must not come before an applied one, so `BoxesInv` says that every one
  declared is above the marker, as long as there is a marker.
- `FailuresAreExplained`: `Spec => []FailuresHaveACause`. `MarkersInv`: a marker that a
  generator looks for is in its file unless the developer took it out, and every file
  about to be written brings its own (`NewAppIsGood`, for each stack). `IndexesThere`:
  unless a command was stopped, the files that generators add to are there or about to be.
  A rollback fails if its table is gone, which `TablesInv` and `OrderInv` together exclude
  until a command is stopped.

`StackProofs`, for any settings, addresses, teams, page size and bound on the rows, from
`StackAssumption`, `NoneAssumption` and `ServedAssumption`. The last says of the lists of
the router only which action and which middleware answer the requests that are sent; it
stands for the tree of routes, whose walks are recursive operators, and the run `stack`,
whose lists are those the modelled router makes of `Application`, evaluates it. The
theorems hold for every other router that serves the same requests in the same way.

- `SiteIsSound`: `Spec => []Site`. `Site` describes what each client's session holds
  (`History`: the flash is that of the submission the session owes, if any; the remembered
  url is the last page), what each tab shows and is about to ask for (`Tab`), and what a
  request at the server is at each statement (`Servings`): its handler, the context the chain
  left it with and the outcome its action can have. It is inductive: the session, the tabs
  and the requests depend on each other. The chain of middleware is taken apart for the
  stacks that `ServedAssumption` names.
- From it follow `GuardsAreSound` (`GuardsBeforeActions`), `PagesAreComplete`
  (`PagesComplete`), `ErrorsAreShownOnce` (`ErrorsFollowTheSubmission`), `DeploysAreHarmless`
  (`DeploysCostNoInput`) and `BouncesAreToPages` (`BouncesLand`): each reads an answer, or a
  tab, of a request that `Site` describes.
- `DataIsSound`: `Spec => [](Site /\ Data)`. `Data` says of every row that it went through
  the hooks and has a key that was handed out, and of every request between its query and
  its write (`Watch`) that the address it found free is still free or that it was
  overtaken. Without the second part the first writer of a duplicate could not be blamed.
  `UniqueButForRaces` (`UniqueUnlessOvertaken`) and `HooksAreAround` (`HooksSurroundWrites`)
  follow.
- `StackTypes`: `Spec => []TypeOK`. The bound on keys needs `Rooms`, which counts the
  registrations that are under way.
- `ListingsAddUp`: `Spec => []PagesAddUp`. `Counts` says at the fetch that the total is the
  number of rows but for those that came or went since (`Tallied`), and from the fetch on
  that the page adds up with it. The rest is arithmetic of pages: the last page begins
  before the total and ends at or after it.
- `EagerLoads`: `Spec => EagerLoadIsTheJoin`. A loader goes through the children it
  fetched and files each under its key; by induction on the children, the batch under a
  key is the children that have it, in order, which `Among` of the table also is.

Only model-checked: `EveryCallReturns`, `WaitsEnd` and `CommandsEnd`, which are liveness
under fairness and out of the prover's reach; `RouteTableIsTrue`, which is about the two
recursive walks of the tree of routes, and that the lists they make are as
`ServedAssumption` says; of the workspace, its `TypeOK`, `ApplicationBuilds`,
`SyncedFilesAgree` and `SyncTouchesOnlyFields`, whose definitions fold over the lines of a
file with operators of the community modules, and `AppliedWhole`, which a proof could
reach from `RegistriesAlwaysHold` and `GeneratorsOnlyAdd` with what each plan lists. No
module with a theorem has or reaches a recursive operator.

## Plan

1. The session core (done): model, runs, violations, type correctness, isolation, dead ids.
2. The container (done): model, runs, violation, and all its safety properties proved.
3. The database scope (done): model, runs, violation, and its safety properties proved.
4. The workspace (done): generators, migrations and db:sync, with kills and edits; proved:
   the tables follow the migrations, the registries hold, generators only add, the status
   is in order, failures have a cause.
5. The stack (done): router, middleware chain, Inertia, validation, models and relations as
   one application with its clients; proved: every property but the agreement of the route
   table with what is served.
6. The serial session (done): its two invariants and the refinement of `SessionCell`
   proved.
7. Still worth doing: `ApplicationBuilds` and `SyncedFilesAgree`, for which the folds of
   db:sync would be recursive functions like `Among`; strict mode and nested relations; an
   application whose routes overlap, for the order of matching.

## Not modelled

- Configuration: a merge of tables, read once at start. What can go wrong in it is the
  mapping of environment names to dotted keys, which is string handling.
- Factories: builders of test data with a counter. Their files are in the workspace.
- OpenAPI: formatting of the route table, which is modelled.
- Signing, verification and expiry of tokens, and password hashing: cryptography and the
  clock's. A token is valid or not.
- What an instance in the container keeps of its dependencies (the captive scoped service
  of the hazard list): it depends on the application's graph alone.
- The frontend files of `luxid new`, and the text of every template: no command reads them.
- Parsing in the derive macros: what they generate is modelled where it runs.
- Relations of mixed key types, which `group_key` never matches: the model has one type.

# Verification of chargeflow-registry

TLA+ specifications of the OCPP schema registry: what its database transactions, its cache and
its concurrent callers may do to the schemas it hands out, what its gRPC and MCP handlers let through,
and how its process starts and ends; model-checked with TLC, and proved with TLAPS for the safety
properties of every part.

## 1. The system

The registry stores JSON schemas for OCPP messages. A schema is looked up by OCPP version,
action, message type and, optionally, vendor and model; a lookup for a vendor or model falls back
to the generic schema. Schemas are submitted, verified or rejected by an admin, and only verified
ones are served. Content is versioned: every accepted change appends to a changelog. Several
instances may run as a cluster; they share PostgreSQL and Redis and keep nothing else.

| component | source | state | operations | calls |
|---|---|---|---|---|
| domain model, migrations | `internal/schema/model.go`, `deployments/migrations` | tables `schemas`, `schema_versions`, their unique constraints, the seeded rows | - | - |
| repository | `internal/storage/postgres/repository.go` | the tables; a transaction and its locks per call | Get, Add, Upsert, Delete, UpdateStatus, List, ListVersions, GetVersion, ListVendorModels | PostgreSQL through gorm |
| cache | `internal/storage/redis/cache.go` | one entry per lookup, with a TTL | Get, Set, Delete | Redis |
| service | `internal/schema/service.go` | none of its own: local variables of calls in flight | Get, GetVersion, Add, AddPair, Upsert, Delete, ChangeStatus, listings | repository and cache, in separate calls |
| pagination | `internal/pagination/token.go` | none; the client carries the token | DecodeOffset, NextToken, ClampPageSize | - |
| validation | `internal/validation` | none; a compiler shared by all calls | ValidateMessage, ValidateMessages | service.Get once per message, an external validator |
| gRPC handlers | `internal/grpc` | none | one per rpc: checks, conversions, error codes | service, validation |
| MCP server | `internal/mcp` | an HTTP server | tools and resources that mirror most rpcs, with fewer checks | service, validation |
| process | `cmd/app` | settings, three servers and their goroutines, one context | configure, set up, serve, cancel, shut down | all of the above |
| migration command | `cmd/migrate` | none | up, down | goose |

**Interaction.** Handlers and MCP tools call the service. The service is a cache-aside: `Get` asks
Redis, then the repository, then fills Redis; writers change the repository and then evict keys,
ignoring whether that worked. Nothing ties the calls together: no transaction spans two repository
calls, no lock spans a repository call and a cache call.

**What is hard.** Two calls interleave between any two calls to repository or cache; Postgres
transactions interleave between any two statements and wait for each other's row locks and
uncommitted keys; a commit may be applied and its answer lost; a cache call may fail; a process may
die anywhere; a pair is two separate inserts with a compensating delete; a delete is two deletes and
up to four evictions; the cached answer to one lookup may be a copy of another (generic) row. Handlers
of two protocols check different things and meet in one table and one cache. The main goroutine and
three server goroutines end the process in four different ways (return, Fatal, panic, or waiting for a
stream that never ends), and which of them comes first is up to the scheduler.

**What makes each part correct.**

- *Repository*: at most one row per lookup key; the changelog is complete, append-only and in step
  with the row; no update is lost; an acknowledged write can be read back; waiting ends; and, seen
  from outside, every call is one atomic operation of a simple store.
- *Service with cache*: whatever is served or cached is one version of the row it claims to be, never a
  mixture; apart from the old versions `GetVersion` answers with, it has stood verified; an entry answers the lookup whose key it is stored under; with one call at a time
  and no failures the cache agrees with the repository; in any case staleness ends; pairs are added
  whole; a delete that succeeded has removed rows and entries.
- *Pagination*: a client that follows the tokens over unchanged rows meets each row exactly once, knows
  the last page for the last, and its walk ends.
- *Validation*: a report has one entry per message in order, each judged by a schema its own message
  names; every batch is answered.
- *Handlers, MCP*: what gRPC lets through has names for its version, action and message type; whatever
  the doors let through, only an admin decides on a status, and a changelog answer is about the schema
  that was looked up. (The two protocols do not refuse the same requests: the MCP tools check less.)
- *Process*: all servers come up or the process ends; a signal ends it; a clean exit has drained the
  gRPC servers; before a signal nothing that clients do ends the process, only a setting or an outage.
  (Shutdown does cut calls of the MCP server off: run `shutdown`.)

## 2. Modules

```
SchemaModel            lookup keys, documents, statuses, seeds
  SchemaStore          the abstract store: every repository operation is one step
    SchemaService      the cache-aside service on that store        MCSchemaService
      QuietService       the service watched for calls that meet    MCQuietService
      RegistryApi        gRPC and MCP handlers on the service       MCRegistryApi
      MessageValidation  batches of messages judged through it      MCMessageValidation
      SchemaServiceProofs          the service's invariant
        QuietServiceProofs           what calls that do not meet keep
        RegistryApiProofs            handlers and their calls
        MessageValidationProofs      batches and their calls
    SchemaListing      listings, pages and tokens                   MCSchemaListing
      SchemaListingProofs          walks over pages
  SchemaRepository     Postgres, one action per SQL statement       MCSchemaRepository
    (ImplementsStore: refines SchemaStore)
    SchemaRepositoryProofs         tables, transactions, replies
      SchemaRepositoryRefinement   ImplementsStore
Lifecycle              one run of the process                       MCLifecycle
  LifecycleProofs
```

**SchemaModel.** A slot is a lookup key. A member of `Docs` is a document up to what jsonb
normalises away. `Malformed` documents are not JSON; nothing ahead of the column type keeps them
out. `Decoded` is what `encoding/json` makes of a document, where two large integers may coincide
and a number beyond float64 does not decode: `JsonContentEqual` is built on it.

**SchemaStore.** `store` holds a row or nothing per slot; a row is an id, a status and the history of
its contents, so that its version is the length of the history. Ids are never reused.

**SchemaRepository.** `schemas` and `schema_versions` are the committed tables; `txn[c]` is the call
of client `c`: which statement comes next, its arguments, the row its snapshot saw, the row it holds,
the version it will write. A transaction's writes become visible at `Commit`. Waiting is a guard:
`RowFree` (row locks) and `SlotFree` (uncommitted inserts of the same key). A `SELECT ... FOR UPDATE`
or `DELETE` that waited looks again at the row of its snapshot and not at a row that took the key
since: READ COMMITTED re-evaluates the locked row, not the query. `Fail` is any failing statement,
lost connection or cancelled context, with its rollback; `CommitUnacknowledged` is a commit whose
answer is lost. `Add` inserts row and changelog entry in one transaction, `Upsert` selects, compares,
and updates or inserts; a `DELETE` takes the changelog with it (ON DELETE CASCADE); `UpdateStatus` is
an UPDATE and, outside any transaction, a read back.

**SchemaService.** `cache` maps keys to copies, `frame[p]` is a call in flight and stands at the next
call it makes to repository or cache. Keys are built as `cacheKey` builds them, name parts between
colons, "nil" for a nil pointer; names are sequences of parts. `Expire` is the TTL. `Crash` drops a
frame. The repository is `SchemaStore`, which `ImplementsStore` justifies, with these additions at its
interface: a write that fails may have been committed, an `Upsert` may fail because another call
inserted the row first, and the two queries of `Get` and the two statements of `UpdateStatus` are
separate steps, since no transaction joins them. `KeysDistinct` is what `cacheKey` relies on: joining
parts with colons and writing "nil" for a nil pointer is not injective, so two lookups share a key when
a vendor is called "nil" or a name contains colons. The instances avoid such names, and the theorems
that need it say so.

**QuietService.** What the service promises while nothing fails depends on which calls meet, since it
holds nothing across two calls to repository or cache. `met` is an observer beside `SchemaService`: it
remembers whether a read has run together with a write, whether anything but whole pairs has been
written, and which calls in flight have met no other. It guards nothing, and each property is stated
under the one condition it needs. `verified` remembers every version that has been a verified row's: neither
a row nor a copy tells, as a status belongs to the row and survives a revision, and `GetVersion` puts the
status of the copy it looked up onto the archived content (`OtherVersion`). `CopiesOnceVerified` says that
nothing but that answer may never have stood verified. `CoherentAtRest` is about the entry of each row, vendor rows included,
under its own key (`OwnEntryCurrent`); a copy of a generic row under a vendor key may outlive what it was
copied from even when no calls meet, since no write to the generic row evicts it.

**RegistryApi.** `call[p]` is a handler in process `p`: it waits for the service ("service"), or for the
second call of the changelog tool ("versions"). A request arrives as its fields do: enumerations are
numbers, known or not, a name may be empty or absent, a document may be empty or no JSON. `Handle`
refuses it or starts a call of `SchemaService` (`Valid...` are the checks of
`internal/grpc/handler.go` and of the validation and admin handlers), `Respond` turns the outcome into a
status code. The MCP tools pass strings on as they come, so a lookup may have an empty version or a
model without a vendor; `ResourceSlot` is a schema URI, whose query string filters nothing when it does
not parse. `ListSchemaVersionsTool` is the one handler that calls the service twice.

**SchemaListing.** `walk` is a client that asks for the first page and then follows the tokens; `got` is
what it has received. `Matching` is the WHERE clause of each listing, `Answers` every order the database
may choose under its ORDER BY, `Counts` the numbers the total may be: gorm decides whether the total of
`ListVendorModels` counts rows or distinct models. `Request` clamps the page size twice, in the handler
and in the service; `Count` and `Find` are two statements; `Fail` is either of them failing, after which
the client may send its token again. `QuerySchemas` is the MCP tool and resource that ask once, for the
largest page, and drop the token. The store changes by the steps of `SchemaStore` at any time, between
two pages and between the two statements of one request.

**MessageValidation.** `batch[p]` is a bulk validation of process `p`, which becomes a caller of the service
for each message: `LookUp` starts a `Get`, the service's own steps answer it, `Judge` compares. A single
`ValidateMessage` is a batch of one. `Refuse` is every message that is turned down before a lookup. The
adapter makes one thing of every error, "no schema", and what the validator library makes of that (a
violation or an error) is left open; an error ends the batch.

**Lifecycle.** `outage` says of a run whether set-up, ports and listeners may fail in it. `main` is where the main goroutine of `cmd/app` stands, from the configuration through
set-up, the three listeners and the wait for a signal to the deferred shutdowns, the last deferred first;
`goroutine[s]` is the goroutine of each server. `Fatal` and panics (`Die`) end the process at once,
without deferred functions, and cut every call in flight off. `Stop` and `Drain` are the two halves of
GracefulStop, which waits for streams without limit; `StopMcp` does not wait, as its context is cancelled
already; a `Serve` that comes after the stop fails. `PanicMcp` takes every error of the MCP server's
`Start` for a failure, the one that a regular shutdown provokes included. `call[c]` is the last call or
stream of a client and what became of it.

## 3. Runs

| run | instance | what it checks |
|---|---|---|
| `repository` | 1 slot with its seeded row, 2 clients, 2 documents and a malformed one, 3 Add/Upsert calls and any number of others, all faults | types, `UniqueRows`, `ChangelogComplete`, `LockDiscipline`, `AcknowledgedIsLogged`, `RevisionStep`, `LogImmutable`, refinement `ImplementsStore` |
| `repository_calls` | the same without faults and malformed documents, fair locks | `PresentUpsertSucceeds`, `CallsReturn` |
| `api` | the seeded request/response pair and a lookup without a version, 2 handlers at a time, every operation of both protocols, a good request and one for each thing that may be wrong with it, 2 writes, pages of 2 versions, all faults and crashes | types, `CopiesAuthentic`, `EntriesAnswerLookup`, `GrpcCallsNamed`, `ChangelogAboutSchema`, `StatusDecided` |
| `service_fallback` | a vendor slot and its generic one, 2 calls at a time, 2 writes, lost evictions and crashes, fairness | `CopiesAuthentic`, `EntriesAnswerLookup`, `EventuallyCoherent` |
| `service_quiet` | the pair, 2 calls at a time, `GetVersion` of 2 versions (which begins as a `Get` does, and is one when the version is the current one) and every operation that writes, 3 writes, malformed documents, nothing fails | types, `CoherentAtRest`, `PairsWhole`, `DeletedIsGone`, `CopiesOnceVerified` |
| `listing` | 4 slots of one vendor (3 seeded, a request and response that tie), 3 page sizes, 2 writes, failing statements, fairness | types, `SteadyWalkExact`, `SingleAnswerComplete`, `ChangelogWalkMissesNothing`, `EmptyTokenOnLastPage`, `WalksEnd` |
| `validation` | batches of 2 messages by one process, 1 write and any reads by another, a vendor request and its generic one in force, crashes, fairness | types, `VerdictsAuthentic`, `QuietBatchCurrent`, `BatchesReturn` |
| `lifecycle` | every combination of 4 settings given, empty or not given, 2 clients with calls and streams, all faults, fairness | types, `CleanExitDrained`, `EndsForAReason`, `UpOrOut`, `SignalEndsProcess` |

`api` runs the whole service below the handlers, so the service has no run of its own with every
operation and every fault. `service_fallback` adds what the handlers' instance has no vendor rows for,
`service_quiet` what only holds while nothing fails.

Violations the code shows, each against a sentence of its own documentation:

| run | property | what happens |
|---|---|---|
| `rounded_integers` | `AcknowledgedIsStored` | documents that differ only in integers above 2^53 compare equal as float64: the upsert succeeds and stores nothing |
| `stale_fill` | `RejectedNotServed` | a `Get` that read the row before a rejection caches it after the eviction |
| `delete_error` | `DeletedIsGone` | `Delete` drops repository errors and returns nil with the rows in place |
| `shutdown` | `ShutdownGraceful` | a server that has been told to stop cuts calls off: MCP because its context is cancelled already, the gRPC servers because the MCP goroutine panics while they drain |

Met on the way and recorded as hazards only: gorm is opened without `TranslateError`, so `Add` of an
existing key is never `ErrAlreadyExists`, which `internal/schema/repository.go:31` promises; verifying a
vendor row leaves the generic copy cached under its key; rows that tie in the order of `List` may be
listed twice and others not at all; a write between the count and the page of a listing gives a token
for an empty page, or none with rows left; an upsert leaves a verified row verified, and a decision
names no version, so an admin may verify content nobody reviewed; a `GetVersion` that looked a verified row
up before it was rejected and revised answers with the new content, which nobody has verified, under the
label verified; a signal before the MCP server exists
may leave the process waiting for a stream for ever; the validation adapter hides an outage of the registry as a missing
schema; a rejected generic row stays cached under vendor keys that fell back to it; the rollback of a
pair may fail, or remove a row another caller inserted in the meantime; an `AddPair` and a `Delete`
interleave to half a pair; a vendor called "nil" shares the key of the generic lookup; an upsert of an
unchanged document with a number beyond float64 appends a version; `UpdateStatus` of a row deleted
before the read back is not `ErrNotFound`.

**Bounds.** Two clients are what it takes for every conflict of the code: each lock or key has one
holder and one waiter, and every race is of one reader or writer with another. One slot is enough for
the repository because statements of different slots share nothing but the id counter. `MaxCalls` = 3
lets a row be deleted, added again and updated while a fourth call, a `Delete` or `UpdateStatus` that
counts against no bound, waits. Two valid documents make every pair of contents (equal, different, back
again) occur. `MaxWrites` = 2 in the service puts two writers between the steps of one reader, or one
writer after another; readers are not counted. `MaxVersion` = 2 asks for the current, an older and a
missing version, and in `service_quiet` for the one that is stored only after the row was rejected. In `listing` the 3 and 4 matching rows make walks of one to four pages, with ties at a
page boundary, and 2 writes are an append or removal before, between or after two pages; `OffsetLimit` = 8
lies beyond every offset there is (with a limit of 2 TLC finds the walk that wraps and never ends). In `api` two
handlers are a changelog tool or a read and one writer; 2 writes with two documents make a third version,
one more than `MaxPageSize` = 2 holds, and delete a row and add it again between the two calls of the
changelog tool. In `lifecycle` two clients are one call on each of two servers, or two on one, when the
process ends. In `validation`
two messages are what an order, an error after an entry and a change between two lookups take. Ids need
no bound of their own, inserts being bounded by the calls. Symmetry (of clients or processes) is used
only where a run has no liveness property.

**Deadlock** is checked in every run but `lifecycle` and `shutdown`, whose process ends: elsewhere the
system may always start a `Delete` or a `Get`, so what TLC would report is a state in which everyone
waits.

**Fairness.** `SchemaRepository`: strong fairness of the statements of a call in flight. Postgres
queues the waiters of a lock in order of arrival, so a waiter whose lock is free again and again gets
it. `SchemaService`: weak fairness of the calls in flight (a step of the service waits for nobody) and
of expiry (every entry is stored with a TTL). No fairness makes a caller call; in particular
`EventuallyCoherent` needs no reader. `SchemaListing`: the client goes on while it has a token, and a request
that is repeated again and again gets through (strong fairness of `Count` and `Find`), since `Fail` may
always happen instead. `MessageValidation`: weak fairness of a batch and of the calls it makes.
`Lifecycle`: weak fairness of the main goroutine, of each server's goroutine and of the answer to a call
(the scheduler runs them and handlers return); nobody has to send a signal, to call or to hang up, so
that a stream may keep GracefulStop waiting for ever.

**Mutants.** Next to a definition, named after it and marked `Mutant`, stands the form a plausible bug
would give it. Each property of a passing run has one that violates it.

## 4. Proofs

For any number of clients, slots, documents, calls, requests and seeds and, unless a condition is named,
with or without faults and crashes:

| theorem | module | says |
|---|---|---|
| `TypeCorrect` | `SchemaRepositoryProofs` | `[]TypeOK` |
| `RowsStayUnique` | `SchemaRepositoryProofs` | `[]UniqueRows`: no two rows share a lookup key or an id |
| `ChangelogStaysComplete` | `SchemaRepositoryProofs` | `[]ChangelogComplete`: each version of each row once, the last as in the row, none without a row |
| `PendingWritesStayCurrent` | `SchemaRepositoryProofs` | `[]LockDiscipline`: what was read FOR UPDATE is true until the transaction ends |
| `RowsAreRevised` | `SchemaRepositoryProofs` | `RevisionStep`: no update is lost |
| `ChangelogIsAppendOnly` | `SchemaRepositoryProofs` | `LogImmutable` |
| `AcknowledgedStaysLogged` | `SchemaRepositoryProofs` | `[]AcknowledgedIsLogged`: an acknowledged write can be read back |
| `PresentUpsertsSucceed` | `SchemaRepositoryProofs` | `[]PresentUpsertSucceeds`, if nothing fails (`Faults = FALSE`) |
| `RepositoryImplementsStore` | `SchemaRepositoryRefinement` | `ImplementsStore`: every call is one step of `SchemaStore`, or none |
| `TypeCorrect` | `SchemaServiceProofs` | `[]TypeOK` |
| `CopiesStayAuthentic` | `SchemaServiceProofs` | `[]CopiesAuthentic`: whatever is cached, held or returned is one version of the row it names, labelled verified |
| `LookupsAnswered` | `SchemaServiceProofs` | `[]EntriesAnswerLookup`, if `KeysDistinct` |
| `QuietTyped` | `QuietServiceProofs` | `[]QuietTypeOK` |
| `CopiesWereVerified` | `QuietServiceProofs` | `[]CopiesOnceVerified`: apart from the old versions `GetVersion` answers with, it has stood verified |
| `CacheCoherentAtRest` | `QuietServiceProofs` | `[]CoherentAtRest`, if `NoFaults` and nobody dies |
| `PairsStayWhole` | `QuietServiceProofs` | `[]PairsWhole`, if `NoFaults`, nobody dies and `SeedsPaired` |
| `DeletedStaysGone` | `QuietServiceProofs` | `DeletedIsGone`, if `NoFaults` |
| `ApiTypeCorrect` | `RegistryApiProofs` | `[]ApiTypeOK`: a changelog answer never exceeds a page |
| `ApiCopiesStayAuthentic` | `RegistryApiProofs` | `[]CopiesAuthentic` of the service as the handlers drive it |
| `GrpcCallsAreNamed` | `RegistryApiProofs` | `[]GrpcCallsNamed`, for any request on the wire |
| `StatusesAreDecided` | `RegistryApiProofs` | `StatusDecided`: only an admin's call changes a status |
| `ChangelogsAboutTheirSchema` | `RegistryApiProofs` | `[]ChangelogAboutSchema`: whatever happens between the two calls of the tool |
| `ValidationTypeCorrect` | `MessageValidationProofs` | `[]BatchTypeOK`: an entry per message or an error and none |
| `VerdictsStayAuthentic` | `MessageValidationProofs` | `[]VerdictsAuthentic`, if `KeysDistinct` |
| `QuietBatchesCurrent` | `MessageValidationProofs` | `[]QuietBatchCurrent`, if `KeysDistinct` |
| `ListingTyped` | `SchemaListingProofs` | `[]TypeOK`: offsets and page sizes within their limits |
| `SingleAnswersComplete` | `SchemaListingProofs` | `[]SingleAnswerComplete`: every matching row or a full page |
| `TokensWhereRowsAreLeft` | `SchemaListingProofs` | `EmptyTokenOnLastPage` |
| `SteadyWalksExact` | `SchemaListingProofs` | `[]SteadyWalkExact`, if `TokensFit` |
| `ChangelogWalksMissNothing` | `SchemaListingProofs` | `[]ChangelogWalkMissesNothing` |
| `TypeCorrect` | `LifecycleProofs` | `[]TypeOK` |
| `CleanExitsAreDrained` | `LifecycleProofs` | `[]CleanExitDrained` |
| `EndsOnlyForAReason` | `LifecycleProofs` | `[]EndsForAReason`: before a signal the process ends over its settings or in an outage only |

**Repository.** The properties do not carry themselves through a step: that a commit keeps the changelog complete needs
that the version it writes is still the next one, and that a commit of an insert keeps rows unique needs
that nobody else has inserted the key. `LockDiscipline` says both, of every transaction about to commit,
and is itself kept only because a statement that would break it waits (`RowFree`, `SlotFree`); with
`IdsAssigned` (ids in use have been handed out) the conjunction `IInv` is inductive. The action
properties follow from it, since the tables change by a commit, a DELETE and the UPDATE of a status only
(`TableChanges`). `AcknowledgedIsLogged` needs more of each call: that an Upsert which found its content
stored still holds the row it found, that ids are not used again, and which replies belong to which
calls (`RepliesBacked`). `PresentUpsertsSucceed` adds what serialises the writers of a row (`Served`):
an Upsert that saw a row works on that row to its end or the row is gone for ever, so that it inserts,
and runs into another's key, only when it is excused. The refinement computes the history of a row before and after each of the four
steps that change a table, with lemmas about any consistent pair of tables (`HistoryAt`, `HistoryKept`,
`ImageSame`).

**Service.** A copy is genuine while its row holds its content at its version. A step of the store keeps
that (`StoreKeeps`): a history only grows, a row that goes takes its id along, and no id is handed out
twice, which is `StoreInv`. So it is enough that every copy was genuine when it came into being: from a
verified row (`CopyGood`), or from its history for an archived version (`ArchivedGood`). `IInv` adds to
`CopiesAuthentic` where a call may have a copy in hand (`FrameOK`); without that an eviction or a status
change, which replaces the slot of a frame, would have to be shown to leave the copy's slot right. That
an entry answers its lookup holds under `KeysDistinct` only, so `IInv` carries it as an implication
(`Answering`), and one invariant serves both theorems.

**Quiet service.** `Watched` adds to the service's `IInv` that the observer is right about which calls
are in flight together, and that where a call stands fits its operation. On it rest three invariants.
`Withdrawals`: as long as no read met a write, every entry under a row's own key is current or some
call in flight is still to evict it, and a copy in hand is current; at rest nobody is left to evict.
`Halves`: half a pair belongs to a call that is adding or deleting it, to one call only for the adding,
since the insert of the request keeps all others out. A crash breaks it at once, hence the condition;
`SeedsPaired` is what migration 003 does. `Gone`: a Delete that is alone finds what it has removed still
removed. Crashes may be allowed there, as a caller that dies does nothing any more. `Remembered`, behind
`CopiesOnceVerified`, is a fourth invariant that stands on `IInv` alone, with any failures and crashes: what
is cached or in hand is in `verified`, or another version of a row that is, in the answer of a `GetVersion`.
A read takes its copy from a row that is verified at that moment, and `verified` only grows.

**Handlers.** A handler starts only calls the service knows, so `IInv` carries over. `ApiInv` adds what
ties a handler to its call: no call in flight without a handler, only an admin's handler in front of a
status change, and the slot a gRPC handler asked for is the slot of its call until that returns. The
last needs that a call goes on about the slot it began with (`StepOnward`), which is true of all steps
but the read back of a decision. `StatusDecided` follows from it, since of all steps of the store only
the UPDATE of a status changes one (`StoreStep`). The changelog tool keeps the copy it looked up across a
second call: `HandInv` says that it stays genuine, by `StoreKeeps`, so that the versions listed by its id
are of the same row, or there are none because the row is gone; its own version is among them unless
newer ones fill the page.

**Validation.** `VInv` says of every entry that it is about the message at its position (`EntryOK`), and of a
batch that waits that its call is about the slot of the next message, so that the copy it returns answers
that message (`StepOnward` again). An entry outlives the call it came from, so its schema has to stay
genuine by itself: `StoreKeeps`, applied to `JudgedBy`. `InForce` is about quiet batches: while the
registry does not change, what is in force goes in a circle, from the rows to the calls that carry it
(`Carries`), to the cache (`Coherent`) and from there to the calls again, so that what a call returns
(`Answered`) and what a batch has been judged by (`JudgedNow`) is in force. A batch is quiet only if it
began on a coherent cache with no call in flight: that is where the circle starts.

**Listings.** `BaseInv` says of a request in progress what it knows: while no write came between, its
total is one the database may count. A walk over a registry at rest may get each page from a different
order of the rows, as long as the ORDER BY holds. `SameKeys` is what makes pages fit together
nevertheless: any two orders of the same rows have the same sort key at each position, by the pigeonhole
principle. `Agrees` says that the client has the first rows of any of them up to ties, and where nothing
ties that determines the rows. `TokensFit` says that no offset wraps: rows and versions are fewer than
`OffsetLimit`, which is 2^32 in the code. A changelog that grows does so at its front: `Trail` says that
a version the client has not got is beyond the offset, counted from the newest one.

**Process.** main reaches its last stage only past both drains, and a server that was told to stop takes no
call after its drain: `Drained` says how far the deferred functions have got and what they leave behind,
and makes `IInv` inductive together with `NothingCut`, that only the end of the process cuts calls off.
`Untroubled` is behind `EndsForAReason`: while the run is `Calm` (no outage, valid settings, no address given
twice, no signal) nothing has been stopped and no listener is open before its server opens it, so that each
finds its address free and `Start` of the MCP server has no error to panic over.

Assumed are only the named assumptions of the constants (`SlotsAssumption`, `DocsAssumption`,
`SeedAssumption`, `NoRowAssumption`, `RepositoryAssumption`, `AbsenceAssumption`, `LookupAssumption`,
`ServiceAssumption`, `NoEntryAssumption`, `ApiAssumption`, `ValidationAssumption`, `ListingAssumption`,
`LifecycleAssumption`), which TLC evaluates on its instances, and the conditions of the theorems that
state one: `KeysDistinct` (three theorems), `TokensFit`, `SeedsPaired`, and that nothing fails
(`NoFaults`, `Faults = FALSE`) or nobody dies (`Crashes = FALSE`). The runs of the same properties meet
these conditions, and the properties need them: with `Crashes = TRUE` TLC violates `CoherentAtRest` and
`PairsWhole`, with `Faults = TRUE` `PresentUpsertSucceeds`, with an `OffsetLimit` of 2 `SteadyWalkExact`,
with a vendor called "nil" `EntriesAnswerLookup`; run `delete_error` is `DeletedIsGone` with faults.

Model-checked only: the liveness properties `CallsReturn`, `EventuallyCoherent`, `WalksEnd`,
`BatchesReturn`, `UpOrOut` and `SignalEndsProcess`, which are out of the prover's reach. Every other
property of the passing runs is a theorem.

## 5. Not modelled

Times (`created_at`, `updated_at`), column widths, tracing (`internal/schema/otel.go`), logging,
formatting of errors; the conversion of rows to replies; the generated protobuf code and the mocks;
filters of the listings other than vendor and status; the declarations of MCP tools, which nothing
enforces; the address of Redis among the settings; the validator and the schema compiler (libraries:
`Conforms` and `Uncompiled` stand for them). A pagination token that does not decode is refused and
changes nothing. Two instances that start at the same time are two calls of `SchemaService` and share
nothing else. The `migrate` command runs before the application and is left out for good.

## 6. Plan

*Done*: the repository and its refinement, the service with its cache, listings and pagination,
validation, the handlers of both protocols, the life cycle of the process; all their safety properties
proved.

*Left*: what liveness rests on can be proved as far as it is safety, first of all that waiting clients of
the repository do not wait for each other in a circle.

----------------------------- MODULE SchemaListing -----------------------------
(***************************************************************************)
(* Listings page by page: SearchSchemas, ListSchemaVersions and            *)
(* ListVendorModels of the gRPC handlers and ListSchemas of the admin,     *)
(* through the service to List, ListVersions and ListVendorModels of the   *)
(* Postgres repository, with the tokens of internal/pagination.            *)
(*                                                                         *)
(* A walk is a client that follows the tokens from the first page on.  The *)
(* server keeps nothing of it between two requests, and a request is two   *)
(* statements, Count and Find, in no transaction: the registry changes     *)
(* between pages and between the two statements.                           *)
(*                                                                         *)
(* The MCP tool query_schemas and the resource schemas:// make one request *)
(* for as many rows as a page may have, and drop the token.                *)
(***************************************************************************)
EXTENDS SchemaStore, FiniteSets, Functions

CONSTANTS
  Vendors, Model0,   \* vendors to ask for; the nil model pointer
  AnyVendor,         \* a search that names no vendor
  Rank,              \* the order of Postgres on names, nil last
  PageSizes,         \* page sizes clients ask for
  DefaultPageSize, MaxPageSize,
  OffsetLimit,       \* offsets token.Offset can hold, 2^32 in a uint32
  MaxWrites,         \* bound: changes of the registry in a behaviour
  Faults             \* whether statements may fail

ASSUME ListingAssumption ==
  /\ \A s \in Slots : {s.version, s.vendor, s.model, s.action} \subseteq DOMAIN Rank
  /\ \A n \in DOMAIN Rank : Rank[n] \in Nat
  /\ PageSizes \subseteq Int
  /\ DefaultPageSize \in 1 .. MaxPageSize /\ MaxPageSize \in Nat
  /\ OffsetLimit \in Nat \ {0} /\ MaxWrites \in Nat
  /\ Faults \in BOOLEAN
  /\ IsFiniteSet(Seeded)

VARIABLES
  walk,    \* the client's walk and the request it waits for
  writes   \* changes of the registry so far

vars == <<store, nextId, walk, writes>>

-----------------------------------------------------------------------------
(* What a query selects, and in which order. *)

Queries ==
       [kind : {"versions"}, id : 1 .. nextId]
  \cup [kind : {"models"}, vendor : Vendors]
  \cup [kind : {"schemas"}, vendor : Vendors \cup {AnyVendor}, status : Statuses \cup {"any"}]

\* WHERE of List: a filter that is not set matches every row.
ListedSlots(q) ==
  {s \in Slots : /\ Present(s)
                 /\ q.vendor \in {AnyVendor, s.vendor}
                 /\ q.status \in {"any", store[s].status}}

\* WHERE of ListVendorModels: verified rows of the vendor that name a model.
ModelSlots(v) ==
  {s \in Slots : /\ Present(s)
                 /\ s.vendor = v
                 /\ s.model # Model0
                 /\ store[s].status = "verified"}

VendorModels(v) == {[version |-> s.version, vendor |-> v, model |-> s.model] : s \in ModelSlots(v)}

\* The changelog of a row that is gone is empty.
Versions(id) == IF Live(id) THEN 1 .. Version(RowOf(id)) ELSE {}

Matching(q) == CASE q.kind = "versions" -> Versions(q.id)
                 [] q.kind = "models"   -> VendorModels(q.vendor)
                 [] q.kind = "schemas"  -> ListedSlots(q)

\* SELECT count: of the rows; whether gorm keeps the DISTINCT of three columns in
\* the count is its own affair, so either number is possible.
Counts(q) ==
  {Cardinality(Matching(q))}
    \cup (IF q.kind = "models" THEN {Cardinality(ModelSlots(q.vendor))} ELSE {})

\* ORDER BY, as a sequence of numbers: version DESC; ocpp_version, model; and
\* ocpp_version, vendor, model, action, which tells a request from its response
\* by nothing.
SortKey(q, x) ==
  CASE q.kind = "versions" -> <<-x>>
    [] q.kind = "models"   -> <<Rank[x.version], Rank[x.model]>>
    [] q.kind = "schemas"  -> <<Rank[x.version], Rank[x.vendor], Rank[x.model], Rank[x.action]>>

Before(a, b) == \E i \in DOMAIN a : a[i] < b[i] /\ \A j \in 1 .. i - 1 : a[j] = b[j]

InOrder(q, seq) ==
  \A i, j \in DOMAIN seq : i < j => ~Before(SortKey(q, seq[j]), SortKey(q, seq[i]))

\* Every order the database may answer in: rows that tie come in any.
Answers(q) ==
  {a \in Injection(1 .. Cardinality(Matching(q)), Matching(q)) : InOrder(q, a)}

\* LIMIT and OFFSET.
Page(rows, offset, limit) ==
  SubSeq(rows, offset + 1, IF offset + limit < Len(rows) THEN offset + limit ELSE Len(rows))

-----------------------------------------------------------------------------
(* Page sizes and tokens. *)

\* ClampPageSize of the handler, then clampPageSize of the service.
ClampPageSize(size) == IF size <= 0 THEN DefaultPageSize
                       ELSE IF size > MaxPageSize THEN MaxPageSize ELSE size
ServicePageSize(limit) == IF limit = 0 THEN DefaultPageSize
                          ELSE IF limit > MaxPageSize THEN MaxPageSize ELSE limit

NoToken == -1

\* Mutants: a token one row too far; one that ends the walk one row early; one
\* also after an empty page.
NextTokenSkipping(offset, returned, total) ==
  IF returned <= 0 \/ offset + returned >= total THEN NoToken ELSE offset + returned + 1
NextTokenEarly(offset, returned, total) ==
  IF returned <= 0 \/ offset + returned + 1 >= total THEN NoToken ELSE offset + returned
NextTokenAfterNothing(offset, returned, total) ==
  IF offset + returned >= total THEN NoToken ELSE offset + returned

\* The offset the next page starts at, as a token carries it.
NextToken(offset, returned, total) ==
  IF returned <= 0 \/ offset + returned >= total
    THEN NoToken
    ELSE (offset + returned) % OffsetLimit

-----------------------------------------------------------------------------
Pcs == {"idle", "hold", "count", "find", "done"}

\* single: one request is all there is; first: what matched when the walk began;
\* steady: nothing has changed since; split: something has, between the two
\* statements of a request.
NoWalk == [pc |-> "idle", query |-> [kind |-> "versions", id |-> 1], offset |-> 0,
           limit |-> 0, total |-> 0, got |-> <<>>, single |-> FALSE,
           first |-> {}, steady |-> TRUE, split |-> FALSE]

TypeOK ==
  /\ StoreTypeOK
  /\ walk.pc \in Pcs
  /\ walk.query \in Queries
  /\ walk.offset \in 0 .. OffsetLimit - 1
  /\ walk.limit \in 0 .. MaxPageSize
  /\ walk.total \in Nat
  /\ {walk.single, walk.steady, walk.split} \subseteq BOOLEAN
  /\ writes \in 0 .. MaxWrites

Init ==
  /\ StoreInit
  /\ walk = NoWalk
  /\ writes = 0

Unchanged == UNCHANGED <<store, nextId, writes>>

\* A client sets out, without a token.
Begin(q) ==
  /\ walk.pc \in {"idle", "done"}
  /\ walk' = [NoWalk EXCEPT !.pc = "hold", !.query = q, !.first = Matching(q)]
  /\ Unchanged

\* Users search verified schemas only; admins list those of any status.
SearchSchemas(v) == Begin([kind |-> "schemas", vendor |-> v, status |-> "verified"])
ListSchemas(st)  == Begin([kind |-> "schemas", vendor |-> AnyVendor, status |-> st])

ListSchemaVersions(id) == Begin([kind |-> "versions", id |-> id])
ListVendorModels(v)    == Begin([kind |-> "models", vendor |-> v])

\* Mutant: the page size a client that names none gets.
SinglePageDefault == DefaultPageSize

SinglePage == MaxPageSize

\* query_schemas and schemas:// ask once.
QuerySchemas(v) ==
  /\ walk.pc \in {"idle", "done"}
  /\ LET q == [kind |-> "schemas", vendor |-> v, status |-> "verified"] IN
     walk' = [NoWalk EXCEPT !.pc = "count", !.query = q, !.first = Matching(q),
                            !.single = TRUE, !.limit = ServicePageSize(SinglePage)]
  /\ Unchanged

\* It sends the token it holds, with any page size.
Request(size) ==
  /\ walk.pc = "hold"
  /\ walk' = [walk EXCEPT !.pc = "count", !.limit = ServicePageSize(ClampPageSize(size))]
  /\ Unchanged

\* A vendor without verified models is ErrNotFound.
Count ==
  /\ walk.pc = "count"
  /\ \E n \in Counts(walk.query) :
       walk' = [walk EXCEPT !.total = n,
                            !.pc = IF walk.query.kind = "models" /\ n = 0 THEN "done" ELSE "find"]
  /\ Unchanged

\* The page goes to the client with the token for the next one.
Find ==
  /\ walk.pc = "find"
  /\ \E rows \in Answers(walk.query) :
       LET page == Page(rows, walk.offset, walk.limit)
           next == IF walk.single THEN NoToken
                                  ELSE NextToken(walk.offset, Len(page), walk.total) IN
       walk' = [walk EXCEPT !.got = @ \o page,
                            !.pc = IF next = NoToken THEN "done" ELSE "hold",
                            !.offset = IF next = NoToken THEN @ ELSE next]
  /\ Unchanged

\* A statement fails: the client still has its token and may try again, or asks
\* its single question anew.
Fail ==
  /\ Faults
  /\ walk.pc \in {"count", "find"}
  /\ walk' = IF walk.single THEN NoWalk ELSE [walk EXCEPT !.pc = "hold"]
  /\ Unchanged

\* Another caller changes the registry.
Write ==
  /\ writes < MaxWrites
  /\ StoreNext
  /\ writes' = writes + 1
  /\ walk' = [walk EXCEPT !.steady = FALSE, !.split = @ \/ walk.pc = "find"]

Next ==
  \/ \E v \in Vendors \cup {AnyVendor} : SearchSchemas(v) \/ QuerySchemas(v)
  \/ \E st \in Statuses \cup {"any"} : ListSchemas(st)
  \/ \E id \in 1 .. nextId : ListSchemaVersions(id)
  \/ \E v \in Vendors : ListVendorModels(v)
  \/ \E size \in PageSizes : Request(size)
  \/ Count \/ Find \/ Fail \/ Write

Spec == Init /\ [][Next]_vars

\* The client goes on while it has a token, and a request that is repeated again
\* and again is answered at some time.  Nobody has to begin a walk.
FairSpec ==
  /\ Spec
  /\ WF_vars(\E size \in PageSizes : Request(size))
  /\ SF_vars(Count)
  /\ SF_vars(Find)

-----------------------------------------------------------------------------
(* Properties *)

Untied(q, S) == \A x, y \in S : SortKey(q, x) = SortKey(q, y) => x = y

\* Page by page, with any mixture of page sizes and failed attempts, a client gets
\* of a registry at rest as many rows as match, in their order, and each row once
\* unless the order leaves rows tied.
SteadyWalkExact ==
  (walk.pc = "done" /\ walk.steady /\ ~walk.single) =>
    /\ Len(walk.got) = Cardinality(walk.first)
    /\ InOrder(walk.query, walk.got)
    /\ Range(walk.got) \subseteq walk.first
    /\ Untied(walk.query, walk.first) => Range(walk.got) = walk.first

\* The one answer of query_schemas has every row that matches, tied or not, or is
\* full: what it leaves out it leaves out for its size.
SingleAnswerComplete ==
  (walk.pc = "done" /\ walk.steady /\ walk.single) =>
    Range(walk.got) = walk.first \/ Len(walk.got) = MaxPageSize

\* Newest first and append only: whatever is upserted between two pages shifts the
\* changelog towards the client, who may meet an entry twice but misses none that
\* was there when the walk began, unless the row is deleted.  (An upsert between
\* the two statements of a request makes the walk end one entry early.)
ChangelogWalkMissesNothing ==
  (walk.pc = "done" /\ walk.query.kind = "versions" /\ Live(walk.query.id) /\ ~walk.split) =>
    walk.first \subseteq Range(walk.got)

\* schema.proto:66-67 and 154-156: the token is "Empty when this is the last page",
\* and only then: a page that leaves rows behind it comes with one, unless the
\* registry changes between the two statements of a request.  (Models are left
\* aside, their count being open, and single requests, which drop the token.)
EmptyTokenOnLastPage ==
  [][ LET reached == walk.offset + Len(walk'.got) - Len(walk.got) IN
      (/\ walk.pc = "find" /\ walk'.got # walk.got
       /\ walk.query.kind # "models" /\ ~walk.single /\ ~walk.split) =>
        (walk'.pc = "done" <=> reached >= Cardinality(Matching(walk.query))) ]_vars

\* The tokens lead somewhere: every walk comes to an end.
WalksEnd == walk.pc = "hold" ~> walk.pc = "done"

================================================================================

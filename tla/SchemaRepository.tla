---------------------------- MODULE SchemaRepository ----------------------------
(***************************************************************************)
(* internal/storage/postgres/repository.go on Postgres in READ COMMITTED   *)
(* isolation, one action per SQL statement.                                *)
(*                                                                         *)
(* A client is one call in flight (a goroutine with its own connection; in *)
(* a cluster the clients are spread over the instances, which changes      *)
(* nothing here).  A transaction's writes are invisible until Commit, so   *)
(* they are kept in its txn record and published by Commit.  A row that a  *)
(* transaction has locked or changed makes every other statement that      *)
(* needs that row wait, and an uncommitted insert makes an insert with the *)
(* same key wait: an action whose guard fails is a statement that waits.   *)
(*                                                                         *)
(* The DELETE and the UPDATE of the status are transactions of one         *)
(* statement: their effect and their commit are one action.                *)
(***************************************************************************)
EXTENDS SchemaModel

CONSTANTS
  Clients,         \* concurrent callers
  MaxCalls,        \* bound: Add and Upsert calls in a behaviour
  Faults,          \* whether statements, connections and contexts may fail
  TranslateError   \* gorm.Config.TranslateError

ASSUME RepositoryAssumption ==
  /\ MaxCalls \in Nat
  /\ Faults \in BOOLEAN
  /\ TranslateError \in BOOLEAN

VARIABLES
  schemas,          \* committed rows of table schemas
  schema_versions,  \* committed rows of table schema_versions
  nextId,           \* the next id gen_random_uuid() returns
  txn,              \* each client's call and the transaction it runs
  calls             \* Add and Upsert calls so far

vars == <<schemas, schema_versions, nextId, txn, calls>>

NoId == 0

Ops == {"none", "Add", "Upsert", "Delete", "UpdateStatus"}
Pcs == {"idle", "select", "insert", "update", "log", "commit", "release",
        "delete", "setstatus", "reread"}
Replies == {"none", "ok", "not_found", "already_exists", "error"}

SchemaRow  == [id : Nat, slot : Slots, schema : Docs, status : Statuses, version : Nat]
VersionRow == [schema_id : Nat, version : Nat, schema : Docs]
Txn == [pc : Pcs, op : Ops, slot : Slots, doc : Docs, status : Statuses,
        seen : Nat,      \* the row the statement's snapshot holds for the slot
        id : Nat,        \* the row the call works on, NoId for one being inserted
        version : Nat,   \* the version the call will report
        reply : Replies]

NoTxn == [pc |-> "idle", op |-> "none", slot |-> AnySlot, doc |-> AnyDoc,
          status |-> "submitted", seen |-> NoId, id |-> NoId, version |-> 0,
          reply |-> "none"]

TypeOK ==
  /\ schemas \subseteq SchemaRow
  /\ schema_versions \subseteq VersionRow
  /\ nextId \in Nat
  /\ txn \in [Clients -> Txn]
  /\ calls \in 0 .. MaxCalls

RowsAt(s)   == {r \in schemas : r.slot = s}
RowsWith(i) == {r \in schemas : r.id = i}
LogOf(i)    == {e \in schema_versions : e.schema_id = i}
IdAt(s)     == IF RowsAt(s) = {} THEN NoId ELSE (CHOOSE r \in RowsAt(s) : TRUE).id

\* Mutant: the transaction is never ended, so its locks stay.
HoldsForever(c, i) == txn[c].id = i /\ i # NoId

\* The client holds the row lock SELECT ... FOR UPDATE took.
Holds(c, i) ==
  /\ txn[c].pc \in {"update", "log", "commit", "release"}
  /\ txn[c].id = i
  /\ i # NoId

\* The client has inserted a row for the slot and not committed yet.
Inserting(c, s) ==
  /\ txn[c].pc \in {"log", "commit"}
  /\ txn[c].id = NoId
  /\ txn[c].slot = s

\* Mutants: reads and inserts that do not wait for other transactions.
RowFreeUnlocked(c, i)   == TRUE
SlotFreeUnchecked(c, s) == TRUE

RowFree(c, i)  == \A o \in Clients \ {c} : ~Holds(o, i)
SlotFree(c, s) == \A o \in Clients \ {c} : ~Inserting(o, s)

SeedRow(s) == [id |-> SeedId[s], slot |-> s, schema |-> SeedDoc[s],
               status |-> "verified", version |-> 1]

\* Migrations 003 and 004: the seeded rows, each with its version 1 backfilled.
Init ==
  /\ schemas = {SeedRow(s) : s \in Seeded}
  /\ schema_versions = {[schema_id |-> SeedId[s], version |-> 1, schema |-> SeedDoc[s]] :
                          s \in Seeded}
  /\ nextId = FirstId
  /\ txn = [c \in Clients |-> NoTxn]
  /\ calls = 0

-----------------------------------------------------------------------------
(* Starting a call: the caller's arguments and the first statement's snapshot. *)

Call(c, call) ==
  /\ txn[c].pc = "idle"
  /\ txn' = [txn EXCEPT ![c] = call]
  /\ UNCHANGED <<schemas, schema_versions, nextId>>

Counted == calls < MaxCalls /\ calls' = calls + 1

AddStart(c, s, d) ==
  /\ Counted
  /\ Call(c, [NoTxn EXCEPT !.pc = "insert", !.op = "Add", !.slot = s, !.doc = d])

UpsertStart(c, s, d) ==
  /\ Counted
  /\ Call(c, [NoTxn EXCEPT !.pc = "select", !.op = "Upsert", !.slot = s, !.doc = d,
                           !.seen = IdAt(s)])

DeleteStart(c, s) ==
  /\ Call(c, [NoTxn EXCEPT !.pc = "delete", !.op = "Delete", !.slot = s,
                           !.seen = IdAt(s)])
  /\ UNCHANGED calls

\* The admin names a row by id: one the registry handed out, or one it never did.
UpdateStatusStart(c, i, st) ==
  /\ Call(c, [NoTxn EXCEPT !.pc = "setstatus", !.op = "UpdateStatus", !.id = i,
                           !.status = st])
  /\ UNCHANGED calls

-----------------------------------------------------------------------------
Goto(c, pc)  == txn' = [txn EXCEPT ![c].pc = pc]
Reply(c, re) == txn' = [txn EXCEPT ![c].pc = "idle", ![c].reply = re]

Unpublished == UNCHANGED <<schemas, schema_versions, nextId, calls>>

\* SELECT ... FOR UPDATE, First: waits for the row it saw, then reads its
\* current content; a row deleted meanwhile is no row, also when another one
\* has taken its slot since the snapshot.
UpsertSelect(c) ==
  LET t == txn[c] IN
  /\ t.pc = "select"
  /\ RowFree(c, t.seen)
  /\ \/ /\ RowsWith(t.seen) = {}
        /\ Goto(c, "insert")
     \/ \E r \in RowsWith(t.seen) :
          IF JsonContentEqual(r.schema, t.doc)
            THEN txn' = [txn EXCEPT ![c].pc = "release", ![c].id = r.id,
                                    ![c].version = r.version]
            ELSE txn' = [txn EXCEPT ![c].pc = "update", ![c].id = r.id,
                                    ![c].version = r.version + 1]
  /\ Unpublished

\* UPDATE of schema and version; the jsonb column refuses what is not JSON.
UpdateRow(c) ==
  /\ txn[c].pc = "update"
  /\ IF txn[c].doc \in Malformed THEN Reply(c, "error") ELSE Goto(c, "log")
  /\ Unpublished

\* What an insert that meets schemas_lookup_unique comes back as: the driver's
\* error is gorm.ErrDuplicatedKey only when gorm translates errors, and only Add
\* asks.
DuplicateReply(c) ==
  IF TranslateError /\ txn[c].op = "Add" THEN "already_exists" ELSE "error"

\* Create(entity): waits for an uncommitted insert of the same key.
InsertRow(c) ==
  LET t == txn[c] IN
  /\ t.pc = "insert"
  /\ \/ t.doc \in Malformed /\ Reply(c, "error")
     \/ /\ t.doc \notin Malformed
        /\ SlotFree(c, t.slot)
        /\ IF RowsAt(t.slot) # {}
             THEN Reply(c, DuplicateReply(c))
             ELSE txn' = [txn EXCEPT ![c].pc = "log", ![c].version = 1]
  /\ Unpublished

\* Create(&schemaVersionEntity{...}): refused by schema_versions_unique when the
\* changelog has that version already.
LogVersion(c) ==
  LET t == txn[c] IN
  /\ t.pc = "log"
  /\ IF \E e \in LogOf(t.id) : e.version = t.version
       THEN Reply(c, "error")
       ELSE Goto(c, "commit")
  /\ Unpublished

-----------------------------------------------------------------------------
(* Ending a transaction. *)

\* Mutant: the entry archives the content under the version before.
EntryOfOldVersion(t, i) == [schema_id |-> i, version |-> t.version - 1, schema |-> t.doc]

\* The changelog entry a transaction adds with its row.
Entry(t, i) == [schema_id |-> i, version |-> t.version, schema |-> t.doc]

\* Mutant: an update sends the row back to review, as Assign would.
UpdatedRowResetStatus(r, t) ==
  [r EXCEPT !.schema = t.doc, !.version = t.version, !.status = "submitted"]

\* The row once its UPDATE is visible: content and version, nothing else.
UpdatedRow(r, t) == [r EXCEPT !.schema = t.doc, !.version = t.version]

\* Mutants: the status column without its default; a row that needs no review.
InsertedRowNoStatus(t) == [id |-> nextId, slot |-> t.slot, schema |-> t.doc,
                           status |-> "", version |-> t.version]
InsertedRowVerified(t) == [id |-> nextId, slot |-> t.slot, schema |-> t.doc,
                           status |-> "verified", version |-> t.version]

\* status is not set by the caller or set to submitted: the column default says the same.
InsertedRow(t) == [id |-> nextId, slot |-> t.slot, schema |-> t.doc,
                   status |-> "submitted", version |-> t.version]

PublishInsert(t) ==
  /\ schemas' = schemas \cup {InsertedRow(t)}
  /\ schema_versions' = schema_versions \cup {Entry(t, nextId)}
  /\ nextId' = nextId + 1

\* Mutants: the update without its changelog entry; the entry replacing the others.
PublishUpdateUnlogged(t) ==
  /\ schemas' = {IF r.id = t.id THEN UpdatedRow(r, t) ELSE r : r \in schemas}
  /\ UNCHANGED <<schema_versions, nextId>>
PublishUpdateOverwriting(t) ==
  /\ schemas' = {IF r.id = t.id THEN UpdatedRow(r, t) ELSE r : r \in schemas}
  /\ schema_versions' = (schema_versions \ LogOf(t.id)) \cup {Entry(t, t.id)}
  /\ UNCHANGED nextId

PublishUpdate(t) ==
  /\ schemas' = {IF r.id = t.id THEN UpdatedRow(r, t) ELSE r : r \in schemas}
  /\ schema_versions' = schema_versions \cup {Entry(t, t.id)}
  /\ UNCHANGED nextId

Publish(t) == IF t.id = NoId THEN PublishInsert(t) ELSE PublishUpdate(t)

IdOf(t) == IF t.id = NoId THEN nextId ELSE t.id

\* COMMIT, and the call returns with the id and the version it wrote.
Commit(c) ==
  /\ txn[c].pc = "commit"
  /\ Publish(txn[c])
  /\ txn' = [txn EXCEPT ![c].pc = "idle", ![c].id = IdOf(txn[c]), ![c].reply = "ok"]
  /\ UNCHANGED calls

\* COMMIT of an Upsert that found its content stored already.
Release(c) ==
  /\ txn[c].pc = "release"
  /\ Reply(c, "ok")
  /\ Unpublished

\* The server commits and the answer never arrives: the caller sees an error.
CommitUnacknowledged(c) ==
  /\ Faults
  /\ txn[c].pc = "commit"
  /\ Publish(txn[c])
  /\ Reply(c, "error")
  /\ UNCHANGED calls

\* A statement fails, the context is cancelled or the process dies: rollback.
Fail(c) ==
  /\ Faults
  /\ txn[c].pc # "idle"
  /\ Reply(c, "error")
  /\ Unpublished

-----------------------------------------------------------------------------
(* Transactions of one statement. *)

\* DELETE ... WHERE the slot matches: waits for the row it saw; the changelog
\* goes with the row (ON DELETE CASCADE).
DeleteRow(c) ==
  LET t == txn[c] IN
  /\ t.pc = "delete"
  /\ RowFree(c, t.seen)
  /\ IF RowsWith(t.seen) = {}
       THEN /\ Reply(c, "not_found")
            /\ UNCHANGED <<schemas, schema_versions>>
       ELSE /\ Reply(c, "ok")
            /\ schemas' = schemas \ RowsWith(t.seen)
            /\ schema_versions' = schema_versions \ LogOf(t.seen)
  /\ UNCHANGED <<nextId, calls>>

Decide(r, st) == [r EXCEPT !.status = st]

UpdateStatus(c) ==
  LET t == txn[c] IN
  /\ t.pc = "setstatus"
  /\ RowFree(c, t.id)
  /\ IF RowsWith(t.id) = {}
       THEN Reply(c, "not_found") /\ UNCHANGED schemas
       ELSE /\ Goto(c, "reread")
            /\ schemas' = {IF r.id = t.id THEN Decide(r, t.status) ELSE r : r \in schemas}
  /\ UNCHANGED <<schema_versions, nextId, calls>>

\* The updated row is read back outside any transaction: the row may be gone,
\* which is not ErrNotFound to the caller but a plain error.
Reread(c) ==
  /\ txn[c].pc = "reread"
  /\ Reply(c, IF RowsWith(txn[c].id) = {} THEN "error" ELSE "ok")
  /\ Unpublished

-----------------------------------------------------------------------------
Start(c) ==
  \/ \E s \in Slots, d \in Docs : AddStart(c, s, d) \/ UpsertStart(c, s, d)
  \/ \E s \in Slots : DeleteStart(c, s)
  \/ \E i \in 1 .. nextId, st \in Decisions : UpdateStatusStart(c, i, st)

\* The statements of a call that has started.
Step(c) ==
  \/ UpsertSelect(c) \/ UpdateRow(c) \/ InsertRow(c) \/ LogVersion(c)
  \/ Commit(c) \/ Release(c)
  \/ DeleteRow(c) \/ UpdateStatus(c) \/ Reread(c)

Fault(c) == CommitUnacknowledged(c) \/ Fail(c)

Next == \E c \in Clients : Start(c) \/ Step(c) \/ Fault(c)

Spec == Init /\ [][Next]_vars

\* Callers need not call.  A call in flight goes on: Postgres queues the waiters
\* of a lock first come first served, so a statement that is enabled again and
\* again is served (strong fairness).
FairSpec == Spec /\ \A c \in Clients : SF_vars(Step(c))

-----------------------------------------------------------------------------
(* Properties *)

\* schemas_lookup_unique and the primary key: two rows never share a slot or an
\* id, however inserts, deletes and commits interleave.
UniqueRows ==
  \A r, q \in schemas : (r.slot = q.slot \/ r.id = q.id) => r = q

\* ListVersions and GetVersion rely on it: the changelog of every row holds each
\* version from 1 to the row's own exactly once, the last with the content the
\* row has now, and no entry outlives its row.
ChangelogComplete ==
  /\ \A e \in schema_versions : \E r \in schemas :
       e.schema_id = r.id /\ e.version \in 1 .. r.version
  /\ \A r \in schemas : \A v \in 1 .. r.version :
       \E e \in schema_versions : e.schema_id = r.id /\ e.version = v
  /\ \A e, f \in schema_versions :
       (e.schema_id = f.schema_id /\ e.version = f.version) => e = f
  /\ \A r \in schemas :
       [schema_id |-> r.id, version |-> r.version, schema |-> r.schema] \in schema_versions

\* A pending write is never overtaken: a transaction that has read a row FOR
\* UPDATE still finds it as it read it, whatever else commits in between, no two
\* transactions have the same row or insert the same key, and what they are
\* about to publish is JSON.  It is the part of the inductive invariant that says
\* why the two properties above survive every commit.
LockDiscipline ==
  /\ \A c \in Clients :
       LET t == txn[c] IN
       /\ t.pc \in {"select", "insert"} => t.id = NoId
       /\ t.pc \in {"log", "commit"} => t.doc \notin Malformed
       /\ t.pc \in {"update", "release"} => t.id # NoId
       /\ Holds(c, t.id) =>
            /\ RowFree(c, t.id)
            /\ \E r \in schemas :
                 /\ r.id = t.id
                 /\ t.pc # "release" => /\ t.version = r.version + 1
                                        /\ ~JsonContentEqual(r.schema, t.doc)
       /\ Inserting(c, t.slot) =>
            /\ SlotFree(c, t.slot)
            /\ t.version = 1
            /\ \A r \in schemas : r.slot # t.slot

\* Every id in use has been handed out.
IdsAssigned ==
  /\ nextId > 0
  /\ \A r \in schemas : r.id \in 1 .. nextId - 1 /\ r.version > 0

\* The inductive invariant behind the safety properties.
IInv == TypeOK /\ IdsAssigned /\ UniqueRows /\ ChangelogComplete /\ LockDiscipline

\* A row that stays either keeps content and version, or gets a content its old
\* one is not equal to under the very next version (no update is lost); its slot
\* never changes, and an Upsert leaves the review status alone.
RowKeptOrRevised ==
  \A r \in schemas, q \in schemas' : r.id = q.id =>
    /\ q.slot = r.slot
    /\ \/ q.version = r.version /\ q.schema = r.schema
       \/ /\ q.version = r.version + 1
          /\ ~JsonContentEqual(r.schema, q.schema)
          /\ q.status = r.status

RevisionStep == [][RowKeptOrRevised]_vars

\* The changelog is append only: an entry of a row that stays is never changed
\* or removed ("Rows are only ever inserted, never updated", model.go:30).
LogKept ==
  \A e \in schema_versions : e \in schema_versions' \/ \A q \in schemas' : q.id # e.schema_id

LogImmutable == [][LogKept]_vars

Acknowledged(c) ==
  /\ txn[c].pc = "idle"
  /\ txn[c].reply = "ok"
  /\ txn[c].op \in {"Add", "Upsert"}

\* What an acknowledged Add or Upsert reports can be read back: while its row
\* lives, the changelog holds the version it returned with a content that is
\* the caller's or decodes to the same value.
AcknowledgedIsLogged ==
  \A c \in Clients : Acknowledged(c) =>
    \/ RowsWith(txn[c].id) = {}
    \/ \E e \in LogOf(txn[c].id) :
         /\ e.version = txn[c].version
         /\ e.schema = txn[c].doc \/ JsonContentEqual(e.schema, txn[c].doc)

\* Every call returns: no statement waits for ever for a lock.
CallsReturn == \A c \in Clients : txn[c].pc # "idle" ~> txn[c].pc = "idle"

\* FOR UPDATE serialises the writers of a row: when nothing fails, an Upsert of a
\* row that was there when it began returns an error only for a document that is
\* not JSON or because the row has been deleted since, never because another
\* Upsert wrote the same next version first.
PresentUpsertSucceeds ==
  \A c \in Clients :
    (txn[c].op = "Upsert" /\ txn[c].seen # NoId /\ txn[c].pc = "idle")
      => \/ txn[c].reply = "ok"
         \/ txn[c].doc \in Malformed
         \/ RowsWith(txn[c].seen) = {}

-----------------------------------------------------------------------------
(* What the documentation says and the code does not do. *)

\* An acknowledged Add or Upsert has stored the caller's own document.
AcknowledgedIsStored ==
  \A c \in Clients : Acknowledged(c) =>
    \/ RowsWith(txn[c].id) = {}
    \/ \E e \in LogOf(txn[c].id) : e.version = txn[c].version /\ e.schema = txn[c].doc

-----------------------------------------------------------------------------
(* The rows and their changelog as the store of SchemaStore. *)

HistoryOf(r) ==
  [v \in 1 .. r.version |->
     (CHOOSE e \in schema_versions : e.schema_id = r.id /\ e.version = v).schema]

AbstractRow(r) == [id |-> r.id, status |-> r.status, history |-> HistoryOf(r)]

StoreOf ==
  [s \in Slots |-> IF RowsAt(s) = {} THEN NoRow
                                     ELSE AbstractRow(CHOOSE r \in RowsAt(s) : TRUE)]

Store == INSTANCE SchemaStore WITH store <- StoreOf, nextId <- nextId

ASSUME AbsenceAssumption == NoRow \notin Store!Row

\* The repository implements the store: a transaction takes effect at its commit
\* as one operation of SchemaStore, and every other step changes nothing there.
ImplementsStore == Store!StoreSpec
================================================================================

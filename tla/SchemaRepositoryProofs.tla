------------------------- MODULE SchemaRepositoryProofs -------------------------
(***************************************************************************)
(* Proofs about SchemaRepository for every set of slots, documents and     *)
(* clients.  The inductive invariant is IInv: the two properties of the    *)
(* tables, UniqueRows and ChangelogComplete, are preserved by a commit only *)
(* because the row it writes is still as the transaction read it, which is *)
(* what LockDiscipline adds.  Two invariants of each call rest on it:      *)
(* RepliesBacked, that what a call has reported is in the changelog, and   *)
(* Served, that an Upsert which saw a row works on that row to its end.    *)
(***************************************************************************)
EXTENDS SchemaRepository, TLAPS

\* What LockDiscipline says of client c, for a record u it might go on with.
Fits(c, u) ==
  /\ u.pc \in {"select", "insert"} => u.id = NoId
  /\ u.pc \in {"log", "commit"} => u.doc \notin Malformed
  /\ u.pc \in {"update", "release"} => u.id # NoId
  /\ (u.pc \in {"update", "log", "commit", "release"} /\ u.id # NoId) =>
       /\ RowFree(c, u.id)
       /\ \E r \in schemas :
            /\ r.id = u.id
            /\ u.pc # "release" => /\ u.version = r.version + 1
                                   /\ ~JsonContentEqual(r.schema, u.doc)
  /\ (u.pc \in {"log", "commit"} /\ u.id = NoId) =>
       /\ SlotFree(c, u.slot)
       /\ u.version = 1
       /\ \A r \in schemas : r.slot # u.slot

\* LockDiscipline is Fits for the record every client is at.
LEMMA DisciplineIsFit == LockDiscipline <=> \A c \in Clients : Fits(c, txn[c])
  BY DEF LockDiscipline, Fits, Holds, Inserting

\* The value a call starts from is a transaction record that fits.
LEMMA NoTxnTyped == NoTxn \in Txn
  <1>1. AnySlot \in Slots
    BY SlotsAssumption DEF AnySlot
  <1>2. AnyDoc \in Docs
    BY DocsAssumption DEF AnyDoc
  <1> QED
    BY <1>1, <1>2 DEF NoTxn, Txn, Pcs, Ops, Replies, Statuses, NoId

\* A step that changes the record of one client and no table keeps the invariant
\* when the new record fits.
LEMMA QuietStep ==
  ASSUME IInv, NEW c \in Clients, NEW u \in Txn,
         txn' = [txn EXCEPT ![c] = u],
         UNCHANGED <<schemas, schema_versions, nextId>>,
         calls' \in 0 .. MaxCalls,
         Fits(c, u)
  PROVE  IInv'
  <1>1. TypeOK'
    BY DEF IInv, TypeOK
  <1>2. IdsAssigned' /\ UniqueRows' /\ ChangelogComplete'
    BY DEF IInv, IdsAssigned, UniqueRows, ChangelogComplete
  <1>3. \A o \in Clients : Fits(o, txn[o])
    BY DisciplineIsFit DEF IInv
  <1>4. ASSUME NEW o \in Clients PROVE Fits(o, txn[o])'
    <2>1. CASE o = c
      <3>1. txn'[o] = u
        BY <2>1 DEF IInv, TypeOK
      <3>2. \A x \in Clients \ {c} : txn'[x] = txn[x]
        BY DEF IInv, TypeOK
      <3> QED
        BY <2>1, <3>1, <3>2 DEF Fits, RowFree, SlotFree, Holds, Inserting
    <2>2. CASE o # c
      <3>1. txn'[o] = txn[o] /\ txn'[c] = u
        BY <2>2 DEF IInv, TypeOK
      <3>2. \A x \in Clients \ {c} : txn'[x] = txn[x]
        BY DEF IInv, TypeOK
      <3>3. Fits(o, txn[o])
        BY <1>3
      <3>4. Holds(o, txn[o].id) => RowFree(o, txn[o].id)'
        BY <2>2, <3>1, <3>2, <3>3 DEF Fits, RowFree, Holds
      <3>5. Inserting(o, txn[o].slot) => SlotFree(o, txn[o].slot)'
        BY <2>2, <3>1, <3>2, <3>3 DEF Fits, SlotFree, Inserting
      <3> QED
        BY <3>1, <3>3, <3>4, <3>5 DEF Fits, Holds, Inserting
    <2> QED
      BY <2>1, <2>2
  <1>5. LockDiscipline'
    BY <1>4 DEF LockDiscipline, Fits, Holds, Inserting
  <1> QED
    BY <1>1, <1>2, <1>5 DEF IInv

-----------------------------------------------------------------------------
(* The steps that change no table. *)

LEMMA SnapshotTyped ==
  ASSUME TypeOK, NEW s \in Slots
  PROVE  IdAt(s) \in Nat
  BY DEF TypeOK, SchemaRow, IdAt, RowsAt, NoId

LEMMA StartInv == ASSUME IInv, NEW c \in Clients, Start(c) PROVE IInv'
  <1>1. ASSUME NEW s \in Slots, NEW d \in Docs, AddStart(c, s, d) PROVE IInv'
    <2> DEFINE u == [NoTxn EXCEPT !.pc = "insert", !.op = "Add", !.slot = s, !.doc = d]
    <2>1. u \in Txn /\ Fits(c, u)
      BY NoTxnTyped DEF Txn, Pcs, Ops, Fits, NoTxn
    <2>2. txn' = [txn EXCEPT ![c] = u] /\ UNCHANGED <<schemas, schema_versions, nextId>>
      BY <1>1 DEF AddStart, Call
    <2>3. calls' \in 0 .. MaxCalls
      BY <1>1, RepositoryAssumption DEF AddStart, Counted, IInv, TypeOK
    <2> HIDE DEF u
    <2> QED
      BY <2>1, <2>2, <2>3, QuietStep
  <1>2. ASSUME NEW s \in Slots, NEW d \in Docs, UpsertStart(c, s, d) PROVE IInv'
    <2> DEFINE u == [NoTxn EXCEPT !.pc = "select", !.op = "Upsert", !.slot = s, !.doc = d,
                                  !.seen = IdAt(s)]
    <2>1. u \in Txn /\ Fits(c, u)
      BY NoTxnTyped, SnapshotTyped DEF IInv, Txn, Pcs, Ops, Fits, NoTxn
    <2>2. txn' = [txn EXCEPT ![c] = u] /\ UNCHANGED <<schemas, schema_versions, nextId>>
      BY <1>2 DEF UpsertStart, Call
    <2>3. calls' \in 0 .. MaxCalls
      BY <1>2, RepositoryAssumption DEF UpsertStart, Counted, IInv, TypeOK
    <2> HIDE DEF u
    <2> QED
      BY <2>1, <2>2, <2>3, QuietStep
  <1>3. ASSUME NEW s \in Slots, DeleteStart(c, s) PROVE IInv'
    <2> DEFINE u == [NoTxn EXCEPT !.pc = "delete", !.op = "Delete", !.slot = s,
                                  !.seen = IdAt(s)]
    <2>1. u \in Txn /\ Fits(c, u)
      BY NoTxnTyped, SnapshotTyped DEF IInv, Txn, Pcs, Ops, Fits, NoTxn
    <2>2. txn' = [txn EXCEPT ![c] = u] /\ UNCHANGED <<schemas, schema_versions, nextId, calls>>
      BY <1>3 DEF DeleteStart, Call
    <2> HIDE DEF u
    <2> QED
      BY <2>1, <2>2, QuietStep DEF IInv, TypeOK
  <1>4. ASSUME NEW i \in 1 .. nextId, NEW st \in Decisions, UpdateStatusStart(c, i, st)
        PROVE  IInv'
    <2> DEFINE u == [NoTxn EXCEPT !.pc = "setstatus", !.op = "UpdateStatus", !.id = i,
                                  !.status = st]
    <2>1. i \in Nat /\ st \in Statuses
      BY DEF IInv, TypeOK, Decisions, Statuses
    <2>2. u \in Txn /\ Fits(c, u)
      BY <2>1, NoTxnTyped DEF Txn, Pcs, Ops, Fits, NoTxn
    <2>3. txn' = [txn EXCEPT ![c] = u] /\ UNCHANGED <<schemas, schema_versions, nextId, calls>>
      BY <1>4 DEF UpdateStatusStart, Call
    <2> HIDE DEF u
    <2> QED
      BY <2>2, <2>3, QuietStep DEF IInv, TypeOK
  <1> QED
    BY <1>1, <1>2, <1>3, <1>4 DEF Start

\* Returning with a reply ends the transaction: nothing is held any more.
LEMMA ReplyInv ==
  ASSUME IInv, NEW c \in Clients, NEW re \in Replies, Reply(c, re), Unpublished
  PROVE  IInv'
  <1> DEFINE u == [txn[c] EXCEPT !.pc = "idle", !.reply = re]
  <1>1. u \in Txn /\ Fits(c, u)
    BY DEF IInv, TypeOK, Txn, Pcs, Fits
  <1>2. txn' = [txn EXCEPT ![c] = u]
    BY DEF Reply, IInv, TypeOK, Txn
  <1> HIDE DEF u
  <1> QED
    BY <1>1, <1>2, QuietStep DEF Unpublished, IInv, TypeOK

\* A transaction that goes on without touching what it has read stays fit.
LEMMA GotoInv ==
  ASSUME IInv, NEW c \in Clients, NEW pc \in Pcs, Goto(c, pc), Unpublished,
         Fits(c, [txn[c] EXCEPT !.pc = pc])
  PROVE  IInv'
  <1> DEFINE u == [txn[c] EXCEPT !.pc = pc]
  <1>1. u \in Txn /\ Fits(c, u)
    BY DEF IInv, TypeOK, Txn
  <1>2. txn' = [txn EXCEPT ![c] = u]
    BY DEF Goto, IInv, TypeOK, Txn
  <1> HIDE DEF u
  <1> QED
    BY <1>1, <1>2, QuietStep DEF Unpublished, IInv, TypeOK

\* The row read FOR UPDATE is free of other locks and read as it is.
LEMMA SelectInv == ASSUME IInv, NEW c \in Clients, UpsertSelect(c) PROVE IInv'
  <1> DEFINE t == txn[c]
  <1>1. t \in Txn /\ t.pc = "select" /\ RowFree(c, t.seen) /\ Unpublished /\ t.id = NoId
    BY DEF UpsertSelect, IInv, TypeOK, LockDiscipline
  <1>2. CASE Goto(c, "insert")
    <2>1. Fits(c, [t EXCEPT !.pc = "insert"])
      BY <1>1 DEF Fits, Txn
    <2> QED
      BY <1>1, <1>2, <2>1, GotoInv DEF Pcs
  <1>3. ASSUME NEW r \in RowsWith(t.seen), JsonContentEqual(r.schema, t.doc),
               txn' = [txn EXCEPT ![c].pc = "release", ![c].id = r.id,
                                  ![c].version = r.version]
        PROVE  IInv'
    <2> DEFINE u == [t EXCEPT !.pc = "release", !.id = r.id, !.version = r.version]
    <2>1. r \in schemas /\ r \in SchemaRow /\ r.id = t.seen /\ r.id # NoId
      BY DEF RowsWith, IInv, TypeOK, IdsAssigned, NoId
    <2>2. u \in Txn
      BY <1>1, <2>1 DEF Txn, Pcs, SchemaRow
    <2>3. Fits(c, u)
      BY <1>1, <2>1 DEF Fits, Txn
    <2>4. txn' = [txn EXCEPT ![c] = u]
      BY <1>3 DEF IInv, TypeOK, Txn
    <2> HIDE DEF u
    <2> QED
      BY <1>1, <2>2, <2>3, <2>4, QuietStep DEF Unpublished, IInv, TypeOK
  <1>4. ASSUME NEW r \in RowsWith(t.seen), ~JsonContentEqual(r.schema, t.doc),
               txn' = [txn EXCEPT ![c].pc = "update", ![c].id = r.id,
                                  ![c].version = r.version + 1]
        PROVE  IInv'
    <2> DEFINE u == [t EXCEPT !.pc = "update", !.id = r.id, !.version = r.version + 1]
    <2>1. r \in schemas /\ r \in SchemaRow /\ r.id = t.seen /\ r.id # NoId
      BY DEF RowsWith, IInv, TypeOK, IdsAssigned, NoId
    <2>2. u \in Txn
      <3>1. r.id \in Nat /\ r.version + 1 \in Nat
        BY <2>1 DEF SchemaRow
      <3>2. "update" \in Pcs
        BY DEF Pcs
      <3> QED
        BY <1>1, <3>1, <3>2 DEF Txn
    <2>3. Fits(c, u)
      BY <1>1, <1>4, <2>1 DEF Fits, Txn
    <2>4. txn' = [txn EXCEPT ![c] = u]
      BY <1>4 DEF IInv, TypeOK, Txn
    <2> HIDE DEF u
    <2> QED
      BY <1>1, <2>2, <2>3, <2>4, QuietStep DEF Unpublished, IInv, TypeOK
  <1>5. \/ Goto(c, "insert")
        \/ \E r \in RowsWith(t.seen) :
             \/ /\ JsonContentEqual(r.schema, t.doc)
                /\ txn' = [txn EXCEPT ![c].pc = "release", ![c].id = r.id,
                                      ![c].version = r.version]
             \/ /\ ~JsonContentEqual(r.schema, t.doc)
                /\ txn' = [txn EXCEPT ![c].pc = "update", ![c].id = r.id,
                                      ![c].version = r.version + 1]
    BY Zenon DEF UpsertSelect
  <1> HIDE DEF t
  <1> QED
    BY <1>2, <1>3, <1>4, <1>5

LEMMA UpdateRowInv == ASSUME IInv, NEW c \in Clients, UpdateRow(c) PROVE IInv'
  <1>1. txn[c] \in Txn /\ txn[c].pc = "update" /\ Unpublished /\ Fits(c, txn[c])
    BY DisciplineIsFit DEF UpdateRow, IInv, TypeOK
  <1>2. CASE txn[c].doc \in Malformed
    BY <1>1, <1>2, ReplyInv DEF UpdateRow, Replies
  <1>3. CASE txn[c].doc \notin Malformed
    <2>1. Fits(c, [txn[c] EXCEPT !.pc = "log"])
      BY <1>1, <1>3 DEF Fits, Txn
    <2> QED
      BY <1>1, <1>3, <2>1, GotoInv DEF UpdateRow, Pcs
  <1> QED
    BY <1>2, <1>3

LEMMA InsertRowInv == ASSUME IInv, NEW c \in Clients, InsertRow(c) PROVE IInv'
  <1> DEFINE t == txn[c]
             u == [t EXCEPT !.pc = "log", !.version = 1]
  <1>1. t \in Txn /\ t.pc = "insert" /\ Unpublished /\ t.id = NoId
    BY DEF InsertRow, IInv, TypeOK, LockDiscipline
  <1>2. CASE \E re \in Replies : Reply(c, re)
    BY <1>1, <1>2, ReplyInv
  <1>3. CASE /\ t.doc \notin Malformed
             /\ SlotFree(c, t.slot)
             /\ RowsAt(t.slot) = {}
             /\ txn' = [txn EXCEPT ![c].pc = "log", ![c].version = 1]
    <2>1. u \in Txn
      BY <1>1 DEF Txn, Pcs
    <2>2. \A r \in schemas : r.slot # t.slot
      BY <1>3 DEF RowsAt
    <2>3. Fits(c, u)
      BY <1>1, <1>3, <2>2 DEF Fits, Txn
    <2>4. txn' = [txn EXCEPT ![c] = u]
      BY <1>3 DEF IInv, TypeOK, Txn
    <2> HIDE DEF u
    <2> QED
      BY <1>1, <2>1, <2>3, <2>4, QuietStep DEF Unpublished, IInv, TypeOK
  <1> QED
    BY <1>1, <1>2, <1>3 DEF InsertRow, DuplicateReply, Replies

LEMMA LogVersionInv == ASSUME IInv, NEW c \in Clients, LogVersion(c) PROVE IInv'
  <1>1. txn[c] \in Txn /\ txn[c].pc = "log" /\ Unpublished /\ Fits(c, txn[c])
    BY DisciplineIsFit DEF LogVersion, IInv, TypeOK
  <1>2. CASE Reply(c, "error")
    BY <1>1, <1>2, ReplyInv DEF Replies
  <1>3. CASE Goto(c, "commit")
    <2>1. Fits(c, [txn[c] EXCEPT !.pc = "commit"])
      BY <1>1 DEF Fits, Txn
    <2> QED
      BY <1>1, <1>3, <2>1, GotoInv DEF Pcs
  <1> QED
    BY <1>2, <1>3 DEF LogVersion

-----------------------------------------------------------------------------
(* The steps that change a table. *)

\* A client that ends up holding nothing keeps the others fit when the rows they
\* hold are as they were and nobody took the key they insert.
LEMMA DisciplineKept ==
  ASSUME IInv, NEW c \in Clients, NEW u \in Txn, u.pc \in {"idle", "reread"},
         txn' = [txn EXCEPT ![c] = u],
         \A o \in Clients \ {c} : Holds(o, txn[o].id) =>
            \A r \in schemas : r.id = txn[o].id =>
               \E q \in schemas' : q.id = r.id /\ q.version = r.version /\ q.schema = r.schema,
         \A o \in Clients \ {c} : Inserting(o, txn[o].slot) =>
            \A q \in schemas' : q.slot # txn[o].slot
  PROVE  LockDiscipline'
  <1>1. \A x \in Clients \ {c} : txn'[x] = txn[x]
    BY DEF IInv, TypeOK
  <1>2. txn'[c] = u
    BY DEF IInv, TypeOK
  <1>3. \A i, s : ~Holds(c, i)' /\ ~Inserting(c, s)'
    BY <1>2 DEF Holds, Inserting
  <1>4. ASSUME NEW o \in Clients PROVE Fits(o, txn[o])'
    <2>1. CASE o = c
      BY <1>2, <2>1 DEF Fits
    <2>2. CASE o # c
      <3>1. txn'[o] = txn[o] /\ Fits(o, txn[o])
        BY <1>1, <2>2, DisciplineIsFit DEF IInv
      <3>2. ASSUME Holds(o, txn[o].id) PROVE RowFree(o, txn[o].id)'
        BY <1>1, <1>3, <3>1, <3>2 DEF Fits, RowFree, Holds
      <3>3. ASSUME Inserting(o, txn[o].slot) PROVE SlotFree(o, txn[o].slot)'
        BY <1>1, <1>3, <3>1, <3>3 DEF Fits, SlotFree, Inserting
      <3>4. ASSUME Holds(o, txn[o].id)
            PROVE  \E q \in schemas' :
                     /\ q.id = txn[o].id
                     /\ txn[o].pc # "release" =>
                          /\ txn[o].version = q.version + 1
                          /\ ~JsonContentEqual(q.schema, txn[o].doc)
        <4>1. PICK r \in schemas : /\ r.id = txn[o].id
                                   /\ txn[o].pc # "release" =>
                                        /\ txn[o].version = r.version + 1
                                        /\ ~JsonContentEqual(r.schema, txn[o].doc)
          BY <3>1, <3>4 DEF Fits, Holds
        <4>2. PICK q \in schemas' : /\ q.id = r.id
                                    /\ q.version = r.version
                                    /\ q.schema = r.schema
          BY <2>2, <3>4, <4>1
        <4> QED
          BY <4>1, <4>2
      <3>5. Inserting(o, txn[o].slot) => \A q \in schemas' : q.slot # txn[o].slot
        BY <2>2
      <3> QED
        BY <3>1, <3>2, <3>3, <3>4, <3>5 DEF Fits, Holds, Inserting
    <2> QED
      BY <2>1, <2>2
  <1> QED
    BY <1>4 DEF LockDiscipline, Fits, Holds, Inserting

\* What a commit relies on: the row it updates is the one it read.
LEMMA CommitFits ==
  ASSUME IInv, NEW c \in Clients, txn[c].pc = "commit"
  PROVE  /\ txn[c] \in Txn
         /\ txn[c].doc \notin Malformed
         /\ txn[c].id = NoId =>
              /\ SlotFree(c, txn[c].slot)
              /\ txn[c].version = 1
              /\ \A r \in schemas : r.slot # txn[c].slot
         /\ txn[c].id # NoId =>
              /\ RowFree(c, txn[c].id)
              /\ \E r \in schemas : /\ r.id = txn[c].id
                                    /\ txn[c].version = r.version + 1
                                    /\ ~JsonContentEqual(r.schema, txn[c].doc)
  <1>1. txn[c] \in Txn /\ Fits(c, txn[c])
    BY DisciplineIsFit DEF IInv, TypeOK
  <1> QED
    BY <1>1 DEF Fits

\* An update replaces exactly the row it holds.
LEMMA UpdatedTable ==
  ASSUME IInv, NEW t \in Txn, NEW r \in schemas, r.id = t.id, PublishUpdate(t)
  PROVE  schemas' = (schemas \ {r}) \cup {UpdatedRow(r, t)}
  <1>1. \A q \in schemas : q.id = t.id <=> q = r
    BY DEF IInv, UniqueRows
  <1>2. ASSUME NEW q \in schemas' PROVE q \in (schemas \ {r}) \cup {UpdatedRow(r, t)}
    <2>1. PICK p \in schemas : q = IF p.id = t.id THEN UpdatedRow(p, t) ELSE p
      BY <1>2 DEF PublishUpdate
    <2> QED
      BY <1>1, <2>1
  <1>3. ASSUME NEW q \in (schemas \ {r}) \cup {UpdatedRow(r, t)} PROVE q \in schemas'
    <2>1. CASE q = UpdatedRow(r, t)
      BY <2>1 DEF PublishUpdate
    <2>2. CASE q \in schemas /\ q # r
      <3>1. q = IF q.id = t.id THEN UpdatedRow(q, t) ELSE q
        BY <1>1, <2>2
      <3> QED
        BY <2>2, <3>1 DEF PublishUpdate
    <2> QED
      BY <1>3, <2>1, <2>2
  <1> QED
    BY <1>2, <1>3

LEMMA InsertTables ==
  ASSUME IInv, NEW c \in Clients, txn[c].pc = "commit", txn[c].id = NoId, Publish(txn[c])
  PROVE  /\ schemas' \subseteq SchemaRow /\ schema_versions' \subseteq VersionRow
         /\ nextId' \in Nat
         /\ IdsAssigned' /\ UniqueRows' /\ ChangelogComplete'
  <1> DEFINE t == txn[c]
             q == InsertedRow(t)
             e == Entry(t, nextId)
  <1>1. /\ t \in Txn /\ t.version = 1 /\ \A r \in schemas : r.slot # t.slot
    BY CommitFits
  <1>2. /\ schemas' = schemas \cup {q}
        /\ schema_versions' = schema_versions \cup {e}
        /\ nextId' = nextId + 1
    BY DEF Publish, PublishInsert
  <1>3. /\ q.id = nextId /\ q.slot = t.slot /\ q.version = 1 /\ q.schema = t.doc
        /\ e = [schema_id |-> q.id, version |-> q.version, schema |-> q.schema]
    BY <1>1 DEF InsertedRow, Entry
  <1>4. /\ nextId \in Nat /\ nextId > 0
        /\ \A r \in schemas : r.id \in 1 .. nextId - 1 /\ r.version > 0 /\ r.version \in Nat
        /\ \A f \in schema_versions : f.schema_id \in Nat /\ f.version \in Nat
    BY DEF IInv, TypeOK, IdsAssigned, SchemaRow, VersionRow
  <1>5. \A r \in schemas : r.id # q.id
    BY <1>3, <1>4
  <1>6. \A f \in schema_versions : f.schema_id # q.id
    BY <1>5 DEF IInv, ChangelogComplete
  <1>7. q \in SchemaRow /\ e \in VersionRow
    BY <1>1, <1>4 DEF InsertedRow, Entry, Txn, SchemaRow, VersionRow, Statuses
  <1> HIDE DEF t, q, e
  <1>8. schemas' \subseteq SchemaRow /\ schema_versions' \subseteq VersionRow /\ nextId' \in Nat
    BY <1>2, <1>4, <1>7 DEF IInv, TypeOK
  <1>9. IdsAssigned'
    BY <1>2, <1>3, <1>4 DEF IdsAssigned
  <1>10. UniqueRows'
    BY <1>1, <1>2, <1>3, <1>5 DEF IInv, UniqueRows
  <1>11. ChangelogComplete'
    <2>1. \A f \in schema_versions' : \E r \in schemas' :
            f.schema_id = r.id /\ f.version \in 1 .. r.version
      BY <1>2, <1>3 DEF IInv, ChangelogComplete
    <2>2. \A r \in schemas' : \A v \in 1 .. r.version :
            \E f \in schema_versions' : f.schema_id = r.id /\ f.version = v
      <3>1. \A v \in 1 .. q.version : e.schema_id = q.id /\ e.version = v
        BY <1>3
      <3> QED
        BY <1>2, <3>1 DEF IInv, ChangelogComplete
    <2>3. \A f, g \in schema_versions' :
            (f.schema_id = g.schema_id /\ f.version = g.version) => f = g
      BY <1>2, <1>3, <1>6 DEF IInv, ChangelogComplete
    <2>4. \A r \in schemas' :
            [schema_id |-> r.id, version |-> r.version, schema |-> r.schema] \in schema_versions'
      BY <1>2, <1>3 DEF IInv, ChangelogComplete
    <2> QED
      BY <2>1, <2>2, <2>3, <2>4 DEF ChangelogComplete
  <1> QED
    BY <1>8, <1>9, <1>10, <1>11

LEMMA UpdateTables ==
  ASSUME IInv, NEW c \in Clients, txn[c].pc = "commit", txn[c].id # NoId, Publish(txn[c])
  PROVE  /\ schemas' \subseteq SchemaRow /\ schema_versions' \subseteq VersionRow
         /\ nextId' \in Nat
         /\ IdsAssigned' /\ UniqueRows' /\ ChangelogComplete'
  <1> DEFINE t == txn[c]
  <1>1. t \in Txn
    BY CommitFits
  <1>2. PICK r \in schemas : r.id = t.id /\ t.version = r.version + 1
    BY CommitFits
  <1> DEFINE q == UpdatedRow(r, t)
             e == Entry(t, t.id)
  <1>3. /\ schemas' = (schemas \ {r}) \cup {q}
        /\ schema_versions' = schema_versions \cup {e}
        /\ nextId' = nextId
    BY <1>1, <1>2, UpdatedTable DEF Publish, PublishUpdate
  <1>4. /\ nextId \in Nat /\ nextId > 0
        /\ \A p \in schemas : p.id \in 1 .. nextId - 1 /\ p.version > 0 /\ p.version \in Nat
        /\ \A f \in schema_versions : f.schema_id \in Nat /\ f.version \in Nat
        /\ r \in SchemaRow
    BY DEF IInv, TypeOK, IdsAssigned, SchemaRow, VersionRow
  <1>5. /\ q.id = r.id /\ q.slot = r.slot /\ q.version = r.version + 1 /\ q.schema = t.doc
        /\ e = [schema_id |-> q.id, version |-> q.version, schema |-> q.schema]
    BY <1>2, <1>4 DEF UpdatedRow, Entry, SchemaRow
  <1>6. q \in SchemaRow /\ e \in VersionRow
    BY <1>1, <1>2, <1>4 DEF UpdatedRow, Entry, Txn, SchemaRow, VersionRow
  <1> HIDE DEF t, q, e
  <1>7. schemas' \subseteq SchemaRow /\ schema_versions' \subseteq VersionRow /\ nextId' \in Nat
    BY <1>3, <1>4, <1>6 DEF IInv, TypeOK
  <1>8. IdsAssigned'
    BY <1>3, <1>4, <1>5 DEF IdsAssigned
  <1>9. UniqueRows'
    BY <1>3, <1>5 DEF IInv, UniqueRows
  <1>10. ChangelogComplete'
    <2>1. \A f \in schema_versions : f.schema_id = q.id => f.version \in 1 .. r.version
      BY <1>2, <1>5 DEF IInv, UniqueRows, ChangelogComplete
    <2>2. \A f \in schema_versions' : \E p \in schemas' :
            f.schema_id = p.id /\ f.version \in 1 .. p.version
      <3>1. ASSUME NEW f \in schema_versions
            PROVE  \E p \in schemas' : f.schema_id = p.id /\ f.version \in 1 .. p.version
        <4>1. PICK p \in schemas : f.schema_id = p.id /\ f.version \in 1 .. p.version
          BY DEF IInv, ChangelogComplete
        <4>2. CASE p = r
          BY <1>3, <1>4, <1>5, <4>1, <4>2
        <4>3. CASE p # r
          BY <1>3, <4>1, <4>3
        <4> QED
          BY <4>2, <4>3
      <3>2. e.schema_id = q.id /\ e.version \in 1 .. q.version
        BY <1>4, <1>5
      <3> QED
        BY <1>3, <3>1, <3>2
    <2>3. \A p \in schemas' : \A v \in 1 .. p.version :
            \E f \in schema_versions' : f.schema_id = p.id /\ f.version = v
      <3>1. ASSUME NEW v \in 1 .. q.version
            PROVE  \E f \in schema_versions' : f.schema_id = q.id /\ f.version = v
        <4>1. v \in 1 .. r.version \/ v = q.version
          BY <1>4, <1>5
        <4>2. CASE v \in 1 .. r.version
          BY <1>2, <1>3, <1>5, <4>2 DEF IInv, ChangelogComplete
        <4>3. CASE v = q.version
          BY <1>3, <1>5, <4>3
        <4> QED
          BY <4>1, <4>2, <4>3
      <3> QED
        BY <1>3, <3>1 DEF IInv, ChangelogComplete
    <2>4. \A f, g \in schema_versions' :
            (f.schema_id = g.schema_id /\ f.version = g.version) => f = g
      <3>1. \A f \in schema_versions : ~(f.schema_id = e.schema_id /\ f.version = e.version)
        BY <1>4, <1>5, <2>1
      <3> QED
        BY <1>3, <3>1 DEF IInv, ChangelogComplete
    <2>5. \A p \in schemas' :
            [schema_id |-> p.id, version |-> p.version, schema |-> p.schema] \in schema_versions'
      BY <1>3, <1>5 DEF IInv, ChangelogComplete
    <2> QED
      BY <2>2, <2>3, <2>4, <2>5 DEF ChangelogComplete
  <1> QED
    BY <1>7, <1>8, <1>9, <1>10

\* Whoever else holds a row or inserts a key still does so after a commit.
LEMMA PublishInv ==
  ASSUME IInv, NEW c \in Clients, txn[c].pc = "commit", Publish(txn[c]),
         NEW u \in Txn, u.pc = "idle", txn' = [txn EXCEPT ![c] = u], calls' = calls
  PROVE  IInv'
  <1> DEFINE t == txn[c]
  <1>1. /\ schemas' \subseteq SchemaRow /\ schema_versions' \subseteq VersionRow
        /\ nextId' \in Nat /\ IdsAssigned' /\ UniqueRows' /\ ChangelogComplete'
    BY InsertTables, UpdateTables
  <1>2. TypeOK'
    BY <1>1 DEF IInv, TypeOK
  <1>3. LockDiscipline'
    <2>1. CASE t.id = NoId
      <3>1. schemas' = schemas \cup {InsertedRow(t)}
        BY <2>1 DEF Publish, PublishInsert
      <3>2. InsertedRow(t).slot = t.slot /\ SlotFree(c, t.slot)
        BY <2>1, CommitFits DEF InsertedRow
      <3>3. \A o \in Clients \ {c} : Inserting(o, txn[o].slot) =>
              \A q \in schemas' : q.slot # txn[o].slot
        <4>1. ASSUME NEW o \in Clients \ {c}, Inserting(o, txn[o].slot)
              PROVE  txn[o].slot # t.slot /\ \A q \in schemas : q.slot # txn[o].slot
          BY <3>2, <4>1 DEF IInv, LockDiscipline, SlotFree, Inserting
        <4> QED
          BY <3>1, <3>2, <4>1
      <3>4. \A r \in schemas : r \in schemas'
        BY <3>1
      <3> QED
        BY <3>3, <3>4, DisciplineKept
    <2>2. CASE t.id # NoId
      <3>1. PICK r \in schemas : r.id = t.id
        BY <2>2, CommitFits
      <3>2. schemas' = (schemas \ {r}) \cup {UpdatedRow(r, t)}
        BY <2>2, <3>1, CommitFits, UpdatedTable DEF Publish
      <3>3. UpdatedRow(r, t).slot = r.slot
        BY <3>1 DEF UpdatedRow, IInv, TypeOK, SchemaRow
      <3>4. RowFree(c, t.id)
        BY <2>2, CommitFits
      <3>5. \A o \in Clients \ {c} : Holds(o, txn[o].id) => txn[o].id # r.id
        BY <3>1, <3>4 DEF RowFree
      <3>6. \A o \in Clients \ {c} : Inserting(o, txn[o].slot) =>
              \A p \in schemas : p.slot # txn[o].slot
        BY DEF IInv, LockDiscipline
      <3>7. \A o \in Clients \ {c} : Inserting(o, txn[o].slot) =>
              \A p \in schemas' : p.slot # txn[o].slot
        BY <3>2, <3>3, <3>6
      <3>8. \A o \in Clients \ {c} : Holds(o, txn[o].id) =>
              \A p \in schemas : p.id = txn[o].id => p \in schemas'
        BY <3>2, <3>5
      <3> QED
        BY <3>7, <3>8, DisciplineKept
    <2> QED
      BY <2>1, <2>2
  <1> QED
    BY <1>1, <1>2, <1>3 DEF IInv

LEMMA CommitInv == ASSUME IInv, NEW c \in Clients, Commit(c) PROVE IInv'
  <1> DEFINE u == [txn[c] EXCEPT !.pc = "idle", !.id = IdOf(txn[c]), !.reply = "ok"]
  <1>1. txn[c].pc = "commit" /\ Publish(txn[c]) /\ txn[c] \in Txn /\ calls' = calls
    BY CommitFits DEF Commit
  <1>2. IdOf(txn[c]) \in Nat
    BY <1>1 DEF IdOf, Txn, IInv, TypeOK
  <1>3. u \in Txn /\ u.pc = "idle"
    BY <1>1, <1>2 DEF Txn, Pcs, Replies
  <1>4. txn' = [txn EXCEPT ![c] = u]
    BY DEF Commit, IInv, TypeOK, Txn
  <1> HIDE DEF u
  <1> QED
    BY <1>1, <1>3, <1>4, PublishInv

LEMMA CommitUnacknowledgedInv ==
  ASSUME IInv, NEW c \in Clients, CommitUnacknowledged(c) PROVE IInv'
  <1> DEFINE u == [txn[c] EXCEPT !.pc = "idle", !.reply = "error"]
  <1>1. txn[c].pc = "commit" /\ Publish(txn[c]) /\ txn[c] \in Txn /\ calls' = calls
    BY CommitFits DEF CommitUnacknowledged
  <1>2. u \in Txn /\ u.pc = "idle"
    BY <1>1 DEF Txn, Pcs, Replies
  <1>3. txn' = [txn EXCEPT ![c] = u]
    BY DEF CommitUnacknowledged, Reply, IInv, TypeOK, Txn
  <1> HIDE DEF u
  <1> QED
    BY <1>1, <1>2, <1>3, PublishInv

\* A delete takes a row nobody holds, with its whole changelog.
LEMMA DeleteInv == ASSUME IInv, NEW c \in Clients, DeleteRow(c) PROVE IInv'
  <1> DEFINE t == txn[c]
             gone == RowsWith(t.seen)
  <1>1. CASE gone = {}
    BY <1>1, ReplyInv DEF DeleteRow, Replies, Unpublished
  <1>2. CASE gone # {}
    <2> DEFINE u == [t EXCEPT !.pc = "idle", !.reply = "ok"]
    <2>1. /\ schemas' = {r \in schemas : r.id # t.seen}
          /\ schema_versions' = {e \in schema_versions : e.schema_id # t.seen}
          /\ nextId' = nextId /\ calls' = calls
          /\ RowFree(c, t.seen) /\ t \in Txn
      BY <1>2 DEF DeleteRow, RowsWith, LogOf, IInv, TypeOK
    <2>2. u \in Txn /\ u.pc = "idle"
      BY <2>1 DEF Txn, Pcs, Replies
    <2>3. txn' = [txn EXCEPT ![c] = u]
      BY <1>2 DEF DeleteRow, Reply, IInv, TypeOK, Txn
    <2>4. \A o \in Clients \ {c} : Holds(o, txn[o].id) =>
            \A r \in schemas : r.id = txn[o].id => r \in schemas'
      BY <2>1 DEF RowFree
    <2>5. \A o \in Clients \ {c} : Inserting(o, txn[o].slot) =>
            \A q \in schemas' : q.slot # txn[o].slot
      BY <2>1 DEF IInv, LockDiscipline
    <2> HIDE DEF u
    <2>6. LockDiscipline'
      BY <2>2, <2>3, <2>4, <2>5, DisciplineKept
    <2>7. TypeOK'
      BY <2>1, <2>2, <2>3 DEF IInv, TypeOK
    <2>8. IdsAssigned' /\ UniqueRows'
      BY <2>1 DEF IInv, IdsAssigned, UniqueRows
    <2>9. ChangelogComplete'
      <3>1. \A e \in schema_versions' : \E r \in schemas' :
              e.schema_id = r.id /\ e.version \in 1 .. r.version
        BY <2>1 DEF IInv, ChangelogComplete
      <3>2. \A r \in schemas' : \A v \in 1 .. r.version :
              \E e \in schema_versions' : e.schema_id = r.id /\ e.version = v
        BY <2>1 DEF IInv, ChangelogComplete
      <3>3. \A r \in schemas' :
              [schema_id |-> r.id, version |-> r.version, schema |-> r.schema]
                \in schema_versions'
        BY <2>1 DEF IInv, ChangelogComplete
      <3> QED
        BY <2>1, <3>1, <3>2, <3>3 DEF IInv, ChangelogComplete
    <2> QED
      BY <2>6, <2>7, <2>8, <2>9 DEF IInv
  <1> QED
    BY <1>1, <1>2

\* A status decision changes one column of a row nobody holds.
LEMMA UpdateStatusInv == ASSUME IInv, NEW c \in Clients, UpdateStatus(c) PROVE IInv'
  <1> DEFINE t == txn[c]
  <1>1. CASE RowsWith(t.id) = {}
    BY <1>1, ReplyInv DEF UpdateStatus, Replies, Unpublished
  <1>2. CASE RowsWith(t.id) # {}
    <2> DEFINE u == [t EXCEPT !.pc = "reread"]
               New(r) == IF r.id = t.id THEN Decide(r, t.status) ELSE r
    <2>1. /\ schemas' = {New(r) : r \in schemas}
          /\ UNCHANGED <<schema_versions, nextId, calls>>
          /\ RowFree(c, t.id) /\ t \in Txn
      BY <1>2 DEF UpdateStatus, IInv, TypeOK
    <2>2. u \in Txn /\ u.pc = "reread"
      BY <2>1 DEF Txn, Pcs
    <2>3. txn' = [txn EXCEPT ![c] = u]
      BY <1>2 DEF UpdateStatus, Goto, IInv, TypeOK, Txn
    <2>4. \A r \in schemas :
            /\ New(r) \in SchemaRow
            /\ New(r).id = r.id /\ New(r).slot = r.slot
            /\ New(r).version = r.version /\ New(r).schema = r.schema
      BY <2>1 DEF Decide, IInv, TypeOK, SchemaRow, Txn
    <2> HIDE DEF u, New
    <2>5. \A r \in schemas : New(r) \in schemas'
      BY <2>1
    <2>6. \A q \in schemas' : \E r \in schemas : q = New(r)
      BY <2>1
    <2>7. LockDiscipline'
      <3>1. \A o \in Clients \ {c} : Inserting(o, txn[o].slot) =>
              \A q \in schemas' : q.slot # txn[o].slot
        BY <2>4, <2>6 DEF IInv, LockDiscipline
      <3>2. \A o \in Clients \ {c} : Holds(o, txn[o].id) =>
              \A r \in schemas : r.id = txn[o].id =>
                \E q \in schemas' : q.id = r.id /\ q.version = r.version /\ q.schema = r.schema
        BY <2>4, <2>5
      <3> QED
        BY <2>2, <2>3, <3>1, <3>2, DisciplineKept
    <2>8. TypeOK'
      BY <2>1, <2>2, <2>3, <2>4, <2>6 DEF IInv, TypeOK
    <2>9. IdsAssigned' /\ UniqueRows'
      BY <2>1, <2>4, <2>6 DEF IInv, IdsAssigned, UniqueRows
    <2>10. ChangelogComplete'
      <3>1. \A e \in schema_versions' : \E q \in schemas' :
              e.schema_id = q.id /\ e.version \in 1 .. q.version
        <4>1. ASSUME NEW e \in schema_versions
              PROVE  \E q \in schemas' : e.schema_id = q.id /\ e.version \in 1 .. q.version
          <5>1. PICK r \in schemas : e.schema_id = r.id /\ e.version \in 1 .. r.version
            BY DEF IInv, ChangelogComplete
          <5> QED
            BY <2>4, <2>5, <5>1
        <4> QED
          BY <2>1, <4>1
      <3>2. \A q \in schemas' : \A v \in 1 .. q.version :
              \E e \in schema_versions' : e.schema_id = q.id /\ e.version = v
        BY <2>1, <2>4, <2>6 DEF IInv, ChangelogComplete
      <3>3. ASSUME NEW q \in schemas'
            PROVE  [schema_id |-> q.id, version |-> q.version, schema |-> q.schema]
                     \in schema_versions'
        <4>1. PICK r \in schemas : q = New(r)
          BY <2>6
        <4>2. q.id = r.id /\ q.version = r.version /\ q.schema = r.schema
          BY <2>4, <4>1
        <4>3. [schema_id |-> r.id, version |-> r.version, schema |-> r.schema]
                \in schema_versions
          BY DEF IInv, ChangelogComplete
        <4> QED
          BY <2>1, <4>2, <4>3
      <3> QED
        BY <2>1, <3>1, <3>2, <3>3 DEF IInv, ChangelogComplete
    <2> QED
      BY <2>7, <2>8, <2>9, <2>10 DEF IInv
  <1> QED
    BY <1>1, <1>2

-----------------------------------------------------------------------------
LEMMA InitInv == Init => IInv
  <1> SUFFICES ASSUME Init PROVE IInv
    OBVIOUS
  <1>1. \A s \in Seeded : /\ s \in Slots /\ SeedId[s] \in 1 .. FirstId - 1
                          /\ SeedDoc[s] \in Docs /\ SeedRow(s) \in SchemaRow
    BY SeedAssumption DEF SeedRow, SchemaRow, Statuses
  <1>2. \A s \in Seeded : /\ SeedRow(s).id = SeedId[s] /\ SeedRow(s).slot = s
                          /\ SeedRow(s).version = 1 /\ SeedRow(s).schema = SeedDoc[s]
    BY DEF SeedRow
  <1> DEFINE SeedEntry(s) == [schema_id |-> SeedId[s], version |-> 1, schema |-> SeedDoc[s]]
  <1>3. schemas = {SeedRow(s) : s \in Seeded} /\ schema_versions = {SeedEntry(s) : s \in Seeded}
    BY DEF Init
  <1>4. TypeOK
    <2>1. schema_versions \subseteq VersionRow
      BY <1>1, <1>3 DEF VersionRow
    <2> QED
      BY <1>1, <1>3, <2>1, NoTxnTyped, SeedAssumption, RepositoryAssumption DEF Init, TypeOK
  <1>5. IdsAssigned
    BY <1>1, <1>2, <1>3, SeedAssumption DEF Init, IdsAssigned
  <1>6. UniqueRows
    BY <1>1, <1>2, <1>3, SeedAssumption DEF UniqueRows
  <1>7. ChangelogComplete
    <2>1. \A e \in schema_versions : \E r \in schemas :
            e.schema_id = r.id /\ e.version \in 1 .. r.version
      BY <1>2, <1>3
    <2>2. ASSUME NEW r \in schemas, NEW v \in 1 .. r.version
          PROVE  \E e \in schema_versions : e.schema_id = r.id /\ e.version = v
      <3>1. PICK s \in Seeded : r = SeedRow(s)
        BY <1>3
      <3>2. r.id = SeedId[s] /\ v = 1
        BY <1>2, <3>1
      <3>3. SeedEntry(s) \in schema_versions
        BY <1>3
      <3> QED
        BY <3>2, <3>3
    <2>3. \A e, f \in schema_versions :
            (e.schema_id = f.schema_id /\ e.version = f.version) => e = f
      BY <1>3, SeedAssumption
    <2>4. ASSUME NEW r \in schemas
          PROVE  [schema_id |-> r.id, version |-> r.version, schema |-> r.schema]
                   \in schema_versions
      <3>1. PICK s \in Seeded : r = SeedRow(s)
        BY <1>3
      <3>2. r.id = SeedId[s] /\ r.version = 1 /\ r.schema = SeedDoc[s]
        BY <1>2, <3>1
      <3>3. SeedEntry(s) \in schema_versions
        BY <1>3
      <3> QED
        BY <3>2, <3>3
    <2> QED
      BY <2>1, <2>2, <2>3, <2>4 DEF ChangelogComplete
  <1>8. LockDiscipline
    <2>1. \A c \in Clients : txn[c].pc = "idle" /\ txn[c] = NoTxn
      BY DEF Init, NoTxn
    <2> QED
      BY <2>1 DEF LockDiscipline, Holds, Inserting
  <1> QED
    BY <1>4, <1>5, <1>6, <1>7, <1>8 DEF IInv

LEMMA NextInv == IInv /\ [Next]_vars => IInv'
  <1> SUFFICES ASSUME IInv, [Next]_vars PROVE IInv'
    OBVIOUS
  <1>1. ASSUME NEW c \in Clients, Start(c) PROVE IInv'
    BY <1>1, StartInv
  <1>2. ASSUME NEW c \in Clients, Step(c) PROVE IInv'
    <2>1. CASE UpsertSelect(c) BY <2>1, SelectInv
    <2>2. CASE UpdateRow(c) BY <2>2, UpdateRowInv
    <2>3. CASE InsertRow(c) BY <2>3, InsertRowInv
    <2>4. CASE LogVersion(c) BY <2>4, LogVersionInv
    <2>5. CASE Commit(c) BY <2>5, CommitInv
    <2>6. CASE Release(c) BY <2>6, ReplyInv DEF Release, Replies
    <2>7. CASE DeleteRow(c) BY <2>7, DeleteInv
    <2>8. CASE UpdateStatus(c) BY <2>8, UpdateStatusInv
    <2>9. CASE Reread(c) BY <2>9, ReplyInv DEF Reread, Replies
    <2> QED
      BY <1>2, <2>1, <2>2, <2>3, <2>4, <2>5, <2>6, <2>7, <2>8, <2>9 DEF Step
  <1>3. ASSUME NEW c \in Clients, Fault(c) PROVE IInv'
    <2>1. CASE CommitUnacknowledged(c) BY <2>1, CommitUnacknowledgedInv
    <2>2. CASE Fail(c) BY <2>2, ReplyInv DEF Fail, Replies
    <2> QED
      BY <1>3, <2>1, <2>2 DEF Fault
  <1>4. CASE UNCHANGED vars
    BY <1>4 DEF vars, IInv, TypeOK, IdsAssigned, UniqueRows, ChangelogComplete,
                LockDiscipline, RowFree, SlotFree, Holds, Inserting
  <1> QED
    BY <1>1, <1>2, <1>3, <1>4 DEF Next

LEMMA Invariance == Spec => []IInv
  BY InitInv, NextInv, PTL DEF Spec

-----------------------------------------------------------------------------
(* The theorems. *)

\* Every variable keeps its type.
THEOREM TypeCorrect == Spec => []TypeOK
  <1>1. IInv => TypeOK
    BY DEF IInv
  <1> QED
    BY <1>1, Invariance, PTL

\* No two rows ever share a lookup key or an id.
THEOREM RowsStayUnique == Spec => []UniqueRows
  <1>1. IInv => UniqueRows
    BY DEF IInv
  <1> QED
    BY <1>1, Invariance, PTL

\* The changelog always holds every version of every row and nothing else.
THEOREM ChangelogStaysComplete == Spec => []ChangelogComplete
  <1>1. IInv => ChangelogComplete
    BY DEF IInv
  <1> QED
    BY <1>1, Invariance, PTL

\* What a transaction has read FOR UPDATE stays true until it ends.
THEOREM PendingWritesStayCurrent == Spec => []LockDiscipline
  <1>1. IInv => LockDiscipline
    BY DEF IInv
  <1> QED
    BY <1>1, Invariance, PTL

-----------------------------------------------------------------------------
(* What a step may never do to the tables. *)

\* The tables change by a commit, by a DELETE and by the UPDATE of a status only.
LEMMA TableChanges ==
  ASSUME [Next]_vars
  PROVE  \/ \E c \in Clients : txn[c].pc = "commit" /\ Publish(txn[c])
         \/ \E c \in Clients : DeleteRow(c) \/ UpdateStatus(c)
         \/ UNCHANGED <<schemas, schema_versions, nextId>>
  <1>1. CASE UNCHANGED vars
    BY <1>1 DEF vars
  <1>2. ASSUME NEW c \in Clients, Start(c)
        PROVE  UNCHANGED <<schemas, schema_versions, nextId>>
    BY <1>2 DEF Start, AddStart, UpsertStart, DeleteStart, UpdateStatusStart, Call
  <1>3. ASSUME NEW c \in Clients, Step(c)
        PROVE  \/ txn[c].pc = "commit" /\ Publish(txn[c])
               \/ DeleteRow(c) \/ UpdateStatus(c)
               \/ UNCHANGED <<schemas, schema_versions, nextId>>
    BY <1>3 DEF Step, UpsertSelect, UpdateRow, InsertRow, LogVersion, Commit, Release,
                Reread, Unpublished
  <1>4. ASSUME NEW c \in Clients, Fault(c)
        PROVE  \/ txn[c].pc = "commit" /\ Publish(txn[c])
               \/ UNCHANGED <<schemas, schema_versions, nextId>>
    BY <1>4 DEF Fault, CommitUnacknowledged, Fail, Unpublished
  <1> QED
    BY <1>1, <1>2, <1>3, <1>4 DEF Next

\* A commit inserts a row with an id nobody had, or revises the one it holds.
LEMMA PublishStep ==
  ASSUME IInv, NEW c \in Clients, txn[c].pc = "commit", Publish(txn[c])
  PROVE  RowKeptOrRevised /\ LogKept
  <1> DEFINE t == txn[c]
  <1>1. LogKept
    BY DEF LogKept, Publish, PublishInsert, PublishUpdate
  <1>2. CASE t.id = NoId
    <2>1. schemas' = schemas \cup {InsertedRow(t)} /\ InsertedRow(t).id = nextId
      BY <1>2 DEF Publish, PublishInsert, InsertedRow
    <2>2. \A r \in schemas : r.id # nextId
      BY DEF IInv, IdsAssigned, TypeOK
    <2>3. \A r, q \in schemas : r.id = q.id => r = q
      BY DEF IInv, UniqueRows
    <2> QED
      BY <1>1, <2>1, <2>2, <2>3 DEF RowKeptOrRevised
  <1>3. CASE t.id # NoId
    <2>1. PICK r \in schemas : /\ r.id = t.id /\ t.version = r.version + 1
                               /\ ~JsonContentEqual(r.schema, t.doc)
      BY <1>3, CommitFits
    <2>2. schemas' = (schemas \ {r}) \cup {UpdatedRow(r, t)}
      BY <1>3, <2>1, CommitFits, UpdatedTable DEF Publish
    <2>3. /\ UpdatedRow(r, t).id = r.id /\ UpdatedRow(r, t).slot = r.slot
          /\ UpdatedRow(r, t).version = r.version + 1 /\ UpdatedRow(r, t).schema = t.doc
          /\ UpdatedRow(r, t).status = r.status
      BY <2>1 DEF UpdatedRow, IInv, TypeOK, SchemaRow
    <2>4. \A p, q \in schemas : p.id = q.id => p = q
      BY DEF IInv, UniqueRows
    <2> QED
      BY <1>1, <2>1, <2>2, <2>3, <2>4 DEF RowKeptOrRevised
  <1> QED
    BY <1>2, <1>3

\* A row that is deleted leaves no other row of its id behind.
LEMMA DeleteStep ==
  ASSUME IInv, NEW c \in Clients, DeleteRow(c)
  PROVE  RowKeptOrRevised /\ LogKept
  <1> DEFINE i == txn[c].seen
  <1>1. schemas' \subseteq schemas
    BY DEF DeleteRow
  <1>2. RowKeptOrRevised
    BY <1>1 DEF RowKeptOrRevised, IInv, UniqueRows
  <1>3. CASE RowsWith(i) = {}
    BY <1>2, <1>3 DEF DeleteRow, LogKept
  <1>4. CASE RowsWith(i) # {}
    <2>1. schemas' = schemas \ RowsWith(i) /\ schema_versions' = schema_versions \ LogOf(i)
      BY <1>4 DEF DeleteRow
    <2> QED
      BY <1>2, <2>1 DEF LogKept, RowsWith, LogOf
  <1> QED
    BY <1>3, <1>4

\* A decision changes no content.
LEMMA UpdateStatusStep ==
  ASSUME IInv, NEW c \in Clients, UpdateStatus(c)
  PROVE  RowKeptOrRevised /\ LogKept
  <1> DEFINE t == txn[c]
             New(r) == IF r.id = t.id THEN Decide(r, t.status) ELSE r
  <1>1. LogKept
    BY DEF UpdateStatus, LogKept
  <1>2. \A r \in schemas : /\ New(r).id = r.id /\ New(r).slot = r.slot
                           /\ New(r).version = r.version /\ New(r).schema = r.schema
    BY DEF Decide, IInv, TypeOK, SchemaRow
  <1>3. \A r, q \in schemas : r.id = q.id => r = q
    BY DEF IInv, UniqueRows
  <1>4. CASE schemas' = schemas
    BY <1>1, <1>3, <1>4 DEF RowKeptOrRevised
  <1>5. CASE schemas' = {New(r) : r \in schemas}
    <2> HIDE DEF New
    <2>1. \A q \in schemas' : \E p \in schemas : q = New(p)
      BY <1>5
    <2> QED
      BY <1>1, <1>2, <1>3, <2>1 DEF RowKeptOrRevised
  <1> QED
    BY <1>4, <1>5 DEF UpdateStatus

LEMMA TablesStep ==
  ASSUME IInv, [Next]_vars
  PROVE  RowKeptOrRevised /\ LogKept
  <1>1. CASE UNCHANGED <<schemas, schema_versions, nextId>>
    BY <1>1 DEF RowKeptOrRevised, LogKept, IInv, UniqueRows
  <1> QED
    BY <1>1, TableChanges, PublishStep, DeleteStep, UpdateStatusStep

-----------------------------------------------------------------------------
(* The theorems. *)

\* No update is lost: a row keeps slot and content, or is revised by exactly one
\* version with a content that differs.
THEOREM RowsAreRevised == Spec => RevisionStep
  <1>1. IInv /\ [Next]_vars => [RowKeptOrRevised]_vars
    BY TablesStep
  <1> QED
    BY <1>1, Invariance, PTL DEF Spec, RevisionStep

\* The changelog of a row that stays is append only.
THEOREM ChangelogIsAppendOnly == Spec => LogImmutable
  <1>1. IInv /\ [Next]_vars => [LogKept]_vars
    BY TablesStep
  <1> QED
    BY <1>1, Invariance, PTL DEF Spec, LogImmutable

-----------------------------------------------------------------------------
(* What an acknowledged Add or Upsert may rely on: ids are never used again and *)
(* the changelog is append only, so that once the entry is there it stays for  *)
(* as long as the row does.                                                    *)

\* The reply of client c is backed by the changelog.
Logged(c) ==
  \/ RowsWith(txn[c].id) = {}
  \/ \E e \in LogOf(txn[c].id) :
       /\ e.version = txn[c].version
       /\ e.schema = txn[c].doc \/ JsonContentEqual(e.schema, txn[c].doc)

\* An Upsert that found its content stored holds the row that has it.
FoundStored(c) ==
  \E r \in schemas : /\ r.id = txn[c].id
                     /\ r.version = txn[c].version
                     /\ JsonContentEqual(r.schema, txn[c].doc)

\* Statements outside a transaction belong to the calls that issue them.
CallsMatch(c) ==
  /\ txn[c].pc = "delete" => txn[c].op = "Delete"
  /\ txn[c].pc \in {"setstatus", "reread"} => txn[c].op = "UpdateStatus"

Backed(c) ==
  /\ CallsMatch(c)
  /\ txn[c].pc = "release" => FoundStored(c)
  /\ Acknowledged(c) => txn[c].id < nextId /\ Logged(c)

RepliesBacked == \A c \in Clients : Backed(c)

-----------------------------------------------------------------------------
(* The client whose step it is not. *)

\* A row somebody has read FOR UPDATE stays as it is until that transaction ends.
LEMMA HeldRowStays ==
  ASSUME IInv, [Next]_vars, NEW c \in Clients, txn[c].pc = "release", NEW r \in schemas,
         r.id = txn[c].id
  PROVE  r \in schemas'
  <1>1. Holds(c, r.id)
    BY DEF Holds, IInv, LockDiscipline
  <1>2. ASSUME NEW a \in Clients, txn[a].pc = "commit", Publish(txn[a])
        PROVE  r \in schemas'
    <2>1. a # c
      BY <1>2
    <2>2. txn[a].id # NoId => txn[a].id # r.id
      BY <1>1, <1>2, <2>1, CommitFits DEF RowFree
    <2> QED
      BY <1>2, <2>2 DEF Publish, PublishInsert, PublishUpdate
  <1>3. ASSUME NEW a \in Clients, DeleteRow(a) PROVE r \in schemas'
    <2>1. a # c /\ txn[a].seen # r.id
      BY <1>1, <1>3 DEF DeleteRow, RowFree
    <2> QED
      BY <1>3, <2>1 DEF DeleteRow, RowsWith
  <1>4. ASSUME NEW a \in Clients, UpdateStatus(a) PROVE r \in schemas'
    <2>1. a # c /\ txn[a].id # r.id
      BY <1>1, <1>4 DEF UpdateStatus, RowFree
    <2> QED
      BY <1>4, <2>1 DEF UpdateStatus
  <1> QED
    BY <1>2, <1>3, <1>4, TableChanges

\* No row takes an id that has been handed out.
LEMMA IdsNotReused ==
  ASSUME IInv, [Next]_vars
  PROVE  /\ nextId \in Nat /\ nextId' \in Nat /\ nextId' >= nextId
         /\ \A q \in schemas' : q.id >= nextId \/ \E r \in schemas : r.id = q.id
  <1>1. nextId \in Nat
    BY DEF IInv, TypeOK
  <1>2. CASE UNCHANGED <<schemas, schema_versions, nextId>>
    BY <1>1, <1>2
  <1>3. ASSUME NEW a \in Clients, txn[a].pc = "commit", txn[a].id = NoId, Publish(txn[a])
        PROVE  /\ nextId' = nextId + 1
               /\ \A q \in schemas' : q.id = nextId \/ q \in schemas
    BY <1>3 DEF Publish, PublishInsert, InsertedRow
  <1>4. ASSUME NEW a \in Clients, txn[a].pc = "commit", txn[a].id # NoId, Publish(txn[a])
        PROVE  /\ nextId' = nextId
               /\ \A q \in schemas' : \E r \in schemas : r.id = q.id
    <2>1. PICK r \in schemas : r.id = txn[a].id
      BY <1>4, CommitFits
    <2>2. schemas' = (schemas \ {r}) \cup {UpdatedRow(r, txn[a])}
      BY <1>4, <2>1, CommitFits, UpdatedTable DEF Publish
    <2>3. UpdatedRow(r, txn[a]).id = r.id
      BY DEF UpdatedRow, IInv, TypeOK, SchemaRow
    <2> QED
      BY <1>4, <2>2, <2>3 DEF Publish, PublishUpdate
  <1>5. ASSUME NEW a \in Clients, DeleteRow(a)
        PROVE  nextId' = nextId /\ schemas' \subseteq schemas
    BY <1>5 DEF DeleteRow
  <1>6. ASSUME NEW a \in Clients, UpdateStatus(a)
        PROVE  nextId' = nextId /\ \A q \in schemas' : \E r \in schemas : r.id = q.id
    <2>1. \A r \in schemas : Decide(r, txn[a].status).id = r.id
      BY DEF Decide, IInv, TypeOK, SchemaRow
    <2> QED
      BY <1>6, <2>1 DEF UpdateStatus
  <1>7. (\E a \in Clients : txn[a].pc = "commit" /\ Publish(txn[a])) =>
          /\ nextId' = nextId \/ nextId' = nextId + 1
          /\ \A q \in schemas' : q.id = nextId \/ \E r \in schemas : r.id = q.id
    BY <1>3, <1>4
  <1>8. (\E a \in Clients : DeleteRow(a) \/ UpdateStatus(a)) =>
          nextId' = nextId /\ \A q \in schemas' : \E r \in schemas : r.id = q.id
    BY <1>5, <1>6
  <1>9. \A q \in schemas' : q.id = nextId => q.id >= nextId
    BY <1>1
  <1> QED
    BY <1>1, <1>2, <1>7, <1>8, <1>9, TableChanges

\* What backs a client that takes no step stays.
LEMMA BystanderBacked ==
  ASSUME IInv, [Next]_vars, NEW c \in Clients, Backed(c), txn'[c] = txn[c]
  PROVE  Backed(c)'
  <1>1. CallsMatch(c)'
    BY DEF Backed, CallsMatch
  <1>2. (txn[c].pc = "release" => FoundStored(c)) => (txn[c].pc = "release" => FoundStored(c))'
    BY HeldRowStays DEF FoundStored
  <1>3. ASSUME Acknowledged(c) PROVE txn[c].id < nextId' /\ Logged(c)'
    <2>1. txn[c].id < nextId /\ Logged(c) /\ txn[c].id \in Nat
      BY <1>3 DEF Backed, IInv, TypeOK, Txn
    <2>2. txn[c].id < nextId'
      BY <2>1, IdsNotReused
    <2>3. CASE RowsWith(txn[c].id) = {}
      <3>1. \A q \in schemas' : q.id # txn[c].id
        BY <2>1, <2>3, IdsNotReused DEF RowsWith
      <3> QED
        BY <2>2, <3>1 DEF Logged, RowsWith
    <2>4. CASE RowsWith(txn[c].id) # {}
      <3>1. PICK e \in schema_versions :
              /\ e.schema_id = txn[c].id /\ e.version = txn[c].version
              /\ e.schema = txn[c].doc \/ JsonContentEqual(e.schema, txn[c].doc)
        BY <2>1, <2>4 DEF Logged, LogOf
      <3>2. e \in schema_versions' \/ \A q \in schemas' : q.id # txn[c].id
        BY <3>1, TablesStep DEF LogKept
      <3> QED
        BY <2>2, <3>1, <3>2 DEF Logged, LogOf, RowsWith
    <2> QED
      BY <2>3, <2>4
  <1> QED
    BY <1>1, <1>2, <1>3 DEF Backed, Acknowledged

-----------------------------------------------------------------------------
(* The client whose step it is. *)

\* A call that ends with anything but an acknowledgement has nothing to back.
LEMMA UnbackedReply ==
  ASSUME IInv, NEW c \in Clients, NEW re \in Replies, Reply(c, re),
         re = "ok" => txn[c].op \notin {"Add", "Upsert"}
  PROVE  Backed(c)'
  <1>1. txn'[c].pc = "idle" /\ txn'[c].reply = re /\ txn'[c].op = txn[c].op
    BY DEF Reply, IInv, TypeOK, Txn
  <1> QED
    BY <1>1 DEF Backed, CallsMatch, Acknowledged

LEMMA StartBacked == ASSUME IInv, NEW c \in Clients, Start(c) PROVE Backed(c)'
  <1>1. txn \in [Clients -> Txn]
    BY DEF IInv, TypeOK
  <1>2. /\ txn'[c].pc \notin {"idle", "release"}
        /\ txn'[c].pc = "delete" => txn'[c].op = "Delete"
        /\ txn'[c].pc \in {"setstatus", "reread"} => txn'[c].op = "UpdateStatus"
    <2>1. ASSUME NEW s \in Slots, NEW d \in Docs, AddStart(c, s, d) \/ UpsertStart(c, s, d)
          PROVE  txn'[c].pc \in {"insert", "select"}
      BY <1>1, <2>1 DEF AddStart, UpsertStart, Call, NoTxn
    <2>2. ASSUME NEW s \in Slots, DeleteStart(c, s)
          PROVE  txn'[c].pc = "delete" /\ txn'[c].op = "Delete"
      BY <1>1, <2>2 DEF DeleteStart, Call, NoTxn
    <2>3. ASSUME NEW i \in 1 .. nextId, NEW st \in Decisions, UpdateStatusStart(c, i, st)
          PROVE  txn'[c].pc = "setstatus" /\ txn'[c].op = "UpdateStatus"
      BY <1>1, <2>3 DEF UpdateStatusStart, Call, NoTxn
    <2> QED
      BY <2>1, <2>2, <2>3 DEF Start
  <1> QED
    BY <1>2 DEF Backed, CallsMatch, Acknowledged

\* A statement that leads to another one of its transaction.
LEMMA GotoBacked ==
  ASSUME IInv, NEW c \in Clients, NEW pc \in {"insert", "log", "commit"}, Goto(c, pc)
  PROVE  Backed(c)'
  <1>1. txn'[c].pc = pc
    BY DEF Goto, IInv, TypeOK, Txn
  <1> QED
    BY <1>1 DEF Backed, CallsMatch, Acknowledged

LEMMA SelectBacked == ASSUME IInv, NEW c \in Clients, UpsertSelect(c) PROVE Backed(c)'
  <1>1. CASE Goto(c, "insert")
    BY <1>1, GotoBacked
  <1>2. ASSUME NEW r \in RowsWith(txn[c].seen), JsonContentEqual(r.schema, txn[c].doc),
               txn' = [txn EXCEPT ![c].pc = "release", ![c].id = r.id, ![c].version = r.version]
        PROVE  Backed(c)'
    <2>1. /\ txn'[c].pc = "release" /\ txn'[c].id = r.id /\ txn'[c].version = r.version
          /\ txn'[c].doc = txn[c].doc
      BY <1>2 DEF IInv, TypeOK, Txn
    <2>2. r \in schemas' /\ JsonContentEqual(r.schema, txn'[c].doc)
      BY <1>2, <2>1 DEF UpsertSelect, Unpublished, RowsWith
    <2> QED
      BY <2>1, <2>2 DEF Backed, CallsMatch, Acknowledged, FoundStored
  <1>3. ASSUME NEW i, NEW v,
               txn' = [txn EXCEPT ![c].pc = "update", ![c].id = i, ![c].version = v]
        PROVE  Backed(c)'
    <2>1. txn'[c].pc = "update"
      BY <1>3 DEF IInv, TypeOK, Txn
    <2> QED
      BY <2>1 DEF Backed, CallsMatch, Acknowledged
  <1>4. \/ Goto(c, "insert")
        \/ \E r \in RowsWith(txn[c].seen) :
             /\ JsonContentEqual(r.schema, txn[c].doc)
             /\ txn' = [txn EXCEPT ![c].pc = "release", ![c].id = r.id, ![c].version = r.version]
        \/ \E i, v : txn' = [txn EXCEPT ![c].pc = "update", ![c].id = i, ![c].version = v]
    BY Zenon DEF UpsertSelect
  <1> QED
    BY <1>1, <1>2, <1>3, <1>4

\* A commit writes the very entry it reports.
LEMMA CommitBacked == ASSUME IInv, NEW c \in Clients, Commit(c) PROVE Backed(c)'
  <1> DEFINE t == txn[c]
             i == IdOf(t)
  <1>1. t \in Txn /\ t.pc = "commit" /\ Publish(t)
    BY CommitFits DEF Commit
  <1>2. /\ txn'[c].pc = "idle" /\ txn'[c].id = i /\ txn'[c].version = t.version
        /\ txn'[c].doc = t.doc
    BY <1>1 DEF Commit, IInv, TypeOK, Txn
  <1>3. Entry(t, i) \in schema_versions'
    BY <1>1 DEF Publish, PublishInsert, PublishUpdate, IdOf
  <1>4. /\ Entry(t, i).schema_id = i /\ Entry(t, i).version = t.version
        /\ Entry(t, i).schema = t.doc
    BY DEF Entry
  <1>5. i < nextId'
    <2>1. CASE t.id = NoId
      BY <1>1, <2>1 DEF Publish, PublishInsert, IdOf, IInv, TypeOK
    <2>2. CASE t.id # NoId
      <3>1. \E r \in schemas : r.id = t.id
        BY <1>1, <2>2, CommitFits
      <3>2. nextId' = nextId /\ nextId \in Nat
        BY <1>1, <2>2 DEF Publish, PublishUpdate, IInv, TypeOK
      <3> QED
        BY <2>2, <3>1, <3>2 DEF IdOf, IInv, IdsAssigned
    <2> QED
      BY <2>1, <2>2
  <1> HIDE DEF t, i
  <1>6. Logged(c)'
    <2> DEFINE e == Entry(t, i)
    <2>1. /\ e \in schema_versions' /\ e.schema_id = txn'[c].id
          /\ e.version = txn'[c].version /\ e.schema = txn'[c].doc
      BY <1>2, <1>3, <1>4
    <2> HIDE DEF e
    <2> QED
      BY <2>1 DEF Logged, LogOf
  <1> QED
    BY <1>2, <1>5, <1>6 DEF Backed, CallsMatch, Acknowledged

\* The row found with the same content has it in the changelog.
LEMMA ReleaseBacked ==
  ASSUME IInv, NEW c \in Clients, Backed(c), Release(c)
  PROVE  Backed(c)'
  <1>1. /\ txn'[c].pc = "idle" /\ txn'[c].id = txn[c].id
        /\ txn'[c].version = txn[c].version /\ txn'[c].doc = txn[c].doc
        /\ UNCHANGED <<schemas, schema_versions, nextId>>
    BY DEF Release, Reply, Unpublished, IInv, TypeOK, Txn
  <1>2. PICK r \in schemas : /\ r.id = txn[c].id /\ r.version = txn[c].version
                             /\ JsonContentEqual(r.schema, txn[c].doc)
    BY DEF Backed, Release, FoundStored
  <1> DEFINE e == [schema_id |-> r.id, version |-> r.version, schema |-> r.schema]
  <1>3. e \in schema_versions
    BY DEF IInv, ChangelogComplete
  <1>4. e.schema_id = r.id /\ e.version = r.version /\ e.schema = r.schema
    OBVIOUS
  <1> HIDE DEF e
  <1>5. r.id < nextId
    BY DEF IInv, IdsAssigned, TypeOK
  <1>6. Logged(c)'
    BY <1>1, <1>2, <1>3, <1>4 DEF Logged, LogOf
  <1> QED
    BY <1>1, <1>2, <1>5, <1>6 DEF Backed, CallsMatch, Acknowledged

LEMMA StepBacked == ASSUME IInv, NEW c \in Clients, Backed(c), Step(c) PROVE Backed(c)'
  <1>1. CASE UpsertSelect(c) BY <1>1, SelectBacked
  <1>2. CASE UpdateRow(c)
    BY <1>2, GotoBacked, UnbackedReply DEF UpdateRow, Replies
  <1>3. CASE InsertRow(c)
    <2>1. \/ Reply(c, "error") \/ Reply(c, "already_exists")
          \/ txn' = [txn EXCEPT ![c].pc = "log", ![c].version = 1]
      BY <1>3, Zenon DEF InsertRow, DuplicateReply
    <2>2. CASE txn' = [txn EXCEPT ![c].pc = "log", ![c].version = 1]
      <3>1. txn'[c].pc = "log"
        BY <2>2 DEF IInv, TypeOK, Txn
      <3> QED
        BY <3>1 DEF Backed, CallsMatch, Acknowledged
    <2> QED
      BY <2>1, <2>2, UnbackedReply DEF Replies
  <1>4. CASE LogVersion(c)
    BY <1>4, GotoBacked, UnbackedReply DEF LogVersion, Replies
  <1>5. CASE Commit(c) BY <1>5, CommitBacked
  <1>6. CASE Release(c) BY <1>6, ReleaseBacked
  <1>7. CASE DeleteRow(c)
    <2>1. txn[c].op = "Delete"
      BY <1>7 DEF DeleteRow, Backed, CallsMatch
    <2>2. Reply(c, "ok") \/ Reply(c, "not_found")
      BY <1>7 DEF DeleteRow
    <2> QED
      BY <2>1, <2>2, UnbackedReply DEF Replies
  <1>8. CASE UpdateStatus(c)
    <2>1. Reply(c, "not_found") \/ Goto(c, "reread")
      BY <1>8 DEF UpdateStatus
    <2>2. ASSUME Goto(c, "reread") PROVE Backed(c)'
      <3>1. txn'[c].pc = "reread" /\ txn'[c].op = txn[c].op
        BY <2>2 DEF Goto, IInv, TypeOK, Txn
      <3>2. txn[c].op = "UpdateStatus"
        BY <1>8 DEF UpdateStatus, Backed, CallsMatch
      <3> QED
        BY <3>1, <3>2 DEF Backed, CallsMatch, Acknowledged
    <2> QED
      BY <2>1, <2>2, UnbackedReply DEF Replies
  <1>9. CASE Reread(c)
    <2>1. txn[c].op = "UpdateStatus"
      BY <1>9 DEF Reread, Backed, CallsMatch
    <2>2. Reply(c, "ok") \/ Reply(c, "error")
      BY <1>9 DEF Reread
    <2> QED
      BY <2>1, <2>2, UnbackedReply DEF Replies
  <1> QED
    BY <1>1, <1>2, <1>3, <1>4, <1>5, <1>6, <1>7, <1>8, <1>9 DEF Step

LEMMA FaultBacked == ASSUME IInv, NEW c \in Clients, Fault(c) PROVE Backed(c)'
  <1>1. Reply(c, "error")
    BY DEF Fault, CommitUnacknowledged, Fail
  <1> QED
    BY <1>1, UnbackedReply DEF Replies

-----------------------------------------------------------------------------
\* A step changes the record of one client.
LEMMA OneActor ==
  ASSUME IInv, NEW a \in Clients, Start(a) \/ Step(a) \/ Fault(a)
  PROVE  \A o \in Clients \ {a} : txn'[o] = txn[o]
  <1>1. \E u : txn' = [txn EXCEPT ![a] = u]
    <2>1. CASE Start(a)
      BY <2>1 DEF Start, AddStart, UpsertStart, DeleteStart, UpdateStatusStart, Call
    <2>2. CASE Step(a)
      BY <2>2 DEF Step, UpsertSelect, UpdateRow, InsertRow, LogVersion, Commit, Release,
                  DeleteRow, UpdateStatus, Reread, Reply, Goto
    <2>3. CASE Fault(a)
      BY <2>3 DEF Fault, CommitUnacknowledged, Fail, Reply
    <2> QED
      BY <2>1, <2>2, <2>3
  <1> QED
    BY <1>1 DEF IInv, TypeOK

LEMMA RepliesInv == IInv /\ RepliesBacked /\ [Next]_vars => RepliesBacked'
  <1> SUFFICES ASSUME IInv, RepliesBacked, [Next]_vars, NEW c \in Clients PROVE Backed(c)'
    BY DEF RepliesBacked
  <1>1. Backed(c)
    BY DEF RepliesBacked
  <1>2. CASE txn'[c] = txn[c]
    BY <1>1, <1>2, BystanderBacked
  <1>3. CASE txn'[c] # txn[c]
    <2>1. Start(c) \/ Step(c) \/ Fault(c)
      BY <1>3, OneActor DEF Next, vars
    <2> QED
      BY <1>1, <2>1, StartBacked, StepBacked, FaultBacked
  <1> QED
    BY <1>2, <1>3

\* Whatever an Add or Upsert reported can be read back for as long as its row lives.
THEOREM AcknowledgedStaysLogged == Spec => []AcknowledgedIsLogged
  <1>1. Init => RepliesBacked
    BY DEF Init, NoTxn, RepliesBacked, Backed, CallsMatch, Acknowledged
  <1>2. RepliesBacked => AcknowledgedIsLogged
    BY DEF RepliesBacked, Backed, Logged, AcknowledgedIsLogged
  <1> QED
    BY <1>1, <1>2, RepliesInv, Invariance, PTL DEF Spec

-----------------------------------------------------------------------------
(* FOR UPDATE serialises the writers of a row: an Upsert that saw a row works  *)
(* on that row until it ends, or the row is gone for ever.                     *)

\* Why an Upsert may fail although nothing does.
Excused(c) == txn[c].doc \in Malformed \/ RowsWith(txn[c].seen) = {}

Served(c) ==
  (txn[c].op = "Upsert" /\ txn[c].seen # NoId) =>
    /\ txn[c].seen < nextId
    /\ txn[c].pc = "insert" => Excused(c)
    /\ txn[c].pc \in {"update", "log", "commit"} => txn[c].id = txn[c].seen \/ Excused(c)
    /\ txn[c].pc = "idle" => txn[c].reply = "ok" \/ Excused(c)

\* A row that is gone stays gone.
LEMMA ExcusedStays ==
  ASSUME IInv, [Next]_vars, NEW c \in Clients, Excused(c), txn[c].seen < nextId,
         txn'[c].doc = txn[c].doc, txn'[c].seen = txn[c].seen
  PROVE  Excused(c)'
  <1>1. CASE txn[c].doc \in Malformed
    BY <1>1 DEF Excused
  <1>2. CASE RowsWith(txn[c].seen) = {}
    <2>1. txn[c].seen \in Nat
      BY DEF IInv, TypeOK, Txn
    <2>2. \A q \in schemas' : q.id # txn[c].seen
      BY <1>2, <2>1, IdsNotReused DEF RowsWith, IInv, IdsAssigned, TypeOK
    <2> QED
      BY <2>2 DEF Excused, RowsWith
  <1> QED
    BY <1>1, <1>2 DEF Excused

LEMMA BystanderServed ==
  ASSUME IInv, [Next]_vars, NEW c \in Clients, Served(c), txn'[c] = txn[c]
  PROVE  Served(c)'
  <1>1. CASE txn[c].op = "Upsert" /\ txn[c].seen # NoId
    <2>1. txn[c].seen < nextId /\ txn[c].seen < nextId'
      BY <1>1, IdsNotReused DEF Served, IInv, TypeOK, Txn
    <2>2. Excused(c) => Excused(c)'
      BY <2>1, ExcusedStays
    <2> QED
      BY <1>1, <2>1, <2>2 DEF Served
  <1>2. CASE ~(txn[c].op = "Upsert" /\ txn[c].seen # NoId)
    BY <1>2 DEF Served
  <1> QED
    BY <1>1, <1>2

LEMMA StartServed == ASSUME IInv, NEW c \in Clients, Start(c) PROVE Served(c)'
  <1>1. txn \in [Clients -> Txn] /\ UNCHANGED nextId
    BY DEF IInv, TypeOK, Start, AddStart, UpsertStart, DeleteStart, UpdateStatusStart, Call
  <1>2. ASSUME NEW s \in Slots, NEW d \in Docs, UpsertStart(c, s, d) PROVE Served(c)'
    <2>1. txn'[c].pc = "select" /\ txn'[c].seen = IdAt(s)
      BY <1>1, <1>2 DEF UpsertStart, Call, NoTxn
    <2>2. IdAt(s) < nextId
      BY DEF IdAt, RowsAt, IInv, IdsAssigned, TypeOK, NoId, SchemaRow
    <2> QED
      BY <1>1, <2>1, <2>2 DEF Served
  <1>3. ASSUME NEW s \in Slots, NEW d \in Docs, AddStart(c, s, d) PROVE Served(c)'
    <2>1. txn'[c].op = "Add"
      BY <1>1, <1>3 DEF AddStart, Call, NoTxn
    <2> QED
      BY <2>1 DEF Served
  <1>4. ASSUME NEW s \in Slots, DeleteStart(c, s) PROVE Served(c)'
    <2>1. txn'[c].op = "Delete"
      BY <1>1, <1>4 DEF DeleteStart, Call, NoTxn
    <2> QED
      BY <2>1 DEF Served
  <1>5. ASSUME NEW i \in 1 .. nextId, NEW st \in Decisions, UpdateStatusStart(c, i, st)
        PROVE  Served(c)'
    <2>1. txn'[c].op = "UpdateStatus"
      BY <1>1, <1>5 DEF UpdateStatusStart, Call, NoTxn
    <2> QED
      BY <2>1 DEF Served
  <1> QED
    BY <1>2, <1>3, <1>4, <1>5 DEF Start

\* What a statement leaves alone.
SameCall(c) ==
  txn'[c].op = txn[c].op /\ txn'[c].doc = txn[c].doc /\ txn'[c].seen = txn[c].seen

\* The actor's call goes on or returns.
LEMMA ActorServed ==
  ASSUME IInv, [Next]_vars, NEW c \in Clients, Served(c),
         SameCall(c),
         (txn[c].op = "Upsert" /\ txn[c].seen # NoId) =>
           \/ Excused(c)
           \/ /\ txn'[c].pc # "insert"
              /\ txn'[c].pc \in {"update", "log", "commit"} => txn'[c].id = txn[c].seen
              /\ txn'[c].pc = "idle" => txn'[c].reply = "ok"
  PROVE  Served(c)'
  <1>1. CASE txn[c].op = "Upsert" /\ txn[c].seen # NoId
    <2>1. txn[c].seen < nextId /\ txn[c].seen < nextId'
      BY <1>1, IdsNotReused DEF Served, IInv, TypeOK, Txn
    <2>2. Excused(c) => Excused(c)'
      BY <2>1, ExcusedStays DEF SameCall
    <2> QED
      BY <1>1, <2>1, <2>2 DEF Served, SameCall
  <1>2. CASE ~(txn[c].op = "Upsert" /\ txn[c].seen # NoId)
    BY <1>2 DEF Served, SameCall
  <1> QED
    BY <1>1, <1>2

LEMMA GotoSame ==
  ASSUME IInv, NEW c \in Clients, NEW pc, Goto(c, pc)
  PROVE  SameCall(c) /\ txn'[c].pc = pc /\ txn'[c].id = txn[c].id
  <1>1. PICK t \in Txn : t = txn[c]
    BY DEF IInv, TypeOK
  <1>2. PICK u : u = [t EXCEPT !.pc = pc]
    OBVIOUS
  <1>3. txn'[c] = u
    BY <1>1, <1>2 DEF Goto, IInv, TypeOK
  <1>4. u.pc = pc /\ u.id = t.id /\ u.op = t.op /\ u.doc = t.doc /\ u.seen = t.seen
    BY <1>2 DEF Txn
  <1> QED
    BY <1>1, <1>3, <1>4 DEF SameCall

LEMMA ReplySame ==
  ASSUME IInv, NEW c \in Clients, NEW re, Reply(c, re)
  PROVE  SameCall(c) /\ txn'[c].pc = "idle" /\ txn'[c].reply = re
  <1>1. PICK t \in Txn : t = txn[c]
    BY DEF IInv, TypeOK
  <1>2. PICK u : u = [t EXCEPT !.pc = "idle", !.reply = re]
    OBVIOUS
  <1>3. txn'[c] = u
    BY <1>1, <1>2 DEF Reply, IInv, TypeOK
  <1>4. u.pc = "idle" /\ u.reply = re /\ u.op = t.op /\ u.doc = t.doc /\ u.seen = t.seen
    BY <1>2 DEF Txn
  <1> QED
    BY <1>1, <1>3, <1>4 DEF SameCall

LEMMA SelectServed ==
  ASSUME IInv, [Next]_vars, NEW c \in Clients, Served(c), UpsertSelect(c) PROVE Served(c)'
  <1>1. CASE RowsWith(txn[c].seen) = {} /\ Goto(c, "insert")
    BY <1>1, GotoSame, ActorServed DEF Excused
  <1>2. ASSUME NEW r \in RowsWith(txn[c].seen), NEW pc, NEW v,
               txn' = [txn EXCEPT ![c].pc = pc, ![c].id = r.id, ![c].version = v],
               pc \in {"release", "update"}
        PROVE  Served(c)'
    <2>1. PICK t \in Txn : t = txn[c]
      BY DEF IInv, TypeOK
    <2>2. PICK u : u = [t EXCEPT !.pc = pc, !.id = r.id, !.version = v]
      OBVIOUS
    <2>3. txn'[c] = u
      BY <1>2, <2>1, <2>2 DEF IInv, TypeOK
    <2>4. u.pc = pc /\ u.id = r.id /\ u.op = t.op /\ u.doc = t.doc /\ u.seen = t.seen
      BY <2>2 DEF Txn
    <2>5. r.id = t.seen
      BY <2>1 DEF RowsWith
    <2> QED
      BY <1>2, <2>1, <2>3, <2>4, <2>5, ActorServed DEF SameCall
  <1>3. \/ RowsWith(txn[c].seen) = {} /\ Goto(c, "insert")
        \/ \E r \in RowsWith(txn[c].seen) : \E pc \in {"release", "update"} : \E v :
             txn' = [txn EXCEPT ![c].pc = pc, ![c].id = r.id, ![c].version = v]
    BY Zenon DEF UpsertSelect
  <1> QED
    BY <1>1, <1>2, <1>3

\* The changelog does not have the next version of the row a transaction holds.
LEMMA LogVersionServed ==
  ASSUME IInv, [Next]_vars, NEW c \in Clients, Served(c), LogVersion(c) PROVE Served(c)'
  <1>1. CASE Goto(c, "commit")
    BY <1>1, GotoSame, ActorServed DEF Served, LogVersion
  <1>2. CASE (\E e \in LogOf(txn[c].id) : e.version = txn[c].version) /\ Reply(c, "error")
    <2>1. ASSUME txn[c].op = "Upsert", txn[c].seen # NoId PROVE Excused(c)
      <3> SUFFICES ASSUME ~Excused(c) PROVE FALSE
        OBVIOUS
      <3>1. txn[c].pc = "log" /\ txn[c].id = txn[c].seen /\ txn[c].id # NoId
        BY <2>1 DEF LogVersion, Served
      <3>2. PICK r \in schemas : r.id = txn[c].id /\ txn[c].version = r.version + 1
        BY <3>1 DEF IInv, LockDiscipline, Holds
      <3>3. PICK e \in schema_versions : e.schema_id = r.id /\ e.version = r.version + 1
        BY <1>2, <3>2 DEF LogOf
      <3>4. PICK q \in schemas : e.schema_id = q.id /\ e.version \in 1 .. q.version
        BY <3>3 DEF IInv, ChangelogComplete
      <3>5. q = r /\ r.version \in Nat
        BY <3>3, <3>4 DEF IInv, UniqueRows, TypeOK, SchemaRow
      <3> QED
        BY <3>3, <3>4, <3>5
    <2> QED
      BY <1>2, <2>1, ReplySame, ActorServed
  <1> QED
    BY <1>1, <1>2 DEF LogVersion

LEMMA StepServed ==
  ASSUME IInv, [Next]_vars, NEW c \in Clients, Backed(c), Served(c), Step(c) PROVE Served(c)'
  <1>1. CASE UpsertSelect(c) BY <1>1, SelectServed
  <1>2. CASE UpdateRow(c)
    BY <1>2, GotoSame, ReplySame, ActorServed DEF UpdateRow, Served, Excused
  <1>3. CASE InsertRow(c)
    <2>1. SameCall(c)
      <3>1. CASE \E re : Reply(c, re)
        BY <3>1, ReplySame
      <3>2. CASE txn' = [txn EXCEPT ![c].pc = "log", ![c].version = 1]
        BY <3>2 DEF SameCall, IInv, TypeOK, Txn
      <3> QED
        BY <1>3, <3>1, <3>2, Zenon DEF InsertRow
    <2>2. (txn[c].op = "Upsert" /\ txn[c].seen # NoId) => Excused(c)
      BY <1>3 DEF InsertRow, Served
    <2> QED
      BY <2>1, <2>2, ActorServed
  <1>4. CASE LogVersion(c) BY <1>4, LogVersionServed
  <1>5. CASE Commit(c)
    <2>1. SameCall(c) /\ txn'[c].pc = "idle" /\ txn'[c].reply = "ok"
      BY <1>5 DEF Commit, SameCall, IInv, TypeOK, Txn
    <2> QED
      BY <2>1, ActorServed
  <1>6. CASE Release(c)
    BY <1>6, ReplySame, ActorServed DEF Release
  <1>7. CASE DeleteRow(c) \/ UpdateStatus(c) \/ Reread(c)
    <2>1. txn[c].op # "Upsert"
      BY <1>7 DEF DeleteRow, UpdateStatus, Reread, Backed, CallsMatch
    <2>2. SameCall(c)
      BY <1>7, GotoSame, ReplySame DEF DeleteRow, UpdateStatus, Reread
    <2> QED
      BY <2>1, <2>2, ActorServed
  <1> QED
    BY <1>1, <1>2, <1>3, <1>4, <1>5, <1>6, <1>7 DEF Step

LEMMA ServedInv ==
  ASSUME Faults = FALSE
  PROVE  /\ IInv /\ RepliesBacked /\ (\A c \in Clients : Served(c)) /\ [Next]_vars
              => (\A c \in Clients : Served(c))'
  <1> SUFFICES ASSUME IInv, RepliesBacked, \A c \in Clients : Served(c), [Next]_vars,
                      NEW c \in Clients
               PROVE  Served(c)'
    OBVIOUS
  <1>1. Served(c) /\ Backed(c)
    BY DEF RepliesBacked
  <1>2. CASE txn'[c] = txn[c]
    BY <1>1, <1>2, BystanderServed
  <1>3. CASE txn'[c] # txn[c]
    <2>1. Start(c) \/ Step(c) \/ Fault(c)
      BY <1>3, OneActor DEF Next, vars
    <2>2. ~Fault(c)
      BY DEF Fault, CommitUnacknowledged, Fail
    <2> QED
      BY <1>1, <2>1, <2>2, StartServed, StepServed
  <1> QED
    BY <1>2, <1>3

\* When nothing fails: an Upsert of a row that was there when it began returns an error
\* only for a document that is not JSON or because the row has been deleted since.
THEOREM PresentUpsertsSucceed ==
  ASSUME Faults = FALSE PROVE Spec => []PresentUpsertSucceeds
  <1>1. Init => (RepliesBacked /\ \A c \in Clients : Served(c))
    BY DEF Init, NoTxn, RepliesBacked, Backed, CallsMatch, Acknowledged, Served
  <1>2. (\A c \in Clients : Served(c)) => PresentUpsertSucceeds
    BY DEF Served, Excused, PresentUpsertSucceeds
  <1> QED
    BY <1>1, <1>2, RepliesInv, ServedInv, Invariance, PTL DEF Spec
================================================================================

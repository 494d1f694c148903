----------------------- MODULE SchemaRepositoryRefinement -----------------------
(***************************************************************************)
(* The Postgres repository implements the atomic store of SchemaStore: the *)
(* proof of ImplementsStore.  The lemmas speak of the tables as parameters *)
(* rows and log, so that they apply before and after a step alike.         *)
(***************************************************************************)
EXTENDS SchemaRepositoryProofs, SequenceTheorems

\* What IInv says of the tables.
Consistent(rows, log) ==
  /\ rows \subseteq SchemaRow /\ log \subseteq VersionRow
  /\ \A r \in rows : r.version > 0 /\ r.id > 0
  /\ \A r, q \in rows : (r.slot = q.slot \/ r.id = q.id) => r = q
  /\ \A r \in rows : \A v \in 1 .. r.version : \E e \in log : e.schema_id = r.id /\ e.version = v
  /\ \A e, f \in log : (e.schema_id = f.schema_id /\ e.version = f.version) => e = f
  /\ \A r \in rows : [schema_id |-> r.id, version |-> r.version, schema |-> r.schema] \in log

History(log, r) ==
  [v \in 1 .. r.version |-> (CHOOSE e \in log : e.schema_id = r.id /\ e.version = v).schema]

Abstracted(log, r) == [id |-> r.id, status |-> r.status, history |-> History(log, r)]

\* StoreOf, of any tables.
Image(rows, log) ==
  [s \in Slots |->
     IF {r \in rows : r.slot = s} = {}
       THEN NoRow
       ELSE Abstracted(log, CHOOSE r \in {r \in rows : r.slot = s} : TRUE)]

LEMMA ImageIsStore ==
  StoreOf = Image(schemas, schema_versions) /\ StoreOf' = Image(schemas', schema_versions')
  BY DEF StoreOf, Image, RowsAt, AbstractRow, Abstracted, HistoryOf, History

LEMMA InvConsistent == IInv => Consistent(schemas, schema_versions)
  BY DEF IInv, TypeOK, IdsAssigned, UniqueRows, ChangelogComplete, Consistent, SchemaRow

LEMMA NextConsistent == IInv' => Consistent(schemas', schema_versions')
  BY DEF IInv, TypeOK, IdsAssigned, UniqueRows, ChangelogComplete, Consistent, SchemaRow

-----------------------------------------------------------------------------
(* The history of a row. *)

\* A changelog entry is the content of its version.
LEMMA HistoryAt ==
  ASSUME NEW rows, NEW log, Consistent(rows, log), NEW r \in rows, NEW e \in log,
         e.schema_id = r.id, e.version \in 1 .. r.version
  PROVE  History(log, r)[e.version] = e.schema
  <1>1. (CHOOSE f \in log : f.schema_id = r.id /\ f.version = e.version) = e
    BY DEF Consistent
  <1> QED
    BY <1>1 DEF History

\* The history is a sequence of as many documents as the row has versions.
LEMMA HistoryTyped ==
  ASSUME NEW rows, NEW log, Consistent(rows, log), NEW r \in rows
  PROVE  /\ r.version \in Nat
         /\ History(log, r) \in Seq(Docs)
         /\ Len(History(log, r)) = r.version
         /\ History(log, r)[r.version] = r.schema
  <1>1. r.version \in Nat /\ r.version > 0
    BY DEF Consistent, SchemaRow
  <1>2. ASSUME NEW v \in 1 .. r.version PROVE History(log, r)[v] \in Docs
    <2>1. PICK e \in log : e.schema_id = r.id /\ e.version = v
      BY DEF Consistent
    <2>2. e.schema \in Docs
      BY DEF Consistent, VersionRow
    <2> QED
      BY <2>1, <2>2, HistoryAt
  <1>3. History(log, r) \in [1 .. r.version -> Docs]
    BY <1>2 DEF History
  <1>4. History(log, r) \in Seq(Docs)
    BY <1>1, <1>3, SeqDef
  <1>5. Len(History(log, r)) = r.version
    BY <1>1, <1>3, <1>4, LenProperties
  <1>6. History(log, r)[r.version] = r.schema
    <2> DEFINE e == [schema_id |-> r.id, version |-> r.version, schema |-> r.schema]
    <2>1. e \in log
      BY DEF Consistent
    <2>2. e.schema_id = r.id /\ e.version = r.version /\ e.schema = r.schema
      OBVIOUS
    <2> HIDE DEF e
    <2> QED
      BY <1>1, <2>1, <2>2, HistoryAt
  <1> QED
    BY <1>1, <1>4, <1>5, <1>6

\* A longer changelog and a later state of the row agree on the versions of both.
LEMMA HistoryKept ==
  ASSUME NEW rows, NEW log, Consistent(rows, log), NEW r \in rows,
         NEW rows2, NEW log2, Consistent(rows2, log2), NEW q \in rows2,
         q.id = r.id, r.version <= q.version,
         \A e \in log : e.schema_id = r.id => e \in log2
  PROVE  \A v \in 1 .. r.version : History(log2, q)[v] = History(log, r)[v]
  <1> SUFFICES ASSUME NEW v \in 1 .. r.version
               PROVE  History(log2, q)[v] = History(log, r)[v]
    OBVIOUS
  <1>1. PICK e \in log : e.schema_id = r.id /\ e.version = v
    BY DEF Consistent
  <1>2. r.version \in Nat /\ q.version \in Nat
    BY DEF Consistent, SchemaRow
  <1>3. History(log, r)[v] = e.schema
    BY <1>1, HistoryAt
  <1>4. History(log2, q)[v] = e.schema
    BY <1>1, <1>2, HistoryAt
  <1> QED
    BY <1>3, <1>4

\* A row whose version stays keeps its history.
LEMMA HistorySame ==
  ASSUME NEW rows, NEW log, Consistent(rows, log), NEW r \in rows,
         NEW rows2, NEW log2, Consistent(rows2, log2), NEW q \in rows2,
         q.id = r.id, r.version = q.version,
         \A e \in log : e.schema_id = r.id => e \in log2
  PROVE  History(log2, q) = History(log, r)
  <1>1. r.version \in Nat
    BY DEF Consistent, SchemaRow
  <1>2. \A v \in 1 .. r.version : History(log2, q)[v] = History(log, r)[v]
    BY <1>1, HistoryKept
  <1> QED
    BY <1>2 DEF History

-----------------------------------------------------------------------------
(* The store a consistent table stands for. *)

\* A row is what the store holds at its slot, and it is a row of the store.
LEMMA ImageAt ==
  ASSUME NEW rows, NEW log, Consistent(rows, log), NEW r \in rows
  PROVE  /\ r.slot \in Slots
         /\ Image(rows, log)[r.slot] = Abstracted(log, r)
         /\ Abstracted(log, r) \in Store!Row
         /\ Abstracted(log, r) # NoRow
  <1>1. r.slot \in Slots /\ r.id \in Nat \ {0} /\ r.status \in Statuses
    BY DEF Consistent, SchemaRow
  <1>2. {q \in rows : q.slot = r.slot} = {r}
    BY DEF Consistent
  <1>3. (CHOOSE q \in {q \in rows : q.slot = r.slot} : TRUE) = r
    BY <1>2
  <1>4. Image(rows, log)[r.slot] = Abstracted(log, r)
    BY <1>1, <1>2, <1>3 DEF Image
  <1>5. Abstracted(log, r) \in Store!Row
    BY <1>1, HistoryTyped DEF Abstracted, Store!Row, Store!Statuses, Statuses
  <1> QED
    BY <1>1, <1>4, <1>5, AbsenceAssumption

\* A slot without a row is absent from the store.
LEMMA ImageNone ==
  ASSUME NEW rows, NEW log, NEW s \in Slots, \A r \in rows : r.slot # s
  PROVE  Image(rows, log)[s] = NoRow
  <1>1. {r \in rows : r.slot = s} = {}
    OBVIOUS
  <1> QED
    BY <1>1 DEF Image

\* Slots whose rows stay as they are stay in the store.
LEMMA ImageSame ==
  ASSUME NEW rows, NEW log, Consistent(rows, log),
         NEW rows2, NEW log2, Consistent(rows2, log2), NEW s \in Slots,
         \A r \in rows : r.slot = s => r \in rows2,
         \A r \in rows2 : r.slot = s => r \in rows,
         \A r \in rows : r.slot = s => \A e \in log : e.schema_id = r.id => e \in log2
  PROVE  Image(rows2, log2)[s] = Image(rows, log)[s]
  <1>1. CASE \A r \in rows : r.slot # s
    <2>1. \A r \in rows2 : r.slot # s
      BY <1>1
    <2> QED
      BY <1>1, <2>1, ImageNone
  <1>2. CASE \E r \in rows : r.slot = s
    <2>1. PICK r \in rows : r.slot = s
      BY <1>2
    <2>2. r \in rows2
      BY <2>1
    <2>3. History(log2, r) = History(log, r)
      BY <2>1, <2>2, HistorySame
    <2>4. Abstracted(log2, r) = Abstracted(log, r)
      BY <2>3 DEF Abstracted
    <2>5. Image(rows, log)[s] = Abstracted(log, r)
      BY <2>1, ImageAt
    <2>6. Image(rows2, log2)[s] = Abstracted(log2, r)
      BY <2>1, <2>2, ImageAt
    <2> QED
      BY <2>4, <2>5, <2>6
  <1> QED
    BY <1>1, <1>2

-----------------------------------------------------------------------------
(* The steps. *)

\* What every step starts from.
LEMMA StoreAt ==
  ASSUME IInv
  PROVE  /\ \A r \in schemas : /\ r.slot \in Slots
                               /\ StoreOf[r.slot] = Abstracted(schema_versions, r)
                               /\ StoreOf[r.slot] # NoRow
         /\ \A s \in Slots : (\A r \in schemas : r.slot # s) => StoreOf[s] = NoRow
  <1>1. Consistent(schemas, schema_versions)
    BY InvConsistent
  <1> QED
    BY <1>1, ImageAt, ImageNone, ImageIsStore

\* A step that changes one slot only.
LEMMA OneSlot ==
  ASSUME NEW s \in Slots, \A x \in Slots : x # s => StoreOf'[x] = StoreOf[x]
  PROVE  StoreOf' = [StoreOf EXCEPT ![s] = StoreOf'[s]]
  <1>1. StoreOf = [x \in Slots |-> StoreOf[x]]
    BY DEF StoreOf
  <1>2. StoreOf' = [x \in Slots |-> StoreOf'[x]]
    BY DEF StoreOf
  <1> HIDE DEF StoreOf
  <1> QED
    BY <1>1, <1>2

\* A commit of an insert is an Insert.
LEMMA InsertRefines ==
  ASSUME IInv, IInv', NEW c \in Clients, txn[c].pc = "commit", txn[c].id = NoId,
         Publish(txn[c])
  PROVE  Store!Insert(txn[c].slot, txn[c].doc)
  <1> DEFINE t == txn[c]
             q == InsertedRow(t)
             e == Entry(t, nextId)
  <1>1. /\ t \in Txn /\ t.doc \notin Malformed /\ t.version = 1
        /\ \A r \in schemas : r.slot # t.slot
    BY CommitFits
  <1>2. /\ schemas' = schemas \cup {q}
        /\ schema_versions' = schema_versions \cup {e}
        /\ nextId' = nextId + 1
    BY DEF Publish, PublishInsert
  <1>3. t.slot \in Slots /\ t.doc \in Docs
    BY <1>1 DEF Txn
  <1>4. /\ q.id = nextId /\ q.slot = t.slot /\ q.version = 1 /\ q.status = "submitted"
        /\ e.schema_id = nextId /\ e.version = 1 /\ e.schema = t.doc
    BY <1>1 DEF InsertedRow, Entry
  <1> HIDE DEF q, e
  <1>5. Consistent(schemas, schema_versions) /\ Consistent(schemas', schema_versions')
    BY InvConsistent, NextConsistent
  <1>6. ~Store!Present(t.slot)
    BY <1>1, <1>3, StoreAt DEF Store!Present
  <1>7. StoreOf'[t.slot] = Store!NewRow(t.doc)
    <2>1. q \in schemas' /\ e \in schema_versions'
      BY <1>2
    <2>2. StoreOf'[t.slot] = Abstracted(schema_versions', q)
      BY <1>4, <1>5, <2>1, ImageAt, ImageIsStore
    <2>3. History(schema_versions', q)[1] = t.doc
      BY <1>4, <1>5, <2>1, HistoryAt
    <2>4. History(schema_versions', q) = <<t.doc>>
      <3>1. /\ History(schema_versions', q) \in Seq(Docs)
            /\ Len(History(schema_versions', q)) = 1
        BY <1>4, <1>5, <2>1, HistoryTyped
      <3>2. <<t.doc>> \in Seq(Docs) /\ Len(<<t.doc>>) = 1 /\ <<t.doc>>[1] = t.doc
        BY <1>3
      <3> QED
        BY <2>3, <3>1, <3>2, SeqEqual
    <2> QED
      BY <1>4, <2>2, <2>4 DEF Abstracted, Store!NewRow
  <1>8. ASSUME NEW s \in Slots, s # t.slot PROVE StoreOf'[s] = StoreOf[s]
    <2>1. /\ \A r \in schemas : r.slot = s => r \in schemas'
          /\ \A r \in schemas' : r.slot = s => r \in schemas
          /\ \A f \in schema_versions : f \in schema_versions'
      BY <1>2, <1>4, <1>8
    <2> QED
      BY <1>5, <2>1, ImageSame, ImageIsStore
  <1>9. StoreOf' = [StoreOf EXCEPT ![t.slot] = Store!NewRow(t.doc)]
    BY <1>3, <1>7, <1>8, OneSlot
  <1> QED
    BY <1>1, <1>2, <1>6, <1>9 DEF Store!Insert

\* A commit of an update is a Revise.
LEMMA ReviseRefines ==
  ASSUME IInv, IInv', NEW c \in Clients, txn[c].pc = "commit", txn[c].id # NoId,
         Publish(txn[c])
  PROVE  \E s \in Slots, d \in Docs : Store!Revise(s, d)
  <1> DEFINE t == txn[c]
             e == Entry(t, t.id)
  <1>1. t \in Txn /\ t.doc \notin Malformed
    BY CommitFits
  <1>2. PICK r \in schemas : /\ r.id = t.id /\ t.version = r.version + 1
                             /\ ~JsonContentEqual(r.schema, t.doc)
    BY CommitFits
  <1> DEFINE q == UpdatedRow(r, t)
             s == r.slot
             h == History(schema_versions, r)
  <1>3. /\ schemas' = (schemas \ {r}) \cup {q}
        /\ schema_versions' = schema_versions \cup {e}
        /\ nextId' = nextId
    BY <1>1, <1>2, UpdatedTable DEF Publish, PublishUpdate
  <1>4. Consistent(schemas, schema_versions) /\ Consistent(schemas', schema_versions')
    BY InvConsistent, NextConsistent
  <1>5. t.doc \in Docs
    BY <1>1 DEF Txn
  <1>6. /\ q.id = r.id /\ q.slot = s /\ q.version = r.version + 1 /\ q.status = r.status
        /\ e.schema_id = r.id /\ e.version = r.version + 1 /\ e.schema = t.doc
    BY <1>2, <1>4 DEF UpdatedRow, Entry, Consistent, SchemaRow
  <1> HIDE DEF q, e
  <1>7. /\ s \in Slots /\ StoreOf[s] = Abstracted(schema_versions, r) /\ StoreOf[s] # NoRow
    BY StoreAt
  <1>8. /\ r.version \in Nat /\ h \in Seq(Docs) /\ Len(h) = r.version
        /\ h[r.version] = r.schema
    BY <1>4, HistoryTyped
  <1>9. StoreOf[s].history = h /\ StoreOf[s].id = r.id /\ StoreOf[s].status = r.status
    BY <1>7 DEF Abstracted
  <1>10. q \in schemas' /\ e \in schema_versions'
    BY <1>3
  <1>11. History(schema_versions', q) = Append(h, t.doc)
    <2> DEFINE g == History(schema_versions', q)
    <2>1. g \in Seq(Docs) /\ Len(g) = r.version + 1
      BY <1>4, <1>6, <1>10, HistoryTyped
    <2>2. \A v \in 1 .. r.version : g[v] = h[v]
      BY <1>3, <1>4, <1>6, <1>8, <1>10, HistoryKept
    <2>3. g[r.version + 1] = t.doc
      BY <1>4, <1>6, <1>8, <1>10, HistoryAt
    <2> HIDE DEF g, h
    <2>4. Append(h, t.doc) \in Seq(Docs) /\ Len(Append(h, t.doc)) = r.version + 1
      BY <1>5, <1>8
    <2>5. \A v \in 1 .. r.version + 1 : g[v] = Append(h, t.doc)[v]
      <3>1. ASSUME NEW v \in 1 .. r.version PROVE g[v] = Append(h, t.doc)[v]
        BY <1>5, <1>8, <2>2
      <3>2. Append(h, t.doc)[r.version + 1] = t.doc
        BY <1>5, <1>8
      <3> QED
        BY <1>8, <2>3, <3>1, <3>2
    <2>6. g = Append(h, t.doc)
      BY <2>1, <2>4, <2>5, SeqEqual
    <2> QED
      BY <2>6 DEF g
  <1>12. StoreOf'[s] = Store!Revised(StoreOf[s], t.doc)
    <2>1. StoreOf'[s] = Abstracted(schema_versions', q)
      BY <1>4, <1>6, <1>10, ImageAt, ImageIsStore
    <2>2. Store!Revised(Abstracted(schema_versions, r), t.doc) =
            [id |-> r.id, status |-> r.status, history |-> Append(h, t.doc)]
      BY DEF Abstracted, Store!Revised
    <2>3. Abstracted(schema_versions', q) =
            [id |-> r.id, status |-> r.status, history |-> Append(h, t.doc)]
      BY <1>6, <1>11 DEF Abstracted
    <2> QED
      BY <1>7, <2>1, <2>2, <2>3
  <1>13. ASSUME NEW x \in Slots, x # s PROVE StoreOf'[x] = StoreOf[x]
    <2>1. /\ \A p \in schemas : p.slot = x => p \in schemas'
          /\ \A p \in schemas' : p.slot = x => p \in schemas
          /\ \A f \in schema_versions : f \in schema_versions'
      BY <1>3, <1>6, <1>13
    <2> QED
      BY <1>4, <2>1, ImageSame, ImageIsStore
  <1>14. StoreOf' = [StoreOf EXCEPT ![s] = Store!Revised(@, t.doc)]
    BY <1>7, <1>12, <1>13, OneSlot
  <1>15. Store!Content(StoreOf[s]) = r.schema
    BY <1>8, <1>9 DEF Store!Content
  <1>16. Store!Revise(s, t.doc)
    BY <1>1, <1>2, <1>3, <1>7, <1>14, <1>15 DEF Store!Revise, Store!Present, Store!JsonContentEqual, JsonContentEqual
  <1> QED
    BY <1>5, <1>7, <1>16

\* A DELETE that finds its row is a Remove.
LEMMA RemoveRefines ==
  ASSUME IInv, IInv', NEW c \in Clients, DeleteRow(c)
  PROVE  UNCHANGED <<StoreOf, nextId>> \/ \E s \in Slots : Store!Remove(s)
  <1> DEFINE i == txn[c].seen
  <1>1. nextId' = nextId
    BY DEF DeleteRow
  <1>2. CASE RowsWith(i) = {}
    <2>1. UNCHANGED <<schemas, schema_versions>>
      BY <1>2 DEF DeleteRow
    <2> QED
      BY <1>1, <2>1, ImageIsStore
  <1>3. CASE RowsWith(i) # {}
    <2>1. /\ schemas' = schemas \ RowsWith(i)
          /\ schema_versions' = schema_versions \ LogOf(i)
      BY <1>3 DEF DeleteRow
    <2>2. PICK r \in schemas : r.id = i
      BY <1>3 DEF RowsWith
    <2>3. Consistent(schemas, schema_versions) /\ Consistent(schemas', schema_versions')
      BY InvConsistent, NextConsistent
    <2>4. r.slot \in Slots /\ StoreOf[r.slot] # NoRow
      BY StoreAt
    <2>5. \A p \in schemas : p.id = i <=> p = r
      BY <2>2, <2>3 DEF Consistent
    <2>6. \A p \in schemas' : p.slot # r.slot
      BY <2>1, <2>2, <2>3 DEF Consistent, RowsWith
    <2>7. StoreOf'[r.slot] = NoRow
      BY <2>4, <2>6, ImageNone, ImageIsStore
    <2>8. ASSUME NEW x \in Slots, x # r.slot PROVE StoreOf'[x] = StoreOf[x]
      <3>1. /\ \A p \in schemas : p.slot = x => p \in schemas' /\ p.id # i
            /\ \A p \in schemas' : p.slot = x => p \in schemas
        BY <2>1, <2>5, <2>8 DEF RowsWith
      <3>2. \A f \in schema_versions : f.schema_id # i => f \in schema_versions'
        BY <2>1 DEF LogOf
      <3> QED
        BY <2>3, <3>1, <3>2, ImageSame, ImageIsStore
    <2>9. StoreOf' = [StoreOf EXCEPT ![r.slot] = NoRow]
      BY <2>4, <2>7, <2>8, OneSlot
    <2> QED
      BY <1>1, <2>4, <2>9 DEF Store!Remove, Store!Present
  <1> QED
    BY <1>2, <1>3

\* The only decisions that reach an UPDATE of the status are an admin's.
DecisionsAsked == \A c \in Clients : txn[c].pc = "setstatus" => txn[c].status \in Decisions

LEMMA DecisionsInv == IInv /\ DecisionsAsked /\ [Next]_vars => DecisionsAsked'
  <1> SUFFICES ASSUME IInv, DecisionsAsked, [Next]_vars PROVE DecisionsAsked'
    OBVIOUS
  <1>1. CASE UNCHANGED vars
    BY <1>1 DEF vars, DecisionsAsked
  <1>2. ASSUME NEW c \in Clients, Start(c) \/ Step(c) \/ Fault(c)
        PROVE  /\ \A o \in Clients \ {c} : txn'[o] = txn[o]
               /\ txn'[c].pc = "setstatus" => txn'[c].status \in Decisions
    <2>1. txn \in [Clients -> Txn]
      BY DEF IInv, TypeOK
    <2>2. CASE Start(c)
      BY <2>1, <2>2 DEF Start, AddStart, UpsertStart, DeleteStart, UpdateStatusStart, Call, NoTxn
    <2>3. CASE Step(c)
      <3>1. CASE UpsertSelect(c)
        <4>1. \/ Goto(c, "insert")
              \/ \E i, v : txn' = [txn EXCEPT ![c].pc = "release", ![c].id = i, ![c].version = v]
              \/ \E i, v : txn' = [txn EXCEPT ![c].pc = "update", ![c].id = i, ![c].version = v]
          BY <3>1, Zenon DEF UpsertSelect
        <4>2. CASE Goto(c, "insert")
          BY <2>1, <4>2 DEF Goto, Txn
        <4>3. ASSUME NEW u \in {"release", "update"}, NEW i, NEW v,
                     txn' = [txn EXCEPT ![c].pc = u, ![c].id = i, ![c].version = v]
              PROVE  txn'[c].pc = u /\ \A o \in Clients \ {c} : txn'[o] = txn[o]
          BY <2>1, <4>3 DEF Txn
        <4> QED
          BY <4>1, <4>2, <4>3
      <3>2. CASE UpdateRow(c) \/ InsertRow(c) \/ LogVersion(c)
        BY <2>1, <3>2 DEF UpdateRow, InsertRow, LogVersion, Reply, Goto, Txn
      <3>3. CASE Commit(c) \/ Release(c) \/ Reread(c)
        BY <2>1, <3>3 DEF Commit, Release, Reread, Reply, Txn
      <3>4. CASE DeleteRow(c) \/ UpdateStatus(c)
        BY <2>1, <3>4 DEF DeleteRow, UpdateStatus, Reply, Goto, Txn
      <3> QED
        BY <2>3, <3>1, <3>2, <3>3, <3>4 DEF Step
    <2>4. CASE Fault(c)
      BY <2>1, <2>4 DEF Fault, CommitUnacknowledged, Fail, Reply, Txn
    <2> QED
      BY <1>2, <2>2, <2>3, <2>4
  <1> QED
    BY <1>1, <1>2 DEF Next, DecisionsAsked

\* The UPDATE of a status is a SetStatus.
LEMMA SetStatusRefines ==
  ASSUME IInv, IInv', DecisionsAsked, NEW c \in Clients, UpdateStatus(c)
  PROVE  \/ UNCHANGED <<StoreOf, nextId>>
         \/ \E id \in 1 .. nextId, st \in Decisions : Store!SetStatus(id, st)
  <1> DEFINE t == txn[c]
             New(r) == IF r.id = t.id THEN Decide(r, t.status) ELSE r
  <1>1. nextId' = nextId /\ schema_versions' = schema_versions
    BY DEF UpdateStatus
  <1>2. CASE RowsWith(t.id) = {}
    <2>1. schemas' = schemas
      BY <1>2 DEF UpdateStatus
    <2> QED
      BY <1>1, <2>1, ImageIsStore
  <1>3. CASE RowsWith(t.id) # {}
    <2>1. schemas' = {New(r) : r \in schemas}
      BY <1>3 DEF UpdateStatus
    <2>2. t.status \in Decisions
      BY DEF UpdateStatus, DecisionsAsked
    <2>3. PICK r \in schemas : r.id = t.id
      BY <1>3 DEF RowsWith
    <2>4. r.id \in 1 .. nextId
      BY DEF IInv, IdsAssigned, TypeOK
    <2>5. Consistent(schemas, schema_versions) /\ Consistent(schemas', schema_versions')
      BY InvConsistent, NextConsistent
    <2> DEFINE q == New(r)
               s == r.slot
    <2>6. /\ q.id = r.id /\ q.slot = s /\ q.version = r.version /\ q.status = t.status
      BY <2>3, <2>5 DEF Decide, Consistent, SchemaRow
    <2>7. \A p \in schemas : p.id # t.id => New(p) = p
      OBVIOUS
    <2>8. \A p \in schemas : New(p).slot = p.slot
      BY <2>5 DEF Decide, Consistent, SchemaRow
    <2>9. \A p \in schemas : p.id = t.id <=> p = r
      BY <2>3, <2>5 DEF Consistent
    <2>10. \A p \in schemas : p.slot = s <=> p = r
      BY <2>5 DEF Consistent
    <2> HIDE DEF New
    <2>11. /\ \A p \in schemas : New(p) \in schemas'
           /\ \A p2 \in schemas' : \E p \in schemas : p2 = New(p)
      BY <2>1
    <2>12. /\ s \in Slots /\ StoreOf[s] = Abstracted(schema_versions, r) /\ StoreOf[s] # NoRow
      BY StoreAt
    <2>13. StoreOf'[s] = [StoreOf[s] EXCEPT !.status = t.status]
      <3>1. q \in schemas'
        BY <2>11
      <3>2. StoreOf'[s] = Abstracted(schema_versions', q)
        BY <2>5, <2>6, <3>1, ImageAt, ImageIsStore
      <3>3. History(schema_versions', q) = History(schema_versions, r)
        BY <1>1, <2>5, <2>6, <3>1, HistorySame
      <3>4. Abstracted(schema_versions', q) =
              [id |-> r.id, status |-> t.status, history |-> History(schema_versions, r)]
        BY <2>6, <3>3 DEF Abstracted
      <3>5. [Abstracted(schema_versions, r) EXCEPT !.status = t.status] =
              [id |-> r.id, status |-> t.status, history |-> History(schema_versions, r)]
        BY DEF Abstracted
      <3> QED
        BY <2>12, <3>2, <3>4, <3>5
    <2>14. ASSUME NEW x \in Slots, x # s PROVE StoreOf'[x] = StoreOf[x]
      <3>1. \A p \in schemas : p.slot = x => p \in schemas'
        BY <2>7, <2>9, <2>11, <2>14
      <3>2. \A p2 \in schemas' : p2.slot = x => p2 \in schemas
        BY <2>7, <2>8, <2>9, <2>11, <2>14
      <3> QED
        BY <1>1, <2>5, <3>1, <3>2, ImageSame, ImageIsStore
    <2>15. Store!SlotsOf(t.id) = {s}
      <3>1. ASSUME NEW x \in Slots PROVE (StoreOf[x] # NoRow /\ StoreOf[x].id = t.id) <=> x = s
        <4>1. CASE \A p \in schemas : p.slot # x
          BY <4>1, StoreAt
        <4>2. CASE \E p \in schemas : p.slot = x
          <5>1. PICK p \in schemas : p.slot = x
            BY <4>2
          <5>2. StoreOf[x] # NoRow /\ StoreOf[x] = Abstracted(schema_versions, p)
            BY <5>1, StoreAt
          <5>3. Abstracted(schema_versions, p).id = p.id
            BY DEF Abstracted
          <5> QED
            BY <2>9, <2>10, <5>1, <5>2, <5>3
        <4> QED
          BY <4>1, <4>2
      <3> QED
        BY <2>12, <3>1 DEF Store!SlotsOf, Store!Present
    <2>16. StoreOf' = [x \in Slots |-> IF x \in Store!SlotsOf(t.id)
                                         THEN [StoreOf[x] EXCEPT !.status = t.status]
                                         ELSE StoreOf[x]]
      <3>1. StoreOf' = [x \in Slots |-> StoreOf'[x]]
        BY DEF StoreOf
      <3> QED
        BY <2>13, <2>14, <2>15, <3>1
    <2>17. Store!SetStatus(t.id, t.status)
      BY <1>1, <2>15, <2>16 DEF Store!SetStatus, Store!Live
    <2> QED
      BY <2>2, <2>3, <2>4, <2>17
  <1> QED
    BY <1>2, <1>3

-----------------------------------------------------------------------------
\* The migrations leave the store's initial state.
LEMMA InitRefines == Init => Store!StoreInit
  <1> SUFFICES ASSUME Init PROVE Store!StoreInit
    OBVIOUS
  <1>1. Consistent(schemas, schema_versions)
    BY InitInv, InvConsistent
  <1>2. ASSUME NEW s \in Slots
        PROVE  StoreOf[s] = IF s \in Seeded
                              THEN [id |-> SeedId[s], status |-> "verified",
                                    history |-> <<SeedDoc[s]>>]
                              ELSE NoRow
    <2>1. CASE s \in Seeded
      <3> DEFINE r == SeedRow(s)
                 h == History(schema_versions, r)
      <3>1. r \in schemas /\ r.slot = s /\ r.version = 1 /\ r.schema = SeedDoc[s]
            /\ r.id = SeedId[s] /\ r.status = "verified"
        BY <2>1 DEF Init, SeedRow
      <3> HIDE DEF r
      <3>2. h \in Seq(Docs) /\ Len(h) = 1 /\ h[1] = SeedDoc[s]
        <4>1. h \in Seq(Docs) /\ Len(h) = r.version /\ h[r.version] = r.schema
          BY <1>1, <3>1, HistoryTyped
        <4> QED
          BY <3>1, <4>1
      <3>3. SeedDoc[s] \in Docs
        BY <2>1, SeedAssumption
      <3>4. <<SeedDoc[s]>> \in Seq(Docs) /\ Len(<<SeedDoc[s]>>) = 1
            /\ <<SeedDoc[s]>>[1] = SeedDoc[s]
        BY <3>3
      <3> HIDE DEF h
      <3>5. h = <<SeedDoc[s]>>
        BY <3>2, <3>4, SeqEqual
      <3>6. StoreOf[s] = Abstracted(schema_versions, r)
        BY <1>1, <3>1, ImageAt, ImageIsStore
      <3>7. Abstracted(schema_versions, r) =
              [id |-> SeedId[s], status |-> "verified", history |-> h]
        BY <3>1 DEF Abstracted, h
      <3> QED
        BY <2>1, <3>5, <3>6, <3>7
    <2>2. CASE s \notin Seeded
      <3>1. \A r \in schemas : r.slot # s
        BY <2>2 DEF Init, SeedRow
      <3> QED
        BY <2>2, <3>1, ImageNone, ImageIsStore
    <2> QED
      BY <2>1, <2>2
  <1>3. StoreOf = [s \in Slots |-> StoreOf[s]]
    BY DEF StoreOf
  <1> QED
    BY <1>2, <1>3 DEF Init, Store!StoreInit

\* Every step is a step of the store or changes nothing there.
LEMMA NextRefines ==
  ASSUME IInv, IInv', DecisionsAsked, [Next]_vars
  PROVE  [Store!StoreNext]_(Store!storeVars)
  <1>1. CASE UNCHANGED <<schemas, schema_versions, nextId>>
    BY <1>1, ImageIsStore DEF Store!storeVars
  <1>2. ASSUME NEW c \in Clients, txn[c].pc = "commit", Publish(txn[c])
        PROVE  Store!StoreNext
    <2>1. txn[c].slot \in Slots /\ txn[c].doc \in Docs
      BY <1>2, CommitFits DEF Txn
    <2>2. CASE txn[c].id = NoId
      BY <1>2, <2>1, <2>2, InsertRefines DEF Store!StoreNext
    <2>3. CASE txn[c].id # NoId
      BY <1>2, <2>3, ReviseRefines DEF Store!StoreNext
    <2> QED
      BY <2>2, <2>3
  <1>3. ASSUME NEW c \in Clients, DeleteRow(c)
        PROVE  Store!StoreNext \/ UNCHANGED <<StoreOf, nextId>>
    BY <1>3, RemoveRefines DEF Store!StoreNext
  <1>4. ASSUME NEW c \in Clients, UpdateStatus(c)
        PROVE  Store!StoreNext \/ UNCHANGED <<StoreOf, nextId>>
    BY <1>4, SetStatusRefines DEF Store!StoreNext, Store!Decisions, Decisions
  <1> QED
    BY <1>1, <1>2, <1>3, <1>4, TableChanges DEF Store!storeVars

\* With transactions, locks, unique constraints, failing statements and commits
\* whose answers are lost, the repository is an atomic store: every call takes
\* effect in one step or not at all.
THEOREM RepositoryImplementsStore == Spec => ImplementsStore
  <1>1. Init => DecisionsAsked
    BY DEF Init, NoTxn, DecisionsAsked
  <1>2. Spec => []DecisionsAsked
    BY <1>1, DecisionsInv, Invariance, PTL DEF Spec
  <1>3. IInv /\ IInv' /\ DecisionsAsked /\ [Next]_vars => [Store!StoreNext]_(Store!storeVars)
    BY NextRefines
  <1> QED
    BY <1>2, <1>3, InitRefines, Invariance, PTL DEF Spec, ImplementsStore, Store!StoreSpec
================================================================================

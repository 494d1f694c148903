------------------------------ MODULE SchemaStore ------------------------------
(***************************************************************************)
(* What schema.Service relies on its Repository for (the interface of      *)
(* internal/schema/repository.go): at most one row per slot, each with an  *)
(* id that is never used again, a review status and the sequence of every  *)
(* content it ever had, oldest first.  The version of a row is the length  *)
(* of its history and its content the last element.  Every operation is    *)
(* one step.  SchemaRepository shows that the Postgres repository          *)
(* implements this; SchemaService runs the cache-aside service on it.      *)
(***************************************************************************)
EXTENDS SchemaModel

VARIABLES
  store,   \* [Slots -> Row \cup {NoRow}]
  nextId   \* the id the next new row gets

storeVars == <<store, nextId>>

Row == [id : Nat \ {0}, status : Statuses, history : Seq(Docs)]

ASSUME NoRowAssumption == NoRow \notin Row

Version(r) == Len(r.history)
Content(r) == r.history[Len(r.history)]

StoreTypeOK ==
  /\ store \in [Slots -> Row \cup {NoRow}]
  /\ nextId \in Nat

Present(s)  == store[s] # NoRow
SlotsOf(id) == {s \in Slots : Present(s) /\ store[s].id = id}
Live(id)    == SlotsOf(id) # {}
RowOf(id)   == store[CHOOSE s \in SlotsOf(id) : TRUE]

StoreInit ==
  /\ store = [s \in Slots |->
               IF s \in Seeded
                 THEN [id |-> SeedId[s], status |-> "verified", history |-> <<SeedDoc[s]>>]
                 ELSE NoRow]
  /\ nextId = FirstId

\* Mutant: the status column without its default.
NewRowNoStatus(d) == [id |-> nextId, status |-> "", history |-> <<d>>]

\* A new row starts its history at version 1 and waits for review.
NewRow(d) == [id |-> nextId, status |-> "submitted", history |-> <<d>>]

Insert(s, d) ==
  /\ ~Present(s)
  /\ d \notin Malformed
  /\ store' = [store EXCEPT ![s] = NewRow(d)]
  /\ nextId' = nextId + 1

\* Mutant: new content has to be reviewed again.
RevisedResetStatus(r, d) == [r EXCEPT !.history = Append(@, d), !.status = "submitted"]

\* New content appends to the history and leaves the review status alone.
Revised(r, d) == [r EXCEPT !.history = Append(@, d)]

Revise(s, d) ==
  /\ Present(s)
  /\ d \notin Malformed
  /\ ~JsonContentEqual(Content(store[s]), d)
  /\ store' = [store EXCEPT ![s] = Revised(@, d)]
  /\ UNCHANGED nextId

SetStatus(id, st) ==
  /\ Live(id)
  /\ store' = [s \in Slots |-> IF s \in SlotsOf(id) THEN [store[s] EXCEPT !.status = st]
                                                    ELSE store[s]]
  /\ UNCHANGED nextId

\* The row goes with its whole history (ON DELETE CASCADE).
Remove(s) ==
  /\ Present(s)
  /\ store' = [store EXCEPT ![s] = NoRow]
  /\ UNCHANGED nextId

StoreNext ==
  \/ \E s \in Slots, d \in Docs : Insert(s, d) \/ Revise(s, d)
  \/ \E s \in Slots : Remove(s)
  \/ \E id \in 1 .. nextId, st \in Decisions : SetStatus(id, st)

StoreSpec == StoreInit /\ [][StoreNext]_storeVars
================================================================================

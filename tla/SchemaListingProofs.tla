-------------------------- MODULE SchemaListingProofs --------------------------
(***************************************************************************)
(* Proofs about SchemaListing for every registry, page size and order of   *)
(* names.  BaseInv says what a request in progress knows of the registry.  *)
(* SteadyInv follows a walk while the registry is at rest: what the client *)
(* has are the first rows of an answer, and as any two answers agree on    *)
(* the keys at each position (SameKeys), it may be continued by any other. *)
(* Trail follows a changelog that grows: new versions come first, so they  *)
(* push what has not been read yet past the offset, never before it.       *)
(***************************************************************************)
EXTENDS SchemaListing, FiniteSetTheorems, FunctionTheorems, SequenceTheorems, TLAPS

-----------------------------------------------------------------------------
(* The order of a listing. *)

Kinds == {"versions", "models", "schemas"}

\* What a query may select, and the length of its sort keys.
Items(q) == CASE q.kind = "versions" -> Nat
              [] q.kind = "models"   -> {[version |-> s.version, vendor |-> s.vendor,
                                          model |-> s.model] : s \in Slots}
              [] q.kind = "schemas"  -> Slots
Width(q) == CASE q.kind = "versions" -> 1 [] q.kind = "models" -> 2 [] q.kind = "schemas" -> 4

LEMMA KeyTyped ==
  ASSUME NEW q, q.kind \in Kinds, NEW x \in Items(q)
  PROVE  SortKey(q, x) \in [1 .. Width(q) -> Int]
  <1>1. CASE q.kind = "versions"
    BY <1>1 DEF Items, SortKey, Width
  <1>2. CASE q.kind = "models"
    <2>1. PICK s \in Slots : x = [version |-> s.version, vendor |-> s.vendor, model |-> s.model]
      BY <1>2 DEF Items
    <2>2. Rank[x.version] \in Int /\ Rank[x.model] \in Int
      BY <2>1, ListingAssumption
    <2> QED
      BY <1>2, <2>2 DEF SortKey, Width
  <1>3. CASE q.kind = "schemas"
    <2>1. x \in Slots
      BY <1>3 DEF Items
    <2>2. /\ Rank[x.version] \in Int /\ Rank[x.vendor] \in Int
          /\ Rank[x.model] \in Int /\ Rank[x.action] \in Int
      BY <2>1, ListingAssumption
    <2> QED
      BY <1>3, <2>2 DEF SortKey, Width
  <1> QED
    BY <1>1, <1>2, <1>3 DEF Kinds

\* The order of keys, element by element.
LEMMA BeforeOfTwo ==
  ASSUME NEW a \in [1 .. 2 -> Int], NEW b \in [1 .. 2 -> Int]
  PROVE  Before(a, b) <=> (a[1] < b[1] \/ (a[1] = b[1] /\ a[2] < b[2]))
  BY DEF Before

LEMMA BeforeOfOne ==
  ASSUME NEW a \in [1 .. 1 -> Int], NEW b \in [1 .. 1 -> Int]
  PROVE  Before(a, b) <=> a[1] < b[1]
  BY DEF Before

LEMMA BeforeOfFour ==
  ASSUME NEW a \in [1 .. 4 -> Int], NEW b \in [1 .. 4 -> Int]
  PROVE  Before(a, b) <=>
           \/ a[1] < b[1]
           \/ a[1] = b[1] /\ a[2] < b[2]
           \/ a[1] = b[1] /\ a[2] = b[2] /\ a[3] < b[3]
           \/ a[1] = b[1] /\ a[2] = b[2] /\ a[3] = b[3] /\ a[4] < b[4]
  BY DEF Before

Key(n) == [1 .. n -> Int]

LEMMA BeforeOrder ==
  ASSUME NEW n \in {1, 2, 4}, NEW a \in Key(n), NEW b \in Key(n), NEW c \in Key(n)
  PROVE  /\ Before(a, c) => Before(a, b) \/ Before(b, c)
         /\ ~Before(a, a)
         /\ ~Before(a, b) /\ ~Before(b, a) => a = b
  <1>1. CASE n = 1
    BY <1>1, BeforeOfOne DEF Key
  <1>2. CASE n = 2
    BY <1>2, BeforeOfTwo DEF Key
  <1>3. CASE n = 4
    BY <1>3, BeforeOfFour DEF Key
  <1> QED
    BY <1>1, <1>2, <1>3

-----------------------------------------------------------------------------
(* All answers agree on the keys. *)

\* The orders the database may answer S in.
Orders(q, S) == {a \in Injection(1 .. Cardinality(S), S) : InOrder(q, a)}

LEMMA OrderProperties ==
  ASSUME NEW q, NEW S, IsFiniteSet(S), NEW a \in Orders(q, S)
  PROVE  /\ Cardinality(S) \in Nat
         /\ a \in [1 .. Cardinality(S) -> S]
         /\ a \in Seq(S) /\ Len(a) = Cardinality(S)
         /\ \A i, j \in 1 .. Cardinality(S) : a[i] = a[j] => i = j
         /\ \A x \in S : \E i \in 1 .. Cardinality(S) : a[i] = x
         /\ \A i, j \in 1 .. Cardinality(S) : i < j => ~Before(SortKey(q, a[j]), SortKey(q, a[i]))
  <1> DEFINE n == Cardinality(S)
  <1>1. n \in Nat
    BY FS_CardinalityType
  <1>2. a \in Injection(1 .. n, S) /\ InOrder(q, a)
    BY DEF Orders
  <1>3. Cardinality(1 .. n) = n
    BY <1>1, FS_Interval
  <1>4. a \in Surjection(1 .. n, S)
    BY <1>2, <1>3, FS_Injection
  <1>5. a \in [1 .. n -> S]
    BY <1>2 DEF Injection
  <1>6. a \in Seq(S) /\ Len(a) = n
    BY <1>1, <1>5
  <1>7. \A i, j \in 1 .. n : a[i] = a[j] => i = j
    BY <1>2 DEF Injection, IsInjective
  <1>8. \A x \in S : \E i \in 1 .. n : a[i] = x
    BY <1>4 DEF Surjection
  <1> QED
    BY <1>1, <1>2, <1>5, <1>6, <1>7, <1>8, Fun_IsSurj DEF InOrder

\* Up to position i no answer can be ahead of another: the i items a has there
\* would have to fit into the i - 1 places before position i of b.
LEMMA NoneAhead ==
  ASSUME NEW q, q.kind \in Kinds, NEW S, IsFiniteSet(S), S \subseteq Items(q),
         NEW a \in Orders(q, S), NEW b \in Orders(q, S), NEW i \in 1 .. Cardinality(S)
  PROVE  ~Before(SortKey(q, a[i]), SortKey(q, b[i]))
  <1> SUFFICES ASSUME Before(SortKey(q, a[i]), SortKey(q, b[i])) PROVE FALSE
    OBVIOUS
  <1> DEFINE n == Cardinality(S)
             key(x) == SortKey(q, x)
  <1>1. n \in Nat /\ i \in Nat /\ i >= 1 /\ i <= n
    BY OrderProperties
  <1>2. \A x \in S : key(x) \in Key(Width(q))
    BY KeyTyped DEF Key
  <1>3. Width(q) \in {1, 2, 4}
    BY DEF Kinds, Width
  <1> HIDE DEF key
  <1>4. ASSUME NEW j \in 1 .. i PROVE \E k \in 1 .. i - 1 : b[k] = a[j]
    <2>1. j \in 1 .. n /\ a[j] \in S /\ a[i] \in S /\ b[i] \in S
      <3>1. a \in [1 .. n -> S] /\ b \in [1 .. n -> S]
        BY OrderProperties
      <3> QED
        BY <1>1, <3>1
    <2>2. PICK k \in 1 .. n : b[k] = a[j]
      BY <2>1, OrderProperties
    <2>3. ~Before(key(a[i]), key(a[j]))
      BY <1>1, <1>2, <1>3, <2>1, OrderProperties, BeforeOrder DEF key
    <2>4. Before(key(a[i]), key(b[i]))
      BY DEF key
    <2>5. Before(key(a[j]), key(b[i]))
      BY <1>2, <1>3, <2>1, <2>3, <2>4, BeforeOrder
    <2>6. CASE k > i
      <3>1. ~Before(key(b[k]), key(b[i]))
        BY <1>1, <2>6, OrderProperties DEF key
      <3> QED
        BY <2>2, <2>5, <3>1
    <2>7. CASE k = i
      BY <1>2, <1>3, <2>1, <2>2, <2>5, <2>7, BeforeOrder
    <2> QED
      BY <1>1, <2>2, <2>6, <2>7
  <1> DEFINE place(j) == CHOOSE k \in 1 .. i - 1 : b[k] = a[j]
  <1>5. \A j \in 1 .. i : place(j) \in 1 .. i - 1 /\ b[place(j)] = a[j]
    BY <1>4
  <1> HIDE DEF place
  <1>6. PICK f : f \in [1 .. i -> 1 .. i - 1] /\ \A j \in 1 .. i : b[f[j]] = a[j]
    <2>1. PICK f : f = [j \in 1 .. i |-> place(j)]
      OBVIOUS
    <2>2. f \in [1 .. i -> 1 .. i - 1]
      BY <1>5, <2>1
    <2>3. \A j \in 1 .. i : f[j] = place(j)
      BY <2>1
    <2> QED
      BY <1>5, <2>2, <2>3
  <1>7. ASSUME NEW j \in 1 .. i, NEW k \in 1 .. i, f[j] = f[k] PROVE j = k
    <2>1. a[j] = a[k]
      BY <1>6, <1>7
    <2>2. j \in 1 .. n /\ k \in 1 .. n
      BY <1>1
    <2> QED
      BY <2>1, <2>2, OrderProperties
  <1>8. f \in Injection(1 .. i, 1 .. i - 1)
    BY <1>6, <1>7, Fun_IsInj
  <1>9. ExistsInjection(1 .. i, 1 .. i - 1)
    BY <1>8 DEF ExistsInjection
  <1> QED
    BY <1>1, <1>9, Fun_NatInjLeq

\* So whatever order the ties come in, position i has the same key.
LEMMA SameKeys ==
  ASSUME NEW q, q.kind \in Kinds, NEW S, IsFiniteSet(S), S \subseteq Items(q),
         NEW a \in Orders(q, S), NEW b \in Orders(q, S), NEW i \in 1 .. Cardinality(S)
  PROVE  SortKey(q, a[i]) = SortKey(q, b[i])
  <1>1. a[i] \in S /\ b[i] \in S
    <2>1. a \in [1 .. Cardinality(S) -> S] /\ b \in [1 .. Cardinality(S) -> S]
      BY OrderProperties
    <2> QED
      BY <2>1
  <1>2. SortKey(q, a[i]) \in Key(Width(q)) /\ SortKey(q, b[i]) \in Key(Width(q))
    BY <1>1, KeyTyped DEF Key
  <1>3. Width(q) \in {1, 2, 4}
    BY DEF Kinds, Width
  <1>4. ~Before(SortKey(q, a[i]), SortKey(q, b[i])) /\ ~Before(SortKey(q, b[i]), SortKey(q, a[i]))
    BY NoneAhead
  <1> QED
    BY <1>2, <1>3, <1>4, BeforeOrder

-----------------------------------------------------------------------------
(* The registry that is listed. *)

Rows == {s \in Slots : Present(s)}

\* Ids in use have been handed out, each to one row; a row has a content, and more
\* than one only by later writes; and only writes add rows.
RowsOK ==
  /\ StoreTypeOK
  /\ nextId \in Nat \ {0}
  /\ writes \in 0 .. MaxWrites
  /\ \A s \in Slots : Present(s) => store[s].id < nextId /\ Len(store[s].history) \in 1 .. writes + 1
  /\ \A s, t \in Slots : (Present(s) /\ Present(t) /\ store[s].id = store[t].id) => s = t
  /\ IsFiniteSet(Rows) /\ Cardinality(Rows) <= Cardinality(Seeded) + writes

\* What a change leaves of the rows: a new one has a new id and one version, another
\* keeps its id and at most gets a version more.
RowsKept ==
  \A s \in Slots : Present(s)' =>
    \/ /\ ~Present(s) /\ store'[s].id = nextId /\ Len(store'[s].history) = 1
    \/ /\ Present(s) /\ store'[s].id = store[s].id
       /\ Len(store'[s].history) \in {Len(store[s].history), Len(store[s].history) + 1}

LEMMA InitRows == Init => RowsOK
  <1> SUFFICES ASSUME Init PROVE RowsOK
    OBVIOUS
  <1>1. /\ store = [s \in Slots |->
                     IF s \in Seeded
                       THEN [id |-> SeedId[s], status |-> "verified", history |-> <<SeedDoc[s]>>]
                       ELSE NoRow]
        /\ nextId = FirstId /\ writes = 0
    BY DEF Init, StoreInit
  <1>2. ASSUME NEW s \in Seeded
        PROVE  /\ [id |-> SeedId[s], status |-> "verified", history |-> <<SeedDoc[s]>>] \in Row
               /\ SeedId[s] < FirstId /\ Len(<<SeedDoc[s]>>) = 1
    BY SeedAssumption DEF Row, Statuses
  <1>3. \A s \in Slots : Present(s) => s \in Seeded
    BY <1>1 DEF Present
  <1>4. Rows \subseteq Seeded
    BY <1>3 DEF Rows
  <1>5. IsFiniteSet(Rows) /\ Cardinality(Rows) <= Cardinality(Seeded) + writes
    <2>1. IsFiniteSet(Rows) /\ Cardinality(Rows) <= Cardinality(Seeded)
      BY <1>4, ListingAssumption, FS_Subset
    <2>2. Cardinality(Rows) \in Nat /\ Cardinality(Seeded) \in Nat
      BY <2>1, ListingAssumption, FS_CardinalityType
    <2> QED
      BY <1>1, <2>1, <2>2
  <1>6. StoreTypeOK
    BY <1>1, <1>2, SeedAssumption DEF StoreTypeOK
  <1>7. \A s \in Slots : Present(s) => store[s].id = SeedId[s] /\ store[s].history = <<SeedDoc[s]>>
    BY <1>1, <1>3
  <1> QED
    BY <1>1, <1>2, <1>3, <1>5, <1>6, <1>7, SeedAssumption, ListingAssumption DEF RowsOK

\* One row is put in place, new or revised.
LEMMA RowPut ==
  ASSUME RowsOK, writes < MaxWrites, writes' = writes + 1, NEW s \in Slots, NEW r \in Row,
         store' = [store EXCEPT ![s] = r],
         \/ ~Present(s) /\ r.id = nextId /\ Len(r.history) = 1 /\ nextId' = nextId + 1
         \/ /\ Present(s) /\ r.id = store[s].id /\ nextId' = nextId
            /\ Len(r.history) \in {Len(store[s].history), Len(store[s].history) + 1}
  PROVE  RowsOK' /\ RowsKept
  <1>1. r # NoRow
    BY NoRowAssumption
  <1>2. /\ store'[s] = r /\ Present(s)'
        /\ \A t \in Slots : t # s => store'[t] = store[t] /\ (Present(t)' <=> Present(t))
    BY <1>1 DEF Present, RowsOK, StoreTypeOK
  <1>3. RowsKept
    BY <1>2 DEF RowsKept, RowsOK, StoreTypeOK, Row, Present
  <1>4. Rows' = Rows \cup {s}
    BY <1>2 DEF Rows
  <1>5. IsFiniteSet(Rows') /\ Cardinality(Rows') <= Cardinality(Seeded) + writes'
    <2>1. /\ IsFiniteSet(Rows \cup {s})
          /\ Cardinality(Rows \cup {s}) = IF s \in Rows THEN Cardinality(Rows) ELSE Cardinality(Rows) + 1
      BY FS_AddElement DEF RowsOK
    <2>2. Cardinality(Rows) \in Nat /\ Cardinality(Seeded) \in Nat
      BY ListingAssumption, FS_CardinalityType DEF RowsOK
    <2> QED
      BY <1>4, <2>1, <2>2 DEF RowsOK
  <1>6. StoreTypeOK' /\ nextId' \in Nat \ {0} /\ writes' \in 0 .. MaxWrites
    BY ListingAssumption DEF RowsOK, StoreTypeOK
  <1>7. \A t \in Slots : Present(t)' => store'[t].id < nextId' /\ Len(store'[t].history) \in 1 .. writes' + 1
    <2>1. writes \in Nat /\ nextId \in Nat /\ nextId' \in {nextId, nextId + 1}
      BY ListingAssumption DEF RowsOK
    <2>2. \A t \in Slots : Present(t) =>
            /\ store[t] \in Row /\ store[t].id < nextId /\ Len(store[t].history) \in 1 .. writes + 1
      BY DEF RowsOK, StoreTypeOK, Present
    <2>3. ASSUME NEW t \in Slots, t # s, Present(t)'
          PROVE  store'[t].id < nextId' /\ Len(store'[t].history) \in 1 .. writes' + 1
      BY <1>2, <2>1, <2>2, <2>3 DEF Row
    <2>4. r.id < nextId' /\ Len(r.history) \in 1 .. writes' + 1
      <3>1. CASE Present(s)
        BY <2>1, <2>2, <3>1 DEF Row
      <3>2. CASE r.id = nextId /\ Len(r.history) = 1 /\ nextId' = nextId + 1
        <4>1. 1 \in 1 .. writes' + 1
          BY <2>1
        <4> QED
          BY <2>1, <3>2, <4>1
      <3> QED
        BY <3>1, <3>2
    <2> QED
      BY <1>2, <2>3, <2>4
  <1>8. \A t, u \in Slots : (Present(t)' /\ Present(u)' /\ store'[t].id = store'[u].id) => t = u
    BY <1>2 DEF RowsOK
  <1> QED
    BY <1>3, <1>5, <1>6, <1>7, <1>8 DEF RowsOK

LEMMA RowRemoved ==
  ASSUME RowsOK, writes < MaxWrites, writes' = writes + 1, NEW s \in Slots, Remove(s)
  PROVE  RowsOK' /\ RowsKept
  <1>1. store' = [store EXCEPT ![s] = NoRow] /\ nextId' = nextId
    BY DEF Remove
  <1>2. /\ ~Present(s)'
        /\ \A t \in Slots : t # s => store'[t] = store[t] /\ (Present(t)' <=> Present(t))
    BY <1>1 DEF Present, RowsOK, StoreTypeOK
  <1>3. RowsKept
    BY <1>2 DEF RowsKept, RowsOK, StoreTypeOK, Row, Present
  <1>4. Rows' = Rows \ {s}
    BY <1>2 DEF Rows
  <1>5. IsFiniteSet(Rows') /\ Cardinality(Rows') <= Cardinality(Seeded) + writes'
    <2>1. /\ IsFiniteSet(Rows \ {s})
          /\ Cardinality(Rows \ {s}) = IF s \in Rows THEN Cardinality(Rows) - 1 ELSE Cardinality(Rows)
      BY FS_RemoveElement DEF RowsOK
    <2>2. Cardinality(Rows) \in Nat /\ Cardinality(Seeded) \in Nat
      BY ListingAssumption, FS_CardinalityType DEF RowsOK
    <2> QED
      BY <1>4, <2>1, <2>2 DEF RowsOK
  <1>6. StoreTypeOK' /\ nextId' \in Nat \ {0} /\ writes' \in 0 .. MaxWrites
    BY <1>1, ListingAssumption DEF RowsOK, StoreTypeOK
  <1>7. \A t \in Slots : Present(t)' => store'[t].id < nextId' /\ Len(store'[t].history) \in 1 .. writes' + 1
    <2> SUFFICES ASSUME NEW t \in Slots, Present(t)'
                 PROVE  store'[t].id < nextId' /\ Len(store'[t].history) \in 1 .. writes' + 1
      OBVIOUS
    <2>1. store'[t] = store[t] /\ Present(t)
      BY <1>2
    <2>2. store[t].id < nextId /\ Len(store[t].history) \in 1 .. writes + 1
      BY <2>1 DEF RowsOK
    <2> QED
      BY <1>1, <2>1, <2>2 DEF RowsOK
  <1>8. \A t, u \in Slots : (Present(t)' /\ Present(u)' /\ store'[t].id = store'[u].id) => t = u
    BY <1>2 DEF RowsOK
  <1> QED
    BY <1>3, <1>5, <1>6, <1>7, <1>8 DEF RowsOK

LEMMA StoreChanges ==
  ASSUME RowsOK, writes < MaxWrites, writes' = writes + 1, StoreNext
  PROVE  RowsOK' /\ RowsKept
  <1>1. ASSUME NEW s \in Slots, NEW d \in Docs, Insert(s, d) PROVE RowsOK' /\ RowsKept
    <2>1. PICK r : r = NewRow(d)
      OBVIOUS
    <2>2. r \in Row /\ r.id = nextId /\ Len(r.history) = 1
      BY <2>1 DEF NewRow, Row, Statuses, RowsOK
    <2> QED
      BY <1>1, <2>1, <2>2, RowPut DEF Insert
  <1>2. ASSUME NEW s \in Slots, NEW d \in Docs, Revise(s, d) PROVE RowsOK' /\ RowsKept
    <2>1. PICK o \in Row : o = store[s]
      BY <1>2 DEF Revise, Present, RowsOK, StoreTypeOK
    <2>2. PICK h : h = Append(o.history, d)
      OBVIOUS
    <2>3. h \in Seq(Docs) /\ Len(h) = Len(o.history) + 1
      BY <2>2 DEF Row
    <2>4. PICK r : r = [o EXCEPT !.history = h]
      OBVIOUS
    <2>5. r \in Row /\ r.id = o.id /\ Len(r.history) = Len(o.history) + 1
      BY <2>3, <2>4 DEF Row
    <2>6. store' = [store EXCEPT ![s] = r]
      BY <1>2, <2>1, <2>2, <2>4 DEF Revise, Revised
    <2> QED
      BY <1>2, <2>1, <2>5, <2>6, RowPut DEF Revise
  <1>3. ASSUME NEW i \in 1 .. nextId, NEW st \in Decisions, SetStatus(i, st) PROVE RowsOK' /\ RowsKept
    <2>1. PICK s \in SlotsOf(i) : TRUE
      BY <1>3 DEF SetStatus, Live
    <2>2. s \in Slots /\ Present(s) /\ SlotsOf(i) = {s}
      BY <2>1 DEF SlotsOf, RowsOK
    <2>3. PICK o \in Row : o = store[s]
      BY <2>2 DEF Present, RowsOK, StoreTypeOK
    <2>4. PICK r : r = [o EXCEPT !.status = st]
      OBVIOUS
    <2>5. r \in Row /\ r.id = o.id /\ r.history = o.history
      BY <2>4 DEF Row, Decisions, Statuses
    <2>6. store' = [store EXCEPT ![s] = r]
      BY <1>3, <2>2, <2>3, <2>4 DEF SetStatus, RowsOK, StoreTypeOK
    <2> QED
      BY <1>3, <2>2, <2>3, <2>5, <2>6, RowPut DEF SetStatus
  <1> QED
    BY <1>1, <1>2, <1>3, RowRemoved DEF StoreNext

-----------------------------------------------------------------------------
(* What matches. *)

\* The changelog of a row that is there.
LEMMA VersionsOf ==
  ASSUME RowsOK, NEW s \in Slots, Present(s)
  PROVE  /\ SlotsOf(store[s].id) = {s} /\ Live(store[s].id)
         /\ RowOf(store[s].id) = store[s]
         /\ Versions(store[s].id) = 1 .. Len(store[s].history)
         /\ Len(store[s].history) \in 1 .. writes + 1
  <1>1. SlotsOf(store[s].id) = {s}
    BY DEF SlotsOf, RowsOK
  <1>2. RowOf(store[s].id) = store[s] /\ Live(store[s].id)
    BY <1>1 DEF RowOf, Live
  <1> QED
    BY <1>1, <1>2 DEF Versions, Version, RowsOK

LEMMA VersionsTyped ==
  ASSUME RowsOK, NEW i
  PROVE  /\ Versions(i) \subseteq Nat /\ IsFiniteSet(Versions(i))
         /\ Cardinality(Versions(i)) <= MaxWrites + 1
  <1>1. CASE ~Live(i)
    <2>1. Versions(i) = {} /\ Cardinality({}) = 0 /\ IsFiniteSet({})
      BY <1>1, FS_EmptySet DEF Versions
    <2> QED
      BY <2>1, ListingAssumption
  <1>2. CASE Live(i)
    <2>1. PICK s \in Slots : Present(s) /\ store[s].id = i
      BY <1>2 DEF Live, SlotsOf
    <2>2. PICK n : n = Len(store[s].history)
      OBVIOUS
    <2>3. Versions(i) = 1 .. n /\ n \in 1 .. writes + 1
      BY <2>1, <2>2, VersionsOf
    <2>4. n \in Nat /\ n >= 1 /\ n <= MaxWrites + 1
      BY <2>3, ListingAssumption DEF RowsOK
    <2>5. IsFiniteSet(1 .. n) /\ Cardinality(1 .. n) = n
      BY <2>4, FS_Interval
    <2> QED
      BY <2>3, <2>4, <2>5
  <1> QED
    BY <1>1, <1>2

LEMMA ModelsTyped ==
  ASSUME RowsOK, NEW v
  PROVE  /\ IsFiniteSet(ModelSlots(v)) /\ IsFiniteSet(VendorModels(v))
         /\ Cardinality(VendorModels(v)) <= Cardinality(ModelSlots(v))
         /\ Cardinality(ModelSlots(v)) <= Cardinality(Rows)
         /\ VendorModels(v) \subseteq {[version |-> s.version, vendor |-> s.vendor,
                                        model |-> s.model] : s \in Slots}
  <1> DEFINE M == ModelSlots(v)
             N == VendorModels(v)
  <1>1. M \subseteq Rows
    BY DEF ModelSlots, Rows
  <1>2. IsFiniteSet(M) /\ Cardinality(M) <= Cardinality(Rows)
    BY <1>1, FS_Subset DEF RowsOK
  <1>3. PICK f : f = [s \in M |-> [version |-> s.version, vendor |-> v, model |-> s.model]]
    OBVIOUS
  <1>4. f \in [M -> N] /\ \A x \in N : \E s \in M : f[s] = x
    BY <1>3 DEF VendorModels
  <1>5. f \in Surjection(M, N)
    BY <1>4, Fun_IsSurj
  <1>6. IsFiniteSet(N) /\ Cardinality(N) <= Cardinality(M)
    BY <1>2, <1>5, FS_Surjection
  <1>7. \A s \in M : s \in Slots /\ s.vendor = v
    BY DEF ModelSlots
  <1> QED
    BY <1>2, <1>6, <1>7 DEF VendorModels

\* Queries, with whatever id.
Query == [kind : {"versions"}, id : Nat]
           \cup [kind : {"models"}, vendor : Vendors]
           \cup [kind : {"schemas"}, vendor : Vendors \cup {AnyVendor}, status : Statuses \cup {"any"}]

LEMMA MatchingTyped ==
  ASSUME RowsOK, NEW q \in Query
  PROVE  /\ q.kind \in Kinds
         /\ Matching(q) \subseteq Items(q) /\ IsFiniteSet(Matching(q))
         /\ Cardinality(Matching(q)) \in Nat
         /\ \/ Cardinality(Matching(q)) <= MaxWrites + 1
            \/ Cardinality(Matching(q)) <= Cardinality(Seeded) + MaxWrites
         /\ \A n \in Counts(q) : n \in Nat /\ n >= Cardinality(Matching(q))
         /\ q.kind # "models" => Counts(q) = {Cardinality(Matching(q))}
  <1>1. /\ Cardinality(Rows) \in Nat /\ Cardinality(Seeded) \in Nat
        /\ Cardinality(Rows) <= Cardinality(Seeded) + writes
        /\ writes \in Nat /\ writes <= MaxWrites
    BY ListingAssumption, FS_CardinalityType DEF RowsOK
  <1>2. q.kind \in Kinds
    BY DEF Query, Kinds
  <1>3. CASE q.kind = "versions"
    <2>1. Matching(q) = Versions(q.id) /\ Items(q) = Nat
      BY <1>3 DEF Matching, Items
    <2>2. Cardinality(Matching(q)) \in Nat
      BY <2>1, VersionsTyped, FS_CardinalityType
    <2>3. Counts(q) = {Cardinality(Matching(q))}
      BY <1>3 DEF Counts
    <2> QED
      BY <1>2, <1>3, <2>1, <2>2, <2>3, VersionsTyped
  <1>4. CASE q.kind = "models"
    <2>1. /\ Matching(q) = VendorModels(q.vendor)
          /\ Items(q) = {[version |-> s.version, vendor |-> s.vendor, model |-> s.model] : s \in Slots}
      BY <1>4 DEF Matching, Items
    <2>2. Cardinality(Matching(q)) \in Nat /\ Cardinality(ModelSlots(q.vendor)) \in Nat
      BY <2>1, ModelsTyped, FS_CardinalityType
    <2>3. Counts(q) = {Cardinality(Matching(q)), Cardinality(ModelSlots(q.vendor))}
      BY <1>4 DEF Counts
    <2>4. /\ IsFiniteSet(Matching(q)) /\ Matching(q) \subseteq Items(q)
          /\ Cardinality(Matching(q)) <= Cardinality(ModelSlots(q.vendor))
          /\ Cardinality(ModelSlots(q.vendor)) <= Cardinality(Rows)
      BY <2>1, ModelsTyped
    <2> QED
      BY <1>1, <1>2, <1>4, <2>2, <2>3, <2>4, ListingAssumption
  <1>5. CASE q.kind = "schemas"
    <2>1. Matching(q) = ListedSlots(q) /\ Items(q) = Slots
      BY <1>5 DEF Matching, Items
    <2>2. Matching(q) \subseteq Rows /\ Matching(q) \subseteq Slots
      BY <2>1 DEF ListedSlots, Rows
    <2>3. IsFiniteSet(Matching(q)) /\ Cardinality(Matching(q)) <= Cardinality(Rows)
      BY <2>2, FS_Subset DEF RowsOK
    <2>4. Cardinality(Matching(q)) \in Nat
      BY <2>3, FS_CardinalityType
    <2>5. Counts(q) = {Cardinality(Matching(q))}
      BY <1>5 DEF Counts
    <2> QED
      BY <1>1, <1>2, <1>5, <2>1, <2>2, <2>3, <2>4, <2>5, ListingAssumption
  <1> QED
    BY <1>2, <1>3, <1>4, <1>5 DEF Kinds

\* A page of an answer.
LEMMA PageProperties ==
  ASSUME NEW S, NEW a \in Seq(S), NEW o \in Nat, NEW l \in Nat, l >= 1
  PROVE  /\ Page(a, o, l) \in Seq(S)
         /\ o >= Len(a) => Len(Page(a, o, l)) = 0
         /\ o < Len(a) /\ o + l < Len(a) => Len(Page(a, o, l)) = l
         /\ o < Len(a) /\ o + l >= Len(a) => Len(Page(a, o, l)) = Len(a) - o
         /\ \A i \in 1 .. Len(Page(a, o, l)) : Page(a, o, l)[i] = a[o + i] /\ o + i \in 1 .. Len(a)
  <1>1. PICK n \in Nat : n = Len(a)
    OBVIOUS
  <1>2. PICK e : e = IF o + l < n THEN o + l ELSE n
    OBVIOUS
  <1>3. e \in Nat /\ e <= n /\ Page(a, o, l) = SubSeq(a, o + 1, e)
    BY <1>1, <1>2 DEF Page
  <1>4. \A i \in o + 1 .. e : a[i] \in S
    <2>1. \A i \in 1 .. n : a[i] \in S
      BY <1>1
    <2> QED
      BY <1>3, <2>1
  <1>5. /\ SubSeq(a, o + 1, e) \in Seq(S)
        /\ Len(SubSeq(a, o + 1, e)) = IF o + 1 <= e THEN e - (o + 1) + 1 ELSE 0
        /\ \A i \in 1 .. e - (o + 1) + 1 : SubSeq(a, o + 1, e)[i] = a[o + 1 + i - 1]
    BY <1>3, <1>4, SubSeqProperties
  <1>6. PICK p : p = SubSeq(a, o + 1, e)
    OBVIOUS
  <1>7. /\ o >= n => Len(p) = 0
        /\ o < n /\ o + l < n => Len(p) = l
        /\ o < n /\ o + l >= n => Len(p) = n - o
    BY <1>2, <1>3, <1>5, <1>6
  <1>8. ASSUME NEW i \in 1 .. Len(p) PROVE p[i] = a[o + i] /\ o + i \in 1 .. n
    <2>1. i \in Nat /\ i >= 1 /\ i \in 1 .. e - (o + 1) + 1
      BY <1>3, <1>5, <1>6
    <2>2. p[i] = a[o + 1 + i - 1] /\ o + 1 + i - 1 = o + i
      BY <1>5, <1>6, <2>1
    <2> QED
      BY <1>3, <2>1, <2>2
  <1> QED
    BY <1>1, <1>3, <1>5, <1>6, <1>7, <1>8

-----------------------------------------------------------------------------
(* Tokens and page sizes. *)

LEMMA Remainder ==
  ASSUME NEW x \in Nat, NEW m \in Nat \ {0}
  PROVE  x % m \in 0 .. m - 1 /\ x % m <= x /\ (x < m => x % m = x)
  OBVIOUS

LEMMA NextTokenProperties ==
  ASSUME NEW o \in Nat, NEW r \in Nat, NEW t \in Nat
  PROVE  /\ NextToken(o, r, t) = NoToken <=> r = 0 \/ o + r >= t
         /\ NextToken(o, r, t) # NoToken =>
              /\ NextToken(o, r, t) \in 0 .. OffsetLimit - 1 /\ NextToken(o, r, t) <= o + r
              /\ o + r < OffsetLimit => NextToken(o, r, t) = o + r
  <1> DEFINE m == (o + r) % OffsetLimit
  <1>1. o + r \in Nat
    OBVIOUS
  <1>2. OffsetLimit \in Nat \ {0}
    BY ListingAssumption
  <1>3. m \in 0 .. OffsetLimit - 1 /\ m <= o + r /\ (o + r < OffsetLimit => m = o + r)
    BY <1>1, <1>2, Remainder
  <1>4. NextToken(o, r, t) = IF r <= 0 \/ o + r >= t THEN -1 ELSE m
    BY DEF NextToken, NoToken
  <1> HIDE DEF m
  <1> QED
    BY <1>2, <1>3, <1>4 DEF NoToken

LEMMA PageSizesClamped ==
  /\ \A size \in Int : ServicePageSize(ClampPageSize(size)) \in 1 .. MaxPageSize
  /\ ServicePageSize(SinglePage) = MaxPageSize /\ MaxPageSize \in Nat /\ MaxPageSize >= 1
  <1>1. DefaultPageSize \in 1 .. MaxPageSize /\ MaxPageSize \in Nat
    BY ListingAssumption
  <1> QED
    BY <1>1 DEF ServicePageSize, ClampPageSize, SinglePage

-----------------------------------------------------------------------------
(* The walk. *)

AnyItem == Nat \cup {[version |-> s.version, vendor |-> s.vendor, model |-> s.model] : s \in Slots}
             \cup Slots

Walk == [pc : Pcs, query : Query, offset : Nat, limit : Nat, total : Nat, got : Seq(AnyItem),
         single : BOOLEAN, first : SUBSET AnyItem, steady : BOOLEAN, split : BOOLEAN]

\* A walk by itself: what it has got and was to get are what its query may select, a
\* page has room for a row, and a single request starts from nothing and is for a
\* full page.
Shape(w) ==
  /\ w \in Walk
  /\ w.offset < OffsetLimit /\ w.limit <= MaxPageSize
  /\ w.got \in Seq(Items(w.query)) /\ w.first \subseteq Items(w.query)
  /\ w.pc \in {"count", "find"} => w.limit >= 1
  /\ w.steady => ~w.split
  /\ w.single => /\ w.query.kind = "schemas" /\ w.pc # "hold"
                 /\ w.pc \in {"count", "find"} =>
                      w.limit = MaxPageSize /\ w.offset = 0 /\ w.got = <<>>

\* A walk and the registry: the count is right unless the registry has changed since,
\* and what matches is what matched at first as long as nothing changes.
Asked(w) ==
  /\ w.query \in Queries
  /\ (w.pc = "find" /\ ~w.split) => w.total \in Counts(w.query)
  /\ (w.pc # "idle" /\ w.steady) => w.first = Matching(w.query)
  /\ (w.pc = "done" /\ w.steady /\ w.single) =>
       Range(w.got) = w.first \/ Len(w.got) = MaxPageSize

BaseInv == RowsOK /\ Shape(walk) /\ Asked(walk)

LEMMA QueriesTyped ==
  ASSUME RowsOK
  PROVE  Queries \subseteq Query /\ [kind |-> "versions", id |-> 1] \in Queries
  BY DEF RowsOK, Queries, Query

LEMMA ItemsTyped == \A q \in Query : Items(q) \subseteq AnyItem
  BY DEF Query, Items, AnyItem

LEMMA NoWalkTyped == NoWalk \in Walk
  <1>1. [kind |-> "versions", id |-> 1] \in Query
    BY DEF Query
  <1>2. <<>> \in Seq(AnyItem) /\ {} \in SUBSET AnyItem
    OBVIOUS
  <1> QED
    BY <1>1, <1>2 DEF NoWalk, Walk, Pcs

LEMMA NoWalkFine == ASSUME RowsOK PROVE Shape(NoWalk) /\ Asked(NoWalk)
  <1>1. PICK w : w = NoWalk
    OBVIOUS
  <1>2. /\ w \in Walk /\ w.pc = "idle" /\ w.offset = 0 /\ w.limit = 0 /\ w.got = <<>> /\ w.first = {}
        /\ w.single = FALSE /\ w.steady = TRUE /\ w.split = FALSE
        /\ w.query = [kind |-> "versions", id |-> 1]
    BY <1>1, NoWalkTyped DEF NoWalk
  <1>3. Shape(w)
    BY <1>2, ListingAssumption DEF Shape
  <1>4. Asked(w)
    BY <1>2, QueriesTyped DEF Asked
  <1> QED
    BY <1>1, <1>3, <1>4

\* A request of a registry at rest moves the walk only.
LEMMA Rested ==
  ASSUME BaseInv, Unchanged, NEW u, walk' = u, Shape(u), Asked(u)
  PROVE  BaseInv'
  <1>1. RowsOK'
    BY DEF BaseInv, Unchanged, RowsOK, StoreTypeOK, Present, Rows
  <1>2. Asked(u)'
    BY DEF Asked, Unchanged, Queries, Counts, Matching, ListedSlots, ModelSlots, VendorModels,
           Versions, Live, SlotsOf, RowOf, Version, Present
  <1> QED
    BY <1>1, <1>2 DEF BaseInv, Shape, Asked

\* A walk goes on with the same aim.
SameAim(w, u) ==
  /\ u.query = w.query /\ u.first = w.first /\ u.single = w.single
  /\ u.steady = w.steady /\ u.split = w.split

\* A client sets out for a page, or for its single answer.
Sets(w, q) ==
  /\ w \in Walk /\ w.query = q /\ w.first = Matching(q) /\ w.got = <<>> /\ w.offset = 0
  /\ w.steady = TRUE /\ w.split = FALSE
  /\ \/ w.pc = "hold" /\ w.single = FALSE /\ w.limit = 0
     \/ w.pc = "count" /\ w.single = TRUE /\ w.limit = MaxPageSize /\ q.kind = "schemas"

LEMMA SetsFine ==
  ASSUME RowsOK, NEW q \in Queries, NEW w, Sets(w, q) PROVE Shape(w) /\ Asked(w)
  <1>1. q \in Query /\ Matching(q) \subseteq Items(q)
    BY QueriesTyped, MatchingTyped
  <1>2. <<>> \in Seq(Items(q))
    OBVIOUS
  <1> QED
    BY <1>1, <1>2, ListingAssumption DEF Sets, Shape, Asked

LEMMA BeginMoves ==
  ASSUME RowsOK, NEW q \in Queries, Begin(q)
  PROVE  \E u : walk' = u /\ Sets(u, q) /\ Unchanged
  <1>1. q \in Query /\ Matching(q) \subseteq AnyItem
    BY QueriesTyped, MatchingTyped, ItemsTyped
  <1>2. PICK S : S = Matching(q)
    OBVIOUS
  <1>3. PICK u : u = [NoWalk EXCEPT !.pc = "hold", !.query = q, !.first = S]
    OBVIOUS
  <1>4. /\ u \in Walk /\ u.query = q /\ u.first = S /\ u.pc = "hold" /\ u.got = <<>> /\ u.offset = 0
        /\ u.limit = 0 /\ u.single = FALSE /\ u.steady = TRUE /\ u.split = FALSE
    BY <1>1, <1>2, <1>3, NoWalkTyped DEF NoWalk, Walk, Pcs
  <1> QED
    BY <1>2, <1>3, <1>4 DEF Begin, Sets

LEMMA SingleMoves ==
  ASSUME RowsOK, NEW v \in Vendors \cup {AnyVendor}, QuerySchemas(v)
  PROVE  \E u : \E q \in Queries : walk' = u /\ Sets(u, q) /\ Unchanged
  <1>1. PICK q : q = [kind |-> "schemas", vendor |-> v, status |-> "verified"]
    OBVIOUS
  <1>2. q \in Queries /\ q \in Query /\ q.kind = "schemas"
    BY <1>1 DEF Queries, Query, Statuses
  <1>3. Matching(q) \subseteq AnyItem
    BY <1>2, MatchingTyped, ItemsTyped
  <1>4. PICK S : S = Matching(q)
    OBVIOUS
  <1>5. PICK u : u = [NoWalk EXCEPT !.pc = "count", !.query = q, !.first = S, !.single = TRUE,
                                    !.limit = MaxPageSize]
    OBVIOUS
  <1>6. /\ u \in Walk /\ u.query = q /\ u.first = S /\ u.pc = "count" /\ u.got = <<>> /\ u.offset = 0
        /\ u.limit = MaxPageSize /\ u.single = TRUE /\ u.steady = TRUE /\ u.split = FALSE
    BY <1>2, <1>3, <1>4, <1>5, NoWalkTyped, PageSizesClamped DEF NoWalk, Walk, Pcs
  <1>7. walk' = u
    BY <1>1, <1>4, <1>5, PageSizesClamped DEF QuerySchemas
  <1>8. Sets(u, q) /\ Unchanged
    BY <1>2, <1>4, <1>6 DEF QuerySchemas, Sets
  <1> QED
    BY <1>2, <1>7, <1>8

LEMMA RequestMoves ==
  ASSUME NEW w, walk = w, Shape(w), NEW size \in PageSizes, Request(size)
  PROVE  \E u : /\ walk' = u /\ u \in Walk /\ SameAim(w, u) /\ Unchanged
                /\ w.pc = "hold" /\ u.pc = "count" /\ u.limit \in 1 .. MaxPageSize
                /\ u.offset = w.offset /\ u.got = w.got /\ u.total = w.total
  <1>1. PICK l : l = ServicePageSize(ClampPageSize(size))
    OBVIOUS
  <1>2. l \in 1 .. MaxPageSize /\ l \in Nat
    BY <1>1, PageSizesClamped, ListingAssumption
  <1>3. PICK u : u = [w EXCEPT !.pc = "count", !.limit = l]
    OBVIOUS
  <1>4. /\ u \in Walk /\ SameAim(w, u) /\ u.pc = "count" /\ u.limit = l
        /\ u.offset = w.offset /\ u.got = w.got /\ u.total = w.total
    BY <1>2, <1>3 DEF Shape, Walk, SameAim, Pcs
  <1> QED
    BY <1>1, <1>2, <1>3, <1>4 DEF Request

LEMMA CountMoves ==
  ASSUME RowsOK, NEW w, walk = w, Shape(w), Asked(w), Count
  PROVE  \E u : \E n \in Counts(w.query) :
            /\ walk' = u /\ u \in Walk /\ SameAim(w, u) /\ Unchanged
            /\ w.pc = "count" /\ u.total = n
            /\ u.limit = w.limit /\ u.offset = w.offset /\ u.got = w.got
            /\ \/ u.pc = "done" /\ w.query.kind = "models" /\ n = 0
               \/ u.pc = "find"
  <1>1. PICK n \in Counts(w.query) :
          walk' = [w EXCEPT !.total = n,
                            !.pc = IF w.query.kind = "models" /\ n = 0 THEN "done" ELSE "find"]
    BY DEF Count
  <1>2. n \in Nat
    BY QueriesTyped, MatchingTyped DEF Asked
  <1>3. PICK pc : pc = IF w.query.kind = "models" /\ n = 0 THEN "done" ELSE "find"
    OBVIOUS
  <1>4. PICK u : u = [w EXCEPT !.total = n, !.pc = pc]
    OBVIOUS
  <1>5. /\ u \in Walk /\ SameAim(w, u) /\ u.pc = pc /\ u.total = n
        /\ u.limit = w.limit /\ u.offset = w.offset /\ u.got = w.got
    BY <1>2, <1>3, <1>4 DEF Shape, Walk, SameAim, Pcs
  <1>6. walk' = u /\ w.pc = "count" /\ Unchanged
    BY <1>1, <1>3, <1>4 DEF Count
  <1>7. (u.pc = "done" /\ w.query.kind = "models" /\ n = 0) \/ u.pc = "find"
    BY <1>3, <1>5
  <1> QED
    BY <1>5, <1>6, <1>7

LEMMA FindMoves ==
  ASSUME RowsOK, NEW w, walk = w, Shape(w), Asked(w), Find
  PROVE  \E u, page, next : \E rows \in Orders(w.query, Matching(w.query)) :
            /\ walk' = u /\ u \in Walk /\ SameAim(w, u) /\ Unchanged
            /\ w.pc = "find" /\ u.total = w.total /\ u.limit = w.limit
            /\ page = Page(rows, w.offset, w.limit) /\ page \in Seq(Items(w.query))
            /\ next = IF w.single THEN NoToken ELSE NextToken(w.offset, Len(page), w.total)
            /\ u.got = w.got \o page
            /\ next = NoToken => u.pc = "done" /\ u.offset = w.offset
            /\ next # NoToken => u.pc = "hold" /\ u.offset = next
  <1> DEFINE pageOf(r) == Page(r, w.offset, w.limit)
             nextOf(r) == IF w.single THEN NoToken ELSE NextToken(w.offset, Len(pageOf(r)), w.total)
  <1>a. PICK rows \in Orders(w.query, Matching(w.query)) :
          walk' = [w EXCEPT !.got = @ \o pageOf(rows),
                            !.pc = IF nextOf(rows) = NoToken THEN "done" ELSE "hold",
                            !.offset = IF nextOf(rows) = NoToken THEN @ ELSE nextOf(rows)]
    BY DEF Find, Answers, Orders
  <1>1. PICK page, next :
          /\ page = Page(rows, w.offset, w.limit)
          /\ next = IF w.single THEN NoToken ELSE NextToken(w.offset, Len(page), w.total)
          /\ walk' = [w EXCEPT !.got = @ \o page,
                               !.pc = IF next = NoToken THEN "done" ELSE "hold",
                               !.offset = IF next = NoToken THEN @ ELSE next]
    BY <1>a
  <1>2. w.query \in Query
    BY DEF Shape, Walk
  <1>3. page \in Seq(Items(w.query)) /\ Len(page) \in Nat
    <2>1. PICK S : S = Matching(w.query)
      OBVIOUS
    <2>2. S \subseteq Items(w.query) /\ IsFiniteSet(S) /\ Cardinality(S) \in Nat
      BY <1>2, <2>1, MatchingTyped
    <2>r. rows \in Seq(S)
      BY <2>1, <2>2, OrderProperties
    <2>3. rows \in Seq(Items(w.query))
      BY <2>2, <2>r
    <2>4. w.offset \in Nat /\ w.limit \in Nat /\ w.limit >= 1
      BY DEF Shape, Walk, Find
    <2>5. page \in Seq(Items(w.query))
      BY <1>1, <2>2, <2>3, <2>4, PageProperties
    <2> QED
      BY <2>5
  <1>4. next = NoToken \/ next \in Nat
    BY <1>1, <1>3, NextTokenProperties DEF Shape, Walk
  <1>5. PICK got : got = w.got \o page
    OBVIOUS
  <1>6. got \in Seq(AnyItem)
    <2>1. got \in Seq(Items(w.query))
      BY <1>3, <1>5, ConcatProperties DEF Shape
    <2> QED
      BY <1>2, <2>1, ItemsTyped
  <1>7. PICK u : u = [w EXCEPT !.got = got, !.pc = IF next = NoToken THEN "done" ELSE "hold",
                               !.offset = IF next = NoToken THEN w.offset ELSE next]
    OBVIOUS
  <1>8. /\ u \in Walk /\ SameAim(w, u) /\ u.total = w.total /\ u.limit = w.limit /\ u.got = got
        /\ u.pc = IF next = NoToken THEN "done" ELSE "hold"
        /\ u.offset = IF next = NoToken THEN w.offset ELSE next
    BY <1>4, <1>6, <1>7 DEF Shape, Walk, SameAim, Pcs
  <1>9. walk' = u
    BY <1>1, <1>5, <1>7
  <1>10. w.pc = "find" /\ Unchanged
    BY DEF Find
  <1>11. /\ u.got = w.got \o page
         /\ next = NoToken => u.pc = "done" /\ u.offset = w.offset
         /\ next # NoToken => u.pc = "hold" /\ u.offset = next
    BY <1>5, <1>8
  <1>12. /\ page = Page(rows, w.offset, w.limit) /\ page \in Seq(Items(w.query))
         /\ next = IF w.single THEN NoToken ELSE NextToken(w.offset, Len(page), w.total)
    BY <1>1, <1>3
  <1> QED
    BY <1>8, <1>9, <1>10, <1>11, <1>12

LEMMA FailMoves ==
  ASSUME NEW w, walk = w, Shape(w), Fail
  PROVE  /\ Unchanged
         /\ \/ walk' = NoWalk /\ w.single
            \/ \E u : /\ walk' = u /\ u \in Walk /\ SameAim(w, u) /\ ~w.single
                      /\ w.pc \in {"count", "find"} /\ u.pc = "hold" /\ u.total = w.total
                      /\ u.limit = w.limit /\ u.offset = w.offset /\ u.got = w.got
  <1>1. CASE walk' = NoWalk /\ w.single
    BY <1>1 DEF Fail
  <1>2. CASE walk' = [w EXCEPT !.pc = "hold"] /\ ~w.single
    <2>1. PICK u : u = [w EXCEPT !.pc = "hold"]
      OBVIOUS
    <2>2. /\ u \in Walk /\ SameAim(w, u) /\ u.pc = "hold" /\ u.total = w.total
          /\ u.limit = w.limit /\ u.offset = w.offset /\ u.got = w.got
      BY <2>1 DEF Shape, Walk, SameAim, Pcs
    <2> QED
      BY <1>2, <2>1, <2>2 DEF Fail
  <1>3. \/ walk' = NoWalk /\ w.single
        \/ walk' = [w EXCEPT !.pc = "hold"] /\ ~w.single
    BY DEF Fail
  <1> QED
    BY <1>1, <1>2, <1>3

LEMMA WriteMoves ==
  ASSUME RowsOK, NEW w, walk = w, Shape(w), Write
  PROVE  /\ RowsOK' /\ RowsKept
         /\ \E u : /\ walk' = u /\ u \in Walk /\ u.steady = FALSE
                   /\ (u.split <=> w.split \/ w.pc = "find")
                   /\ u.query = w.query /\ u.first = w.first /\ u.single = w.single
                   /\ u.pc = w.pc /\ u.total = w.total
                   /\ u.limit = w.limit /\ u.offset = w.offset /\ u.got = w.got
  <1>1. RowsOK' /\ RowsKept
    BY StoreChanges DEF Write
  <1>2. PICK b \in BOOLEAN : b = (w.split \/ w.pc = "find")
    BY DEF Shape, Walk
  <1>3. PICK u : u = [w EXCEPT !.steady = FALSE, !.split = b]
    OBVIOUS
  <1>4. /\ u \in Walk /\ u.steady = FALSE /\ u.split = b
        /\ u.query = w.query /\ u.first = w.first /\ u.single = w.single
        /\ u.pc = w.pc /\ u.total = w.total
        /\ u.limit = w.limit /\ u.offset = w.offset /\ u.got = w.got
    BY <1>3 DEF Shape, Walk
  <1>5. walk' = u
    BY <1>2, <1>3 DEF Write
  <1> QED
    BY <1>1, <1>2, <1>4, <1>5

LEMMA QueriesGrow == ASSUME RowsOK, StoreNext PROVE Queries \subseteq Queries'
  <1>1. nextId \in Nat /\ nextId' \in {nextId, nextId + 1}
    BY DEF RowsOK, StoreNext, Insert, Revise, SetStatus, Remove
  <1>2. 1 .. nextId \subseteq 1 .. nextId'
    BY <1>1
  <1> QED
    BY <1>2 DEF Queries

LEMMA InitBase == Init => BaseInv
  BY InitRows, NoWalkFine DEF Init, BaseInv

LEMMA RequestBase ==
  ASSUME BaseInv, NEW size \in PageSizes, Request(size) PROVE BaseInv'
  <1>1. PICK w : w = walk /\ Shape(w) /\ Asked(w)
    BY DEF BaseInv
  <1>2. PICK u : /\ walk' = u /\ u \in Walk /\ SameAim(w, u) /\ Unchanged
                 /\ w.pc = "hold" /\ u.pc = "count" /\ u.limit \in 1 .. MaxPageSize
                 /\ u.offset = w.offset /\ u.got = w.got /\ u.total = w.total
    BY <1>1, RequestMoves
  <1>3. u.limit <= MaxPageSize /\ u.limit >= 1
    BY <1>2, ListingAssumption
  <1>4. Shape(u)
    BY <1>1, <1>2, <1>3 DEF Shape, SameAim
  <1>5. Asked(u)
    BY <1>1, <1>2 DEF Asked, SameAim
  <1> QED
    BY <1>2, <1>4, <1>5, Rested

LEMMA CountBase == ASSUME BaseInv, Count PROVE BaseInv'
  <1>1. PICK w : w = walk /\ Shape(w) /\ Asked(w) /\ RowsOK
    BY DEF BaseInv
  <1>2. PICK u : \E n \in Counts(w.query) :
            /\ walk' = u /\ u \in Walk /\ SameAim(w, u) /\ Unchanged
            /\ w.pc = "count" /\ u.total = n
            /\ u.limit = w.limit /\ u.offset = w.offset /\ u.got = w.got
            /\ \/ u.pc = "done" /\ w.query.kind = "models" /\ n = 0
               \/ u.pc = "find"
    BY <1>1, CountMoves
  <1>3. Shape(u)
    BY <1>1, <1>2 DEF Shape, SameAim
  <1>4. Asked(u)
    BY <1>1, <1>2, <1>3 DEF Asked, SameAim, Shape
  <1> QED
    BY <1>2, <1>3, <1>4, Rested

LEMMA FailBase == ASSUME BaseInv, Fail PROVE BaseInv'
  <1>1. PICK w : w = walk /\ Shape(w) /\ Asked(w) /\ RowsOK
    BY DEF BaseInv
  <1>2. CASE walk' = NoWalk
    BY <1>1, <1>2, NoWalkFine, FailMoves, Rested
  <1>3. CASE \E u : /\ walk' = u /\ u \in Walk /\ SameAim(w, u) /\ ~w.single
                    /\ w.pc \in {"count", "find"} /\ u.pc = "hold" /\ u.total = w.total
                    /\ u.limit = w.limit /\ u.offset = w.offset /\ u.got = w.got
    <2>1. PICK u : /\ walk' = u /\ u \in Walk /\ SameAim(w, u) /\ ~w.single
                   /\ w.pc \in {"count", "find"} /\ u.pc = "hold" /\ u.total = w.total
                   /\ u.limit = w.limit /\ u.offset = w.offset /\ u.got = w.got
      BY <1>3
    <2>2. Shape(u)
      BY <1>1, <2>1 DEF Shape, SameAim
    <2>3. Asked(u)
      BY <1>1, <2>1 DEF Asked, SameAim
    <2> QED
      BY <1>1, <2>1, <2>2, <2>3, FailMoves, Rested
  <1> QED
    BY <1>1, <1>2, <1>3, FailMoves

LEMMA WriteBase == ASSUME BaseInv, Write PROVE BaseInv'
  <1>1. PICK w : w = walk /\ Shape(w) /\ Asked(w) /\ RowsOK
    BY DEF BaseInv
  <1>2. PICK u : /\ walk' = u /\ u \in Walk /\ u.steady = FALSE
                 /\ (u.split <=> w.split \/ w.pc = "find")
                 /\ u.query = w.query /\ u.first = w.first /\ u.single = w.single
                 /\ u.pc = w.pc /\ u.total = w.total
                 /\ u.limit = w.limit /\ u.offset = w.offset /\ u.got = w.got
    BY <1>1, WriteMoves
  <1>3. Shape(u)
    BY <1>1, <1>2 DEF Shape
  <1>4. u.query \in Queries'
    BY <1>1, <1>2, QueriesGrow DEF Write, Asked
  <1>5. ~u.steady /\ ~(u.pc = "find" /\ ~u.split)
    BY <1>2
  <1>6. Asked(walk)'
    BY <1>2, <1>4, <1>5 DEF Asked
  <1> QED
    BY <1>1, <1>2, <1>3, <1>6, WriteMoves DEF BaseInv, Shape

LEMMA FirstPage ==
  ASSUME NEW S, NEW a \in Seq(S), NEW l \in Nat, l >= 1
  PROVE  /\ Page(a, 0, l) \in Seq(S)
         /\ Len(Page(a, 0, l)) = Len(a) \/ Len(Page(a, 0, l)) = l
         /\ \A i \in 1 .. Len(Page(a, 0, l)) : Page(a, 0, l)[i] = a[i]
  <1>1. PICK o \in Nat : o = 0
    OBVIOUS
  <1>2. PICK p : p = Page(a, o, l)
    OBVIOUS
  <1>3. /\ p \in Seq(S)
        /\ o >= Len(a) => Len(p) = 0
        /\ o < Len(a) /\ o + l < Len(a) => Len(p) = l
        /\ o < Len(a) /\ o + l >= Len(a) => Len(p) = Len(a) - o
        /\ \A i \in 1 .. Len(p) : p[i] = a[o + i]
    BY <1>2, PageProperties
  <1>4. Len(p) = Len(a) \/ Len(p) = l
    BY <1>1, <1>3
  <1>5. ASSUME NEW i \in 1 .. Len(p) PROVE p[i] = a[i]
    <2>1. p[i] = a[o + i] /\ o + i = i
      BY <1>1, <1>3
    <2> QED
      BY <2>1
  <1> QED
    BY <1>1, <1>2, <1>3, <1>4, <1>5

\* A first page that is not full has every row.
LEMMA FirstPageWhole ==
  ASSUME NEW q, NEW S, IsFiniteSet(S), NEW rows \in Orders(q, S), NEW l \in Nat, l >= 1,
         NEW page, page = Page(rows, 0, l)
  PROVE  Range(page) = S \/ Len(page) = l
  <1>1. PICK n \in Nat : n = Cardinality(S)
    BY FS_CardinalityType
  <1>2. \A x \in S : \E i \in 1 .. n : rows[i] = x
    BY <1>1, OrderProperties
  <1>f. rows \in Seq(S) /\ Len(rows) = n
    BY <1>1, OrderProperties
  <1>3. /\ page \in Seq(S) /\ (Len(page) = n \/ Len(page) = l)
        /\ \A i \in 1 .. Len(page) : page[i] = rows[i]
    BY <1>f, FirstPage
  <1>4. CASE Len(page) = n
    <2>1. DOMAIN page = 1 .. n /\ \A i \in 1 .. n : page[i] = rows[i]
      BY <1>3, <1>4
    <2> QED
      BY <1>2, <1>f, <2>1 DEF Range
  <1> QED
    BY <1>3, <1>4

LEMMA FindBase == ASSUME BaseInv, Find PROVE BaseInv'
  <1>1. PICK w : w = walk /\ Shape(w) /\ Asked(w) /\ RowsOK
    BY DEF BaseInv
  <1>2. PICK u, page, next : \E rows \in Orders(w.query, Matching(w.query)) :
            /\ walk' = u /\ u \in Walk /\ SameAim(w, u) /\ Unchanged
            /\ w.pc = "find" /\ u.total = w.total /\ u.limit = w.limit
            /\ page = Page(rows, w.offset, w.limit) /\ page \in Seq(Items(w.query))
            /\ next = IF w.single THEN NoToken ELSE NextToken(w.offset, Len(page), w.total)
            /\ u.got = w.got \o page
            /\ next = NoToken => u.pc = "done" /\ u.offset = w.offset
            /\ next # NoToken => u.pc = "hold" /\ u.offset = next
    BY <1>1, FindMoves
  <1>3. PICK rows \in Orders(w.query, Matching(w.query)) : page = Page(rows, w.offset, w.limit)
    BY <1>2
  <1>4. w.offset \in Nat /\ w.total \in Nat /\ Len(page) \in Nat
    BY <1>1, <1>2 DEF Shape, Walk
  <1>5. u.offset < OffsetLimit
    <2>1. CASE next = NoToken
      BY <1>1, <1>2, <2>1 DEF Shape
    <2>2. CASE next # NoToken
      <3>1. next \in 0 .. OffsetLimit - 1
        BY <1>2, <1>4, <2>2, NextTokenProperties
      <3>2. OffsetLimit \in Nat
        BY ListingAssumption
      <3> QED
        BY <1>2, <2>2, <3>1, <3>2
    <2> QED
      BY <2>1, <2>2
  <1>6. u.got \in Seq(Items(u.query))
    BY <1>1, <1>2, ConcatProperties DEF Shape, SameAim
  <1>7. u.pc \in {"done", "hold"} /\ (w.single => u.pc = "done")
    BY <1>2
  <1>8. Shape(u)
    BY <1>1, <1>2, <1>5, <1>6, <1>7 DEF Shape, SameAim
  <1>9. ASSUME u.steady, u.single PROVE Range(u.got) = u.first \/ Len(u.got) = MaxPageSize
    <2>1. w.steady /\ w.single /\ w.first = Matching(w.query) /\ u.first = w.first
      BY <1>1, <1>2, <1>9 DEF SameAim, Asked
    <2>2. w.limit = MaxPageSize /\ w.offset = 0 /\ w.got = <<>>
      BY <1>1, <1>2, <2>1 DEF Shape
    <2>3. u.got = page
      BY <1>2, <2>2
    <2>4. w.query \in Query
      BY <1>1 DEF Shape, Walk
    <2>5. IsFiniteSet(Matching(w.query))
      BY <1>1, <2>4, MatchingTyped
    <2> QED
      BY <1>3, <2>1, <2>2, <2>3, <2>5, FirstPageWhole, PageSizesClamped
  <1>10. Asked(u)
    BY <1>1, <1>2, <1>7, <1>9 DEF Asked, SameAim
  <1> QED
    BY <1>2, <1>8, <1>10, Rested

LEMMA NextBase == ASSUME BaseInv, [Next]_vars PROVE BaseInv'
  <1> USE DEF BaseInv
  <1>1. ASSUME NEW q \in Queries, Begin(q) PROVE BaseInv'
    <2>1. PICK u : walk' = u /\ Sets(u, q) /\ Unchanged
      BY <1>1, BeginMoves
    <2>2. Shape(u) /\ Asked(u)
      BY <2>1, SetsFine
    <2> QED
      BY <2>1, <2>2, Rested
  <1>2. ASSUME NEW v \in Vendors \cup {AnyVendor}, QuerySchemas(v) PROVE BaseInv'
    <2>1. PICK u : \E q \in Queries : walk' = u /\ Sets(u, q) /\ Unchanged
      BY <1>2, SingleMoves
    <2>2. Shape(u) /\ Asked(u)
      BY <2>1, SetsFine
    <2> QED
      BY <2>1, <2>2, Rested
  <1>3. CASE UNCHANGED vars
    BY <1>3, Rested DEF vars, Unchanged
  <1>4. ASSUME Next PROVE BaseInv'
    <2>1. \A v \in Vendors \cup {AnyVendor} :
            [kind |-> "schemas", vendor |-> v, status |-> "verified"] \in Queries
      BY DEF Queries, Statuses
    <2>2. \A st \in Statuses \cup {"any"} :
            [kind |-> "schemas", vendor |-> AnyVendor, status |-> st] \in Queries
      BY DEF Queries
    <2>3. \A id \in 1 .. nextId : [kind |-> "versions", id |-> id] \in Queries
      BY DEF Queries
    <2>4. \A v \in Vendors : [kind |-> "models", vendor |-> v] \in Queries
      BY DEF Queries
    <2> QED
      BY <1>1, <1>2, <1>4, <2>1, <2>2, <2>3, <2>4, RequestBase, CountBase, FindBase, FailBase, WriteBase
      DEF Next, SearchSchemas, ListSchemas, ListSchemaVersions, ListVendorModels
  <1> QED
    BY <1>3, <1>4

LEMMA AlwaysBase == Spec => []BaseInv
  BY InitBase, NextBase, PTL DEF Spec

-----------------------------------------------------------------------------
(* Theorems *)

\* Type correctness of SchemaListing: offsets stay within what a token can carry and
\* page sizes within what the service allows, whatever sizes clients ask for and
\* however the registry changes meanwhile.
THEOREM ListingTyped == Spec => []TypeOK
  <1>1. BaseInv => TypeOK
    <2> SUFFICES ASSUME BaseInv PROVE TypeOK
      OBVIOUS
    <2>1. /\ walk \in Walk /\ walk.offset < OffsetLimit /\ walk.limit <= MaxPageSize
          /\ walk.query \in Queries
      BY DEF BaseInv, Shape, Asked
    <2>2. OffsetLimit \in Nat /\ MaxPageSize \in Nat
      BY ListingAssumption
    <2>3. walk.offset \in 0 .. OffsetLimit - 1 /\ walk.limit \in 0 .. MaxPageSize
      BY <2>1, <2>2 DEF Walk
    <2> QED
      BY <2>1, <2>3 DEF TypeOK, BaseInv, RowsOK, Walk
  <1> QED
    BY <1>1, AlwaysBase, PTL

\* query_schemas and schemas:// show every matching row or a full page, ties or not.
THEOREM SingleAnswersComplete == Spec => []SingleAnswerComplete
  <1>1. BaseInv => SingleAnswerComplete
    BY DEF BaseInv, Asked, SingleAnswerComplete
  <1> QED
    BY <1>1, AlwaysBase, PTL

\* A listing that is not of models leaves its page with a token exactly when rows are
\* left: the count is then the number of rows, and nothing came between it and Find.
THEOREM TokensWhereRowsAreLeft == Spec => EmptyTokenOnLastPage
  <1> DEFINE reached == walk.offset + Len(walk'.got) - Len(walk.got)
             A == (/\ walk.pc = "find" /\ walk'.got # walk.got
                   /\ walk.query.kind # "models" /\ ~walk.single /\ ~walk.split) =>
                    (walk'.pc = "done" <=> reached >= Cardinality(Matching(walk.query)))
  <1>1. BaseInv /\ [Next]_vars => [A]_vars
    <2> SUFFICES ASSUME BaseInv, Next, walk.pc = "find", walk'.got # walk.got,
                        walk.query.kind # "models", ~walk.single, ~walk.split
                 PROVE  walk'.pc = "done" <=> reached >= Cardinality(Matching(walk.query))
      BY DEF vars
    <2>1. PICK w : w = walk /\ Shape(w) /\ Asked(w) /\ RowsOK
      BY DEF BaseInv
    <2>2. Find \/ Fail \/ Write
      BY DEF Next, SearchSchemas, ListSchemas, ListSchemaVersions, ListVendorModels, Begin,
             QuerySchemas, Request, Count
    <2>3. CASE Find
      <3>1. PICK u, page, next : \E rows \in Orders(w.query, Matching(w.query)) :
                /\ walk' = u /\ u \in Walk /\ SameAim(w, u) /\ Unchanged
                /\ w.pc = "find" /\ u.total = w.total /\ u.limit = w.limit
                /\ page = Page(rows, w.offset, w.limit) /\ page \in Seq(Items(w.query))
                /\ next = IF w.single THEN NoToken ELSE NextToken(w.offset, Len(page), w.total)
                /\ u.got = w.got \o page
                /\ next = NoToken => u.pc = "done" /\ u.offset = w.offset
                /\ next # NoToken => u.pc = "hold" /\ u.offset = next
        BY <2>1, <2>3, FindMoves
      <3>2. w.query \in Query /\ w.offset \in Nat /\ w.total \in Nat /\ Len(page) \in Nat
        BY <2>1, <3>1 DEF Shape, Walk
      <3>3. w.total = Cardinality(Matching(w.query))
        BY <2>1, <3>1, <3>2, MatchingTyped DEF Asked
      <3>4. Len(u.got) = Len(w.got) + Len(page) /\ Len(w.got) \in Nat
        BY <2>1, <3>1, ConcatProperties DEF Shape
      <3>5. Len(page) # 0
        <4>1. CASE page = <<>>
          <5>1. u.got = w.got
            BY <2>1, <3>1, <4>1, ConcatEmptySeq DEF Shape
          <5> QED
            BY <2>1, <3>1, <5>1
        <4>2. CASE page # <<>>
          BY <3>1, <4>2, EmptySeq
        <4> QED
          BY <4>1, <4>2
      <3>6. next = NoToken <=> w.offset + Len(page) >= w.total
        BY <2>1, <3>1, <3>2, <3>5, NextTokenProperties
      <3>7. u.pc = "done" <=> w.offset + Len(page) >= w.total
        BY <3>1, <3>6
      <3>8. w.offset + Len(u.got) - Len(w.got) = w.offset + Len(page)
        BY <3>2, <3>4
      <3> QED
        BY <2>1, <3>1, <3>3, <3>7, <3>8
    <2>4. CASE Fail
      <3>1. ~ \E u : walk' = u /\ u.got = w.got
        BY <2>1
      <3> QED
        BY <2>1, <2>4, <3>1, FailMoves
    <2>5. CASE Write
      BY <2>1, <2>5, WriteMoves
    <2> QED
      BY <2>2, <2>3, <2>4, <2>5
  <1> QED
    BY <1>1, AlwaysBase, PTL DEF Spec, EmptyTokenOnLastPage

-----------------------------------------------------------------------------
(* A walk over a registry at rest. *)

\* What a client has of n rows are n that match, with the keys the first n of every
\* answer have.
Agrees(q, S, got, n) ==
  /\ Len(got) = n /\ n <= Cardinality(S)
  /\ \A b \in Orders(q, S) : \A i \in 1 .. n :
       got[i] \in S /\ SortKey(q, got[i]) = SortKey(q, b[i])

Exact(q, S, got) ==
  /\ Len(got) = Cardinality(S)
  /\ InOrder(q, got)
  /\ Range(got) \subseteq S
  /\ Untied(q, S) => Range(got) = S

\* The tokens can count every row there may be.
TokensFit == Cardinality(Seeded) + MaxWrites < OffsetLimit /\ MaxWrites + 1 < OffsetLimit

SteadyInv(w) ==
  (w.steady /\ ~w.single) =>
    /\ w.pc \in {"hold", "count", "find"} => Agrees(w.query, w.first, w.got, w.offset)
    /\ w.pc = "done" => Exact(w.query, w.first, w.got)

\* What a page is of an answer with n rows.
IsPage(page, rows, o, l, n) ==
  /\ o >= n => Len(page) = 0
  /\ o < n /\ o + l < n => Len(page) = l
  /\ o < n /\ o + l >= n => Len(page) = n - o
  /\ \A i \in 1 .. Len(page) : page[i] = rows[o + i] /\ o + i \in 1 .. n

LEMMA OrderPage ==
  ASSUME NEW q, NEW S, IsFiniteSet(S), NEW rows \in Orders(q, S), NEW o \in Nat, NEW l \in Nat,
         l >= 1
  PROVE  Page(rows, o, l) \in Seq(S) /\ IsPage(Page(rows, o, l), rows, o, l, Cardinality(S))
  <1> DEFINE n == Cardinality(S)
  <1>0. PICK page : page = Page(rows, o, l)
    OBVIOUS
  <1>1. rows \in Seq(S)
    BY OrderProperties
  <1>2. Len(rows) = n
    BY OrderProperties
  <1>3. /\ page \in Seq(S)
        /\ o >= Len(rows) => Len(page) = 0
        /\ o < Len(rows) /\ o + l < Len(rows) => Len(page) = l
        /\ o < Len(rows) /\ o + l >= Len(rows) => Len(page) = Len(rows) - o
        /\ \A i \in 1 .. Len(page) : page[i] = rows[o + i] /\ o + i \in 1 .. Len(rows)
    BY <1>0, <1>1, PageProperties
  <1> QED
    BY <1>0, <1>2, <1>3 DEF IsPage

\* One more page, of whichever answer.
LEMMA AgreesMore ==
  ASSUME NEW q, q.kind \in Kinds, NEW S, IsFiniteSet(S), S \subseteq Items(q),
         NEW rows \in Orders(q, S), NEW o \in Nat, NEW l \in Nat, l >= 1,
         NEW got \in Seq(Items(q)), Agrees(q, S, got, o),
         NEW page, page = Page(rows, o, l)
  PROVE  /\ Len(page) \in Nat
         /\ Agrees(q, S, got \o page, o + Len(page))
         /\ Len(page) = 0 => o = Cardinality(S)
  <1>1. PICK n \in Nat : n = Cardinality(S)
    BY FS_CardinalityType
  <1>2. rows \in Seq(S) /\ Len(rows) = n
    BY <1>1, OrderProperties
  <1>3. /\ page \in Seq(S)
        /\ o >= n => Len(page) = 0
        /\ o < n /\ o + l < n => Len(page) = l
        /\ o < n /\ o + l >= n => Len(page) = n - o
        /\ \A i \in 1 .. Len(page) : page[i] = rows[o + i] /\ o + i \in 1 .. n
    <2>1. page \in Seq(S) /\ IsPage(page, rows, o, l, Cardinality(S))
      BY OrderPage
    <2> QED
      BY <1>1, <2>1 DEF IsPage
  <1>4. PICK r \in Nat : r = Len(page)
    BY <1>3
  <1>5. o <= n /\ Len(got) = o
    BY <1>1 DEF Agrees
  <1>6. o + r <= n /\ (r = 0 => o = n)
    BY <1>3, <1>4, <1>5
  <1>7. PICK g : g = got \o page
    OBVIOUS
  <1>8. page \in Seq(Items(q))
    BY <1>3
  <1>9. /\ Len(g) = o + r
        /\ \A i \in 1 .. o + r : g[i] = IF i <= o THEN got[i] ELSE page[i - o]
    BY <1>4, <1>5, <1>7, <1>8, ConcatProperties
  <1>10. ASSUME NEW b \in Orders(q, S), NEW i \in 1 .. o + r
         PROVE  g[i] \in S /\ SortKey(q, g[i]) = SortKey(q, b[i])
    <2>1. CASE i <= o
      <3>1. i \in 1 .. o /\ g[i] = got[i]
        BY <1>9, <2>1
      <3> QED
        BY <3>1 DEF Agrees
    <2>2. CASE i > o
      <3>1. PICK k \in 1 .. r : k = i - o
        BY <2>2
      <3>2. g[i] = page[k] /\ o + k = i
        BY <1>9, <2>2, <3>1
      <3>3. page[k] = rows[i] /\ i \in 1 .. n
        BY <1>3, <1>4, <3>2
      <3>4. rows[i] \in S
        BY <1>2, <3>3
      <3>5. SortKey(q, rows[i]) = SortKey(q, b[i])
        BY <1>1, <3>3, SameKeys
      <3> QED
        BY <3>2, <3>3, <3>4, <3>5
    <2> QED
      BY <2>1, <2>2
  <1>11. Agrees(q, S, g, o + r)
    BY <1>1, <1>6, <1>9, <1>10 DEF Agrees
  <1> QED
    BY <1>1, <1>4, <1>6, <1>7, <1>11

\* Who agrees to the end has it all.
LEMMA AgreesExact ==
  ASSUME NEW q, q.kind \in Kinds, NEW S, IsFiniteSet(S), S \subseteq Items(q),
         NEW rows \in Orders(q, S), NEW got \in Seq(Items(q)),
         Agrees(q, S, got, Cardinality(S))
  PROVE  Exact(q, S, got)
  <1>1. PICK n \in Nat : n = Cardinality(S)
    BY FS_CardinalityType
  <1>2. Len(got) = n /\ DOMAIN got = 1 .. n
    BY <1>1 DEF Agrees
  <1>3. \A i \in 1 .. n : got[i] \in S /\ SortKey(q, got[i]) = SortKey(q, rows[i])
    BY <1>1 DEF Agrees
  <1>4. \A i, j \in 1 .. n : i < j => ~Before(SortKey(q, rows[j]), SortKey(q, rows[i]))
    BY <1>1, OrderProperties
  <1>5. InOrder(q, got)
    BY <1>2, <1>3, <1>4 DEF InOrder
  <1>6. Range(got) \subseteq S
    BY <1>2, <1>3 DEF Range
  <1>7. ASSUME Untied(q, S), NEW x \in S PROVE x \in Range(got)
    <2>1. PICK i \in 1 .. n : rows[i] = x
      BY <1>1, OrderProperties
    <2>2. got[i] = x
      BY <1>3, <1>7, <2>1 DEF Untied
    <2> QED
      BY <1>2, <2>2 DEF Range
  <1> QED
    BY <1>1, <1>2, <1>5, <1>6, <1>7 DEF Exact

\* Steps that only hand on the pages.
LEMMA SteadySame ==
  ASSUME NEW w, NEW u, SteadyInv(w), SameAim(w, u), u.got = w.got, u.offset = w.offset,
         w.pc \in {"hold", "count", "find"}, u.pc \in {"hold", "count", "find"}
  PROVE  SteadyInv(u)
  BY DEF SteadyInv, SameAim

LEMMA SetsSteady == ASSUME NEW u, NEW q, Sets(u, q), IsFiniteSet(Matching(q)) PROVE SteadyInv(u)
  <1>1. u.got = <<>> /\ u.offset = 0 /\ u.query = q /\ u.first = Matching(q) /\ u.pc # "done"
    BY DEF Sets
  <1>2. Cardinality(Matching(q)) \in Nat
    BY FS_CardinalityType
  <1>3. Agrees(u.query, u.first, u.got, u.offset)
    BY <1>1, <1>2 DEF Agrees
  <1> QED
    BY <1>1, <1>3 DEF SteadyInv

LEMMA NoWalkSteady == SteadyInv(NoWalk)
  BY DEF SteadyInv, NoWalk

LEMMA CountSteady == ASSUME BaseInv, SteadyInv(walk), Count PROVE SteadyInv(walk)'
  <1>1. PICK w : w = walk /\ Shape(w) /\ Asked(w) /\ RowsOK /\ SteadyInv(w)
    BY DEF BaseInv
  <1>2. PICK u : \E n \in Counts(w.query) :
            /\ walk' = u /\ u \in Walk /\ SameAim(w, u) /\ Unchanged
            /\ w.pc = "count" /\ u.total = n
            /\ u.limit = w.limit /\ u.offset = w.offset /\ u.got = w.got
            /\ \/ u.pc = "done" /\ w.query.kind = "models" /\ n = 0
               \/ u.pc = "find"
    BY <1>1, CountMoves
  <1>3. SteadyInv(u)
    <2>1. CASE u.pc = "find"
      BY <1>1, <1>2, <2>1, SteadySame
    <2>2. CASE u.pc = "done" /\ 0 \in Counts(w.query)
      <3> SUFFICES ASSUME u.steady, ~u.single PROVE Exact(u.query, u.first, u.got)
        BY <2>2 DEF SteadyInv
      <3>1. w.steady /\ ~w.single /\ w.pc = "count"
        BY <1>2 DEF SameAim
      <3>2. PICK S : S = Matching(w.query) /\ w.first = S
        BY <1>1, <3>1 DEF Asked
      <3>3. w.query \in Query
        BY <1>1 DEF Shape, Walk
      <3>4. /\ IsFiniteSet(S) /\ Cardinality(S) \in Nat
            /\ \A n \in Counts(w.query) : n \in Nat /\ n >= Cardinality(S)
        BY <1>1, <3>2, <3>3, MatchingTyped
      <3>5. Cardinality(S) = 0
        BY <2>2, <3>4
      <3>6. S = {}
        BY <3>4, <3>5, FS_EmptySet
      <3>7. Agrees(w.query, S, w.got, w.offset)
        BY <1>1, <3>1, <3>2 DEF SteadyInv
      <3>8. w.got \in Seq(Items(w.query)) /\ w.offset \in Nat
        BY <1>1 DEF Shape, Walk
      <3>9. Len(w.got) = 0
        BY <3>5, <3>7, <3>8 DEF Agrees
      <3>10. w.got = <<>>
        BY <3>8, <3>9, EmptySeq
      <3>11. Exact(w.query, S, w.got)
        BY <3>5, <3>6, <3>10 DEF Exact, InOrder, Range
      <3> QED
        BY <1>2, <3>2, <3>11 DEF SameAim
    <2> QED
      BY <1>2, <2>1, <2>2
  <1> QED
    BY <1>2, <1>3

LEMMA FindSteady == ASSUME TokensFit, BaseInv, SteadyInv(walk), Find PROVE SteadyInv(walk)'
  <1>1. PICK w : w = walk /\ Shape(w) /\ Asked(w) /\ RowsOK /\ SteadyInv(w)
    BY DEF BaseInv
  <1>2. PICK u, page, next : \E rows \in Orders(w.query, Matching(w.query)) :
            /\ walk' = u /\ u \in Walk /\ SameAim(w, u) /\ Unchanged
            /\ w.pc = "find" /\ u.total = w.total /\ u.limit = w.limit
            /\ page = Page(rows, w.offset, w.limit) /\ page \in Seq(Items(w.query))
            /\ next = IF w.single THEN NoToken ELSE NextToken(w.offset, Len(page), w.total)
            /\ u.got = w.got \o page
            /\ next = NoToken => u.pc = "done" /\ u.offset = w.offset
            /\ next # NoToken => u.pc = "hold" /\ u.offset = next
    BY <1>1, FindMoves
  <1>3. PICK rows \in Orders(w.query, Matching(w.query)) : page = Page(rows, w.offset, w.limit)
    BY <1>2
  <1>4. SteadyInv(u)
    <2> SUFFICES ASSUME u.steady, ~u.single
                 PROVE  /\ u.pc \in {"hold", "count", "find"} =>
                             Agrees(u.query, u.first, u.got, u.offset)
                        /\ u.pc = "done" => Exact(u.query, u.first, u.got)
      BY DEF SteadyInv
    <2>1. w.steady /\ ~w.single /\ ~w.split
      BY <1>1, <1>2 DEF SameAim, Shape
    <2>2. w.query \in Query /\ w.offset \in Nat /\ w.total \in Nat /\ w.limit \in Nat /\ w.limit >= 1
      BY <1>1, <1>2 DEF Shape, Walk
    <2>3. PICK S : S = Matching(w.query)
      OBVIOUS
    <2>4. w.first = S /\ w.total \in Counts(w.query)
      BY <1>1, <1>2, <2>1, <2>3 DEF Asked
    <2>5. PICK n : n = Cardinality(S)
      OBVIOUS
    <2>6. /\ w.query.kind \in Kinds /\ S \subseteq Items(w.query) /\ IsFiniteSet(S) /\ n \in Nat
          /\ n <= MaxWrites + 1 \/ n <= Cardinality(Seeded) + MaxWrites
          /\ w.total >= n
      BY <1>1, <2>2, <2>3, <2>4, <2>5, MatchingTyped
    <2>7. n < OffsetLimit
      <3>1. Cardinality(Seeded) \in Nat /\ MaxWrites \in Nat /\ OffsetLimit \in Nat
        BY ListingAssumption, FS_CardinalityType
      <3> QED
        BY <2>6, <3>1 DEF TokensFit
    <2>8. Agrees(w.query, S, w.got, w.offset)
      BY <1>1, <1>2, <2>1, <2>4 DEF SteadyInv
    <2>9. w.got \in Seq(Items(w.query))
      BY <1>1 DEF Shape
    <2>10. /\ Len(page) \in Nat
           /\ Agrees(w.query, S, u.got, w.offset + Len(page))
           /\ Len(page) = 0 => w.offset = n
      <3>1. rows \in Orders(w.query, S) /\ u.got = w.got \o page
        BY <1>2, <2>3
      <3>2. /\ Len(page) \in Nat
            /\ Agrees(w.query, S, w.got \o page, w.offset + Len(page))
            /\ Len(page) = 0 => w.offset = Cardinality(S)
        <4>1. PICK q, o, l, got : q = w.query /\ o = w.offset /\ l = w.limit /\ got = w.got
          OBVIOUS
        <4>2. /\ q.kind \in Kinds /\ S \subseteq Items(q) /\ IsFiniteSet(S)
              /\ rows \in Orders(q, S) /\ o \in Nat /\ l \in Nat /\ l >= 1
              /\ got \in Seq(Items(q)) /\ Agrees(q, S, got, o) /\ page = Page(rows, o, l)
          BY <1>3, <2>2, <2>6, <2>8, <2>9, <3>1, <4>1
        <4>3. /\ Len(page) \in Nat
              /\ Agrees(q, S, got \o page, o + Len(page))
              /\ Len(page) = 0 => o = Cardinality(S)
          BY <4>2, AgreesMore
        <4> QED
          BY <4>1, <4>3
      <3> QED
        BY <2>5, <3>1, <3>2
    <2>11. w.offset + Len(page) <= n
      BY <2>5, <2>10 DEF Agrees
    <2>12. next = NextToken(w.offset, Len(page), w.total)
      BY <1>2, <2>1
    <2>13. CASE next = NoToken
      <3>1. Len(page) = 0 \/ w.offset + Len(page) >= w.total
        BY <2>2, <2>10, <2>12, <2>13, NextTokenProperties
      <3>2. w.offset + Len(page) = n
        BY <2>2, <2>6, <2>10, <2>11, <3>1
      <3>3. u.got \in Seq(Items(w.query))
        BY <1>2, <2>9, ConcatProperties
      <3>4. Exact(w.query, S, u.got)
        BY <1>3, <2>3, <2>5, <2>6, <2>10, <3>2, <3>3, AgreesExact
      <3> QED
        BY <1>2, <2>4, <2>13, <3>4 DEF SameAim
    <2>14. CASE next # NoToken
      <3>1. next = w.offset + Len(page)
        <4>1. w.offset + Len(page) < OffsetLimit
          BY <2>2, <2>6, <2>7, <2>10, <2>11, ListingAssumption
        <4> QED
          BY <2>2, <2>10, <2>12, <2>14, <4>1, NextTokenProperties
      <3> QED
        BY <1>2, <2>4, <2>10, <2>14, <3>1 DEF SameAim
    <2> QED
      BY <2>13, <2>14
  <1> QED
    BY <1>2, <1>4

LEMMA NextSteady ==
  ASSUME TokensFit, BaseInv, SteadyInv(walk), [Next]_vars PROVE SteadyInv(walk)'
  <1>1. PICK w : w = walk /\ Shape(w) /\ Asked(w) /\ RowsOK /\ SteadyInv(w)
    BY DEF BaseInv
  <1>2. ASSUME NEW q \in Queries, Begin(q) PROVE SteadyInv(walk)'
    <2>1. PICK u : walk' = u /\ Sets(u, q)
      BY <1>1, <1>2, BeginMoves
    <2>2. IsFiniteSet(Matching(q))
      BY <1>1, QueriesTyped, MatchingTyped
    <2>3. SteadyInv(u)
      BY <2>1, <2>2, SetsSteady
    <2> QED
      BY <2>1, <2>3
  <1>3. ASSUME NEW v \in Vendors \cup {AnyVendor}, QuerySchemas(v) PROVE SteadyInv(walk)'
    <2>1. PICK u : \E q \in Queries : walk' = u /\ Sets(u, q)
      BY <1>1, <1>3, SingleMoves
    <2>2. \A q \in Queries : IsFiniteSet(Matching(q))
      BY <1>1, QueriesTyped, MatchingTyped
    <2>3. SteadyInv(u)
      BY <2>1, <2>2, SetsSteady
    <2> QED
      BY <2>1, <2>3
  <1>4. ASSUME NEW size \in PageSizes, Request(size) PROVE SteadyInv(walk)'
    <2>1. PICK u : /\ walk' = u /\ SameAim(w, u) /\ w.pc = "hold" /\ u.pc = "count"
                   /\ u.offset = w.offset /\ u.got = w.got
      BY <1>1, <1>4, RequestMoves
    <2>2. SteadyInv(u)
      BY <1>1, <2>1, SteadySame
    <2> QED
      BY <2>1, <2>2
  <1>5. ASSUME Fail PROVE SteadyInv(walk)'
    <2>1. CASE walk' = NoWalk
      BY <2>1, NoWalkSteady
    <2>2. CASE \E u : /\ walk' = u /\ SameAim(w, u) /\ w.pc \in {"count", "find"} /\ u.pc = "hold"
                      /\ u.offset = w.offset /\ u.got = w.got
      <3>1. PICK u : /\ walk' = u /\ SameAim(w, u) /\ w.pc \in {"count", "find"} /\ u.pc = "hold"
                     /\ u.offset = w.offset /\ u.got = w.got
        BY <2>2
      <3>2. SteadyInv(u)
        BY <1>1, <3>1, SteadySame
      <3> QED
        BY <3>1, <3>2
    <2> QED
      BY <1>1, <1>5, <2>1, <2>2, FailMoves
  <1>6. ASSUME Write PROVE SteadyInv(walk)'
    <2>1. PICK u : walk' = u /\ u.steady = FALSE
      BY <1>1, <1>6, WriteMoves
    <2>2. SteadyInv(u)
      BY <2>1 DEF SteadyInv
    <2> QED
      BY <2>1, <2>2
  <1>7. CASE UNCHANGED vars
    BY <1>1, <1>7 DEF vars
  <1>8. ASSUME Next PROVE SteadyInv(walk)'
    <2>1. \A v \in Vendors \cup {AnyVendor} :
            [kind |-> "schemas", vendor |-> v, status |-> "verified"] \in Queries
      BY DEF Queries, Statuses
    <2>2. \A st \in Statuses \cup {"any"} :
            [kind |-> "schemas", vendor |-> AnyVendor, status |-> st] \in Queries
      BY DEF Queries
    <2>3. \A id \in 1 .. nextId : [kind |-> "versions", id |-> id] \in Queries
      BY DEF Queries
    <2>4. \A v \in Vendors : [kind |-> "models", vendor |-> v] \in Queries
      BY DEF Queries
    <2> QED
      BY <1>2, <1>3, <1>4, <1>5, <1>6, <1>8, <2>1, <2>2, <2>3, <2>4, CountSteady, FindSteady
      DEF Next, SearchSchemas, ListSchemas, ListSchemaVersions, ListVendorModels
  <1> QED
    BY <1>7, <1>8

\* Where the tokens can count every row there may be (of a uint32, more than four
\* thousand million), a walk over a registry at rest gets as many rows as match, in
\* their order, each once unless rows tie: whatever the page sizes, whichever
\* requests fail, and in whatever order the database returns what ties.
THEOREM SteadyWalksExact == ASSUME TokensFit PROVE Spec => []SteadyWalkExact
  <1>1. Init => SteadyInv(walk)
    BY NoWalkSteady DEF Init
  <1>2. BaseInv /\ SteadyInv(walk) /\ [Next]_vars => SteadyInv(walk)'
    BY NextSteady
  <1>3. SteadyInv(walk) => SteadyWalkExact
    BY DEF SteadyInv, SteadyWalkExact, Exact
  <1> QED
    BY <1>1, <1>2, <1>3, AlwaysBase, PTL DEF Spec

-----------------------------------------------------------------------------
(* A changelog that grows while it is read. *)

Newest(i) == Version(RowOf(i))

\* What a client who reads versions of a live row has not got of those that were
\* there at first is beyond the offset, counted from the newest there is.
Trail(w) ==
  (w.query.kind = "versions" /\ w.pc # "idle") =>
    \A x \in w.first :
      /\ w.query.id < nextId
      /\ Live(w.query.id) =>
           /\ x \in Versions(w.query.id)
           /\ (~w.split /\ (w.pc = "done" \/ x > Newest(w.query.id) - w.offset)) =>
                x \in Range(w.got)

LEMMA NewestOf ==
  ASSUME RowsOK, NEW i, Live(i)
  PROVE  \E s \in Slots : /\ Present(s) /\ store[s].id = i /\ Newest(i) = Len(store[s].history)
                          /\ Newest(i) \in Nat /\ Versions(i) = 1 .. Newest(i) /\ i < nextId
  <1>1. PICK s \in Slots : Present(s) /\ store[s].id = i
    BY DEF Live, SlotsOf
  <1>2. RowOf(i) = store[s] /\ Versions(i) = 1 .. Len(store[s].history)
    BY <1>1, VersionsOf
  <1>3. Len(store[s].history) \in Nat /\ store[s].id < nextId
    BY <1>1 DEF RowsOK
  <1> QED
    BY <1>1, <1>2, <1>3 DEF Newest, Version

\* A row that is there was there before the change, and at most a version newer now,
\* if its id had been handed out.
LEMMA TrailKept ==
  ASSUME RowsOK, RowsOK', RowsKept, NEW i, i < nextId, Live(i)'
  PROVE  Live(i) /\ Newest(i)' \in {Newest(i), Newest(i) + 1} /\ Newest(i) \in Nat
  <1>1. PICK s \in Slots : Present(s)' /\ store'[s].id = i
    BY DEF Live, SlotsOf
  <1>2. SlotsOf(i)' = {s}
    BY <1>1 DEF SlotsOf, RowsOK
  <1>3. Newest(i)' = Len(store'[s].history)
    BY <1>2 DEF Newest, Version, RowOf
  <1>4. Present(s) /\ store[s].id = i
        /\ Len(store'[s].history) \in {Len(store[s].history), Len(store[s].history) + 1}
    BY <1>1 DEF RowsKept, RowsOK
  <1>5. Live(i) /\ RowOf(i) = store[s] /\ Len(store[s].history) \in Nat
    BY <1>4, VersionsOf DEF RowsOK
  <1> QED
    BY <1>1, <1>3, <1>4, <1>5 DEF Newest, Version

\* The changelog comes newest first, whatever else the order leaves open.
LEMMA NewestFirst ==
  ASSUME NEW q, q.kind = "versions", NEW n \in Nat, NEW a \in Orders(q, 1 .. n), NEW i \in 1 .. n
  PROVE  a[i] = n - i + 1
  <1> DEFINE S == 1 .. n
  <1>1. IsFiniteSet(S) /\ Cardinality(S) = n
    BY FS_Interval
  <1>2. PICK b : b = [k \in 1 .. n |-> n - k + 1]
    OBVIOUS
  <1>3. b \in [1 .. n -> S] /\ \A k \in 1 .. n : b[k] = n - k + 1
    BY <1>2
  <1>4. \A j, k \in 1 .. n : b[j] = b[k] => j = k
    BY <1>3
  <1>5. b \in Injection(1 .. n, S)
    BY <1>3, <1>4, Fun_IsInj
  <1>6. ASSUME NEW x \in Int, NEW y \in Int
        PROVE  Before(SortKey(q, x), SortKey(q, y)) <=> x > y
    <2>1. SortKey(q, x) = <<-x>> /\ SortKey(q, y) = <<-y>>
      BY DEF SortKey
    <2>2. <<-x>> \in [1 .. 1 -> Int] /\ <<-y>> \in [1 .. 1 -> Int]
      OBVIOUS
    <2>3. Before(<<-x>>, <<-y>>) <=> -x < -y
      BY <2>2, BeforeOfOne
    <2> QED
      BY <2>1, <2>3
  <1>7. \A j, k \in 1 .. n : j < k => ~Before(SortKey(q, b[k]), SortKey(q, b[j]))
    <2> SUFFICES ASSUME NEW j \in 1 .. n, NEW k \in 1 .. n, j < k
                 PROVE  ~Before(SortKey(q, b[k]), SortKey(q, b[j]))
      OBVIOUS
    <2>1. PICK x \in Int, y \in Int : x = b[k] /\ y = b[j] /\ x <= y
      BY <1>3
    <2> QED
      BY <1>6, <2>1
  <1>8. DOMAIN b = 1 .. n
    BY <1>3
  <1>9. b \in Orders(q, S)
    BY <1>1, <1>5, <1>7, <1>8 DEF Orders, InOrder
  <1>10. S \subseteq Items(q) /\ q.kind \in Kinds
    BY DEF Items, Kinds
  <1>11. SortKey(q, a[i]) = SortKey(q, b[i])
    BY <1>1, <1>9, <1>10, SameKeys
  <1>12. a[i] \in Int /\ b[i] = n - i + 1
    <2>1. PICK T : T = 1 .. n
      OBVIOUS
    <2>2. a \in [1 .. n -> T]
      BY <1>1, <2>1, OrderProperties
    <2> QED
      BY <1>3, <2>1, <2>2
  <1> QED
    BY <1>11, <1>12 DEF SortKey

LEMMA ConcatRange ==
  ASSUME NEW S, NEW s \in Seq(S), NEW t \in Seq(S)
  PROVE  Range(s) \subseteq Range(s \o t) /\ Range(t) \subseteq Range(s \o t)
  <1>1. PICK u : u = s \o t
    OBVIOUS
  <1>2. PICK m, n : m = Len(s) /\ n = Len(t)
    OBVIOUS
  <1>3. m \in Nat /\ n \in Nat /\ DOMAIN s = 1 .. m /\ DOMAIN t = 1 .. n
    BY <1>2
  <1>4. u \in Seq(S) /\ Len(u) = m + n
        /\ \A i \in 1 .. m + n : u[i] = IF i <= m THEN s[i] ELSE t[i - m]
    BY <1>1, <1>2, ConcatProperties
  <1>5. DOMAIN u = 1 .. m + n
    BY <1>4
  <1>6. ASSUME NEW i \in 1 .. m PROVE s[i] \in Range(u)
    <2>1. i \in 1 .. m + n /\ u[i] = s[i]
      BY <1>3, <1>4
    <2> QED
      BY <1>5, <2>1 DEF Range
  <1>7. ASSUME NEW i \in 1 .. n PROVE t[i] \in Range(u)
    <2>1. PICK k \in 1 .. m + n : k = m + i
      BY <1>3
    <2>2. u[k] = t[i]
      BY <1>3, <1>4, <2>1
    <2> QED
      BY <1>5, <2>2 DEF Range
  <1> QED
    BY <1>1, <1>3, <1>6, <1>7 DEF Range

\* One more page of a changelog of n versions.
LEMMA TrailMore ==
  ASSUME NEW q, q.kind = "versions", NEW n \in Nat, NEW rows \in Orders(q, 1 .. n),
         NEW o \in Nat, NEW l \in Nat, l >= 1, NEW got \in Seq(Nat), NEW page \in Seq(Nat),
         page = Page(rows, o, l),
         NEW x \in 1 .. n, x > n - o => x \in Range(got), x > n - (o + Len(page))
  PROVE  x \in Range(got \o page)
  <1>1. PICK S : S = 1 .. n
    OBVIOUS
  <1>2. IsFiniteSet(S) /\ Cardinality(S) = n
    BY <1>1, FS_Interval
  <1>3. IsPage(page, rows, o, l, n)
    BY <1>1, <1>2, OrderPage
  <1>4. PICK r \in Nat : r = Len(page)
    OBVIOUS
  <1>5. CASE x > n - o
    BY <1>5, ConcatRange
  <1>6. CASE ~(x > n - o)
    <2>1. PICK i \in 1 .. r : o + i = n - x + 1
      <3>1. n - x + 1 - o \in 1 .. r
        BY <1>4, <1>6
      <3> QED
        BY <3>1
    <2>2. page[i] = rows[o + i] /\ o + i \in 1 .. n
      BY <1>3, <1>4 DEF IsPage
    <2>3. PICK k \in 1 .. n : k = o + i
      BY <2>2
    <2>4. rows[k] = n - k + 1
      BY NewestFirst
    <2>5. page[i] = x
      BY <2>1, <2>2, <2>3, <2>4
    <2>6. x \in Range(page)
      BY <1>4, <2>5 DEF Range
    <2> QED
      BY <2>6, ConcatRange
  <1> QED
    BY <1>5, <1>6

\* A walk over a registry at rest keeps to its trail if the walk alone does.
LEMMA TrailRested ==
  ASSUME Unchanged, NEW u, walk' = u, Trail(u) PROVE Trail(walk)'
  BY DEF Unchanged, Trail, Live, SlotsOf, Present, Versions, Newest, Version, RowOf

LEMMA TrailSame ==
  ASSUME NEW w, NEW u, Trail(w), SameAim(w, u), u.got = w.got, u.offset = w.offset,
         w.pc \in {"hold", "count", "find"}, u.pc \in {"hold", "count", "find"}
  PROVE  Trail(u)
  BY DEF Trail, SameAim

LEMMA SetsTrail ==
  ASSUME RowsOK, NEW u, NEW q \in Queries, Sets(u, q) PROVE Trail(u)
  <1> SUFFICES ASSUME q.kind = "versions", NEW x \in Versions(q.id)
               PROVE  q.id < nextId /\ (Live(q.id) => ~(x > Newest(q.id) - u.offset))
    BY DEF Sets, Trail, Matching
  <1>1. Live(q.id)
    BY DEF Versions
  <1>2. q.id < nextId /\ Newest(q.id) \in Nat /\ Versions(q.id) = 1 .. Newest(q.id)
    BY <1>1, NewestOf
  <1>3. u.offset = 0
    BY DEF Sets
  <1> QED
    BY <1>2, <1>3

LEMMA FindTrail == ASSUME BaseInv, Trail(walk), Find PROVE Trail(walk)'
  <1>1. PICK w : w = walk /\ Shape(w) /\ Asked(w) /\ RowsOK /\ Trail(w)
    BY DEF BaseInv
  <1>2. PICK u, page, next : \E rows \in Orders(w.query, Matching(w.query)) :
            /\ walk' = u /\ u \in Walk /\ SameAim(w, u) /\ Unchanged
            /\ w.pc = "find" /\ u.total = w.total /\ u.limit = w.limit
            /\ page = Page(rows, w.offset, w.limit) /\ page \in Seq(Items(w.query))
            /\ next = IF w.single THEN NoToken ELSE NextToken(w.offset, Len(page), w.total)
            /\ u.got = w.got \o page
            /\ next = NoToken => u.pc = "done" /\ u.offset = w.offset
            /\ next # NoToken => u.pc = "hold" /\ u.offset = next
    BY <1>1, FindMoves
  <1>3. PICK rows \in Orders(w.query, Matching(w.query)) : page = Page(rows, w.offset, w.limit)
    BY <1>2
  <1>4. ASSUME w.query.kind = "versions", NEW x \in w.first, Live(w.query.id), ~w.split,
               u.pc = "done" \/ x > Newest(w.query.id) - u.offset
        PROVE  x \in Range(u.got)
    <2>1. PICK q, o, l, t, n : /\ q = w.query /\ o = w.offset /\ l = w.limit /\ t = w.total
                               /\ n = Newest(q.id)
      OBVIOUS
    <2>2. /\ q \in Query /\ o \in Nat /\ t \in Nat /\ l \in Nat /\ l >= 1
          /\ w.got \in Seq(Items(q)) /\ page \in Seq(Items(q)) /\ Items(q) = Nat
      BY <1>1, <1>2, <1>4, <2>1 DEF Shape, Walk, Items
    <2>3. n \in Nat /\ Matching(q) = 1 .. n
      BY <1>1, <1>4, <2>1, NewestOf DEF Matching
    <2>4. t = n
      <3>1. IsFiniteSet(1 .. n) /\ Cardinality(1 .. n) = n
        BY <2>3, FS_Interval
      <3> QED
        BY <1>1, <1>2, <1>4, <2>1, <2>3, <3>1 DEF Asked, Counts
    <2>5. x \in 1 .. n /\ (x > n - o => x \in Range(w.got))
      BY <1>1, <1>2, <1>4, <2>1, <2>3 DEF Trail, Matching
    <2>6. rows \in Orders(q, 1 .. n) /\ page = Page(rows, o, l)
      BY <1>3, <2>1, <2>3
    <2>7. PICK r \in Nat : r = Len(page)
      BY <2>2
    <2>8. ~w.single
      BY <1>1, <1>4 DEF Shape
    <2>9. next = NextToken(o, r, t)
      BY <1>2, <2>1, <2>7, <2>8
    <2>10. r = 0 => o >= n
      <3>1. PICK S : S = 1 .. n
        OBVIOUS
      <3>2. IsFiniteSet(S) /\ Cardinality(S) = n
        BY <2>3, <3>1, FS_Interval
      <3>3. IsPage(page, rows, o, l, n)
        BY <2>2, <2>6, <3>1, <3>2, OrderPage
      <3> QED
        BY <2>2, <2>3, <2>7, <3>3 DEF IsPage
    <2>11. x > n - (o + r)
      <3>1. CASE next = NoToken
        <4>1. r = 0 \/ o + r >= n
          BY <2>2, <2>4, <2>9, <3>1, NextTokenProperties
        <4>2. o + r >= n
          BY <2>2, <2>3, <2>10, <4>1
        <4> QED
          BY <2>2, <2>3, <2>5, <4>2
      <3>2. CASE next # NoToken
        <4>1. next \in 0 .. OffsetLimit - 1 /\ next <= o + r
          BY <2>2, <2>9, <3>2, NextTokenProperties
        <4>2. x > n - next
          BY <1>2, <1>4, <2>1, <3>2
        <4>3. OffsetLimit \in Nat
          BY ListingAssumption
        <4> QED
          BY <2>2, <2>3, <2>5, <4>1, <4>2, <4>3
      <3> QED
        BY <3>1, <3>2
    <2>12. q.kind = "versions" /\ w.got \in Seq(Nat) /\ page \in Seq(Nat)
      BY <1>4, <2>1, <2>2
    <2>13. x \in Range(w.got \o page)
      <3>1. PICK got : got = w.got
        OBVIOUS
      <3>2. got \in Seq(Nat) /\ (x > n - o => x \in Range(got)) /\ x > n - (o + Len(page))
        BY <2>5, <2>7, <2>11, <2>12, <3>1
      <3>3. x \in Range(got \o page)
        BY <2>2, <2>3, <2>5, <2>6, <2>12, <3>2, TrailMore
      <3> QED
        BY <3>1, <3>3
    <2> QED
      BY <1>2, <2>13
  <1>5. Trail(u)
    BY <1>1, <1>2, <1>4 DEF Trail, SameAim
  <1> QED
    BY <1>2, <1>5, TrailRested

LEMMA WriteTrail == ASSUME BaseInv, BaseInv', Trail(walk), Write PROVE Trail(walk)'
  <1>1. PICK w : w = walk /\ Shape(w) /\ Asked(w) /\ RowsOK /\ Trail(w)
    BY DEF BaseInv
  <1>2. PICK u : /\ walk' = u /\ u \in Walk /\ (u.split <=> w.split \/ w.pc = "find")
                 /\ u.query = w.query /\ u.first = w.first
                 /\ u.pc = w.pc /\ u.offset = w.offset /\ u.got = w.got
    BY <1>1, WriteMoves
  <1>3. RowsOK' /\ RowsKept
    BY <1>1, WriteMoves
  <1>4. nextId \in Nat /\ nextId' \in {nextId, nextId + 1}
    BY <1>1 DEF RowsOK, Write, StoreNext, Insert, Revise, SetStatus, Remove
  <1>5. ASSUME u.query.kind = "versions", u.pc # "idle", NEW x \in u.first
        PROVE  /\ u.query.id < nextId'
               /\ Live(u.query.id)' =>
                    /\ x \in Versions(u.query.id)'
                    /\ (~u.split /\ (u.pc = "done" \/ x > Newest(u.query.id)' - u.offset)) =>
                         x \in Range(u.got)
    <2>1. PICK i : i = w.query.id
      OBVIOUS
    <2>2. i \in Nat /\ i < nextId /\ i < nextId'
      <3>1. i < nextId
        BY <1>1, <1>2, <1>5, <2>1 DEF Trail
      <3>2. i \in Nat
        BY <1>1, <1>2, <1>5, <2>1 DEF Shape, Walk, Query
      <3> QED
        BY <1>4, <3>1, <3>2
    <2>3. ASSUME Live(i)'
          PROVE  /\ x \in Versions(i)'
                 /\ (~u.split /\ (u.pc = "done" \/ x > Newest(i)' - u.offset)) =>
                      x \in Range(u.got)
      <3>1. Live(i) /\ Newest(i)' \in {Newest(i), Newest(i) + 1} /\ Newest(i) \in Nat
        BY <1>1, <1>3, <2>2, <2>3, TrailKept
      <3>2. Versions(i) = 1 .. Newest(i)
        BY <1>1, <3>1, NewestOf
      <3>3. Versions(i)' = 1 .. Newest(i)'
        BY <2>3 DEF Versions, Newest
      <3>4. /\ x \in 1 .. Newest(i)
            /\ (~w.split /\ (w.pc = "done" \/ x > Newest(i) - w.offset)) => x \in Range(w.got)
        BY <1>1, <1>2, <1>5, <2>1, <3>1, <3>2 DEF Trail
      <3>5. PICK m, n : m = Newest(i) /\ n = Newest(i)'
        OBVIOUS
      <3>6. w.offset \in Nat
        BY <1>1 DEF Shape, Walk
      <3>7. x \in 1 .. n /\ (x > n - w.offset => x > m - w.offset)
        BY <3>1, <3>4, <3>5, <3>6
      <3> QED
        BY <1>2, <3>3, <3>4, <3>5, <3>7
    <2> QED
      BY <1>2, <2>1, <2>2, <2>3
  <1>6. Trail(walk)'
    BY <1>2, <1>5 DEF Trail
  <1> QED
    BY <1>6

LEMMA NextTrail ==
  ASSUME BaseInv, BaseInv', Trail(walk), [Next]_vars PROVE Trail(walk)'
  <1>1. PICK w : w = walk /\ Shape(w) /\ Asked(w) /\ RowsOK /\ Trail(w)
    BY DEF BaseInv
  <1>2. ASSUME NEW q \in Queries, Begin(q) PROVE Trail(walk)'
    <2>1. PICK u : walk' = u /\ Sets(u, q) /\ Unchanged
      BY <1>1, <1>2, BeginMoves
    <2>2. Trail(u)
      BY <1>1, <2>1, SetsTrail
    <2> QED
      BY <2>1, <2>2, TrailRested
  <1>3. ASSUME NEW v \in Vendors \cup {AnyVendor}, QuerySchemas(v) PROVE Trail(walk)'
    <2>1. PICK u : \E q \in Queries : walk' = u /\ Sets(u, q) /\ Unchanged
      BY <1>1, <1>3, SingleMoves
    <2>2. Trail(u)
      BY <1>1, <2>1, SetsTrail
    <2> QED
      BY <2>1, <2>2, TrailRested
  <1>4. ASSUME NEW size \in PageSizes, Request(size) PROVE Trail(walk)'
    <2>1. PICK u : /\ walk' = u /\ SameAim(w, u) /\ w.pc = "hold" /\ u.pc = "count"
                   /\ u.offset = w.offset /\ u.got = w.got /\ Unchanged
      BY <1>1, <1>4, RequestMoves
    <2>2. Trail(u)
      BY <1>1, <2>1, TrailSame
    <2> QED
      BY <2>1, <2>2, TrailRested
  <1>5. ASSUME Count PROVE Trail(walk)'
    <2>1. PICK u : /\ walk' = u /\ SameAim(w, u) /\ Unchanged /\ w.pc = "count"
                   /\ u.offset = w.offset /\ u.got = w.got
                   /\ w.query.kind = "models" \/ u.pc = "find"
      BY <1>1, <1>5, CountMoves
    <2>2. Trail(u)
      <3>1. CASE w.query.kind = "models"
        BY <2>1, <3>1 DEF Trail, SameAim
      <3>2. CASE u.pc = "find"
        BY <1>1, <2>1, <3>2, TrailSame
      <3> QED
        BY <2>1, <3>1, <3>2
    <2> QED
      BY <2>1, <2>2, TrailRested
  <1>6. ASSUME Fail PROVE Trail(walk)'
    <2>1. CASE walk' = NoWalk
      <3>1. NoWalk.pc = "idle"
        BY DEF NoWalk
      <3> QED
        BY <2>1, <3>1 DEF Trail
    <2>2. CASE \E u : /\ walk' = u /\ SameAim(w, u) /\ w.pc \in {"count", "find"} /\ u.pc = "hold"
                      /\ u.offset = w.offset /\ u.got = w.got
      <3>1. PICK u : /\ walk' = u /\ SameAim(w, u) /\ w.pc \in {"count", "find"} /\ u.pc = "hold"
                     /\ u.offset = w.offset /\ u.got = w.got
        BY <2>2
      <3>2. Trail(u) /\ Unchanged
        BY <1>1, <1>6, <3>1, TrailSame, FailMoves
      <3> QED
        BY <3>1, <3>2, TrailRested
    <2> QED
      BY <1>1, <1>6, <2>1, <2>2, FailMoves
  <1>7. CASE UNCHANGED vars
    BY <1>1, <1>7, TrailRested DEF vars, Unchanged
  <1>8. ASSUME Next PROVE Trail(walk)'
    <2>1. \A v \in Vendors \cup {AnyVendor} :
            [kind |-> "schemas", vendor |-> v, status |-> "verified"] \in Queries
      BY DEF Queries, Statuses
    <2>2. \A st \in Statuses \cup {"any"} :
            [kind |-> "schemas", vendor |-> AnyVendor, status |-> st] \in Queries
      BY DEF Queries
    <2>3. \A id \in 1 .. nextId : [kind |-> "versions", id |-> id] \in Queries
      BY DEF Queries
    <2>4. \A v \in Vendors : [kind |-> "models", vendor |-> v] \in Queries
      BY DEF Queries
    <2> QED
      BY <1>2, <1>3, <1>4, <1>5, <1>6, <1>8, <2>1, <2>2, <2>3, <2>4, FindTrail, WriteTrail
      DEF Next, SearchSchemas, ListSchemas, ListSchemaVersions, ListVendorModels
  <1> QED
    BY <1>7, <1>8

\* However often the row is upserted, verified or rejected between two pages, and
\* whichever sizes the client asks for: a walk along the changelog of a row that is
\* still there has met every version there was when it began.
THEOREM ChangelogWalksMissNothing == Spec => []ChangelogWalkMissesNothing
  <1>1. Init => Trail(walk)
    BY DEF Init, NoWalk, Trail
  <1>2. BaseInv /\ BaseInv' /\ Trail(walk) /\ [Next]_vars => Trail(walk)'
    BY NextTrail
  <1>3. Trail(walk) => ChangelogWalkMissesNothing
    BY DEF Trail, ChangelogWalkMissesNothing
  <1> QED
    BY <1>1, <1>2, <1>3, AlwaysBase, PTL DEF Spec
================================================================================

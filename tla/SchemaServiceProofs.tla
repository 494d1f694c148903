-------------------------- MODULE SchemaServiceProofs --------------------------
(***************************************************************************)
(* Proofs about SchemaService for every set of slots, documents and        *)
(* callers, and with any faults: what is cached, held or returned is a     *)
(* genuine version of the row it names, and answers the lookup it is held  *)
(* for.  A copy is genuine for good because the store never takes a row's  *)
(* history back and never hands out an id twice (StoreInv); the rest of    *)
(* IInv says where a call may have a copy in hand, so that the slot it was *)
(* looked up for is still the one the frame names.                         *)
(***************************************************************************)
EXTENDS SchemaService, TLAPS

\* Ids in use have been handed out, each to one row, and a row has a content.
StoreInv ==
  /\ StoreTypeOK
  /\ nextId \in Nat \ {0}
  /\ \A s \in Slots : Present(s) => store[s].id < nextId /\ Len(store[s].history) > 0
  /\ \A s, t \in Slots : (Present(s) /\ Present(t) /\ store[s].id = store[t].id) => s = t

Good(c) == c \in Copy /\ Authentic(c) /\ c.status = "verified"

Answering(c, s) == KeysDistinct => c.slot \in {s, Generic(s)}

\* A copy that may be held for s: none, or a good one that answers it.
Held(c, s) == c # NoEntry => Good(c) /\ Answering(c, s)

PairPcs == {"addreq", "addresp", "undo", "undoevict", "delreq", "delreqevict", "delresp",
            "delrespevict", "evictreq", "evictresp"}

FrameOK(f) ==
  /\ f \in Frame
  /\ Held(f.copy, f.slot)
  /\ f.pc \notin {"idle", "fill", "archived"} => f.copy = NoEntry
  /\ f.pc \in {"fill", "archived"} => f.copy # NoEntry
  /\ f.pc \in PairPcs => f.slot \in PairSlots

IInv ==
  /\ StoreInv
  /\ cache \in [Keys -> Copy \cup {NoEntry}]
  /\ \A s \in Slots : Held(cache[CacheKey(s)], s)
  /\ frame \in [Procs -> Frame]
  /\ \A p \in Procs : FrameOK(frame[p])
  /\ writes \in 0 .. MaxWrites

-----------------------------------------------------------------------------
(* The store. *)

\* What a call to the repository may do to it.
StoreStep ==
  \/ \E s \in Slots, d \in Docs : Insert(s, d) \/ Revise(s, d)
  \/ \E s \in Slots : Remove(s)
  \/ \E i \in Nat, st \in Statuses : SetStatus(i, st)
  \/ NoWrite

LEMMA InitStore == StoreInit => StoreInv
  BY SlotsAssumption, SeedAssumption, NoRowAssumption
  DEF StoreInit, StoreInv, StoreTypeOK, Present, Row, Statuses

LEMMA InsertStep ==
  ASSUME StoreInv, NEW s \in Slots, NEW d \in Docs, Insert(s, d)
  PROVE  /\ StoreInv'
         /\ \A c \in Copy : Authentic(c) => Authentic(c)'
  <1> DEFINE r == NewRow(d)
  <1>1. r.id = nextId /\ r.history = <<d>> /\ r.status = "submitted"
    BY DEF NewRow
  <1>2. <<d>> \in Seq(Docs) /\ Len(<<d>>) = 1
    OBVIOUS
  <1>3. r \in Row
    BY <1>2 DEF NewRow, Row, Statuses, StoreInv
  <1>4. /\ store' = [store EXCEPT ![s] = r] /\ ~Present(s)
        /\ nextId' = nextId + 1
    BY DEF Insert
  <1>5. r # NoRow
    BY <1>3, NoRowAssumption
  <1> HIDE DEF r
  <1>6. ASSUME NEW t \in Slots, Present(t)'
        PROVE  /\ store'[t] \in Row /\ Len(store'[t].history) > 0
               /\ t = s => store'[t].id = nextId
               /\ t # s => store'[t] = store[t] /\ Present(t) /\ store'[t].id < nextId
    <2>1. CASE t = s
      <3>1. store'[t] = r
        BY <2>1, <1>4 DEF StoreInv, StoreTypeOK
      <3> QED
        BY <2>1, <3>1, <1>1, <1>2, <1>3
    <2>2. CASE t # s
      <3>1. store'[t] = store[t]
        BY <2>2, <1>4 DEF StoreInv, StoreTypeOK
      <3> QED
        BY <2>2, <3>1, <1>6 DEF StoreInv, StoreTypeOK, Present
    <2> QED
      BY <2>1, <2>2
  <1>7. StoreInv'
    <2>1. StoreTypeOK' /\ nextId' \in Nat \ {0}
      BY <1>3, <1>4 DEF StoreInv, StoreTypeOK
    <2>2. \A t \in Slots : Present(t)' => store'[t].id < nextId' /\ Len(store'[t].history) > 0
      BY <1>4, <1>6 DEF StoreInv, Row
    <2>3. \A t, u \in Slots :
            (Present(t)' /\ Present(u)' /\ store'[t].id = store'[u].id) => t = u
      BY <1>6 DEF StoreInv
    <2> QED
      BY <2>1, <2>2, <2>3 DEF StoreInv
  <1>8. ASSUME NEW c \in Copy, Authentic(c) PROVE Authentic(c)'
    <2>1. c.id < nextId /\ c.id < nextId'
      BY <1>4, <1>8 DEF Authentic, Copy, StoreInv
    <2>2. \A t \in SlotsOf(c.id)' : t \in SlotsOf(c.id) /\ store'[t] = store[t]
      BY <2>1, <1>6 DEF SlotsOf, Copy, StoreInv
    <2> QED
      BY <1>8, <2>1, <2>2 DEF Authentic, Version
  <1> QED
    BY <1>7, <1>8

LEMMA ReviseStep ==
  ASSUME StoreInv, NEW s \in Slots, NEW d \in Docs, Revise(s, d)
  PROVE  /\ StoreInv'
         /\ \A c \in Copy : Authentic(c) => Authentic(c)'
  <1> DEFINE r == Revised(store[s], d)
  <1>1. store[s] \in Row /\ store[s] # NoRow
    BY DEF Revise, Present, StoreInv, StoreTypeOK
  <1> DEFINE h == store[s].history
  <1>a. h \in Seq(Docs)
    BY <1>1 DEF Row
  <1>b. /\ Append(h, d) \in Seq(Docs) /\ Len(Append(h, d)) = Len(h) + 1
        /\ \A i \in 1 .. Len(h) : Append(h, d)[i] = h[i]
    BY <1>a
  <1>c. r = [store[s] EXCEPT !.history = Append(h, d)]
    BY DEF Revised
  <1>2. /\ r \in Row /\ r # NoRow
        /\ r.id = store[s].id
        /\ Len(r.history) = Len(store[s].history) + 1
        /\ \A i \in 1 .. Len(store[s].history) : r.history[i] = store[s].history[i]
    BY <1>1, <1>b, <1>c, NoRowAssumption DEF Row
  <1>3. store' = [store EXCEPT ![s] = r] /\ nextId' = nextId
    BY DEF Revise
  <1> HIDE DEF r
  <1>4. StoreInv'
    BY <1>1, <1>2, <1>3 DEF StoreInv, StoreTypeOK, Present
  <1>5. ASSUME NEW c \in Copy, Authentic(c) PROVE Authentic(c)'
    <2>1. SlotsOf(c.id)' = SlotsOf(c.id)
      BY <1>1, <1>2, <1>3 DEF SlotsOf, Present, StoreInv, StoreTypeOK
    <2>2. \A t \in SlotsOf(c.id) : store[t] \in Row
      BY DEF SlotsOf, Present, StoreInv, StoreTypeOK
    <2>3. \A t \in SlotsOf(c.id) :
            /\ Len(store'[t].history) \in Nat /\ Len(store'[t].history) >= Len(store[t].history)
            /\ \A i \in 1 .. Len(store[t].history) : store'[t].history[i] = store[t].history[i]
      BY <1>1, <1>2, <1>3, <2>2 DEF SlotsOf, StoreInv, StoreTypeOK, Row
    <2> QED
      BY <1>3, <1>5, <2>1, <2>2, <2>3 DEF Authentic, Version, Row, Copy
  <1> QED
    BY <1>4, <1>5

LEMMA SetStatusStep ==
  ASSUME StoreInv, NEW i \in Nat, NEW st \in Statuses, SetStatus(i, st)
  PROVE  /\ StoreInv'
         /\ \A c \in Copy : Authentic(c) => Authentic(c)'
  <1> DEFINE row(s) == IF s \in SlotsOf(i) THEN [store[s] EXCEPT !.status = st] ELSE store[s]
  <1>1. store' = [s \in Slots |-> row(s)] /\ nextId' = nextId
    BY DEF SetStatus
  <1>2. \A s \in Slots : /\ row(s) \in Row \cup {NoRow}
                         /\ (row(s) # NoRow) = Present(s)
                         /\ Present(s) => /\ row(s).id = store[s].id
                                          /\ row(s).history = store[s].history
    BY NoRowAssumption DEF StoreInv, StoreTypeOK, Row, SlotsOf, Present
  <1> HIDE DEF row
  <1>3. StoreInv'
    BY <1>1, <1>2 DEF StoreInv, StoreTypeOK, Present
  <1>4. ASSUME NEW c \in Copy, Authentic(c) PROVE Authentic(c)'
    <2>1. SlotsOf(c.id)' = SlotsOf(c.id)
      BY <1>1, <1>2 DEF SlotsOf, Present
    <2>2. \A t \in SlotsOf(c.id) : store'[t].history = store[t].history
      BY <1>1, <1>2 DEF SlotsOf
    <2> QED
      BY <1>1, <1>4, <2>1, <2>2 DEF Authentic, Version
  <1> QED
    BY <1>3, <1>4

LEMMA RemoveStep ==
  ASSUME StoreInv, NEW s \in Slots, Remove(s)
  PROVE  /\ StoreInv'
         /\ \A c \in Copy : Authentic(c) => Authentic(c)'
  <1>1. store' = [store EXCEPT ![s] = NoRow] /\ nextId' = nextId
    BY DEF Remove
  <1>2. StoreInv'
    BY <1>1 DEF StoreInv, StoreTypeOK, Present
  <1>3. ASSUME NEW c \in Copy, Authentic(c) PROVE Authentic(c)'
    <2>1. SlotsOf(c.id)' \subseteq SlotsOf(c.id)
      BY <1>1 DEF SlotsOf, Present, StoreInv, StoreTypeOK
    <2>2. \A t \in SlotsOf(c.id)' : store'[t] = store[t]
      BY <1>1 DEF SlotsOf, Present, StoreInv, StoreTypeOK
    <2> QED
      BY <1>1, <1>3, <2>1, <2>2 DEF Authentic, Version
  <1> QED
    BY <1>2, <1>3

\* Whatever the repository does, the store stays well-formed and copies stay genuine.
LEMMA StoreKeeps ==
  ASSUME StoreInv, StoreStep
  PROVE  StoreInv' /\ \A c \in Copy : Authentic(c) => Authentic(c)'
  <1>1. CASE NoWrite
    BY <1>1 DEF NoWrite, StoreInv, StoreTypeOK, Present, Authentic, SlotsOf, Version
  <1> QED
    BY <1>1, InsertStep, ReviseStep, RemoveStep, SetStatusStep DEF StoreStep

\* The copy of a verified row is a good one.
LEMMA CopyGood ==
  ASSUME StoreInv, NEW s \in Slots, Verified(s)
  PROVE  Good(CopyOf(s)) /\ CopyOf(s).slot = s /\ CopyOf(s) # NoEntry
  <1>1. store[s] \in Row /\ Present(s) /\ store[s].status = "verified"
    BY DEF Verified, Present, StoreInv, StoreTypeOK
  <1>2. /\ Len(store[s].history) \in Nat \ {0}
        /\ store[s].history[Len(store[s].history)] \in Docs
    BY <1>1 DEF StoreInv, Row
  <1>3. CopyOf(s) \in Copy /\ CopyOf(s).slot = s /\ CopyOf(s).status = "verified"
    BY <1>1, <1>2 DEF CopyOf, Copy, Row, Version, Content
  <1>4. /\ CopyOf(s).id = store[s].id /\ CopyOf(s).version = Len(store[s].history)
        /\ CopyOf(s).doc = store[s].history[Len(store[s].history)]
    BY DEF CopyOf, Version, Content
  <1>5. SlotsOf(store[s].id) = {s}
    BY <1>1 DEF SlotsOf, StoreInv
  <1>6. Authentic(CopyOf(s))
    BY <1>1, <1>2, <1>3, <1>4, <1>5 DEF Authentic, StoreInv, Version
  <1> QED
    BY <1>3, <1>6, NoEntryAssumption DEF Good

\* So is an archived version of a good copy whose row is still there.
LEMMA ArchivedGood ==
  ASSUME StoreInv, NEW c \in Copy, Good(c), NEW v \in Nat, HasVersion(c.id, v)
  PROVE  Good(Archived(c, v)) /\ Archived(c, v).slot = c.slot /\ Archived(c, v) # NoEntry
  <1>1. PICK s \in SlotsOf(c.id) : v \in 1 .. Version(store[s])
    BY DEF HasVersion
  <1>2. SlotsOf(c.id) = {s} /\ s \in Slots /\ store[s] \in Row
    BY <1>1 DEF SlotsOf, StoreInv, StoreTypeOK, Present
  <1>3. RowOf(c.id) = store[s]
    BY <1>2 DEF RowOf
  <1>4. store[s].history[v] \in Docs /\ v \in 1 .. Len(store[s].history)
    BY <1>1, <1>2 DEF Version, Row
  <1>5. Archived(c, v) = [c EXCEPT !.version = v, !.doc = store[s].history[v]]
    BY <1>3 DEF Archived
  <1>6. /\ Archived(c, v) \in Copy /\ Archived(c, v).slot = c.slot
        /\ Archived(c, v).status = "verified" /\ Archived(c, v).id = c.id
        /\ Archived(c, v).version = v /\ Archived(c, v).doc = store[s].history[v]
    BY <1>4, <1>5 DEF Copy, Good
  <1> HIDE DEF Archived
  <1>7. Authentic(Archived(c, v))
    BY <1>2, <1>4, <1>6 DEF Authentic, Good, Version
  <1> QED
    BY <1>6, <1>7, NoEntryAssumption DEF Good
-----------------------------------------------------------------------------
(* Frames and entries. *)

CacheOK ==
  /\ cache \in [Keys -> Copy \cup {NoEntry}]
  /\ \A s \in Slots : Held(cache[CacheKey(s)], s)

LEMMA BlankTyped == Blank \in Frame
  <1>1. AnySlot \in Slots /\ AnyDoc \in Docs
    BY SlotsAssumption, DocsAssumption DEF AnySlot, AnyDoc
  <1> QED
    BY <1>1 DEF Blank, Frame, Pcs, Statuses, Outcomes

LEMMA GenericSlot == \A s \in Slots : Generic(s) \in Slots
  BY LookupAssumption

\* Both slots of a pair are slots.
LEMMA PairHalves == \A s \in PairSlots : s \in Slots /\ ReqSlot(s) \in Slots /\ RespSlot(s) \in Slots
  <1> SUFFICES ASSUME NEW s \in PairSlots PROVE s \in Slots /\ ReqSlot(s) \in Slots /\ RespSlot(s) \in Slots
    OBVIOUS
  <1>1. s \in Slots /\ s.msgType = Request /\ RespSlot(s) \in Slots
    BY DEF PairSlots
  <1>2. s = [version |-> s.version, action |-> s.action, msgType |-> s.msgType,
             vendor |-> s.vendor, model |-> s.model]
    BY <1>1, LookupAssumption
  <1>3. ReqSlot(s) = s
    BY <1>1, <1>2 DEF ReqSlot
  <1> QED
    BY <1>1, <1>3

\* What was held before a step of the store is held after it.
LEMMA HeldKept ==
  ASSUME StoreInv, StoreStep, NEW c \in Copy \cup {NoEntry}, NEW s, Held(c, s)
  PROVE  Held(c, s)'
  BY StoreKeeps DEF Held, Good, Answering, KeysDistinct

\* Entries that may be held before a step of the store may be held after it.
LEMMA CacheHeld ==
  ASSUME IInv, StoreStep, cache' \in [Keys -> Copy \cup {NoEntry}],
         \A s \in Slots : Held(cache'[CacheKey(s)], s)
  PROVE  CacheOK'
  <1>1. ASSUME NEW s \in Slots PROVE Held(cache[CacheKey(s)], s)'
    <2>1. PICK c \in Copy \cup {NoEntry} : c = cache'[CacheKey(s)] /\ Held(c, s)
      BY DEF Keys
    <2>2. Held(c, s)'
      BY <2>1, HeldKept DEF IInv
    <2> QED
      BY <2>1, <2>2 DEF Held, Good, Answering
  <1> QED
    BY <1>1 DEF CacheOK

LEMMA CacheKept == ASSUME IInv, StoreStep, UNCHANGED cache PROVE CacheOK'
  BY CacheHeld DEF IInv

\* One process moves, the store takes one step at most.
LEMMA FrameStep ==
  ASSUME IInv, StoreStep, CacheOK', NEW p \in Procs, NEW u, FrameOK(u)',
         frame' = [frame EXCEPT ![p] = u], writes' \in 0 .. MaxWrites
  PROVE  IInv'
  <1>1. StoreInv'
    BY StoreKeeps DEF IInv
  <1>2. frame' \in [Procs -> Frame]
    BY DEF FrameOK, IInv
  <1>3. ASSUME NEW q \in Procs PROVE FrameOK(frame[q])'
    <2>1. CASE q = p
      BY <2>1 DEF IInv
    <2>2. CASE q # p
      <3> DEFINE f == frame[q]
      <3>1. f \in Frame /\ FrameOK(f) /\ frame'[q] = f
        BY <2>2 DEF IInv
      <3>2. f.copy \in Copy \cup {NoEntry}
        BY <3>1 DEF Frame
      <3>3. PICK c \in Copy \cup {NoEntry}, s \in Slots : c = f.copy /\ s = f.slot /\ Held(c, s)
        BY <3>1, <3>2 DEF Frame, FrameOK
      <3>4. Held(c, s)'
        BY <3>3, HeldKept DEF IInv
      <3> QED
        BY <3>1, <3>3, <3>4 DEF FrameOK, Held, Good, Answering, Authentic, SlotsOf, Present
    <2> QED
      BY <2>1, <2>2
  <1> QED
    BY <1>1, <1>2, <1>3 DEF IInv, CacheOK

\* A frame without a copy.
LEMMA EmptyHanded ==
  ASSUME NEW f \in Frame, f.copy = NoEntry, f.pc \notin {"fill", "archived"},
         f.pc \in PairPcs => f.slot \in PairSlots
  PROVE  FrameOK(f)'
  BY DEF FrameOK, Held

\* A call that returns.
LEMMA ResultOK ==
  ASSUME NEW f \in Frame, NEW c \in Copy \cup {NoEntry}, Held(c, f.slot)',
         NEW outcome \in Outcomes
  PROVE  FrameOK(Result(f, c, outcome))'
  <1>1. PICK u : u = Result(f, c, outcome)
    OBVIOUS
  <1>2. u \in Frame /\ u.copy = c /\ u.slot = f.slot /\ u.pc = "idle"
    BY <1>1, BlankTyped DEF Result, Frame, Blank, Pcs
  <1>3. FrameOK(u)'
    BY <1>2 DEF FrameOK, PairPcs
  <1> QED
    BY <1>1, <1>3 DEF Result, Blank

\* A call begins.
LEMMA StartKeeps ==
  ASSUME IInv, NEW p \in Procs, NEW op \in Reads \cup Writes, NEW f \in Frame,
         f.copy = NoEntry, f.pc \notin {"fill", "archived"},
         f.pc \in PairPcs => f.slot \in PairSlots,
         Start(p, op, f)
  PROVE  IInv'
  <1> DEFINE u == [f EXCEPT !.op = op]
  <1>1. u \in Frame /\ u.copy = f.copy /\ u.pc = f.pc /\ u.slot = f.slot
    BY DEF Frame
  <1>2. frame' = [frame EXCEPT ![p] = u]
    BY DEF Start
  <1> HIDE DEF u
  <1>3. FrameOK(u)'
    BY <1>1, EmptyHanded
  <1>4. writes' \in 0 .. MaxWrites
    BY ServiceAssumption DEF Start, IInv
  <1>5. StoreStep /\ UNCHANGED cache
    BY DEF Start, StoreStep, NoWrite
  <1> QED
    BY <1>2, <1>3, <1>4, <1>5, CacheKept, FrameStep

\* What IInv says of one call.
LEMMA FrameOf ==
  ASSUME IInv, NEW p \in Procs
  PROVE  /\ frame \in [Procs -> Frame] /\ frame[p] \in Frame /\ FrameOK(frame[p])
         /\ frame[p].slot \in Slots /\ frame[p].copy \in Copy \cup {NoEntry}
         /\ Held(frame[p].copy, frame[p].slot)
  BY DEF IInv, FrameOK, Frame

\* A call goes on without a copy.
LEMMA Moved ==
  ASSUME IInv, StoreStep, CacheOK', UNCHANGED writes, NEW p \in Procs,
         NEW u \in Frame, u.copy = NoEntry, u.pc \notin {"fill", "archived"},
         u.pc \in PairPcs => u.slot \in PairSlots,
         frame' = [frame EXCEPT ![p] = u]
  PROVE  IInv'
  BY EmptyHanded, FrameStep DEF IInv

LEMMA WentTo ==
  ASSUME IInv, StoreStep, CacheOK', UNCHANGED writes, NEW p \in Procs,
         frame[p].copy = NoEntry, NEW pc \in Pcs \ {"fill", "archived"},
         pc \in PairPcs => frame[p].slot \in PairSlots, Goto(p, pc)
  PROVE  IInv'
  <1>1. PICK f \in Frame : f = frame[p]
    BY FrameOf
  <1>2. PICK u : u = [f EXCEPT !.pc = pc]
    OBVIOUS
  <1>3. u \in Frame /\ u.pc = pc /\ u.copy = f.copy /\ u.slot = f.slot
    BY <1>2 DEF Frame
  <1>4. frame' = [frame EXCEPT ![p] = u]
    BY <1>1, <1>2, FrameOf DEF Goto
  <1> QED
    BY <1>1, <1>3, <1>4, Moved

\* A call returns a copy, or nothing.
LEMMA Returned ==
  ASSUME IInv, StoreStep, CacheOK', UNCHANGED writes, NEW p \in Procs,
         NEW c \in Copy \cup {NoEntry}, Held(c, frame[p].slot), NEW o \in Outcomes,
         frame' = [frame EXCEPT ![p] = Result(frame[p], c, o)]
  PROVE  IInv'
  <1>1. PICK f \in Frame : f = frame[p]
    BY FrameOf
  <1>2. Held(c, f.slot)'
    BY <1>1, HeldKept DEF IInv
  <1>3. PICK u : u = Result(f, c, o)
    OBVIOUS
  <1>4. FrameOK(u)'
    BY <1>2, <1>3, ResultOK DEF Result, Blank
  <1> QED
    BY <1>1, <1>3, <1>4, FrameStep DEF IInv

LEMMA ReturnedEmpty ==
  ASSUME IInv, StoreStep, CacheOK', UNCHANGED writes, NEW p \in Procs,
         NEW o \in Outcomes, Return(p, o)
  PROVE  IInv'
  <1>1. frame' = [frame EXCEPT ![p] = Result(frame[p], NoEntry, o)]
    BY FrameOf DEF Return
  <1>2. Held(NoEntry, frame[p].slot)
    BY DEF Held
  <1> QED
    BY <1>1, <1>2, Returned

\* Get has found a schema.
LEMMA FoundKeeps ==
  ASSUME IInv, StoreStep, CacheOK', UNCHANGED writes, NEW p \in Procs,
         NEW c \in Copy, Held(c, frame[p].slot), Found(p, c)
  PROVE  IInv'
  <1>1. PICK f \in Frame : f = frame[p]
    BY FrameOf
  <1>2. CASE f.op = "GetVersion" /\ c.version # f.ver
    <2>1. PICK u : u = [f EXCEPT !.pc = "archived", !.copy = c]
      OBVIOUS
    <2>2. u \in Frame /\ u.pc = "archived" /\ u.copy = c /\ u.slot = f.slot
      BY <2>1 DEF Frame, Pcs
    <2>3. Held(c, f.slot)'
      BY <1>1, HeldKept DEF IInv
    <2>4. FrameOK(u)'
      BY <2>2, <2>3, NoEntryAssumption DEF FrameOK, PairPcs
    <2>5. frame' = [frame EXCEPT ![p] = u]
      BY <1>1, <1>2, <2>1, FrameOf DEF Found
    <2> QED
      BY <2>4, <2>5, FrameStep DEF IInv
  <1>3. CASE ~(f.op = "GetVersion" /\ c.version # f.ver)
    <2>1. frame' = [frame EXCEPT ![p] = Result(frame[p], c, "ok")]
      BY <1>1, <1>3, FrameOf DEF Found, ReturnCopy
    <2> QED
      BY <2>1, Returned DEF Outcomes
  <1> QED
    BY <1>2, <1>3

-----------------------------------------------------------------------------
(* The calls to repository and cache. *)

LEMMA EvictionKeeps ==
  ASSUME IInv, NoWrite, NEW k, EvictKey(k)
  PROVE  StoreStep /\ CacheOK'
  <1>1. StoreStep
    BY DEF StoreStep
  <1>2. CASE UNCHANGED cache
    BY <1>1, <1>2, CacheKept
  <1>3. CASE cache' = [cache EXCEPT ![k] = NoEntry]
    <2>1. cache' \in [Keys -> Copy \cup {NoEntry}]
      BY <1>3 DEF IInv
    <2>2. ASSUME NEW s \in Slots PROVE Held(cache'[CacheKey(s)], s)
      BY <1>3 DEF Held, IInv, Keys
    <2> QED
      BY <1>1, <2>1, <2>2, CacheHeld
  <1> QED
    BY <1>2, <1>3 DEF EvictKey

LEMMA AddOneStep ==
  ASSUME NEW s \in Slots, NEW d \in Docs, NEW o, AddOne(s, d, o)
  PROVE  StoreStep
  BY DEF AddOne, StoreStep

LEMMA DeleteRowStep ==
  ASSUME NEW s \in Slots, NEW o, DeleteRow(s, o)
  PROVE  StoreStep
  BY DEF DeleteRow, StoreStep

LEMMA UpsertRowStep ==
  ASSUME NEW s \in Slots, NEW d \in Docs, UpsertRow(s, d)
  PROVE  StoreStep
  BY DEF UpsertRow, StoreStep

LEMMA CacheGetKeeps == ASSUME IInv, NEW p \in Procs, CacheGet(p) PROVE IInv'
  <1> DEFINE hit == cache[CacheKey(frame[p].slot)]
  <1>1. StoreStep /\ CacheOK' /\ UNCHANGED writes
    BY CacheKept DEF CacheGet, StoreStep, NoWrite
  <1>2. frame[p].copy = NoEntry
    BY FrameOf DEF CacheGet, At, FrameOK
  <1>3. hit \in Copy \cup {NoEntry} /\ Held(hit, frame[p].slot)
    BY FrameOf DEF IInv, Keys
  <1>4. CASE hit # NoEntry /\ Found(p, hit)
    BY <1>1, <1>3, <1>4, FoundKeeps
  <1>5. CASE Goto(p, Query(frame[p].slot))
    BY <1>1, <1>2, <1>5, WentTo DEF Query, Pcs, PairPcs
  <1>6. CASE Return(p, "error")
    BY <1>1, <1>6, ReturnedEmpty DEF Outcomes
  <1> QED
    BY <1>4, <1>5, <1>6 DEF CacheGet

\* A query that finds a row of the lookup, or its generic one.
LEMMA RowFound ==
  ASSUME IInv, NEW p \in Procs, NEW s \in Slots, s \in {frame[p].slot, Generic(frame[p].slot)},
         Verified(s), StoreStep, CacheOK', UNCHANGED writes,
         frame' = [frame EXCEPT ![p].pc = "fill", ![p].copy = CopyOf(s)]
  PROVE  IInv'
  <1>1. PICK f \in Frame : f = frame[p]
    BY FrameOf
  <1>2. PICK c : c = CopyOf(s)
    OBVIOUS
  <1>3. c \in Copy /\ c # NoEntry /\ Held(c, f.slot)
    BY <1>1, <1>2, CopyGood DEF IInv, Held, Good, Answering
  <1>4. PICK u : u = [f EXCEPT !.pc = "fill", !.copy = c]
    OBVIOUS
  <1>5. u \in Frame /\ u.pc = "fill" /\ u.copy = c /\ u.slot = f.slot
    BY <1>3, <1>4 DEF Frame, Pcs
  <1>6. Held(c, f.slot)'
    BY <1>3, HeldKept DEF IInv
  <1>7. FrameOK(u)'
    BY <1>3, <1>5, <1>6 DEF FrameOK, PairPcs
  <1>8. frame' = [frame EXCEPT ![p] = u]
    BY <1>1, <1>2, <1>4, FrameOf
  <1> QED
    BY <1>7, <1>8, FrameStep DEF IInv

LEMMA QuerySpecificKeeps == ASSUME IInv, NEW p \in Procs, QuerySpecific(p) PROVE IInv'
  <1>1. StoreStep /\ CacheOK' /\ UNCHANGED writes
    BY CacheKept DEF QuerySpecific, QueryRow, StoreStep, NoWrite
  <1>2. frame[p].copy = NoEntry
    BY FrameOf DEF QuerySpecific, At, FrameOK
  <1>3. CASE /\ Verified(frame[p].slot)
             /\ frame' = [frame EXCEPT ![p].pc = "fill", ![p].copy = CopyOf(frame[p].slot)]
    BY <1>1, <1>3, FrameOf, RowFound
  <1>4. CASE Goto(p, "generic")
    BY <1>1, <1>2, <1>4, WentTo DEF Pcs, PairPcs
  <1>5. CASE Return(p, "error")
    BY <1>1, <1>5, ReturnedEmpty DEF Outcomes
  <1> QED
    BY <1>3, <1>4, <1>5 DEF QuerySpecific, QueryRow

LEMMA QueryGenericKeeps == ASSUME IInv, NEW p \in Procs, QueryGeneric(p) PROVE IInv'
  <1> DEFINE g == Generic(frame[p].slot)
  <1>1. StoreStep /\ CacheOK' /\ UNCHANGED writes
    BY CacheKept DEF QueryGeneric, QueryRow, StoreStep, NoWrite
  <1>2. CASE Verified(g) /\ frame' = [frame EXCEPT ![p].pc = "fill", ![p].copy = CopyOf(g)]
    BY <1>1, <1>2, FrameOf, GenericSlot, RowFound
  <1>3. CASE Return(p, "not_found")
    BY <1>1, <1>3, ReturnedEmpty DEF Outcomes
  <1>4. CASE Return(p, "error")
    BY <1>1, <1>4, ReturnedEmpty DEF Outcomes
  <1> QED
    BY <1>2, <1>3, <1>4 DEF QueryGeneric, QueryRow

LEMMA FillKeeps == ASSUME IInv, NEW p \in Procs, Fill(p) PROVE IInv'
  <1>1. PICK c : c = frame[p].copy
    OBVIOUS
  <1>2. c \in Copy /\ Held(c, frame[p].slot) /\ frame[p].slot \in Slots
    BY <1>1, FrameOf DEF Fill, At, FrameOK
  <1>3. StoreStep /\ UNCHANGED writes
    BY DEF Fill, StoreStep, NoWrite
  <1>4. CacheOK'
    <2>1. CASE UNCHANGED cache
      BY <1>3, <2>1, CacheKept
    <2>2. CASE cache' = [cache EXCEPT ![CacheKey(frame[p].slot)] = frame[p].copy]
      <3>1. cache' \in [Keys -> Copy \cup {NoEntry}]
        BY <1>1, <1>2, <2>2 DEF IInv, Keys
      <3>2. ASSUME NEW s \in Slots PROVE Held(cache'[CacheKey(s)], s)
        <4>1. CASE CacheKey(s) = CacheKey(frame[p].slot)
          <5>1. cache'[CacheKey(s)] = c
            BY <1>1, <2>2, <4>1 DEF IInv, Keys
          <5>2. Held(c, s)
            BY <1>2, <4>1 DEF Held, Answering, KeysDistinct
          <5> QED
            BY <5>1, <5>2
        <4>2. CASE CacheKey(s) # CacheKey(frame[p].slot)
          <5>1. cache'[CacheKey(s)] = cache[CacheKey(s)]
            BY <2>2, <4>2 DEF IInv, Keys
          <5> QED
            BY <5>1 DEF IInv
        <4> QED
          BY <4>1, <4>2
      <3> QED
        BY <1>3, <3>1, <3>2, CacheHeld
    <2> QED
      BY <2>1, <2>2 DEF Fill
  <1> QED
    BY <1>1, <1>2, <1>3, <1>4, FoundKeeps DEF Fill

LEMMA QueryVersionKeeps == ASSUME IInv, NEW p \in Procs, QueryVersion(p) PROVE IInv'
  <1>1. StoreStep /\ CacheOK' /\ UNCHANGED writes
    BY CacheKept DEF QueryVersion, StoreStep, NoWrite
  <1>2. PICK c : c = frame[p].copy
    OBVIOUS
  <1>3. c \in Copy /\ Good(c) /\ Answering(c, frame[p].slot)
    BY <1>2, FrameOf DEF QueryVersion, At, FrameOK, Held
  <1>4. PICK v \in Nat : v = frame[p].ver
    BY FrameOf DEF Frame
  <1>5. CASE HasVersion(c.id, v) /\ ReturnCopy(p, Archived(c, v))
    <2>1. PICK a : a = Archived(c, v)
      OBVIOUS
    <2>2. Good(a) /\ a.slot = c.slot /\ a \in Copy
      BY <1>3, <1>5, <2>1, ArchivedGood DEF IInv, Good
    <2>3. Held(a, frame[p].slot)
      BY <1>3, <2>2 DEF Held, Answering
    <2>4. frame' = [frame EXCEPT ![p] = Result(frame[p], a, "ok")]
      BY <1>5, <2>1, FrameOf DEF ReturnCopy
    <2> QED
      BY <1>1, <2>2, <2>3, <2>4, Returned DEF Outcomes
  <1>6. CASE Return(p, "not_found")
    BY <1>1, <1>6, ReturnedEmpty DEF Outcomes
  <1>7. CASE Return(p, "error")
    BY <1>1, <1>7, ReturnedEmpty DEF Outcomes
  <1> QED
    BY <1>2, <1>4, <1>5, <1>6, <1>7 DEF QueryVersion

LEMMA AddKeeps == ASSUME IInv, NEW p \in Procs, Add(p) PROVE IInv'
  <1>1. PICK o \in {"ok", "error"} : AddOne(frame[p].slot, frame[p].doc, o) /\ Return(p, o)
    BY DEF Add
  <1>2. StoreStep
    BY <1>1, FrameOf, AddOneStep DEF Frame
  <1>3. CacheOK' /\ UNCHANGED writes
    BY <1>2, CacheKept DEF Add
  <1> QED
    BY <1>1, <1>2, <1>3, ReturnedEmpty DEF Outcomes

LEMMA AddRequestKeeps == ASSUME IInv, NEW p \in Procs, AddRequest(p) PROVE IInv'
  <1>1. PICK f \in Frame : f = frame[p]
    BY FrameOf
  <1>2. f.copy = NoEntry /\ f.slot \in PairSlots /\ ReqSlot(f.slot) \in Slots
    BY <1>1, FrameOf, PairHalves DEF AddRequest, At, FrameOK, PairPcs
  <1>3. StoreStep
    BY <1>1, <1>2, AddOneStep DEF AddRequest, Frame
  <1>4. CacheOK' /\ UNCHANGED writes
    BY <1>3, CacheKept DEF AddRequest
  <1>5. CASE frame' = [frame EXCEPT ![p].pc = "addresp", ![p].id = nextId]
    <2>1. PICK u : u = [f EXCEPT !.pc = "addresp", !.id = nextId]
      OBVIOUS
    <2>2. u \in Frame /\ u.pc = "addresp" /\ u.copy = f.copy /\ u.slot = f.slot
      BY <2>1 DEF Frame, Pcs, IInv, StoreInv
    <2>3. frame' = [frame EXCEPT ![p] = u]
      BY <1>1, <1>5, <2>1, FrameOf
    <2> QED
      BY <1>2, <1>3, <1>4, <2>2, <2>3, Moved
  <1>6. CASE Return(p, "error")
    BY <1>3, <1>4, <1>6, ReturnedEmpty DEF Outcomes
  <1> QED
    BY <1>5, <1>6 DEF AddRequest

LEMMA AddResponseKeeps == ASSUME IInv, NEW p \in Procs, AddResponse(p) PROVE IInv'
  <1>1. frame[p].copy = NoEntry /\ frame[p].slot \in PairSlots /\ RespSlot(frame[p].slot) \in Slots
    BY FrameOf, PairHalves DEF AddResponse, At, FrameOK, PairPcs
  <1>2. StoreStep
    BY <1>1, FrameOf, AddOneStep DEF AddResponse, Frame
  <1>3. CacheOK' /\ UNCHANGED writes
    BY <1>2, CacheKept DEF AddResponse
  <1>4. CASE Return(p, "ok")
    BY <1>2, <1>3, <1>4, ReturnedEmpty DEF Outcomes
  <1>5. CASE Goto(p, "undo")
    BY <1>1, <1>2, <1>3, <1>5, WentTo DEF Pcs
  <1> QED
    BY <1>4, <1>5 DEF AddResponse

LEMMA UndoKeeps == ASSUME IInv, NEW p \in Procs, Undo(p) PROVE IInv'
  <1>1. frame[p].copy = NoEntry /\ frame[p].slot \in PairSlots /\ ReqSlot(frame[p].slot) \in Slots
    BY FrameOf, PairHalves DEF Undo, At, FrameOK, PairPcs
  <1>2. StoreStep
    BY <1>1, DeleteRowStep DEF Undo
  <1>3. CacheOK' /\ UNCHANGED writes
    BY <1>2, CacheKept DEF Undo
  <1>4. CASE Goto(p, "undoevict")
    BY <1>1, <1>2, <1>3, <1>4, WentTo DEF Pcs
  <1>5. CASE Return(p, "error")
    BY <1>2, <1>3, <1>5, ReturnedEmpty DEF Outcomes
  <1> QED
    BY <1>4, <1>5 DEF Undo

\* A call evicts and returns, or goes on without a copy.
LEMMA EvictedAndReturned ==
  ASSUME IInv, NEW p \in Procs, NEW k, EvictKey(k), NoWrite, UNCHANGED writes,
         NEW o \in Outcomes, Return(p, o)
  PROVE  IInv'
  BY EvictionKeeps, ReturnedEmpty

LEMMA EvictedAndWentOn ==
  ASSUME IInv, NEW p \in Procs, NEW k, EvictKey(k), NoWrite, UNCHANGED writes,
         frame[p].pc \in PairPcs, NEW pc \in PairPcs, Goto(p, pc)
  PROVE  IInv'
  <1>1. frame[p].copy = NoEntry /\ frame[p].slot \in PairSlots
    BY FrameOf DEF FrameOK, PairPcs
  <1>2. pc \in Pcs \ {"fill", "archived"}
    BY DEF Pcs, PairPcs
  <1> QED
    BY <1>1, <1>2, EvictionKeeps, WentTo

LEMMA UndoEvictKeeps == ASSUME IInv, NEW p \in Procs, UndoEvict(p) PROVE IInv'
  BY EvictedAndReturned DEF UndoEvict, NoWrite, Outcomes

LEMMA EvictKeeps == ASSUME IInv, NEW p \in Procs, Evict(p) PROVE IInv'
  BY EvictedAndReturned DEF Evict, NoWrite, Outcomes

LEMMA EvictResponseKeeps == ASSUME IInv, NEW p \in Procs, EvictResponse(p) PROVE IInv'
  BY EvictedAndReturned DEF EvictResponse, NoWrite, Outcomes

LEMMA EvictRequestKeeps == ASSUME IInv, NEW p \in Procs, EvictRequest(p) PROVE IInv'
  BY EvictedAndWentOn DEF EvictRequest, NoWrite, PairPcs, At

LEMMA DeleteRequestEvictKeeps == ASSUME IInv, NEW p \in Procs, DeleteRequestEvict(p) PROVE IInv'
  BY EvictedAndWentOn DEF DeleteRequestEvict, NoWrite, PairPcs, At

LEMMA DeleteResponseEvictKeeps == ASSUME IInv, NEW p \in Procs, DeleteResponseEvict(p) PROVE IInv'
  BY EvictedAndWentOn DEF DeleteResponseEvict, NoWrite, PairPcs, At

LEMMA UpsertKeeps == ASSUME IInv, NEW p \in Procs, Upsert(p) PROVE IInv'
  <1>1. frame[p].copy = NoEntry
    BY FrameOf DEF Upsert, At, FrameOK
  <1>2. StoreStep
    BY FrameOf, UpsertRowStep DEF Upsert, Frame, StoreStep
  <1>3. CacheOK' /\ UNCHANGED writes
    BY <1>2, CacheKept DEF Upsert
  <1>4. CASE Goto(p, "evict")
    BY <1>1, <1>2, <1>3, <1>4, WentTo DEF Pcs, PairPcs
  <1>5. CASE Return(p, "error")
    BY <1>2, <1>3, <1>5, ReturnedEmpty DEF Outcomes
  <1> QED
    BY <1>4, <1>5 DEF Upsert

LEMMA DeleteRequestKeeps == ASSUME IInv, NEW p \in Procs, DeleteRequest(p) PROVE IInv'
  <1>1. PICK f \in Frame : f = frame[p]
    BY FrameOf
  <1>2. f.copy = NoEntry /\ f.slot \in PairSlots /\ ReqSlot(f.slot) \in Slots
    BY <1>1, FrameOf, PairHalves DEF DeleteRequest, At, FrameOK, PairPcs
  <1>3. StoreStep
    BY <1>1, <1>2, DeleteRowStep DEF DeleteRequest
  <1>4. CacheOK' /\ UNCHANGED writes
    BY <1>3, CacheKept DEF DeleteRequest
  <1>5. PICK pc \in {"delreqevict", "delresp"}, o \in {"ok", "not_found", "error"} :
          frame' = [frame EXCEPT ![p].pc = pc, ![p].reqErr = o]
    BY DEF DeleteRequest
  <1>6. PICK u : u = [f EXCEPT !.pc = pc, !.reqErr = o]
    OBVIOUS
  <1>7. u \in Frame /\ u.pc = pc /\ u.copy = f.copy /\ u.slot = f.slot
    BY <1>6 DEF Frame, Pcs, Outcomes
  <1>8. frame' = [frame EXCEPT ![p] = u]
    BY <1>1, <1>5, <1>6, FrameOf
  <1> QED
    BY <1>2, <1>3, <1>4, <1>7, <1>8, Moved

LEMMA DeleteResponseKeeps == ASSUME IInv, NEW p \in Procs, DeleteResponse(p) PROVE IInv'
  <1>1. frame[p].copy = NoEntry /\ frame[p].slot \in PairSlots /\ RespSlot(frame[p].slot) \in Slots
    BY FrameOf, PairHalves DEF DeleteResponse, At, FrameOK, PairPcs
  <1>2. StoreStep
    BY <1>1, DeleteRowStep DEF DeleteResponse
  <1>3. CacheOK' /\ UNCHANGED writes
    BY <1>2, CacheKept DEF DeleteResponse
  <1>4. CASE Goto(p, "delrespevict")
    BY <1>1, <1>2, <1>3, <1>4, WentTo DEF Pcs
  <1>5. CASE Goto(p, "evictreq")
    BY <1>1, <1>2, <1>3, <1>5, WentTo DEF Pcs
  <1>6. CASE Return(p, "not_found")
    BY <1>2, <1>3, <1>6, ReturnedEmpty DEF Outcomes
  <1> QED
    BY <1>4, <1>5, <1>6 DEF DeleteResponse

LEMMA ChangeStatusKeeps == ASSUME IInv, NEW p \in Procs, ChangeStatus(p) PROVE IInv'
  <1>1. frame[p].copy = NoEntry
    BY FrameOf DEF ChangeStatus, At, FrameOK
  <1>2. StoreStep
    BY FrameOf DEF ChangeStatus, Frame, StoreStep
  <1>3. CacheOK' /\ UNCHANGED writes
    BY <1>2, CacheKept DEF ChangeStatus
  <1>4. CASE Goto(p, "reread")
    BY <1>1, <1>2, <1>3, <1>4, WentTo DEF Pcs, PairPcs
  <1>5. CASE Return(p, "not_found")
    BY <1>2, <1>3, <1>5, ReturnedEmpty DEF Outcomes
  <1>6. CASE Return(p, "error")
    BY <1>2, <1>3, <1>6, ReturnedEmpty DEF Outcomes
  <1> QED
    BY <1>4, <1>5, <1>6 DEF ChangeStatus

LEMMA RereadKeeps == ASSUME IInv, NEW p \in Procs, Reread(p) PROVE IInv'
  <1>1. PICK f \in Frame : f = frame[p]
    BY FrameOf
  <1>2. PICK s : s = CHOOSE x \in SlotsOf(f.id) : TRUE
    OBVIOUS
  <1>3. f.copy = NoEntry
    BY <1>1, FrameOf DEF Reread, At, FrameOK
  <1>4. StoreStep /\ CacheOK' /\ UNCHANGED writes
    BY CacheKept DEF Reread, StoreStep, NoWrite
  <1>5. CASE Live(f.id) /\ frame' = [frame EXCEPT ![p].pc = "evict", ![p].slot = s]
    <2>1. s \in Slots
      BY <1>2, <1>5 DEF Live, SlotsOf
    <2>2. PICK u : u = [f EXCEPT !.pc = "evict", !.slot = s]
      OBVIOUS
    <2>3. u \in Frame /\ u.pc = "evict" /\ u.copy = f.copy
      BY <2>1, <2>2 DEF Frame, Pcs
    <2>4. frame' = [frame EXCEPT ![p] = u]
      BY <1>1, <1>5, <2>2, FrameOf
    <2> QED
      BY <1>3, <1>4, <2>3, <2>4, Moved DEF PairPcs
  <1>6. CASE Return(p, "ok")
    BY <1>4, <1>6, ReturnedEmpty DEF Outcomes
  <1>7. CASE Return(p, "error")
    BY <1>4, <1>7, ReturnedEmpty DEF Outcomes
  <1> QED
    BY <1>1, <1>2, <1>5, <1>6, <1>7 DEF Reread

-----------------------------------------------------------------------------
(* The invariant. *)

LEMMA ExpireKeeps == ASSUME IInv, NEW k \in Keys, Expire(k) PROVE IInv'
  <1>1. StoreStep /\ CacheOK'
    BY EvictionKeeps DEF Expire, EvictKey, NoWrite
  <1>2. ASSUME NEW q \in Procs PROVE FrameOK(frame[q])'
    BY FrameOf DEF Expire, FrameOK, Held, Good, Answering, Authentic, SlotsOf, Present, KeysDistinct
  <1> QED
    BY <1>1, <1>2, StoreKeeps DEF Expire, IInv, CacheOK

LEMMA BlankOK == FrameOK(Blank)'
  BY BlankTyped DEF FrameOK, Blank, Held, PairPcs

LEMMA CrashKeeps == ASSUME IInv, NEW p \in Procs, Crash(p) PROVE IInv'
  <1>1. StoreStep /\ CacheOK' /\ UNCHANGED writes
    BY CacheKept DEF Crash, StoreStep, NoWrite
  <1>2. PICK u : u = Blank
    OBVIOUS
  <1>3. FrameOK(u)'
    BY <1>2, BlankOK DEF Blank
  <1> QED
    BY <1>1, <1>2, <1>3, FrameStep DEF Crash, IInv

LEMMA BeginKeeps == ASSUME IInv, NEW p \in Procs, Begin(p) PROVE IInv'
  <1>1. ASSUME NEW s \in Slots, GetStart(p, s) PROVE IInv'
    <2>1. PICK f : f = [Blank EXCEPT !.pc = "cacheget", !.slot = s]
      OBVIOUS
    <2>2. f \in Frame /\ f.copy = NoEntry /\ f.pc = "cacheget"
      BY <2>1, BlankTyped DEF Frame, Blank, Pcs
    <2>3. Start(p, "Get", f)
      BY <1>1, <2>1 DEF GetStart
    <2> QED
      BY <2>2, <2>3, StartKeeps DEF Reads, PairPcs
  <1>2. ASSUME NEW s \in Slots, NEW v \in Nat, GetVersionStart(p, s, v) PROVE IInv'
    <2>1. PICK f : f = [Blank EXCEPT !.pc = "cacheget", !.slot = s, !.ver = v]
      OBVIOUS
    <2>2. f \in Frame /\ f.copy = NoEntry /\ f.pc = "cacheget"
      BY <2>1, BlankTyped DEF Frame, Blank, Pcs
    <2>3. Start(p, "GetVersion", f)
      BY <1>2, <2>1 DEF GetVersionStart
    <2> QED
      BY <2>2, <2>3, StartKeeps DEF Reads, PairPcs
  <1>3. ASSUME NEW s \in Slots, NEW d \in Docs, AddStart(p, s, d) PROVE IInv'
    <2>1. PICK f : f = [Blank EXCEPT !.pc = "add", !.slot = s, !.doc = d]
      OBVIOUS
    <2>2. f \in Frame /\ f.copy = NoEntry /\ f.pc = "add"
      BY <2>1, BlankTyped DEF Frame, Blank, Pcs
    <2>3. Start(p, "Add", f)
      BY <1>3, <2>1 DEF AddStart
    <2> QED
      BY <2>2, <2>3, StartKeeps DEF Writes, PairPcs
  <1>4. ASSUME NEW s \in Slots, NEW d \in Docs, UpsertStart(p, s, d) PROVE IInv'
    <2>1. PICK f : f = [Blank EXCEPT !.pc = "upsert", !.slot = s, !.doc = d]
      OBVIOUS
    <2>2. f \in Frame /\ f.copy = NoEntry /\ f.pc = "upsert"
      BY <2>1, BlankTyped DEF Frame, Blank, Pcs
    <2>3. Start(p, "Upsert", f)
      BY <1>4, <2>1 DEF UpsertStart
    <2> QED
      BY <2>2, <2>3, StartKeeps DEF Writes, PairPcs
  <1>5. ASSUME NEW s \in PairSlots, NEW d \in Docs, NEW e \in Docs, AddPairStart(p, s, d, e)
        PROVE  IInv'
    <2>1. PICK f : f = [Blank EXCEPT !.pc = "addreq", !.slot = s, !.doc = d, !.doc2 = e]
      OBVIOUS
    <2>2. f \in Frame /\ f.copy = NoEntry /\ f.pc = "addreq" /\ f.slot = s
      BY <2>1, BlankTyped, PairHalves DEF Frame, Blank, Pcs
    <2>3. Start(p, "AddPair", f)
      BY <1>5, <2>1 DEF AddPairStart
    <2> QED
      BY <2>2, <2>3, StartKeeps DEF Writes
  <1>6. ASSUME NEW s \in PairSlots, DeleteStart(p, s) PROVE IInv'
    <2>1. PICK f : f = [Blank EXCEPT !.pc = "delreq", !.slot = s]
      OBVIOUS
    <2>2. f \in Frame /\ f.copy = NoEntry /\ f.pc = "delreq" /\ f.slot = s
      BY <2>1, BlankTyped, PairHalves DEF Frame, Blank, Pcs
    <2>3. Start(p, "Delete", f)
      BY <1>6, <2>1 DEF DeleteStart
    <2> QED
      BY <2>2, <2>3, StartKeeps DEF Writes
  <1>7. ASSUME NEW i \in Nat, NEW st \in Decisions, ChangeStatusStart(p, i, st) PROVE IInv'
    <2>1. PICK f : f = [Blank EXCEPT !.pc = "setstatus", !.id = i, !.status = st]
      OBVIOUS
    <2>2. f \in Frame /\ f.copy = NoEntry /\ f.pc = "setstatus"
      BY <2>1, BlankTyped DEF Frame, Blank, Pcs, Decisions, Statuses
    <2>3. Start(p, "ChangeStatus", f)
      BY <1>7, <2>1 DEF ChangeStatusStart
    <2> QED
      BY <2>2, <2>3, StartKeeps DEF Writes, PairPcs
  <1>8. 1 .. MaxVersion \subseteq Nat /\ 1 .. nextId \subseteq Nat
    BY ServiceAssumption DEF IInv, StoreInv
  <1> QED
    BY <1>1, <1>2, <1>3, <1>4, <1>5, <1>6, <1>7, <1>8 DEF Begin

LEMMA StepKeeps == ASSUME IInv, NEW p \in Procs, Step(p) PROVE IInv'
  <1>1. CASE CacheGet(p) \/ QuerySpecific(p) \/ QueryGeneric(p) \/ Fill(p) \/ QueryVersion(p)
    BY <1>1, CacheGetKeeps, QuerySpecificKeeps, QueryGenericKeeps, FillKeeps, QueryVersionKeeps
  <1>2. CASE Add(p) \/ AddRequest(p) \/ AddResponse(p) \/ Undo(p) \/ UndoEvict(p)
    BY <1>2, AddKeeps, AddRequestKeeps, AddResponseKeeps, UndoKeeps, UndoEvictKeeps
  <1>3. CASE Upsert(p) \/ Evict(p) \/ ChangeStatus(p) \/ Reread(p)
    BY <1>3, UpsertKeeps, EvictKeeps, ChangeStatusKeeps, RereadKeeps
  <1>4. CASE \/ DeleteRequest(p) \/ DeleteRequestEvict(p) \/ DeleteResponse(p)
             \/ DeleteResponseEvict(p) \/ EvictRequest(p) \/ EvictResponse(p)
    BY <1>4, DeleteRequestKeeps, DeleteRequestEvictKeeps, DeleteResponseKeeps,
       DeleteResponseEvictKeeps, EvictRequestKeeps, EvictResponseKeeps
  <1> QED
    BY <1>1, <1>2, <1>3, <1>4 DEF Step

LEMMA StutterKeeps == ASSUME IInv, UNCHANGED vars PROVE IInv'
  BY DEF vars, IInv, StoreInv, StoreTypeOK, Present, FrameOK, Held, Good, Answering, Authentic,
         SlotsOf, Version, KeysDistinct

LEMMA InitInv == Init => IInv
  <1> SUFFICES ASSUME Init PROVE IInv
    OBVIOUS
  <1>1. StoreInv
    BY InitStore DEF Init
  <1>2. /\ cache \in [Keys -> Copy \cup {NoEntry}]
        /\ \A s \in Slots : Held(cache[CacheKey(s)], s)
    BY DEF Init, Held, Keys
  <1>3. FrameOK(Blank)
    BY BlankTyped DEF FrameOK, Blank, Held, PairPcs
  <1>4. frame \in [Procs -> Frame] /\ \A p \in Procs : FrameOK(frame[p])
    BY <1>3, BlankTyped DEF Init
  <1>5. writes \in 0 .. MaxWrites
    BY ServiceAssumption DEF Init
  <1> QED
    BY <1>1, <1>2, <1>4, <1>5 DEF IInv

LEMMA NextInv == IInv /\ [Next]_vars => IInv'
  BY BeginKeeps, StepKeeps, CrashKeeps, ExpireKeeps, StutterKeeps DEF Next

LEMMA AlwaysInv == Spec => []IInv
  BY InitInv, NextInv, PTL DEF Spec

\* What IInv says of every copy.
LEMMA CopiesGood == IInv => CopiesAuthentic
  <1> SUFFICES ASSUME IInv, NEW c \in Copies PROVE Authentic(c) /\ c.status = "verified"
    BY DEF CopiesAuthentic
  <1>1. CASE \E k \in Keys : c = cache[k]
    BY <1>1 DEF IInv, Keys, Copies, Held, Good
  <1>2. CASE \E p \in Procs : c = frame[p].copy
    BY <1>2, FrameOf DEF Copies, Held, Good
  <1> QED
    BY <1>1, <1>2 DEF Copies

LEMMA LookupsMatch == ASSUME KeysDistinct PROVE IInv => EntriesAnswerLookup
  <1> SUFFICES ASSUME IInv PROVE EntriesAnswerLookup
    OBVIOUS
  <1>1. \A p \in Procs : frame[p].copy # NoEntry
          => frame[p].copy.slot \in {frame[p].slot, Generic(frame[p].slot)}
    BY FrameOf DEF Held, Answering
  <1>2. \A s \in Slots : cache[CacheKey(s)] # NoEntry
          => cache[CacheKey(s)].slot \in {s, Generic(s)}
    BY DEF IInv, Held, Answering
  <1> QED
    BY <1>1, <1>2 DEF EntriesAnswerLookup

-----------------------------------------------------------------------------
(* Where a call goes, and what it does to the store, for the modules that watch it. *)

\* The call of p moves to u, about the slot it was about, and towards no decision.
Onward(p, u) ==
  /\ frame' = [frame EXCEPT ![p] = u]
  /\ u.slot = frame[p].slot /\ u.pc \notin {"setstatus", "reread"}

LEMMA GotoOnward ==
  ASSUME IInv, NEW p \in Procs, NEW pc \in Pcs \ {"setstatus", "reread"}, Goto(p, pc)
  PROVE  \E u : Onward(p, u)
  <1>1. PICK f \in Frame : f = frame[p]
    BY FrameOf
  <1>2. PICK u : u = [f EXCEPT !.pc = pc]
    OBVIOUS
  <1>3. u.slot = f.slot /\ u.pc = pc
    BY <1>2 DEF Frame
  <1> QED
    BY <1>1, <1>2, <1>3, FrameOf DEF Goto, Onward

LEMMA ResultOnward ==
  ASSUME IInv, NEW p \in Procs, NEW copy, NEW o,
         frame' = [frame EXCEPT ![p] = Result(@, copy, o)]
  PROVE  \E u : Onward(p, u)
  <1>1. PICK f \in Frame : f = frame[p]
    BY FrameOf
  <1>2. PICK u : u = Result(f, copy, o)
    OBVIOUS
  <1>3. u.slot = f.slot /\ u.pc = "idle"
    BY <1>2, BlankTyped DEF Result, Frame, Blank
  <1> QED
    BY <1>1, <1>2, <1>3, FrameOf DEF Onward

LEMMA ReturnOnward ==
  ASSUME IInv, NEW p \in Procs, NEW o, Return(p, o) PROVE \E u : Onward(p, u)
  BY ResultOnward DEF Return

LEMMA FoundOnward ==
  ASSUME IInv, NEW p \in Procs, NEW copy, Found(p, copy) PROVE \E u : Onward(p, u)
  <1>1. CASE ReturnCopy(p, copy)
    BY <1>1, ResultOnward DEF ReturnCopy
  <1>2. CASE frame' = [frame EXCEPT ![p].pc = "archived", ![p].copy = copy]
    <2>1. PICK f \in Frame : f = frame[p]
      BY FrameOf
    <2>2. PICK u : u = [f EXCEPT !.pc = "archived", !.copy = copy]
      OBVIOUS
    <2>3. u.slot = f.slot /\ u.pc = "archived"
      BY <2>2 DEF Frame
    <2> QED
      BY <1>2, <2>1, <2>2, <2>3, FrameOf DEF Onward
  <1> QED
    BY <1>1, <1>2 DEF Found

LEMMA ReadOnward ==
  ASSUME IInv, NEW p \in Procs,
         CacheGet(p) \/ QuerySpecific(p) \/ QueryGeneric(p) \/ Fill(p) \/ QueryVersion(p)
  PROVE  \E u : Onward(p, u)
  <1>1. ASSUME NEW copy, frame' = [frame EXCEPT ![p].pc = "fill", ![p].copy = copy]
        PROVE  \E u : Onward(p, u)
    <2>1. PICK f \in Frame : f = frame[p]
      BY FrameOf
    <2>2. PICK u : u = [f EXCEPT !.pc = "fill", !.copy = copy]
      OBVIOUS
    <2>3. u.slot = f.slot /\ u.pc = "fill"
      BY <2>2 DEF Frame
    <2> QED
      BY <1>1, <2>1, <2>2, <2>3, FrameOf DEF Onward
  <1>2. CASE CacheGet(p)
    BY <1>2, FoundOnward, ReturnOnward, GotoOnward DEF CacheGet, Query, Pcs
  <1>3. CASE QuerySpecific(p)
    BY <1>1, <1>3, ReturnOnward, GotoOnward DEF QuerySpecific, QueryRow, Pcs
  <1>4. CASE QueryGeneric(p)
    BY <1>1, <1>4, ReturnOnward DEF QueryGeneric, QueryRow
  <1>5. CASE Fill(p)
    BY <1>5, FoundOnward DEF Fill
  <1>6. CASE QueryVersion(p)
    BY <1>6, ReturnOnward, ResultOnward DEF QueryVersion, ReturnCopy
  <1> QED
    BY <1>2, <1>3, <1>4, <1>5, <1>6

LEMMA AddOnward ==
  ASSUME IInv, NEW p \in Procs,
         Add(p) \/ AddRequest(p) \/ AddResponse(p) \/ Undo(p) \/ UndoEvict(p)
  PROVE  \E u : Onward(p, u)
  <1>1. CASE Add(p) \/ UndoEvict(p)
    BY <1>1, ReturnOnward DEF Add, UndoEvict
  <1>2. CASE AddRequest(p)
    <2>1. CASE frame' = [frame EXCEPT ![p].pc = "addresp", ![p].id = nextId]
      <3>1. PICK f \in Frame : f = frame[p]
        BY FrameOf
      <3>2. PICK u : u = [f EXCEPT !.pc = "addresp", !.id = nextId]
        OBVIOUS
      <3>3. u.slot = f.slot /\ u.pc = "addresp"
        BY <3>2 DEF Frame
      <3> QED
        BY <2>1, <3>1, <3>2, <3>3, FrameOf DEF Onward
    <2> QED
      BY <1>2, <2>1, ReturnOnward DEF AddRequest
  <1>3. CASE AddResponse(p) \/ Undo(p)
    BY <1>3, ReturnOnward, GotoOnward DEF AddResponse, Undo, Pcs
  <1> QED
    BY <1>1, <1>2, <1>3

LEMMA DeleteOnward ==
  ASSUME IInv, NEW p \in Procs,
         \/ DeleteRequest(p) \/ DeleteRequestEvict(p) \/ DeleteResponse(p)
         \/ DeleteResponseEvict(p) \/ EvictRequest(p) \/ EvictResponse(p)
  PROVE  \E u : Onward(p, u)
  <1>1. CASE DeleteRequest(p)
    <2>1. PICK pc \in {"delreqevict", "delresp"}, o \in {"ok", "not_found", "error"} :
            frame' = [frame EXCEPT ![p].pc = pc, ![p].reqErr = o]
      BY <1>1 DEF DeleteRequest
    <2>2. PICK f \in Frame : f = frame[p]
      BY FrameOf
    <2>3. PICK u : u = [f EXCEPT !.pc = pc, !.reqErr = o]
      OBVIOUS
    <2>4. u.slot = f.slot /\ u.pc = pc
      BY <2>3 DEF Frame
    <2> QED
      BY <2>1, <2>2, <2>3, <2>4, FrameOf DEF Onward
  <1>2. CASE DeleteRequestEvict(p) \/ DeleteResponseEvict(p) \/ EvictRequest(p)
    BY <1>2, GotoOnward DEF DeleteRequestEvict, DeleteResponseEvict, EvictRequest, Pcs
  <1>3. CASE DeleteResponse(p)
    BY <1>3, ReturnOnward, GotoOnward DEF DeleteResponse, Pcs
  <1>4. CASE EvictResponse(p)
    BY <1>4, ReturnOnward DEF EvictResponse
  <1> QED
    BY <1>1, <1>2, <1>3, <1>4

LEMMA UpsertOnward ==
  ASSUME IInv, NEW p \in Procs, Upsert(p) \/ Evict(p) PROVE \E u : Onward(p, u)
  BY ReturnOnward, GotoOnward DEF Upsert, Evict, Pcs

\* An admin's decision, whose read back may change the slot.
LEMMA DecisionMoves ==
  ASSUME IInv, NEW p \in Procs, ChangeStatus(p) \/ Reread(p)
  PROVE  /\ frame[p].pc \in {"setstatus", "reread"}
         /\ \E u : frame' = [frame EXCEPT ![p] = u] /\ u.pc # "setstatus"
  <1>1. PICK f \in Frame : f = frame[p]
    BY FrameOf
  <1>2. \A pc : [f EXCEPT !.pc = pc].pc = pc
    BY <1>1 DEF Frame
  <1>3. \A s : [f EXCEPT !.pc = "evict", !.slot = s].pc = "evict"
    BY <1>1 DEF Frame
  <1>4. ASSUME NEW o, Return(p, o)
        PROVE  \E u : frame' = [frame EXCEPT ![p] = u] /\ u.pc # "setstatus"
    BY <1>4, ReturnOnward DEF Onward
  <1>5. CASE ChangeStatus(p)
    <2>1. CASE Goto(p, "reread")
      <3>1. PICK u : u = [f EXCEPT !.pc = "reread"]
        OBVIOUS
      <3>2. frame' = [frame EXCEPT ![p] = u] /\ u.pc = "reread"
        BY <1>1, <1>2, <2>1, <3>1, FrameOf DEF Goto
      <3> QED
        BY <1>5, <3>2 DEF ChangeStatus, At
    <2> QED
      BY <1>4, <1>5, <2>1 DEF ChangeStatus, At
  <1>6. CASE Reread(p)
    <2>1. ASSUME NEW s, frame' = [frame EXCEPT ![p].pc = "evict", ![p].slot = s]
          PROVE  \E u : frame' = [frame EXCEPT ![p] = u] /\ u.pc # "setstatus"
      BY <1>1, <1>3, <2>1, FrameOf
    <2> QED
      BY <1>4, <1>6, <2>1 DEF Reread, At
  <1> QED
    BY <1>5, <1>6

\* Every call goes onward, but an admin's decision.
LEMMA StepOnward ==
  ASSUME IInv, NEW p \in Procs, Step(p), frame[p].pc \notin {"setstatus", "reread"}
  PROVE  \E u : Onward(p, u)
  BY ReadOnward, AddOnward, DeleteOnward, UpsertOnward, DecisionMoves DEF Step

LEMMA StepOfStore == ASSUME IInv, NEW p \in Procs, Step(p) PROVE StoreStep
  <1>1. frame[p] \in Frame /\ frame[p].slot \in Slots
    BY FrameOf
  <1>2. frame[p].pc \in PairPcs =>
          ReqSlot(frame[p].slot) \in Slots /\ RespSlot(frame[p].slot) \in Slots
    BY FrameOf, PairHalves DEF FrameOK
  <1>3. CASE Add(p) \/ AddRequest(p) \/ AddResponse(p)
    BY <1>1, <1>2, <1>3, AddOneStep DEF Add, AddRequest, AddResponse, Frame, At, PairPcs
  <1>4. CASE Undo(p) \/ DeleteRequest(p) \/ DeleteResponse(p)
    BY <1>2, <1>4, DeleteRowStep DEF Undo, DeleteRequest, DeleteResponse, At, PairPcs
  <1>5. CASE Upsert(p)
    BY <1>1, <1>5, UpsertRowStep DEF Upsert, Frame, StoreStep
  <1>6. CASE ChangeStatus(p)
    BY <1>1, <1>6 DEF ChangeStatus, Frame, StoreStep
  <1>7. CASE \/ CacheGet(p) \/ QuerySpecific(p) \/ QueryGeneric(p) \/ Fill(p) \/ QueryVersion(p)
             \/ UndoEvict(p) \/ Evict(p) \/ DeleteRequestEvict(p) \/ DeleteResponseEvict(p)
             \/ EvictRequest(p) \/ EvictResponse(p) \/ Reread(p)
    BY <1>7
    DEF CacheGet, QuerySpecific, QueryGeneric, QueryRow, Fill, QueryVersion, UndoEvict, Evict,
        DeleteRequestEvict, DeleteResponseEvict, EvictRequest, EvictResponse, Reread, NoWrite,
        StoreStep
  <1> QED
    BY <1>3, <1>4, <1>5, <1>6, <1>7 DEF Step

-----------------------------------------------------------------------------
\* Every variable of the service, its cache and its store keeps its type, whatever
\* callers, faults and crashes do.
THEOREM TypeCorrect == Spec => []TypeOK
  <1>1. IInv => TypeOK
    BY DEF IInv, StoreInv, TypeOK
  <1> QED
    BY <1>1, AlwaysInv, PTL

\* However calls of the service interleave and fail, what is cached, held or
\* returned never mixes versions: it is one version of the row it names, labelled
\* verified.
THEOREM CopiesStayAuthentic == Spec => []CopiesAuthentic
  BY CopiesGood, AlwaysInv, PTL

\* As long as no two lookups share a cache key, an entry or a result is for the
\* lookup it is found under, or for its generic one.
THEOREM LookupsAnswered == ASSUME KeysDistinct PROVE Spec => []EntriesAnswerLookup
  <1>1. IInv => EntriesAnswerLookup
    BY LookupsMatch
  <1> QED
    BY <1>1, AlwaysInv, PTL
================================================================================

--------------------------- MODULE QuietServiceProofs ---------------------------
(***************************************************************************)
(* Proofs about QuietService, for every set of slots, documents and        *)
(* callers: what the service promises while nothing fails, each promise    *)
(* under the meetings it survives.  Watched says what the observer has     *)
(* seen; on it rest three invariants, one per promise.  Withdrawals: as    *)
(* long as no read met a write, a cached copy that is not current has a    *)
(* call in flight that will evict it.  Halves: as long as only whole pairs *)
(* are written, half a pair belongs to a call that is adding or deleting   *)
(* it.  Gone: what a Delete that met nobody has removed stays removed.     *)
(* Remembered stands on the service's IInv alone, whatever fails: what is  *)
(* cached or in hand has stood verified, as every read asks for that.      *)
(***************************************************************************)
EXTENDS QuietService, SchemaServiceProofs

\* No call to repository or cache fails.
NoFaults == RepoFaults = FALSE /\ CacheFaults = FALSE

-----------------------------------------------------------------------------
(* Where a call stands says which operation it is. *)

ReadPcs   == {"cacheget", "specific", "generic", "fill", "archived"}
PairAdds  == {"addreq", "addresp", "undo", "undoevict"}
DeletePcs == {"delreq", "delreqevict", "delresp", "delrespevict", "evictreq", "evictresp"}

Tied(f) ==
  /\ f.pc \in ReadPcs => f.op \in Reads
  /\ f.pc = "add" => f.op = "Add"
  /\ f.pc \in PairAdds => f.op = "AddPair"
  /\ f.pc = "upsert" => f.op = "Upsert"
  /\ f.pc = "evict" => f.op \in {"Upsert", "ChangeStatus"}
  /\ f.pc \in DeletePcs => f.op = "Delete"
  /\ f.pc \in {"setstatus", "reread"} => f.op = "ChangeStatus" /\ f.status \in Decisions

\* What the observer knows.
Seen ==
  /\ met \in [raced : BOOLEAN, loose : BOOLEAN, alone : SUBSET Procs]
  /\ ~met.raced => ~Together(Reads, Writes)
  /\ ~met.loose => /\ ~Together({"AddPair"}, {"Delete"})
                   /\ \A p \in InFlight : frame[p].op \notin {"Add", "Upsert"}
  /\ \A p \in met.alone : InFlight = {p}

Watched == IInv /\ Seen /\ \A p \in Procs : Tied(frame[p])

-----------------------------------------------------------------------------
(* What a step of p does to the calls: it goes on, or it returns. *)

Others(p) == \A q \in Procs : q # p => frame'[q] = frame[q]

Went(p, pc) ==
  /\ Others(p)
  /\ frame'[p].pc = pc /\ frame'[p].op = frame[p].op /\ frame'[p].slot = frame[p].slot
  /\ frame'[p].id = frame[p].id /\ frame'[p].status = frame[p].status

Ended(p, o) ==
  /\ Others(p)
  /\ frame'[p].pc = "idle" /\ frame'[p].op = frame[p].op /\ frame'[p].slot = frame[p].slot
  /\ frame'[p].reply = o

LEMMA GotoWent == ASSUME IInv, NEW p \in Procs, NEW pc, Goto(p, pc) PROVE Went(p, pc)
  <1>1. PICK f \in Frame : f = frame[p]
    BY FrameOf
  <1>2. PICK u : u = [f EXCEPT !.pc = pc]
    OBVIOUS
  <1>3. u.pc = pc /\ u.op = f.op /\ u.slot = f.slot /\ u.id = f.id /\ u.status = f.status
    BY <1>2 DEF Frame
  <1>4. frame' = [frame EXCEPT ![p] = u]
    BY <1>1, <1>2, FrameOf DEF Goto
  <1> QED
    BY <1>1, <1>3, <1>4, FrameOf DEF Went, Others

LEMMA ResultEnded ==
  ASSUME IInv, NEW p \in Procs, NEW copy, NEW o,
         frame' = [frame EXCEPT ![p] = Result(@, copy, o)]
  PROVE  Ended(p, o)
  <1>1. PICK f \in Frame : f = frame[p]
    BY FrameOf
  <1>2. PICK u : u = Result(f, copy, o)
    OBVIOUS
  <1>3. u.pc = "idle" /\ u.op = f.op /\ u.slot = f.slot /\ u.reply = o
    BY <1>2 DEF Result, Blank
  <1>4. frame' = [frame EXCEPT ![p] = u]
    BY <1>1, <1>2, FrameOf
  <1> QED
    BY <1>1, <1>3, <1>4, FrameOf DEF Ended, Others

LEMMA ReturnEnded == ASSUME IInv, NEW p \in Procs, NEW o, Return(p, o) PROVE Ended(p, o)
  BY ResultEnded DEF Return

\* Get has found a schema: it returns it, or asks for the archived version.
LEMMA FoundGoes ==
  ASSUME IInv, NEW p \in Procs, NEW copy, Found(p, copy)
  PROVE  Ended(p, "ok") \/ Went(p, "archived")
  <1>1. CASE ReturnCopy(p, copy)
    BY <1>1, ResultEnded DEF ReturnCopy
  <1>2. CASE frame' = [frame EXCEPT ![p].pc = "archived", ![p].copy = copy]
    <2>1. PICK f \in Frame : f = frame[p]
      BY FrameOf
    <2>2. PICK u : u = [f EXCEPT !.pc = "archived", !.copy = copy]
      OBVIOUS
    <2>3. u.pc = "archived" /\ u.op = f.op /\ u.slot = f.slot /\ u.id = f.id /\ u.status = f.status
      BY <2>2 DEF Frame
    <2>4. frame' = [frame EXCEPT ![p] = u]
      BY <1>2, <2>1, <2>2, FrameOf
    <2> QED
      BY <2>1, <2>3, <2>4, FrameOf DEF Went, Others
  <1> QED
    BY <1>1, <1>2 DEF Found

\* A query has found the row of s.
FoundRow(p, s) == Went(p, "fill") /\ Verified(s) /\ frame'[p].copy = CopyOf(s)

LEMMA RowGoes ==
  ASSUME IInv, NEW p \in Procs, NEW s, Verified(s),
         frame' = [frame EXCEPT ![p].pc = "fill", ![p].copy = CopyOf(s)]
  PROVE  FoundRow(p, s)
  <1>1. PICK f \in Frame : f = frame[p]
    BY FrameOf
  <1>2. PICK c : c = CopyOf(s)
    OBVIOUS
  <1>3. PICK u : u = [f EXCEPT !.pc = "fill", !.copy = c]
    OBVIOUS
  <1>4. /\ u.pc = "fill" /\ u.op = f.op /\ u.slot = f.slot /\ u.id = f.id /\ u.status = f.status
        /\ u.copy = c
    BY <1>3 DEF Frame
  <1>5. frame' = [frame EXCEPT ![p] = u]
    BY <1>1, <1>2, <1>3, FrameOf
  <1> QED
    BY <1>1, <1>2, <1>4, <1>5, FrameOf DEF FoundRow, Went, Others

\* The reads: none of them writes, and only a query puts a row in hand.
ReadStep(p) ==
  \/ CacheGet(p) \/ QuerySpecific(p) \/ QueryGeneric(p) \/ Fill(p) \/ QueryVersion(p)

ReadOn(p) ==
  \/ \E o \in Outcomes : Ended(p, o)
  \/ \E pc \in {"specific", "generic", "archived"} : Went(p, pc)
  \/ \E s \in {frame[p].slot, Generic(frame[p].slot)} : FoundRow(p, s)

LEMMA ReadGoes ==
  ASSUME IInv, NEW p \in Procs, ReadStep(p)
  PROVE  /\ frame[p].pc \in ReadPcs /\ NoWrite /\ ReadOn(p)
         /\ \/ UNCHANGED cache
            \/ /\ At(p, "fill")
               /\ cache' = [cache EXCEPT ![CacheKey(frame[p].slot)] = frame[p].copy]
  <1>1. \A o \in Outcomes : Return(p, o) => ReadOn(p)
    BY ReturnEnded DEF ReadOn
  <1>2. \A c : Found(p, c) => ReadOn(p)
    BY FoundGoes DEF ReadOn, Outcomes
  <1>3. CASE CacheGet(p)
    BY <1>1, <1>2, <1>3, GotoWent DEF CacheGet, Query, ReadOn, At, ReadPcs, NoWrite, Outcomes
  <1>4. CASE QuerySpecific(p)
    BY <1>1, <1>4, GotoWent, RowGoes
    DEF QuerySpecific, QueryRow, ReadOn, At, ReadPcs, NoWrite, Outcomes
  <1>5. CASE QueryGeneric(p)
    BY <1>1, <1>5, RowGoes DEF QueryGeneric, QueryRow, ReadOn, At, ReadPcs, NoWrite, Outcomes
  <1>6. CASE Fill(p)
    BY <1>2, <1>6 DEF Fill, At, ReadPcs, NoWrite
  <1>7. CASE QueryVersion(p)
    <2>1. \A c : ReturnCopy(p, c) => ReadOn(p)
      BY ResultEnded DEF ReturnCopy, ReadOn, Outcomes
    <2> QED
      BY <1>1, <1>7, <2>1 DEF QueryVersion, At, ReadPcs, NoWrite, Outcomes
  <1> QED
    BY <1>3, <1>4, <1>5, <1>6, <1>7 DEF ReadStep

-----------------------------------------------------------------------------
(* The writes, while nothing fails. *)

LEMMA AddGoes ==
  ASSUME IInv, NoFaults, NEW p \in Procs, Add(p)
  PROVE  /\ At(p, "add") /\ UNCHANGED cache
         /\ \E o \in Outcomes : Ended(p, o)
         /\ NoWrite \/ Insert(frame[p].slot, frame[p].doc)
  BY ReturnEnded DEF Add, AddOne, Outcomes, NoFaults

LEMMA AddRequestGoes ==
  ASSUME IInv, NoFaults, NEW p \in Procs, AddRequest(p)
  PROVE  /\ At(p, "addreq") /\ UNCHANGED cache
         /\ \/ /\ Insert(ReqSlot(frame[p].slot), frame[p].doc)
               /\ Others(p) /\ frame'[p].pc = "addresp" /\ frame'[p].op = frame[p].op
               /\ frame'[p].slot = frame[p].slot
            \/ NoWrite /\ Ended(p, "error")
  <1>1. CASE frame' = [frame EXCEPT ![p].pc = "addresp", ![p].id = nextId]
    <2>1. PICK f \in Frame : f = frame[p]
      BY FrameOf
    <2>2. PICK u : u = [f EXCEPT !.pc = "addresp", !.id = nextId]
      OBVIOUS
    <2>3. u.pc = "addresp" /\ u.op = f.op /\ u.slot = f.slot
      BY <2>2 DEF Frame
    <2>4. frame' = [frame EXCEPT ![p] = u]
      BY <1>1, <2>1, <2>2, FrameOf
    <2>5. /\ Others(p) /\ frame'[p].pc = "addresp" /\ frame'[p].op = frame[p].op
          /\ frame'[p].slot = frame[p].slot
      BY <2>1, <2>3, <2>4, FrameOf DEF Others
    <2> QED
      BY <1>1, <2>5, ReturnEnded DEF AddRequest, AddOne, NoFaults
  <1>2. CASE Return(p, "error")
    BY <1>1, <1>2, ReturnEnded DEF AddRequest, AddOne, NoFaults
  <1> QED
    BY <1>1, <1>2 DEF AddRequest

LEMMA AddResponseGoes ==
  ASSUME IInv, NoFaults, NEW p \in Procs, AddResponse(p)
  PROVE  /\ At(p, "addresp") /\ UNCHANGED cache
         /\ \/ Insert(RespSlot(frame[p].slot), frame[p].doc2) /\ Ended(p, "ok")
            \/ NoWrite /\ Went(p, "undo")
  BY ReturnEnded, GotoWent DEF AddResponse, AddOne, NoFaults

LEMMA UndoGoes ==
  ASSUME IInv, NoFaults, NEW p \in Procs, Undo(p)
  PROVE  /\ At(p, "undo") /\ UNCHANGED cache
         /\ \/ Remove(ReqSlot(frame[p].slot)) /\ Went(p, "undoevict")
            \/ NoWrite /\ ~Present(ReqSlot(frame[p].slot)) /\ Ended(p, "error")
  BY ReturnEnded, GotoWent DEF Undo, DeleteRow, NoFaults

\* A call that evicts the key of s, and is about no other slot.
Drops(s) == NoWrite /\ cache' = [cache EXCEPT ![CacheKey(s)] = NoEntry]

LEMMA EvictionGoes ==
  ASSUME IInv, NoFaults, NEW p \in Procs
  PROVE  /\ UndoEvict(p) => At(p, "undoevict") /\ Drops(ReqSlot(frame[p].slot)) /\ Ended(p, "error")
         /\ Evict(p) => At(p, "evict") /\ Drops(frame[p].slot) /\ Ended(p, "ok")
         /\ DeleteRequestEvict(p) =>
              At(p, "delreqevict") /\ Drops(ReqSlot(frame[p].slot)) /\ Went(p, "delresp")
         /\ DeleteResponseEvict(p) =>
              At(p, "delrespevict") /\ Drops(RespSlot(frame[p].slot)) /\ Went(p, "evictreq")
         /\ EvictRequest(p) =>
              At(p, "evictreq") /\ Drops(ReqSlot(frame[p].slot)) /\ Went(p, "evictresp")
         /\ EvictResponse(p) =>
              At(p, "evictresp") /\ Drops(RespSlot(frame[p].slot)) /\ Ended(p, "ok")
  BY ReturnEnded, GotoWent
  DEF UndoEvict, Evict, DeleteRequestEvict, DeleteResponseEvict, EvictRequest, EvictResponse,
      EvictKey, Drops, NoWrite, NoFaults

LEMMA UpsertGoes ==
  ASSUME IInv, NoFaults, NEW p \in Procs, Upsert(p)
  PROVE  /\ At(p, "upsert") /\ UNCHANGED cache
         /\ \/ NoWrite /\ Ended(p, "error")
            \/ /\ Went(p, "evict")
               /\ \/ NoWrite
                  \/ Insert(frame[p].slot, frame[p].doc)
                  \/ Revise(frame[p].slot, frame[p].doc)
  BY ReturnEnded, GotoWent DEF Upsert, UpsertRow, NoFaults

LEMMA DeleteRequestGoes ==
  ASSUME IInv, NoFaults, NEW p \in Procs, DeleteRequest(p)
  PROVE  /\ At(p, "delreq") /\ UNCHANGED cache
         /\ \/ Remove(ReqSlot(frame[p].slot)) /\ Went(p, "delreqevict")
            \/ NoWrite /\ ~Present(ReqSlot(frame[p].slot)) /\ Went(p, "delresp")
  <1>1. ASSUME NEW pc, NEW o, frame' = [frame EXCEPT ![p].pc = pc, ![p].reqErr = o]
        PROVE  Went(p, pc)
    <2>1. PICK f \in Frame : f = frame[p]
      BY FrameOf
    <2>2. PICK u : u = [f EXCEPT !.pc = pc, !.reqErr = o]
      OBVIOUS
    <2>3. u.pc = pc /\ u.op = f.op /\ u.slot = f.slot /\ u.id = f.id /\ u.status = f.status
      BY <2>2 DEF Frame
    <2>4. frame' = [frame EXCEPT ![p] = u]
      BY <1>1, <2>1, <2>2, FrameOf
    <2> QED
      BY <2>1, <2>3, <2>4, FrameOf DEF Went, Others
  <1> QED
    BY <1>1 DEF DeleteRequest, DeleteRow, NoFaults

LEMMA DeleteResponseGoes ==
  ASSUME IInv, NoFaults, NEW p \in Procs, DeleteResponse(p)
  PROVE  /\ At(p, "delresp") /\ UNCHANGED cache
         /\ \/ Remove(RespSlot(frame[p].slot)) /\ Went(p, "delrespevict")
            \/ /\ NoWrite /\ ~Present(RespSlot(frame[p].slot))
               /\ Ended(p, "not_found") \/ Went(p, "evictreq")
  BY ReturnEnded, GotoWent DEF DeleteResponse, DeleteRow, NoFaults

LEMMA ChangeStatusGoes ==
  ASSUME IInv, NoFaults, NEW p \in Procs, ChangeStatus(p)
  PROVE  /\ At(p, "setstatus") /\ UNCHANGED cache
         /\ \/ SetStatus(frame[p].id, frame[p].status) /\ Went(p, "reread")
            \/ NoWrite /\ Ended(p, "not_found")
  BY ReturnEnded, GotoWent DEF ChangeStatus, NoFaults

LEMMA RereadGoes ==
  ASSUME IInv, NoFaults, NEW p \in Procs, Reread(p)
  PROVE  /\ At(p, "reread") /\ UNCHANGED cache /\ NoWrite
         /\ \/ /\ frame[p].status = "rejected" /\ Live(frame[p].id)
               /\ Others(p) /\ frame'[p].pc = "evict" /\ frame'[p].op = frame[p].op
               /\ frame'[p].slot \in SlotsOf(frame[p].id)
            \/ frame[p].status # "rejected" /\ Ended(p, "ok")
            \/ ~Live(frame[p].id) /\ Ended(p, "error")
  <1>1. PICK f \in Frame : f = frame[p]
    BY FrameOf
  <1>0. PICK s : s = CHOOSE x \in SlotsOf(f.id) : TRUE
    OBVIOUS
  <1>2. Live(f.id) => s \in SlotsOf(f.id)
    BY <1>0 DEF Live
  <1>3. ASSUME frame' = [frame EXCEPT ![p].pc = "evict", ![p].slot = s]
        PROVE  Others(p) /\ frame'[p].pc = "evict" /\ frame'[p].op = frame[p].op /\ frame'[p].slot = s
    <2>1. PICK u : u = [f EXCEPT !.pc = "evict", !.slot = s]
      OBVIOUS
    <2>2. u.pc = "evict" /\ u.op = f.op /\ u.slot = s
      BY <2>1 DEF Frame
    <2>3. frame' = [frame EXCEPT ![p] = u]
      BY <1>1, <1>3, <2>1, FrameOf
    <2>4. Others(p) /\ frame'[p].pc = "evict" /\ frame'[p].op = frame[p].op /\ frame'[p].slot = s
      BY <1>1, <2>2, <2>3, FrameOf DEF Others
    <2> QED
      BY <2>4
  <1>4. Reread(p) => At(p, "reread") /\ UNCHANGED cache /\ NoWrite
    BY DEF Reread, NoWrite
  <1>5. \/ /\ Live(f.id) /\ f.status = "rejected"
           /\ frame' = [frame EXCEPT ![p].pc = "evict", ![p].slot = s]
        \/ f.status # "rejected" /\ Return(p, "ok")
        \/ ~Live(f.id) /\ Return(p, "error")
    BY <1>0, <1>1 DEF Reread, NoFaults, Evicts
  <1> QED
    BY <1>1, <1>2, <1>3, <1>4, <1>5, ReturnEnded

-----------------------------------------------------------------------------
(* A call begins, or dies. *)

Firsts == {"cacheget", "add", "upsert", "addreq", "delreq", "setstatus"}

Begun(p) == Others(p) /\ frame'[p].pc \in Firsts /\ Tied(frame'[p])

LEMMA StartBegins ==
  ASSUME IInv, NEW p \in Procs, NEW op, NEW f \in Frame, NEW u, u = [f EXCEPT !.op = op],
         Start(p, op, f), u.pc \in Firsts, Tied(u)
  PROVE  At(p, "idle") /\ NoWrite /\ UNCHANGED cache /\ Begun(p)
  <1>1. frame' = [frame EXCEPT ![p] = u]
    BY DEF Start
  <1>2. frame'[p] = u /\ Others(p)
    BY <1>1, FrameOf DEF Others
  <1> QED
    BY <1>2 DEF Start, NoWrite, Begun

LEMMA BeginGoes ==
  ASSUME IInv, NEW p \in Procs, Begin(p)
  PROVE  At(p, "idle") /\ NoWrite /\ UNCHANGED cache /\ Begun(p)
  <1> DEFINE Done == At(p, "idle") /\ NoWrite /\ UNCHANGED cache /\ Begun(p)
  <1> USE DEF Tied, ReadPcs, PairAdds, DeletePcs, Firsts
  <1>0. Blank \in Frame
    BY BlankTyped
  <1>1. ASSUME NEW s \in Slots, GetStart(p, s) PROVE Done
    <2>1. PICK f : f = [Blank EXCEPT !.pc = "cacheget", !.slot = s]
      OBVIOUS
    <2>2. PICK u : u = [f EXCEPT !.op = "Get"]
      OBVIOUS
    <2>3. f \in Frame /\ u.pc = "cacheget" /\ u.op = "Get"
      BY <2>1, <2>2, <1>0 DEF Frame, Blank, Pcs
    <2>4. Start(p, "Get", f)
      BY <1>1, <2>1 DEF GetStart
    <2> QED
      BY <2>2, <2>3, <2>4, StartBegins DEF Reads
  <1>2. ASSUME NEW s \in Slots, NEW v \in Nat, GetVersionStart(p, s, v) PROVE Done
    <2>1. PICK f : f = [Blank EXCEPT !.pc = "cacheget", !.slot = s, !.ver = v]
      OBVIOUS
    <2>2. PICK u : u = [f EXCEPT !.op = "GetVersion"]
      OBVIOUS
    <2>3. f \in Frame /\ u.pc = "cacheget" /\ u.op = "GetVersion"
      BY <2>1, <2>2, <1>0 DEF Frame, Blank, Pcs
    <2>4. Start(p, "GetVersion", f)
      BY <1>2, <2>1 DEF GetVersionStart
    <2> QED
      BY <2>2, <2>3, <2>4, StartBegins DEF Reads
  <1>3. ASSUME NEW s \in Slots, NEW d \in Docs, AddStart(p, s, d) PROVE Done
    <2>1. PICK f : f = [Blank EXCEPT !.pc = "add", !.slot = s, !.doc = d]
      OBVIOUS
    <2>2. PICK u : u = [f EXCEPT !.op = "Add"]
      OBVIOUS
    <2>3. f \in Frame /\ u.pc = "add" /\ u.op = "Add"
      BY <2>1, <2>2, <1>0 DEF Frame, Blank, Pcs
    <2>4. Start(p, "Add", f)
      BY <1>3, <2>1 DEF AddStart
    <2> QED
      BY <2>2, <2>3, <2>4, StartBegins
  <1>4. ASSUME NEW s \in Slots, NEW d \in Docs, UpsertStart(p, s, d) PROVE Done
    <2>1. PICK f : f = [Blank EXCEPT !.pc = "upsert", !.slot = s, !.doc = d]
      OBVIOUS
    <2>2. PICK u : u = [f EXCEPT !.op = "Upsert"]
      OBVIOUS
    <2>3. f \in Frame /\ u.pc = "upsert" /\ u.op = "Upsert"
      BY <2>1, <2>2, <1>0 DEF Frame, Blank, Pcs
    <2>4. Start(p, "Upsert", f)
      BY <1>4, <2>1 DEF UpsertStart
    <2> QED
      BY <2>2, <2>3, <2>4, StartBegins
  <1>5. ASSUME NEW s \in PairSlots, NEW d \in Docs, NEW e \in Docs, AddPairStart(p, s, d, e)
        PROVE  Done
    <2>1. PICK f : f = [Blank EXCEPT !.pc = "addreq", !.slot = s, !.doc = d, !.doc2 = e]
      OBVIOUS
    <2>2. PICK u : u = [f EXCEPT !.op = "AddPair"]
      OBVIOUS
    <2>3. f \in Frame /\ u.pc = "addreq" /\ u.op = "AddPair"
      BY <2>1, <2>2, <1>0, PairHalves DEF Frame, Blank, Pcs
    <2>4. Start(p, "AddPair", f)
      BY <1>5, <2>1 DEF AddPairStart
    <2> QED
      BY <2>2, <2>3, <2>4, StartBegins
  <1>6. ASSUME NEW s \in PairSlots, DeleteStart(p, s) PROVE Done
    <2>1. PICK f : f = [Blank EXCEPT !.pc = "delreq", !.slot = s]
      OBVIOUS
    <2>2. PICK u : u = [f EXCEPT !.op = "Delete"]
      OBVIOUS
    <2>3. f \in Frame /\ u.pc = "delreq" /\ u.op = "Delete"
      BY <2>1, <2>2, <1>0, PairHalves DEF Frame, Blank, Pcs
    <2>4. Start(p, "Delete", f)
      BY <1>6, <2>1 DEF DeleteStart
    <2> QED
      BY <2>2, <2>3, <2>4, StartBegins
  <1>7. ASSUME NEW i \in Nat, NEW st \in Decisions, ChangeStatusStart(p, i, st) PROVE Done
    <2>1. PICK f : f = [Blank EXCEPT !.pc = "setstatus", !.id = i, !.status = st]
      OBVIOUS
    <2>2. PICK u : u = [f EXCEPT !.op = "ChangeStatus"]
      OBVIOUS
    <2>3. f \in Frame /\ u.pc = "setstatus" /\ u.op = "ChangeStatus" /\ u.status = st
      BY <2>1, <2>2, <1>0 DEF Frame, Blank, Pcs, Decisions, Statuses
    <2>4. Start(p, "ChangeStatus", f)
      BY <1>7, <2>1 DEF ChangeStatusStart
    <2> QED
      BY <2>2, <2>3, <2>4, StartBegins
  <1>8. 1 .. MaxVersion \subseteq Nat /\ 1 .. nextId \subseteq Nat
    BY ServiceAssumption DEF IInv, StoreInv
  <1> HIDE DEF Done
  <1>9. Done
    BY <1>1, <1>2, <1>3, <1>4, <1>5, <1>6, <1>7, <1>8 DEF Begin
  <1> QED
    BY <1>9 DEF Done

LEMMA CrashGoes ==
  ASSUME IInv, NEW p \in Procs, Crash(p)
  PROVE  Others(p) /\ frame'[p].pc = "idle" /\ NoWrite /\ UNCHANGED cache
  <1>1. PICK u : u = Blank
    OBVIOUS
  <1>2. frame' = [frame EXCEPT ![p] = u] /\ u.pc = "idle"
    BY <1>1 DEF Crash, Blank
  <1>3. frame'[p] = u /\ Others(p)
    BY <1>2, FrameOf DEF Others
  <1> QED
    BY <1>2, <1>3 DEF Crash, NoWrite

-----------------------------------------------------------------------------
(* What the observer has seen. *)

LEMMA WatchSees == ASSUME Watch PROVE Seen'
  <1>1. PICK r \in BOOLEAN : r = (met.raced \/ Together(Reads, Writes)')
    OBVIOUS
  <1>2. PICK l \in BOOLEAN : l = (\/ met.loose
                                  \/ Together({"AddPair"}, {"Delete"})'
                                  \/ \E p \in InFlight' : frame'[p].op \in {"Add", "Upsert"})
    OBVIOUS
  <1>3. PICK a : a = {p \in InFlight' : InFlight' = {p} /\ (At(p, "idle") \/ p \in met.alone)}
    OBVIOUS
  <1>4. met' = [raced |-> r, loose |-> l, alone |-> a]
    BY <1>1, <1>2, <1>3 DEF Watch
  <1>5. met'.raced = r /\ met'.loose = l /\ met'.alone = a
    BY <1>4
  <1>6. a \in SUBSET Procs /\ \A p \in a : InFlight' = {p}
    BY <1>3 DEF InFlight
  <1>7. met' \in [raced : BOOLEAN, loose : BOOLEAN, alone : SUBSET Procs]
    BY <1>1, <1>2, <1>4, <1>6
  <1> QED
    BY <1>1, <1>2, <1>5, <1>6, <1>7 DEF Seen

LEMMA StutterSeen == ASSUME Seen, UNCHANGED quietVars PROVE Seen'
  BY DEF Seen, quietVars, Together, InFlight, At

LEMMA InitSeen == QuietInit => Seen
  <1>1. QuietInit => InFlight = {}
    BY DEF QuietInit, Init, InFlight, At, Blank
  <1> QED
    BY <1>1 DEF QuietInit, Seen, Together

LEMMA InvNext == IInv /\ [QuietNext]_quietVars => IInv'
  <1>1. UNCHANGED quietVars => UNCHANGED vars
    BY DEF quietVars, vars
  <1>2. QuietNext => Next
    BY DEF QuietNext
  <1> QED
    BY <1>1, <1>2, NextInv

LEMMA AlwaysSeen == QuietSpec => [](IInv /\ Seen)
  <1>1. QuietInit => IInv /\ Seen
    BY InitInv, InitSeen DEF QuietInit
  <1>2. IInv /\ Seen /\ [QuietNext]_quietVars => (IInv /\ Seen)'
    BY InvNext, WatchSees, StutterSeen DEF QuietNext
  <1> QED
    BY <1>1, <1>2, PTL DEF QuietSpec

\* A step in flight of operation op that leaves the call where its operation may be.
LEMMA ReadOnTied ==
  ASSUME IInv, NEW p \in Procs, Tied(frame[p]), frame[p].pc \in ReadPcs, ReadOn(p)
  PROVE  Others(p) /\ frame'[p].op = frame[p].op /\ Tied(frame'[p])
  <1>1. frame[p].op \in Reads
    BY DEF Tied
  <1>2. Others(p) /\ frame'[p].op = frame[p].op /\ frame'[p].pc \in ReadPcs \cup {"idle"}
    BY DEF ReadOn, Ended, Went, FoundRow, ReadPcs
  <1> QED
    BY <1>1, <1>2 DEF Tied, ReadPcs, PairAdds, DeletePcs

LEMMA EndedTied ==
  ASSUME NEW p \in Procs, NEW o, Ended(p, o)
  PROVE  Others(p) /\ frame'[p].op = frame[p].op /\ Tied(frame'[p])
  BY DEF Ended, Tied, ReadPcs, PairAdds, DeletePcs

LEMMA WriteTied ==
  ASSUME IInv, NoFaults, NEW p \in Procs, Tied(frame[p]),
         \/ Add(p) \/ AddRequest(p) \/ AddResponse(p) \/ Undo(p) \/ UndoEvict(p)
         \/ Upsert(p) \/ Evict(p) \/ ChangeStatus(p) \/ Reread(p)
  PROVE  Others(p) /\ frame'[p].op = frame[p].op /\ Tied(frame'[p])
  <1> USE DEF At, Went, Tied, ReadPcs, PairAdds, DeletePcs
  <1>1. CASE Add(p) \/ UndoEvict(p) \/ Evict(p)
    BY <1>1, AddGoes, EvictionGoes, EndedTied
  <1>2. CASE AddRequest(p)
    BY <1>2, AddRequestGoes, EndedTied
  <1>3. CASE AddResponse(p)
    BY <1>3, AddResponseGoes, EndedTied
  <1>4. CASE Undo(p)
    BY <1>4, UndoGoes, EndedTied
  <1>5. CASE Upsert(p)
    BY <1>5, UpsertGoes, EndedTied
  <1>6. CASE ChangeStatus(p)
    BY <1>6, ChangeStatusGoes, EndedTied
  <1>7. CASE Reread(p)
    BY <1>7, RereadGoes, EndedTied
  <1> QED
    BY <1>1, <1>2, <1>3, <1>4, <1>5, <1>6, <1>7

DeleteStep(p) ==
  \/ DeleteRequest(p) \/ DeleteRequestEvict(p) \/ DeleteResponse(p)
  \/ DeleteResponseEvict(p) \/ EvictRequest(p) \/ EvictResponse(p)

LEMMA DeleteTied ==
  ASSUME IInv, NoFaults, NEW p \in Procs, Tied(frame[p]), DeleteStep(p)
  PROVE  Others(p) /\ frame'[p].op = frame[p].op /\ Tied(frame'[p])
  <1> USE DEF At, Went, Tied, ReadPcs, PairAdds, DeletePcs
  <1>1. CASE DeleteRequest(p)
    BY <1>1, DeleteRequestGoes
  <1>2. CASE DeleteResponse(p)
    BY <1>2, DeleteResponseGoes, EndedTied
  <1>3. CASE DeleteRequestEvict(p) \/ DeleteResponseEvict(p) \/ EvictRequest(p) \/ EvictResponse(p)
    BY <1>3, EvictionGoes, EndedTied
  <1> QED
    BY <1>1, <1>2, <1>3 DEF DeleteStep

LEMMA StepTied ==
  ASSUME IInv, NoFaults, NEW p \in Procs, Tied(frame[p]), Step(p)
  PROVE  Others(p) /\ frame'[p].op = frame[p].op /\ Tied(frame'[p])
  <1>1. CASE ReadStep(p)
    BY <1>1, ReadGoes, ReadOnTied
  <1> QED
    BY <1>1, WriteTied, DeleteTied DEF Step, ReadStep, DeleteStep

LEMMA WatchedNext == ASSUME NoFaults PROVE Watched /\ [QuietNext]_quietVars => Watched'
  <1> SUFFICES ASSUME Watched, [QuietNext]_quietVars PROVE Watched'
    OBVIOUS
  <1>1. IInv' /\ Seen'
    BY InvNext, WatchSees, StutterSeen DEF Watched, QuietNext
  <1>2. ASSUME NEW q \in Procs PROVE Tied(frame'[q])
    <2>1. Tied(frame[q])
      BY DEF Watched
    <2>2. CASE UNCHANGED frame
      BY <2>1, <2>2
    <2>3. ASSUME NEW p \in Procs, Begin(p) \/ Step(p) \/ Crash(p) PROVE Tied(frame'[q])
      <3>1. Others(p) /\ Tied(frame'[p])
        BY <2>3, BeginGoes, StepTied, CrashGoes
        DEF Watched, Begun, Tied, ReadPcs, PairAdds, DeletePcs
      <3> QED
        BY <2>1, <3>1 DEF Others
    <2> QED
      BY <2>2, <2>3 DEF QuietNext, Next, Expire, quietVars
  <1> QED
    BY <1>1, <1>2 DEF Watched

LEMMA InitWatched == QuietInit => Watched
  BY InitInv, InitSeen
  DEF QuietInit, Init, Watched, Blank, Tied, ReadPcs, PairAdds, DeletePcs

-----------------------------------------------------------------------------
(* Coherence.  As long as no read meets a write, an entry of a row that is *)
(* not current is one that a call in flight has made so and will evict.    *)

\* p has changed the row of s, and its key is still to be evicted.
Withdraws(p, s) ==
  \/ At(p, "evict") /\ frame[p].slot = s
  \/ At(p, "reread") /\ frame[p].status = "rejected" /\ Present(s) /\ store[s].id = frame[p].id
  \/ frame[p].pc \in {"undoevict", "delreqevict"} /\ ReqSlot(frame[p].slot) = s
  \/ At(p, "delrespevict") /\ RespSlot(frame[p].slot) = s

\* c is no copy of the row of s, or the one that is served now.
Current(c, s) == (c # NoEntry /\ c.slot = s) => (Verified(s) /\ c = CopyOf(s))

Accounted(s) == Current(cache[CacheKey(s)], s) \/ \E p \in Procs : Withdraws(p, s)

Withdrawals ==
  ~met.raced =>
    /\ \A s \in Slots : Accounted(s)
    /\ \A p \in Procs : At(p, "fill") => Current(frame[p].copy, frame[p].copy.slot)

\* The step of p leaves the entry of s accounted for.
Settled(p, s) ==
  \/ Withdraws(p, s)'
  \/ cache'[CacheKey(s)] = NoEntry
  \/ /\ cache'[CacheKey(s)] = cache[CacheKey(s)] /\ ~Withdraws(p, s)
     /\ Verified(s) => store'[s] = store[s]
     /\ Present(s) => Present(s)' /\ store'[s].id = store[s].id

LEMMA RowStaysCurrent ==
  ASSUME NEW s, NEW c, Current(c, s), Verified(s) => store'[s] = store[s]
  PROVE  Current(c, s)'
  BY DEF Current, Verified, Present, CopyOf, Version, Content

LEMMA SettledAccounted ==
  ASSUME NEW p \in Procs, Others(p), NEW s \in Slots, Accounted(s), Settled(p, s)
  PROVE  Accounted(s)'
  <1>1. CASE Withdraws(p, s)'
    BY <1>1 DEF Accounted
  <1>2. CASE cache'[CacheKey(s)] = NoEntry
    BY <1>2 DEF Accounted, Current
  <1>3. CASE /\ cache'[CacheKey(s)] = cache[CacheKey(s)] /\ ~Withdraws(p, s)
             /\ Verified(s) => store'[s] = store[s]
             /\ Present(s) => Present(s)' /\ store'[s].id = store[s].id
    <2>1. CASE Current(cache[CacheKey(s)], s)
      <3>1. PICK c : c = cache[CacheKey(s)]
        OBVIOUS
      <3>2. Current(c, s)'
        BY <1>3, <2>1, <3>1, RowStaysCurrent
      <3> QED
        BY <1>3, <3>1, <3>2 DEF Accounted, Current
    <2>2. CASE \E q \in Procs : Withdraws(q, s)
      <3>1. PICK q \in Procs : Withdraws(q, s)
        BY <2>2
      <3>2. q # p /\ frame'[q] = frame[q]
        BY <1>3, <3>1 DEF Others
      <3>3. Withdraws(q, s)'
        BY <1>3, <3>1, <3>2 DEF Withdraws, At
      <3> QED
        BY <3>3 DEF Accounted
    <2> QED
      BY <2>1, <2>2 DEF Accounted
  <1> QED
    BY <1>1, <1>2, <1>3 DEF Settled

\* The writes of the store, slot by slot.
LEMMA InsertSlot ==
  ASSUME StoreInv, NEW t \in Slots, NEW d \in Docs, Insert(t, d)
  PROVE  \A s \in Slots : /\ s = t => ~Present(s) /\ Present(s)'
                          /\ s # t => store'[s] = store[s]
  <1>0. <<d>> \in Seq(Docs)
    OBVIOUS
  <1>1. NewRow(d) \in Row
    BY <1>0 DEF NewRow, Row, Statuses, StoreInv
  <1>2. NewRow(d) # NoRow
    BY <1>1, NoRowAssumption
  <1> QED
    BY <1>2 DEF Insert, StoreInv, StoreTypeOK, Present

LEMMA RemoveSlot ==
  ASSUME StoreInv, NEW t \in Slots, Remove(t)
  PROVE  \A s \in Slots : /\ s = t => Present(s) /\ ~Present(s)'
                          /\ s # t => store'[s] = store[s]
  BY DEF Remove, StoreInv, StoreTypeOK, Present

LEMMA ReviseSlot ==
  ASSUME StoreInv, NEW t \in Slots, NEW d, Revise(t, d)
  PROVE  \A s \in Slots : s # t => store'[s] = store[s]
  BY DEF Revise, StoreInv, StoreTypeOK

LEMMA SetStatusSlot ==
  ASSUME StoreInv, NEW i, NEW st \in Statuses, SetStatus(i, st), NEW s \in Slots
  PROVE  /\ Present(s) => Present(s)' /\ store'[s].id = store[s].id
         /\ ~(Present(s) /\ store[s].id = i) => store'[s] = store[s]
         /\ Verified(s) /\ st = "verified" => store'[s] = store[s]
  <1>1. s \in SlotsOf(i) <=> Present(s) /\ store[s].id = i
    BY DEF SlotsOf
  <1>2. CASE s \notin SlotsOf(i)
    BY <1>1, <1>2 DEF SetStatus, Present
  <1>3. CASE s \in SlotsOf(i)
    <2>1. PICK r : r = store[s]
      OBVIOUS
    <2>2. r \in Row
      BY <1>1, <1>3, <2>1 DEF StoreInv, StoreTypeOK, Present
    <2>3. PICK u : u = [r EXCEPT !.status = st]
      OBVIOUS
    <2>4. u.id = r.id /\ u # NoRow /\ (r.status = st => u = r)
      BY <2>2, <2>3, NoRowAssumption DEF Row
    <2>5. store'[s] = u
      BY <1>3, <2>1, <2>3 DEF SetStatus
    <2> QED
      BY <1>1, <1>3, <2>1, <2>2, <2>4, <2>5 DEF Verified, Present
  <1> QED
    BY <1>2, <1>3

\* A step that leaves store and cache alone, of a call with nothing to evict.
LEMMA IdleSettles ==
  ASSUME NEW p \in Procs, NoWrite, UNCHANGED cache,
         frame[p].pc \notin {"evict", "reread", "undoevict", "delreqevict", "delrespevict"},
         NEW s
  PROVE  Settled(p, s)
  BY DEF Settled, Withdraws, At, NoWrite, Present

\* A step that evicts the key of t, of a call with no other key to evict.
LEMMA DropSettles ==
  ASSUME IInv, NEW p \in Procs, NEW t, Drops(t), NEW s \in Slots, Withdraws(p, s) => s = t
  PROVE  Settled(p, s)
  <1>1. CASE CacheKey(s) = CacheKey(t)
    BY <1>1 DEF Settled, Drops, IInv, Keys
  <1>2. CASE CacheKey(s) # CacheKey(t)
    BY <1>2 DEF Settled, Drops, NoWrite, Present, IInv, Keys
  <1> QED
    BY <1>1, <1>2

\* A removal by a call that goes on to evict.
LEMMA RemoveSettles ==
  ASSUME IInv, NEW p \in Procs, NEW t \in Slots, Remove(t), Withdraws(p, t)', UNCHANGED cache,
         frame[p].pc \in {"undo", "delreq", "delresp"}, NEW s \in Slots
  PROVE  Settled(p, s)
  <1>1. CASE s = t
    BY <1>1 DEF Settled
  <1>2. CASE s # t
    BY <1>2, RemoveSlot DEF Settled, Withdraws, At, Present, IInv
  <1> QED
    BY <1>1, <1>2

LEMMA InsertSettles ==
  ASSUME IInv, NEW p \in Procs, NEW t \in Slots, NEW d \in Docs, Insert(t, d), UNCHANGED cache,
         frame[p].pc \in {"add", "addreq", "addresp", "upsert"}, NEW s \in Slots
  PROVE  Settled(p, s)
  BY InsertSlot DEF Settled, Withdraws, At, Present, Verified, IInv

LEMMA AddsSettle ==
  ASSUME IInv, NoFaults, NEW p \in Procs, NEW s \in Slots,
         Add(p) \/ AddRequest(p) \/ AddResponse(p)
  PROVE  Settled(p, s)
  <1>1. frame[p] \in Frame /\ frame[p].slot \in Slots /\ frame[p].doc \in Docs /\ frame[p].doc2 \in Docs
    BY FrameOf DEF Frame
  <1>2. frame[p].pc \in PairPcs =>
          ReqSlot(frame[p].slot) \in Slots /\ RespSlot(frame[p].slot) \in Slots
    BY FrameOf, PairHalves DEF FrameOK
  <1>3. CASE Add(p)
    BY <1>1, <1>3, AddGoes, InsertSettles, IdleSettles DEF At
  <1>4. CASE AddRequest(p)
    BY <1>1, <1>2, <1>4, AddRequestGoes, InsertSettles, IdleSettles DEF At, PairPcs
  <1>5. CASE AddResponse(p)
    BY <1>1, <1>2, <1>5, AddResponseGoes, InsertSettles, IdleSettles DEF At, PairPcs
  <1> QED
    BY <1>3, <1>4, <1>5

LEMMA RemovesSettle ==
  ASSUME IInv, NoFaults, NEW p \in Procs, NEW s \in Slots,
         Undo(p) \/ DeleteRequest(p) \/ DeleteResponse(p)
  PROVE  Settled(p, s)
  <1>1. PICK t : t = ReqSlot(frame[p].slot)
    OBVIOUS
  <1>2. PICK r : r = RespSlot(frame[p].slot)
    OBVIOUS
  <1>3. frame[p].pc \in {"undo", "delreq", "delresp"} => t \in Slots /\ r \in Slots
    BY <1>1, <1>2, FrameOf, PairHalves DEF FrameOK, PairPcs
  <1>4. Went(p, "undoevict") \/ Went(p, "delreqevict") => Withdraws(p, t)'
    BY <1>1 DEF Went, Withdraws
  <1>5. Went(p, "delrespevict") => Withdraws(p, r)'
    BY <1>2 DEF Went, Withdraws, At
  <1>6. CASE NoWrite /\ UNCHANGED cache /\ frame[p].pc \in {"undo", "delreq", "delresp"}
    BY <1>6, IdleSettles
  <1>7. ASSUME NEW u \in Slots, Remove(u), Withdraws(p, u)', UNCHANGED cache,
               frame[p].pc \in {"undo", "delreq", "delresp"}
        PROVE  Settled(p, s)
    BY <1>7, RemoveSettles
  <1>8. CASE Undo(p)
    <2>1. At(p, "undo") /\ UNCHANGED cache /\ (NoWrite \/ (Remove(t) /\ Went(p, "undoevict")))
      BY <1>1, <1>8, UndoGoes
    <2> QED
      BY <1>3, <1>4, <1>6, <1>7, <2>1 DEF At
  <1>9. CASE DeleteRequest(p)
    <2>1. At(p, "delreq") /\ UNCHANGED cache /\ (NoWrite \/ (Remove(t) /\ Went(p, "delreqevict")))
      BY <1>1, <1>9, DeleteRequestGoes
    <2> QED
      BY <1>3, <1>4, <1>6, <1>7, <2>1 DEF At
  <1>10. CASE DeleteResponse(p)
    <2>1. At(p, "delresp") /\ UNCHANGED cache /\ (NoWrite \/ (Remove(r) /\ Went(p, "delrespevict")))
      BY <1>2, <1>10, DeleteResponseGoes
    <2> QED
      BY <1>3, <1>5, <1>6, <1>7, <2>1 DEF At
  <1> QED
    BY <1>8, <1>9, <1>10

LEMMA EvictionsSettle ==
  ASSUME IInv, NoFaults, NEW p \in Procs, NEW s \in Slots,
         \/ UndoEvict(p) \/ Evict(p) \/ DeleteRequestEvict(p) \/ DeleteResponseEvict(p)
         \/ EvictRequest(p) \/ EvictResponse(p)
  PROVE  Settled(p, s)
  <1>1. CASE UndoEvict(p) \/ DeleteRequestEvict(p) \/ EvictRequest(p)
    <2>1. Drops(ReqSlot(frame[p].slot)) /\ frame[p].pc \in {"undoevict", "delreqevict", "evictreq"}
      BY <1>1, EvictionGoes DEF At
    <2>2. Withdraws(p, s) => s = ReqSlot(frame[p].slot)
      BY <2>1 DEF Withdraws, At
    <2> QED
      BY <2>1, <2>2, DropSettles
  <1>2. CASE DeleteResponseEvict(p) \/ EvictResponse(p)
    <2>1. Drops(RespSlot(frame[p].slot)) /\ frame[p].pc \in {"delrespevict", "evictresp"}
      BY <1>2, EvictionGoes DEF At
    <2>2. Withdraws(p, s) => s = RespSlot(frame[p].slot)
      BY <2>1 DEF Withdraws, At
    <2> QED
      BY <2>1, <2>2, DropSettles
  <1>3. CASE Evict(p)
    <2>1. Drops(frame[p].slot) /\ frame[p].pc = "evict"
      BY <1>3, EvictionGoes DEF At
    <2>2. Withdraws(p, s) => s = frame[p].slot
      BY <2>1 DEF Withdraws, At
    <2> QED
      BY <2>1, <2>2, DropSettles
  <1> QED
    BY <1>1, <1>2, <1>3

LEMMA UpsertSettles ==
  ASSUME IInv, NoFaults, NEW p \in Procs, NEW s \in Slots, Upsert(p)
  PROVE  Settled(p, s)
  <1>1. frame[p].slot \in Slots /\ frame[p].doc \in Docs
    BY FrameOf DEF Frame
  <1>2. CASE NoWrite
    BY <1>2, UpsertGoes, IdleSettles DEF At
  <1>3. CASE Insert(frame[p].slot, frame[p].doc)
    BY <1>1, <1>3, UpsertGoes, InsertSettles DEF At
  <1>4. CASE Revise(frame[p].slot, frame[p].doc)
    <2>1. CASE s = frame[p].slot /\ Went(p, "evict")
      BY <2>1 DEF Settled, Withdraws, Went, At
    <2>2. CASE s # frame[p].slot
      BY <1>1, <1>4, <2>2, ReviseSlot, UpsertGoes DEF Settled, Withdraws, At, Present, IInv
    <2>3. CASE NoWrite
      BY <2>3, UpsertGoes, IdleSettles DEF At
    <2> QED
      BY <2>1, <2>2, <2>3, UpsertGoes
  <1> QED
    BY <1>2, <1>3, <1>4, UpsertGoes

LEMMA DecisionSettles ==
  ASSUME IInv, NoFaults, NEW p \in Procs, Tied(frame[p]), NEW s \in Slots,
         ChangeStatus(p) \/ Reread(p)
  PROVE  Settled(p, s)
  <1>1. frame[p].pc \in {"setstatus", "reread"} => frame[p].status \in {"verified", "rejected"}
    BY DEF Tied, Decisions
  <1>2. frame[p].status \in Statuses
    BY FrameOf DEF Frame
  <1>3. CASE ChangeStatus(p)
    <2>1. CASE NoWrite
      BY <1>3, <2>1, ChangeStatusGoes, IdleSettles DEF At
    <2>2. CASE SetStatus(frame[p].id, frame[p].status) /\ Went(p, "reread")
      <3>1. UNCHANGED cache /\ frame[p].pc = "setstatus" /\ ~Withdraws(p, s)
        BY <1>3, ChangeStatusGoes DEF At, Withdraws
      <3>2. /\ Present(s) => Present(s)' /\ store'[s].id = store[s].id
            /\ ~(Present(s) /\ store[s].id = frame[p].id) => store'[s] = store[s]
            /\ Verified(s) /\ frame[p].status = "verified" => store'[s] = store[s]
        BY <1>2, <2>2, SetStatusSlot DEF IInv
      <3>3. CASE frame[p].status = "rejected" /\ Present(s) /\ store[s].id = frame[p].id
        BY <2>2, <3>2, <3>3 DEF Settled, Withdraws, Went, At
      <3> QED
        BY <1>1, <3>1, <3>2, <3>3 DEF Settled
    <2> QED
      BY <1>3, <2>1, <2>2, ChangeStatusGoes
  <1>4. CASE Reread(p)
    <2>1. At(p, "reread") /\ UNCHANGED cache /\ NoWrite
      BY <1>4, RereadGoes
    <2>2. CASE ~Withdraws(p, s)
      BY <2>1, <2>2 DEF Settled, NoWrite, Present
    <2>3. CASE Withdraws(p, s)
      <3>1. frame[p].status = "rejected" /\ Present(s) /\ store[s].id = frame[p].id
        BY <2>1, <2>3 DEF Withdraws, At
      <3>2. s \in SlotsOf(frame[p].id) /\ Live(frame[p].id)
        BY <3>1 DEF SlotsOf, Live
      <3>3. frame'[p].pc = "evict" /\ frame'[p].slot \in SlotsOf(frame[p].id)
        BY <1>4, <3>1, <3>2, RereadGoes
      <3>4. frame'[p].slot = s
        BY <3>1, <3>3 DEF SlotsOf, IInv, StoreInv
      <3> QED
        BY <3>3, <3>4 DEF Settled, Withdraws, At
    <2> QED
      BY <2>2, <2>3
  <1> QED
    BY <1>3, <1>4

LEMMA WriteSettles ==
  ASSUME IInv, NoFaults, NEW p \in Procs, Tied(frame[p]), NEW s \in Slots, Step(p), ~ReadStep(p)
  PROVE  Settled(p, s)
  BY AddsSettle, RemovesSettle, EvictionsSettle, UpsertSettles, DecisionSettles
  DEF Step, ReadStep

\* A write in flight, as long as it met no read: nobody is about to fill the cache.
LEMMA NoFill ==
  ASSUME Watched, NoFaults, ~met.raced, NEW p \in Procs, Step(p), ~ReadStep(p), NEW q \in Procs
  PROVE  ~At(q, "fill")'
  <1>1. IInv /\ Tied(frame[p]) /\ Tied(frame[q]) /\ frame[p] \in Frame
    BY FrameOf DEF Watched
  <1>2. frame[p].pc \notin ReadPcs \cup {"idle"}
    BY <1>1, AddGoes, AddRequestGoes, AddResponseGoes, UndoGoes, EvictionGoes, UpsertGoes,
       DeleteRequestGoes, DeleteResponseGoes, ChangeStatusGoes, RereadGoes
    DEF Step, ReadStep, At, ReadPcs
  <1>3. frame[p].op \in Writes
    BY <1>1, <1>2 DEF Tied, Frame, Pcs, ReadPcs, PairAdds, DeletePcs, Writes
  <1>4. Others(p) /\ frame'[p].op = frame[p].op /\ Tied(frame'[p])
    BY <1>1, StepTied
  <1>5. ~At(p, "fill")'
    BY <1>3, <1>4 DEF Tied, At, ReadPcs, Reads, Writes
  <1>6. At(q, "fill") => q = p
    BY <1>1, <1>2, <1>3 DEF Watched, Seen, Together, InFlight, At, Tied, ReadPcs
  <1> QED
    BY <1>4, <1>5, <1>6 DEF Others, At

LEMMA WriteWithdraws ==
  ASSUME Watched, Withdrawals, NoFaults, ~met.raced, NEW p \in Procs, Step(p), ~ReadStep(p)
  PROVE  Withdrawals'
  <1>1. IInv /\ Tied(frame[p]) /\ Others(p)
    BY StepTied DEF Watched
  <1>2. \A s \in Slots : Accounted(s)'
    BY <1>1, WriteSettles, SettledAccounted DEF Withdrawals
  <1>3. \A q \in Procs : ~At(q, "fill")'
    BY NoFill
  <1> QED
    BY <1>2, <1>3 DEF Withdrawals

\* A step that leaves the store alone leaves what is current current.
LEMMA StillCurrent ==
  ASSUME NoWrite, NEW c, NEW s, Current(c, s) PROVE Current(c, s)'
  BY RowStaysCurrent DEF NoWrite

LEMMA ReadWithdraws ==
  ASSUME Watched, Withdrawals, ~met.raced, NEW p \in Procs, ReadStep(p)
  PROVE  Withdrawals'
  <1>1. IInv /\ frame[p].pc \in ReadPcs /\ NoWrite /\ ReadOn(p)
    BY ReadGoes DEF Watched
  <1>2. Others(p)
    BY <1>1 DEF ReadOn, Ended, Went, FoundRow
  <1>3. ASSUME NEW s \in Slots PROVE Accounted(s)'
    <2>1. CASE UNCHANGED cache
      BY <1>1, <1>2, <2>1, IdleSettles, SettledAccounted DEF Withdrawals, ReadPcs
    <2>2. CASE /\ At(p, "fill")
               /\ cache' = [cache EXCEPT ![CacheKey(frame[p].slot)] = frame[p].copy]
      <3>1. CASE CacheKey(s) = CacheKey(frame[p].slot)
        <4>1. PICK c : c = frame[p].copy
          OBVIOUS
        <4>2. Current(c, s)
          BY <2>2, <4>1 DEF Withdrawals, Current
        <4>3. Current(c, s)'
          BY <1>1, <4>2, StillCurrent
        <4>4. cache'[CacheKey(s)] = c
          BY <1>1, <2>2, <3>1, <4>1 DEF IInv, Keys
        <4> QED
          BY <4>3, <4>4 DEF Accounted, Current
      <3>2. CASE CacheKey(s) # CacheKey(frame[p].slot)
        <4>1. cache'[CacheKey(s)] = cache[CacheKey(s)]
          BY <1>1, <2>2, <3>2 DEF IInv, Keys
        <4>2. Settled(p, s)
          BY <1>1, <2>2, <4>1 DEF Settled, Withdraws, At, NoWrite, Present
        <4> QED
          BY <1>2, <4>2, SettledAccounted DEF Withdrawals
      <3> QED
        BY <3>1, <3>2
    <2> QED
      BY <2>1, <2>2, <1>1, ReadGoes
  <1>4. ASSUME NEW q \in Procs, At(q, "fill")'
        PROVE  Current(frame[q].copy, frame[q].copy.slot)'
    <2>1. CASE q # p
      <3>1. PICK c, s : c = frame[q].copy /\ s = frame[q].copy.slot
        OBVIOUS
      <3>2. frame'[q] = frame[q] /\ Current(c, s)
        BY <1>2, <1>4, <2>1, <3>1 DEF Others, At, Withdrawals
      <3>3. Current(c, s)'
        BY <1>1, <3>2, StillCurrent
      <3> QED
        BY <3>1, <3>2, <3>3 DEF Current
    <2>2. CASE q = p
      <3>1. PICK s \in {frame[p].slot, Generic(frame[p].slot)} : FoundRow(p, s)
        BY <1>1, <1>4, <2>2 DEF ReadOn, Ended, Went, At
      <3>2. PICK c : c = CopyOf(s)
        OBVIOUS
      <3>3. c.slot = s /\ Current(c, s)
        BY <3>1, <3>2 DEF FoundRow, CopyOf, Current
      <3>4. Current(c, s)'
        BY <1>1, <3>3, StillCurrent
      <3> QED
        BY <2>2, <3>1, <3>2, <3>3, <3>4 DEF FoundRow, Current
    <2> QED
      BY <2>1, <2>2
  <1> QED
    BY <1>3, <1>4 DEF Withdrawals

LEMMA BeginWithdraws ==
  ASSUME Watched, Withdrawals, ~met.raced, NEW p \in Procs, Begin(p) PROVE Withdrawals'
  <1>1. IInv /\ At(p, "idle") /\ NoWrite /\ UNCHANGED cache /\ Begun(p)
    BY BeginGoes DEF Watched
  <1>2. \A s \in Slots : Accounted(s)'
    BY <1>1, IdleSettles, SettledAccounted DEF Withdrawals, Begun, At
  <1>3. ASSUME NEW q \in Procs, At(q, "fill")'
        PROVE  Current(frame[q].copy, frame[q].copy.slot)'
    <2>1. PICK c, s : c = frame[q].copy /\ s = frame[q].copy.slot
      OBVIOUS
    <2>2. frame'[q] = frame[q] /\ Current(c, s)
      BY <1>1, <1>3, <2>1 DEF Others, Begun, Firsts, At, Withdrawals
    <2>3. Current(c, s)'
      BY <1>1, <2>2, StillCurrent
    <2> QED
      BY <2>1, <2>2, <2>3 DEF Current
  <1> QED
    BY <1>2, <1>3 DEF Withdrawals

LEMMA ExpireWithdraws ==
  ASSUME Watched, Withdrawals, ~met.raced, NEW k \in Keys, Expire(k) PROVE Withdrawals'
  <1>1. NoWrite /\ UNCHANGED frame /\ cache' = [cache EXCEPT ![k] = NoEntry]
    BY DEF Expire, NoWrite
  <1>2. ASSUME NEW s \in Slots PROVE Accounted(s)'
    <2>1. PICK c : c = cache[CacheKey(s)]
      OBVIOUS
    <2>2. cache'[CacheKey(s)] \in {c, NoEntry}
      BY <1>1, <2>1 DEF Watched, IInv, Keys
    <2>3. CASE Current(c, s)
      <3>1. Current(c, s)'
        BY <1>1, <2>3, StillCurrent
      <3> QED
        BY <2>2, <3>1 DEF Accounted, Current
    <2>4. CASE \E q \in Procs : Withdraws(q, s)
      BY <1>1, <2>4 DEF Accounted, Withdraws, At, NoWrite, Present
    <2> QED
      BY <2>1, <2>3, <2>4 DEF Withdrawals, Accounted
  <1>3. ASSUME NEW q \in Procs, At(q, "fill")'
        PROVE  Current(frame[q].copy, frame[q].copy.slot)'
    <2>1. PICK c, s : c = frame[q].copy /\ s = frame[q].copy.slot
      OBVIOUS
    <2>2. Current(c, s)'
      BY <1>1, <1>3, <2>1, StillCurrent DEF At, Withdrawals
    <2> QED
      BY <1>1, <2>1, <2>2 DEF Current
  <1> QED
    BY <1>2, <1>3 DEF Withdrawals

LEMMA WithdrawalsNext ==
  ASSUME NoFaults, Crashes = FALSE
  PROVE  Watched /\ Withdrawals /\ [QuietNext]_quietVars => Withdrawals'
  <1> SUFFICES ASSUME Watched, Withdrawals, [QuietNext]_quietVars PROVE Withdrawals'
    OBVIOUS
  <1>1. CASE UNCHANGED quietVars
    BY <1>1 DEF quietVars, Withdrawals, Accounted, Current, Withdraws, At, Verified, Present,
                CopyOf, Version, Content
  <1>2. CASE QuietNext /\ met'.raced
    BY <1>2 DEF Withdrawals
  <1>3. CASE QuietNext /\ ~met'.raced
    <2>1. ~met.raced
      BY <1>3 DEF QuietNext, Watch
    <2>2. ASSUME NEW p \in Procs, Begin(p) \/ Step(p) \/ Crash(p) PROVE Withdrawals'
      BY <2>1, <2>2, BeginWithdraws, ReadWithdraws, WriteWithdraws DEF Crash
    <2>3. ASSUME NEW k \in Keys, Expire(k) PROVE Withdrawals'
      BY <2>1, <2>3, ExpireWithdraws
    <2> QED
      BY <1>3, <2>2, <2>3 DEF QuietNext, Next
  <1> QED
    BY <1>1, <1>2, <1>3

LEMMA InitWithdrawals == QuietInit => Withdrawals
  <1> SUFFICES ASSUME QuietInit PROVE Withdrawals
    OBVIOUS
  <1>1. \A s \in Slots : cache[CacheKey(s)] = NoEntry
    BY DEF QuietInit, Init, Keys
  <1>2. \A p \in Procs : ~At(p, "fill")
    BY DEF QuietInit, Init, At, Blank
  <1> QED
    BY <1>1, <1>2 DEF Withdrawals, Accounted, Current

\* At rest nobody is left to evict anything.
LEMMA RestCoherent == Withdrawals => CoherentAtRest
  <1> SUFFICES ASSUME Withdrawals, Idle, ~met.raced, NEW s \in Slots PROVE OwnEntryCurrent(s)
    BY DEF CoherentAtRest
  <1>1. \A p \in Procs : ~Withdraws(p, s)
    BY DEF Idle, Withdraws, At
  <1>2. Current(cache[CacheKey(s)], s)
    BY <1>1 DEF Withdrawals, Accounted
  <1> QED
    BY <1>2 DEF Current, OwnEntryCurrent, Lookup

-----------------------------------------------------------------------------
(* A Delete that meets nobody. *)

\* What the Delete of p has removed by now.
Removed(p) ==
  LET s == frame[p].slot IN
  /\ frame[p].pc \in {"delreqevict", "delresp", "delrespevict", "evictreq", "evictresp"}
       => ~Present(ReqSlot(s))
  /\ frame[p].pc \in {"delrespevict", "evictreq", "evictresp"} => ~Present(RespSlot(s))
  /\ At(p, "evictresp") => cache[CacheKey(ReqSlot(s))] = NoEntry

Gone == \A p \in met.alone : frame[p].op = "Delete" => Removed(p)

\* A call that is alone after a step was so before it, or begins with it.
LEMMA StillAlone ==
  ASSUME Watch, NEW p \in met'.alone
  PROVE  /\ p \in Procs /\ ~At(p, "idle")'
         /\ \A q \in Procs : q # p => At(q, "idle")'
         /\ At(p, "idle") \/ p \in met.alone
  <1>1. met'.alone = {q \in InFlight' : InFlight' = {q} /\ (At(q, "idle") \/ q \in met.alone)}
    BY DEF Watch
  <1> QED
    BY <1>1 DEF InFlight

\* The step of the Delete itself.
LEMMA DeleteRemoves ==
  ASSUME IInv, NoFaults, NEW p \in Procs, DeleteStep(p), Removed(p)
  PROVE  Removed(p)'
  <1>1. PICK t : t = ReqSlot(frame[p].slot)
    OBVIOUS
  <1>2. PICK r : r = RespSlot(frame[p].slot)
    OBVIOUS
  <1>3. frame[p].pc \in DeletePcs
    BY DeleteRequestGoes, DeleteResponseGoes, EvictionGoes DEF DeleteStep, At, DeletePcs
  <1>4. t \in Slots /\ r \in Slots
    BY <1>1, <1>2, <1>3, FrameOf, PairHalves DEF FrameOK, PairPcs, DeletePcs
  <1>5. Went(p, frame'[p].pc) \/ frame'[p].pc = "idle"
    BY DeleteRequestGoes, DeleteResponseGoes, EvictionGoes DEF DeleteStep, Went, Ended
  <1>6. CASE frame'[p].pc = "idle"
    BY <1>6 DEF Removed, At
  <1>7. CASE DeleteRequest(p)
    <2>1. frame'[p].pc \in {"delreqevict", "delresp"} /\ frame'[p].slot = frame[p].slot
      BY <1>7, DeleteRequestGoes DEF Went
    <2>2. ~Present(t)'
      BY <1>1, <1>4, <1>7, DeleteRequestGoes, RemoveSlot DEF NoWrite, Present, IInv
    <2> QED
      BY <1>1, <2>1, <2>2 DEF Removed, At, Present
  <1>8. CASE DeleteResponse(p) /\ Went(p, frame'[p].pc)
    <2>1. frame'[p].pc \in {"delrespevict", "evictreq", "idle"} /\ frame'[p].slot = frame[p].slot
      BY <1>8, DeleteResponseGoes DEF Went, Ended
    <2>2. ~Present(r)'
      BY <1>2, <1>4, <1>8, DeleteResponseGoes, RemoveSlot DEF NoWrite, Present, IInv
    <2>3. ~Present(t)
      BY <1>1, <1>8, DeleteResponseGoes DEF Removed, At
    <2>4. ~Present(t)'
      BY <1>2, <1>4, <1>8, <2>3, DeleteResponseGoes, RemoveSlot DEF NoWrite, Present, IInv
    <2> QED
      BY <1>1, <1>2, <2>1, <2>2, <2>4 DEF Removed, At, Present
  <1>9. CASE /\ DeleteRequestEvict(p) \/ DeleteResponseEvict(p) \/ EvictRequest(p)
             /\ Went(p, frame'[p].pc)
    <2>1. NoWrite /\ frame'[p].slot = frame[p].slot
      BY <1>9, EvictionGoes DEF Drops, Went
    <2>2. \/ At(p, "delreqevict") /\ frame'[p].pc = "delresp"
          \/ At(p, "delrespevict") /\ frame'[p].pc = "evictreq"
          \/ At(p, "evictreq") /\ frame'[p].pc = "evictresp" /\ Drops(t)
      BY <1>1, <1>9, EvictionGoes DEF Went
    <2>3. Drops(t) => cache'[CacheKey(t)] = NoEntry
      BY <1>4 DEF Drops, IInv, Keys
    <2> QED
      BY <1>1, <1>2, <2>1, <2>2, <2>3 DEF Removed, At, Present, NoWrite
  <1>10. CASE EvictResponse(p)
    BY <1>6, <1>10, EvictionGoes DEF Ended
  <1> QED
    BY <1>5, <1>6, <1>7, <1>8, <1>9, <1>10 DEF DeleteStep

\* Which steps a Delete takes.
LEMMA OnlyDeletes ==
  ASSUME IInv, NoFaults, NEW p \in Procs, Tied(frame[p]), frame[p].op = "Delete", Step(p)
  PROVE  DeleteStep(p)
  <1>1. frame[p].pc \in DeletePcs \cup {"idle"}
    BY FrameOf DEF Frame, Pcs, Tied, ReadPcs, PairAdds, DeletePcs, Reads
  <1> QED
    BY <1>1
    DEF Step, At, DeletePcs, DeleteStep, CacheGet, QuerySpecific, QueryGeneric, Fill, QueryVersion,
        Add, AddRequest, AddResponse, Undo, UndoEvict, Upsert, Evict, ChangeStatus, Reread

LEMMA GoneNext == ASSUME NoFaults PROVE Watched /\ Gone /\ [QuietNext]_quietVars => Gone'
  <1> SUFFICES ASSUME Watched, Gone, [QuietNext]_quietVars PROVE Gone'
    OBVIOUS
  <1>1. CASE UNCHANGED quietVars
    BY <1>1 DEF quietVars, Gone, Removed, At, Present
  <1>2. CASE QuietNext
    <2> SUFFICES ASSUME NEW p \in met'.alone, frame'[p].op = "Delete" PROVE Removed(p)'
      BY DEF Gone
    <2>1. /\ p \in Procs /\ ~At(p, "idle")' /\ (At(p, "idle") \/ p \in met.alone)
          /\ \A q \in Procs : q # p => At(q, "idle")'
      BY <1>2, StillAlone DEF QuietNext
    <2>2. ASSUME p \in met.alone, NEW q \in Procs, q # p, ~At(q, "idle") PROVE FALSE
      BY <2>1, <2>2 DEF Watched, Seen, InFlight
    <2>3. ASSUME NEW k \in Keys, Expire(k) PROVE Removed(p)'
      <3>1. p \in met.alone /\ Removed(p)
        BY <2>1, <2>3 DEF Expire, At, Gone
      <3>2. \A j \in Keys : cache'[j] \in {cache[j], NoEntry}
        BY <2>3 DEF Expire, Watched, IInv
      <3>3. /\ frame'[p] = frame[p] /\ store' = store
            /\ At(p, "evictresp") => CacheKey(ReqSlot(frame[p].slot)) \in Keys
        BY <2>1, <2>3, FrameOf, PairHalves DEF Expire, Watched, FrameOK, PairPcs, At, Keys
      <3> QED
        BY <3>1, <3>2, <3>3 DEF Removed, At, Present
    <2>4. ASSUME NEW q \in Procs, Begin(q) PROVE Removed(p)'
      <3>1. Begun(q)
        BY <2>4, BeginGoes DEF Watched
      <3>2. q = p
        BY <2>1, <3>1 DEF Begun, Firsts, At
      <3> QED
        BY <3>1, <3>2 DEF Removed, Begun, Firsts, At
    <2>5. ASSUME NEW q \in Procs, Step(q) PROVE Removed(p)'
      <3>1. ~At(q, "idle") /\ Others(q) /\ frame'[q].op = frame[q].op
        BY <2>5, StepTied DEF Step, Watched
      <3>2. q = p /\ p \in met.alone
        BY <2>1, <2>2, <3>1 DEF Others, At
      <3>3. DeleteStep(p)
        BY <2>5, <3>1, <3>2, OnlyDeletes DEF Watched
      <3> QED
        BY <2>1, <3>1, <3>2, <3>3, DeleteRemoves DEF Gone, Watched
    <2>6. ASSUME NEW q \in Procs, Crash(q) PROVE Removed(p)'
      <3>1. Others(q) /\ frame'[q].pc = "idle" /\ ~At(q, "idle")
        BY <2>6, CrashGoes DEF Watched, Crash
      <3> QED
        BY <2>1, <2>2, <3>1 DEF At, Others
    <2> QED
      BY <1>2, <2>3, <2>4, <2>5, <2>6 DEF QuietNext, Next
  <1> QED
    BY <1>1, <1>2

LEMMA InitGone == QuietInit => Gone
  BY DEF QuietInit, Gone

\* The last step of a Delete that met nobody.
LEMMA LastDeletes ==
  ASSUME Watched, Gone, NoFaults, QuietNext, NEW p \in met.alone,
         frame[p].op = "Delete", At(p, "idle")', frame'[p].reply = "ok",
         NEW s \in {ReqSlot(frame[p].slot), RespSlot(frame[p].slot)}
  PROVE  ~Present(s)' /\ cache'[CacheKey(s)] = NoEntry
  <1>1. p \in Procs /\ ~At(p, "idle") /\ Removed(p) /\ IInv /\ Tied(frame[p])
    BY DEF Watched, Seen, InFlight, Gone
  <1>2. Step(p) \/ Crash(p)
    <2>1. ASSUME NEW q \in Procs, q # p, Begin(q) \/ Step(q) \/ Crash(q) PROVE FALSE
      BY <1>1, <2>1, BeginGoes, StepTied, CrashGoes DEF Watched, Begun, Others, At
    <2>2. ASSUME NEW k \in Keys, Expire(k) PROVE FALSE
      BY <1>1, <2>2 DEF Expire, At
    <2>3. ~Begin(p)
      BY <1>1, BeginGoes
    <2> QED
      BY <2>1, <2>2, <2>3 DEF QuietNext, Next
  <1>3. ~Crash(p)
    BY <1>1 DEF Crash, IInv, Blank
  <1>4. DeleteStep(p)
    BY <1>1, <1>2, <1>3, OnlyDeletes
  <1>5. EvictResponse(p)
    BY <1>1, <1>4, DeleteRequestGoes, DeleteResponseGoes, EvictionGoes
    DEF DeleteStep, Went, Ended, At
  <1>6. At(p, "evictresp") /\ Drops(RespSlot(frame[p].slot))
    BY <1>1, <1>5, EvictionGoes
  <1>7. ReqSlot(frame[p].slot) \in Slots /\ RespSlot(frame[p].slot) \in Slots
    BY <1>1, <1>6, FrameOf, PairHalves DEF FrameOK, PairPcs, At
  <1>8. /\ cache'[CacheKey(RespSlot(frame[p].slot))] = NoEntry
        /\ \A k \in Keys : cache'[k] \in {cache[k], NoEntry}
    BY <1>1, <1>6, <1>7 DEF Drops, IInv, Keys
  <1> QED
    BY <1>1, <1>6, <1>7, <1>8 DEF Removed, At, Drops, NoWrite, Present, Keys

-----------------------------------------------------------------------------
(* Pairs.  Half a pair belongs to a call that is adding or deleting it. *)

\* Migration 003 seeds requests and responses together.
SeedsPaired == \A s \in PairSlots : s \in Seeded <=> RespSlot(s) \in Seeded

Adding(p, s)   == frame[p].pc \in {"addresp", "undo"} /\ frame[p].slot = s
Deleting(p, s) == frame[p].pc \in {"delreqevict", "delresp"} /\ frame[p].slot = s

Whole(s) ==
  /\ Present(s) /\ ~Present(RespSlot(s)) => \E p \in Procs : Adding(p, s)
  /\ ~Present(s) /\ Present(RespSlot(s)) => \E p \in Procs : Deleting(p, s)
  /\ \A p \in Procs : Adding(p, s) => /\ Present(s) /\ ~Present(RespSlot(s))
                                      /\ \A q \in Procs : Adding(q, s) => q = p
  /\ \A p \in Procs : Deleting(p, s) => ~Present(s)

Halves == ~met.loose => \A s \in PairSlots : Whole(s)

\* The slots of two pairs are four slots.
LEMMA PairsApart ==
  ASSUME NEW s \in PairSlots, NEW t \in PairSlots
  PROVE  /\ ReqSlot(s) = s /\ s \in Slots /\ RespSlot(s) \in Slots /\ RespSlot(s) # t
         /\ RespSlot(s) = RespSlot(t) => s = t
  <1>1. /\ s \in Slots /\ s.msgType = Request /\ RespSlot(s) \in Slots
        /\ t \in Slots /\ t.msgType = Request
    BY DEF PairSlots
  <1>2. s = [version |-> s.version, action |-> s.action, msgType |-> s.msgType,
             vendor |-> s.vendor, model |-> s.model]
    BY <1>1, LookupAssumption
  <1>3. t = [version |-> t.version, action |-> t.action, msgType |-> t.msgType,
             vendor |-> t.vendor, model |-> t.model]
    BY <1>1, LookupAssumption
  <1>4. ReqSlot(s) = s
    BY <1>1, <1>2 DEF ReqSlot
  <1>5. /\ RespSlot(s).msgType = Response /\ RespSlot(s).version = s.version
        /\ RespSlot(s).action = s.action /\ RespSlot(s).vendor = s.vendor
        /\ RespSlot(s).model = s.model
    BY <1>2 DEF RespSlot
  <1>6. /\ RespSlot(t).version = t.version /\ RespSlot(t).action = t.action
        /\ RespSlot(t).vendor = t.vendor /\ RespSlot(t).model = t.model
    BY <1>3 DEF RespSlot
  <1>7. Request # Response
    BY DEF Request, Response
  <1> QED
    BY <1>1, <1>2, <1>3, <1>4, <1>5, <1>6, <1>7

\* p's step is not about the pair of s.
Untouched(p, s) ==
  /\ Present(s)' = Present(s)
  /\ Present(RespSlot(s))' = Present(RespSlot(s))
  /\ Adding(p, s)' = Adding(p, s)
  /\ Deleting(p, s)' = Deleting(p, s)

LEMMA UntouchedWhole ==
  ASSUME NEW p \in Procs, Others(p), NEW s, Untouched(p, s), Whole(s)
  PROVE  Whole(s)'
  <1>1. ASSUME NEW q \in Procs
        PROVE  Adding(q, s)' = Adding(q, s) /\ Deleting(q, s)' = Deleting(q, s)
    BY DEF Others, Untouched, Adding, Deleting
  <1> QED
    BY <1>1 DEF Whole, Untouched

\* A step that inserts, removes or only revises no row of s.
LEMMA SameRowsUntouched ==
  ASSUME NEW p \in Procs, NEW s,
         Present(s)' = Present(s), Present(RespSlot(s))' = Present(RespSlot(s)),
         frame[p].pc \notin {"addresp", "undo", "delreqevict", "delresp"},
         frame'[p].pc \notin {"addresp", "undo", "delreqevict", "delresp"}
  PROVE  Untouched(p, s)
  BY DEF Untouched, Adding, Deleting

\* A step about one pair leaves the others alone.
LEMMA OtherPairUntouched ==
  ASSUME NEW p \in Procs, NEW s, frame[p].slot # s, frame'[p].slot = frame[p].slot,
         Present(s)' = Present(s), Present(RespSlot(s))' = Present(RespSlot(s))
  PROVE  Untouched(p, s)
  BY DEF Untouched, Adding, Deleting

\* As long as no addition of a pair has met a deletion, nor anything less than a pair
\* has been written.
LEMMA NeverBoth ==
  ASSUME Watched, ~met.loose, NEW p \in Procs, NEW q \in Procs, frame[p].pc \in PairAdds
  PROVE  frame[q].pc \notin DeletePcs
  BY DEF Watched, Seen, Together, InFlight, At, Tied, PairAdds, DeletePcs

LEMMA NeverSingle ==
  ASSUME Watched, ~met.loose, NEW p \in Procs PROVE ~Add(p) /\ ~Upsert(p)
  BY DEF Watched, Seen, InFlight, At, Tied, Add, Upsert

\* Where the pair of p's call is.
LEMMA PairOf ==
  ASSUME IInv, NEW p \in Procs, frame[p].pc \in PairPcs
  PROVE  frame[p].slot \in PairSlots /\ ReqSlot(frame[p].slot) = frame[p].slot
  BY FrameOf, PairsApart DEF FrameOK

LEMMA AddRequestWhole ==
  ASSUME Watched, NoFaults, ~met.loose, NEW p \in Procs, AddRequest(p),
         NEW s \in PairSlots, Whole(s)
  PROVE  Whole(s)'
  <1>1. IInv /\ At(p, "addreq") /\ frame[p].doc \in Docs
    BY AddRequestGoes, FrameOf DEF Watched, Frame
  <1>2. PICK t \in PairSlots : t = frame[p].slot /\ ReqSlot(t) = t
    BY <1>1, PairOf DEF At, PairPcs
  <1>3. t \in Slots /\ RespSlot(t) \in Slots /\ s \in Slots /\ RespSlot(s) \in Slots /\ RespSlot(s) # t
        /\ RespSlot(t) # t
    BY PairsApart
  <1>4. CASE NoWrite /\ Ended(p, "error")
    <2>1. Untouched(p, s)
      BY <1>1, <1>4, SameRowsUntouched DEF Ended, At, NoWrite, Present
    <2> QED
      BY <1>4, <2>1, UntouchedWhole DEF Ended
  <1>5. CASE /\ Insert(t, frame[p].doc) /\ Others(p)
             /\ frame'[p].pc = "addresp" /\ frame'[p].slot = frame[p].slot
    <2>1. ~Present(t) /\ Present(t)' /\ \A u \in Slots : u # t => store'[u] = store[u]
      BY <1>1, <1>2, <1>3, <1>5, InsertSlot DEF IInv
    <2>2. Present(RespSlot(s))' = Present(RespSlot(s))
      BY <1>3, <2>1 DEF Present
    <2>3. CASE s # t
      <3>1. Present(s)' = Present(s)
        BY <1>3, <2>1, <2>3 DEF Present
      <3> QED
        BY <1>2, <1>5, <2>2, <2>3, <3>1, OtherPairUntouched, UntouchedWhole
    <2>4. CASE s = t
      <3>1. \A q \in Procs : ~Deleting(q, s)
        BY <1>1, NeverBoth DEF At, PairAdds, Deleting, DeletePcs
      <3>2. \A q \in Procs : ~Adding(q, s)
        BY <2>1, <2>4 DEF Whole
      <3>3. Present(s)' /\ ~Present(RespSlot(s))'
        BY <2>1, <2>2, <2>4, <3>1 DEF Whole
      <3>4. Adding(p, s)' /\ \A q \in Procs : Adding(q, s)' => q = p
        BY <1>2, <1>5, <2>4, <3>2 DEF Others, Adding
      <3>5. \A q \in Procs : ~Deleting(q, s)'
        BY <1>5, <3>1 DEF Others, Deleting
      <3> QED
        BY <3>3, <3>4, <3>5 DEF Whole
    <2> QED
      BY <2>3, <2>4
  <1> QED
    BY <1>1, <1>2, <1>4, <1>5, AddRequestGoes

LEMMA AddResponseWhole ==
  ASSUME Watched, NoFaults, ~met.loose, NEW p \in Procs, AddResponse(p),
         NEW s \in PairSlots, Whole(s)
  PROVE  Whole(s)'
  <1>1. IInv /\ At(p, "addresp") /\ frame[p].doc2 \in Docs
    BY AddResponseGoes, FrameOf DEF Watched, Frame
  <1>2. PICK t \in PairSlots : t = frame[p].slot
    BY <1>1, PairOf DEF At, PairPcs
  <1>3. t \in Slots /\ RespSlot(t) \in Slots /\ s \in Slots /\ RespSlot(s) \in Slots
        /\ RespSlot(t) # s /\ (s # t => RespSlot(s) # RespSlot(t))
    BY PairsApart
  <1>4. CASE NoWrite /\ Went(p, "undo")
    <2>1. Untouched(p, s)
      BY <1>1, <1>4 DEF Untouched, Went, At, Adding, Deleting, NoWrite, Present
    <2> QED
      BY <1>4, <2>1, UntouchedWhole DEF Went
  <1>5. CASE Insert(RespSlot(t), frame[p].doc2) /\ Ended(p, "ok")
    <2>1. /\ Present(RespSlot(t))'
          /\ \A u \in Slots : u # RespSlot(t) => store'[u] = store[u]
      BY <1>1, <1>2, <1>3, <1>5, InsertSlot DEF IInv
    <2>2. Present(s)' = Present(s)
      BY <1>3, <2>1 DEF Present
    <2>3. CASE s # t
      <3>1. Present(RespSlot(s))' = Present(RespSlot(s))
        BY <1>3, <2>1, <2>3 DEF Present
      <3> QED
        BY <1>2, <1>5, <2>2, <2>3, <3>1, OtherPairUntouched, UntouchedWhole DEF Ended
    <2>4. CASE s = t
      <3>1. Adding(p, s)
        BY <1>1, <1>2, <2>4 DEF At, Adding
      <3>2. Present(s) /\ \A q \in Procs : /\ Adding(q, s) => q = p
                                           /\ ~Deleting(q, s)
        BY <3>1 DEF Whole
      <3>3. \A q \in Procs : ~Adding(q, s)' /\ ~Deleting(q, s)'
        BY <1>5, <3>2 DEF Ended, Others, Adding, Deleting
      <3> QED
        BY <2>1, <2>2, <2>4, <3>2, <3>3 DEF Whole
    <2> QED
      BY <2>3, <2>4
  <1> QED
    BY <1>1, <1>2, <1>4, <1>5, AddResponseGoes

LEMMA UndoWhole ==
  ASSUME Watched, NoFaults, ~met.loose, NEW p \in Procs, Undo(p), NEW s \in PairSlots, Whole(s)
  PROVE  Whole(s)'
  <1>1. IInv /\ At(p, "undo") /\ Others(p) /\ frame'[p].slot = frame[p].slot
        /\ frame'[p].pc \in {"undoevict", "idle"}
    BY UndoGoes DEF Watched, Went, Ended
  <1>2. PICK t \in PairSlots : t = frame[p].slot /\ ReqSlot(t) = t
    BY <1>1, PairOf DEF At, PairPcs
  <1>3. t \in Slots /\ s \in Slots /\ RespSlot(s) \in Slots /\ RespSlot(s) # t
    BY PairsApart
  <1>4. NoWrite \/ Remove(t)
    BY <1>1, <1>2, UndoGoes
  <1>5. \A u \in Slots : u # t => store'[u] = store[u]
    BY <1>1, <1>3, <1>4, RemoveSlot DEF NoWrite, IInv
  <1>6. Present(RespSlot(s))' = Present(RespSlot(s))
    BY <1>3, <1>5 DEF Present
  <1>7. CASE s # t
    <2>1. Present(s)' = Present(s)
      BY <1>3, <1>5, <1>7 DEF Present
    <2> QED
      BY <1>1, <1>2, <1>6, <1>7, <2>1, OtherPairUntouched, UntouchedWhole
  <1>8. CASE s = t
    <2>1. Adding(p, s)
      BY <1>1, <1>2, <1>8 DEF At, Adding
    <2>2. Present(s) /\ ~Present(RespSlot(s)) /\ \A q \in Procs : Adding(q, s) => q = p
      BY <2>1 DEF Whole
    <2>3. ~Present(s)'
      BY <1>1, <1>2, <1>3, <1>8, <2>2, UndoGoes, RemoveSlot DEF IInv
    <2>4. \A q \in Procs : ~Adding(q, s)'
      BY <1>1, <2>2 DEF Others, Adding
    <2> QED
      BY <1>6, <2>2, <2>3, <2>4 DEF Whole
  <1> QED
    BY <1>7, <1>8

LEMMA DeleteRequestWhole ==
  ASSUME Watched, NoFaults, ~met.loose, NEW p \in Procs, DeleteRequest(p),
         NEW s \in PairSlots, Whole(s)
  PROVE  Whole(s)'
  <1>1. IInv /\ At(p, "delreq") /\ Others(p) /\ frame'[p].slot = frame[p].slot
        /\ frame'[p].pc \in {"delreqevict", "delresp"}
    BY DeleteRequestGoes DEF Watched, Went
  <1>2. PICK t \in PairSlots : t = frame[p].slot /\ ReqSlot(t) = t
    BY <1>1, PairOf DEF At, PairPcs
  <1>3. t \in Slots /\ s \in Slots /\ RespSlot(s) \in Slots /\ RespSlot(s) # t
    BY PairsApart
  <1>4. Remove(t) \/ (NoWrite /\ ~Present(t))
    BY <1>1, <1>2, DeleteRequestGoes
  <1>5. ~Present(t)' /\ \A u \in Slots : u # t => store'[u] = store[u]
    BY <1>1, <1>3, <1>4, RemoveSlot DEF NoWrite, IInv, Present
  <1>6. Present(RespSlot(s))' = Present(RespSlot(s))
    BY <1>3, <1>5 DEF Present
  <1>7. CASE s # t
    <2>1. Present(s)' = Present(s)
      BY <1>3, <1>5, <1>7 DEF Present
    <2> QED
      BY <1>1, <1>2, <1>6, <1>7, <2>1, OtherPairUntouched, UntouchedWhole
  <1>8. CASE s = t
    <2>1. \A q \in Procs : ~Adding(q, s)
      BY <1>1, NeverBoth DEF At, PairAdds, Adding, DeletePcs
    <2>2. Deleting(p, s)' /\ \A q \in Procs : ~Adding(q, s)'
      BY <1>1, <1>2, <1>8, <2>1 DEF Others, Adding, Deleting
    <2> QED
      BY <1>5, <1>8, <2>2 DEF Whole
  <1> QED
    BY <1>7, <1>8

LEMMA DeleteResponseWhole ==
  ASSUME Watched, NoFaults, ~met.loose, NEW p \in Procs, DeleteResponse(p),
         NEW s \in PairSlots, Whole(s)
  PROVE  Whole(s)'
  <1>1. IInv /\ At(p, "delresp") /\ Others(p) /\ frame'[p].slot = frame[p].slot
        /\ frame'[p].pc \in {"delrespevict", "evictreq", "idle"}
    BY DeleteResponseGoes DEF Watched, Went, Ended
  <1>2. PICK t \in PairSlots : t = frame[p].slot
    BY <1>1, PairOf DEF At, PairPcs
  <1>3. t \in Slots /\ RespSlot(t) \in Slots /\ s \in Slots /\ RespSlot(s) \in Slots
        /\ RespSlot(t) # s /\ (s # t => RespSlot(s) # RespSlot(t))
    BY PairsApart
  <1>4. Remove(RespSlot(t)) \/ (NoWrite /\ ~Present(RespSlot(t)))
    BY <1>1, <1>2, DeleteResponseGoes
  <1>5. ~Present(RespSlot(t))' /\ \A u \in Slots : u # RespSlot(t) => store'[u] = store[u]
    BY <1>1, <1>3, <1>4, RemoveSlot DEF NoWrite, IInv, Present
  <1>6. Present(s)' = Present(s)
    BY <1>3, <1>5 DEF Present
  <1>7. CASE s # t
    <2>1. Present(RespSlot(s))' = Present(RespSlot(s))
      BY <1>3, <1>5, <1>7 DEF Present
    <2> QED
      BY <1>1, <1>2, <1>6, <1>7, <2>1, OtherPairUntouched, UntouchedWhole
  <1>8. CASE s = t
    <2>1. Deleting(p, s)
      BY <1>1, <1>2, <1>8 DEF At, Deleting
    <2>2. ~Present(s) /\ \A q \in Procs : ~Adding(q, s)
      BY <2>1 DEF Whole
    <2>3. \A q \in Procs : ~Adding(q, s)'
      BY <1>1, <2>2 DEF Others, Adding
    <2> QED
      BY <1>5, <1>6, <1>8, <2>2, <2>3 DEF Whole
  <1> QED
    BY <1>7, <1>8

\* The rest of the steps insert and remove no row, and begin or end no half of a pair.
LEMMA OtherStepWhole ==
  ASSUME Watched, NoFaults, NEW p \in Procs, NEW s \in PairSlots, Whole(s),
         \/ ReadStep(p) \/ ChangeStatus(p) \/ Reread(p)
         \/ UndoEvict(p) \/ Evict(p) \/ DeleteRequestEvict(p) \/ DeleteResponseEvict(p)
         \/ EvictRequest(p) \/ EvictResponse(p)
  PROVE  Whole(s)'
  <1>1. IInv /\ Tied(frame[p]) /\ s \in Slots /\ RespSlot(s) \in Slots
    BY PairsApart DEF Watched
  <1>2. CASE ReadStep(p)
    <2>1. frame[p].pc \in ReadPcs /\ NoWrite /\ ReadOn(p)
      BY <1>1, <1>2, ReadGoes
    <2>2. Others(p) /\ frame'[p].pc \in ReadPcs \cup {"idle"}
      BY <2>1 DEF ReadOn, Ended, Went, FoundRow, ReadPcs
    <2>3. Untouched(p, s)
      BY <2>1, <2>2, SameRowsUntouched DEF ReadPcs, NoWrite, Present
    <2> QED
      BY <2>2, <2>3, UntouchedWhole
  <1>3. CASE ChangeStatus(p)
    <2>1. /\ At(p, "setstatus") /\ Others(p) /\ frame'[p].pc \in {"reread", "idle"}
          /\ NoWrite \/ SetStatus(frame[p].id, frame[p].status)
      BY <1>1, <1>3, ChangeStatusGoes DEF Went, Ended
    <2>2. frame[p].status \in Statuses
      BY <1>1, FrameOf DEF Frame
    <2>3. ASSUME NEW u \in Slots PROVE Present(u)' = Present(u)
      <3>1. CASE NoWrite
        BY <3>1 DEF NoWrite, Present
      <3>2. CASE SetStatus(frame[p].id, frame[p].status)
        <4>1. Present(u) => Present(u)'
          BY <1>1, <2>2, <3>2, SetStatusSlot DEF IInv
        <4>2. ~Present(u) => store'[u] = store[u]
          BY <1>1, <2>2, <3>2, SetStatusSlot DEF IInv
        <4>3. ~Present(u) => ~Present(u)'
          BY <4>2 DEF Present
        <4> QED
          BY <4>1, <4>3 DEF Present
      <3> QED
        BY <2>1, <3>1, <3>2
    <2>4. Untouched(p, s)
      BY <1>1, <2>1, <2>3, SameRowsUntouched DEF At
    <2> QED
      BY <2>1, <2>4, UntouchedWhole
  <1>4. CASE Reread(p)
    <2>1. At(p, "reread") /\ NoWrite /\ Others(p) /\ frame'[p].pc \in {"evict", "idle"}
      BY <1>1, <1>4, RereadGoes DEF Ended
    <2>2. Untouched(p, s)
      BY <2>1, SameRowsUntouched DEF At, NoWrite, Present
    <2> QED
      BY <2>1, <2>2, UntouchedWhole
  <1>5. CASE \/ UndoEvict(p) \/ Evict(p) \/ DeleteResponseEvict(p) \/ EvictRequest(p)
             \/ EvictResponse(p)
    <2>1. /\ frame[p].pc \in {"undoevict", "evict", "delrespevict", "evictreq", "evictresp"}
          /\ NoWrite /\ Others(p) /\ frame'[p].pc \in {"idle", "evictreq", "evictresp"}
      BY <1>1, <1>5, EvictionGoes DEF At, Drops, Went, Ended
    <2>2. Untouched(p, s)
      BY <2>1, SameRowsUntouched DEF NoWrite, Present
    <2> QED
      BY <2>1, <2>2, UntouchedWhole
  <1>6. CASE DeleteRequestEvict(p)
    <2>1. At(p, "delreqevict") /\ NoWrite /\ Went(p, "delresp")
      BY <1>1, <1>6, EvictionGoes DEF Drops
    <2>2. Untouched(p, s)
      BY <2>1 DEF Untouched, Went, At, Adding, Deleting, NoWrite, Present
    <2> QED
      BY <2>1, <2>2, UntouchedWhole DEF Went
  <1> QED
    BY <1>2, <1>3, <1>4, <1>5, <1>6

LEMMA StepWhole ==
  ASSUME Watched, NoFaults, ~met.loose, NEW p \in Procs, Step(p), NEW s \in PairSlots, Whole(s)
  PROVE  Whole(s)'
  BY NeverSingle, AddRequestWhole, AddResponseWhole, UndoWhole, DeleteRequestWhole,
     DeleteResponseWhole, OtherStepWhole
  DEF Step, ReadStep

LEMMA BeginWhole ==
  ASSUME Watched, NEW p \in Procs, Begin(p), NEW s \in PairSlots, Whole(s)
  PROVE  Whole(s)'
  <1>1. At(p, "idle") /\ NoWrite /\ Begun(p)
    BY BeginGoes DEF Watched
  <1>2. Untouched(p, s)
    BY <1>1, SameRowsUntouched DEF At, Begun, Firsts, NoWrite, Present
  <1> QED
    BY <1>1, <1>2, UntouchedWhole DEF Begun

LEMMA HalvesNext ==
  ASSUME NoFaults, Crashes = FALSE
  PROVE  Watched /\ Halves /\ [QuietNext]_quietVars => Halves'
  <1> SUFFICES ASSUME Watched, Halves, [QuietNext]_quietVars, ~met'.loose,
                      NEW s \in PairSlots
               PROVE  Whole(s)'
    BY DEF Halves
  <1>1. ~met.loose
    BY DEF QuietNext, Watch, quietVars
  <1>2. Whole(s)
    BY <1>1 DEF Halves
  <1>3. CASE UNCHANGED <<store, frame>>
    BY <1>2, <1>3 DEF Whole, Adding, Deleting, Present
  <1>4. ASSUME NEW p \in Procs, Begin(p) \/ Step(p) \/ Crash(p) PROVE Whole(s)'
    BY <1>1, <1>2, <1>4, BeginWhole, StepWhole DEF Crash
  <1> QED
    BY <1>3, <1>4 DEF QuietNext, Next, Expire, quietVars

LEMMA InitHalves == ASSUME SeedsPaired PROVE QuietInit => Halves
  <1> SUFFICES ASSUME QuietInit, NEW s \in PairSlots PROVE Whole(s)
    BY DEF Halves
  <1>1. ASSUME NEW u \in Slots PROVE Present(u) <=> u \in Seeded
    <2>1. CASE u \in Seeded
      <3>1. PICK r : r = [id |-> SeedId[u], status |-> "verified", history |-> <<SeedDoc[u]>>]
        OBVIOUS
      <3>2. SeedId[u] \in Nat \ {0} /\ SeedDoc[u] \in Docs
        BY <2>1, SeedAssumption
      <3>3. <<SeedDoc[u]>> \in Seq(Docs)
        BY <3>2
      <3>4. r \in Row
        BY <3>1, <3>2, <3>3 DEF Row, Statuses
      <3>5. store[u] = r
        BY <2>1, <3>1 DEF QuietInit, Init, StoreInit
      <3> QED
        BY <2>1, <3>4, <3>5, NoRowAssumption DEF Present
    <2>2. CASE u \notin Seeded
      BY <2>2 DEF QuietInit, Init, StoreInit, Present
    <2> QED
      BY <2>1, <2>2
  <1>2. Present(s) <=> Present(RespSlot(s))
    BY <1>1, PairsApart DEF SeedsPaired
  <1>3. \A p \in Procs : ~Adding(p, s) /\ ~Deleting(p, s)
    BY DEF QuietInit, Init, Adding, Deleting, Blank
  <1> QED
    BY <1>2, <1>3 DEF Whole

\* At rest nobody holds half a pair.
LEMMA RestWhole == Halves => PairsWhole
  <1> SUFFICES ASSUME Halves, Idle, ~met.loose, NEW s \in PairSlots
               PROVE  Present(ReqSlot(s)) <=> Present(RespSlot(s))
    BY DEF PairsWhole
  <1>1. \A p \in Procs : ~Adding(p, s) /\ ~Deleting(p, s)
    BY DEF Idle, At, Adding, Deleting
  <1>2. ReqSlot(s) = s
    BY PairsApart
  <1> QED
    BY <1>1, <1>2 DEF Halves, Whole

-----------------------------------------------------------------------------
(* What has stood verified.  Nothing gets into the hands of a call but by a *)
(* query for a verified row or from the cache, and nothing into the cache   *)
(* but from such hands, with any faults and crashes.                        *)

InHand(f) == OnceVerified(f) /\ (f.pc = "archived" => f.op = "GetVersion")

Remembered ==
  /\ verified \subseteq Copy /\ Serving \subseteq verified
  /\ \A k \in Keys : cache[k] \in verified \cup {NoEntry}
  /\ \A p \in Procs : InHand(frame[p])

LEMMA ServingTyped == IInv => Serving \subseteq Copy
  BY CopyGood DEF IInv, Serving, Good, Verified

\* A step of p that ends in its having no copy.
Bare(p) ==
  \/ frame'[p].pc \notin {"idle", "fill", "archived"}
  \/ frame'[p].pc = "idle" /\ frame'[p].copy = NoEntry

LEMMA GotoBare ==
  ASSUME IInv, NEW p \in Procs, NEW pc, pc \notin {"idle", "fill", "archived"}, Goto(p, pc)
  PROVE  Bare(p)
  BY GotoWent DEF Went, Bare

LEMMA ReturnBare == ASSUME IInv, NEW p \in Procs, NEW o, Return(p, o) PROVE Bare(p)
  <1>1. PICK f \in Frame : f = frame[p]
    BY FrameOf
  <1>2. PICK u : u = Result(f, NoEntry, o)
    OBVIOUS
  <1>3. u.pc = "idle" /\ u.copy = NoEntry
    BY <1>2 DEF Result, Blank
  <1> QED
    BY <1>1, <1>2, <1>3, FrameOf DEF Return, Bare

LEMMA WriteBare ==
  ASSUME IInv, NEW p \in Procs, Step(p), ~ReadStep(p)
  PROVE  Bare(p) /\ \A k \in Keys : cache'[k] \in {cache[k], NoEntry}
  <1>1. PICK f \in Frame : f = frame[p]
    BY FrameOf
  <1>2. CASE AddRequest(p)
    <2>1. CASE frame' = [frame EXCEPT ![p].pc = "addresp", ![p].id = nextId]
      <3>1. PICK u : u = [f EXCEPT !.pc = "addresp", !.id = nextId]
        OBVIOUS
      <3>2. u.pc = "addresp"
        BY <3>1 DEF Frame
      <3> QED
        BY <1>1, <1>2, <2>1, <3>1, <3>2, FrameOf DEF Bare, AddRequest
    <2> QED
      BY <1>2, <2>1, ReturnBare DEF AddRequest
  <1>3. CASE DeleteRequest(p)
    <2>1. PICK pc \in {"delreqevict", "delresp"}, o \in {"ok", "not_found", "error"} :
            frame' = [frame EXCEPT ![p].pc = pc, ![p].reqErr = o]
      BY <1>3 DEF DeleteRequest
    <2>2. PICK u : u = [f EXCEPT !.pc = pc, !.reqErr = o]
      OBVIOUS
    <2>3. u.pc = pc
      BY <2>2 DEF Frame
    <2> QED
      BY <1>1, <1>3, <2>1, <2>2, <2>3, FrameOf DEF Bare, DeleteRequest
  <1>4. CASE Reread(p)
    <2>1. ASSUME NEW s, frame' = [frame EXCEPT ![p].pc = "evict", ![p].slot = s] PROVE Bare(p)
      <3>1. PICK u : u = [f EXCEPT !.pc = "evict", !.slot = s]
        OBVIOUS
      <3>2. u.pc = "evict"
        BY <3>1 DEF Frame
      <3> QED
        BY <1>1, <2>1, <3>1, <3>2, FrameOf DEF Bare
    <2> QED
      BY <1>4, <2>1, ReturnBare DEF Reread
  <1>5. CASE Add(p) \/ AddResponse(p) \/ Undo(p) \/ Upsert(p) \/ DeleteResponse(p) \/ ChangeStatus(p)
    BY <1>5, ReturnBare, GotoBare DEF Add, AddResponse, Undo, Upsert, DeleteResponse, ChangeStatus
  <1>6. CASE \/ UndoEvict(p) \/ Evict(p) \/ DeleteRequestEvict(p) \/ DeleteResponseEvict(p)
             \/ EvictRequest(p) \/ EvictResponse(p)
    <2>1. Bare(p)
      BY <1>6, ReturnBare, GotoBare
      DEF UndoEvict, Evict, DeleteRequestEvict, DeleteResponseEvict, EvictRequest, EvictResponse
    <2>2. PICK k : EvictKey(k)
      BY <1>6
      DEF UndoEvict, Evict, DeleteRequestEvict, DeleteResponseEvict, EvictRequest, EvictResponse
    <2> QED
      BY <2>1, <2>2 DEF EvictKey, IInv
  <1> QED
    BY <1>2, <1>3, <1>4, <1>5, <1>6 DEF Step, ReadStep

\* What is handed on has stood verified.
LEMMA FoundHands ==
  ASSUME IInv, NEW p \in Procs, NEW c \in verified, Found(p, c), verified \subseteq verified'
  PROVE  InHand(frame[p])'
  <1>1. PICK f \in Frame : f = frame[p]
    BY FrameOf
  <1>2. CASE f.op = "GetVersion" /\ c.version # f.ver
    <2>1. PICK u : u = [f EXCEPT !.pc = "archived", !.copy = c]
      OBVIOUS
    <2>2. u.op = "GetVersion" /\ u.copy = c
      BY <1>2, <2>1 DEF Frame
    <2>3. frame'[p] = u
      BY <1>1, <1>2, <2>1, FrameOf DEF Found
    <2> QED
      BY <2>2, <2>3 DEF InHand, OnceVerified
  <1>3. CASE ~(f.op = "GetVersion" /\ c.version # f.ver)
    <2>1. PICK u : u = Result(f, c, "ok")
      OBVIOUS
    <2>2. u.pc = "idle" /\ u.copy = c
      BY <2>1 DEF Result, Blank
    <2>3. frame'[p] = u
      BY <1>1, <1>3, <2>1, FrameOf DEF Found, ReturnCopy
    <2> QED
      BY <2>2, <2>3 DEF InHand, OnceVerified
  <1> QED
    BY <1>2, <1>3

\* The archived version of a copy that has stood verified.
LEMMA ArchivedHands ==
  ASSUME IInv, Remembered, NEW p \in Procs, At(p, "archived"), verified \subseteq verified',
         ReturnCopy(p, Archived(frame[p].copy, frame[p].ver))
  PROVE  InHand(frame[p])'
  <1>1. PICK f \in Frame : f = frame[p]
    BY FrameOf
  <1>2. f.copy # NoEntry /\ f.op = "GetVersion" /\ f.pc = "archived" /\ InHand(f)
    BY <1>1, FrameOf DEF At, FrameOK, Remembered, InHand
  <1>3. PICK a \in verified : a = f.copy /\ a \in Copy
    BY <1>2 DEF InHand, OnceVerified, OtherVersion, Remembered
  <1>4. PICK d : d = RowOf(a.id).history[f.ver]
    OBVIOUS
  <1>5. PICK c : c = [a EXCEPT !.version = f.ver, !.doc = d]
    OBVIOUS
  <1>6. c.version = f.ver /\ c.doc = d
    BY <1>3, <1>5 DEF Copy
  <1>7. PICK u : u = Result(f, c, "ok")
    OBVIOUS
  <1>8. u.pc = "idle" /\ u.op = f.op /\ u.ver = f.ver /\ u.copy = c
    BY <1>7 DEF Result, Blank
  <1>9. frame'[p] = u
    BY <1>1, <1>3, <1>4, <1>5, <1>7, FrameOf DEF ReturnCopy, Archived
  <1> QED
    <2>1. SameRow(a, c)
      BY <1>5, <1>6 DEF SameRow
    <2> QED
      BY <1>2, <1>3, <1>6, <1>8, <1>9, <2>1 DEF InHand, OnceVerified, OtherVersion

LEMMA BareHands == ASSUME IInv', NEW p \in Procs, Bare(p) PROVE InHand(frame[p])'
  BY DEF IInv, FrameOK, Bare, InHand, OnceVerified

LEMMA ReadHands ==
  ASSUME IInv, IInv', Remembered, verified \subseteq verified', NEW p \in Procs, ReadStep(p)
  PROVE  InHand(frame[p])' /\ \A k \in Keys : cache'[k] \in verified \cup {NoEntry}
  <1>1. frame[p].slot \in Slots /\ CacheKey(frame[p].slot) \in Keys
    BY FrameOf DEF Keys
  <1>2. ASSUME NEW o, Return(p, o) PROVE InHand(frame[p])'
    BY <1>2, ReturnBare, BareHands
  <1>3. CASE CacheGet(p)
    <2>1. cache[CacheKey(frame[p].slot)] \in verified \cup {NoEntry}
      BY <1>1 DEF Remembered
    <2>2. ASSUME NEW pc \in {"specific", "generic"}, Goto(p, pc) PROVE InHand(frame[p])'
      BY <2>2, GotoBare, BareHands
    <2>3. Query(frame[p].slot) \in {"specific", "generic"}
      BY DEF Query
    <2> QED
      BY <1>2, <1>3, <2>1, <2>2, <2>3, FoundHands DEF CacheGet, Remembered
  <1>4. ASSUME NEW s \in Slots, Verified(s),
               frame' = [frame EXCEPT ![p].pc = "fill", ![p].copy = CopyOf(s)]
        PROVE  InHand(frame[p])'
    <2>1. frame'[p].pc = "fill" /\ frame'[p].copy = CopyOf(s)
      BY <1>4, RowGoes DEF FoundRow, Went
    <2>2. CopyOf(s) \in verified'
      BY <1>4 DEF Serving, Remembered, Verified
    <2> QED
      BY <2>1, <2>2 DEF InHand, OnceVerified
  <1>5. CASE QuerySpecific(p)
    <2>1. ASSUME Goto(p, "generic") PROVE InHand(frame[p])'
      BY <2>1, GotoBare, BareHands
    <2> QED
      BY <1>1, <1>2, <1>4, <1>5, <2>1 DEF QuerySpecific, QueryRow, Remembered
  <1>6. CASE QueryGeneric(p)
    BY <1>1, <1>2, <1>4, <1>6, GenericSlot DEF QueryGeneric, QueryRow, Remembered
  <1>7. CASE Fill(p)
    <2>1. frame[p].copy \in verified
      BY <1>7, FrameOf DEF Fill, At, FrameOK, Remembered, InHand, OnceVerified, OtherVersion
    <2>2. InHand(frame[p])'
      BY <1>7, <2>1, FoundHands DEF Fill
    <2> QED
      BY <1>7, <2>1, <2>2 DEF Fill, Remembered, IInv
  <1>8. CASE QueryVersion(p)
    BY <1>2, <1>8, ArchivedHands DEF QueryVersion, Remembered
  <1> QED
    BY <1>3, <1>5, <1>6, <1>7, <1>8 DEF ReadStep

\* Who does not move keeps what it has in hand, which stays remembered.
LEMMA OthersHands ==
  ASSUME Remembered, verified \subseteq verified', NEW q \in Procs, frame'[q] = frame[q]
  PROVE  InHand(frame[q])'
  <1>1. PICK f : f = frame[q] /\ InHand(f)
    BY DEF Remembered
  <1>2. OtherVersion(f) => OtherVersion(f)'
    BY DEF OtherVersion
  <1>3. InHand(f)'
    BY <1>1, <1>2 DEF InHand, OnceVerified
  <1> QED
    BY <1>1, <1>3 DEF InHand, OnceVerified, OtherVersion

LEMMA StepHands ==
  ASSUME IInv, IInv', Remembered, verified \subseteq verified', NEW p \in Procs,
         Begin(p) \/ Step(p) \/ Crash(p)
  PROVE  /\ \A q \in Procs : InHand(frame[q])'
         /\ \A k \in Keys : cache'[k] \in verified \cup {NoEntry}
  <1>1. CASE Begin(p)
    <2>1. Others(p) /\ UNCHANGED cache /\ frame'[p].pc \in Firsts
      BY <1>1, BeginGoes DEF Begun
    <2>2. InHand(frame[p])'
      BY <2>1, BareHands DEF Bare, Firsts
    <2> QED
      BY <2>1, <2>2, OthersHands DEF Others, Remembered
  <1>2. CASE Crash(p)
    <2>1. Others(p) /\ UNCHANGED cache /\ frame'[p] = Blank
      BY <1>2, CrashGoes, FrameOf DEF Crash
    <2>2. InHand(frame[p])'
      BY <2>1, BareHands DEF Bare, Blank
    <2> QED
      BY <2>1, <2>2, OthersHands DEF Others, Remembered
  <1>3. CASE Step(p)
    <2>1. Others(p)
      <3>1. \E u : frame' = [frame EXCEPT ![p] = u]
        BY <1>3, ReadOnward, AddOnward, DeleteOnward, UpsertOnward, DecisionMoves
        DEF Onward, Step
      <3> QED
        BY <3>1, FrameOf DEF Others
    <2>2. InHand(frame[p])' /\ \A k \in Keys : cache'[k] \in verified \cup {NoEntry}
      BY <1>3, ReadHands, WriteBare, BareHands DEF Remembered
    <2> QED
      BY <2>1, <2>2, OthersHands DEF Others
  <1> QED
    BY <1>1, <1>2, <1>3

LEMMA RememberedNext ==
  ASSUME IInv, IInv', Remembered, [QuietNext]_quietVars, (Serving \subseteq Copy)'
  PROVE  Remembered'
  <1>1. CASE UNCHANGED quietVars
    BY <1>1
    DEF quietVars, Remembered, Serving, Present, CopyOf, Version, Content, InHand,
        OnceVerified, OtherVersion
  <1>2. CASE QuietNext
    <2>1. verified' = verified \cup Serving'
      BY <1>2 DEF QuietNext, Remember
    <2>2. /\ \A q \in Procs : InHand(frame[q])'
          /\ \A k \in Keys : cache'[k] \in verified \cup {NoEntry}
      <3>1. CASE \E k \in Keys : Expire(k)
        BY <2>1, <3>1, OthersHands DEF Expire, Remembered, IInv
      <3>2. CASE \E p \in Procs : Begin(p) \/ Step(p) \/ Crash(p)
        BY <2>1, <3>2, StepHands
      <3> QED
        BY <1>2, <3>1, <3>2 DEF QuietNext, Next
    <2> QED
      BY <2>1, <2>2 DEF Remembered
  <1> QED
    BY <1>1, <1>2

LEMMA InitRemembered == QuietInit => Remembered
  <1> SUFFICES ASSUME QuietInit PROVE Remembered
    OBVIOUS
  <1>1. Serving \subseteq Copy
    BY InitInv, ServingTyped DEF QuietInit
  <1>2. \A p \in Procs : frame[p].copy = NoEntry /\ frame[p].pc = "idle"
    BY DEF QuietInit, Init, Blank
  <1> QED
    BY <1>1, <1>2 DEF QuietInit, Init, Remembered, InHand, OnceVerified

LEMMA AlwaysRemembered == QuietSpec => [](IInv /\ Remembered)
  <1>1. QuietInit => IInv /\ Remembered
    BY InitInv, InitRemembered DEF QuietInit
  <1>2. IInv /\ Remembered /\ [QuietNext]_quietVars => (IInv /\ Remembered)'
    <2>1. (IInv => Serving \subseteq Copy)'
      BY ServingTyped, PTL
    <2> QED
      BY <2>1, InvNext, RememberedNext
  <1> QED
    BY <1>1, <1>2, PTL DEF QuietSpec

-----------------------------------------------------------------------------
\* The service's variables and the observer's keep their types, whatever fails.
THEOREM QuietTyped == QuietSpec => []QuietTypeOK
  <1>1. IInv /\ Seen /\ Remembered => QuietTypeOK
    BY DEF IInv, StoreInv, TypeOK, Seen, Remembered, QuietTypeOK
  <1> QED
    BY <1>1, AlwaysSeen, AlwaysRemembered, PTL

\* Whatever fails, whoever dies, and whatever is decided, written or deleted meanwhile,
\* nothing is cached, held or returned but a version that has stood verified: only the
\* answer of GetVersion may be another version of such a row.
THEOREM CopiesWereVerified == QuietSpec => []CopiesOnceVerified
  <1>1. Remembered => CopiesOnceVerified
    BY DEF Remembered, InHand, CopiesOnceVerified
  <1> QED
    BY <1>1, AlwaysRemembered, PTL

\* While nothing fails and nobody dies, and as long as no read has met a write, at rest
\* every entry of a row under its own key is that row as it is served: for any slots,
\* vendors' included, and any number of callers.
THEOREM CacheCoherentAtRest ==
  ASSUME NoFaults, Crashes = FALSE PROVE QuietSpec => []CoherentAtRest
  <1>1. QuietInit => Watched /\ Withdrawals
    BY InitWatched, InitWithdrawals
  <1>2. Watched /\ Withdrawals /\ [QuietNext]_quietVars => (Watched /\ Withdrawals)'
    BY WatchedNext, WithdrawalsNext
  <1>3. Withdrawals => CoherentAtRest
    BY RestCoherent
  <1> QED
    BY <1>1, <1>2, <1>3, PTL DEF QuietSpec

\* While nothing fails and nobody dies, any number of calls that add whole pairs, and of
\* calls that delete them at other times, leave no half of a pair behind.
THEOREM PairsStayWhole ==
  ASSUME NoFaults, Crashes = FALSE, SeedsPaired PROVE QuietSpec => []PairsWhole
  <1>1. QuietInit => Watched /\ Halves
    BY InitWatched, InitHalves
  <1>2. Watched /\ Halves /\ [QuietNext]_quietVars => (Watched /\ Halves)'
    BY WatchedNext, HalvesNext
  <1>3. Halves => PairsWhole
    BY RestWhole
  <1> QED
    BY <1>1, <1>2, <1>3, PTL DEF QuietSpec

\* While repository and cache answer, a Delete that met no other call and returns without
\* error has removed both rows and both entries, even if other callers die.
THEOREM DeletedStaysGone == ASSUME NoFaults PROVE QuietSpec => DeletedIsGone
  <1>1. QuietInit => Watched /\ Gone
    BY InitWatched, InitGone
  <1>2. Watched /\ Gone /\ [QuietNext]_quietVars => (Watched /\ Gone)'
    BY WatchedNext, GoneNext
  <1>3. Watched /\ Gone /\ [QuietNext]_quietVars =>
          [ \A p \in met.alone :
              (frame[p].op = "Delete" /\ At(p, "idle")' /\ frame'[p].reply = "ok") =>
                \A s \in {ReqSlot(frame[p].slot), RespSlot(frame[p].slot)} :
                  ~Present(s)' /\ cache'[CacheKey(s)] = NoEntry ]_quietVars
    <2> SUFFICES ASSUME Watched, Gone, QuietNext, NEW p \in met.alone,
                        frame[p].op = "Delete", At(p, "idle")', frame'[p].reply = "ok",
                        NEW s \in {ReqSlot(frame[p].slot), RespSlot(frame[p].slot)}
                 PROVE  ~Present(s)' /\ cache'[CacheKey(s)] = NoEntry
      OBVIOUS
    <2> QED
      BY LastDeletes
  <1> QED
    BY <1>1, <1>2, <1>3, PTL DEF QuietSpec, DeletedIsGone
================================================================================

------------------------- MODULE MessageValidationProofs -------------------------
(***************************************************************************)
(* Proofs about MessageValidation for every set of messages, documents and *)
(* callers: a report has an entry for every message, and each entry is     *)
(* about the message at its position, judged by a genuine schema, however  *)
(* the registry changes during the batch.  The schema in an entry stays    *)
(* genuine because every copy does (StoreKeeps); it is of the slot the     *)
(* message names because a batch waits for one call at a time, and that    *)
(* call stays about the slot it was made for (StepOnward).  While a batch  *)
(* is quiet, what is in force goes in a circle, from the rows to the calls *)
(* that carry it to the cache and back to the calls (InForce).             *)
(***************************************************************************)
EXTENDS MessageValidation, SchemaServiceProofs

BatchRecord == [pc : {"idle", "next", "wait"}, at : Slots, messages : Seq(Messages),
                entries : Seq(Entry), outcome : {"none", "report", "error"}, quiet : BOOLEAN]

NextMessage(b) == b.messages[Len(b.entries) + 1]

\* An entry for message m of a batch at a slot.
EntryOK(e, m, at) ==
  /\ e.valid => e.by # NoEntry /\ <<m.payload, e.by.doc>> \in Conforms
  /\ e.by # NoEntry => /\ ~Refused(m)
                       /\ e.by \in Copy /\ e.by.status = "verified"
                       /\ Answering(e.by, SlotOf(at, m))

\* A batch and the call it may wait for.
BatchShape(b, p, f) ==
  /\ b \in BatchRecord
  /\ b.messages \in Batches \cup {<<>>}
  /\ Len(b.entries) <= Len(b.messages)
  /\ \A i \in 1 .. Len(b.entries) : EntryOK(b.entries[i], b.messages[i], b.at)
  /\ \A i \in 1 .. Len(b.messages) :
       Refused(b.messages[i]) \/ SlotOf(b.at, b.messages[i]) \in Slots
  /\ b.pc = "wait" => /\ Len(b.entries) < Len(b.messages)
                      /\ ~Refused(NextMessage(b))
                      /\ f.slot = SlotOf(b.at, NextMessage(b))
                      /\ f.pc \notin {"setstatus", "reread"}
  /\ b.pc # "idle" => p \in Validators /\ b.outcome = "none"
  /\ (p \in Validators /\ b.pc # "wait") => f.pc = "idle"
  /\ b.outcome = "report" => Len(b.entries) = Len(b.messages)
  /\ b.outcome = "error" => b.entries = <<>>

\* The schemas a batch was judged by.
JudgedBy(b) == {b.entries[i].by : i \in 1 .. Len(b.entries)} \ {NoEntry}

VInv ==
  /\ IInv
  /\ batch \in [Procs -> BatchRecord]
  /\ \A p \in Procs : BatchShape(batch[p], p, frame[p])
  /\ \A p \in Procs : \A c \in JudgedBy(batch[p]) : c \in Copy /\ Authentic(c)

-----------------------------------------------------------------------------
(* One batch moves. *)

LEMMA BatchStep ==
  ASSUME VInv, IInv', StoreStep, NEW p \in Procs, NEW b, NEW f, BatchShape(b, p, f),
         \A c \in JudgedBy(b) : c \in Copy /\ Authentic(c),
         batch' = [batch EXCEPT ![p] = b], frame' = [frame EXCEPT ![p] = f]
  PROVE  VInv'
  <1>1. batch' \in [Procs -> BatchRecord]
    BY DEF VInv, BatchShape
  <1>2. ASSUME NEW q \in Procs PROVE BatchShape(batch'[q], q, frame'[q])
    BY FrameOf DEF VInv
  <1>3. ASSUME NEW q \in Procs, NEW c \in JudgedBy(batch'[q]) PROVE c \in Copy /\ Authentic(c)'
    <2>1. c \in Copy /\ Authentic(c)
      BY <1>3 DEF VInv
    <2> QED
      BY <2>1, StoreKeeps DEF VInv, IInv
  <1> QED
    BY <1>1, <1>2, <1>3 DEF VInv

\* A batch moves and the service does not.
LEMMA BatchOnly ==
  ASSUME VInv, UNCHANGED vars, NEW p \in Procs, NEW b, BatchShape(b, p, frame[p]),
         \A c \in JudgedBy(b) : c \in Copy /\ Authentic(c),
         batch' = [batch EXCEPT ![p] = b]
  PROVE  VInv'
  <1>1. IInv' /\ StoreStep
    BY StutterKeeps DEF VInv, vars, StoreStep, NoWrite
  <1>2. PICK f : f = frame[p]
    OBVIOUS
  <1>3. frame' = [frame EXCEPT ![p] = f]
    BY <1>2, FrameOf DEF vars, VInv
  <1> QED
    BY <1>1, <1>2, <1>3, BatchStep

\* The service moves, and batches notice.
LEMMA NoticedStep ==
  ASSUME VInv, IInv', StoreStep,
         batch' = [p \in Procs |-> [batch[p] EXCEPT !.quiet = @ /\ store' = store]],
         \A q \in Procs : BatchShape(batch[q], q, frame'[q])
  PROVE  VInv'
  <1>1. ASSUME NEW q \in Procs
        PROVE  /\ batch'[q] \in BatchRecord
               /\ batch'[q].pc = batch[q].pc /\ batch'[q].at = batch[q].at
               /\ batch'[q].messages = batch[q].messages /\ batch'[q].entries = batch[q].entries
               /\ batch'[q].outcome = batch[q].outcome
    <2>1. batch[q] \in BatchRecord
      BY DEF VInv
    <2>2. PICK y \in BOOLEAN : batch'[q] = [batch[q] EXCEPT !.quiet = y]
      <3>1. batch'[q] = [batch[q] EXCEPT !.quiet = batch[q].quiet /\ store' = store]
        BY <2>1 DEF BatchRecord
      <3>2. (batch[q].quiet /\ store' = store) \in BOOLEAN
        OBVIOUS
      <3> QED
        BY <3>1, <3>2
    <2> QED
      BY <2>1, <2>2 DEF BatchRecord
  <1>2. batch' \in [Procs -> BatchRecord]
    BY <1>1
  <1>3. ASSUME NEW q \in Procs PROVE BatchShape(batch'[q], q, frame'[q])
    BY <1>1 DEF BatchShape, NextMessage
  <1>4. ASSUME NEW q \in Procs, NEW c \in JudgedBy(batch'[q]) PROVE c \in Copy /\ Authentic(c)'
    <2>1. c \in Copy /\ Authentic(c)
      BY <1>1, <1>4 DEF VInv, JudgedBy
    <2> QED
      BY <2>1, StoreKeeps DEF VInv, IInv
  <1> QED
    BY <1>2, <1>3, <1>4 DEF VInv

-----------------------------------------------------------------------------
(* The steps of a batch. *)

\* What VInv says of one process.
LEMMA BatchOf ==
  ASSUME VInv, NEW p \in Procs
  PROVE  /\ batch[p] \in BatchRecord /\ BatchShape(batch[p], p, frame[p])
         /\ \A c \in JudgedBy(batch[p]) : c \in Copy /\ Authentic(c)
  BY DEF VInv

LEMMA BatchTyped ==
  ASSUME NEW b \in BatchRecord
  PROVE  /\ Len(b.entries) \in Nat /\ Len(b.messages) \in Nat
         /\ \A i \in 1 .. Len(b.messages) : b.messages[i] \in Messages
         /\ \A i \in 1 .. Len(b.entries) : b.entries[i] \in Entry
  BY DEF BatchRecord

LEMMA EmptyEntries == <<>> \in Seq(Entry) /\ Len(<<>>) = 0
  OBVIOUS

\* No batch at all, as long as no call is in flight.
LEMMA NoBatchShape ==
  /\ NoBatch \in BatchRecord /\ JudgedBy(NoBatch) = {}
  /\ \A p, f : f.pc = "idle" => BatchShape(NoBatch, p, f)
  <1>1. AnySlot \in Slots
    BY SlotsAssumption DEF AnySlot
  <1>2. NoBatch \in BatchRecord /\ NoBatch.entries = <<>> /\ Len(NoBatch.entries) = 0
    BY <1>1 DEF NoBatch, BatchRecord
  <1>3. /\ NoBatch.pc = "idle" /\ NoBatch.messages = <<>> /\ Len(NoBatch.messages) = 0
        /\ NoBatch.outcome = "none"
    BY DEF NoBatch
  <1>4. JudgedBy(NoBatch) = {}
    BY <1>2 DEF JudgedBy
  <1>5. \A p, f : f.pc = "idle" => BatchShape(NoBatch, p, f)
    BY <1>2, <1>3 DEF BatchShape
  <1> QED
    BY <1>2, <1>4, <1>5

LEMMA ValidateKeeps ==
  ASSUME VInv, NEW p \in Validators, NEW at \in Slots, NEW m \in Batches,
         ValidateMessages(p, at, m)
  PROVE  VInv'
  <1>1. p \in Procs /\ m \in Seq(Messages) /\ frame[p].pc = "idle"
    BY ValidationAssumption DEF ValidateMessages, At
  <1>2. PICK y \in BOOLEAN :
          batch' = [batch EXCEPT ![p] =
            [NoBatch EXCEPT !.pc = "next", !.at = at, !.messages = m, !.quiet = y]]
    <2>1. (Coherent /\ \A o \in Others(p) : At(o, "idle")) \in BOOLEAN
      OBVIOUS
    <2> QED
      BY <2>1 DEF ValidateMessages
  <1>3. PICK b : b = [NoBatch EXCEPT !.pc = "next", !.at = at, !.messages = m, !.quiet = y]
    OBVIOUS
  <1>4. batch' = [batch EXCEPT ![p] = b]
    BY <1>2, <1>3
  <1>5. /\ b \in BatchRecord /\ b.pc = "next" /\ b.at = at /\ b.messages = m
        /\ b.entries = <<>> /\ b.outcome = "none" /\ Len(b.entries) = 0
    BY <1>1, <1>3, NoBatchShape DEF NoBatch, BatchRecord
  <1>6. BatchShape(b, p, frame[p])
    <2>1. \A i \in 1 .. Len(m) : Refused(m[i]) \/ SlotOf(at, m[i]) \in Slots
      BY <1>1 DEF ValidateMessages
    <2> QED
      BY <1>1, <1>5, <2>1, BatchTyped DEF BatchShape
  <1>7. JudgedBy(b) = {}
    BY <1>5 DEF JudgedBy
  <1> QED
    BY <1>1, <1>4, <1>6, <1>7, BatchOnly DEF ValidateMessages

\* The message's entry, whatever it says.
LEMMA RecordKeeps ==
  ASSUME VInv, UNCHANGED vars, NEW p \in Procs, NEW e \in Entry,
         batch[p].pc # "idle", frame[p].pc = "idle",
         Len(batch[p].entries) < Len(batch[p].messages),
         EntryOK(e, NextMessage(batch[p]), batch[p].at),
         e.by # NoEntry => Authentic(e.by),
         Record(p, e)
  PROVE  VInv'
  <1>1. PICK a \in BatchRecord : a = batch[p]
    BY BatchOf
  <1>2. PICK b : b = [a EXCEPT !.pc = "next", !.entries = Append(a.entries, e)]
    OBVIOUS
  <1>3. batch' = [batch EXCEPT ![p] = b]
    BY <1>1, <1>2 DEF Record, VInv
  <1>4. /\ Append(a.entries, e) \in Seq(Entry)
        /\ Len(Append(a.entries, e)) = Len(a.entries) + 1
        /\ \A i \in 1 .. Len(a.entries) : Append(a.entries, e)[i] = a.entries[i]
        /\ Append(a.entries, e)[Len(a.entries) + 1] = e
    BY <1>1 DEF BatchRecord
  <1>5. /\ b \in BatchRecord /\ b.pc = "next" /\ b.messages = a.messages /\ b.at = a.at
        /\ b.outcome = a.outcome /\ b.entries = Append(a.entries, e)
    BY <1>2, <1>4 DEF BatchRecord
  <1>6. BatchShape(a, p, frame[p]) /\ Len(a.entries) < Len(a.messages)
    BY <1>1, BatchOf
  <1>7. \A i \in 1 .. Len(b.entries) :
          \/ i \in 1 .. Len(a.entries) /\ b.entries[i] = a.entries[i]
          \/ i = Len(a.entries) + 1 /\ b.entries[i] = e
    BY <1>4, <1>5, BatchTyped
  <1>8. \A i \in 1 .. Len(b.entries) : EntryOK(b.entries[i], b.messages[i], b.at)
    BY <1>1, <1>5, <1>6, <1>7 DEF BatchShape, NextMessage
  <1>9. BatchShape(b, p, frame[p])
    <2>1. a.pc # "idle" /\ p \in Validators /\ a.outcome = "none"
      BY <1>1, <1>6 DEF BatchShape
    <2>2. Len(b.entries) <= Len(b.messages)
      BY <1>4, <1>5, <1>6, BatchTyped
    <2>3. b.messages \in Batches \cup {<<>>}
      BY <1>5, <1>6 DEF BatchShape
    <2>4. \A i \in 1 .. Len(b.messages) :
            Refused(b.messages[i]) \/ SlotOf(b.at, b.messages[i]) \in Slots
      BY <1>5, <1>6 DEF BatchShape
    <2> QED
      BY <1>5, <1>8, <2>1, <2>2, <2>3, <2>4 DEF BatchShape
  <1>10. ASSUME NEW c \in JudgedBy(b) PROVE c \in Copy /\ Authentic(c)
    <2>1. PICK i \in 1 .. Len(b.entries) : c = b.entries[i].by /\ c # NoEntry
      BY <1>10 DEF JudgedBy
    <2>2. CASE i \in 1 .. Len(a.entries) /\ b.entries[i] = a.entries[i]
      <3>1. c \in JudgedBy(batch[p])
        BY <1>1, <2>1, <2>2 DEF JudgedBy
      <3> QED
        BY <3>1, BatchOf
    <2>3. CASE b.entries[i] = e
      BY <2>1, <2>3 DEF Entry
    <2> QED
      BY <1>7, <2>2, <2>3
  <1> QED
    BY <1>3, <1>9, <1>10, BatchOnly

LEMMA AbortKeeps ==
  ASSUME VInv, UNCHANGED vars, NEW p \in Procs, frame[p].pc = "idle", Abort(p)
  PROVE  VInv'
  <1>1. PICK a \in BatchRecord : a = batch[p]
    BY BatchOf
  <1>2. PICK b : b = [a EXCEPT !.pc = "idle", !.entries = <<>>, !.outcome = "error"]
    OBVIOUS
  <1>3. batch' = [batch EXCEPT ![p] = b]
    BY <1>1, <1>2 DEF Abort, VInv
  <1>4. /\ b \in BatchRecord /\ b.pc = "idle" /\ b.messages = a.messages /\ b.at = a.at
        /\ b.entries = <<>> /\ b.outcome = "error"
    BY <1>2, EmptyEntries DEF BatchRecord
  <1>5. /\ a.messages \in Batches \cup {<<>>}
        /\ \A i \in 1 .. Len(a.messages) :
             Refused(a.messages[i]) \/ SlotOf(a.at, a.messages[i]) \in Slots
    BY <1>1, BatchOf DEF BatchShape
  <1>6. BatchShape(b, p, frame[p])
    BY <1>4, <1>5, EmptyEntries, BatchTyped DEF BatchShape
  <1>7. JudgedBy(b) = {}
    BY <1>4, EmptyEntries DEF JudgedBy
  <1> QED
    BY <1>3, <1>6, <1>7, BatchOnly

LEMMA RefuseKeeps == ASSUME VInv, NEW p \in Procs, Refuse(p) PROVE VInv'
  <1>1. PICK e : e = [valid |-> FALSE, by |-> NoEntry]
    OBVIOUS
  <1>2. e \in Entry /\ e.by = NoEntry /\ e.valid = FALSE
    BY <1>1 DEF Entry
  <1>3. EntryOK(e, NextMessage(batch[p]), batch[p].at)
    BY <1>2 DEF EntryOK
  <1>4. /\ batch[p].pc = "next" /\ Len(batch[p].entries) < Len(batch[p].messages)
        /\ Record(p, e) /\ UNCHANGED vars
    BY <1>1 DEF Refuse, Pending
  <1>5. frame[p].pc = "idle"
    BY <1>4, BatchOf DEF BatchShape
  <1> QED
    BY <1>2, <1>3, <1>4, <1>5, RecordKeeps

\* A call starts in its own frame, and the store waits.
LEMMA BeginMoves ==
  ASSUME NEW p \in Procs, Begin(p)
  PROVE  StoreStep /\ \E u : frame' = [frame EXCEPT ![p] = u]
  BY DEF Begin, GetStart, GetVersionStart, AddStart, AddPairStart, UpsertStart, DeleteStart,
         ChangeStatusStart, Start, StoreStep, NoWrite

LEMMA LookUpKeeps == ASSUME VInv, NEW p \in Procs, LookUp(p) PROVE VInv'
  <1>1. PICK a \in BatchRecord : a = batch[p]
    BY BatchOf
  <1>2. /\ a.pc = "next" /\ Len(a.entries) < Len(a.messages) /\ ~Refused(NextMessage(a))
        /\ GetStart(p, SlotOf(a.at, NextMessage(a)))
    BY <1>1 DEF LookUp, Pending, Current, NextMessage
  <1>3. PICK s : s = SlotOf(a.at, NextMessage(a))
    OBVIOUS
  <1>4. PICK f : f = [Blank EXCEPT !.pc = "cacheget", !.slot = s, !.op = "Get"]
    OBVIOUS
  <1>5. f.pc = "cacheget" /\ f.slot = s
    BY <1>4 DEF Blank
  <1>6. frame' = [frame EXCEPT ![p] = f]
    BY <1>2, <1>3, <1>4 DEF GetStart, Start
  <1>7. PICK b : b = [a EXCEPT !.pc = "wait"]
    OBVIOUS
  <1>8. batch' = [batch EXCEPT ![p] = b]
    BY <1>1, <1>7 DEF LookUp, VInv
  <1>9. /\ b \in BatchRecord /\ b.pc = "wait" /\ b.messages = a.messages /\ b.at = a.at
        /\ b.entries = a.entries /\ b.outcome = a.outcome
    BY <1>7 DEF BatchRecord
  <1>10. BatchShape(a, p, frame[p])
    BY <1>1, BatchOf
  <1>11. BatchShape(b, p, f)
    BY <1>2, <1>3, <1>5, <1>9, <1>10 DEF BatchShape, NextMessage
  <1>12. \A c \in JudgedBy(b) : c \in Copy /\ Authentic(c)
    BY <1>1, <1>9, BatchOf DEF JudgedBy
  <1>13. IInv' /\ StoreStep
    <2>1. s \in Slots
      BY <1>2, <1>3, <1>10, BatchTyped DEF NextMessage, BatchShape
    <2> QED
      BY <1>2, <1>3, <2>1, BeginKeeps, BeginMoves DEF Begin, VInv
  <1> QED
    BY <1>6, <1>8, <1>11, <1>12, <1>13, BatchStep

LEMMA JudgeKeeps == ASSUME VInv, NEW p \in Procs, Judge(p) PROVE VInv'
  <1>1. PICK a \in BatchRecord : a = batch[p]
    BY BatchOf
  <1>2. PICK f \in Frame : f = frame[p]
    BY FrameOf DEF VInv
  <1>3. /\ a.pc = "wait" /\ f.pc = "idle" /\ UNCHANGED vars
        /\ Len(a.entries) < Len(a.messages) /\ ~Refused(NextMessage(a))
        /\ f.slot = SlotOf(a.at, NextMessage(a))
    BY <1>1, <1>2, BatchOf DEF Judge, At, BatchShape
  <1>4. ASSUME NEW e \in Entry, EntryOK(e, NextMessage(a), a.at),
               e.by # NoEntry => Authentic(e.by), Record(p, e)
        PROVE  VInv'
    BY <1>1, <1>2, <1>3, <1>4, RecordKeeps
  <1>5. CASE FoundSchema(f.copy) /\ Record(p, Verdict(f.copy, Current(p)))
    <2>1. PICK e : e = Verdict(f.copy, NextMessage(a))
      OBVIOUS
    <2>2. /\ f.copy \in Copy /\ f.copy # NoEntry /\ Authentic(f.copy)
          /\ f.copy.status = "verified" /\ Answering(f.copy, f.slot)
      BY <1>2, <1>5, FrameOf DEF FoundSchema, VInv, Held, Good
    <2>3. PICK v \in BOOLEAN : v = (<<NextMessage(a).payload, f.copy.doc>> \in Conforms)
      <3>1. (<<NextMessage(a).payload, f.copy.doc>> \in Conforms) \in BOOLEAN
        OBVIOUS
      <3> QED
        BY <3>1
    <2>4. /\ e \in Entry /\ e.by = f.copy
          /\ e.valid => <<NextMessage(a).payload, f.copy.doc>> \in Conforms
      <3>1. e = [valid |-> v, by |-> f.copy]
        BY <2>1, <2>3 DEF Verdict
      <3>2. e.valid = v /\ e.by = f.copy /\ e \in Entry
        BY <2>2, <3>1 DEF Entry
      <3> QED
        BY <2>3, <3>2
    <2>5. EntryOK(e, NextMessage(a), a.at)
      BY <1>3, <2>2, <2>4 DEF EntryOK
    <2>6. Record(p, e)
      BY <1>1, <1>5, <2>1 DEF Current, NextMessage
    <2> QED
      BY <1>4, <2>2, <2>4, <2>5, <2>6
  <1>6. CASE Record(p, [valid |-> FALSE, by |-> NoEntry])
    <2>1. PICK e : e = [valid |-> FALSE, by |-> NoEntry]
      OBVIOUS
    <2>2. e \in Entry /\ e.by = NoEntry /\ e.valid = FALSE
      BY <2>1 DEF Entry
    <2> QED
      BY <1>4, <1>6, <2>1, <2>2 DEF EntryOK
  <1>7. CASE Abort(p)
    BY <1>2, <1>3, <1>7, AbortKeeps
  <1> QED
    BY <1>2, <1>5, <1>6, <1>7 DEF Judge

LEMMA ReportKeeps == ASSUME VInv, NEW p \in Procs, Report(p) PROVE VInv'
  <1>1. PICK a \in BatchRecord : a = batch[p]
    BY BatchOf
  <1>2. PICK b : b = [a EXCEPT !.pc = "idle", !.outcome = "report"]
    OBVIOUS
  <1>3. batch' = [batch EXCEPT ![p] = b]
    BY <1>1, <1>2 DEF Report, VInv
  <1>4. /\ b \in BatchRecord /\ b.pc = "idle" /\ b.messages = a.messages /\ b.at = a.at
        /\ b.entries = a.entries /\ b.outcome = "report"
    BY <1>2 DEF BatchRecord
  <1>5. BatchShape(a, p, frame[p]) /\ a.pc = "next" /\ ~(Len(a.entries) < Len(a.messages))
    BY <1>1, BatchOf DEF Report, Pending
  <1>6. Len(b.entries) = Len(b.messages)
    BY <1>4, <1>5, BatchTyped DEF BatchShape
  <1>7. BatchShape(b, p, frame[p])
    BY <1>4, <1>5, <1>6 DEF BatchShape
  <1>8. \A c \in JudgedBy(b) : c \in Copy /\ Authentic(c)
    BY <1>1, <1>4, BatchOf DEF JudgedBy
  <1> QED
    BY <1>3, <1>7, <1>8, BatchOnly DEF Report

-----------------------------------------------------------------------------
(* The steps of the service. *)

\* The call of a process that does not validate disturbs no batch.
LEMMA OthersKeep ==
  ASSUME VInv, NEW p \in Procs, p \notin Validators, NEW u,
         frame' = [frame EXCEPT ![p] = u]
  PROVE  \A q \in Procs : BatchShape(batch[q], q, frame'[q])
  <1> SUFFICES ASSUME NEW q \in Procs PROVE BatchShape(batch[q], q, frame'[q])
    OBVIOUS
  <1>1. BatchShape(batch[q], q, frame[q])
    BY BatchOf
  <1>2. CASE q = p
    <2>1. batch[q].pc = "idle"
      BY <1>1, <1>2 DEF BatchShape
    <2> QED
      BY <1>1, <1>2, <2>1 DEF BatchShape
  <1>3. CASE q # p
    BY <1>1, <1>3, FrameOf DEF VInv
  <1> QED
    BY <1>2, <1>3

LEMMA ServiceBeginKeeps ==
  ASSUME VInv, NEW p \in Procs, p \notin Validators, ServiceStep(Begin(p)) PROVE VInv'
  <1>1. Begin(p) /\ IInv'
    BY BeginKeeps DEF ServiceStep, VInv
  <1> QED
    BY <1>1, BeginMoves, OthersKeep, NoticedStep DEF ServiceStep

LEMMA ServiceStepKeeps == ASSUME VInv, NEW p \in Procs, ServiceStep(Step(p)) PROVE VInv'
  <1>1. Step(p) /\ IInv /\ IInv' /\ StoreStep
    BY StepKeeps, StepOfStore DEF ServiceStep, VInv
  <1>2. \A q \in Procs : BatchShape(batch[q], q, frame'[q])
    <2>1. CASE p \notin Validators
      <3>1. \E u : frame' = [frame EXCEPT ![p] = u]
        BY <1>1, ReadOnward, AddOnward, DeleteOnward, UpsertOnward, DecisionMoves
        DEF Step, Onward
      <3> QED
        BY <2>1, <3>1, OthersKeep
    <2>2. CASE p \in Validators
      <3>1. BatchShape(batch[p], p, frame[p])
        BY BatchOf
      <3>2. frame[p].pc # "idle"
        BY <1>1 DEF Step, At
      <3>3. batch[p].pc = "wait" /\ frame[p].pc \notin {"setstatus", "reread"}
        BY <2>2, <3>1, <3>2 DEF BatchShape
      <3>4. PICK u : Onward(p, u)
        BY <1>1, <3>3, StepOnward
      <3>5. ASSUME NEW q \in Procs PROVE BatchShape(batch[q], q, frame'[q])
        <4>1. CASE q = p
          <5>1. frame'[q] = u /\ u.slot = frame[p].slot /\ u.pc \notin {"setstatus", "reread"}
            BY <1>1, <3>4, <4>1, FrameOf DEF Onward
          <5> QED
            BY <3>1, <3>3, <4>1, <5>1 DEF BatchShape
        <4>2. CASE q # p
          BY <1>1, <3>4, <4>2, BatchOf, FrameOf DEF Onward
        <4> QED
          BY <4>1, <4>2
      <3> QED
        BY <3>5
    <2> QED
      BY <2>1, <2>2
  <1> QED
    BY <1>1, <1>2, NoticedStep DEF ServiceStep

LEMMA ServiceExpireKeeps ==
  ASSUME VInv, NEW k \in Keys, ServiceStep(Expire(k)) PROVE VInv'
  <1>1. IInv' /\ StoreStep /\ UNCHANGED frame
    BY ExpireKeeps DEF ServiceStep, VInv, Expire, StoreStep, NoWrite
  <1> QED
    BY <1>1, BatchOf, NoticedStep DEF ServiceStep

LEMMA LostKeeps == ASSUME VInv, NEW p \in Procs, Lost(p) PROVE VInv'
  <1>1. IInv' /\ StoreStep
    BY CrashKeeps DEF Lost, VInv, Crash, StoreStep, NoWrite
  <1>2. PICK f : f = Blank
    OBVIOUS
  <1>3. PICK b : b = NoBatch
    OBVIOUS
  <1>4. frame' = [frame EXCEPT ![p] = f] /\ batch' = [batch EXCEPT ![p] = b] /\ f.pc = "idle"
    BY <1>2, <1>3 DEF Lost, Crash, Blank
  <1>5. BatchShape(b, p, f) /\ JudgedBy(b) = {}
    BY <1>3, <1>4, NoBatchShape
  <1> QED
    BY <1>1, <1>4, <1>5, BatchStep

-----------------------------------------------------------------------------
LEMMA ValidationInitInv == ValidationInit => VInv
  <1> SUFFICES ASSUME ValidationInit PROVE VInv
    OBVIOUS
  <1>1. IInv
    BY InitInv DEF ValidationInit
  <1>2. \A p \in Procs : frame[p] = Blank /\ Blank.pc = "idle"
    BY DEF ValidationInit, Init, Blank
  <1>3. \A p \in Procs : BatchShape(NoBatch, p, frame[p])
    BY <1>2, NoBatchShape
  <1>4. batch = [p \in Procs |-> NoBatch] /\ NoBatch \in BatchRecord /\ JudgedBy(NoBatch) = {}
    BY NoBatchShape DEF ValidationInit
  <1> QED
    BY <1>1, <1>3, <1>4 DEF VInv

LEMMA ValidationNextInv == VInv /\ [ValidationNext]_validationVars => VInv'
  <1> SUFFICES ASSUME VInv, [ValidationNext]_validationVars PROVE VInv'
    OBVIOUS
  <1>1. ASSUME NEW p \in Procs, Validate(p) PROVE VInv'
    BY <1>1, RefuseKeeps, LookUpKeeps, JudgeKeeps, ReportKeeps, ServiceStepKeeps DEF Validate
  <1>2. CASE UNCHANGED validationVars
    <2>1. UNCHANGED vars /\ UNCHANGED batch
      BY <1>2 DEF validationVars, vars
    <2>2. IInv' /\ StoreStep
      BY <2>1, StutterKeeps DEF VInv, vars, StoreStep, NoWrite
    <2>3. ASSUME NEW q \in Procs, NEW c \in JudgedBy(batch[q]) PROVE c \in Copy /\ Authentic(c)'
      <3>1. c \in Copy /\ Authentic(c)
        BY <2>3, BatchOf
      <3> QED
        BY <2>2, <3>1, StoreKeeps DEF VInv, IInv
    <2> QED
      BY <2>1, <2>2, <2>3 DEF VInv, vars
  <1> QED
    BY <1>1, <1>2, ValidateKeeps, ServiceBeginKeeps, LostKeeps, ServiceExpireKeeps
    DEF ValidationNext

LEMMA AlwaysVInv == ValidationSpec => []VInv
  BY ValidationInitInv, ValidationNextInv, PTL DEF ValidationSpec

\* Whatever the validators and the other callers do, a report has an entry for every
\* message of the batch, and an error comes with none.
THEOREM ValidationTypeCorrect == ValidationSpec => []BatchTypeOK
  <1>1. VInv => BatchTypeOK
    BY DEF VInv, BatchShape, BatchRecord, BatchTypeOK
  <1> QED
    BY <1>1, AlwaysVInv, PTL

\* As long as no two lookups share a cache key: however the registry changes during
\* a batch, an entry is about the message at its position, judged by one version,
\* labelled verified, of the schema that message names.
THEOREM VerdictsStayAuthentic ==
  ASSUME KeysDistinct PROVE ValidationSpec => []VerdictsAuthentic
  <1>1. VInv => VerdictsAuthentic
    <2> SUFFICES ASSUME VInv, NEW p \in Procs, NEW i \in DOMAIN batch[p].entries
                 PROVE  LET e == batch[p].entries[i]
                            m == batch[p].messages[i] IN
                        /\ e.valid => e.by # NoEntry /\ <<m.payload, e.by.doc>> \in Conforms
                        /\ e.by # NoEntry =>
                             /\ ~Refused(m)
                             /\ Authentic(e.by) /\ e.by.status = "verified"
                             /\ e.by.slot \in {SlotOf(batch[p].at, m),
                                               Generic(SlotOf(batch[p].at, m))}
      BY DEF VerdictsAuthentic, SlotOf
    <2>1. batch[p] \in BatchRecord /\ BatchShape(batch[p], p, frame[p])
      BY BatchOf
    <2>2. i \in 1 .. Len(batch[p].entries)
      BY <2>1 DEF BatchRecord
    <2>3. EntryOK(batch[p].entries[i], batch[p].messages[i], batch[p].at)
      BY <2>1, <2>2 DEF BatchShape
    <2>4. batch[p].entries[i].by # NoEntry => Authentic(batch[p].entries[i].by)
      BY <2>2, BatchOf DEF JudgedBy
    <2> QED
      BY <2>3, <2>4 DEF EntryOK, Answering
  <1> QED
    BY <1>1, AlwaysVInv, PTL

-----------------------------------------------------------------------------
(* A quiet batch.  While the registry does not change, a coherent cache stays *)
(* coherent, and whatever a call carries is what the repository answers now.  *)

\* Where a Get may stand.
GetPcs == {"idle", "cacheget", "specific", "generic", "fill"}

\* What a call carries is in force.
Carries(f) ==
  /\ f.pc = "fill" => f.copy = Lookup(f.slot)
  /\ f.pc = "generic" => ~Verified(f.slot) \/ IsGeneric(f.slot)

Waits(b, f)    == b.pc = "wait" => f.op = "Get" /\ f.pc \in GetPcs
Answered(f)    == (f.pc = "idle" /\ f.copy # NoEntry) => f.copy = Lookup(f.slot)
JudgedNow(b)   == \A i \in 1 .. Len(b.entries) :
  b.entries[i].by # NoEntry => b.entries[i].by = Lookup(SlotOf(b.at, b.messages[i]))

Calm == Coherent /\ \A p \in Procs : Carries(frame[p])

InForce ==
  /\ \A p \in Procs : Waits(batch[p], frame[p])
  /\ (\E p \in Procs : batch[p].quiet) => Calm
  /\ \A p \in Procs : batch[p].quiet =>
       /\ JudgedNow(batch[p])
       /\ batch[p].pc = "wait" => Answered(frame[p])

LEMMA LookupKept == ASSUME store' = store, NEW s PROVE Lookup(s)' = Lookup(s)
  BY DEF Lookup, Verified, Present, CopyOf, Version, Content

LEMMA CarriesKept == ASSUME store' = store, NEW f, Carries(f) PROVE Carries(f)'
  BY LookupKept DEF Carries, Verified, Present

LEMMA AnsweredKept == ASSUME store' = store, NEW f, Answered(f) PROVE Answered(f)'
  BY LookupKept DEF Answered

LEMMA JudgedKept == ASSUME store' = store, NEW b, JudgedNow(b) PROVE JudgedNow(b)'
  BY LookupKept DEF JudgedNow

\* Entries that only go leave the cache coherent.
LEMMA CoherentKept ==
  ASSUME store' = store, Coherent, \A k \in Keys : cache'[k] \in {cache[k], NoEntry}
  PROVE  Coherent'
  <1> SUFFICES ASSUME NEW s \in Slots, cache'[CacheKey(s)] # NoEntry
               PROVE  cache'[CacheKey(s)] = Lookup(s)'
    BY DEF Coherent
  <1>1. cache'[CacheKey(s)] = cache[CacheKey(s)]
    BY DEF Keys
  <1> QED
    BY <1>1, LookupKept DEF Coherent

\* A call moves on, carrying what is in force.
Moves(p, u) == frame' = [frame EXCEPT ![p] = u]

\* What a step of a Get leads to, whatever else is going on; and, from a coherent cache,
\* what it carries or answers.
GetOn(p, u) ==
  /\ Moves(p, u)
  /\ u.slot = frame[p].slot
  /\ frame[p].op = "Get" => u.op = "Get" /\ u.pc \in GetPcs

LEMMA GotoGet ==
  ASSUME IInv, NEW p \in Procs, NEW pc \in {"specific", "generic"}, Goto(p, pc)
  PROVE  \E u : GetOn(p, u) /\ u.pc = pc
  <1>1. PICK f \in Frame : f = frame[p]
    BY FrameOf
  <1>2. PICK u : u = [f EXCEPT !.pc = pc]
    OBVIOUS
  <1>3. u.slot = f.slot /\ u.pc = pc /\ u.op = f.op
    BY <1>2 DEF Frame
  <1> QED
    BY <1>1, <1>2, <1>3, FrameOf DEF Goto, GetOn, Moves, GetPcs

LEMMA ResultGet ==
  ASSUME IInv, NEW p \in Procs, NEW copy, NEW o,
         frame' = [frame EXCEPT ![p] = Result(@, copy, o)]
  PROVE  \E u : GetOn(p, u) /\ u.pc = "idle" /\ u.copy = copy
  <1>1. PICK f \in Frame : f = frame[p]
    BY FrameOf
  <1>2. PICK u : u = Result(f, copy, o)
    OBVIOUS
  <1>3. u.slot = f.slot /\ u.pc = "idle" /\ u.op = f.op /\ u.copy = copy
    BY <1>2 DEF Result, Blank
  <1> QED
    BY <1>1, <1>2, <1>3, FrameOf DEF GetOn, Moves, GetPcs

LEMMA FoundGet ==
  ASSUME IInv, NEW p \in Procs, NEW copy, Found(p, copy)
  PROVE  \E u : GetOn(p, u) /\ (u.pc = "archived" \/ (u.pc = "idle" /\ u.copy = copy))
  <1>1. CASE ReturnCopy(p, copy)
    BY <1>1, ResultGet DEF ReturnCopy
  <1>2. CASE frame[p].op = "GetVersion" /\ frame' = [frame EXCEPT ![p].pc = "archived", ![p].copy = copy]
    <2>1. PICK f \in Frame : f = frame[p]
      BY FrameOf
    <2>2. PICK u : u = [f EXCEPT !.pc = "archived", !.copy = copy]
      OBVIOUS
    <2>3. u.slot = f.slot /\ u.pc = "archived"
      BY <2>2 DEF Frame
    <2> QED
      BY <1>2, <2>1, <2>2, <2>3, FrameOf DEF GetOn, Moves
  <1> QED
    BY <1>1, <1>2 DEF Found

LEMMA RowGet ==
  ASSUME IInv, NEW p \in Procs, NEW c,
         frame' = [frame EXCEPT ![p].pc = "fill", ![p].copy = c]
  PROVE  \E u : GetOn(p, u) /\ u.pc = "fill" /\ u.copy = c
  <1>1. PICK f \in Frame : f = frame[p]
    BY FrameOf
  <1>2. PICK u : u = [f EXCEPT !.pc = "fill", !.copy = c]
    OBVIOUS
  <1>3. u.slot = f.slot /\ u.pc = "fill" /\ u.op = f.op /\ u.copy = c
    BY <1>2 DEF Frame
  <1> QED
    BY <1>1, <1>2, <1>3, FrameOf DEF GetOn, Moves, GetPcs

LEMMA ReturnIdle ==
  ASSUME IInv, NEW p \in Procs, NEW o, Return(p, o)
  PROVE  \E u : GetOn(p, u) /\ u.pc = "idle"
  <1>1. PICK u : GetOn(p, u) /\ u.pc = "idle" /\ u.copy = NoEntry
    BY ResultGet DEF Return
  <1> QED
    BY <1>1

LEMMA ReturnCopyIdle ==
  ASSUME IInv, NEW p \in Procs, NEW c, ReturnCopy(p, c)
  PROVE  \E u : GetOn(p, u) /\ u.pc = "idle"
  <1>1. PICK u : GetOn(p, u) /\ u.pc = "idle" /\ u.copy = c
    BY ResultGet DEF ReturnCopy
  <1> QED
    BY <1>1

Reading(p) ==
  \/ CacheGet(p) \/ QuerySpecific(p) \/ QueryGeneric(p) \/ Fill(p) \/ QueryVersion(p)

LEMMA ReadingMoves ==
  ASSUME IInv, NEW p \in Procs, Reading(p)
  PROVE  store' = store /\ \E u : GetOn(p, u)
  <1>1. \A o : Return(p, o) => \E u : GetOn(p, u)
    BY ReturnIdle
  <1>2. \A c : ReturnCopy(p, c) => \E u : GetOn(p, u)
    BY ReturnCopyIdle
  <1>3. CASE CacheGet(p)
    BY <1>1, <1>3, FoundGet, GotoGet DEF CacheGet, Query
  <1>4. CASE QuerySpecific(p)
    BY <1>1, <1>4, RowGet, GotoGet DEF QuerySpecific, QueryRow
  <1>5. CASE QueryGeneric(p)
    BY <1>1, <1>5, RowGet DEF QueryGeneric, QueryRow
  <1>6. CASE Fill(p)
    BY <1>6, FoundGet DEF Fill
  <1>7. CASE QueryVersion(p)
    BY <1>1, <1>2, <1>7 DEF QueryVersion
  <1> QED
    BY <1>3, <1>4, <1>5, <1>6, <1>7 DEF Reading

\* The row of the lookup itself, or else its generic one, is what Lookup finds.
LEMMA LookupOwn == ASSUME NEW s, Verified(s) PROVE Lookup(s) = CopyOf(s)
  BY DEF Lookup

LEMMA GenericOwn == ASSUME NEW s \in Slots, IsGeneric(s) PROVE Generic(s) = s
  BY LookupAssumption DEF Generic, IsGeneric

LEMMA LookupFallback ==
  ASSUME NEW s \in Slots, ~Verified(s) \/ IsGeneric(s), Verified(Generic(s))
  PROVE  Lookup(s) = CopyOf(Generic(s))
  <1>1. CASE ~Verified(s)
    BY <1>1 DEF Lookup
  <1>2. CASE IsGeneric(s)
    BY <1>2, GenericOwn DEF Lookup
  <1> QED
    BY <1>1, <1>2

\* A call that now carries or answers what is in force.
GetsOn(p, u) ==
  /\ GetOn(p, u) /\ Carries(u)'
  /\ frame[p].pc \in GetPcs => Answered(u)'

LEMMA ReturnGets ==
  ASSUME IInv, NEW p \in Procs, NEW o, Return(p, o) PROVE \E u : GetsOn(p, u)
  <1>1. PICK u : GetOn(p, u) /\ u.pc = "idle" /\ u.copy = NoEntry
    BY ResultGet DEF Return
  <1> QED
    BY <1>1 DEF GetsOn, Carries, Answered

LEMMA FoundGets ==
  ASSUME IInv, store' = store, NEW p \in Procs, NEW c, Found(p, c), c = Lookup(frame[p].slot)
  PROVE  \E u : GetsOn(p, u)
  <1>1. PICK u : GetOn(p, u) /\ (u.pc = "archived" \/ (u.pc = "idle" /\ u.copy = c))
    BY FoundGet
  <1>2. PICK s : s = frame[p].slot
    OBVIOUS
  <1>3. u.slot = s /\ Lookup(s)' = c
    BY <1>1, <1>2, LookupKept DEF GetOn
  <1>4. Answered(u)' /\ Carries(u)'
    BY <1>1, <1>3 DEF Answered, Carries
  <1> QED
    BY <1>1, <1>4 DEF GetsOn

LEMMA RowGets ==
  ASSUME IInv, store' = store, NEW p \in Procs, NEW c,
         frame' = [frame EXCEPT ![p].pc = "fill", ![p].copy = c], c = Lookup(frame[p].slot)
  PROVE  \E u : GetsOn(p, u)
  <1>1. PICK u : GetOn(p, u) /\ u.pc = "fill" /\ u.copy = c
    BY RowGet
  <1>2. PICK s : s = frame[p].slot
    OBVIOUS
  <1>3. u.slot = s /\ Lookup(s)' = c
    BY <1>1, <1>2, LookupKept DEF GetOn
  <1>4. Answered(u)' /\ Carries(u)'
    BY <1>1, <1>3 DEF Answered, Carries
  <1> QED
    BY <1>1, <1>4 DEF GetsOn

LEMMA CacheGetCalm ==
  ASSUME IInv, Coherent, NEW p \in Procs, CacheGet(p) PROVE \E u : GetsOn(p, u)
  <1>1. PICK f \in Frame : f = frame[p] /\ f.slot \in Slots
    BY FrameOf
  <1>2. store' = store
    BY DEF CacheGet
  <1>3. CASE cache[CacheKey(f.slot)] # NoEntry /\ Found(p, cache[CacheKey(f.slot)])
    BY <1>1, <1>2, <1>3, FoundGets DEF Coherent
  <1>4. CASE Goto(p, Query(f.slot))
    <2>1. PICK u : GetOn(p, u) /\ u.pc = Query(f.slot)
      BY <1>4, GotoGet DEF Query
    <2>2. u.slot = f.slot /\ (u.pc = "generic" => IsGeneric(f.slot)) /\ u.pc \in {"specific", "generic"}
      BY <1>1, <2>1 DEF GetOn, Query
    <2>3. Carries(u)' /\ Answered(u)'
      BY <2>2 DEF Carries, Answered, IsGeneric
    <2> QED
      BY <2>1, <2>3 DEF GetsOn
  <1>5. CASE Return(p, "error")
    BY <1>5, ReturnGets
  <1> QED
    BY <1>1, <1>3, <1>4, <1>5 DEF CacheGet

LEMMA QuerySpecificCalm ==
  ASSUME IInv, NEW p \in Procs, QuerySpecific(p) PROVE \E u : GetsOn(p, u)
  <1>1. PICK f \in Frame : f = frame[p] /\ f.slot \in Slots
    BY FrameOf
  <1>2. store' = store
    BY DEF QuerySpecific, QueryRow
  <1>3. CASE Verified(f.slot) /\ frame' = [frame EXCEPT ![p].pc = "fill", ![p].copy = CopyOf(f.slot)]
    BY <1>1, <1>2, <1>3, RowGets, LookupOwn
  <1>4. CASE ~Verified(f.slot) /\ Goto(p, "generic")
    <2>1. PICK u : GetOn(p, u) /\ u.pc = "generic"
      BY <1>4, GotoGet
    <2>2. PICK s : s = f.slot /\ u.slot = s
      BY <1>1, <2>1 DEF GetOn
    <2>3. ~Verified(s)'
      BY <1>2, <1>4, <2>2 DEF Verified, Present
    <2>4. Carries(u)' /\ Answered(u)'
      BY <2>1, <2>2, <2>3 DEF Carries, Answered
    <2> QED
      BY <2>1, <2>4 DEF GetsOn
  <1>5. CASE Return(p, "error")
    BY <1>5, ReturnGets
  <1> QED
    BY <1>1, <1>3, <1>4, <1>5 DEF QuerySpecific, QueryRow

LEMMA QueryGenericCalm ==
  ASSUME IInv, NEW p \in Procs, Carries(frame[p]), QueryGeneric(p) PROVE \E u : GetsOn(p, u)
  <1>1. PICK f \in Frame : f = frame[p] /\ f.slot \in Slots
    BY FrameOf
  <1>2. store' = store /\ (~Verified(f.slot) \/ IsGeneric(f.slot))
    BY <1>1 DEF QueryGeneric, QueryRow, Carries, At
  <1>3. CASE /\ Verified(Generic(f.slot))
             /\ frame' = [frame EXCEPT ![p].pc = "fill", ![p].copy = CopyOf(Generic(f.slot))]
    BY <1>1, <1>2, <1>3, RowGets, LookupFallback
  <1>4. CASE \E o : Return(p, o)
    BY <1>4, ReturnGets
  <1> QED
    BY <1>1, <1>3, <1>4 DEF QueryGeneric, QueryRow

LEMMA FillCalm ==
  ASSUME IInv, NEW p \in Procs, Carries(frame[p]), Fill(p) PROVE \E u : GetsOn(p, u)
  BY FoundGets DEF Fill, Carries, At

LEMMA QueryVersionCalm ==
  ASSUME IInv, NEW p \in Procs, QueryVersion(p) PROVE \E u : GetsOn(p, u)
  <1>1. PICK u : GetOn(p, u) /\ u.pc = "idle"
    BY ReturnIdle, ReturnCopyIdle DEF QueryVersion
  <1>2. frame[p].pc \notin GetPcs
    BY DEF QueryVersion, At, GetPcs
  <1> QED
    BY <1>1, <1>2 DEF GetsOn, Carries

LEMMA ReadingCalm ==
  ASSUME IInv, KeysDistinct, Coherent, NEW p \in Procs, Carries(frame[p]), Reading(p)
  PROVE  Coherent' /\ \E u : GetsOn(p, u)
  <1>1. \E u : GetsOn(p, u)
    BY CacheGetCalm, QuerySpecificCalm, QueryGenericCalm, FillCalm, QueryVersionCalm DEF Reading
  <1>2. store' = store
    BY ReadingMoves
  <1>3. ASSUME UNCHANGED cache PROVE Coherent'
    <2>1. \A k \in Keys : cache'[k] \in {cache[k], NoEntry}
      BY <1>3
    <2> QED
      BY <1>2, <2>1, CoherentKept
  <1>4. ASSUME At(p, "fill"), cache' = [cache EXCEPT ![CacheKey(frame[p].slot)] = frame[p].copy]
        PROVE  Coherent'
    <2>1. PICK f \in Frame : f = frame[p] /\ f.slot \in Slots /\ f.copy = Lookup(f.slot)
      BY <1>4, FrameOf DEF Carries, At
    <2> SUFFICES ASSUME NEW s \in Slots, cache'[CacheKey(s)] # NoEntry
                 PROVE  cache'[CacheKey(s)] = Lookup(s)'
      BY DEF Coherent
    <2>2. CASE s = f.slot
      <3>1. cache'[CacheKey(s)] = Lookup(s)
        BY <1>4, <2>1, <2>2 DEF IInv, Keys
      <3> QED
        BY <1>2, <3>1, LookupKept
    <2>3. CASE s # f.slot
      <3>1. cache'[CacheKey(s)] = cache[CacheKey(s)]
        BY <1>4, <2>1, <2>3 DEF IInv, Keys, KeysDistinct
      <3> QED
        BY <1>2, <3>1, LookupKept DEF Coherent
    <2> QED
      BY <2>2, <2>3
  <1> QED
    BY <1>1, <1>3, <1>4 DEF Reading, CacheGet, QuerySpecific, QueryGeneric, QueryRow, Fill, QueryVersion

-----------------------------------------------------------------------------
(* The other steps of the service carry no row on, and only drop entries. *)

Away(p) ==
  /\ \E u : Moves(p, u) /\ u.pc \notin {"generic", "fill"}
  /\ \A k \in Keys : cache'[k] \in {cache[k], NoEntry}

LEMMA GotoAway ==
  ASSUME IInv, NEW p \in Procs, NEW pc \in Pcs \ {"generic", "fill"}, Goto(p, pc)
  PROVE  \E u : Moves(p, u) /\ u.pc \notin {"generic", "fill"}
  <1>1. PICK f \in Frame : f = frame[p]
    BY FrameOf
  <1>2. PICK u : u = [f EXCEPT !.pc = pc]
    OBVIOUS
  <1>3. u.pc = pc
    BY <1>2 DEF Frame
  <1> QED
    BY <1>1, <1>2, <1>3, FrameOf DEF Goto, Moves

LEMMA ReturnAway ==
  ASSUME IInv, NEW p \in Procs, NEW o, Return(p, o)
  PROVE  \E u : Moves(p, u) /\ u.pc \notin {"generic", "fill"}
  <1>1. PICK u : GetOn(p, u) /\ u.pc = "idle"
    BY ReturnIdle
  <1> QED
    BY <1>1 DEF GetOn

LEMMA Dropped ==
  ASSUME IInv, NEW k, EvictKey(k) PROVE \A l \in Keys : cache'[l] \in {cache[l], NoEntry}
  BY DEF EvictKey, IInv

LEMMA CacheAway ==
  ASSUME UNCHANGED cache PROVE \A k \in Keys : cache'[k] \in {cache[k], NoEntry}
  OBVIOUS

LEMMA AddAway ==
  ASSUME IInv, NEW p \in Procs, Add(p) \/ AddResponse(p) \/ Undo(p) \/ UndoEvict(p) PROVE Away(p)
  <1>1. \E u : Moves(p, u) /\ u.pc \notin {"generic", "fill"}
    BY GotoAway, ReturnAway DEF Add, AddResponse, Undo, UndoEvict, Pcs
  <1>2. \A k \in Keys : cache'[k] \in {cache[k], NoEntry}
    BY Dropped, CacheAway DEF Add, AddResponse, Undo, UndoEvict
  <1> QED
    BY <1>1, <1>2 DEF Away

LEMMA AddRequestAway == ASSUME IInv, NEW p \in Procs, AddRequest(p) PROVE Away(p)
  <1>1. PICK f \in Frame : f = frame[p]
    BY FrameOf
  <1>2. CASE frame' = [frame EXCEPT ![p].pc = "addresp", ![p].id = nextId]
    <2>1. PICK u : u = [f EXCEPT !.pc = "addresp", !.id = nextId]
      OBVIOUS
    <2>2. u.pc = "addresp"
      BY <2>1 DEF Frame
    <2>3. Moves(p, u)
      BY <1>1, <1>2, <2>1, FrameOf DEF Moves
    <2> QED
      BY <2>2, <2>3, CacheAway DEF Away, AddRequest
  <1>3. CASE Return(p, "error")
    BY <1>3, ReturnAway, CacheAway DEF Away, AddRequest
  <1> QED
    BY <1>2, <1>3 DEF AddRequest

LEMMA DeleteRequestAway == ASSUME IInv, NEW p \in Procs, DeleteRequest(p) PROVE Away(p)
  <1>1. PICK f \in Frame : f = frame[p]
    BY FrameOf
  <1>2. ASSUME NEW pc \in {"delreqevict", "delresp"}, NEW o,
               frame' = [frame EXCEPT ![p].pc = pc, ![p].reqErr = o]
        PROVE  \E u : Moves(p, u) /\ u.pc \notin {"generic", "fill"}
    <2>1. PICK u : u = [f EXCEPT !.pc = pc, !.reqErr = o]
      OBVIOUS
    <2>2. u.pc = pc
      BY <2>1 DEF Frame
    <2>3. Moves(p, u)
      BY <1>1, <1>2, <2>1, FrameOf DEF Moves
    <2> QED
      BY <2>2, <2>3
  <1>3. \E u : Moves(p, u) /\ u.pc \notin {"generic", "fill"}
    BY <1>2 DEF DeleteRequest
  <1> QED
    BY <1>3, CacheAway DEF Away, DeleteRequest

Evicting(p) ==
  \/ DeleteRequestEvict(p) \/ DeleteResponseEvict(p) \/ EvictRequest(p) \/ EvictResponse(p)
  \/ Evict(p)

LEMMA EvictingAway == ASSUME IInv, NEW p \in Procs, Evicting(p) PROVE Away(p)
  <1>1. \E u : Moves(p, u) /\ u.pc \notin {"generic", "fill"}
    BY GotoAway, ReturnAway
    DEF Evicting, DeleteRequestEvict, DeleteResponseEvict, EvictRequest, EvictResponse, Evict, Pcs
  <1>2. \A k \in Keys : cache'[k] \in {cache[k], NoEntry}
    BY Dropped
    DEF Evicting, DeleteRequestEvict, DeleteResponseEvict, EvictRequest, EvictResponse, Evict
  <1> QED
    BY <1>1, <1>2 DEF Away

LEMMA WritingAway ==
  ASSUME IInv, NEW p \in Procs, Upsert(p) \/ DeleteResponse(p) \/ ChangeStatus(p) PROVE Away(p)
  <1>1. \E u : Moves(p, u) /\ u.pc \notin {"generic", "fill"}
    BY GotoAway, ReturnAway DEF Upsert, DeleteResponse, ChangeStatus, Pcs
  <1>2. \A k \in Keys : cache'[k] \in {cache[k], NoEntry}
    BY CacheAway DEF Upsert, DeleteResponse, ChangeStatus
  <1> QED
    BY <1>1, <1>2 DEF Away

LEMMA RereadAway == ASSUME IInv, NEW p \in Procs, Reread(p) PROVE Away(p)
  <1>1. PICK f \in Frame : f = frame[p]
    BY FrameOf
  <1>2. ASSUME NEW s, frame' = [frame EXCEPT ![p].pc = "evict", ![p].slot = s]
        PROVE  \E u : Moves(p, u) /\ u.pc \notin {"generic", "fill"}
    <2>1. PICK u : u = [f EXCEPT !.pc = "evict", !.slot = s]
      OBVIOUS
    <2>2. u.pc = "evict"
      BY <2>1 DEF Frame
    <2>3. Moves(p, u)
      BY <1>1, <1>2, <2>1, FrameOf DEF Moves
    <2> QED
      BY <2>2, <2>3
  <1>3. \E u : Moves(p, u) /\ u.pc \notin {"generic", "fill"}
    BY <1>2, ReturnAway DEF Reread
  <1> QED
    BY <1>3, CacheAway DEF Away, Reread

LEMMA StepReadsOrAway ==
  ASSUME IInv, NEW p \in Procs, Step(p) PROVE Reading(p) \/ Away(p)
  BY AddAway, AddRequestAway, DeleteRequestAway, EvictingAway, WritingAway, RereadAway
  DEF Step, Reading, Evicting

\* A Get takes only the steps of a Get.
LEMMA GetReads ==
  ASSUME NEW p \in Procs, Step(p), frame[p].pc \in GetPcs PROVE Reading(p)
  BY DEF Step, Reading, GetPcs, At, Add, AddRequest, AddResponse, Undo, UndoEvict, Upsert, Evict,
         DeleteRequest, DeleteRequestEvict, DeleteResponse, DeleteResponseEvict, EvictRequest,
         EvictResponse, ChangeStatus, Reread

-----------------------------------------------------------------------------
(* The steps, one by one. *)

LEMMA Noticed ==
  ASSUME VInv, batch' = [p \in Procs |-> [batch[p] EXCEPT !.quiet = @ /\ store' = store]],
         NEW q \in Procs
  PROVE  /\ batch'[q].pc = batch[q].pc /\ batch'[q].at = batch[q].at
         /\ batch'[q].messages = batch[q].messages /\ batch'[q].entries = batch[q].entries
         /\ batch'[q].quiet => batch[q].quiet /\ store' = store
  <1>1. PICK a \in BatchRecord : a = batch[q]
    BY BatchOf
  <1>2. PICK y \in BOOLEAN : y = (a.quiet /\ store' = store)
    <2>1. (a.quiet /\ store' = store) \in BOOLEAN
      OBVIOUS
    <2> QED
      BY <2>1
  <1>3. batch'[q] = [a EXCEPT !.quiet = y]
    BY <1>1, <1>2
  <1> QED
    BY <1>1, <1>2, <1>3 DEF BatchRecord

\* Entries judged by what is in force stay so.
LEMMA JudgedStays ==
  ASSUME store' = store, NEW q, JudgedNow(batch[q]),
         batch'[q].at = batch[q].at, batch'[q].messages = batch[q].messages,
         batch'[q].entries = batch[q].entries
  PROVE  JudgedNow(batch[q])'
  <1>1. PICK a : a = batch[q]
    OBVIOUS
  <1>2. PICK b : b = batch'[q]
    OBVIOUS
  <1>3. JudgedNow(a)'
    BY <1>1, JudgedKept
  <1>4. b.at = a.at /\ b.messages = a.messages /\ b.entries = a.entries
    BY <1>1, <1>2
  <1>5. JudgedNow(b)'
    BY <1>3, <1>4 DEF JudgedNow
  <1> QED
    BY <1>2, <1>5

\* The service moves: batches that stay quiet have not seen the registry change.
LEMMA NoticedInForce ==
  ASSUME VInv, InForce,
         batch' = [p \in Procs |-> [batch[p] EXCEPT !.quiet = @ /\ store' = store]],
         \A q \in Procs : Waits(batch[q], frame'[q]),
         (store' = store /\ Calm) => Calm',
         ASSUME store' = store, Calm, NEW q \in Procs, batch[q].pc = "wait", Answered(frame[q])
         PROVE  Answered(frame[q])'
  PROVE  InForce'
  <1>1. ASSUME NEW q \in Procs PROVE Waits(batch'[q], frame'[q])
    BY Noticed DEF Waits
  <1>2. ASSUME NEW q \in Procs, batch'[q].quiet
        PROVE  /\ Calm' /\ JudgedNow(batch[q])'
               /\ batch'[q].pc = "wait" => Answered(frame[q])'
    <2>1. batch[q].quiet /\ store' = store
      BY <1>2, Noticed
    <2>2. Calm /\ JudgedNow(batch[q]) /\ (batch[q].pc = "wait" => Answered(frame[q]))
      BY <2>1 DEF InForce
    <2>3. Calm'
      BY <2>1, <2>2
    <2>4. JudgedNow(batch[q])'
      BY <2>1, <2>2, JudgedStays, Noticed
    <2>5. batch'[q].pc = "wait" => Answered(frame[q])'
      BY <2>1, <2>2, Noticed
    <2> QED
      BY <2>3, <2>4, <2>5
  <1> QED
    BY <1>1, <1>2 DEF InForce

LEMMA StepInForce ==
  ASSUME KeysDistinct, VInv, InForce, NEW p \in Procs, ServiceStep(Step(p)) PROVE InForce'
  <1>1. IInv /\ Step(p) /\ frame \in [Procs -> Frame]
    BY DEF VInv, IInv, ServiceStep
  <1>2. PICK u : Moves(p, u)
    BY <1>1, StepReadsOrAway, ReadingMoves DEF Away, GetOn
  <1>3. frame'[p] = u /\ \A q \in Procs : q # p => frame'[q] = frame[q]
    BY <1>1, <1>2 DEF Moves
  <1>4. ASSUME frame[p].pc \in GetPcs PROVE Reading(p)
    BY <1>1, <1>4, GetReads
  <1>5. \A q \in Procs : Waits(batch[q], frame'[q])
    <2>1. CASE batch[p].pc = "wait"
      <3>1. frame[p].op = "Get" /\ frame[p].pc \in GetPcs
        BY <2>1 DEF InForce, Waits
      <3>2. PICK v : GetOn(p, v)
        BY <1>1, <1>4, <3>1, ReadingMoves
      <3>3. frame'[p] = v /\ v.op = "Get" /\ v.pc \in GetPcs
        BY <1>1, <3>1, <3>2 DEF GetOn, Moves
      <3> QED
        BY <1>3, <3>3 DEF InForce, Waits
    <2>2. CASE batch[p].pc # "wait"
      BY <1>3, <2>2 DEF InForce, Waits
    <2> QED
      BY <2>1, <2>2
  <1>6. ASSUME store' = store, Calm
        PROVE  Calm' /\ (frame[p].pc \in GetPcs => Answered(frame[p])')
    <2>1. Coherent /\ Carries(frame[p])
      BY <1>6 DEF Calm
    <2>2. Coherent' /\ Carries(u)' /\ (frame[p].pc \in GetPcs => Answered(u)')
      <3>1. CASE Reading(p)
        <4>1. Coherent' /\ \E v : GetsOn(p, v)
          BY <1>1, <2>1, <3>1, ReadingCalm
        <4>2. PICK v : GetsOn(p, v)
          BY <4>1
        <4>3. v = u
          BY <1>1, <1>3, <4>2 DEF GetsOn, GetOn, Moves
        <4> QED
          BY <4>1, <4>2, <4>3 DEF GetsOn
      <3>2. CASE ~Reading(p)
        <4>1. Away(p) /\ frame[p].pc \notin GetPcs
          BY <1>1, <1>4, <3>2, StepReadsOrAway
        <4>2. PICK v : Moves(p, v) /\ v.pc \notin {"generic", "fill"}
          BY <4>1 DEF Away
        <4>3. v = u
          BY <1>1, <1>3, <4>2 DEF Moves
        <4>4. Coherent'
          BY <1>6, <2>1, <4>1, CoherentKept DEF Away
        <4> QED
          BY <4>1, <4>2, <4>3, <4>4 DEF Carries
      <3> QED
        BY <3>1, <3>2
    <2>3. ASSUME NEW q \in Procs PROVE Carries(frame[q])'
      <3>1. CASE q = p
        BY <1>3, <2>2, <3>1
      <3>2. CASE q # p
        <4>1. PICK f : f = frame[q]
          OBVIOUS
        <4>2. Carries(f)'
          BY <1>6, <4>1, CarriesKept DEF Calm
        <4> QED
          BY <1>3, <3>2, <4>1, <4>2
      <3> QED
        BY <3>1, <3>2
    <2> QED
      BY <1>3, <2>2, <2>3 DEF Calm
  <1>7. ASSUME store' = store, Calm, NEW q \in Procs, batch[q].pc = "wait", Answered(frame[q])
        PROVE  Answered(frame[q])'
    <2>1. CASE q = p
      BY <1>6, <1>7, <2>1 DEF InForce, Waits
    <2>2. CASE q # p
      <3>1. PICK f : f = frame[q]
        OBVIOUS
      <3>2. Answered(f)'
        BY <1>7, <3>1, AnsweredKept
      <3> QED
        BY <1>3, <2>2, <3>1, <3>2
    <2> QED
      BY <2>1, <2>2
  <1>8. (store' = store /\ Calm) => Calm'
    BY <1>6
  <1> QED
    BY <1>5, <1>7, <1>8, NoticedInForce DEF ServiceStep

\* A call that starts, or is gone, carries nothing.
LEMMA AwayCalm ==
  ASSUME IInv, store' = store, Calm, NEW p \in Procs, Away(p) PROVE Calm'
  <1>1. PICK u : Moves(p, u) /\ u.pc \notin {"generic", "fill"}
    BY DEF Away
  <1>2. frame'[p] = u /\ \A q \in Procs : q # p => frame'[q] = frame[q]
    BY <1>1 DEF Moves, IInv
  <1>3. Coherent'
    BY CoherentKept DEF Away, Calm
  <1>4. ASSUME NEW q \in Procs PROVE Carries(frame[q])'
    <2>1. CASE q = p
      BY <1>1, <1>2, <2>1 DEF Carries
    <2>2. CASE q # p
      <3>1. PICK f : f = frame[q]
        OBVIOUS
      <3>2. Carries(f)'
        BY <3>1, CarriesKept DEF Calm
      <3> QED
        BY <1>2, <2>2, <3>1, <3>2
    <2> QED
      BY <2>1, <2>2
  <1> QED
    BY <1>3, <1>4 DEF Calm

\* The answer of a call that does not move stays what is in force.
LEMMA AnswerStays ==
  ASSUME store' = store, NEW q, Answered(frame[q]), frame'[q] = frame[q]
  PROVE  Answered(frame[q])'
  <1>1. PICK f : f = frame[q]
    OBVIOUS
  <1>2. Answered(f)'
    BY <1>1, AnsweredKept
  <1> QED
    BY <1>1, <1>2

LEMMA StartAway ==
  ASSUME NEW p \in Procs, NEW op, NEW f, NEW u, u = [f EXCEPT !.op = op],
         u.pc \notin {"generic", "fill"}, Start(p, op, f)
  PROVE  Away(p) /\ store' = store
  BY CacheAway DEF Start, Moves, Away

LEMMA BeginAway == ASSUME NEW p \in Procs, Begin(p) PROVE Away(p) /\ store' = store
  <1>1. ASSUME NEW s \in Slots, GetStart(p, s) PROVE Away(p) /\ store' = store
    <2>1. PICK f : f = [Blank EXCEPT !.pc = "cacheget", !.slot = s]
      OBVIOUS
    <2>2. PICK u : u = [f EXCEPT !.op = "Get"]
      OBVIOUS
    <2>3. u.pc = "cacheget"
      BY <2>1, <2>2 DEF Blank
    <2>4. Start(p, "Get", f)
      BY <1>1, <2>1 DEF GetStart
    <2> QED
      BY <2>2, <2>3, <2>4, StartAway
  <1>2. ASSUME NEW s \in Slots, NEW v \in 1 .. MaxVersion, GetVersionStart(p, s, v) PROVE Away(p) /\ store' = store
    <2>1. PICK f : f = [Blank EXCEPT !.pc = "cacheget", !.slot = s, !.ver = v]
      OBVIOUS
    <2>2. PICK u : u = [f EXCEPT !.op = "GetVersion"]
      OBVIOUS
    <2>3. u.pc = "cacheget"
      BY <2>1, <2>2 DEF Blank
    <2>4. Start(p, "GetVersion", f)
      BY <1>2, <2>1 DEF GetVersionStart
    <2> QED
      BY <2>2, <2>3, <2>4, StartAway
  <1>3. ASSUME NEW s \in Slots, NEW d \in Docs, AddStart(p, s, d) PROVE Away(p) /\ store' = store
    <2>1. PICK f : f = [Blank EXCEPT !.pc = "add", !.slot = s, !.doc = d]
      OBVIOUS
    <2>2. PICK u : u = [f EXCEPT !.op = "Add"]
      OBVIOUS
    <2>3. u.pc = "add"
      BY <2>1, <2>2 DEF Blank
    <2>4. Start(p, "Add", f)
      BY <1>3, <2>1 DEF AddStart
    <2> QED
      BY <2>2, <2>3, <2>4, StartAway
  <1>4. ASSUME NEW s \in Slots, NEW d \in Docs, UpsertStart(p, s, d) PROVE Away(p) /\ store' = store
    <2>1. PICK f : f = [Blank EXCEPT !.pc = "upsert", !.slot = s, !.doc = d]
      OBVIOUS
    <2>2. PICK u : u = [f EXCEPT !.op = "Upsert"]
      OBVIOUS
    <2>3. u.pc = "upsert"
      BY <2>1, <2>2 DEF Blank
    <2>4. Start(p, "Upsert", f)
      BY <1>4, <2>1 DEF UpsertStart
    <2> QED
      BY <2>2, <2>3, <2>4, StartAway
  <1>5. ASSUME NEW s \in PairSlots, NEW d \in Docs, NEW e \in Docs, AddPairStart(p, s, d, e) PROVE Away(p) /\ store' = store
    <2>1. PICK f : f = [Blank EXCEPT !.pc = "addreq", !.slot = s, !.doc = d, !.doc2 = e]
      OBVIOUS
    <2>2. PICK u : u = [f EXCEPT !.op = "AddPair"]
      OBVIOUS
    <2>3. u.pc = "addreq"
      BY <2>1, <2>2 DEF Blank
    <2>4. Start(p, "AddPair", f)
      BY <1>5, <2>1 DEF AddPairStart
    <2> QED
      BY <2>2, <2>3, <2>4, StartAway
  <1>6. ASSUME NEW s \in PairSlots, DeleteStart(p, s) PROVE Away(p) /\ store' = store
    <2>1. PICK f : f = [Blank EXCEPT !.pc = "delreq", !.slot = s]
      OBVIOUS
    <2>2. PICK u : u = [f EXCEPT !.op = "Delete"]
      OBVIOUS
    <2>3. u.pc = "delreq"
      BY <2>1, <2>2 DEF Blank
    <2>4. Start(p, "Delete", f)
      BY <1>6, <2>1 DEF DeleteStart
    <2> QED
      BY <2>2, <2>3, <2>4, StartAway
  <1>7. ASSUME NEW i \in 1 .. nextId, NEW st \in Decisions, ChangeStatusStart(p, i, st) PROVE Away(p) /\ store' = store
    <2>1. PICK f : f = [Blank EXCEPT !.pc = "setstatus", !.id = i, !.status = st]
      OBVIOUS
    <2>2. PICK u : u = [f EXCEPT !.op = "ChangeStatus"]
      OBVIOUS
    <2>3. u.pc = "setstatus"
      BY <2>1, <2>2 DEF Blank
    <2>4. Start(p, "ChangeStatus", f)
      BY <1>7, <2>1 DEF ChangeStatusStart
    <2> QED
      BY <2>2, <2>3, <2>4, StartAway
  <1> QED
    BY <1>1, <1>2, <1>3, <1>4, <1>5, <1>6, <1>7 DEF Begin

\* A process that does not validate begins a call.
LEMMA BeginInForce ==
  ASSUME VInv, InForce, NEW p \in Procs, p \notin Validators, ServiceStep(Begin(p)) PROVE InForce'
  <1>1. IInv /\ Away(p) /\ store' = store
    BY BeginAway DEF VInv, ServiceStep
  <1>2. PICK u : Moves(p, u)
    BY <1>1 DEF Away
  <1>3. \A q \in Procs : q # p => frame'[q] = frame[q]
    BY <1>1, <1>2 DEF Moves, IInv
  <1>4. batch[p].pc # "wait"
    BY BatchOf DEF BatchShape
  <1>5. \A q \in Procs : Waits(batch[q], frame'[q])
    BY <1>3, <1>4 DEF InForce, Waits
  <1>6. (store' = store /\ Calm) => Calm'
    BY <1>1, AwayCalm
  <1>7. ASSUME store' = store, Calm, NEW q \in Procs, batch[q].pc = "wait", Answered(frame[q])
        PROVE  Answered(frame[q])'
    BY <1>3, <1>4, <1>7, AnswerStays
  <1> QED
    BY <1>5, <1>6, <1>7, NoticedInForce DEF ServiceStep

\* Nothing moves but entries that go.
LEMMA CalmStays ==
  ASSUME store' = store, frame' = frame, Calm, \A k \in Keys : cache'[k] \in {cache[k], NoEntry}
  PROVE  Calm'
  <1>1. Coherent'
    BY CoherentKept DEF Calm
  <1>2. ASSUME NEW q \in Procs PROVE Carries(frame[q])'
    <2>1. PICK g : g = frame[q] /\ frame'[q] = g
      OBVIOUS
    <2>2. Carries(g)'
      BY <2>1, CarriesKept DEF Calm
    <2> QED
      BY <2>1, <2>2
  <1> QED
    BY <1>1, <1>2 DEF Calm

\* An entry expires.
LEMMA ExpireInForce ==
  ASSUME VInv, InForce, NEW k \in Keys, ServiceStep(Expire(k)) PROVE InForce'
  <1>1. /\ store' = store /\ frame' = frame
        /\ \A l \in Keys : cache'[l] \in {cache[l], NoEntry}
    BY DEF ServiceStep, Expire, VInv, IInv
  <1>2. \A q \in Procs : Waits(batch[q], frame'[q])
    BY <1>1 DEF InForce
  <1>3. Calm => Calm'
    BY <1>1, CalmStays
  <1>4. ASSUME store' = store, Calm, NEW q \in Procs, batch[q].pc = "wait", Answered(frame[q])
        PROVE  Answered(frame[q])'
    BY <1>1, <1>4, AnswerStays
  <1> QED
    BY <1>2, <1>3, <1>4, NoticedInForce DEF ServiceStep

-----------------------------------------------------------------------------
(* A batch moves. *)

\* A quiet batch was judged, and is answered, by what is in force.
JudgesNow(b, f) == b.quiet => JudgedNow(b) /\ (b.pc = "wait" => Answered(f))

\* The batch of p becomes b and its call f; the store is left alone.
LEMMA BatchInForce ==
  ASSUME VInv, InForce, store' = store, NEW p \in Procs, NEW b, NEW f,
         batch' = [batch EXCEPT ![p] = b], frame' = [frame EXCEPT ![p] = f],
         Waits(b, f), Calm => Calm', b.quiet => Calm', JudgesNow(b, f)'
  PROVE  InForce'
  <1>1. /\ batch'[p] = b /\ frame'[p] = f
        /\ \A q \in Procs : q # p => batch'[q] = batch[q] /\ frame'[q] = frame[q]
    BY DEF VInv, IInv
  <1>2. \A q \in Procs : Waits(batch'[q], frame'[q])
    BY <1>1 DEF InForce
  <1>3. ASSUME NEW q \in Procs, batch'[q].quiet
        PROVE  /\ Calm' /\ JudgedNow(batch[q])'
               /\ batch'[q].pc = "wait" => Answered(frame[q])'
    <2>1. CASE q = p
      BY <1>1, <1>3, <2>1 DEF JudgesNow
    <2>2. CASE q # p
      <3>1. PICK c : c = batch[q] /\ batch'[q] = c
        BY <1>1, <2>2
      <3>2. PICK g : g = frame[q] /\ frame'[q] = g
        BY <1>1, <2>2
      <3>3. Calm /\ JudgedNow(c) /\ (c.pc = "wait" => Answered(g))
        BY <1>3, <3>1, <3>2 DEF InForce
      <3>4. JudgedNow(c)' /\ (c.pc = "wait" => Answered(g)')
        BY <3>3, JudgedKept, AnsweredKept
      <3> QED
        BY <3>1, <3>2, <3>3, <3>4
    <2> QED
      BY <2>1, <2>2
  <1> QED
    BY <1>2, <1>3 DEF InForce

LEMMA QuietStays ==
  ASSUME VInv, InForce, UNCHANGED vars, NEW p \in Procs, NEW b, NEW f, f = frame[p],
         batch' = [batch EXCEPT ![p] = b], Waits(b, f), b.quiet => Calm, JudgesNow(b, f)
  PROVE  InForce'
  <1>1. store' = store /\ frame' = [frame EXCEPT ![p] = f]
    BY DEF vars, VInv, IInv
  <1>2. Calm => Calm'
    BY CalmStays DEF vars
  <1>3. JudgesNow(b, f)'
    BY <1>1, JudgedKept, AnsweredKept DEF JudgesNow
  <1> QED
    BY <1>1, <1>2, <1>3, BatchInForce

\* A batch that begins quiet begins calm.
LEMMA ValidateInForce ==
  ASSUME VInv, InForce, NEW p \in Validators, NEW at \in Slots, NEW m \in Batches,
         ValidateMessages(p, at, m)
  PROVE  InForce'
  <1>1. p \in Procs /\ frame[p].pc = "idle"
    BY ValidationAssumption DEF ValidateMessages, At
  <1>2. PICK y \in BOOLEAN : y = (Coherent /\ \A o \in Others(p) : At(o, "idle"))
    <2>1. (Coherent /\ \A o \in Others(p) : At(o, "idle")) \in BOOLEAN
      OBVIOUS
    <2> QED
      BY <2>1
  <1>3. PICK b : b = [NoBatch EXCEPT !.pc = "next", !.at = at, !.messages = m, !.quiet = y]
    OBVIOUS
  <1>4. batch' = [batch EXCEPT ![p] = b]
    BY <1>2, <1>3 DEF ValidateMessages
  <1>5. b.pc = "next" /\ Len(b.entries) = 0 /\ b.quiet = y
    BY <1>3, EmptyEntries DEF NoBatch
  <1>6. y => Calm
    BY <1>1, <1>2 DEF Others, At, Calm, Carries
  <1>7. JudgedNow(b)
    BY <1>5 DEF JudgedNow
  <1>8. Waits(b, frame[p]) /\ JudgesNow(b, frame[p])
    BY <1>5, <1>7 DEF Waits, JudgesNow
  <1> QED
    BY <1>1, <1>4, <1>5, <1>6, <1>8, QuietStays DEF ValidateMessages

LEMMA LookUpInForce == ASSUME VInv, InForce, NEW p \in Procs, LookUp(p) PROVE InForce'
  <1>1. PICK a \in BatchRecord : a = batch[p]
    BY BatchOf
  <1>2. PICK s : s = SlotOf(a.at, Current(p))
    OBVIOUS
  <1>3. GetStart(p, s) /\ a.pc = "next" /\ store' = store /\ UNCHANGED cache
    BY <1>1, <1>2 DEF LookUp, Pending, GetStart, Start
  <1>4. PICK f : f = [Blank EXCEPT !.pc = "cacheget", !.slot = s, !.op = "Get"]
    OBVIOUS
  <1>5. f.pc = "cacheget" /\ f.op = "Get"
    BY <1>4 DEF Blank
  <1>6. frame' = [frame EXCEPT ![p] = f]
    BY <1>3, <1>4 DEF GetStart, Start
  <1>7. PICK b : b = [a EXCEPT !.pc = "wait"]
    OBVIOUS
  <1>8. batch' = [batch EXCEPT ![p] = b]
    BY <1>1, <1>7 DEF LookUp, VInv
  <1>9. /\ b.pc = "wait" /\ b.messages = a.messages /\ b.at = a.at
        /\ b.entries = a.entries /\ b.quiet = a.quiet
    BY <1>7 DEF BatchRecord
  <1>10. Waits(b, f)
    BY <1>5 DEF Waits, GetPcs
  <1>11. Calm => Calm'
    <2>1. Away(p)
      BY <1>3, <1>5, <1>6, CacheAway DEF Away, Moves
    <2> QED
      BY <1>3, <2>1, AwayCalm DEF VInv
  <1>12. b.quiet => Calm'
    BY <1>1, <1>9, <1>11 DEF InForce
  <1>13. JudgesNow(b, f)'
    <2>1. ASSUME b.quiet PROVE JudgedNow(b)
      BY <1>1, <1>9, <2>1 DEF InForce, JudgedNow
    <2>2. b.quiet => JudgedNow(b)'
      BY <1>3, <2>1, JudgedKept
    <2>3. Answered(f)'
      BY <1>5 DEF Answered
    <2> QED
      BY <2>2, <2>3 DEF JudgesNow
  <1> QED
    BY <1>3, <1>6, <1>8, <1>10, <1>11, <1>12, <1>13, BatchInForce

\* One more entry, judged against nothing or by what is in force.
LEMMA RecordInForce ==
  ASSUME VInv, InForce, UNCHANGED vars, NEW p \in Procs, NEW e \in Entry,
         (batch[p].quiet /\ e.by # NoEntry) =>
           e.by = Lookup(SlotOf(batch[p].at, NextMessage(batch[p]))),
         Record(p, e)
  PROVE  InForce'
  <1>1. PICK a \in BatchRecord : a = batch[p]
    BY BatchOf
  <1>2. PICK b : b = [a EXCEPT !.pc = "next", !.entries = Append(a.entries, e)]
    OBVIOUS
  <1>3. batch' = [batch EXCEPT ![p] = b]
    BY <1>1, <1>2 DEF Record, VInv
  <1>4. /\ Len(Append(a.entries, e)) = Len(a.entries) + 1
        /\ \A i \in 1 .. Len(a.entries) : Append(a.entries, e)[i] = a.entries[i]
        /\ Append(a.entries, e)[Len(a.entries) + 1] = e
    BY <1>1 DEF BatchRecord
  <1>5. /\ b.pc = "next" /\ b.messages = a.messages /\ b.at = a.at
        /\ b.quiet = a.quiet /\ b.entries = Append(a.entries, e)
    BY <1>2 DEF BatchRecord
  <1>6. \A i \in 1 .. Len(b.entries) :
          \/ i \in 1 .. Len(a.entries) /\ b.entries[i] = a.entries[i]
          \/ i = Len(a.entries) + 1 /\ b.entries[i] = e
    BY <1>4, <1>5, BatchTyped
  <1>7. ASSUME b.quiet PROVE Calm /\ JudgedNow(b)
    <2>1. Calm /\ JudgedNow(a)
      BY <1>1, <1>5, <1>7 DEF InForce
    <2>2. e.by # NoEntry => e.by = Lookup(SlotOf(a.at, a.messages[Len(a.entries) + 1]))
      BY <1>1, <1>5, <1>7 DEF NextMessage
    <2> QED
      BY <1>5, <1>6, <2>1, <2>2 DEF JudgedNow
  <1>8. Waits(b, frame[p]) /\ JudgesNow(b, frame[p])
    BY <1>5, <1>7 DEF Waits, JudgesNow
  <1> QED
    BY <1>3, <1>7, <1>8, QuietStays

LEMMA RefuseInForce == ASSUME VInv, InForce, NEW p \in Procs, Refuse(p) PROVE InForce'
  <1>1. PICK e : e = [valid |-> FALSE, by |-> NoEntry]
    OBVIOUS
  <1>2. e \in Entry /\ e.by = NoEntry
    BY <1>1 DEF Entry
  <1>3. Record(p, e) /\ UNCHANGED vars
    BY <1>1 DEF Refuse
  <1> QED
    BY <1>2, <1>3, RecordInForce

LEMMA AbortInForce ==
  ASSUME VInv, InForce, UNCHANGED vars, NEW p \in Procs, Abort(p) PROVE InForce'
  <1>1. PICK a \in BatchRecord : a = batch[p]
    BY BatchOf
  <1>2. PICK b : b = [a EXCEPT !.pc = "idle", !.entries = <<>>, !.outcome = "error"]
    OBVIOUS
  <1>3. batch' = [batch EXCEPT ![p] = b]
    BY <1>1, <1>2 DEF Abort, VInv
  <1>4. b.pc = "idle" /\ Len(b.entries) = 0 /\ b.quiet = a.quiet
    BY <1>2, EmptyEntries DEF BatchRecord
  <1>5. b.quiet => Calm
    BY <1>1, <1>4 DEF InForce
  <1>6. Waits(b, frame[p]) /\ JudgesNow(b, frame[p])
    BY <1>4 DEF Waits, JudgesNow, JudgedNow
  <1> QED
    BY <1>3, <1>5, <1>6, QuietStays

\* The answer that is judged is the one that is in force.
LEMMA JudgeInForce == ASSUME VInv, InForce, NEW p \in Procs, Judge(p) PROVE InForce'
  <1>1. PICK a \in BatchRecord : a = batch[p]
    BY BatchOf
  <1>2. PICK f \in Frame : f = frame[p]
    BY FrameOf DEF VInv
  <1>3. /\ a.pc = "wait" /\ f.pc = "idle" /\ UNCHANGED vars
        /\ f.slot = SlotOf(a.at, NextMessage(a))
    BY <1>1, <1>2, BatchOf DEF Judge, At, BatchShape
  <1>4. CASE FoundSchema(f.copy) /\ Record(p, Verdict(f.copy, Current(p)))
    <2>1. PICK v \in BOOLEAN : v = (<<NextMessage(a).payload, f.copy.doc>> \in Conforms)
      <3>1. (<<NextMessage(a).payload, f.copy.doc>> \in Conforms) \in BOOLEAN
        OBVIOUS
      <3> QED
        BY <3>1
    <2>2. PICK e : e = [valid |-> v, by |-> f.copy]
      OBVIOUS
    <2>3. f.copy \in Copy /\ e.by = f.copy /\ e \in Entry
      BY <1>2, <1>4, <2>2, FrameOf DEF FoundSchema, VInv, Entry
    <2>4. Record(p, e)
      BY <1>1, <1>4, <2>1, <2>2 DEF Current, NextMessage, Verdict
    <2>5. (a.quiet /\ f.copy # NoEntry) => f.copy = Lookup(f.slot)
      BY <1>1, <1>2, <1>3 DEF InForce, Answered
    <2> QED
      BY <1>1, <1>3, <2>3, <2>4, <2>5, RecordInForce
  <1>5. CASE Record(p, [valid |-> FALSE, by |-> NoEntry])
    <2>1. PICK e : e = [valid |-> FALSE, by |-> NoEntry]
      OBVIOUS
    <2>2. e \in Entry /\ e.by = NoEntry
      BY <2>1 DEF Entry
    <2> QED
      BY <1>3, <1>5, <2>1, <2>2, RecordInForce
  <1>6. CASE Abort(p)
    BY <1>3, <1>6, AbortInForce
  <1> QED
    BY <1>2, <1>4, <1>5, <1>6 DEF Judge

LEMMA ReportInForce == ASSUME VInv, InForce, NEW p \in Procs, Report(p) PROVE InForce'
  <1>1. PICK a \in BatchRecord : a = batch[p]
    BY BatchOf
  <1>2. PICK b : b = [a EXCEPT !.pc = "idle", !.outcome = "report"]
    OBVIOUS
  <1>3. batch' = [batch EXCEPT ![p] = b] /\ UNCHANGED vars
    BY <1>1, <1>2 DEF Report, VInv
  <1>4. /\ b.pc = "idle" /\ b.messages = a.messages /\ b.at = a.at
        /\ b.entries = a.entries /\ b.quiet = a.quiet
    BY <1>2 DEF BatchRecord
  <1>5. b.quiet => Calm /\ JudgedNow(a)
    BY <1>1, <1>4 DEF InForce
  <1>6. Waits(b, frame[p]) /\ JudgesNow(b, frame[p])
    BY <1>4, <1>5 DEF Waits, JudgesNow, JudgedNow
  <1> QED
    BY <1>3, <1>5, <1>6, QuietStays

LEMMA LostInForce == ASSUME VInv, InForce, NEW p \in Procs, Lost(p) PROVE InForce'
  <1>1. PICK f : f = Blank
    OBVIOUS
  <1>2. PICK b : b = NoBatch
    OBVIOUS
  <1>3. /\ frame' = [frame EXCEPT ![p] = f] /\ batch' = [batch EXCEPT ![p] = b]
        /\ store' = store /\ UNCHANGED cache
    BY <1>1, <1>2 DEF Lost, Crash
  <1>4. f.pc = "idle" /\ b.pc = "idle" /\ b.quiet = FALSE
    BY <1>1, <1>2 DEF Blank, NoBatch
  <1>5. Calm => Calm'
    <2>1. Away(p)
      BY <1>3, <1>4, CacheAway DEF Away, Moves
    <2> QED
      BY <1>3, <2>1, AwayCalm DEF VInv
  <1>6. Waits(b, f) /\ JudgesNow(b, f)'
    BY <1>4 DEF Waits, JudgesNow
  <1> QED
    BY <1>3, <1>4, <1>5, <1>6, BatchInForce

-----------------------------------------------------------------------------
LEMMA InitInForce == ValidationInit => InForce
  <1> SUFFICES ASSUME ValidationInit PROVE InForce
    OBVIOUS
  <1>1. \A p \in Procs : batch[p].pc = "idle" /\ batch[p].quiet = FALSE
    BY DEF ValidationInit, NoBatch
  <1> QED
    BY <1>1 DEF InForce, Waits

LEMMA NextInForce ==
  ASSUME KeysDistinct PROVE VInv /\ InForce /\ [ValidationNext]_validationVars => InForce'
  <1> SUFFICES ASSUME VInv, InForce, [ValidationNext]_validationVars PROVE InForce'
    OBVIOUS
  <1>1. ASSUME NEW p \in Procs, Validate(p) PROVE InForce'
    BY <1>1, RefuseInForce, LookUpInForce, JudgeInForce, ReportInForce, StepInForce DEF Validate
  <1>2. CASE UNCHANGED validationVars
    <2>1. UNCHANGED vars /\ store' = store /\ frame' = frame /\ batch' = batch
      BY <1>2 DEF validationVars, vars
    <2>2. ASSUME NEW q \in Procs, batch[q].quiet
          PROVE  /\ Calm' /\ JudgedNow(batch[q])'
                 /\ batch[q].pc = "wait" => Answered(frame[q])'
      <3>1. Calm /\ JudgedNow(batch[q]) /\ (batch[q].pc = "wait" => Answered(frame[q]))
        BY <2>2 DEF InForce
      <3>2. Calm'
        BY <2>1, <3>1, CalmStays DEF vars
      <3>3. JudgedNow(batch[q])'
        BY <2>1, <3>1, JudgedStays
      <3>4. batch[q].pc = "wait" => Answered(frame[q])'
        BY <2>1, <3>1, AnswerStays
      <3> QED
        BY <3>2, <3>3, <3>4
    <2> QED
      BY <2>1, <2>2 DEF InForce
  <1> QED
    BY <1>1, <1>2, ValidateInForce, BeginInForce, LostInForce, ExpireInForce DEF ValidationNext

\* As long as no two lookups share a cache key: a batch that begins on a coherent cache
\* with no other call in flight, and during which the registry does not change, is judged
\* by the schemas that are in force, whoever reads, caches, fails and expires meanwhile.
THEOREM QuietBatchesCurrent ==
  ASSUME KeysDistinct PROVE ValidationSpec => []QuietBatchCurrent
  <1>1. VInv /\ InForce => QuietBatchCurrent
    <2> SUFFICES ASSUME VInv, InForce, NEW p \in Procs, NEW i \in DOMAIN batch[p].entries,
                        batch[p].quiet, batch[p].entries[i].by # NoEntry
                 PROVE  batch[p].entries[i].by = Lookup(SlotOf(batch[p].at, batch[p].messages[i]))
      BY DEF QuietBatchCurrent, SlotOf
    <2>1. i \in 1 .. Len(batch[p].entries)
      BY BatchOf DEF BatchRecord
    <2> QED
      BY <2>1 DEF InForce, JudgedNow
  <1>2. ValidationSpec => []InForce
    BY InitInForce, NextInForce, ValidationInitInv, ValidationNextInv, PTL DEF ValidationSpec
  <1> QED
    BY <1>1, <1>2, AlwaysVInv, PTL
================================================================================

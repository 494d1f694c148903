--------------------------- MODULE MessageValidation ---------------------------
(***************************************************************************)
(* internal/validation on top of the schema service: a batch of OCPP       *)
(* messages is judged one by one, each against the schema a Get of the     *)
(* service returns at that time, while other callers read and change the   *)
(* registry.  A single ValidateMessage is a batch of one.                  *)
(*                                                                         *)
(* The validator and the schema compiler are libraries: Conforms says      *)
(* which payloads a document accepts, Uncompiled which documents are no    *)
(* schema at all.  What the validator makes of a schema the adapter does   *)
(* not find, a violation or an error, is left open.                        *)
(***************************************************************************)
EXTENDS SchemaService

CONSTANTS
  Validators,       \* the processes that validate
  Batches,          \* sequences of messages, as BulkValidateMessages accepts them
  MaxBulkMessages,  \* its cap on their length
  Payloads, NoJson, \* payloads, and one that is no JSON
  NoAction,         \* the action of a message that names none
  Conforms,         \* pairs of a payload and a document that accepts it
  Uncompiled        \* documents the schema compiler refuses

Messages == [type : {"call", "result", "other", "garbled"},
             action : {s.action : s \in Slots} \cup {NoAction},
             payload : Payloads \cup {NoJson}]

ASSUME ValidationAssumption ==
  /\ Validators \subseteq Procs
  /\ \A b \in Batches : b \in Seq(Messages)
  /\ MaxBulkMessages \in Nat \ {0}
  /\ Conforms \subseteq Payloads \X Docs
  /\ Uncompiled \subseteq Docs

VARIABLE batch   \* what each process validates

validationVars == <<store, nextId, cache, frame, writes, batch>>

\* by: the schema the entry was judged against, if one was found.
Entry == [valid : BOOLEAN, by : Copy \cup {NoEntry}]

\* at: the slot of the request's version, vendor and model, with any action;
\* quiet: since the batch began nothing has changed that lookups depend on.
NoBatch == [pc |-> "idle", at |-> AnySlot, messages |-> <<>>, entries |-> <<>>,
            outcome |-> "none", quiet |-> FALSE]

\* Types, and what is returned: an entry for every message, or an error and none.
BatchTypeOK ==
  \A p \in Procs :
    /\ batch[p].pc \in {"idle", "next", "wait"}
    /\ batch[p].at \in Slots
    /\ batch[p].messages \in Batches \cup {<<>>}
    /\ batch[p].entries \in Seq(Entry)
    /\ batch[p].outcome \in {"none", "report", "error"}
    /\ batch[p].outcome = "report" => Len(batch[p].entries) = Len(batch[p].messages)
    /\ batch[p].outcome = "error" => batch[p].entries = <<>>

ValidationInit == Init /\ batch = [p \in Procs |-> NoBatch]

\* Mutants: requests taken for responses; the vendor lost on the way to the lookup.
SlotOfSwapped(at, m) ==
  [at EXCEPT !.action = m.action, !.msgType = IF m.type = "call" THEN Response ELSE Request]
SlotOfGeneric(at, m) ==
  [Generic(at) EXCEPT !.action = m.action,
                      !.msgType = IF m.type = "call" THEN Request ELSE Response]

\* What the adapter looks up for a message.
SlotOf(at, m) ==
  [at EXCEPT !.action = m.action, !.msgType = IF m.type = "call" THEN Request ELSE Response]

\* Refused before any lookup: no JSON, neither a CALL nor a CALLRESULT, no action,
\* or a payload that is no JSON.
Refused(m) ==
  \/ m.type \in {"other", "garbled"}
  \/ m.action = NoAction
  \/ m.payload = NoJson

-----------------------------------------------------------------------------
Current(p) == batch[p].messages[Len(batch[p].entries) + 1]
Pending(p) == batch[p].pc = "next" /\ Len(batch[p].entries) < Len(batch[p].messages)

Others(p) == Procs \ {p}

\* Mutants: an entry that is not stored; an error with the entries so far.
AbortPartial(p) == batch' = [batch EXCEPT ![p].pc = "idle", ![p].outcome = "error"]
RecordNothing(p, e) == batch' = [batch EXCEPT ![p].pc = "next"]

\* The message's own entry, or the end of the batch with an error.
Record(p, e) == batch' = [batch EXCEPT ![p].pc = "next", ![p].entries = Append(@, e)]
Abort(p) == batch' = [batch EXCEPT ![p].pc = "idle", ![p].entries = <<>>,
                                   ![p].outcome = "error"]

ValidateMessages(p, at, b) ==
  /\ batch[p].pc = "idle" /\ At(p, "idle")
  /\ Len(b) \in 1 .. MaxBulkMessages
  /\ \A i \in DOMAIN b : Refused(b[i]) \/ SlotOf(at, b[i]) \in Slots
  /\ batch' = [batch EXCEPT ![p] =
       [NoBatch EXCEPT !.pc = "next", !.at = at, !.messages = b,
                       !.quiet = Coherent /\ \A o \in Others(p) : At(o, "idle")]]
  /\ UNCHANGED vars

Refuse(p) ==
  /\ Pending(p)
  /\ Refused(Current(p))
  /\ Record(p, [valid |-> FALSE, by |-> NoEntry])
  /\ UNCHANGED vars

\* The adapter asks the service.
LookUp(p) ==
  /\ Pending(p)
  /\ ~Refused(Current(p))
  /\ GetStart(p, SlotOf(batch[p].at, Current(p)))
  /\ batch' = [batch EXCEPT ![p].pc = "wait"]

\* Whatever the reason, an error of Get and a schema that does not compile are
\* "not found" to the validator.
FoundSchema(copy) == copy # NoEntry /\ copy.doc \notin Uncompiled

Verdict(copy, m) == [valid |-> <<m.payload, copy.doc>> \in Conforms, by |-> copy]

Judge(p) ==
  LET copy == frame[p].copy IN
  /\ batch[p].pc = "wait" /\ At(p, "idle")
  /\ \/ FoundSchema(copy) /\ Record(p, Verdict(copy, Current(p)))
     \/ ~FoundSchema(copy) /\ (Abort(p) \/ Record(p, [valid |-> FALSE, by |-> NoEntry]))
  /\ UNCHANGED vars

Report(p) ==
  /\ batch[p].pc = "next" /\ ~Pending(p)
  /\ batch' = [batch EXCEPT ![p].pc = "idle", ![p].outcome = "report"]
  /\ UNCHANGED vars

\* A step of the service; batches notice when it changes the registry.
ServiceStep(A) ==
  /\ A
  /\ batch' = [p \in Procs |-> [batch[p] EXCEPT !.quiet = @ /\ store' = store]]

Lost(p) ==
  /\ Crash(p)
  /\ batch' = [batch EXCEPT ![p] = NoBatch]

Validate(p) == Refuse(p) \/ LookUp(p) \/ Judge(p) \/ Report(p) \/ ServiceStep(Step(p))

ValidationNext ==
  \/ \E p \in Validators, at \in Slots, b \in Batches : ValidateMessages(p, at, b)
  \/ \E p \in Procs :
       \/ Validate(p)
       \/ p \notin Validators /\ ServiceStep(Begin(p))
       \/ Lost(p)
  \/ \E k \in Keys : ServiceStep(Expire(k))

ValidationSpec == ValidationInit /\ [][ValidationNext]_validationVars

\* A batch goes on, as the calls it makes do.  Nobody has to send one.
FairValidation == ValidationSpec /\ \A p \in Procs : WF_validationVars(Validate(p))

-----------------------------------------------------------------------------
(* Properties *)

\* However the registry changes during a batch, the entry at a message's position
\* is about that message: it is valid only if the payload conforms to one version,
\* labelled verified, of a row of the slot that message names or of its generic one,
\* and a message that is refused was judged against nothing.
VerdictsAuthentic ==
  \A p \in Procs : \A i \in DOMAIN batch[p].entries :
    LET e == batch[p].entries[i]
        m == batch[p].messages[i]
        s == [batch[p].at EXCEPT !.action = m.action,
                                 !.msgType = IF m.type = "call" THEN Request ELSE Response] IN
    /\ e.valid => e.by # NoEntry /\ <<m.payload, e.by.doc>> \in Conforms
    /\ e.by # NoEntry => /\ ~Refused(m)
                         /\ Authentic(e.by) /\ e.by.status = "verified"
                         /\ e.by.slot \in {s, Generic(s)}

\* A batch that begins on a coherent cache with no other call in flight, and during
\* which the registry does not change, is judged by the schemas that are in force,
\* whoever reads, caches and expires meanwhile.
QuietBatchCurrent ==
  \A p \in Procs : \A i \in DOMAIN batch[p].entries :
    LET e == batch[p].entries[i]
        m == batch[p].messages[i] IN
    (batch[p].quiet /\ e.by # NoEntry) =>
      e.by = Lookup([batch[p].at EXCEPT !.action = m.action,
                       !.msgType = IF m.type = "call" THEN Request ELSE Response])

\* Every batch is answered.
BatchesReturn == \A p \in Procs : batch[p].pc # "idle" ~> batch[p].pc = "idle"
================================================================================

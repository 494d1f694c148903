-------------------------- MODULE MCMessageValidation --------------------------
(* A batch of two messages while one other caller reads and writes. *)
EXTENDS MessageValidation

CONSTANTS p1, p2, d1, d2, x

Heartbeat == <<"Heartbeat">>

\* Generic and vendor request, and a response nobody has added.
MCSlots ==
  {[version |-> <<"1.6">>, action |-> Heartbeat, msgType |-> t[1], vendor |-> t[2], model |-> Nil] :
     t \in {<<Request, Nil>>, <<Request, <<"Vendor">>>>, <<Response, Nil>>}}

\* Both requests are in force when the process starts: the generic one is seeded,
\* the vendor's was added and verified before.
MCSeeded  == {s \in Slots : s.msgType = Request}
MCSeedId  == [s \in Seeded |-> IF IsGeneric(s) THEN 1 ELSE 2]
MCSeedDoc == [s \in Seeded |-> d1]
MCDecoded == [d \in Docs |-> d]

Message(type, action) == [type |-> type, action |-> action, payload |-> x]
CallMsg    == Message("call", Heartbeat)
ResultMsg  == Message("result", Heartbeat)
GarbledMsg == Message("garbled", NoAction)

MCBatches == {<<CallMsg, CallMsg>>, <<GarbledMsg, CallMsg>>, <<CallMsg, ResultMsg>>}
\* The payload conforms to one of the two documents.
MCConforms == {<<x, d1>>}
================================================================================

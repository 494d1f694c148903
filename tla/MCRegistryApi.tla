----------------------------- MODULE MCRegistryApi -----------------------------
(* The doors of a registry with one action. *)
EXTENDS RegistryApi, TLC

CONSTANTS p1, p2, d1, d2

Heartbeat == <<"Heartbeat">>
Model     == <<"Model">>

\* The generic pair, and the request of a pair without a version.
MCSlots ==
  {[version |-> x[1], action |-> Heartbeat, msgType |-> x[2], vendor |-> Nil, model |-> Nil] :
     x \in {<< <<"1.6">>, Request>>, << <<"1.6">>, Response>>, <<NoName, Request>>}}

MCSeeded  == {s \in Slots : s.version # NoName /\ IsGeneric(s)}
MCSeedId  == [s \in Seeded |-> IF s.msgType = Request THEN 1 ELSE 2]
MCSeedDoc == [s \in Seeded |-> d1]
MCDocs    == {d1, d2, NoDoc}
MCDecoded == [d \in Docs |-> IF d = NoDoc THEN Undecodable ELSE d]

GrpcRequest(version, action, type, model, doc) ==
  [version |-> version, action |-> action, type |-> type, vendor |-> Nil, model |-> model,
   doc |-> doc, doc2 |-> d1]

\* A good request, and one for each thing that may be wrong with it.
MCGrpcRequests ==
  {GrpcRequest(1, Heartbeat, 1, Nil, d2), GrpcRequest(1, Heartbeat, 1, Nil, d1), GrpcRequest(1, Heartbeat, 2, Nil, d2),
   GrpcRequest(0, Heartbeat, 1, Nil, d2), GrpcRequest(4, Heartbeat, 1, Nil, d2),
   GrpcRequest(1, NoName, 1, Nil, d2),    GrpcRequest(1, Heartbeat, 3, Nil, d2),
   GrpcRequest(1, Heartbeat, 1, Model, d2), GrpcRequest(1, Heartbeat, 1, Nil, NoDoc)}

Arguments(version, type, model, garbled, doc) ==
  [version |-> version, action |-> Heartbeat, type |-> type, vendor |-> NoName,
   model |-> model, garbled |-> garbled, doc |-> doc, doc2 |-> d1]

MCMcpArguments ==
  {Arguments(<<"1.6">>, Request, NoName, FALSE, d2), Arguments(NoName, Request, NoName, FALSE, d2),
   Arguments(<<"1.6">>, Request, Model, TRUE, NoDoc)}

MCMalformed == Docs \cap {NoDoc}
MCSymmetry == Permutations(Procs)
================================================================================

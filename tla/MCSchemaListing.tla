---------------------------- MODULE MCSchemaListing ----------------------------
(* A small registry to list: one action of one vendor's models. *)
EXTENDS SchemaListing

CONSTANTS d1, d2

CONSTANTS m1, m2, V

\* The request and response of one model, which tie in the order of List, the
\* request of another model and one without a model, which is not seeded.
MCSlots ==
  {[version |-> V, action |-> V, msgType |-> t[1], vendor |-> V, model |-> t[2]] :
     t \in {<<"request", m1>>, <<"response", m1>>, <<"request", m2>>, <<"request", Model0>>}}

MCSeeded == {s \in Slots : s.model # Model0}

MCRank == [n \in {V, m1, m2, Model0} |-> CASE n = m2 -> 2 [] n = Model0 -> 3 [] OTHER -> 1]

MCSeedId  == [s \in Seeded |-> IF s.model = m2 THEN 3 ELSE IF s.msgType = "request" THEN 1 ELSE 2]
MCSeedDoc == [s \in Seeded |-> d1]
MCDecoded == [d \in Docs |-> d]
================================================================================

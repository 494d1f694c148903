---------------------------- MODULE MCSchemaService ----------------------------
(* Instances of SchemaService small enough for TLC. *)
EXTENDS SchemaService, TLC

CONSTANTS p1, p2, d1, d2, bad

Lookups(types, vendors, models) ==
  [version : {<<"1.6">>}, action : {<<"Heartbeat">>}, msgType : types,
   vendor : vendors, model : models]

Vendor == <<"Vendor">>

\* Request and response of one action, generic only.
GenericPair == Lookups({Request, Response}, {Nil}, {Nil})

\* One request slot, generic only or with a vendor's.
GenericRequest == Lookups({Request}, {Nil}, {Nil})
VendorRequest  == Lookups({Request}, {Nil, Vendor}, {Nil})

\* Migration 003 seeds the generic rows.
MCSeeded  == {s \in Slots : IsGeneric(s)}
MCSeedId  == [s \in Seeded |-> IF s.msgType = Request THEN 1 ELSE 2]
MCSeedDoc == [s \in Seeded |-> d1]
MCDecoded == [d \in Docs |-> IF d = bad THEN Undecodable ELSE d]
MCMalformed == Docs \cap {bad}
MCSymmetry == Permutations(Procs)
================================================================================

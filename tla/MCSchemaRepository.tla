--------------------------- MODULE MCSchemaRepository ---------------------------
(* Instances of SchemaRepository small enough for TLC. *)
EXTENDS SchemaRepository, TLC

CONSTANTS a,               \* slots
          c1, c2,          \* clients
          d1, d2,          \* documents that decode to themselves
          big1, big2,      \* two integers above 2^53 that round to one float64
          huge,            \* a number beyond float64, which jsonb accepts
          bad              \* not JSON

MCSeedId  == [s \in Seeded |-> 1]
MCSeedDoc == [s \in Seeded |-> IF big1 \in Docs THEN big1 ELSE d1]
MCDecoded == [d \in Docs |-> CASE d = big2 -> big1
                               [] d \in {huge, bad} -> Undecodable
                               [] OTHER -> d]
MCMalformed == Docs \cap {bad}
MCSymmetry == Permutations(Clients)
================================================================================

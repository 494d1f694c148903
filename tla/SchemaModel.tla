------------------------------ MODULE SchemaModel ------------------------------
(***************************************************************************)
(* The data every part of the registry shares (internal/schema/model.go,   *)
(* the lookup key of deployments/migrations/001 and jsonContentEqual of    *)
(* internal/storage/postgres/repository.go).                               *)
(*                                                                         *)
(* A slot is a lookup key (ocpp_version, action, message_type, vendor,     *)
(* model).  A document of Docs stands for one JSON document up to          *)
(* formatting: two documents are the same member of Docs exactly when      *)
(* Postgres stores the same jsonb value for both.  Malformed documents are *)
(* byte strings that are not JSON at all; nothing in the handlers keeps    *)
(* them from reaching the repository.                                      *)
(***************************************************************************)
EXTENDS Integers, Sequences

CONSTANTS
  Slots,        \* lookup keys
  Docs,         \* documents a caller may submit
  Malformed,    \* those that are not JSON: a jsonb column refuses them
  Decoded,      \* what encoding/json decodes a document to, numbers as float64
  Undecodable,  \* the value of Decoded for a document Unmarshal refuses
  Seeded,       \* slots with a row from migration 003
  SeedId,       \* the id of each seeded row
  SeedDoc,      \* the content of each seeded row
  FirstId,      \* the first id a running registry hands out
  NoRow         \* the absence of a row

ASSUME SlotsAssumption == Slots # {}

ASSUME DocsAssumption ==
  /\ Docs # {}
  /\ Malformed \subseteq Docs
  /\ DOMAIN Decoded = Docs
  /\ \A d \in Malformed : Decoded[d] = Undecodable

ASSUME SeedAssumption ==
  /\ Seeded \subseteq Slots
  /\ FirstId \in Nat \ {0}
  /\ SeedId \in [Seeded -> 1 .. FirstId - 1]
  /\ \A s, t \in Seeded : SeedId[s] = SeedId[t] => s = t
  /\ SeedDoc \in [Seeded -> Docs \ Malformed]

Statuses == {"submitted", "verified", "rejected"}

\* What an admin may decide: the handler refuses to put a schema back to submitted.
Decisions == {"verified", "rejected"}

\* jsonContentEqual decodes both sides into `any' and compares the results: a
\* document that does not decode is equal to nothing, and numbers that round to
\* the same float64 are equal.
JsonContentEqual(a, b) ==
  /\ Decoded[a] # Undecodable
  /\ Decoded[b] # Undecodable
  /\ Decoded[a] = Decoded[b]

AnySlot == CHOOSE s \in Slots : TRUE
AnyDoc  == CHOOSE d \in Docs : TRUE
================================================================================

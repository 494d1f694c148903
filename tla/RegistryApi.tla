------------------------------ MODULE RegistryApi ------------------------------
(***************************************************************************)
(* The doors of the registry: the handlers of the gRPC servers             *)
(* (internal/grpc) and the tools and resources of the MCP server           *)
(* (internal/mcp), all on the one schema service of SchemaService.  A      *)
(* handler checks its request, turns it into a lookup, calls the service   *)
(* and turns the outcome into a reply; only the changelog tool calls the   *)
(* service twice.  The doors check different things: gRPC knows versions   *)
(* and message types as enumerations and refuses what it cannot name, MCP  *)
(* passes strings on, and what its tools declare as required or as an      *)
(* enumeration nobody checks.                                              *)
(*                                                                         *)
(* Listings by page are in SchemaListing, bulk validation in               *)
(* MessageValidation.                                                      *)
(***************************************************************************)
EXTENDS SchemaService

CONSTANTS
  GrpcRequests,   \* the fields of gRPC requests, as they arrive
  McpArguments,   \* the arguments of MCP tools and resources, as they arrive
  MaxPageSize     \* versions the changelog tool answers at most

VARIABLE call   \* each process's handler

apiVars == <<store, nextId, cache, frame, writes, call>>

-----------------------------------------------------------------------------
(* Values on the wire.  A name is a sequence, the empty one the empty string. *)

NoName == <<>>
NoDoc  == <<>>   \* an empty document, or message

ASSUME ApiAssumption ==
  /\ NoDoc \in Docs => NoDoc \in Malformed
  /\ \A r \in GrpcRequests \cup McpArguments : {r.doc, r.doc2} \subseteq Docs
  /\ MaxPageSize \in Nat

\* The numbers the generated code has names for; 0 is "unspecified".
OcppVersion_name  == 0 .. 3
MessageType_name  == 0 .. 2
SchemaStatus_name == 0 .. 3

ocppVersionToDomain(v) ==
  CASE v = 1 -> <<"1.6">> [] v = 2 -> <<"2.0.1">> [] v = 3 -> <<"2.1">> [] OTHER -> NoName

messageTypeToDomain(t) ==
  CASE t = 1 -> Request [] t = 2 -> Response [] OTHER -> NoName

schemaStatusToDomain(st) ==
  CASE st = 1 -> "submitted" [] st = 2 -> "verified" [] st = 3 -> "rejected" [] OTHER -> ""

-----------------------------------------------------------------------------
(* The checks of the gRPC handlers. *)

\* Mutant: a version only has to be given.
ValidOcppVersionGiven(r) == r.version # 0

ValidOcppVersion(r) == r.version # 0 /\ r.version \in OcppVersion_name

ValidActionKey(r) == ValidOcppVersion(r) /\ r.action # NoName

ValidSchemaKey(r) == ValidActionKey(r) /\ r.type # 0 /\ r.type \in MessageType_name

\* An empty vendor is a vendor.
ValidVendorModel(r) == ~(r.model # Nil /\ r.vendor = Nil)

\* A decision an admin may take.
ValidStatus(st) == schemaStatusToDomain(st) \in Decisions

-----------------------------------------------------------------------------
(* From a request to a lookup. *)

GrpcSlot(r, type) ==
  [version |-> ocppVersionToDomain(r.version), action |-> r.action, msgType |-> type,
   vendor |-> r.vendor, model |-> r.model]

\* optionalString, and lo.EmptyableToPtr of the validator's adapter.
EmptyToNil(name) == IF name = NoName THEN Nil ELSE name

McpSlot(a, type) ==
  [version |-> a.version, action |-> a.action, msgType |-> type,
   vendor |-> EmptyToNil(a.vendor), model |-> EmptyToNil(a.model)]

\* The adapter goes by the suffix of the action.
ValidatorSlot(s) == [s EXCEPT !.vendor = EmptyToNil(@), !.model = EmptyToNil(@)]

\* A query string that does not parse filters nothing.
ResourceSlot(a) ==
  IF a.garbled THEN Generic(McpSlot(a, a.type)) ELSE McpSlot(a, a.type)

-----------------------------------------------------------------------------
\* With doors of their own: ValidateMessage, schema_validation, list_schema_versions.
GrpcDoors == {"grpc", "grpc_validation", "admin"}
McpDoors  == {"mcp", "mcp_validation", "changelog"}

\* versions: what list_schema_versions answers; hand: the schema it looked up.
NoCall == [pc |-> "idle", door |-> "none", reply |-> "none", versions |-> <<>>,
           hand |-> NoEntry]

ListedVersion == [version : Nat, doc : Docs]

\* Types; a changelog answer is never longer than a page.
ApiTypeOK ==
  \A p \in Procs :
    /\ call[p].pc \in {"idle", "service", "versions"}
    /\ call[p].door \in GrpcDoors \cup McpDoors \cup {"none"}
    /\ call[p].reply \in {"none", "ok", "invalid_argument", "not_found", "internal", "error"}
    /\ call[p].versions \in Seq(ListedVersion) /\ Len(call[p].versions) <= MaxPageSize
    /\ call[p].hand \in Copy \cup {NoEntry}

ApiInit == Init /\ call = [p \in Procs |-> NoCall]

\* A request arrives: it is refused, or the service is called.
Handle(p, door, valid, refusal, Service) ==
  /\ call[p].pc = "idle"
  /\ \/ /\ valid /\ Service
        /\ call' = [call EXCEPT ![p] = [NoCall EXCEPT !.pc = "service", !.door = door]]
     \/ /\ ~valid /\ UNCHANGED vars
        /\ call' = [call EXCEPT ![p] = [NoCall EXCEPT !.reply = refusal]]

-----------------------------------------------------------------------------
(* The gRPC handlers.  Only slots of the instance are asked for. *)

AddSchema(p, r) ==
  LET s == GrpcSlot(r, Request) IN
  Handle(p, "grpc",
         ValidActionKey(r) /\ ValidVendorModel(r) /\ r.doc # NoDoc /\ r.doc2 # NoDoc,
         "invalid_argument",
         s \in PairSlots /\ AddPairStart(p, s, r.doc, r.doc2))

UpsertSchema(p, r) ==
  LET s == GrpcSlot(r, messageTypeToDomain(r.type)) IN
  Handle(p, "grpc", ValidSchemaKey(r) /\ ValidVendorModel(r) /\ r.doc # NoDoc,
         "invalid_argument",
         s \in Slots /\ UpsertStart(p, s, r.doc))

DeleteSchema(p, r) ==
  LET s == GrpcSlot(r, Request) IN
  Handle(p, "grpc", ValidActionKey(r) /\ ValidVendorModel(r), "invalid_argument",
         s \in PairSlots /\ DeleteStart(p, s))

\* The message to validate is r.doc; one that is no JSON is answered without a
\* lookup.
ValidateMessage(p, r) ==
  LET s == ValidatorSlot(GrpcSlot(r, messageTypeToDomain(r.type)))
      valid == ValidSchemaKey(r) /\ ValidVendorModel(r) /\ r.doc # NoDoc IN
  Handle(p, "grpc_validation", valid /\ r.doc \notin Malformed,
         IF valid THEN "ok" ELSE "invalid_argument",
         s \in Slots /\ GetStart(p, s))

\* The admin's; 0 is an id that does not parse.
AdminChangeStatus(p, id, st) ==
  Handle(p, "admin", id # 0 /\ ValidStatus(st), "invalid_argument",
         ChangeStatusStart(p, id, schemaStatusToDomain(st)))

-----------------------------------------------------------------------------
(* The MCP tools and the schema resource. *)

RegisterSchema(p, a) ==
  LET s == McpSlot(a, Request) IN
  Handle(p, "mcp", TRUE, "error", s \in PairSlots /\ AddPairStart(p, s, a.doc, a.doc2))

RemoveSchema(p, a) ==
  LET s == McpSlot(a, Request) IN
  Handle(p, "mcp", TRUE, "error", s \in PairSlots /\ DeleteStart(p, s))

\* No version asked for, or version 0, is the latest.
GetSchema(p, a, v) ==
  LET s == McpSlot(a, a.type) IN
  Handle(p, "mcp", TRUE, "error",
         s \in Slots /\ (IF v = 0 THEN GetStart(p, s) ELSE GetVersionStart(p, s, v)))

SchemaValidation(p, a) ==
  LET s == McpSlot(a, a.type) IN
  Handle(p, "mcp_validation", a.doc \notin Malformed /\ s.msgType \in {Request, Response},
         IF a.doc \in Malformed THEN "ok" ELSE "error",
         s \in Slots /\ GetStart(p, s))

ListSchemaVersionsTool(p, a) ==
  LET s == McpSlot(a, a.type) IN
  Handle(p, "changelog", TRUE, "error", s \in Slots /\ GetStart(p, s))

\* A URI needs its three parts.
IsSchemaURI(a) == NoName \notin {a.version, a.action, a.type}

ReadSchema(p, a) ==
  LET s == ResourceSlot(a) IN
  Handle(p, "mcp", IsSchemaURI(a), "error",
         s \in Slots /\ GetStart(p, s))

-----------------------------------------------------------------------------
(* Replies. *)

\* Of Upsert's errors each is Internal, and AddPair's "already exists" is one the
\* repository never reports.
Failure(door, op, outcome) ==
  CASE door \in McpDoors -> "error"
    [] door \in GrpcDoors /\ outcome = "not_found" /\ op \in {"Delete", "ChangeStatus"} -> "not_found"
    [] OTHER -> "internal"

\* To the validator every failed lookup, and every schema that does not compile, is
\* a missing schema: whether that is an invalid message or an error is its affair.
Replies(door, op, outcome) ==
  CASE door \in {"grpc_validation", "mcp_validation"} -> {"ok", Failure(door, op, "error")}
    [] outcome = "ok"                                  -> {"ok"}
    [] OTHER                                           -> {Failure(door, op, outcome)}

\* The service has returned.
Respond(p) ==
  LET f == frame[p] IN
  /\ call[p].pc = "service" /\ At(p, "idle")
  /\ IF call[p].door = "changelog" /\ f.reply = "ok"
       THEN call' = [call EXCEPT ![p].pc = "versions", ![p].hand = f.copy]
       ELSE \E reply \in Replies(call[p].door, f.op, f.reply) :
              call' = [call EXCEPT ![p] = [NoCall EXCEPT !.reply = reply]]
  /\ frame' = [frame EXCEPT ![p] = Blank]
  /\ UNCHANGED <<store, nextId, cache, writes>>

Min(a, b) == IF a <= b THEN a ELSE b

\* Mutants: the changelog of whatever row is at the lookup now; one without a limit.
ChangelogAtLookup(copy) ==
  LET h == IF Present(copy.slot) THEN store[copy.slot].history ELSE <<>> IN
  [i \in 1 .. Min(Len(h), MaxPageSize) |->
     [version |-> Len(h) - i + 1, doc |-> h[Len(h) - i + 1]]]

ChangelogUnlimited(copy) ==
  LET h == IF Live(copy.id) THEN RowOf(copy.id).history ELSE <<>> IN
  [i \in DOMAIN h |-> [version |-> Len(h) - i + 1, doc |-> h[Len(h) - i + 1]]]

\* ListVersions of the looked-up id: the newest first, as many as one page holds.
Changelog(copy) ==
  LET h == IF Live(copy.id) THEN RowOf(copy.id).history ELSE <<>> IN
  [i \in 1 .. Min(Len(h), MaxPageSize) |->
     [version |-> Len(h) - i + 1, doc |-> h[Len(h) - i + 1]]]

ListVersions(p) ==
  LET copy == call[p].hand IN
  /\ call[p].pc = "versions"
  /\ \/ call' = [call EXCEPT ![p] = [NoCall EXCEPT !.reply = "ok", !.hand = copy,
                                                   !.versions = Changelog(copy)]]
     \/ RepoFaults /\ call' = [call EXCEPT ![p] = [NoCall EXCEPT !.reply = "error"]]
  /\ UNCHANGED vars

\* The process dies, or its client goes away.
Lost(p) ==
  /\ Crashes /\ call[p].pc # "idle"
  /\ frame' = [frame EXCEPT ![p] = Blank]
  /\ call' = [call EXCEPT ![p] = NoCall]
  /\ UNCHANGED <<store, nextId, cache, writes>>

-----------------------------------------------------------------------------
Grpc(p) ==
  \/ \E r \in GrpcRequests :
       AddSchema(p, r) \/ UpsertSchema(p, r) \/ DeleteSchema(p, r) \/ ValidateMessage(p, r)
  \/ \E id \in 0 .. nextId, st \in SchemaStatus_name \cup {4} : AdminChangeStatus(p, id, st)

Mcp(p) ==
  \E a \in McpArguments :
    \/ RegisterSchema(p, a) \/ RemoveSchema(p, a) \/ SchemaValidation(p, a)
    \/ \E v \in 0 .. MaxVersion : GetSchema(p, a, v)
    \/ ListSchemaVersionsTool(p, a) \/ ReadSchema(p, a)

ApiNext ==
  \/ \E p \in Procs : \/ Grpc(p) \/ Mcp(p)
                      \/ Step(p) /\ UNCHANGED call
                      \/ Respond(p) \/ ListVersions(p) \/ Lost(p)
  \/ \E k \in Keys : Expire(k) /\ UNCHANGED call

ApiSpec == ApiInit /\ [][ApiNext]_apiVars

-----------------------------------------------------------------------------
(* Properties *)

\* What a gRPC handler lets through names a version, an action and a message type:
\* the checks on the wire values and the mapping of those values to names agree.
\* It names no model without a vendor, except to the validator, whose adapter takes
\* an empty vendor for none.
GrpcCallsNamed ==
  \A p \in Procs :
    (call[p].pc = "service" /\ call[p].door \in {"grpc", "grpc_validation"}) =>
      LET s == frame[p].slot IN
      /\ NoName \notin {s.version, s.action, s.msgType}
      /\ (call[p].door = "grpc" /\ s.model # Nil) => s.vendor # Nil

\* The changelog tool looks a schema up and lists its versions in two steps, the
\* first perhaps from an old copy: the list is still about that very schema, not
\* about one that was added under its key since.  It holds the version in hand,
\* with its content, unless newer ones fill the page or the row is gone.
ChangelogAboutSchema ==
  \A p \in Procs :
    LET c == call[p] IN
    (c.pc = "idle" /\ c.hand # NoEntry /\ c.versions # <<>>) =>
      /\ c.versions[1].version >= c.hand.version
      /\ \/ \E i \in DOMAIN c.versions :
              c.versions[i] = [version |-> c.hand.version, doc |-> c.hand.doc]
         \/ c.versions[Len(c.versions)].version > c.hand.version

\* What is served has been reviewed: a row comes into the world submitted, and its
\* status changes only in the step of an admin's call, for the id and to the status
\* that call named.  No upsert, deletion or rollback touches it (nor takes a
\* decision back: an upsert leaves a verified row verified).
StatusDecided ==
  [][ \A s \in Slots :
        /\ Present(s)' /\ ~(Present(s) /\ store[s].id = store'[s].id) =>
             store'[s].status = "submitted"
        /\ (Present(s) /\ Present(s)' /\ store[s].id = store'[s].id
              /\ store[s].status # store'[s].status) =>
             \E p \in Procs :
               /\ call[p].door = "admin" /\ At(p, "setstatus")
               /\ frame[p].id = store[s].id /\ frame[p].status = store'[s].status ]_apiVars
================================================================================

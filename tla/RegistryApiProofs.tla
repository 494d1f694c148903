--------------------------- MODULE RegistryApiProofs ---------------------------
(***************************************************************************)
(* Proofs about RegistryApi for every set of requests, arguments, slots    *)
(* and callers, and with any faults.  The invariant of the service carries *)
(* over, since a handler only starts calls that the service knows; ApiInv  *)
(* adds what ties a handler to its call: there is no call without a        *)
(* handler, only an admin's handler decides on a status, and the slot a    *)
(* handler asked for stays that of its call until the call returns.        *)
(* HandInv follows the schema a changelog tool has looked up until its     *)
(* versions are listed.                                                    *)
(***************************************************************************)
EXTENDS RegistryApi, SchemaServiceProofs

Named(s) == NoName \notin {s.version, s.action, s.msgType}

Doors == GrpcDoors \cup McpDoors
ReplyCodes == {"none", "ok", "invalid_argument", "not_found", "internal", "error"}

CallRecord == [pc : {"idle", "service", "versions"}, door : Doors \cup {"none"},
               reply : ReplyCodes, versions : Seq(ListedVersion), hand : Copy \cup {NoEntry}]

\* A handler and its call of the service.
CallOK(c, f) ==
  /\ c \in CallRecord /\ Len(c.versions) <= MaxPageSize
  /\ c.pc # "service" => f.pc = "idle"
  /\ f.pc = "setstatus" => c.door = "admin"
  /\ (c.pc = "service" /\ c.door \in {"grpc", "grpc_validation"}) =>
       /\ f.pc \notin {"setstatus", "reread"}
       /\ Named(f.slot)
       /\ (c.door = "grpc" /\ f.slot.model # Nil) => f.slot.vendor # Nil

ApiInv ==
  /\ IInv
  /\ call \in [Procs -> CallRecord]
  /\ \A p \in Procs : CallOK(call[p], frame[p])

LEMMA NoCallTyped == NoCall \in CallRecord /\ Len(NoCall.versions) = 0
  <1>1. <<>> \in Seq(ListedVersion) /\ Len(<<>>) = 0
    OBVIOUS
  <1> QED
    BY <1>1 DEF NoCall, CallRecord, ReplyCodes

\* One handler moves, and its call at most.
LEMMA OneCall ==
  ASSUME ApiInv, IInv', NEW p \in Procs, NEW c, NEW f, CallOK(c, f),
         call' = [call EXCEPT ![p] = c], frame' = [frame EXCEPT ![p] = f]
  PROVE  ApiInv'
  <1>1. call' \in [Procs -> CallRecord]
    BY DEF ApiInv, CallOK
  <1>2. ASSUME NEW q \in Procs PROVE CallOK(call'[q], frame'[q])
    BY FrameOf DEF ApiInv
  <1> QED
    BY <1>1, <1>2 DEF ApiInv

-----------------------------------------------------------------------------
(* Requests. *)

LEMMA Refused ==
  ASSUME ApiInv, NEW p \in Procs, NEW reply \in ReplyCodes, call[p].pc = "idle",
         UNCHANGED vars, call' = [call EXCEPT ![p] = [NoCall EXCEPT !.reply = reply]]
  PROVE  ApiInv'
  <1>1. PICK c : c = [NoCall EXCEPT !.reply = reply]
    OBVIOUS
  <1>2. c \in CallRecord /\ Len(c.versions) = 0 /\ c.pc = "idle" /\ c.door = "none"
    BY <1>1, NoCallTyped DEF NoCall, CallRecord
  <1>3. PICK f : f = frame[p]
    OBVIOUS
  <1>4. f.pc = "idle"
    BY <1>3 DEF ApiInv, CallOK
  <1>5. CallOK(c, f)
    BY <1>2, <1>4, ApiAssumption DEF CallOK
  <1>6. frame' = [frame EXCEPT ![p] = f]
    BY <1>3, FrameOf DEF vars, ApiInv
  <1>7. IInv'
    BY StutterKeeps DEF ApiInv
  <1> QED
    BY <1>1, <1>5, <1>6, <1>7, OneCall

\* Calls of the service about a slot.
SlotStart(p, s) ==
  \/ GetStart(p, s)
  \/ \E v \in 1 .. MaxVersion : GetVersionStart(p, s, v)
  \/ \E d \in Docs : UpsertStart(p, s, d)
  \/ s \in PairSlots /\ \E d, e \in Docs : AddPairStart(p, s, d, e)
  \/ s \in PairSlots /\ DeleteStart(p, s)

LEMMA SlotStarts ==
  ASSUME IInv, NEW p \in Procs, NEW s \in Slots, SlotStart(p, s)
  PROVE  \E f \in Frame : /\ f.slot = s /\ f.pc \in {"cacheget", "upsert", "addreq", "delreq"}
                          /\ frame' = [frame EXCEPT ![p] = f]
  <1>1. PICK op \in Reads \cup Writes, f \in Frame :
          /\ f.slot = s /\ f.pc \in {"cacheget", "upsert", "addreq", "delreq"}
          /\ Start(p, op, f)
    <2>1. CASE GetStart(p, s)
      BY <2>1, BlankTyped DEF GetStart, Frame, Blank, Pcs, Reads
    <2>2. CASE \E v \in 1 .. MaxVersion : GetVersionStart(p, s, v)
      <3>1. PICK v \in Nat : GetVersionStart(p, s, v)
        BY <2>2, ServiceAssumption
      <3>2. PICK f : f = [Blank EXCEPT !.pc = "cacheget", !.slot = s, !.ver = v]
        OBVIOUS
      <3>3. f \in Frame /\ f.pc = "cacheget" /\ f.slot = s
        BY <3>2, BlankTyped DEF Frame, Blank, Pcs
      <3> QED
        BY <3>1, <3>2, <3>3 DEF GetVersionStart, Reads
    <2>3. CASE \E d \in Docs : UpsertStart(p, s, d)
      BY <2>3, BlankTyped DEF UpsertStart, Frame, Blank, Pcs, Writes
    <2>4. CASE \E d, e \in Docs : AddPairStart(p, s, d, e)
      BY <2>4, BlankTyped DEF AddPairStart, Frame, Blank, Pcs, Writes
    <2>5. CASE DeleteStart(p, s)
      BY <2>5, BlankTyped DEF DeleteStart, Frame, Blank, Pcs, Writes
    <2> QED
      BY <2>1, <2>2, <2>3, <2>4, <2>5 DEF SlotStart
  <1>2. PICK u : u = [f EXCEPT !.op = op]
    OBVIOUS
  <1>3. u \in Frame /\ u.slot = s /\ u.pc = f.pc
    BY <1>1, <1>2 DEF Frame
  <1> QED
    BY <1>1, <1>2, <1>3 DEF Start

LEMMA SlotStartBegins ==
  ASSUME IInv, NEW p \in Procs, NEW s \in Slots, SlotStart(p, s)
  PROVE  IInv'
  <1>1. Begin(p)
    BY DEF SlotStart, Begin
  <1> QED
    BY <1>1, BeginKeeps

\* A handler that calls the service about a slot.
LEMMA SlotCalled ==
  ASSUME ApiInv, NEW p \in Procs, NEW s \in Slots, SlotStart(p, s), NEW door \in Doors,
         call' = [call EXCEPT ![p] = [NoCall EXCEPT !.pc = "service", !.door = door]],
         door \in {"grpc", "grpc_validation"} => Named(s),
         (door = "grpc" /\ s.model # Nil) => s.vendor # Nil
  PROVE  ApiInv'
  <1>1. PICK f \in Frame : /\ f.slot = s /\ f.pc \in {"cacheget", "upsert", "addreq", "delreq"}
                           /\ frame' = [frame EXCEPT ![p] = f]
    BY SlotStarts DEF ApiInv
  <1>2. PICK c : c = [NoCall EXCEPT !.pc = "service", !.door = door]
    OBVIOUS
  <1>3. c \in CallRecord /\ Len(c.versions) = 0 /\ c.pc = "service" /\ c.door = door
    BY <1>2, NoCallTyped DEF NoCall, CallRecord
  <1>4. CallOK(c, f)
    BY <1>1, <1>3, ApiAssumption DEF CallOK
  <1>5. IInv'
    BY SlotStartBegins DEF ApiInv
  <1> QED
    BY <1>1, <1>2, <1>4, <1>5, OneCall

LEMMA VersionNamed ==
  ASSUME NEW r, ValidOcppVersion(r) PROVE ocppVersionToDomain(r.version) # NoName
  <1>1. r.version \in {1, 2, 3}
    BY DEF ValidOcppVersion, OcppVersion_name
  <1>2. <<"1.6">> # <<>> /\ <<"2.0.1">> # <<>> /\ <<"2.1">> # <<>>
    OBVIOUS
  <1> QED
    BY <1>1, <1>2 DEF ocppVersionToDomain, NoName

LEMMA TypeNamed ==
  ASSUME NEW r, ValidSchemaKey(r)
  PROVE  messageTypeToDomain(r.type) \in {Request, Response}
  <1>1. r.type \in {1, 2}
    BY DEF ValidSchemaKey, MessageType_name
  <1> QED
    BY <1>1 DEF messageTypeToDomain

LEMMA TypesAreNames == NoName \notin {Request, Response}
  <1>1. <<"request">> # <<>> /\ <<"response">> # <<>>
    OBVIOUS
  <1> QED
    BY <1>1 DEF NoName, Request, Response

\* What the gRPC handlers of schemas let through.
LEMMA AddSchemaKeeps ==
  ASSUME ApiInv, NEW p \in Procs, NEW r \in GrpcRequests, AddSchema(p, r) PROVE ApiInv'
  <1>1. PICK s : s = GrpcSlot(r, Request)
    OBVIOUS
  <1>2. s.version = ocppVersionToDomain(r.version) /\ s.action = r.action /\ s.msgType = Request
        /\ s.vendor = r.vendor /\ s.model = r.model
    BY <1>1 DEF GrpcSlot
  <1>3. CASE /\ ValidActionKey(r) /\ ValidVendorModel(r)
             /\ s \in PairSlots /\ AddPairStart(p, s, r.doc, r.doc2)
             /\ call' = [call EXCEPT ![p] = [NoCall EXCEPT !.pc = "service", !.door = "grpc"]]
    <2>1. s \in Slots /\ SlotStart(p, s)
      BY <1>3, PairHalves, ApiAssumption DEF SlotStart
    <2>2. Named(s)
      BY <1>2, <1>3, VersionNamed, TypesAreNames DEF ValidActionKey, Named
    <2>3. s.model # Nil => s.vendor # Nil
      BY <1>2, <1>3 DEF ValidVendorModel
    <2> QED
      BY <1>3, <2>1, <2>2, <2>3, SlotCalled DEF Doors, GrpcDoors
  <1>4. CASE /\ call[p].pc = "idle" /\ UNCHANGED vars
             /\ call' = [call EXCEPT ![p] = [NoCall EXCEPT !.reply = "invalid_argument"]]
    BY <1>4, Refused DEF ReplyCodes
  <1> QED
    BY <1>1, <1>3, <1>4 DEF AddSchema, Handle

LEMMA UpsertSchemaKeeps ==
  ASSUME ApiInv, NEW p \in Procs, NEW r \in GrpcRequests, UpsertSchema(p, r) PROVE ApiInv'
  <1>1. PICK s : s = GrpcSlot(r, messageTypeToDomain(r.type))
    OBVIOUS
  <1>2. s.version = ocppVersionToDomain(r.version) /\ s.action = r.action
        /\ s.msgType = messageTypeToDomain(r.type) /\ s.vendor = r.vendor /\ s.model = r.model
    BY <1>1 DEF GrpcSlot
  <1>3. CASE /\ ValidSchemaKey(r) /\ ValidVendorModel(r)
             /\ s \in Slots /\ UpsertStart(p, s, r.doc)
             /\ call' = [call EXCEPT ![p] = [NoCall EXCEPT !.pc = "service", !.door = "grpc"]]
    <2>1. SlotStart(p, s)
      BY <1>3, ApiAssumption DEF SlotStart
    <2>2. Named(s)
      BY <1>2, <1>3, VersionNamed, TypeNamed, TypesAreNames DEF ValidSchemaKey, ValidActionKey, Named
    <2>3. s.model # Nil => s.vendor # Nil
      BY <1>2, <1>3 DEF ValidVendorModel
    <2> QED
      BY <1>3, <2>1, <2>2, <2>3, SlotCalled DEF Doors, GrpcDoors
  <1>4. CASE /\ call[p].pc = "idle" /\ UNCHANGED vars
             /\ call' = [call EXCEPT ![p] = [NoCall EXCEPT !.reply = "invalid_argument"]]
    BY <1>4, Refused DEF ReplyCodes
  <1> QED
    BY <1>1, <1>3, <1>4 DEF UpsertSchema, Handle

LEMMA DeleteSchemaKeeps ==
  ASSUME ApiInv, NEW p \in Procs, NEW r \in GrpcRequests, DeleteSchema(p, r) PROVE ApiInv'
  <1>1. PICK s : s = GrpcSlot(r, Request)
    OBVIOUS
  <1>2. s.version = ocppVersionToDomain(r.version) /\ s.action = r.action /\ s.msgType = Request
        /\ s.vendor = r.vendor /\ s.model = r.model
    BY <1>1 DEF GrpcSlot
  <1>3. CASE /\ ValidActionKey(r) /\ ValidVendorModel(r)
             /\ s \in PairSlots /\ DeleteStart(p, s)
             /\ call' = [call EXCEPT ![p] = [NoCall EXCEPT !.pc = "service", !.door = "grpc"]]
    <2>1. s \in Slots /\ SlotStart(p, s)
      BY <1>3, PairHalves DEF SlotStart
    <2>2. Named(s)
      BY <1>2, <1>3, VersionNamed, TypesAreNames DEF ValidActionKey, Named
    <2>3. s.model # Nil => s.vendor # Nil
      BY <1>2, <1>3 DEF ValidVendorModel
    <2> QED
      BY <1>3, <2>1, <2>2, <2>3, SlotCalled DEF Doors, GrpcDoors
  <1>4. CASE /\ call[p].pc = "idle" /\ UNCHANGED vars
             /\ call' = [call EXCEPT ![p] = [NoCall EXCEPT !.reply = "invalid_argument"]]
    BY <1>4, Refused DEF ReplyCodes
  <1> QED
    BY <1>1, <1>3, <1>4 DEF DeleteSchema, Handle

LEMMA ValidateMessageKeeps ==
  ASSUME ApiInv, NEW p \in Procs, NEW r \in GrpcRequests, ValidateMessage(p, r) PROVE ApiInv'
  <1>1. PICK g : g = GrpcSlot(r, messageTypeToDomain(r.type))
    OBVIOUS
  <1>2. PICK s : s = ValidatorSlot(g)
    OBVIOUS
  <1>3. s.version = ocppVersionToDomain(r.version) /\ s.action = r.action
        /\ s.msgType = messageTypeToDomain(r.type)
    BY <1>1, <1>2 DEF GrpcSlot, ValidatorSlot
  <1>4. CASE /\ ValidSchemaKey(r) /\ s \in Slots /\ GetStart(p, s)
             /\ call' = [call EXCEPT ![p] =
                           [NoCall EXCEPT !.pc = "service", !.door = "grpc_validation"]]
    <2>1. SlotStart(p, s)
      BY <1>4 DEF SlotStart
    <2>2. Named(s)
      BY <1>3, <1>4, VersionNamed, TypeNamed, TypesAreNames DEF ValidSchemaKey, ValidActionKey, Named
    <2> QED
      BY <1>4, <2>1, <2>2, SlotCalled DEF Doors, GrpcDoors
  <1>5. CASE /\ call[p].pc = "idle" /\ UNCHANGED vars
             /\ \E reply \in {"ok", "invalid_argument"} :
                  call' = [call EXCEPT ![p] = [NoCall EXCEPT !.reply = reply]]
    BY <1>5, Refused DEF ReplyCodes
  <1> QED
    BY <1>1, <1>2, <1>4, <1>5 DEF ValidateMessage, Handle

LEMMA AdminKeeps ==
  ASSUME ApiInv, NEW p \in Procs, NEW i \in 0 .. nextId, NEW st, AdminChangeStatus(p, i, st)
  PROVE  ApiInv'
  <1>1. PICK d : d = schemaStatusToDomain(st)
    OBVIOUS
  <1>2. CASE /\ i # 0 /\ ValidStatus(st) /\ ChangeStatusStart(p, i, d)
             /\ call' = [call EXCEPT ![p] = [NoCall EXCEPT !.pc = "service", !.door = "admin"]]
    <2>1. d \in Decisions /\ i \in 1 .. nextId /\ i \in Nat
      BY <1>1, <1>2 DEF ValidStatus, ApiInv, IInv, StoreInv
    <2>2. IInv'
      BY <1>2, <2>1, BeginKeeps DEF Begin, ApiInv
    <2>3. PICK f : f = [[Blank EXCEPT !.pc = "setstatus", !.id = i, !.status = d]
                          EXCEPT !.op = "ChangeStatus"]
      OBVIOUS
    <2>4. f.pc = "setstatus"
      BY <2>3, BlankTyped DEF Frame, Blank
    <2>5. frame' = [frame EXCEPT ![p] = f]
      BY <1>2, <2>3 DEF ChangeStatusStart, Start
    <2>6. PICK c : c = [NoCall EXCEPT !.pc = "service", !.door = "admin"]
      OBVIOUS
    <2>7. c \in CallRecord /\ Len(c.versions) = 0 /\ c.pc = "service" /\ c.door = "admin"
      BY <2>6, NoCallTyped DEF NoCall, CallRecord, Doors, GrpcDoors
    <2>8. CallOK(c, f)
      BY <2>4, <2>7, ApiAssumption DEF CallOK
    <2> QED
      BY <1>2, <2>2, <2>5, <2>6, <2>8, OneCall
  <1>3. CASE /\ call[p].pc = "idle" /\ UNCHANGED vars
             /\ call' = [call EXCEPT ![p] = [NoCall EXCEPT !.reply = "invalid_argument"]]
    BY <1>3, Refused DEF ReplyCodes
  <1> QED
    BY <1>1, <1>2, <1>3 DEF AdminChangeStatus, Handle

\* The tools and the resource pass on whatever names they are given.
LEMMA McpKeeps == ASSUME ApiInv, NEW p \in Procs, Mcp(p) PROVE ApiInv'
  <1>1. PICK a \in McpArguments :
          \/ RegisterSchema(p, a) \/ RemoveSchema(p, a) \/ SchemaValidation(p, a)
          \/ \E v \in 0 .. MaxVersion : GetSchema(p, a, v)
          \/ ListSchemaVersionsTool(p, a) \/ ReadSchema(p, a)
    BY DEF Mcp
  <1>2. {a.doc, a.doc2} \subseteq Docs
    BY ApiAssumption
  <1>3. CASE \E s \in Slots, door \in McpDoors :
               /\ SlotStart(p, s)
               /\ call' = [call EXCEPT ![p] = [NoCall EXCEPT !.pc = "service", !.door = door]]
    BY <1>3, SlotCalled DEF Doors, McpDoors
  <1>4. CASE /\ call[p].pc = "idle" /\ UNCHANGED vars
             /\ \E reply \in {"ok", "error"} :
                  call' = [call EXCEPT ![p] = [NoCall EXCEPT !.reply = reply]]
    BY <1>4, Refused DEF ReplyCodes
  <1>5. RegisterSchema(p, a) => <1>3!1
    BY <1>2, PairHalves DEF RegisterSchema, Handle, SlotStart, McpDoors
  <1>6. RemoveSchema(p, a) => <1>3!1
    BY PairHalves DEF RemoveSchema, Handle, SlotStart, McpDoors
  <1>7. SchemaValidation(p, a) => <1>3!1 \/ <1>4!1
    BY DEF SchemaValidation, Handle, SlotStart, McpDoors
  <1>8. ASSUME NEW v \in 0 .. MaxVersion, GetSchema(p, a, v) PROVE <1>3!1
    <2>1. v = 0 \/ v \in 1 .. MaxVersion
      BY ServiceAssumption
    <2> QED
      BY <1>8, <2>1 DEF GetSchema, Handle, SlotStart, McpDoors
  <1>9. ListSchemaVersionsTool(p, a) => <1>3!1
    BY DEF ListSchemaVersionsTool, Handle, SlotStart, McpDoors
  <1>10. ReadSchema(p, a) => <1>3!1 \/ <1>4!1
    BY DEF ReadSchema, Handle, SlotStart, McpDoors
  <1> QED
    BY <1>1, <1>3, <1>4, <1>5, <1>6, <1>7, <1>8, <1>9, <1>10

-----------------------------------------------------------------------------
(* The service goes on, and replies. *)

LEMMA StepApi == ASSUME ApiInv, NEW p \in Procs, Step(p), UNCHANGED call PROVE ApiInv'
  <1>1. IInv'
    BY StepKeeps DEF ApiInv
  <1>2. PICK c, f : c = call[p] /\ f = frame[p] /\ CallOK(c, f) /\ call' = [call EXCEPT ![p] = c]
    BY DEF ApiInv
  <1>3. c.pc = "service"
    BY <1>2 DEF CallOK, Step, At
  <1>4. CASE \E u : Onward(p, u)
    <2>1. PICK u : Onward(p, u)
      BY <1>4
    <2>2. CallOK(c, u)
      BY <1>2, <1>3, <2>1 DEF CallOK, Onward
    <2> QED
      BY <1>1, <1>2, <2>1, <2>2, OneCall DEF Onward
  <1>5. CASE ChangeStatus(p) \/ Reread(p)
    <2>1. PICK u : frame' = [frame EXCEPT ![p] = u] /\ u.pc # "setstatus"
      BY <1>5, DecisionMoves DEF ApiInv
    <2>2. f.pc \in {"setstatus", "reread"}
      BY <1>2, <1>5, DecisionMoves DEF ApiInv
    <2>3. CallOK(c, u)
      BY <1>2, <1>3, <2>1, <2>2 DEF CallOK
    <2> QED
      BY <1>1, <1>2, <2>1, <2>3, OneCall
  <1> QED
    BY <1>4, <1>5, ReadOnward, AddOnward, DeleteOnward, UpsertOnward DEF Step, ApiInv

LEMMA BlankedKeeps ==
  ASSUME IInv, NEW p \in Procs, frame' = [frame EXCEPT ![p] = Blank],
         UNCHANGED <<store, nextId, cache, writes>>
  PROVE  IInv'
  <1>1. StoreStep /\ CacheOK' /\ UNCHANGED writes
    BY CacheKept DEF StoreStep, NoWrite
  <1>2. PICK u : u = Blank
    OBVIOUS
  <1>3. FrameOK(u)'
    BY <1>2, BlankOK DEF Blank
  <1> QED
    BY <1>1, <1>2, <1>3, FrameStep DEF IInv

\* A handler is through with its call of the service.
LEMMA Answered ==
  ASSUME ApiInv, NEW p \in Procs, NEW c \in CallRecord, c.pc # "service",
         Len(c.versions) <= MaxPageSize, call' = [call EXCEPT ![p] = c],
         frame' = [frame EXCEPT ![p] = Blank], UNCHANGED <<store, nextId, cache, writes>>
  PROVE  ApiInv'
  <1>1. CallOK(c, Blank)
    BY DEF CallOK, Blank
  <1> QED
    BY <1>1, BlankedKeeps, OneCall DEF ApiInv

LEMMA RespondKeeps == ASSUME ApiInv, NEW p \in Procs, Respond(p) PROVE ApiInv'
  <1>1. PICK c, f : c = call[p] /\ f = frame[p] /\ CallOK(c, f) /\ f.copy \in Copy \cup {NoEntry}
    BY FrameOf DEF ApiInv
  <1>2. CASE call' = [call EXCEPT ![p].pc = "versions", ![p].hand = f.copy]
    <2>1. PICK d : d = [c EXCEPT !.pc = "versions", !.hand = f.copy]
      OBVIOUS
    <2>2. d \in CallRecord /\ d.pc = "versions" /\ d.versions = c.versions
      BY <1>1, <2>1 DEF CallOK, CallRecord
    <2>3. call' = [call EXCEPT ![p] = d]
      BY <1>1, <1>2, <2>1 DEF ApiInv
    <2>4. Len(d.versions) <= MaxPageSize
      BY <1>1, <2>2 DEF CallOK
    <2> QED
      BY <2>2, <2>3, <2>4, Answered DEF Respond
  <1>3. CASE \E reply \in ReplyCodes : call' = [call EXCEPT ![p] = [NoCall EXCEPT !.reply = reply]]
    <2>1. PICK reply \in ReplyCodes : call' = [call EXCEPT ![p] = [NoCall EXCEPT !.reply = reply]]
      BY <1>3
    <2>2. PICK d : d = [NoCall EXCEPT !.reply = reply]
      OBVIOUS
    <2>3. d \in CallRecord /\ d.pc = "idle" /\ Len(d.versions) = 0
      BY <2>2, NoCallTyped DEF NoCall, CallRecord
    <2>4. Len(d.versions) <= MaxPageSize /\ d.pc # "service"
      BY <2>3, ApiAssumption
    <2> QED
      BY <2>1, <2>2, <2>3, <2>4, Answered DEF Respond
  <1>4. \A door, op, outcome : Replies(door, op, outcome) \subseteq ReplyCodes
    <2>1. \A door, op, outcome : Failure(door, op, outcome) \in {"error", "not_found", "internal"}
      BY SMT DEF Failure
    <2> QED
      BY <2>1, SMT DEF Replies, ReplyCodes
  <1>5. \/ call' = [call EXCEPT ![p].pc = "versions", ![p].hand = f.copy]
        \/ \E reply \in Replies(c.door, f.op, f.reply) :
             call' = [call EXCEPT ![p] = [NoCall EXCEPT !.reply = reply]]
    BY <1>1 DEF Respond
  <1> QED
    BY <1>2, <1>3, <1>4, <1>5

LEMMA LostKeeps == ASSUME ApiInv, NEW p \in Procs, Lost(p) PROVE ApiInv'
  <1>1. PICK d : d = NoCall
    OBVIOUS
  <1>2. d \in CallRecord /\ d.pc # "service" /\ Len(d.versions) = 0
    BY <1>1, NoCallTyped DEF NoCall
  <1>3. Len(d.versions) <= MaxPageSize
    BY <1>2, ApiAssumption
  <1> QED
    BY <1>1, <1>2, <1>3, Answered DEF Lost

\* A page of the changelog, or less.
LEMMA ChangelogTyped ==
  ASSUME StoreInv, NEW copy \in Copy \cup {NoEntry}
  PROVE  Changelog(copy) \in Seq(ListedVersion) /\ Len(Changelog(copy)) <= MaxPageSize
  <1> DEFINE h == IF Live(copy.id) THEN RowOf(copy.id).history ELSE <<>>
             n == Min(Len(h), MaxPageSize)
  <1>1. h \in Seq(Docs)
    <2>1. CASE Live(copy.id)
      <3>1. PICK s : s = CHOOSE x \in SlotsOf(copy.id) : TRUE
        OBVIOUS
      <3>2. s \in SlotsOf(copy.id)
        BY <2>1, <3>1 DEF Live
      <3>3. store[s] \in Row
        BY <3>2 DEF SlotsOf, Present, StoreInv, StoreTypeOK
      <3> QED
        BY <2>1, <3>1, <3>3 DEF RowOf, Row
    <2>2. CASE ~Live(copy.id)
      BY <2>2
    <2> QED
      BY <2>1, <2>2
  <1> HIDE DEF h
  <1>2. n \in Nat /\ n <= Len(h) /\ n <= MaxPageSize
    BY <1>1, ApiAssumption DEF Min
  <1> HIDE DEF n
  <1>3. Changelog(copy) = [i \in 1 .. n |-> [version |-> Len(h) - i + 1, doc |-> h[Len(h) - i + 1]]]
    BY DEF Changelog, h, n
  <1>4. \A i \in 1 .. n : Len(h) - i + 1 \in Nat /\ Len(h) - i + 1 \in 1 .. Len(h)
    BY <1>1, <1>2
  <1>5. \A i \in 1 .. n : [version |-> Len(h) - i + 1, doc |-> h[Len(h) - i + 1]] \in ListedVersion
    BY <1>1, <1>4 DEF ListedVersion
  <1>6. Changelog(copy) \in [1 .. n -> ListedVersion]
    BY <1>3, <1>5
  <1>7. Changelog(copy) \in Seq(ListedVersion) /\ Len(Changelog(copy)) = n
    BY <1>2, <1>6
  <1> QED
    BY <1>2, <1>7

LEMMA ListVersionsKeeps == ASSUME ApiInv, NEW p \in Procs, ListVersions(p) PROVE ApiInv'
  <1>1. PICK c, f : c = call[p] /\ f = frame[p] /\ CallOK(c, f) /\ f.pc = "idle"
                    /\ frame' = [frame EXCEPT ![p] = f]
    BY FrameOf DEF ApiInv, CallOK, ListVersions, vars
  <1>2. PICK l : l = Changelog(c.hand)
    OBVIOUS
  <1>3. l \in Seq(ListedVersion) /\ Len(l) <= MaxPageSize /\ c.hand \in Copy \cup {NoEntry}
    BY <1>1, <1>2, ChangelogTyped DEF ApiInv, IInv, CallOK, CallRecord
  <1>4. PICK d : /\ call' = [call EXCEPT ![p] = d]
                 /\ \/ d = [NoCall EXCEPT !.reply = "ok", !.hand = c.hand, !.versions = l]
                    \/ d = [NoCall EXCEPT !.reply = "error"]
    BY <1>1, <1>2 DEF ListVersions
  <1>5. d \in CallRecord /\ d.pc = "idle" /\ Len(d.versions) <= MaxPageSize
    <2>1. CASE d = [NoCall EXCEPT !.reply = "ok", !.hand = c.hand, !.versions = l]
      <3>1. d \in CallRecord /\ d.pc = "idle" /\ d.versions = l
        BY <1>3, <2>1, NoCallTyped DEF NoCall, CallRecord, ReplyCodes
      <3> QED
        BY <1>3, <3>1
    <2>2. CASE d = [NoCall EXCEPT !.reply = "error"]
      <3>1. d \in CallRecord /\ d.pc = "idle" /\ Len(d.versions) = 0
        BY <2>2, NoCallTyped DEF NoCall, CallRecord, ReplyCodes
      <3> QED
        BY <3>1, ApiAssumption
    <2> QED
      BY <1>4, <2>1, <2>2
  <1>6. CallOK(d, f)
    BY <1>1, <1>5 DEF CallOK
  <1>7. IInv'
    BY StutterKeeps DEF ApiInv, ListVersions
  <1> QED
    BY <1>1, <1>4, <1>6, <1>7, OneCall

-----------------------------------------------------------------------------
(* The invariant. *)

LEMMA ApiInitInv == ApiInit => ApiInv
  <1> SUFFICES ASSUME ApiInit PROVE ApiInv
    OBVIOUS
  <1>1. NoCall \in CallRecord /\ Len(NoCall.versions) <= MaxPageSize
    BY NoCallTyped, ApiAssumption
  <1>2. CallOK(NoCall, Blank)
    BY <1>1 DEF CallOK, NoCall, Blank
  <1>3. call = [p \in Procs |-> NoCall] /\ frame = [p \in Procs |-> Blank]
    BY DEF ApiInit, Init
  <1> QED
    BY <1>1, <1>2, <1>3, InitInv DEF ApiInit, ApiInv

LEMMA GrpcKeeps == ASSUME ApiInv, NEW p \in Procs, Grpc(p) PROVE ApiInv'
  BY AddSchemaKeeps, UpsertSchemaKeeps, DeleteSchemaKeeps, ValidateMessageKeeps, AdminKeeps DEF Grpc

LEMMA ApiExpireKeeps ==
  ASSUME ApiInv, NEW k \in Keys, Expire(k), UNCHANGED call PROVE ApiInv'
  <1>1. IInv'
    BY ExpireKeeps DEF ApiInv
  <1> QED
    BY <1>1 DEF ApiInv, Expire

LEMMA ApiNextInv == ApiInv /\ [ApiNext]_apiVars => ApiInv'
  <1> SUFFICES ASSUME ApiInv, [ApiNext]_apiVars PROVE ApiInv'
    OBVIOUS
  <1>1. CASE UNCHANGED apiVars
    <2>1. IInv'
      BY <1>1, StutterKeeps DEF ApiInv, apiVars, vars
    <2> QED
      BY <1>1, <2>1 DEF ApiInv, apiVars
  <1> QED
    BY <1>1, GrpcKeeps, McpKeeps, StepApi, RespondKeeps, ListVersionsKeeps, LostKeeps,
       ApiExpireKeeps DEF ApiNext

LEMMA ApiAlwaysInv == ApiSpec => []ApiInv
  BY ApiInitInv, ApiNextInv, PTL DEF ApiSpec

-----------------------------------------------------------------------------
(* Who decides on a status. *)

\* New rows wait for review, the others keep their status.
StatusesKept ==
  \A s \in Slots :
    /\ Present(s)' /\ ~(Present(s) /\ store[s].id = store'[s].id) =>
         store'[s].status = "submitted"
    /\ (Present(s) /\ Present(s)' /\ store[s].id = store'[s].id) =>
         store[s].status = store'[s].status

LEMMA WritesKeepStatuses ==
  ASSUME StoreInv,
         \/ \E s \in Slots, d \in Docs : Insert(s, d) \/ Revise(s, d)
         \/ \E s \in Slots : Remove(s)
         \/ NoWrite
  PROVE  StatusesKept
  <1>1. CASE \E s \in Slots, d \in Docs : Insert(s, d)
    BY <1>1 DEF Insert, NewRow, StatusesKept, StoreInv, StoreTypeOK, Present
  <1>2. CASE \E s \in Slots, d \in Docs : Revise(s, d)
    <2>1. PICK s \in Slots, d \in Docs : Revise(s, d)
      BY <1>2
    <2>2. PICK r : r = Revised(store[s], d)
      OBVIOUS
    <2>3. store[s] \in Row
      BY <2>1 DEF Revise, Present, StoreInv, StoreTypeOK
    <2>4. r.id = store[s].id /\ r.status = store[s].status
      BY <2>2, <2>3 DEF Revised, Row
    <2>5. store' = [store EXCEPT ![s] = r] /\ Present(s)
      BY <2>1, <2>2 DEF Revise
    <2> QED
      BY <2>4, <2>5 DEF StatusesKept, StoreInv, StoreTypeOK, Present
  <1>3. CASE \E s \in Slots : Remove(s)
    BY <1>3 DEF Remove, StatusesKept, StoreInv, StoreTypeOK, Present
  <1>4. CASE NoWrite
    BY <1>4 DEF NoWrite, StatusesKept, Present
  <1> QED
    BY <1>1, <1>2, <1>3, <1>4

\* The decision of one call.
Decided(p) ==
  \A s \in Slots :
    /\ Present(s)' => Present(s) /\ store[s].id = store'[s].id
    /\ Present(s)' /\ store[s].status # store'[s].status =>
         frame[p].id = store[s].id /\ frame[p].status = store'[s].status

LEMMA DecisionKeeps ==
  ASSUME StoreInv, NEW p, SetStatus(frame[p].id, frame[p].status)
  PROVE  Decided(p)
  <1>1. PICK i, st : i = frame[p].id /\ st = frame[p].status
    OBVIOUS
  <1>2. \A s \in Slots :
          store'[s] = IF s \in SlotsOf(i) THEN [store[s] EXCEPT !.status = st] ELSE store[s]
    BY <1>1 DEF SetStatus
  <1>3. ASSUME NEW s \in Slots, s \in SlotsOf(i)
        PROVE  /\ Present(s) /\ store[s].id = i
               /\ store'[s].id = store[s].id /\ store'[s].status = st
    <2>1. store[s] \in Row /\ Present(s) /\ store[s].id = i
      BY <1>3 DEF SlotsOf, Present, StoreInv, StoreTypeOK
    <2> QED
      BY <1>2, <1>3, <2>1 DEF Row
  <1>4. \A s \in Slots : s \notin SlotsOf(i) => store'[s] = store[s]
    BY <1>2
  <1> QED
    BY <1>1, <1>3, <1>4 DEF Decided, Present

LEMMA StepDecides ==
  ASSUME IInv, NEW p \in Procs, Step(p)
  PROVE  StatusesKept \/ (At(p, "setstatus") /\ Decided(p))
  <1>1. frame[p] \in Frame /\ frame[p].slot \in Slots
    BY FrameOf
  <1>2. frame[p].pc \in PairPcs =>
          ReqSlot(frame[p].slot) \in Slots /\ RespSlot(frame[p].slot) \in Slots
    BY FrameOf, PairHalves DEF FrameOK
  <1>3. StoreInv
    BY DEF IInv
  <1>4. CASE NoWrite
    BY <1>3, <1>4, WritesKeepStatuses
  <1>5. CASE Add(p) \/ AddRequest(p) \/ AddResponse(p)
    BY <1>1, <1>2, <1>3, <1>5, WritesKeepStatuses
    DEF Add, AddRequest, AddResponse, AddOne, Frame, At, PairPcs
  <1>6. CASE Undo(p) \/ DeleteRequest(p) \/ DeleteResponse(p)
    BY <1>2, <1>3, <1>6, WritesKeepStatuses
    DEF Undo, DeleteRequest, DeleteResponse, DeleteRow, At, PairPcs
  <1>7. CASE Upsert(p)
    BY <1>1, <1>3, <1>7, WritesKeepStatuses DEF Upsert, UpsertRow, Frame
  <1>8. CASE ChangeStatus(p)
    BY <1>3, <1>4, <1>8, DecisionKeeps DEF ChangeStatus
  <1>9. CASE \/ CacheGet(p) \/ QuerySpecific(p) \/ QueryGeneric(p) \/ Fill(p) \/ QueryVersion(p)
             \/ UndoEvict(p) \/ Evict(p) \/ DeleteRequestEvict(p) \/ DeleteResponseEvict(p)
             \/ EvictRequest(p) \/ EvictResponse(p) \/ Reread(p)
    BY <1>4, <1>9
    DEF CacheGet, QuerySpecific, QueryGeneric, QueryRow, Fill, QueryVersion, UndoEvict, Evict,
        DeleteRequestEvict, DeleteResponseEvict, EvictRequest, EvictResponse, Reread, NoWrite
  <1> QED
    BY <1>5, <1>6, <1>7, <1>8, <1>9 DEF Step

\* A request does not write yet.
LEMMA HandlersRead == ASSUME NEW p \in Procs, Mcp(p) \/ Grpc(p) PROVE NoWrite
  BY DEF Mcp, Grpc, RegisterSchema, RemoveSchema, SchemaValidation, GetSchema,
     ListSchemaVersionsTool, ReadSchema, AddSchema, UpsertSchema, DeleteSchema,
     ValidateMessage, AdminChangeStatus, Handle, GetStart, GetVersionStart, AddPairStart,
     UpsertStart, DeleteStart, ChangeStatusStart, Start, NoWrite, vars

LEMMA ApiStepDecides ==
  ASSUME ApiInv, [ApiNext]_apiVars
  PROVE  \/ StatusesKept
         \/ \E p \in Procs : call[p].door = "admin" /\ At(p, "setstatus") /\ Decided(p)
  <1>1. CASE NoWrite
    BY <1>1, WritesKeepStatuses DEF ApiInv, IInv
  <1>2. ASSUME NEW p \in Procs, Step(p)
        PROVE  StatusesKept \/ (call[p].door = "admin" /\ At(p, "setstatus") /\ Decided(p))
    BY <1>2, StepDecides DEF ApiInv, CallOK, At
  <1>3. ASSUME NEW p \in Procs, Mcp(p) \/ Grpc(p) PROVE NoWrite
    BY <1>3, HandlersRead
  <1>4. ASSUME NEW p \in Procs, Respond(p) \/ ListVersions(p) \/ Lost(p) PROVE NoWrite
    BY <1>4 DEF Respond, ListVersions, Lost, NoWrite, vars
  <1>5. ASSUME NEW k \in Keys, Expire(k) PROVE NoWrite
    BY <1>5 DEF Expire, NoWrite
  <1>6. UNCHANGED apiVars => NoWrite
    BY DEF apiVars, NoWrite
  <1> QED
    BY <1>1, <1>2, <1>3, <1>4, <1>5, <1>6 DEF ApiNext

-----------------------------------------------------------------------------
(* The changelog. *)

\* What the property says of a changelog answer.
Listed(c) ==
  (c.hand # NoEntry /\ c.versions # <<>>) =>
    /\ c.versions[1].version >= c.hand.version
    /\ \/ \E i \in DOMAIN c.versions :
            c.versions[i] = [version |-> c.hand.version, doc |-> c.hand.doc]
       \/ c.versions[Len(c.versions)].version > c.hand.version

\* The schema a handler looked up stays a genuine one until its versions are listed,
\* however many steps of others lie between.
HandInv ==
  \A p \in Procs :
    /\ call[p].pc = "versions" /\ call[p].hand # NoEntry => Good(call[p].hand)
    /\ call[p].pc = "idle" => Listed(call[p])

\* The changelog of a genuine copy has its version, unless newer ones fill the page.
LEMMA ChangelogListed ==
  ASSUME StoreInv, NEW copy \in Copy, Good(copy), NEW c, c.hand = copy,
         c.versions = Changelog(copy)
  PROVE  Listed(c)
  <1>1. CASE ~Live(copy.id)
    <2>1. Changelog(copy) = [i \in 1 .. 0 |-> [version |-> Len(<<>>) - i + 1,
                                               doc |-> <<>>[Len(<<>>) - i + 1]]]
      <3>1. Min(Len(<<>>), MaxPageSize) = 0
        BY ApiAssumption DEF Min
      <3> QED
        BY <1>1, <3>1 DEF Changelog
    <2>2. Changelog(copy) = <<>>
      BY <2>1
    <2> QED
      BY <2>2 DEF Listed
  <1>2. CASE Live(copy.id)
    <2>1. PICK h : h = RowOf(copy.id).history
      OBVIOUS
    <2>2. h \in Seq(Docs) /\ copy.version \in 1 .. Len(h) /\ copy.doc = h[copy.version]
      <3>1. PICK s : s = CHOOSE x \in SlotsOf(copy.id) : TRUE
        OBVIOUS
      <3>2. s \in SlotsOf(copy.id)
        BY <1>2, <3>1 DEF Live
      <3>3. store[s] \in Row
        BY <3>2 DEF SlotsOf, Present, StoreInv, StoreTypeOK
      <3>4. h = store[s].history
        BY <2>1, <3>1 DEF RowOf
      <3> QED
        BY <3>2, <3>3, <3>4 DEF Row, Good, Authentic, Version
    <2>3. PICK n : n = Min(Len(h), MaxPageSize)
      OBVIOUS
    <2>4. n \in Nat /\ n <= Len(h)
      BY <2>2, <2>3, ApiAssumption DEF Min
    <2>5. c.versions = [i \in 1 .. n |-> [version |-> Len(h) - i + 1, doc |-> h[Len(h) - i + 1]]]
      BY <1>2, <2>1, <2>3 DEF Changelog
    <2>6. CASE n = 0
      <3>1. c.versions = <<>>
        BY <2>5, <2>6
      <3> QED
        BY <3>1 DEF Listed
    <2>7. CASE n # 0
      <3>1. /\ DOMAIN c.versions = 1 .. n /\ 1 \in 1 .. n /\ n \in 1 .. n
            /\ \A i \in 1 .. n : /\ c.versions[i].version = Len(h) - i + 1
                                 /\ c.versions[i] = [version |-> Len(h) - i + 1,
                                                     doc |-> h[Len(h) - i + 1]]
        BY <2>4, <2>5, <2>7
      <3>2. Len(c.versions) = n
        BY <2>4, <2>5
      <3>3. c.versions[1].version >= copy.version
        BY <2>2, <3>1
      <3>4. CASE copy.version > Len(h) - n
        <4>1. PICK i \in 1 .. n : i = Len(h) - copy.version + 1
          BY <2>2, <2>4, <3>4
        <4>2. Len(h) - i + 1 = copy.version
          BY <2>2, <4>1
        <4> QED
          BY <2>2, <3>1, <3>3, <4>2 DEF Listed
      <3>5. CASE copy.version <= Len(h) - n
        <4>1. c.versions[Len(c.versions)].version > copy.version
          BY <2>2, <2>4, <3>1, <3>2, <3>5
        <4> QED
          BY <3>3, <4>1 DEF Listed
      <3> QED
        BY <2>2, <2>4, <3>4, <3>5
    <2> QED
      BY <2>6, <2>7
  <1> QED
    BY <1>1, <1>2

\* The store takes at most one step of the service's.
LEMMA ApiStoreStep == ASSUME ApiInv, [ApiNext]_apiVars PROVE StoreStep
  <1>1. NoWrite => StoreStep
    BY DEF StoreStep
  <1>2. ASSUME NEW p \in Procs, Step(p) PROVE StoreStep
    BY <1>2, StepOfStore DEF ApiInv
  <1>3. ASSUME NEW p \in Procs, Mcp(p) \/ Grpc(p) PROVE NoWrite
    BY <1>3, HandlersRead
  <1>4. ASSUME NEW p \in Procs, Respond(p) \/ ListVersions(p) \/ Lost(p) PROVE NoWrite
    BY <1>4 DEF Respond, ListVersions, Lost, NoWrite, vars
  <1>5. ASSUME NEW k \in Keys, Expire(k) PROVE NoWrite
    BY <1>5 DEF Expire, NoWrite
  <1>6. UNCHANGED apiVars => NoWrite
    BY DEF apiVars, NoWrite
  <1> QED
    BY <1>1, <1>2, <1>3, <1>4, <1>5, <1>6 DEF ApiNext

\* Where a handler can go: on, or back with no changelog, or to and from the listing.
HandlerMove(p, c) ==
  \/ c.pc \notin {"idle", "versions"}
  \/ c.pc = "idle" /\ c.hand = NoEntry
  \/ c.pc = "versions" /\ c.hand = frame[p].copy
  \/ /\ c.pc = "idle" /\ call[p].pc = "versions" /\ c.hand = call[p].hand
     /\ c.versions = Changelog(call[p].hand) /\ UNCHANGED vars

LEMMA HandlerMoves ==
  ASSUME ApiInv, [ApiNext]_apiVars
  PROVE  \/ UNCHANGED call
         \/ \E p \in Procs : \E c : call' = [call EXCEPT ![p] = c] /\ HandlerMove(p, c)
  <1> DEFINE Moves == \/ UNCHANGED call
                      \/ \E p \in Procs : \E c : call' = [call EXCEPT ![p] = c] /\ HandlerMove(p, c)
  <1>1. ASSUME NEW p \in Procs, NEW d,
               \/ call' = [call EXCEPT ![p] = [NoCall EXCEPT !.pc = "service", !.door = d]]
               \/ call' = [call EXCEPT ![p] = [NoCall EXCEPT !.reply = d]]
        PROVE  Moves
    <2>1. PICK c : /\ call' = [call EXCEPT ![p] = c]
                   /\ \/ c = [NoCall EXCEPT !.pc = "service", !.door = d]
                      \/ c = [NoCall EXCEPT !.reply = d]
      BY <1>1
    <2>2. c.pc = "service" \/ (c.pc = "idle" /\ c.hand = NoEntry)
      BY <2>1 DEF NoCall
    <2> QED
      BY <2>1, <2>2 DEF HandlerMove
  <1>2. ASSUME NEW p \in Procs, Mcp(p) \/ Grpc(p) PROVE Moves
    BY <1>1, <1>2 DEF Mcp, Grpc, RegisterSchema, RemoveSchema, SchemaValidation, GetSchema,
       ListSchemaVersionsTool, ReadSchema, AddSchema, UpsertSchema, DeleteSchema,
       ValidateMessage, AdminChangeStatus, Handle
  <1>3. ASSUME NEW p \in Procs, Respond(p) PROVE Moves
    <2>1. CASE call' = [call EXCEPT ![p].pc = "versions", ![p].hand = frame[p].copy]
      <3>1. PICK c : c = [call[p] EXCEPT !.pc = "versions", !.hand = frame[p].copy]
        OBVIOUS
      <3>2. c.pc = "versions" /\ c.hand = frame[p].copy
        BY <3>1 DEF ApiInv, CallRecord
      <3>3. call' = [call EXCEPT ![p] = c]
        BY <2>1, <3>1 DEF ApiInv
      <3> QED
        BY <3>2, <3>3 DEF HandlerMove
    <2> QED
      BY <1>1, <1>3, <2>1 DEF Respond
  <1>4. ASSUME NEW p \in Procs, ListVersions(p) PROVE Moves
    <2>1. CASE call' = [call EXCEPT ![p] = [NoCall EXCEPT !.reply = "ok", !.hand = call[p].hand,
                                                          !.versions = Changelog(call[p].hand)]]
      <3>1. PICK c : c = [NoCall EXCEPT !.reply = "ok", !.hand = call[p].hand,
                                        !.versions = Changelog(call[p].hand)]
        OBVIOUS
      <3>2. c.pc = "idle" /\ c.hand = call[p].hand /\ c.versions = Changelog(call[p].hand)
        BY <3>1 DEF NoCall
      <3>3. call' = [call EXCEPT ![p] = c]
        BY <2>1, <3>1
      <3> QED
        BY <1>4, <3>2, <3>3 DEF HandlerMove, ListVersions
    <2> QED
      BY <1>1, <1>4, <2>1 DEF ListVersions
  <1>5. ASSUME NEW p \in Procs, Lost(p) PROVE Moves
    <2>1. PICK c : c = NoCall /\ call' = [call EXCEPT ![p] = c]
      BY <1>5 DEF Lost
    <2>2. c.pc = "idle" /\ c.hand = NoEntry
      BY <2>1 DEF NoCall
    <2> QED
      BY <2>1, <2>2 DEF HandlerMove
  <1>6. UNCHANGED apiVars => Moves
    BY DEF apiVars
  <1> QED
    BY <1>2, <1>3, <1>4, <1>5, <1>6 DEF ApiNext

LEMMA HandNextInv == ApiInv /\ HandInv /\ [ApiNext]_apiVars => HandInv'
  <1> SUFFICES ASSUME ApiInv, HandInv, [ApiNext]_apiVars, NEW q \in Procs, NEW c, c = call'[q]
               PROVE  /\ c.pc = "versions" /\ c.hand # NoEntry => Good(c.hand)'
                      /\ c.pc = "idle" => Listed(c)
    BY DEF HandInv, Good, Authentic, SlotsOf, Present
  <1>1. ASSUME NEW h \in Copy, Good(h) PROVE Good(h)'
    BY <1>1, ApiStoreStep, StoreKeeps DEF ApiInv, IInv, Good
  <1>2. CASE c = call[q]
    BY <1>1, <1>2 DEF HandInv, Good
  <1>3. CASE HandlerMove(q, c)
    <2>1. CASE c.pc = "versions" /\ c.hand = frame[q].copy
      <3>1. c.hand # NoEntry => Good(c.hand)
        BY <2>1, FrameOf DEF ApiInv, Held
      <3> QED
        BY <1>1, <2>1, <3>1 DEF Good
    <2>2. CASE /\ c.pc = "idle" /\ call[q].pc = "versions" /\ c.hand = call[q].hand
               /\ c.versions = Changelog(call[q].hand)
      <3>1. CASE c.hand # NoEntry
        <4>1. PICK h \in Copy : h = c.hand /\ Good(h)
          BY <2>2, <3>1 DEF HandInv, Good
        <4>2. c.versions = Changelog(h) /\ StoreInv
          BY <2>2, <4>1 DEF ApiInv, IInv
        <4>3. Listed(c)
          BY <4>1, <4>2, ChangelogListed
        <4> QED
          BY <2>2, <4>3
      <3> QED
        BY <2>2, <3>1 DEF Listed
    <2> QED
      BY <1>3, <2>1, <2>2 DEF HandlerMove, Listed
  <1>4. c = call[q] \/ HandlerMove(q, c)
    BY HandlerMoves DEF ApiInv
  <1> QED
    BY <1>2, <1>3, <1>4

LEMMA HandInitInv == ApiInit => HandInv
  BY DEF ApiInit, HandInv, NoCall, Listed

LEMMA HandAlwaysInv == ApiSpec => []HandInv
  BY HandInitInv, HandNextInv, ApiAlwaysInv, PTL DEF ApiSpec

-----------------------------------------------------------------------------
\* Handlers keep their type, and a changelog answer never exceeds a page.
THEOREM ApiTypeCorrect == ApiSpec => []ApiTypeOK
  <1>1. ApiInv => ApiTypeOK
    BY DEF ApiInv, CallOK, CallRecord, Doors, ReplyCodes, ApiTypeOK
  <1> QED
    BY <1>1, ApiAlwaysInv, PTL

\* What the handlers of all servers make the service cache, hold or return is a
\* version of the row it names, labelled verified, and never a mixture of two.
THEOREM ApiCopiesStayAuthentic == ApiSpec => []CopiesAuthentic
  <1>1. ApiInv => CopiesAuthentic
    BY CopiesGood DEF ApiInv
  <1> QED
    BY <1>1, ApiAlwaysInv, PTL

\* The checks of the gRPC handlers let no request through to the service whose
\* version, action or message type has no name.
THEOREM GrpcCallsAreNamed == ApiSpec => []GrpcCallsNamed
  <1>1. ApiInv => GrpcCallsNamed
    BY DEF ApiInv, CallOK, GrpcCallsNamed, Named
  <1> QED
    BY <1>1, ApiAlwaysInv, PTL

\* Whatever clients of both servers do, only an admin's call changes the status of a
\* row, to what it named and for the row it named.
THEOREM StatusesAreDecided == ApiSpec => StatusDecided
  <1> DEFINE A == \A s \in Slots :
        /\ Present(s)' /\ ~(Present(s) /\ store[s].id = store'[s].id) =>
             store'[s].status = "submitted"
        /\ (Present(s) /\ Present(s)' /\ store[s].id = store'[s].id
              /\ store[s].status # store'[s].status) =>
             \E p \in Procs :
               /\ call[p].door = "admin" /\ At(p, "setstatus")
               /\ frame[p].id = store[s].id /\ frame[p].status = store'[s].status
  <1>1. ApiInv /\ [ApiNext]_apiVars => A
    BY ApiStepDecides DEF StatusesKept, Decided
  <1>2. ApiInv /\ [ApiNext]_apiVars => [A]_apiVars
    BY <1>1
  <1> QED
    BY <1>2, ApiAlwaysInv, PTL DEF ApiSpec, StatusDecided

\* The changelog tool looks a schema up and lists its versions in two steps, with any
\* deletion, insertion, crash or eviction between them: the list is about the schema it
\* looked up, and has the version in hand unless newer ones fill the page.
THEOREM ChangelogsAboutTheirSchema == ApiSpec => []ChangelogAboutSchema
  <1>1. HandInv => ChangelogAboutSchema
    BY DEF HandInv, Listed, ChangelogAboutSchema
  <1> QED
    BY <1>1, HandAlwaysInv, PTL
================================================================================

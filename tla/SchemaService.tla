----------------------------- MODULE SchemaService -----------------------------
(***************************************************************************)
(* internal/schema/service.go: the registry in front of its repository     *)
(* (SchemaStore) and its cache (internal/storage/redis/cache.go), a        *)
(* cache-aside of the repository's answers under a key made of the whole   *)
(* lookup.  A process is one call in flight, in any instance of the        *)
(* cluster: all instances share the database and the Redis server.  Every  *)
(* call the service makes to repository or cache is one action, so other   *)
(* processes act between any two of them.                                  *)
(*                                                                         *)
(* Ops, RepoFaults, CacheFaults and Crashes choose the environment: which  *)
(* operations are called, whether a repository or cache call may fail (a   *)
(* failing repository write may have been committed all the same) and      *)
(* whether a process may die between two calls.                            *)
(***************************************************************************)
EXTENDS SchemaStore

CONSTANTS
  Procs,        \* calls in flight at the same time
  Ops,          \* operations that are called
  MaxWrites,    \* bound: calls that write in a behaviour
  MaxVersion,   \* bound: versions asked for by GetVersion
  RepoFaults, CacheFaults, Crashes,
  Nil,          \* the nil vendor or model pointer
  NoEntry       \* a cache miss, or no schema in hand

VARIABLES
  cache,   \* what Redis holds under each key
  frame,   \* each process's local variables and where it stands
  writes   \* writing calls so far

vars == <<store, nextId, cache, frame, writes>>

-----------------------------------------------------------------------------
(* Lookups and their keys.  A name is the sequence of its parts between colons. *)

Request  == <<"request">>
Response == <<"response">>

Generic(s)  == [s EXCEPT !.vendor = Nil, !.model = Nil]
ReqSlot(s)  == [s EXCEPT !.msgType = Request]
RespSlot(s) == [s EXCEPT !.msgType = Response]

IsGeneric(s) == s.vendor = Nil /\ s.model = Nil

\* Pairs are added and deleted under the lookup of their request.
PairSlots == {s \in Slots : s.msgType = Request /\ RespSlot(s) \in Slots}

ASSUME LookupAssumption ==
  \A s \in Slots :
    /\ s = [version |-> s.version, action |-> s.action, msgType |-> s.msgType,
            vendor |-> s.vendor, model |-> s.model]
    /\ Generic(s) \in Slots

\* cacheKey joins its five parts with colons and writes "nil" for a nil pointer.
Part(name) == IF name = Nil THEN <<"nil">> ELSE name

\* Mutants: a key that leaves the message type out, or the vendor.
CacheKeyNoType(s) ==
  <<"schema">> \o s.version \o s.action \o Part(s.vendor) \o Part(s.model)
CacheKeyNoVendor(s) ==
  <<"schema">> \o s.version \o s.action \o s.msgType \o Part(s.model)

CacheKey(s) ==
  <<"schema">> \o s.version \o s.action \o s.msgType \o Part(s.vendor) \o Part(s.model)

Keys == {CacheKey(s) : s \in Slots}

\* What cacheKey relies on and no code sees to: no colons in a name that shift the
\* parts, no vendor and no model called "nil".
KeysDistinct == \A s, t \in Slots : CacheKey(s) = CacheKey(t) => s = t

-----------------------------------------------------------------------------
Reads  == {"Get", "GetVersion"}
Writes == {"Add", "AddPair", "Upsert", "Delete", "ChangeStatus"}

ASSUME ServiceAssumption ==
  /\ Ops \subseteq Reads \cup Writes
  /\ MaxWrites \in Nat /\ MaxVersion \in Nat \ {0}
  /\ {RepoFaults, CacheFaults, Crashes} \subseteq BOOLEAN

Pcs == {"idle", "cacheget", "specific", "generic", "fill", "archived",
        "add", "addreq", "addresp", "undo", "undoevict",
        "upsert", "evict",
        "delreq", "delreqevict", "delresp", "delrespevict", "evictreq", "evictresp",
        "setstatus", "reread"}
Outcomes == {"none", "ok", "not_found", "error"}

\* A *Schema as the service hands it on and as the cache keeps it.
Copy == [id : Nat \ {0}, slot : Slots, status : Statuses, version : Nat, doc : Docs]

ASSUME NoEntryAssumption == NoEntry \notin Copy

Frame == [pc : Pcs, op : Reads \cup Writes \cup {"none"}, slot : Slots,
          doc : Docs, doc2 : Docs,      \* content to write (of request and response)
          id : Nat,                     \* ChangeStatus's argument; AddPair's req.ID
          status : Statuses,            \* ChangeStatus's argument
          ver : Nat,                    \* GetVersion's argument
          copy : Copy \cup {NoEntry},   \* the schema in hand, then the result
          reqErr : Outcomes,            \* Delete's reqErr
          reply : Outcomes]

Blank == [pc |-> "idle", op |-> "none", slot |-> AnySlot, doc |-> AnyDoc,
          doc2 |-> AnyDoc, id |-> 0, status |-> "submitted", ver |-> 0,
          copy |-> NoEntry, reqErr |-> "none", reply |-> "none"]

TypeOK ==
  /\ StoreTypeOK
  /\ cache \in [Keys -> Copy \cup {NoEntry}]
  /\ frame \in [Procs -> Frame]
  /\ writes \in 0 .. MaxWrites

Init ==
  /\ StoreInit
  /\ cache = [k \in Keys |-> NoEntry]
  /\ frame = [p \in Procs |-> Blank]
  /\ writes = 0

\* toDomain: the row as the caller gets it.
CopyOf(s) == [id |-> store[s].id, slot |-> s, status |-> store[s].status,
              version |-> Version(store[s]), doc |-> Content(store[s])]

\* Mutant: the lookup without its status condition.
VerifiedUnchecked(s) == Present(s)

Verified(s) == Present(s) /\ store[s].status = "verified"

\* What Repository.Get answers now: the verified row of the slot, or else the
\* verified generic one.
Lookup(s) == CASE Verified(s)          -> CopyOf(s)
               [] Verified(Generic(s)) /\ ~Verified(s) -> CopyOf(Generic(s))
               [] OTHER                -> NoEntry

-----------------------------------------------------------------------------
(* Moving a process. *)

At(p, pc)   == frame[p].pc = pc
Goto(p, pc) == frame' = [frame EXCEPT ![p].pc = pc]

\* The call returns: what it was about stays readable until the next one.
Result(f, copy, outcome) ==
  [Blank EXCEPT !.op = f.op, !.slot = f.slot, !.ver = f.ver, !.copy = copy,
                !.reply = outcome]
Return(p, outcome) == frame' = [frame EXCEPT ![p] = Result(@, NoEntry, outcome)]
ReturnCopy(p, copy) == frame' = [frame EXCEPT ![p] = Result(@, copy, "ok")]

Start(p, op, f) ==
  /\ At(p, "idle")
  /\ op \in Ops
  /\ frame' = [frame EXCEPT ![p] = [f EXCEPT !.op = op]]
  /\ IF op \in Writes THEN writes < MaxWrites /\ writes' = writes + 1
                      ELSE UNCHANGED writes
  /\ UNCHANGED <<store, nextId, cache>>

NoWrite == UNCHANGED <<store, nextId>>

\* The service ignores whether an eviction succeeded.
EvictKey(k) == \/ cache' = [cache EXCEPT ![k] = NoEntry]
               \/ CacheFaults /\ UNCHANGED cache

-----------------------------------------------------------------------------
(* Get and GetVersion. *)

GetStart(p, s) ==
  Start(p, "Get", [Blank EXCEPT !.pc = "cacheget", !.slot = s])

GetVersionStart(p, s, v) ==
  Start(p, "GetVersion", [Blank EXCEPT !.pc = "cacheget", !.slot = s, !.ver = v])

\* Get has its schema: GetVersion goes on to the changelog unless it is the
\* version asked for.
Found(p, copy) ==
  IF frame[p].op = "GetVersion" /\ copy.version # frame[p].ver
    THEN frame' = [frame EXCEPT ![p].pc = "archived", ![p].copy = copy]
    ELSE ReturnCopy(p, copy)

\* The first repository query: the slot itself, or at once the generic one when
\* the lookup names neither vendor nor model.
Query(s) == IF IsGeneric(s) THEN "generic" ELSE "specific"

CacheGet(p) ==
  LET hit == cache[CacheKey(frame[p].slot)] IN
  /\ At(p, "cacheget")
  /\ \/ hit # NoEntry /\ Found(p, hit)
     \/ hit = NoEntry /\ Goto(p, Query(frame[p].slot))
     \/ CacheFaults /\ Return(p, "error")
  /\ UNCHANGED <<store, nextId, cache, writes>>

\* One query of Repository.Get: a verified row, or on to what follows a miss.
QueryRow(p, s, Missed) ==
  /\ \/ /\ Verified(s)
        /\ frame' = [frame EXCEPT ![p].pc = "fill", ![p].copy = CopyOf(s)]
     \/ ~Verified(s) /\ Missed
     \/ RepoFaults /\ Return(p, "error")
  /\ UNCHANGED <<store, nextId, cache, writes>>

QuerySpecific(p) ==
  At(p, "specific") /\ QueryRow(p, frame[p].slot, Goto(p, "generic"))

QueryGeneric(p) ==
  At(p, "generic") /\ QueryRow(p, Generic(frame[p].slot), Return(p, "not_found"))

\* cache.Set under the key of the lookup, whichever row answered it.
Fill(p) ==
  /\ At(p, "fill")
  /\ \/ cache' = [cache EXCEPT ![CacheKey(frame[p].slot)] = frame[p].copy]
     \/ CacheFaults /\ UNCHANGED cache
  /\ Found(p, frame[p].copy)
  /\ UNCHANGED <<store, nextId, writes>>

\* Mutant: out.Version keeps the current version.
ArchivedOldNumber(copy, v) == [copy EXCEPT !.doc = RowOf(copy.id).history[v]]

\* The copy with the content and number of an archived version.
Archived(copy, v) == [copy EXCEPT !.version = v, !.doc = RowOf(copy.id).history[v]]

HasVersion(id, v) == \E s \in SlotsOf(id) : v \in 1 .. Version(store[s])

\* Repository.GetVersion looks the changelog up by the copy's id.
QueryVersion(p) ==
  LET f == frame[p] IN
  /\ At(p, "archived")
  /\ \/ /\ HasVersion(f.copy.id, f.ver)
        /\ ReturnCopy(p, Archived(f.copy, f.ver))
     \/ ~HasVersion(f.copy.id, f.ver) /\ Return(p, "not_found")
     \/ RepoFaults /\ Return(p, "error")
  /\ UNCHANGED <<store, nextId, cache, writes>>

-----------------------------------------------------------------------------
(* Add and AddPair. *)

\* Repository.Add of d at s, and what the service learns of it.
AddOne(s, d, outcome) ==
  \/ outcome = "ok" /\ Insert(s, d)
  \/ outcome = "error" /\ NoWrite /\ (Present(s) \/ d \in Malformed)
  \/ outcome = "error" /\ RepoFaults /\ (Insert(s, d) \/ NoWrite)

AddStart(p, s, d) ==
  Start(p, "Add", [Blank EXCEPT !.pc = "add", !.slot = s, !.doc = d])

Add(p) ==
  /\ At(p, "add")
  /\ \E o \in {"ok", "error"} : AddOne(frame[p].slot, frame[p].doc, o) /\ Return(p, o)
  /\ UNCHANGED <<cache, writes>>

AddPairStart(p, s, d, e) ==
  Start(p, "AddPair", [Blank EXCEPT !.pc = "addreq", !.slot = s, !.doc = d, !.doc2 = e])

AddRequest(p) ==
  LET f == frame[p] IN
  /\ At(p, "addreq")
  /\ \/ /\ AddOne(ReqSlot(f.slot), f.doc, "ok")
        /\ frame' = [frame EXCEPT ![p].pc = "addresp", ![p].id = nextId]
     \/ AddOne(ReqSlot(f.slot), f.doc, "error") /\ Return(p, "error")
  /\ UNCHANGED <<cache, writes>>

\* Mutant: the pair without its rollback.
AddResponseNoUndo(p) ==
  LET f == frame[p] IN
  /\ At(p, "addresp")
  /\ \E o \in {"ok", "error"} : AddOne(RespSlot(f.slot), f.doc2, o) /\ Return(p, o)
  /\ UNCHANGED <<cache, writes>>

AddResponse(p) ==
  LET f == frame[p] IN
  /\ At(p, "addresp")
  /\ \/ AddOne(RespSlot(f.slot), f.doc2, "ok") /\ Return(p, "ok")
     \/ AddOne(RespSlot(f.slot), f.doc2, "error") /\ Goto(p, "undo")
  /\ UNCHANGED <<cache, writes>>

\* Mutant: the delete with the lookup's status condition.
DeleteRowVerifiedOnly(s, outcome) ==
  \/ outcome = "ok" /\ Present(s) /\ (IF Verified(s) THEN Remove(s) ELSE NoWrite)
  \/ outcome = "not_found" /\ NoWrite /\ ~Present(s)

\* Repository.Delete of the row at s, whichever row that is by now.
DeleteRow(s, outcome) ==
  \/ outcome = "ok" /\ Remove(s)
  \/ outcome = "not_found" /\ NoWrite /\ ~Present(s)
  \/ outcome = "error" /\ RepoFaults /\ (Remove(s) \/ NoWrite)

\* The rollback of a pair: deleteOne on the request; its error is dropped.
Undo(p) ==
  LET s == ReqSlot(frame[p].slot) IN
  /\ At(p, "undo")
  /\ \/ DeleteRow(s, "ok") /\ Goto(p, "undoevict")
     \/ \E o \in {"not_found", "error"} : DeleteRow(s, o) /\ Return(p, "error")
  /\ UNCHANGED <<cache, writes>>

UndoEvict(p) ==
  /\ At(p, "undoevict")
  /\ EvictKey(CacheKey(ReqSlot(frame[p].slot)))
  /\ Return(p, "error")
  /\ UNCHANGED <<store, nextId, writes>>

-----------------------------------------------------------------------------
(* Upsert. *)

UpsertStart(p, s, d) ==
  Start(p, "Upsert", [Blank EXCEPT !.pc = "upsert", !.slot = s, !.doc = d])

UpsertRow(s, d) ==
  \/ Insert(s, d)
  \/ Revise(s, d)
  \/ Present(s) /\ JsonContentEqual(Content(store[s]), d) /\ NoWrite

\* The repository may refuse a well-formed document without a fault: another
\* caller may have inserted the row first.
Upsert(p) ==
  LET f == frame[p] IN
  /\ At(p, "upsert")
  /\ \/ UpsertRow(f.slot, f.doc) /\ Goto(p, "evict")
     \/ NoWrite /\ Return(p, "error")
     \/ RepoFaults /\ UpsertRow(f.slot, f.doc) /\ Return(p, "error")
  /\ UNCHANGED <<cache, writes>>

\* The last step of Upsert, and of ChangeStatus when it rejects.
Evict(p) ==
  /\ At(p, "evict")
  /\ EvictKey(CacheKey(frame[p].slot))
  /\ Return(p, "ok")
  /\ UNCHANGED <<store, nextId, writes>>

-----------------------------------------------------------------------------
(* Delete: both rows, each with its own eviction, then both keys again. *)

DeleteStart(p, s) == Start(p, "Delete", [Blank EXCEPT !.pc = "delreq", !.slot = s])

DeleteRequest(p) ==
  LET s == ReqSlot(frame[p].slot) IN
  /\ At(p, "delreq")
  /\ \/ /\ DeleteRow(s, "ok")
        /\ frame' = [frame EXCEPT ![p].pc = "delreqevict", ![p].reqErr = "ok"]
     \/ \E o \in {"not_found", "error"} :
          /\ DeleteRow(s, o)
          /\ frame' = [frame EXCEPT ![p].pc = "delresp", ![p].reqErr = o]
  /\ UNCHANGED <<cache, writes>>

DeleteRequestEvict(p) ==
  /\ At(p, "delreqevict")
  /\ EvictKey(CacheKey(ReqSlot(frame[p].slot)))
  /\ Goto(p, "delresp")
  /\ UNCHANGED <<store, nextId, writes>>

\* ErrNotFound only when neither row was there; any other error is dropped.
DeleteResponse(p) ==
  LET s == RespSlot(frame[p].slot) IN
  /\ At(p, "delresp")
  /\ \/ DeleteRow(s, "ok") /\ Goto(p, "delrespevict")
     \/ /\ DeleteRow(s, "not_found")
        /\ IF frame[p].reqErr = "not_found" THEN Return(p, "not_found") ELSE Goto(p, "evictreq")
     \/ DeleteRow(s, "error") /\ Goto(p, "evictreq")
  /\ UNCHANGED <<cache, writes>>

DeleteResponseEvict(p) ==
  /\ At(p, "delrespevict")
  /\ EvictKey(CacheKey(RespSlot(frame[p].slot)))
  /\ Goto(p, "evictreq")
  /\ UNCHANGED <<store, nextId, writes>>

EvictRequest(p) ==
  /\ At(p, "evictreq")
  /\ EvictKey(CacheKey(ReqSlot(frame[p].slot)))
  /\ Goto(p, "evictresp")
  /\ UNCHANGED <<store, nextId, writes>>

EvictResponse(p) ==
  /\ At(p, "evictresp")
  /\ EvictKey(CacheKey(RespSlot(frame[p].slot)))
  /\ Return(p, "ok")
  /\ UNCHANGED <<store, nextId, writes>>

-----------------------------------------------------------------------------
(* ChangeStatus. *)

ChangeStatusStart(p, i, st) ==
  Start(p, "ChangeStatus", [Blank EXCEPT !.pc = "setstatus", !.id = i, !.status = st])

\* The UPDATE of UpdateStatus.
ChangeStatus(p) ==
  LET f == frame[p] IN
  /\ At(p, "setstatus")
  /\ \/ SetStatus(f.id, f.status) /\ Goto(p, "reread")
     \/ ~Live(f.id) /\ NoWrite /\ Return(p, "not_found")
     \/ RepoFaults /\ (SetStatus(f.id, f.status) \/ NoWrite) /\ Return(p, "error")
  /\ UNCHANGED <<cache, writes>>

\* Mutant: no decision evicts.
EvictsNever(st) == FALSE

\* Only a rejection evicts, and only the key of the row itself.
Evicts(st) == st = "rejected"

\* Its read back, which tells the service the row's slot.
Reread(p) ==
  LET f == frame[p]
      s == CHOOSE x \in SlotsOf(f.id) : TRUE IN
  /\ At(p, "reread")
  /\ \/ /\ Live(f.id)
        /\ IF Evicts(f.status)
             THEN frame' = [frame EXCEPT ![p].pc = "evict", ![p].slot = s]
             ELSE Return(p, "ok")
     \/ (~Live(f.id) \/ RepoFaults) /\ Return(p, "error")
  /\ UNCHANGED <<store, nextId, cache, writes>>

-----------------------------------------------------------------------------
(* The environment. *)

\* Mutant: a TTL of zero, which Redis takes for no expiry.
ExpireNever(k) == FALSE /\ UNCHANGED vars

\* Redis drops an entry when its TTL has passed.
Expire(k) ==
  /\ cache[k] # NoEntry
  /\ cache' = [cache EXCEPT ![k] = NoEntry]
  /\ UNCHANGED <<store, nextId, frame, writes>>

\* The process dies, or its client goes away and nothing more is called.
Crash(p) ==
  /\ Crashes
  /\ ~At(p, "idle")
  /\ frame' = [frame EXCEPT ![p] = Blank]
  /\ UNCHANGED <<store, nextId, cache, writes>>

Begin(p) ==
  \/ \E s \in Slots : GetStart(p, s)
  \/ \E s \in Slots, v \in 1 .. MaxVersion : GetVersionStart(p, s, v)
  \/ \E s \in Slots, d \in Docs : AddStart(p, s, d) \/ UpsertStart(p, s, d)
  \/ \E s \in PairSlots, d, e \in Docs : AddPairStart(p, s, d, e)
  \/ \E s \in PairSlots : DeleteStart(p, s)
  \/ \E i \in 1 .. nextId, st \in Decisions : ChangeStatusStart(p, i, st)

\* A call in flight goes on.
Step(p) ==
  /\ ~At(p, "idle")
  /\ \/ CacheGet(p) \/ QuerySpecific(p) \/ QueryGeneric(p) \/ Fill(p) \/ QueryVersion(p)
     \/ Add(p) \/ AddRequest(p) \/ AddResponse(p) \/ Undo(p) \/ UndoEvict(p)
     \/ Upsert(p) \/ Evict(p)
     \/ DeleteRequest(p) \/ DeleteRequestEvict(p) \/ DeleteResponse(p)
     \/ DeleteResponseEvict(p) \/ EvictRequest(p) \/ EvictResponse(p)
     \/ ChangeStatus(p) \/ Reread(p)

Next ==
  \/ \E p \in Procs : Begin(p) \/ Step(p) \/ Crash(p)
  \/ \E k \in Keys : Expire(k)

Spec == Init /\ [][Next]_vars

\* A call in flight goes on, and every entry outlives its TTL.  Nobody has to call.
FairSpec ==
  /\ Spec
  /\ \A p \in Procs : WF_vars(Step(p))
  /\ \A k \in Keys : WF_vars(Expire(k))

-----------------------------------------------------------------------------
(* Properties *)

Idle == \A p \in Procs : At(p, "idle")

\* Every schema in hand, cached or returned.
Copies == {c \in {cache[k] : k \in Keys} \cup {frame[p].copy : p \in Procs} : c # NoEntry}

\* A copy never mixes versions: its content is what the row with its id held at
\* its version, as long as that row lives, and no later row takes the id over.
Authentic(c) ==
  /\ c.id < nextId
  /\ \A s \in SlotsOf(c.id) :
       /\ s = c.slot
       /\ c.version \in 1 .. Version(store[s])
       /\ c.doc = store[s].history[c.version]

\* However reads, writes, evictions, expiries and crashes interleave, whatever the
\* service caches, holds or returns is some version of the row it names, perhaps an
\* old one, under the label verified.  Under an archived version GetVersion puts the
\* label of the copy it looked up; which versions have been verified is the subject
\* of QuietService.
CopiesAuthentic == \A c \in Copies : Authentic(c) /\ c.status = "verified"

\* An entry is for its own lookup: the slot whose key it is, or its generic one.
\* So is a result.
EntriesAnswerLookup ==
  /\ \A s \in Slots : cache[CacheKey(s)] # NoEntry
       => cache[CacheKey(s)].slot \in {s, Generic(s)}
  /\ \A p \in Procs : frame[p].copy # NoEntry
       => frame[p].copy.slot \in {frame[p].slot, Generic(frame[p].slot)}

\* What is cached is what the repository would answer.
Coherent == \A s \in Slots :
  cache[CacheKey(s)] # NoEntry => cache[CacheKey(s)] = Lookup(s)

\* Whatever went wrong, staleness ends: once the writes have stopped, the cache
\* is coherent for ever from some moment on.
EventuallyCoherent == <>[]Coherent

-----------------------------------------------------------------------------
(* What the documentation says and the code does not do. *)

\* service.go:158-159: a rejected schema "should stop being served": at rest no
\* entry is a copy of a row whose status is rejected.
RejectedNotServed ==
  Idle => \A k \in Keys, s \in Slots :
    (cache[k] # NoEntry /\ Present(s) /\ store[s].id = cache[k].id)
      => store[s].status # "rejected"
================================================================================

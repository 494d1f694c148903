------------------------------ MODULE QuietService ------------------------------
(***************************************************************************)
(* What the schema service promises while nothing fails depends on which   *)
(* calls meet: it takes no lock and opens no transaction across the calls  *)
(* it makes to repository and cache.  This module watches SchemaService    *)
(* and remembers which meetings there have been, so that each promise can  *)
(* be stated under just the condition it needs.  It also remembers every   *)
(* version that has been served as verified, which neither a row nor a     *)
(* copy of one tells: a status is that of the row, whatever its version.   *)
(***************************************************************************)
EXTENDS SchemaService

VARIABLES
  verified, \* copies of the rows as they have stood verified
  met       \* raced: a read has been in flight with a write;
            \* loose: something else than whole pairs has been written, or a pair
            \*   was added while one was deleted;
            \* alone: calls in flight that have met no other

quietVars == <<store, nextId, cache, frame, writes, verified, met>>

InFlight == {p \in Procs : ~At(p, "idle")}

\* Two calls in flight, of one operation of A and one of B.
Together(A, B) == \E p, q \in InFlight : p # q /\ frame[p].op \in A /\ frame[q].op \in B

Watch ==
  met' = [raced |-> met.raced \/ Together(Reads, Writes)',
          loose |-> \/ met.loose
                    \/ Together({"AddPair"}, {"Delete"})'
                    \/ \E p \in InFlight' : frame'[p].op \in {"Add", "Upsert"},
          alone |-> {p \in InFlight' : InFlight' = {p} /\ (At(p, "idle") \/ p \in met.alone)}]

\* The rows whose status is verified, as copies of them would be now.
Serving == {CopyOf(s) : s \in {t \in Slots : Present(t) /\ store[t].status = "verified"}}

Remember == verified' = verified \cup Serving'

\* Types, those of the observer included.
QuietTypeOK ==
  /\ TypeOK
  /\ verified \subseteq Copy
  /\ met \in [raced : BOOLEAN, loose : BOOLEAN, alone : SUBSET Procs]

QuietInit ==
  /\ Init
  /\ verified = Serving
  /\ met = [raced |-> FALSE, loose |-> FALSE, alone |-> {}]
QuietNext == Next /\ Remember /\ Watch
QuietSpec == QuietInit /\ [][QuietNext]_quietVars

-----------------------------------------------------------------------------
(* Properties *)

\* Two versions of one row: all but number and content is the same.
SameRow(a, c) == c = [a EXCEPT !.version = c.version, !.doc = c.doc]

\* The answer of a GetVersion, which may be another version of a verified row.
OtherVersion(f) ==
  /\ f.op = "GetVersion" /\ f.pc = "idle" /\ f.copy.version = f.ver
  /\ \E a \in verified : SameRow(a, f.copy)

OnceVerified(f) == f.copy \in verified \cup {NoEntry} \/ OtherVersion(f)

\* Nothing is cached, and nothing is in the hands of a call or returned, but a version
\* that has stood verified, whatever was decided, written or deleted since it was read.
\* Only the answer of GetVersion may be a version that never has: Repository.GetVersion
\* asks the changelog for the number and for no status.
CopiesOnceVerified ==
  /\ \A k \in Keys : cache[k] \in verified \cup {NoEntry}
  /\ \A p \in Procs : OnceVerified(frame[p])

\* What is cached of the row of s under its own key is that row as it is served now.
OwnEntryCurrent(s) ==
  (cache[CacheKey(s)] # NoEntry /\ cache[CacheKey(s)].slot = s) => cache[CacheKey(s)] = Lookup(s)

\* Between calls the cache tells the truth of every row under the row's own key,
\* whatever reads ran together and whatever writes did, as long as no read ran
\* together with a write (a read that did may cache what was withdrawn meanwhile).
CoherentAtRest == (Idle /\ ~met.raced) => \A s \in Slots : OwnEntryCurrent(s)

\* A Delete that met no other call and returns without error has removed both rows
\* and both entries.
DeletedIsGone ==
  [][ \A p \in met.alone :
        (frame[p].op = "Delete" /\ At(p, "idle")' /\ frame'[p].reply = "ok") =>
          \A s \in {ReqSlot(frame[p].slot), RespSlot(frame[p].slot)} :
            ~Present(s)' /\ cache'[CacheKey(s)] = NoEntry ]_quietVars

\* AddPair is all or nothing, against any number of other AddPairs: at rest a
\* request row has its response row and a response row its request row.
PairsWhole ==
  (Idle /\ ~met.loose) => \A s \in PairSlots : Present(ReqSlot(s)) <=> Present(RespSlot(s))
================================================================================

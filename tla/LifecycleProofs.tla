---------------------------- MODULE LifecycleProofs ----------------------------
(***************************************************************************)
(* Proofs about Lifecycle for any set of clients, with or without faults.  *)
(* A clean exit has cut off no gRPC call because main gets to its last     *)
(* stage only past both drains, and a server that was told to stop takes   *)
(* no call after its drain: that is Drained.  Before a signal nothing ends *)
(* the process but its settings or an outage because nothing is stopped    *)
(* then and every listener finds its address free: that is Untroubled.     *)
(* Together they make IInv inductive.                                      *)
(***************************************************************************)
EXTENDS Lifecycle, TLAPS

\* How far the deferred functions of main have got, and what they leave behind.
Drained ==
  /\ main \in {"drain_admin", "stop_grpc", "drain_grpc", "flush"} => "admin" \in stopped
  /\ main \in {"stop_grpc", "drain_grpc", "flush"} => ActiveOn("admin") = {}
  /\ main \in {"drain_grpc", "flush"} => "grpc" \in stopped
  /\ main = "flush" => ActiveOn("grpc") = {}

\* Only the end of the process cuts calls off.
NothingCut == exit = "no" => \A c \in Clients : call[c].state # "cut"

\* Nobody has told the process to stop, and neither its settings nor the world are
\* against it.
Calm == ~outage /\ Valid /\ ~Clash /\ ~signalled

\* Such a process lives, has stopped nothing, and has not opened a listener twice.
Untroubled ==
  Calm => /\ exit = "no" /\ stopped = {}
          /\ goroutine["mcp"] # "failed"
          /\ goroutine["mcp"] \in {"off", "spawned", "created"} => "mcp" \notin bound
          /\ main \in StartStages => goroutine["mcp"] = "off"
          /\ main \in StartStages \ {"admin", "mcp"} => bound = {}
          /\ main = "admin" => bound = {"grpc"}

IInv ==
  /\ TypeOK
  /\ Drained
  /\ NothingCut
  /\ CleanExitDrained
  /\ Untroubled

LEMMA InitInv == Init => IInv
  <1> SUFFICES ASSUME Init PROVE IInv
    OBVIOUS
  <1>1. TypeOK
    BY DEF Init, TypeOK, Call, Servers, StartStages, StopStages
  <1> QED
    BY <1>1 DEF Init, IInv, Drained, NothingCut, CleanExitDrained, Untroubled, StartStages,
                Servers

\* What calm depends on.
LEMMA SameCalm == UNCHANGED <<env, outage, signalled>> => (Calm <=> Calm')
  BY DEF Calm, Valid, Clash, Setting, Default

\* The process ends: cleanly only past the drains, and never while all is calm.
LEMMA DieInv ==
  ASSUME IInv, exit = "no", NEW how \in {"clean", "fatal", "panic"}, Die(how),
         how = "clean" => main = "flush",
         ~Calm
  PROVE  IInv'
  <1> DEFINE cut(c) == IF Active(c) THEN [call[c] EXCEPT !.state = "cut"] ELSE call[c]
  <1>1. /\ exit' = how /\ call' = [c \in Clients |-> cut(c)]
        /\ UNCHANGED <<env, outage, main, goroutine, bound, stopped, signalled>>
    BY DEF Die
  <1>2. \A c \in Clients : /\ cut(c) \in Call
                           /\ cut(c).state # "active"
                           /\ cut(c).server = call[c].server
                           /\ cut(c).state = "cut" => Active(c) \/ call[c].state = "cut"
    BY DEF IInv, TypeOK, Call, Active
  <1> HIDE DEF cut
  <1>3. TypeOK'
    BY <1>1, <1>2 DEF IInv, TypeOK
  <1>4. Drained' /\ NothingCut'
    BY <1>1, <1>2 DEF IInv, Drained, NothingCut, ActiveOn, Active
  <1>5. CleanExitDrained'
    <2> SUFFICES ASSUME exit' = "clean", NEW c \in Clients, call'[c].state = "cut"
                 PROVE  call'[c].server = "mcp"
      BY DEF CleanExitDrained
    <2>1. main = "flush"
      BY <1>1
    <2>2. Active(c) /\ call'[c].server = call[c].server
      BY <1>1, <1>2 DEF IInv, NothingCut
    <2>3. ActiveOn("admin") = {} /\ ActiveOn("grpc") = {}
      BY <2>1 DEF IInv, Drained
    <2> QED
      BY <2>2, <2>3 DEF ActiveOn, IInv, TypeOK, Call, Servers
  <1>6. Untroubled'
    BY <1>1, SameCalm DEF Untroubled
  <1> QED
    BY <1>3, <1>4, <1>5, <1>6 DEF IInv

\* A step of a goroutine that goes on.
LEMMA GoOn ==
  ASSUME IInv, exit = "no", TypeOK', Drained', Untroubled', UNCHANGED <<call, exit>>
  PROVE  IInv'
  BY DEF IInv, NothingCut, CleanExitDrained

\* One call changes.
LEMMA CallInv ==
  ASSUME IInv, exit = "no", NEW c \in Clients, NEW r \in Call,
         call' = [call EXCEPT ![c] = r], CallOnly,
         r.state # "cut",
         r.state = "active" => r.server \notin stopped \/ (Active(c) /\ r.server = call[c].server)
  PROVE  IInv'
  <1>1. TypeOK'
    BY DEF IInv, TypeOK, CallOnly
  <1>2. \A s \in stopped : ActiveOn(s)' \subseteq ActiveOn(s)
    BY DEF IInv, TypeOK, ActiveOn, Active
  <1>3. Drained'
    BY <1>2 DEF IInv, Drained, CallOnly
  <1>4. NothingCut' /\ CleanExitDrained'
    BY DEF IInv, TypeOK, NothingCut, CleanExitDrained, CallOnly
  <1>5. Untroubled'
    BY SameCalm DEF IInv, Untroubled, CallOnly
  <1> QED
    BY <1>1, <1>3, <1>4, <1>5 DEF IInv

-----------------------------------------------------------------------------
(* The main goroutine. *)

LEMMA StartStep ==
  ASSUME IInv, exit = "no",
         \/ Configure
         \/ SetUp("observability", "database") \/ SetUp("database", "redis")
         \/ SetUp("redis", "grpc")
         \/ Listen("grpc", "admin") \/ Listen("admin", "mcp") \/ StartMcp
         \/ Cancelled
  PROVE  IInv'
  <1>1. CASE Die("fatal")
    <2>1. CASE outage \/ ~Valid
      BY <1>1, <2>1, DieInv DEF Calm
    <2>2. CASE ~outage /\ Valid
      <3>1. PICK s \in {"grpc", "admin"} : main = s /\ ~Free(s)
        <4>1. exit' = "fatal"
          BY <1>1 DEF Die
        <4> QED
          BY <2>2, <4>1 DEF Configure, SetUp, Listen, StartMcp, Cancelled, Proceed
      <3>2. Calm => \A t \in bound : t # s
        BY <3>1 DEF IInv, Untroubled, StartStages
      <3>3. ~Calm
        BY <3>1, <3>2 DEF Free, Calm, Clash, IInv, TypeOK, Servers
      <3> QED
        BY <1>1, <3>3, DieInv
    <2> QED
      BY <2>1, <2>2
  <1>2. CASE ~Die("fatal")
    <2> USE DEF StartStages, StopStages
    <2>1. CASE \E stage \in StartStages \ {"admin", "mcp"} :
                 /\ main \in StartStages \ {"grpc", "admin", "mcp"}
                 /\ Proceed(stage) /\ UNCHANGED <<goroutine, bound, stopped>>
      <3>1. TypeOK' /\ Drained' /\ UNCHANGED <<call, exit>>
        BY <2>1 DEF IInv, TypeOK, Proceed, Drained
      <3>2. Untroubled'
        BY <2>1, SameCalm DEF IInv, Untroubled, Proceed
      <3> QED
        BY <3>1, <3>2, GoOn
    <2>2. CASE \E s \in {"grpc", "admin"} :
                 /\ main = s
                 /\ bound' = bound \cup {s}
                 /\ goroutine' = [goroutine EXCEPT ![s] = "spawned"]
                 /\ Proceed(IF s = "grpc" THEN "admin" ELSE "mcp") /\ UNCHANGED stopped
      <3>1. TypeOK' /\ Drained' /\ UNCHANGED <<call, exit>>
        BY <2>2 DEF IInv, TypeOK, Proceed, Drained, Servers
      <3>2. Untroubled'
        BY <2>2, SameCalm DEF IInv, TypeOK, Untroubled, Proceed, Servers
      <3> QED
        BY <3>1, <3>2, GoOn
    <2>3. CASE StartMcp
      <3>1. TypeOK' /\ Drained' /\ UNCHANGED <<call, exit>>
        BY <2>3 DEF StartMcp, IInv, TypeOK, Proceed, Drained, Servers
      <3>2. Untroubled'
        BY <2>3, SameCalm DEF StartMcp, IInv, TypeOK, Untroubled, Proceed, Servers
      <3> QED
        BY <3>1, <3>2, GoOn
    <2>4. CASE Cancelled
      <3>1. TypeOK' /\ Drained' /\ UNCHANGED <<call, exit>>
        BY <2>4 DEF Cancelled, IInv, TypeOK, Proceed, Drained
      <3>2. ~Calm'
        BY <2>4 DEF Cancelled, Proceed, Calm
      <3> QED
        BY <3>1, <3>2, GoOn DEF Untroubled
    <2>5. Configure \/ SetUp("observability", "database") \/ SetUp("database", "redis")
            \/ SetUp("redis", "grpc") => <2>1!1
      BY <1>2 DEF Configure, SetUp
    <2>6. Listen("grpc", "admin") \/ Listen("admin", "mcp") => <2>2!1
      BY <1>2 DEF Listen
    <2> QED
      BY <2>1, <2>2, <2>3, <2>4, <2>5, <2>6
  <1> QED
    BY <1>1, <1>2

LEMMA StopStep ==
  ASSUME IInv, exit = "no",
         \/ StopMcp
         \/ Stop("admin", "stop_admin", "drain_admin") \/ Drain("admin", "drain_admin", "stop_grpc")
         \/ Stop("grpc", "stop_grpc", "drain_grpc") \/ Drain("grpc", "drain_grpc", "flush")
  PROVE  IInv'
  <1>1. TypeOK' /\ UNCHANGED <<call, exit>>
    <2>1. PICK next \in StopStages : Proceed(next)
      BY DEF StopMcp, Stop, Drain, StopStages
    <2>2. /\ bound' \subseteq Servers /\ stopped' \subseteq Servers
          /\ main \in StopStages
      BY DEF IInv, TypeOK, StopMcp, Stop, Drain, Servers, StopStages
    <2>3. \/ goroutine' = goroutine
          \/ \E s \in Servers :
               goroutine' = [goroutine EXCEPT ![s] = IF @ = "serving" THEN "returned" ELSE @]
      BY DEF StopMcp, Stop, Drain, Servers
    <2>4. goroutine' \in [Servers -> {"off", "spawned", "created", "serving", "failed", "returned"}]
      BY <2>3 DEF IInv, TypeOK
    <2> QED
      BY <2>1, <2>2, <2>4 DEF IInv, TypeOK, Proceed
  <1>2. \A s : ActiveOn(s)' = ActiveOn(s)
    BY <1>1 DEF ActiveOn, Active
  <1>3. Drained'
    <2>1. CASE StopMcp
      BY <2>1, <1>2 DEF IInv, Drained, StopMcp, Proceed
    <2>2. CASE Stop("admin", "stop_admin", "drain_admin") \/ Stop("grpc", "stop_grpc", "drain_grpc")
      BY <2>2, <1>2 DEF IInv, Drained, Stop, Proceed
    <2>3. CASE Drain("admin", "drain_admin", "stop_grpc") \/ Drain("grpc", "drain_grpc", "flush")
      BY <2>3, <1>2 DEF IInv, Drained, Drain, Proceed
    <2> QED
      BY <2>1, <2>2, <2>3
  <1>4. signalled'
    BY DEF IInv, TypeOK, StopMcp, Stop, Drain, Proceed, StopStages
  <1> QED
    BY <1>1, <1>3, <1>4, GoOn DEF Untroubled, Calm

LEMMA ReturnStep == ASSUME IInv, exit = "no", Return PROVE IInv'
  <1>1. signalled
    BY DEF Return, IInv, TypeOK, StopStages
  <1> QED
    BY <1>1, DieInv DEF Return, Calm

-----------------------------------------------------------------------------
(* The servers' goroutines. *)

LEMMA ServerStep ==
  ASSUME IInv, exit = "no",
         (\E s \in GrpcServers : Serve(s)) \/ RunMcp \/ (\E s \in Servers : Break(s))
  PROVE  IInv'
  <1>1. CASE Die("fatal")
    <2>1. outage \/ stopped # {}
      <3>1. exit' = "fatal"
        BY <1>1 DEF Die
      <3> QED
        BY <3>1 DEF Serve, RunMcp, CreateMcp, ServeMcp, CloseMcp, PanicMcp, Break, Reach, Die
    <2>2. ~Calm
      BY <2>1 DEF IInv, Untroubled, Calm
    <2> QED
      BY <1>1, <2>2, DieInv
  <1>2. CASE PanicMcp
    BY <1>2, DieInv DEF PanicMcp, IInv, Untroubled
  <1>3. CASE ~Die("fatal") /\ ~PanicMcp
    <2>1. PICK s \in Servers, state \in {"created", "serving", "failed"} :
            Reach(s, state) /\ UNCHANGED stopped /\ bound' \in {bound, bound \cup {s}}
      <3>1. CASE \E s \in GrpcServers : Serve(s)
        BY <1>3, <3>1 DEF Serve, Servers, GrpcServers
      <3>2. CASE RunMcp
        BY <1>3, <3>2 DEF RunMcp, CreateMcp, ServeMcp, CloseMcp, Servers
      <3>3. CASE \E s \in Servers : Break(s)
        BY <1>3, <3>3 DEF Break, Servers
      <3> QED
        BY <3>1, <3>2, <3>3
    <2>2. TypeOK' /\ UNCHANGED <<call, exit, main, stopped>>
      BY <2>1 DEF IInv, TypeOK, Reach
    <2>3. Drained'
      BY <2>2 DEF IInv, Drained, ActiveOn, Active
    <2>4. Untroubled'
      <3> SUFFICES ASSUME Calm PROVE Untroubled'
        BY <2>1, SameCalm DEF Untroubled, Reach
      <3>1. stopped = {} /\ ~outage
        BY DEF IInv, Untroubled, Calm
      <3>2. CASE \E t \in GrpcServers : Serve(t)
        BY <1>3, <3>2, SameCalm
        DEF Serve, Reach, IInv, TypeOK, Untroubled, Servers, GrpcServers
      <3>3. CASE CreateMcp
        BY <3>3, SameCalm DEF CreateMcp, Reach, IInv, TypeOK, Untroubled, Servers
      <3>4. CASE ServeMcp
        <4>1. Free("mcp")
          BY <3>4 DEF ServeMcp, Free, IInv, TypeOK, Untroubled, Calm, Clash, Servers
        <4> QED
          BY <3>1, <3>4, <4>1, SameCalm
          DEF ServeMcp, Reach, IInv, TypeOK, Untroubled, Servers, StartStages
      <3>5. CASE CloseMcp
        BY <3>1, <3>5 DEF CloseMcp
      <3>6. CASE \E t \in Servers : Break(t)
        BY <3>1, <3>6 DEF Break
      <3> QED
        BY <1>3, <3>2, <3>3, <3>4, <3>5, <3>6 DEF RunMcp
    <2> QED
      BY <2>2, <2>3, <2>4, GoOn
  <1> QED
    BY <1>1, <1>2, <1>3

-----------------------------------------------------------------------------
(* Clients. *)

LEMMA SignalStep == ASSUME IInv, exit = "no", Signal PROVE IInv'
  <1>1. TypeOK' /\ UNCHANGED <<call, exit, main, stopped>>
    BY DEF IInv, TypeOK, Signal
  <1>2. Drained'
    BY <1>1 DEF IInv, Drained, ActiveOn, Active
  <1>3. ~Calm'
    BY DEF Signal, Calm
  <1> QED
    BY <1>1, <1>2, <1>3, GoOn DEF Untroubled

LEMMA BeginStep ==
  ASSUME IInv, exit = "no", NEW c \in Clients, NEW s \in Servers,
         NEW kind \in {"call", "stream"}, BeginCall(c, s, kind)
  PROVE  IInv'
  <1> DEFINE r == [server |-> s, kind |-> kind, state |-> "active"]
  <1>1. r \in Call /\ r.state # "cut" /\ r.server \notin stopped
    BY DEF Call, BeginCall
  <1>2. call' = [call EXCEPT ![c] = r] /\ CallOnly
    BY DEF BeginCall
  <1> HIDE DEF r
  <1> QED
    BY <1>1, <1>2, CallInv

LEMMA EndStep ==
  ASSUME IInv, exit = "no", NEW c \in Clients, Answer(c) \/ HangUp(c) \/ HandlerPanics(c)
  PROVE  IInv'
  <1>1. PICK state \in {"answered", "none", "aborted"} : call' = Closed(c, state) /\ CallOnly
    BY DEF Answer, HangUp, HandlerPanics
  <1> DEFINE r == [call[c] EXCEPT !.state = state]
  <1>2. r \in Call /\ r.state = state
    BY DEF IInv, TypeOK, Call
  <1>3. call' = [call EXCEPT ![c] = r]
    BY <1>1 DEF Closed, IInv, TypeOK, Call
  <1> HIDE DEF r
  <1> QED
    BY <1>1, <1>2, <1>3, CallInv

LEMMA NextInv == IInv /\ [Next]_vars => IInv'
  <1> SUFFICES ASSUME IInv, [Next]_vars PROVE IInv'
    OBVIOUS
  <1>1. CASE Next
    <2>1. exit = "no"
      BY <1>1 DEF Next
    <2>2. CASE Main
      BY <2>1, <2>2, StartStep, StopStep, ReturnStep DEF Main
    <2>3. CASE (\E s \in GrpcServers : Serve(s)) \/ RunMcp \/ (\E s \in Servers : Break(s))
      BY <2>1, <2>3, ServerStep
    <2>4. CASE Signal
      BY <2>1, <2>4, SignalStep
    <2>5. CASE \E c \in Clients, s \in Servers, kind \in {"call", "stream"} : BeginCall(c, s, kind)
      BY <2>1, <2>5, BeginStep
    <2>6. CASE \E c \in Clients : Answer(c) \/ HangUp(c) \/ HandlerPanics(c)
      BY <2>1, <2>6, EndStep
    <2> QED
      BY <1>1, <2>2, <2>3, <2>4, <2>5, <2>6 DEF Next
  <1>2. CASE UNCHANGED vars
    <2>1. TypeOK' /\ Drained' /\ NothingCut' /\ CleanExitDrained'
      BY <1>2 DEF vars, IInv, TypeOK, Drained, NothingCut, CleanExitDrained, ActiveOn, Active
    <2>2. Untroubled'
      BY <1>2, SameCalm DEF vars, IInv, Untroubled
    <2> QED
      BY <2>1, <2>2 DEF IInv
  <1> QED
    BY <1>1, <1>2

-----------------------------------------------------------------------------
LEMMA AlwaysInv == Spec => []IInv
  BY InitInv, NextInv, PTL DEF Spec

\* Every variable of the process keeps its type, and main gets to its deferred
\* functions by a signal only.
THEOREM TypeCorrect == Spec => []TypeOK
  <1>1. IInv => TypeOK
    BY DEF IInv
  <1> QED
    BY <1>1, AlwaysInv, PTL

\* A run that ends by returning from main has cut off no call of a gRPC server,
\* for any number of clients and whatever fails.
THEOREM CleanExitsAreDrained == Spec => []CleanExitDrained
  <1>1. IInv => CleanExitDrained
    BY DEF IInv
  <1> QED
    BY <1>1, AlwaysInv, PTL

\* Until it is told to stop, the process ends only for want of a setting, over an address
\* given twice or in an outage: never by what its clients call, or by how the goroutines
\* of its servers and of main interleave.
THEOREM EndsOnlyForAReason == Spec => []EndsForAReason
  <1>1. IInv => EndsForAReason
    BY DEF IInv, Untroubled, Calm, EndsForAReason
  <1> QED
    BY <1>1, AlwaysInv, PTL
================================================================================

------------------------------- MODULE Lifecycle -------------------------------
(***************************************************************************)
(* cmd/app: one run of the program, from its configuration to its exit.    *)
(* The main goroutine sets up what the servers need, starts them one after *)
(* the other, waits for a signal and runs its deferred shutdowns, the last *)
(* deferred first.  Each server has a goroutine of its own, which main     *)
(* does not wait for: gRPC and admin serve on a listener main has opened,  *)
(* MCP opens its own.                                                      *)
(*                                                                         *)
(* Clients make calls, which are answered, and open streams, which last    *)
(* until the client hangs up: the Watch of the health service both gRPC    *)
(* servers register, the event stream of MCP.  What becomes of a call is   *)
(* kept after it, until the client makes another.                          *)
(***************************************************************************)
EXTENDS Naturals

CONSTANTS
  Clients,
  Unset, Empty,  \* a setting that is not given, or given as the empty string
  Given,         \* a setting that is given: as an address, one for all servers
  Faults         \* whether handlers may panic, and whether runs with an outage are looked at

Servers     == {"grpc", "admin", "mcp"}
GrpcServers == {"grpc", "admin"}
Settings    == Servers \cup {"dsn"}

ASSUME LifecycleAssumption ==
  /\ Faults \in BOOLEAN
  /\ Unset \notin {Empty, Given} /\ Empty # Given
  /\ Servers \cap {Unset, Empty, Given} = {}

VARIABLES
  env,        \* settings as environment and configuration file give them
  outage,     \* whether set-up, ports and listeners may fail in this run
  main,       \* where the main goroutine stands
  goroutine,  \* how far each server's goroutine is
  bound,      \* servers whose listener is open
  stopped,    \* servers that have been told to stop
  signalled,  \* whether the context is cancelled
  call,       \* each client's last call
  exit        \* how the process ended

vars == <<env, outage, main, goroutine, bound, stopped, signalled, call, exit>>

StartStages == {"configuration", "observability", "database", "redis", "grpc", "admin", "mcp"}
StopStages  == {"stop_mcp", "stop_admin", "drain_admin", "stop_grpc", "drain_grpc", "flush"}

Call == [server : Servers, kind : {"call", "stream"},
         state : {"none", "active", "answered", "aborted", "cut"}]

\* Types; main gets to its deferred functions by a signal only.
TypeOK ==
  /\ env \in [Settings -> {Unset, Empty, Given}]
  /\ outage \in BOOLEAN
  /\ main \in StartStages \cup {"wait"} \cup StopStages
  /\ goroutine \in [Servers -> {"off", "spawned", "created", "serving", "failed", "returned"}]
  /\ bound \subseteq Servers /\ stopped \subseteq Servers
  /\ signalled \in BOOLEAN
  /\ call \in [Clients -> Call]
  /\ exit \in {"no", "clean", "fatal", "panic"}
  /\ main \in StopStages => signalled

Init ==
  /\ env \in [Settings -> {Unset, Empty, Given}]
  /\ outage \in IF Faults THEN BOOLEAN ELSE {FALSE}
  /\ main = "configuration"
  /\ goroutine = [s \in Servers |-> "off"]
  /\ bound = {} /\ stopped = {}
  /\ signalled = FALSE
  /\ call = [c \in Clients |-> [server |-> "grpc", kind |-> "call", state |-> "none"]]
  /\ exit = "no"

-----------------------------------------------------------------------------
(* Configuration.  Every address has a default, the server's own; the DSN none. *)

Default(k) == IF k \in Servers THEN k ELSE Empty
Setting(k) == IF env[k] = Unset THEN Default(k) ELSE env[k]

\* Every setting is "required".  (So is the address of Redis, which has a default
\* too and is left out: it is no address of this process.)
Valid == \A k \in Settings : Setting(k) # Empty

-----------------------------------------------------------------------------
Active(c)    == call[c].state = "active"
ActiveOn(s)  == {c \in Clients : Active(c) /\ call[c].server = s}
Closed(c, state) == [call EXCEPT ![c].state = state]

\* The process ends and takes every call in flight with it.  Fatal and a panic
\* run no deferred function of main.
Die(how) ==
  /\ exit' = how
  /\ call' = [c \in Clients |-> IF Active(c) THEN [call[c] EXCEPT !.state = "cut"] ELSE call[c]]
  /\ UNCHANGED <<env, outage, main, goroutine, bound, stopped, signalled>>

Proceed(stage) == main' = stage /\ UNCHANGED <<env, outage, signalled, call, exit>>

-----------------------------------------------------------------------------
(* The main goroutine. *)

Configure ==
  /\ main = "configuration"
  /\ \/ Valid /\ Proceed("observability") /\ UNCHANGED <<goroutine, bound, stopped>>
     \/ ~Valid /\ Die("fatal")

\* Observability, the database connection and the Redis instrumentation, each
\* with its Fatal.
SetUp(stage, next) ==
  /\ main = stage
  /\ \/ Proceed(next) /\ UNCHANGED <<goroutine, bound, stopped>>
     \/ outage /\ Die("fatal")

\* net.Listen: the address may also be in use outside the process.
Free(s) == \A t \in bound : Setting(t) # Setting(s)

Listen(s, next) ==
  /\ main = s
  /\ \/ /\ Free(s)
        /\ bound' = bound \cup {s}
        /\ goroutine' = [goroutine EXCEPT ![s] = "spawned"]
        /\ Proceed(next) /\ UNCHANGED stopped
     \/ (~Free(s) \/ outage) /\ Die("fatal")

StartMcp ==
  /\ main = "mcp"
  /\ goroutine' = [goroutine EXCEPT !["mcp"] = "spawned"]
  /\ Proceed("wait") /\ UNCHANGED <<bound, stopped>>

\* Mutants: main that does not wait; no deferred shutdown of MCP.
CancelledAtOnce ==
  /\ main = "wait"
  /\ Proceed("stop_mcp") /\ UNCHANGED <<goroutine, bound, stopped>>
CancelledWithoutMcp ==
  /\ main = "wait" /\ signalled
  /\ Proceed("stop_admin") /\ UNCHANGED <<goroutine, bound, stopped>>

Cancelled ==
  /\ main = "wait" /\ signalled
  /\ Proceed("stop_mcp") /\ UNCHANGED <<goroutine, bound, stopped>>

\* Shutdown of an http.Server closes the listener and, its context being
\* cancelled already, waits for no call.  Before Start has created the server it
\* does nothing.
StopMcp ==
  /\ main = "stop_mcp"
  /\ IF goroutine["mcp"] = "spawned"
       THEN UNCHANGED <<bound, stopped>>
       ELSE stopped' = stopped \cup {"mcp"} /\ bound' = bound \ {"mcp"}
  /\ Proceed("stop_admin") /\ UNCHANGED goroutine

\* GracefulStop, in two steps: it closes the listener and takes no more calls,
\* then it waits for those in flight, streams included, without any limit.
Stop(s, stage, next) ==
  /\ main = stage
  /\ stopped' = stopped \cup {s} /\ bound' = bound \ {s}
  /\ Proceed(next) /\ UNCHANGED goroutine

\* Mutant: Stop in place of GracefulStop.
DrainNothing(s, stage, next) ==
  /\ main = stage
  /\ Proceed(next) /\ UNCHANGED <<goroutine, bound, stopped>>

\* Serve returns nil when the stop it was told of is complete.
Drain(s, stage, next) ==
  /\ main = stage
  /\ ActiveOn(s) = {}
  /\ goroutine' = [goroutine EXCEPT ![s] = IF @ = "serving" THEN "returned" ELSE @]
  /\ Proceed(next) /\ UNCHANGED <<bound, stopped>>

\* Redis instrumentation and observability are shut down, whatever comes of it.
Return == main = "flush" /\ Die("clean")

Main ==
  \/ Configure
  \/ SetUp("observability", "database") \/ SetUp("database", "redis") \/ SetUp("redis", "grpc")
  \/ Listen("grpc", "admin") \/ Listen("admin", "mcp") \/ StartMcp
  \/ Cancelled
  \/ StopMcp
  \/ Stop("admin", "stop_admin", "drain_admin") \/ Drain("admin", "drain_admin", "stop_grpc")
  \/ Stop("grpc", "stop_grpc", "drain_grpc") \/ Drain("grpc", "drain_grpc", "flush")
  \/ Return

-----------------------------------------------------------------------------
(* The servers' goroutines. *)

Reach(s, state) ==
  /\ goroutine' = [goroutine EXCEPT ![s] = state]
  /\ UNCHANGED <<env, outage, main, signalled, call, exit>>

\* A Serve that comes after GracefulStop returns ErrServerStopped: Fatal.
Serve(s) ==
  /\ goroutine[s] = "spawned"
  /\ \/ s \notin stopped /\ Reach(s, "serving") /\ UNCHANGED <<bound, stopped>>
     \/ s \in stopped /\ Die("fatal")

CreateMcp ==
  /\ goroutine["mcp"] = "spawned"
  /\ Reach("mcp", "created") /\ UNCHANGED <<bound, stopped>>

\* ListenAndServe.
ServeMcp ==
  /\ goroutine["mcp"] = "created"
  /\ \/ /\ "mcp" \notin stopped /\ Free("mcp")
        /\ bound' = bound \cup {"mcp"}
        /\ Reach("mcp", "serving")
     \/ /\ "mcp" \in stopped \/ ~Free("mcp") \/ outage
        /\ Reach("mcp", "failed") /\ UNCHANGED bound
  /\ UNCHANGED stopped

\* It returns ErrServerClosed when Shutdown has closed its listener.
CloseMcp ==
  /\ goroutine["mcp"] = "serving" /\ "mcp" \in stopped
  /\ Reach("mcp", "failed") /\ UNCHANGED <<bound, stopped>>

\* Mutant: the error is logged only.
LogMcp ==
  /\ goroutine["mcp"] = "failed"
  /\ Reach("mcp", "returned") /\ UNCHANGED <<bound, stopped>>

\* Whatever error it was, the goroutine panics, which nothing recovers.
PanicMcp == goroutine["mcp"] = "failed" /\ Die("panic")

RunMcp == CreateMcp \/ ServeMcp \/ CloseMcp \/ PanicMcp

\* A listener that breaks ends its server, and so the process.
Break(s) ==
  /\ outage
  /\ goroutine[s] = "serving" /\ s \notin stopped
  /\ \/ s \in GrpcServers /\ Die("fatal")
     \/ s = "mcp" /\ Reach(s, "failed") /\ UNCHANGED <<bound, stopped>>

-----------------------------------------------------------------------------
(* Clients, and who runs the program. *)

Signal ==
  /\ ~signalled
  /\ signalled' = TRUE
  /\ UNCHANGED <<env, outage, main, goroutine, bound, stopped, call, exit>>

CallOnly == UNCHANGED <<env, outage, main, goroutine, bound, stopped, signalled, exit>>

BeginCall(c, s, kind) ==
  /\ ~Active(c)
  /\ goroutine[s] = "serving" /\ s \notin stopped
  /\ call' = [call EXCEPT ![c] = [server |-> s, kind |-> kind, state |-> "active"]]
  /\ CallOnly

Answer(c) ==
  /\ Active(c) /\ call[c].kind = "call"
  /\ call' = Closed(c, "answered")
  /\ CallOnly

HangUp(c) == Active(c) /\ call' = Closed(c, "none") /\ CallOnly

\* Mutant: a server without the recovery interceptor.
HandlerPanicsThrough(c) == Faults /\ Active(c) /\ Die("panic")

\* The recovery interceptor answers Internal; net/http drops the connection.
HandlerPanics(c) ==
  /\ Faults
  /\ Active(c)
  /\ call' = Closed(c, IF call[c].server \in GrpcServers THEN "answered" ELSE "aborted")
  /\ CallOnly

-----------------------------------------------------------------------------
Next ==
  /\ exit = "no"
  /\ \/ Main
     \/ \E s \in GrpcServers : Serve(s)
     \/ RunMcp
     \/ \E s \in Servers : Break(s)
     \/ Signal
     \/ \E c \in Clients, s \in Servers, kind \in {"call", "stream"} : BeginCall(c, s, kind)
     \/ \E c \in Clients : Answer(c) \/ HangUp(c) \/ HandlerPanics(c)

Spec == Init /\ [][Next]_vars

Running == exit = "no"

\* The scheduler runs every goroutine and handlers return.  Nobody has to send a
\* signal, to call, or to hang up.
FairSpec ==
  /\ Spec
  /\ WF_vars(Running /\ Main)
  /\ \A s \in GrpcServers : WF_vars(Running /\ Serve(s))
  /\ WF_vars(Running /\ RunMcp)
  /\ \A c \in Clients : WF_vars(Running /\ Answer(c))

-----------------------------------------------------------------------------
(* Properties *)

\* A process that returns from main has cut off no call of a gRPC server, wherever
\* the signal found it: both were drained, and nothing got in afterwards.
CleanExitDrained ==
  exit = "clean" => \A c \in Clients : call[c].state = "cut" => call[c].server = "mcp"

\* Two servers are given one address.
Clash == \E s, t \in Servers : s # t /\ Setting(s) = Setting(t)

\* Nothing the clients do ends the process: until it is told to stop, it ends only for
\* want of a setting, over an address given twice or in an outage, however far the
\* servers' goroutines have got beside main.
EndsForAReason == (exit # "no" /\ ~signalled) => outage \/ ~Valid \/ Clash

\* No half service: a process that has started all its servers gets them all to
\* serve, unless it ends or is told to.
UpOrOut ==
  main = "wait" ~> \/ \A s \in Servers : goroutine[s] = "serving"
                   \/ signalled
                   \/ exit # "no"

\* A signal ends the process once its MCP server exists, even if clients keep
\* streams open, which GracefulStop waits for.
SignalEndsProcess ==
  (signalled /\ main = "wait" /\ goroutine["mcp"] \in {"created", "serving"})
    ~> exit # "no"

-----------------------------------------------------------------------------
(* What the documentation says and the code does not do. *)

\* mcp/server.go:72 and adminserver/server.go:76: Shutdown "gracefully stops" the
\* server: no call in flight is cut off when its server has been told to stop.
ShutdownGraceful ==
  \A c \in Clients : call[c].state = "cut" => call[c].server \notin stopped
================================================================================

------------------------------- MODULE Agent -------------------------------
(***************************************************************************)
(* The life of the agent process: run() sets the enabled parts up one      *)
(* after the other and ends in srv.Serve; a second goroutine waits for a   *)
(* signal and takes everything down.  Every setup step can fail, a signal  *)
(* comes at any moment, and calls, scrapes, mount messages and sessions go *)
(* on meanwhile.  What the parts do is modelled in their own modules; here *)
(* a part is what has to be released.                                      *)
(***************************************************************************)
EXTENDS Naturals, Sequences, FiniteSets

CONSTANTS FlagSets,  \* the parts that can be enabled together
          MaxCalls   \* bound: gRPC calls and scrapes in flight

\* The parts that hold a NATS connection, and all steps of run() in order.
NatsParts == {"mesh", "mounts", "firewall", "fwstatus", "sshkeys", "exec", "guestplane", "properties"}

Steps == <<"bootmounts", "mesh", "mounts", "firewall", "fwstatus", "sshkeys", "exec", "sshd",
           "signals", "guestplane", "properties", "listen", "metrics", "shutdown", "serve">>

Always == {"signals", "listen", "shutdown", "serve"}

ASSUME AgentAssumption ==
  /\ \A flags \in FlagSets : /\ flags \subseteq NatsParts \cup {"bootmounts", "sshd", "metrics"}
                             /\ "fwstatus" \in flags => "firewall" \in flags
  /\ MaxCalls \in Nat \ {0}

VARIABLES
  flags,      \* the enabled parts
  pos,        \* the next step of run(), or Len(Steps) + 1: in Serve
  process,    \* "running", "exited"
  code,       \* the exit code; 143: killed by the signal
  conns,      \* the parts whose NATS connection is open
  natsConns,  \* the local variable of that name
  gauge,      \* weft_microvm_agent_nats_connected
  mounted,    \* shares in the registry: "no", "yes", "stuck" (unmount failed)
  message,    \* a mount message: "none", "handled", "late" (its connection is
              \*   closed and the handler goes on), "over" (that one has returned)
  sessions,   \* exec sessions: "none", "live"
  sshd,       \* the listener: "none", "open", "closed"
  metrics,    \* "none", "serving", "closing", "closed"
  scrapes, calls,
  grpc,       \* "none", "serving", "stopping", "stopped"
  ctx,        \* "live", "cancelled"
  down,       \* where the shutdown goroutine is
  todo        \*   connections its loop has yet to close

main     == <<flags, pos, process, code, natsConns>>
nats     == <<conns, gauge, sessions>>
servers  == <<sshd, metrics, scrapes, grpc, calls>>
shutdown == <<ctx, down, todo>>
shares   == <<mounted, message>>
vars     == <<main, nats, shares, servers, shutdown>>

TypeOK ==
  /\ flags \in FlagSets /\ pos \in 1..(Len(Steps) + 1)
  /\ process \in {"running", "exited"} /\ code \in {0, 1, 143}
  /\ conns \subseteq flags /\ natsConns \subseteq flags /\ todo \subseteq natsConns
  /\ gauge \in {0, 1} /\ sessions \in {"none", "live"} /\ ctx \in {"live", "cancelled"}
  /\ mounted \in {"no", "yes", "stuck"} /\ message \in {"none", "handled", "late", "over"}
  /\ sshd \in {"none", "open", "closed"}
  /\ metrics \in {"none", "serving", "closing", "closed"}
  /\ grpc \in {"none", "serving", "stopping", "stopped"}
  /\ scrapes \in 0..MaxCalls /\ calls \in 0..MaxCalls
  /\ down \in {"none", "waiting", "drain", "conns", "sshd", "unmount", "grpc", "finish", "done"}

Init ==
  /\ flags \in FlagSets /\ pos = 1 /\ process = "running" /\ code = 0
  /\ conns = {} /\ natsConns = {} /\ gauge = 0 /\ mounted = "no" /\ message = "none"
  /\ sessions = "none"
  /\ sshd = "none" /\ metrics = "none" /\ scrapes = 0 /\ calls = 0
  /\ grpc = "none" /\ ctx = "live" /\ down = "none" /\ todo = {}

(***************************************************************************)
(* run(): one action per step.                                             *)
(***************************************************************************)
At(step) ==
  /\ process = "running" /\ pos <= Len(Steps) /\ Steps[pos] = step
  /\ step \in flags \cup Always

Done == pos' = pos + 1 /\ UNCHANGED <<flags, process, code>>

\* run returns: the process ends, whatever the other goroutines do.
Exit(c) == process' = "exited" /\ code' = c /\ UNCHANGED <<flags, pos, natsConns>>

Skip ==
  /\ process = "running" /\ pos <= Len(Steps) /\ Steps[pos] \notin flags \cup Always
  /\ Done
  /\ UNCHANGED <<natsConns, nats, shares, servers, shutdown>>

BootMounts ==
  /\ At("bootmounts")
  /\ mounted' = "yes" /\ Done
  /\ UNCHANGED <<natsConns, message, nats, servers, shutdown>>

\* The shares before the one that fails stay mounted.
BootMountsFail ==
  /\ At("bootmounts")
  /\ mounted' \in {"no", "yes"} /\ Exit(1)
  /\ UNCHANGED <<message, nats, servers, shutdown>>

\* The exec sessions and the dispatcher leave the gauge alone.
Gauged(part) == part \notin {"exec", "guestplane"}

Dial(part) ==
  /\ At(part)
  /\ conns' = conns \cup {part} /\ natsConns' = natsConns \cup {part}
  /\ gauge' = IF Gauged(part) THEN 1 ELSE gauge
  /\ Done
  /\ UNCHANGED <<sessions, shares, servers, shutdown>>

\* nats.Connect fails, or Start does and the connection is closed again.
DialFails(part) ==
  /\ At(part) /\ part # "guestplane"
  /\ gauge' \in IF Gauged(part) THEN {0, gauge} ELSE {gauge}
  /\ Exit(1)
  /\ UNCHANGED <<conns, sessions, shares, servers, shutdown>>

\* The guest plane goes on without a dispatcher.
NoDispatcher ==
  /\ At("guestplane") /\ Done
  /\ UNCHANGED <<natsConns, nats, shares, servers, shutdown>>

StartSSHD ==
  /\ At("sshd")
  /\ sshd' = "open" /\ Done
  /\ UNCHANGED <<natsConns, nats, shares, metrics, scrapes, grpc, calls, shutdown>>

\* NotifyContext and net.Listen hold nothing that outlives the process.
Prepare(step) ==
  /\ step \in {"signals", "listen"} /\ At(step) /\ Done
  /\ UNCHANGED <<natsConns, nats, shares, servers, shutdown>>

SetupFails ==
  /\ At("sshd") \/ At("listen")
  /\ Exit(1)
  /\ UNCHANGED <<nats, shares, servers, shutdown>>

\* The goroutine that serves /metrics; a busy address is logged, no more.
ServeMetrics ==
  /\ At("metrics")
  /\ metrics' \in {"serving", "closed"} /\ Done
  /\ UNCHANGED <<natsConns, nats, shares, sshd, scrapes, grpc, calls, shutdown>>

SpawnShutdown ==
  /\ At("shutdown")
  /\ down' = "waiting" /\ Done
  /\ UNCHANGED <<natsConns, nats, shares, servers, ctx, todo>>

\* Serve refuses if GracefulStop came first: ErrServerStopped, exit code 1.
Serve ==
  /\ At("serve")
  /\ IF grpc = "none"
     THEN grpc' = "serving" /\ Done /\ UNCHANGED natsConns
     ELSE Exit(1) /\ UNCHANGED grpc
  /\ UNCHANGED <<nats, shares, sshd, metrics, scrapes, calls, shutdown>>

Serving == process = "running" /\ pos = Len(Steps) + 1

\* After GracefulStop Serve returns nil; after an Accept error, the error.
ServeReturns ==
  /\ Serving /\ grpc = "stopped"
  /\ Exit(0)
  /\ UNCHANGED <<nats, shares, servers, shutdown>>

AcceptFails ==
  /\ Serving /\ grpc = "serving"
  /\ Exit(1)
  /\ UNCHANGED <<nats, shares, servers, shutdown>>

Run ==
  \/ Skip \/ BootMounts \/ BootMountsFail \/ NoDispatcher \/ StartSSHD \/ SetupFails
  \/ ServeMetrics \/ SpawnShutdown \/ Serve \/ ServeReturns
  \/ \E part \in NatsParts : Dial(part) \/ DialFails(part)
  \/ \E step \in Always : Prepare(step)

(***************************************************************************)
(* The shutdown goroutine.                                                 *)
(***************************************************************************)
\* Faulty variant: the shares go before the connections that bring new ones.
ThenUnmountFirst == [drain |-> "unmount", unmount |-> "conns", conns |-> "sshd", sshd |-> "grpc"]

\* What follows what.
Then == [drain |-> "conns", conns |-> "sshd", sshd |-> "unmount", unmount |-> "grpc"]

Down(step) == process = "running" /\ down = step

SignalReceived ==
  /\ Down("waiting") /\ ctx = "cancelled"
  /\ down' = "drain" /\ todo' = natsConns
  /\ metrics' = IF metrics = "serving" THEN "closing" ELSE metrics
  /\ UNCHANGED <<main, nats, shares, sshd, scrapes, grpc, calls, ctx>>

\* metricsSrv.Shutdown returns when the scrapes are answered or after 5 s.
MetricsDown ==
  /\ Down("drain")
  /\ down' = Then["drain"]
  /\ metrics' = IF metrics = "closing" THEN "closed" ELSE metrics
  /\ UNCHANGED <<main, nats, shares, sshd, scrapes, grpc, calls, ctx, todo>>

\* nc.Close delivers nothing more and does not wait for a running handler.
CloseConn(part) ==
  /\ Down("conns") /\ part \in todo
  /\ conns' = conns \ {part} /\ todo' = todo \ {part}
  /\ message' = IF part = "mounts" /\ message = "handled" THEN "late" ELSE message
  /\ UNCHANGED <<main, gauge, sessions, mounted, servers, ctx, down>>

ConnsClosed ==
  /\ Down("conns") /\ todo = {}
  /\ down' = Then["conns"]
  /\ UNCHANGED <<main, nats, shares, servers, ctx, todo>>

CloseSSHD ==
  /\ Down("sshd")
  /\ down' = Then["sshd"]
  /\ sshd' = IF sshd = "open" THEN "closed" ELSE sshd
  /\ UNCHANGED <<main, nats, shares, metrics, scrapes, grpc, calls, ctx, todo>>

\* Best effort: what cannot be unmounted stays.
UnmountAll ==
  /\ Down("unmount")
  /\ down' = Then["unmount"]
  /\ mounted' \in IF mounted = "yes" THEN {"no", "stuck"} ELSE {mounted}
  /\ UNCHANGED <<main, message, nats, servers, ctx, todo>>

\* Faulty variant: the listener stays open while the calls are awaited.
GracefulStopListening ==
  /\ Down("grpc")
  /\ down' = "finish"
  /\ UNCHANGED <<main, nats, shares, servers, ctx, todo>>

\* GracefulStop takes no more calls,
GracefulStop ==
  /\ Down("grpc")
  /\ down' = "finish" /\ grpc' = "stopping"
  /\ UNCHANGED <<main, nats, shares, sshd, metrics, scrapes, calls, ctx, todo>>

\* and returns when those in flight are answered.
CallsFinished ==
  /\ Down("finish") /\ calls = 0
  /\ down' = "done" /\ grpc' = "stopped"
  /\ UNCHANGED <<main, nats, shares, sshd, metrics, scrapes, calls, ctx, todo>>

TakeDown ==
  \/ SignalReceived \/ MetricsDown \/ ConnsClosed \/ CloseSSHD \/ UnmountAll
  \/ GracefulStop \/ CallsFinished \/ \E part \in NatsParts : CloseConn(part)

(***************************************************************************)
(* Meanwhile: a signal, calls, scrapes, mount messages and exec sessions.  *)
(***************************************************************************)
\* Before NotifyContext the signal kills the process; later ones than the
\* first are swallowed.
Signal ==
  /\ process = "running" /\ ctx = "live"
  /\ IF pos > 9  \* Steps[9] = "signals"
     THEN ctx' = "cancelled" /\ UNCHANGED main
     ELSE Exit(143) /\ UNCHANGED ctx
  /\ UNCHANGED <<nats, shares, servers, down, todo>>

CallStarts ==
  /\ Serving /\ grpc = "serving" /\ calls < MaxCalls
  /\ calls' = calls + 1
  /\ UNCHANGED <<main, nats, shares, sshd, metrics, scrapes, grpc, shutdown>>

CallEnds ==
  /\ process = "running" /\ calls > 0
  /\ calls' = calls - 1
  /\ UNCHANGED <<main, nats, shares, sshd, metrics, scrapes, grpc, shutdown>>

ScrapeStarts ==
  /\ process = "running" /\ metrics = "serving" /\ scrapes < MaxCalls
  /\ scrapes' = scrapes + 1
  /\ UNCHANGED <<main, nats, shares, sshd, metrics, grpc, calls, shutdown>>

ScrapeEnds ==
  /\ process = "running" /\ scrapes > 0
  /\ scrapes' = scrapes - 1
  /\ UNCHANGED <<main, nats, shares, sshd, metrics, grpc, calls, shutdown>>

\* A message arrives; its handler mounts a share, unmounts the last one, or
\* changes nothing (Mounts has the steps).
MountMessage ==
  /\ process = "running" /\ "mounts" \in conns /\ message = "none"
  /\ message' = "handled"
  /\ UNCHANGED <<main, nats, mounted, servers, shutdown>>

MountHandled ==
  /\ process = "running" /\ message \in {"handled", "late"}
  /\ mounted' \in {"no", "yes", mounted}
  /\ message' = IF message = "late" THEN "over" ELSE "none"
  /\ UNCHANGED <<main, nats, servers, shutdown>>

SessionOpens ==
  /\ process = "running" /\ "exec" \in conns /\ sessions = "none"
  /\ sessions' = "live"
  /\ UNCHANGED <<main, conns, gauge, shares, servers, shutdown>>

SessionEnds ==
  /\ process = "running" /\ sessions = "live"
  /\ sessions' = "none"
  /\ UNCHANGED <<main, conns, gauge, shares, servers, shutdown>>

Next ==
  \/ Run \/ AcceptFails \/ TakeDown \/ Signal \/ CallStarts \/ CallEnds
  \/ ScrapeStarts \/ ScrapeEnds \/ MountMessage \/ MountHandled
  \/ SessionOpens \/ SessionEnds

Spec == Init /\ [][Next]_vars

\* Both goroutines go on, and an Introspect call, which only reads /proc, ends.
FairSpec == Spec /\ WF_vars(Run) /\ WF_vars(TakeDown) /\ WF_vars(CallEnds)

-----------------------------------------------------------------------------
(***************************************************************************)
(* Properties.                                                             *)
(***************************************************************************)
\* Exit code 0 means that the process was told to stop and has released what it
\* held by itself: every connection ever opened, also one opened while the
\* signal was pending, the SSH and metrics listeners, every share that can be
\* unmounted, also one that came with a message during the shutdown, unless its
\* handler outlived its connection; and that no call was cut off.
CleanExit ==
  (process = "exited" /\ code = 0) =>
    /\ ctx = "cancelled" /\ conns = {} /\ sshd # "open" /\ metrics # "serving"
    /\ mounted = "yes" => message = "over"
    /\ calls = 0

\* A signal that arrives after NotifyContext, during the setup too, ends the
\* process: no order of setup, calls and scrapes makes Serve and GracefulStop
\* wait for each other.
SignalEndsAgent == ctx = "cancelled" ~> process = "exited"

\* "CloseAll terminates every live session -- called on agent shutdown": none is
\* alive when the agent has shut down cleanly.
SessionsClosedOnShutdown == (process = "exited" /\ code = 0) => sessions = "none"

\* "1 if the agent currently holds a NATS connection; 0 otherwise."
GaugeTruthful == process = "running" => (gauge = 1 <=> conns # {})

\* "SIGINT / SIGTERM triggers GracefulStop on gRPC so in-flight Introspect calls
\* finish before exit": a handled signal ends in exit code 0, setup errors aside.
SignalExitsZero ==
  (process = "exited" /\ ctx = "cancelled" /\ down = "done") => code = 0
=============================================================================

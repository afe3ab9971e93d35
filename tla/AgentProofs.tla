----------------------------- MODULE AgentProofs -----------------------------
(***************************************************************************)
(* Invariance proofs for Agent: for every combination of flags, any number *)
(* of calls and scrapes, and a signal at any step; and for FirewallStatus, *)
(* the emitter the agent runs: for any number of drops, rebuilds and       *)
(* failed readings.                                                        *)
(***************************************************************************)
EXTENDS Agent, FirewallStatus, TLAPS

\* The shutdown goroutine exists once run() has passed everything that can open
\* a connection or a listener; and what the gRPC server does follows its steps.
GoroutineInv ==
  /\ down # "none" <=> pos > 14
  /\ down \notin {"none", "waiting"} => ctx = "cancelled"
  /\ grpc = "stopping" => down = "finish"
  /\ grpc = "stopped" => down = "done"
  /\ process = "exited" /\ code = 0 => grpc = "stopped"

\* natsConns has every open connection, and a message is handled on one.
ConnInv ==
  /\ conns \subseteq natsConns
  /\ message = "handled" => "mounts" \in conns

\* What is released at each step of the shutdown.
ReleaseInv ==
  /\ down \in {"drain", "conns"} => conns \subseteq todo
  /\ down \notin {"none", "waiting"} => metrics # "serving"
  /\ down \in {"sshd", "unmount", "grpc", "finish", "done"} => conns = {}
  /\ down \in {"unmount", "grpc", "finish", "done"} => sshd # "open"
  /\ down \in {"grpc", "finish", "done"} => (mounted = "yes" => message = "over")
  /\ down = "done" => calls = 0 /\ grpc = "stopped"

IInv == TypeOK /\ GoroutineInv /\ ConnInv /\ ReleaseInv

\* Where the steps of run() are: the last two start the shutdown goroutine and
\* serve; what opens something comes before.
LEMMA StepOrder ==
  ASSUME NEW i \in 1..15
  PROVE  /\ Steps[i] \in NatsParts \cup {"bootmounts", "sshd", "metrics", "signals", "listen"} => i <= 13
         /\ i = 14 <=> Steps[i] = "shutdown"
         /\ Steps[i] = "serve" => i = 15
  BY DEF Steps, NatsParts

LEMMA StepCount == Len(Steps) = 15
  BY DEF Steps

LEMMA InitHolds == Init => IInv
<1> SUFFICES ASSUME Init PROVE IInv
  OBVIOUS
<1>1. TypeOK
  BY StepCount, AgentAssumption DEF Init, TypeOK
<1>2. GoroutineInv /\ ConnInv /\ ReleaseInv
  BY DEF Init, GoroutineInv, ConnInv, ReleaseInv
<1> QED BY <1>1, <1>2 DEF IInv

\* Each step of run(), of the shutdown goroutine and of their environment.
LEMMA StepPreserves == IInv /\ [Next]_vars => IInv'
<1> SUFFICES ASSUME IInv, [Next]_vars PROVE IInv'
  OBVIOUS
<1> USE DEF IInv, TypeOK, GoroutineInv, ConnInv, ReleaseInv
<1>0. /\ Len(Steps) = 15
      /\ \A part \in NatsParts \cup {"bootmounts", "sshd", "metrics", "signals", "listen"} :
           At(part) => pos <= 13
      /\ At("shutdown") => pos = 14
      /\ At("serve") => pos = 15
      /\ Skip => pos # 14
  <2>1. pos <= 15 => pos \in 1..15
    BY StepCount
  <2>2. Skip => pos # 14
    BY <2>1, StepCount, StepOrder DEF Skip, Always
  <2> QED BY <2>1, <2>2, StepCount, StepOrder DEF At
<1> USE <1>0 DEF main, nats, shares, servers, shutdown
<1>1. CASE Skip
  BY <1>1 DEF Skip, Done
<1>2. CASE BootMounts
  BY <1>2 DEF BootMounts, At, Done
<1>3. CASE BootMountsFail
  BY <1>3 DEF BootMountsFail, At, Exit
<1>4. CASE NoDispatcher
  <2>1. pos <= 13
    BY <1>4 DEF NoDispatcher, NatsParts
  <2> QED BY <1>4, <2>1 DEF NoDispatcher, At, Done
<1>5. CASE StartSSHD
  BY <1>5 DEF StartSSHD, At, Done
<1>6. CASE SetupFails
  BY <1>6 DEF SetupFails, At, Exit
<1>7. CASE ServeMetrics
  BY <1>7 DEF ServeMetrics, At, Done
<1>8. CASE SpawnShutdown
  BY <1>8 DEF SpawnShutdown, At, Done
<1>9. CASE Serve
  BY <1>9 DEF Serve, At, Done, Exit
<1>10. CASE ServeReturns
  BY <1>10 DEF ServeReturns, Serving, Exit
<1>11. CASE AcceptFails
  BY <1>11 DEF AcceptFails, Serving, Exit
<1>12. ASSUME NEW part \in NatsParts, Dial(part) \/ DialFails(part) PROVE IInv'
  BY <1>12, AgentAssumption DEF Dial, DialFails, At, Done, Exit, NatsParts, Always
<1>13. ASSUME NEW step \in Always, Prepare(step) PROVE IInv'
  <2>1. pos <= 13
    BY <1>13 DEF Prepare
  <2> QED BY <1>13, <2>1 DEF Prepare, At, Done
<1>14. CASE SignalReceived
  BY <1>14 DEF SignalReceived, Down, Then
<1>15. CASE MetricsDown
  BY <1>15 DEF MetricsDown, Down, Then
<1>16. CASE ConnsClosed
  BY <1>16 DEF ConnsClosed, Down, Then
<1>17. CASE CloseSSHD
  BY <1>17 DEF CloseSSHD, Down, Then
<1>18. CASE UnmountAll
  BY <1>18 DEF UnmountAll, Down, Then
<1>19. CASE GracefulStop
  BY <1>19 DEF GracefulStop, Down, Then
<1>20. CASE CallsFinished
  BY <1>20 DEF CallsFinished, Down, Then
<1>21. ASSUME NEW part \in NatsParts, CloseConn(part) PROVE IInv'
  BY <1>21 DEF CloseConn, Down
<1>22. CASE Signal
  BY <1>22 DEF Signal, Exit
<1>23. CASE CallStarts \/ CallEnds \/ ScrapeStarts \/ ScrapeEnds
  BY <1>23, AgentAssumption DEF CallStarts, CallEnds, ScrapeStarts, ScrapeEnds, Serving
<1>24. CASE MountMessage \/ MountHandled
  BY <1>24 DEF MountMessage, MountHandled
<1>25. CASE SessionOpens \/ SessionEnds
  BY <1>25 DEF SessionOpens, SessionEnds
<1>26. CASE UNCHANGED vars
  BY <1>26 DEF vars
<1> QED BY <1>1, <1>2, <1>3, <1>4, <1>5, <1>6, <1>7, <1>8, <1>9, <1>10, <1>11, <1>12,
            <1>13, <1>14, <1>15, <1>16, <1>17, <1>18, <1>19, <1>20, <1>21, <1>22, <1>23,
            <1>24, <1>25, <1>26, Zenon
         DEF Next, Run, TakeDown

LEMMA Invariant == Spec => []IInv
BY InitHolds, StepPreserves, PTL DEF Spec

\* The variables keep their types, whatever the flags and the number of calls.
THEOREM TypeCorrect == Spec => []TypeOK
<1>1. IInv => TypeOK
  BY DEF IInv
<1> QED BY <1>1, Invariant, PTL

\* Exit code 0 of run() means that the shutdown goroutine released everything:
\* whatever was enabled, and whenever the signal came.
THEOREM ExitIsClean == Spec => []CleanExit
<1>1. IInv => CleanExit
  BY DEF IInv, TypeOK, GoroutineInv, ReleaseInv, CleanExit
<1> QED BY <1>1, Invariant, PTL

\* A process that was told to stop never waits for something that does not come:
\* run() has a step to take, the shutdown goroutine has one, Serve can return, or a
\* call is in flight, whose end the shutdown then awaits.
SignalledNeverStuck ==
  (process = "running" /\ ctx = "cancelled") =>
    \/ pos <= Len(Steps)
    \/ down \in {"waiting", "drain", "conns", "sshd", "unmount", "grpc"}
    \/ down = "finish" /\ calls = 0
    \/ pos = Len(Steps) + 1 /\ grpc = "stopped"
    \/ calls > 0

\* SignalledNeverStuck holds, the part of SignalEndsAgent that is about safety: the
\* goroutine that stops Serve is there before Serve is called, and when it has ended
\* the server has been stopped.
THEOREM NeverStuck == Spec => []SignalledNeverStuck
<1>1. IInv => SignalledNeverStuck
  BY StepCount DEF IInv, TypeOK, GoroutineInv, ReleaseInv, SignalledNeverStuck
<1> QED BY <1>1, Invariant, PTL

-----------------------------------------------------------------------------
(***************************************************************************)
(* FirewallStatus.                                                         *)
(***************************************************************************)
\* What the counter will be once the reading at hand is recorded.
Recorded == metric + (status.drops - (IF status.drops < lastPkt THEN 0 ELSE lastPkt))

\* What may be counted by now.
Limit == seen + failures * MaxDrops

\* The counter stays below the limit also if the part of the current table that
\* was read and not kept in lastPkt, after a failed reading, is counted again;
\* and a lastPkt above the current table's readings belongs to an older table.
CountInv ==
  /\ peak <= kernel
  /\ epc # "record" => /\ metric <= Limit /\ metric + peak <= Limit + lastPkt
                       /\ lastPkt <= peak \/ peak = 0
  /\ epc = "record" => /\ Recorded <= Limit /\ Recorded + peak <= Limit + status.drops
                       /\ status.drops <= peak \/ peak = 0

\* The first table: nothing is counted before it exists, and then every reading
\* continues the last one.
FirstTableInv ==
  /\ rebuilds = 0 => table = "absent" /\ kernel = 0
  /\ (rebuilds <= 1 /\ failures = 0) =>
       /\ seen = peak /\ metric = lastPkt
       /\ epc # "record" => lastPkt = peak
       /\ epc = "record" => status.drops = peak /\ lastPkt <= peak

StatusInv == StatusTypeOK /\ CountInv /\ FirstTableInv

LEMMA StatusInitHolds == StatusInit => StatusInv
<1> SUFFICES ASSUME StatusInit PROVE StatusInv
  OBVIOUS
<1>1. StatusTypeOK
  BY FirewallAssumption DEF StatusInit, StatusTypeOK, Statuses, Idle
<1>2. CountInv
  BY FirewallAssumption DEF StatusInit, CountInv, Limit
<1>3. FirstTableInv
  BY DEF StatusInit, FirstTableInv
<1> QED BY <1>1, <1>2, <1>3 DEF StatusInv

\* Each failed reading raises the limit by the largest reading there can be.
LEMMA LimitGrows ==
  ASSUME NEW n \in Nat, NEW m \in Nat
  PROVE  n * m \in Nat /\ (n + 1) * m = n * m + m
  OBVIOUS

LEMMA StatusStepPreserves == StatusInv /\ [StatusNext]_statusVars => StatusInv'
<1> SUFFICES ASSUME StatusInv, [StatusNext]_statusVars PROVE StatusInv'
  OBVIOUS
<1> USE FirewallAssumption DEF StatusInv, StatusTypeOK, Statuses
<1>0. failures * MaxDrops \in Nat /\ (failures + 1) * MaxDrops = failures * MaxDrops + MaxDrops
  BY LimitGrows
<1>1. CASE KernelDrops
  BY <1>0, <1>1 DEF KernelDrops, CountInv, FirstTableInv, Limit, Recorded
<1>2. CASE ApplyFirewall
  BY <1>0, <1>2 DEF ApplyFirewall, CountInv, FirstTableInv, Limit, Recorded
<1>3. CASE ReadStatus
  <2>1. StatusTypeOK'
    BY <1>3 DEF ReadStatus, CountInv
  <2>2. CountInv'
    BY <1>0, <1>3 DEF ReadStatus, CountInv, Limit, Recorded
  <2>3. FirstTableInv'
    BY <1>3 DEF ReadStatus, CountInv, FirstTableInv
  <2> QED BY <2>1, <2>2, <2>3
<1>4. CASE RecordFirewallDrops
  BY <1>0, <1>4 DEF RecordFirewallDrops, CountInv, FirstTableInv, Limit, Recorded
<1>5. CASE Publish \/ Select \/ Cancel
  BY <1>0, <1>5 DEF Publish, Select, Cancel, CountInv, FirstTableInv, Limit, Recorded
<1>6. CASE UNCHANGED statusVars
  BY <1>6 DEF statusVars, CountInv, FirstTableInv, Limit, Recorded
<1> QED BY <1>1, <1>2, <1>3, <1>4, <1>5, <1>6 DEF StatusNext, Emitter

LEMMA StatusInvariant == StatusSpec => []StatusInv
BY StatusInitHolds, StatusStepPreserves, PTL DEF StatusSpec

\* The variables keep their types, whatever the bounds.
THEOREM StatusTypeCorrect == StatusSpec => []StatusTypeOK
<1>1. StatusInv => StatusTypeOK
  BY DEF StatusInv
<1> QED BY <1>1, StatusInvariant, PTL

\* RecordFirewallDrops counts no drop twice, however readings, recordings, table
\* rebuilds and failed readings are ordered.
THEOREM CountSound == StatusSpec => []NeverOvercounts
<1>1. StatusInv => NeverOvercounts
  <2> SUFFICES ASSUME StatusInv PROVE NeverOvercounts
    OBVIOUS
  <2>1. failures * MaxDrops \in Nat
    BY LimitGrows, FirewallAssumption DEF StatusInv, StatusTypeOK
  <2> QED BY <2>1, FirewallAssumption DEF StatusInv, StatusTypeOK, Statuses, CountInv, Limit, Recorded, NeverOvercounts
<1> QED BY <1>1, StatusInvariant, PTL

\* Until a second table is installed or a reading fails, RecordFirewallDrops has
\* counted exactly what the emitter read.
THEOREM CountExact == StatusSpec => []ExactWithoutRebuild
<1>1. StatusInv => ExactWithoutRebuild
  BY DEF StatusInv, FirstTableInv, ExactWithoutRebuild
<1> QED BY <1>1, StatusInvariant, PTL
==============================================================================

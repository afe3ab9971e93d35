---------------------------- MODULE MountsProofs ----------------------------
(***************************************************************************)
(* The registry of cfs-clients: for any set of shares and mount points,    *)
(* any boot file, any number of messages, clients and restarts.            *)
(***************************************************************************)
EXTENDS Mounts, FiniteSetTheorems, TLAPS

Types ==
  /\ phase \in {"boot", "run", "stopping", "stopped", "exited", "down"}
  /\ booted \in 0..Len(BootSpecs)
  /\ retained \in Specs \cup {NoSpec} /\ queue \in Seq(Specs) /\ msg \in Specs \cup {NoSpec}
  /\ spec \in ShareMounts \cup {NoSpec}
  /\ holder \in {"none", "boot", "handler", "stop"}
  /\ apc \in {"idle", "existing", "reap", "spawn", "wait", "timeout", "all"}
  /\ cid \in 0..MaxClients /\ base \in 0..cid
  /\ active \in [Ids -> 0..cid]
  /\ proc \in [Clients -> {"none", "running", "mounted", "dead"}]
  /\ serves \in [Clients -> ShareMounts \cup {NoSpec}]
  /\ result \in [Ids -> {"none", "mount", "unmount", "failed"}]

\* Who holds the mutex, and where they are.
LockInv ==
  /\ holder = "none" <=> apc = "idle"
  /\ holder = "stop" <=> apc = "all"
  /\ spec = NoSpec <=> apc \in {"idle", "all"}
  /\ holder = "boot" => phase = "boot" /\ booted < Len(BootSpecs)
  /\ holder = "handler" => msg # NoSpec
  /\ holder = "stop" => phase = "stopping"

\* Clients are numbered in the order they are started; what Apply knows of the
\* entry and of the client of the share it works on.
ClientInv ==
  /\ \A c \in Clients : c > cid => proc[c] = "none"
  /\ AgentUp => /\ apc = "reap" => active[spec.id] # 0
                /\ apc \in {"spawn", "wait", "timeout"} => active[spec.id] = 0
                /\ apc \in {"wait", "timeout"} => cid > 0 /\ serves[cid] = spec

\* After UnmountAll only the message that was in the handler can start a client.
StopInv ==
  /\ phase \in {"stopped", "exited"} => \A c \in Clients : Mine(c) => c = cid
  /\ phase = "stopped" =>
       /\ apc # "reap"
       /\ (apc = "idle" /\ msg # NoSpec) \/ apc \in {"existing", "spawn"} =>
            /\ \A c \in Clients : ~Mine(c)
            /\ \A id \in Ids : active[id] = 0

IInv == Types /\ (AgentUp => LockInv) /\ ClientInv /\ NoClientLeaks /\ RegistryAgrees /\ StopInv

LEMMA InitHolds == Init => IInv
<1> SUFFICES ASSUME Init PROVE IInv
  OBVIOUS
<1>1. Types /\ LockInv
  BY MountsAssumption DEF Init, Types, LockInv, Clients
<1>2. ClientInv /\ NoClientLeaks /\ RegistryAgrees /\ StopInv
  BY DEF Init, ClientInv, NoClientLeaks, RegistryAgrees, StopInv, Mine, Alive
<1> QED BY <1>1, <1>2 DEF IInv

\* Every step of Apply under the mutex, of the agent and of its environment.
LEMMA StepPreserves == IInv /\ [Next]_vars => IInv'
<1> SUFFICES ASSUME IInv, [Next]_vars PROVE IInv'
  OBVIOUS
<1>a. /\ Specs \subseteq ShareMounts /\ BootSpecs \in Seq(ShareMounts) /\ NoSpec \notin ShareMounts
      /\ MaxClients \in Nat
  BY MountsAssumption
<1> USE <1>a
<1> USE DEF IInv, Types, AgentUp, Mine, Alive, Clients, agentVars, busVars, lockVars, procVars
<1>0. AgentUp /\ apc \notin {"idle", "all"} => spec \in ShareMounts /\ spec.id \in Ids
  BY DEF LockInv, ShareMounts
<1>1. CASE AgentUp /\ UnmountExisting
  <2>1. Types'
    BY <1>0, <1>1 DEF UnmountExisting, Return, Goto, LockInv, ClientInv
  <2>2. (AgentUp => LockInv)'
    BY <1>0, <1>1 DEF UnmountExisting, Return, Goto, LockInv
  <2>3. ClientInv'
    BY <1>0, <1>1 DEF UnmountExisting, Return, Goto, ClientInv
  <2>4. NoClientLeaks'
    BY <1>0, <1>1 DEF UnmountExisting, Return, Goto, NoClientLeaks, ClientInv, LockInv
  <2>5. RegistryAgrees'
    BY <1>0, <1>1, Zenon DEF UnmountExisting, Return, Goto, RegistryAgrees, ClientInv, LockInv
  <2>6. StopInv'
    BY <1>0, <1>1 DEF UnmountExisting, Return, Goto, StopInv, NoClientLeaks, ClientInv, LockInv
  <2> QED BY <2>1, <2>2, <2>3, <2>4, <2>5, <2>6
<1>2. CASE AgentUp /\ ReapExisting
  <2>1. Types'
    <3>1. active[spec.id] \in Clients /\ active[spec.id] \in 0..cid
      BY <1>0, <1>2 DEF ReapExisting, ClientInv
    <3>2. proc' \in [Clients -> {"none", "running", "mounted", "dead"}] /\ active' \in [Ids -> 0..cid]
      BY <1>0, <1>2, <3>1 DEF ReapExisting
    <3>3. UNCHANGED <<cid, base, serves, retained, queue>>
      BY <1>2 DEF ReapExisting, Return, Goto
    <3>4. \/ apc' = "spawn" /\ UNCHANGED <<phase, booted, msg, spec, holder, result>>
          \/ \E r \in {"failed", "unmount"} : Return(r)
      BY <1>2 DEF ReapExisting, Goto
    <3>5. ASSUME NEW r \in {"failed", "unmount"}, Return(r)
          PROVE  /\ phase' \in {phase, "down"} /\ booted' \in 0..Len(BootSpecs)
                 /\ msg' \in {msg, NoSpec} /\ spec' = NoSpec /\ holder' = "none" /\ apc' = "idle"
                 /\ result' \in [Ids -> {"none", "mount", "unmount", "failed"}]
      BY <1>0, <1>2, <3>5 DEF ReapExisting, Return, LockInv
    <3> QED BY <3>2, <3>3, <3>4, <3>5
  <2>2. (AgentUp => LockInv)'
    BY <1>0, <1>2 DEF ReapExisting, Return, Goto, LockInv
  <2>3. ClientInv'
    BY <1>0, <1>2 DEF ReapExisting, Return, Goto, ClientInv
  <2>4. NoClientLeaks'
    BY <1>0, <1>2 DEF ReapExisting, Return, Goto, NoClientLeaks, ClientInv, LockInv
  <2>5. RegistryAgrees'
    BY <1>0, <1>2 DEF ReapExisting, Return, Goto, RegistryAgrees, ClientInv, LockInv
  <2>6. StopInv'
    BY <1>0, <1>2 DEF ReapExisting, Return, Goto, StopInv, NoClientLeaks, ClientInv, LockInv
  <2> QED BY <2>1, <2>2, <2>3, <2>4, <2>5, <2>6
<1>3. CASE AgentUp /\ StartClient
  <2>1. Types'
    <3>1. CASE Return("failed") /\ UNCHANGED procVars
      BY <1>0, <1>3, <3>1 DEF StartClient, Return, LockInv
    <3>2. CASE cid < MaxClients /\ cid' = cid + 1
      BY <1>0, <1>3, <3>2 DEF StartClient, Return, Goto
    <3> QED BY <1>3, <3>1, <3>2 DEF StartClient
  <2>2. (AgentUp => LockInv)'
    BY <1>0, <1>3 DEF StartClient, Return, Goto, LockInv
  <2>3. ClientInv'
    BY <1>0, <1>3 DEF StartClient, Return, Goto, ClientInv
  <2>4. NoClientLeaks'
    BY <1>0, <1>3 DEF StartClient, Return, Goto, NoClientLeaks, ClientInv, LockInv
  <2>5. RegistryAgrees'
    BY <1>0, <1>3 DEF StartClient, Return, Goto, RegistryAgrees, ClientInv, LockInv
  <2>6. StopInv'
    BY <1>0, <1>3, Zenon DEF StartClient, Return, Goto, StopInv, NoClientLeaks, ClientInv, LockInv
  <2> QED BY <2>1, <2>2, <2>3, <2>4, <2>5, <2>6
<1>4. CASE AgentUp /\ WaitMounted
  <2>1. Types'
    <3>1. CASE table[spec.point] # <<>>
      <4>0. /\ active' = [active EXCEPT ![spec.id] = cid] /\ Return("mount")
            /\ spec.id \in Ids /\ UNCHANGED procVars
        BY <1>0, <1>4, <3>1 DEF WaitMounted
      <4>1. active' \in [Ids -> 0..cid]
        BY <4>0
      <4> QED BY <1>4, <4>0, <4>1 DEF Return, LockInv
    <3>2. CASE table[spec.point] = <<>>
      BY <1>4, <3>2 DEF WaitMounted, Goto
    <3> QED BY <3>1, <3>2
  <2>2. (AgentUp => LockInv)'
    BY <1>0, <1>4 DEF WaitMounted, Return, Goto, LockInv
  <2>3. ClientInv'
    BY <1>0, <1>4 DEF WaitMounted, Return, Goto, ClientInv
  <2>4. NoClientLeaks'
    BY <1>0, <1>4 DEF WaitMounted, Return, Goto, NoClientLeaks, ClientInv, LockInv
  <2>5. RegistryAgrees'
    <3>1. CASE Goto("timeout") /\ UNCHANGED active
      BY <1>4, <3>1 DEF WaitMounted, Goto, RegistryAgrees
    <3>2. CASE active' = [active EXCEPT ![spec.id] = cid] /\ Return("mount")
      <4>1. /\ cid # 0 /\ serves[cid].id = spec.id /\ active'[spec.id] = cid /\ UNCHANGED serves
            /\ result' = [result EXCEPT ![spec.id] = "mount"]
        BY <1>0, <1>4, <3>2 DEF WaitMounted, Return, ClientInv
      <4>2. \A id \in Ids : id # spec.id => active'[id] = active[id] /\ result'[id] = result[id]
        BY <3>2, <4>1
      <4> QED BY <1>0, <1>4, <4>1, <4>2 DEF RegistryAgrees
    <3> QED BY <1>4, <3>1, <3>2, Zenon DEF WaitMounted
  <2>6. StopInv'
    BY <1>0, <1>4 DEF WaitMounted, Return, Goto, StopInv, NoClientLeaks, ClientInv, LockInv
  <2> QED BY <2>1, <2>2, <2>3, <2>4, <2>5, <2>6
<1>5. CASE AgentUp /\ KillLateClient
  <2>1. Types'
    BY <1>0, <1>5 DEF KillLateClient, Return, LockInv, ClientInv
  <2>2. (AgentUp => LockInv)'
    BY <1>0, <1>5 DEF KillLateClient, Return, LockInv
  <2>3. ClientInv'
    BY <1>0, <1>5 DEF KillLateClient, Return, ClientInv
  <2>4. NoClientLeaks'
    BY <1>0, <1>5 DEF KillLateClient, Return, NoClientLeaks, ClientInv, LockInv
  <2>5. RegistryAgrees'
    BY <1>0, <1>5 DEF KillLateClient, Return, RegistryAgrees, ClientInv, LockInv
  <2>6. StopInv'
    BY <1>0, <1>5 DEF KillLateClient, Return, StopInv, NoClientLeaks, ClientInv, LockInv
  <2> QED BY <2>1, <2>2, <2>3, <2>4, <2>5, <2>6
<1>6. CASE AgentUp /\ BootMount
  <2>1. Types'
    BY <1>0, <1>6 DEF BootMount, Lock, LockInv, ClientInv
  <2>2. (AgentUp => LockInv)'
    BY <1>0, <1>6 DEF BootMount, Lock, LockInv
  <2>3. ClientInv'
    BY <1>0, <1>6 DEF BootMount, Lock, ClientInv
  <2>4. NoClientLeaks'
    BY <1>0, <1>6 DEF BootMount, Lock, NoClientLeaks, ClientInv, LockInv
  <2>5. RegistryAgrees'
    BY <1>0, <1>6 DEF BootMount, Lock, RegistryAgrees, ClientInv, LockInv
  <2>6. StopInv'
    BY <1>0, <1>6 DEF BootMount, Lock, StopInv, NoClientLeaks, ClientInv, LockInv
  <2> QED BY <2>1, <2>2, <2>3, <2>4, <2>5, <2>6
<1>7. CASE AgentUp /\ Subscribe
  <2>1. Types'
    <3>1. queue' \in Seq(Specs)
      <4>1. <<>> \in Seq(Specs) /\ (retained # NoSpec => <<retained>> \in Seq(Specs))
        OBVIOUS
      <4> QED BY <1>7, <4>1, Zenon DEF Subscribe
    <3> QED BY <1>7, <3>1 DEF Subscribe
  <2>2. (AgentUp => LockInv)'
    BY <1>0, <1>7 DEF Subscribe, LockInv
  <2>3. ClientInv'
    BY <1>0, <1>7 DEF Subscribe, ClientInv
  <2>4. NoClientLeaks'
    BY <1>0, <1>7 DEF Subscribe, NoClientLeaks, ClientInv, LockInv
  <2>5. RegistryAgrees'
    BY <1>0, <1>7 DEF Subscribe, RegistryAgrees, ClientInv, LockInv
  <2>6. StopInv'
    BY <1>0, <1>7 DEF Subscribe, StopInv, NoClientLeaks, ClientInv, LockInv
  <2> QED BY <2>1, <2>2, <2>3, <2>4, <2>5, <2>6
<1>8. CASE AgentUp /\ Receive
  <2>1. Types'
    BY <1>0, <1>8 DEF Receive, LockInv, ClientInv
  <2>2. (AgentUp => LockInv)'
    BY <1>0, <1>8 DEF Receive, LockInv
  <2>3. ClientInv'
    BY <1>0, <1>8 DEF Receive, ClientInv
  <2>4. NoClientLeaks'
    BY <1>0, <1>8 DEF Receive, NoClientLeaks, ClientInv, LockInv
  <2>5. RegistryAgrees'
    BY <1>0, <1>8 DEF Receive, RegistryAgrees, ClientInv, LockInv
  <2>6. StopInv'
    BY <1>0, <1>8 DEF Receive, StopInv, NoClientLeaks, ClientInv, LockInv
  <2> QED BY <2>1, <2>2, <2>3, <2>4, <2>5, <2>6
<1>9. CASE AgentUp /\ HandleMessage
  <2>1. Types'
    BY <1>0, <1>9 DEF HandleMessage, Lock, LockInv, ClientInv
  <2>2. (AgentUp => LockInv)'
    BY <1>0, <1>9 DEF HandleMessage, Lock, LockInv
  <2>3. ClientInv'
    BY <1>0, <1>9 DEF HandleMessage, Lock, ClientInv
  <2>4. NoClientLeaks'
    BY <1>0, <1>9 DEF HandleMessage, Lock, NoClientLeaks, ClientInv, LockInv
  <2>5. RegistryAgrees'
    BY <1>0, <1>9 DEF HandleMessage, Lock, RegistryAgrees, ClientInv, LockInv
  <2>6. StopInv'
    BY <1>0, <1>9 DEF HandleMessage, Lock, StopInv, NoClientLeaks, ClientInv, LockInv
  <2> QED BY <2>1, <2>2, <2>3, <2>4, <2>5, <2>6
<1>10. CASE AgentUp /\ LockAll
  <2>1. Types'
    BY <1>0, <1>10 DEF LockAll, LockInv, ClientInv
  <2>2. (AgentUp => LockInv)'
    BY <1>0, <1>10 DEF LockAll, LockInv
  <2>3. ClientInv'
    BY <1>0, <1>10 DEF LockAll, ClientInv
  <2>4. NoClientLeaks'
    BY <1>0, <1>10 DEF LockAll, NoClientLeaks, ClientInv, LockInv
  <2>5. RegistryAgrees'
    BY <1>0, <1>10 DEF LockAll, RegistryAgrees, ClientInv, LockInv
  <2>6. StopInv'
    BY <1>0, <1>10 DEF LockAll, StopInv, NoClientLeaks, ClientInv, LockInv
  <2> QED BY <2>1, <2>2, <2>3, <2>4, <2>5, <2>6
<1>11. CASE AgentUp /\ (\E id \in Ids : UnmountOne(id))
  <2>1. Types'
    BY <1>0, <1>11 DEF UnmountOne, LockInv, ClientInv
  <2>2. (AgentUp => LockInv)'
    BY <1>0, <1>11 DEF UnmountOne, LockInv
  <2>3. ClientInv'
    BY <1>0, <1>11 DEF UnmountOne, ClientInv
  <2>4. NoClientLeaks'
    BY <1>0, <1>11 DEF UnmountOne, NoClientLeaks, ClientInv, LockInv
  <2>5. RegistryAgrees'
    BY <1>0, <1>11 DEF UnmountOne, RegistryAgrees, ClientInv, LockInv
  <2>6. StopInv'
    BY <1>0, <1>11 DEF UnmountOne, StopInv, NoClientLeaks, ClientInv, LockInv
  <2> QED BY <2>1, <2>2, <2>3, <2>4, <2>5, <2>6
<1>12. CASE AgentUp /\ UnmountAllDone
  <2>1. Types'
    BY <1>0, <1>12 DEF UnmountAllDone, LockInv, ClientInv
  <2>2. (AgentUp => LockInv)'
    BY <1>0, <1>12 DEF UnmountAllDone, LockInv
  <2>3. ClientInv'
    BY <1>0, <1>12 DEF UnmountAllDone, ClientInv
  <2>4. NoClientLeaks'
    BY <1>0, <1>12 DEF UnmountAllDone, NoClientLeaks, ClientInv, LockInv
  <2>5. RegistryAgrees'
    BY <1>0, <1>12 DEF UnmountAllDone, RegistryAgrees, ClientInv, LockInv
  <2>6. StopInv'
    BY <1>0, <1>12 DEF UnmountAllDone, StopInv, NoClientLeaks, ClientInv, LockInv
  <2> QED BY <2>1, <2>2, <2>3, <2>4, <2>5, <2>6
<1>13. CASE AgentUp /\ Exit
  <2>1. Types'
    BY <1>0, <1>13 DEF Exit, LockInv, ClientInv
  <2>2. (AgentUp => LockInv)'
    BY <1>0, <1>13 DEF Exit, LockInv
  <2>3. ClientInv'
    BY <1>0, <1>13 DEF Exit, ClientInv
  <2>4. NoClientLeaks'
    BY <1>0, <1>13 DEF Exit, NoClientLeaks, ClientInv, LockInv
  <2>5. RegistryAgrees'
    BY <1>0, <1>13 DEF Exit, RegistryAgrees, ClientInv, LockInv
  <2>6. StopInv'
    BY <1>0, <1>13 DEF Exit, StopInv, NoClientLeaks, ClientInv, LockInv
  <2> QED BY <2>1, <2>2, <2>3, <2>4, <2>5, <2>6
<1>14. CASE \E c \in Clients : ClientMounts(c) \/ ClientDies(c)
  <2>0. PICK c \in Clients, l \in {"mounted", "dead"} : Alive(c) /\ proc' = [proc EXCEPT ![c] = l]
    BY <1>14, Zenon DEF ClientMounts, ClientDies
  <2>a. UNCHANGED <<agentVars, busVars, lockVars, active, cid, base, serves, result>>
    BY <1>14, Zenon DEF ClientMounts, ClientDies
  <2>1. Types'
    BY <2>0, <2>a
  <2>2. (AgentUp => LockInv)'
    BY <2>a DEF LockInv
  <2>3. ClientInv'
    BY <2>0, <2>a DEF ClientInv
  <2>4. NoClientLeaks'
    BY <2>0, <2>a DEF NoClientLeaks
  <2>5. RegistryAgrees'
    BY <2>0, <2>a DEF RegistryAgrees
  <2>6. StopInv'
    BY <2>0, <2>a DEF StopInv
  <2> QED BY <2>1, <2>2, <2>3, <2>4, <2>5, <2>6
<1>15. CASE (\E s \in Specs : Publish(s))
  <2>1. Types'
    BY <1>0, <1>15 DEF Publish, LockInv, ClientInv
  <2>2. (AgentUp => LockInv)'
    BY <1>0, <1>15 DEF Publish, LockInv
  <2>3. ClientInv'
    BY <1>0, <1>15 DEF Publish, ClientInv
  <2>4. NoClientLeaks'
    BY <1>0, <1>15 DEF Publish, NoClientLeaks, ClientInv, LockInv
  <2>5. RegistryAgrees'
    BY <1>0, <1>15 DEF Publish, RegistryAgrees, ClientInv, LockInv
  <2>6. StopInv'
    BY <1>0, <1>15 DEF Publish, StopInv, NoClientLeaks, ClientInv, LockInv
  <2> QED BY <2>1, <2>2, <2>3, <2>4, <2>5, <2>6
<1>16. CASE CloseConns
  <2>1. Types'
    BY <1>0, <1>16 DEF CloseConns, LockInv, ClientInv
  <2>2. (AgentUp => LockInv)'
    BY <1>0, <1>16 DEF CloseConns, LockInv
  <2>3. ClientInv'
    BY <1>0, <1>16 DEF CloseConns, ClientInv
  <2>4. NoClientLeaks'
    BY <1>0, <1>16 DEF CloseConns, NoClientLeaks, ClientInv, LockInv
  <2>5. RegistryAgrees'
    BY <1>0, <1>16 DEF CloseConns, RegistryAgrees, ClientInv, LockInv
  <2>6. StopInv'
    BY <1>0, <1>16 DEF CloseConns, StopInv, NoClientLeaks, ClientInv, LockInv
  <2> QED BY <2>1, <2>2, <2>3, <2>4, <2>5, <2>6
<1>17. CASE Crash
  <2>1. Types'
    BY <1>0, <1>17 DEF Crash, LockInv, ClientInv
  <2>2. (AgentUp => LockInv)'
    BY <1>0, <1>17 DEF Crash, LockInv
  <2>3. ClientInv'
    BY <1>0, <1>17 DEF Crash, ClientInv
  <2>4. NoClientLeaks'
    BY <1>0, <1>17 DEF Crash, NoClientLeaks, ClientInv, LockInv
  <2>5. RegistryAgrees'
    BY <1>0, <1>17 DEF Crash, RegistryAgrees, ClientInv, LockInv
  <2>6. StopInv'
    BY <1>0, <1>17 DEF Crash, StopInv, NoClientLeaks, ClientInv, LockInv
  <2> QED BY <2>1, <2>2, <2>3, <2>4, <2>5, <2>6
<1>18. CASE (\E reboot \in BOOLEAN : Restart(reboot))
  <2>1. Types'
    BY <1>0, <1>18 DEF Restart, LockInv, ClientInv
  <2>2. (AgentUp => LockInv)'
    BY <1>0, <1>18 DEF Restart, LockInv
  <2>3. ClientInv'
    <3>0. \/ UNCHANGED proc
          \/ proc' = [c \in Clients |-> IF Alive(c) THEN "dead" ELSE proc[c]]
      BY <1>18, Zenon DEF Restart
    <3>1. \A c \in Clients : proc'[c] = proc[c] \/ (proc'[c] = "dead" /\ Alive(c))
      BY <3>0
    <3>2. UNCHANGED cid /\ apc' = "idle"
      BY <1>18 DEF Restart
    <3> QED BY <3>1, <3>2, Zenon DEF ClientInv
  <2>4. NoClientLeaks'
    <3>1. base' = cid /\ \A c \in Clients : c > cid => ~(Alive(c)')
      BY <1>18, <2>3 DEF Restart, ClientInv
    <3> QED BY <3>1 DEF NoClientLeaks
  <2>5. RegistryAgrees'
    BY <1>0, <1>18 DEF Restart, RegistryAgrees, ClientInv, LockInv
  <2>6. StopInv'
    BY <1>0, <1>18 DEF Restart, StopInv, NoClientLeaks, ClientInv, LockInv
  <2> QED BY <2>1, <2>2, <2>3, <2>4, <2>5, <2>6
<1>19. CASE UNCHANGED vars
  <2>1. Types'
    BY <1>0, <1>19 DEF vars, LockInv, ClientInv
  <2>2. (AgentUp => LockInv)'
    BY <1>0, <1>19 DEF vars, LockInv
  <2>3. ClientInv'
    BY <1>0, <1>19 DEF vars, ClientInv
  <2>4. NoClientLeaks'
    BY <1>0, <1>19 DEF vars, NoClientLeaks, ClientInv, LockInv
  <2>5. RegistryAgrees'
    BY <1>0, <1>19 DEF vars, RegistryAgrees, ClientInv, LockInv
  <2>6. StopInv'
    BY <1>0, <1>19 DEF vars, StopInv, NoClientLeaks, ClientInv, LockInv
  <2> QED BY <2>1, <2>2, <2>3, <2>4, <2>5, <2>6
<1> QED BY <1>1, <1>2, <1>3, <1>4, <1>5, <1>6, <1>7, <1>8, <1>9, <1>10, <1>11, <1>12, <1>13, <1>14, <1>15, <1>16, <1>17, <1>18, <1>19, Zenon
        DEF Next, Apply, Agent, Environment

LEMMA Invariant == Spec => []IInv
<1> QED BY InitHolds, StepPreserves, PTL DEF Spec

\* No error path of the registry loses a cfs-client: while the agent runs, each
\* one that is alive is in the registry or being waited for.
THEOREM NoneLeaks == Spec => []NoClientLeaks
<1>1. IInv => NoClientLeaks
  BY DEF IInv
<1> QED BY <1>1, Invariant, PTL

\* The mutex of a running agent is held only by an Apply or an UnmountAll that is under
\* way, for the boot mounts, the message in the handler or the shutdown: no error path
\* returns with it, so the shutdown that waits for it is not left waiting (the part of
\* ShutdownEnds that is about safety).
LockHeldInUse == AgentUp => LockInv

\* LockHeldInUse holds.
THEOREM LockInUse == Spec => []LockHeldInUse
<1>1. IInv => LockHeldInUse
  BY DEF IInv, LockHeldInUse
<1> QED BY <1>1, Invariant, PTL

\* What Apply reported of a share agrees with the registry.
THEOREM ReportsAgree == Spec => []RegistryAgrees
<1>1. IInv => RegistryAgrees
  BY DEF IInv
<1> QED BY <1>1, Invariant, PTL

\* A shutdown leaves at most one client, whatever UnmountAll met: the one started
\* for the message that was being handled as the connection closed.
THEOREM ShutdownBound == Spec => []ShutdownLeavesAtMostOne
<1>1. IInv => ShutdownLeavesAtMostOne
  <2> SUFFICES ASSUME IInv, phase \in {"stopped", "exited"}
               PROVE  Cardinality({c \in Clients : Mine(c)}) <= 1
    BY DEF ShutdownLeavesAtMostOne
  <2> DEFINE left == {c \in Clients : Mine(c)}
  <2>1. left \subseteq {cid}
    BY DEF IInv, StopInv
  <2>2. IsFiniteSet({cid}) /\ Cardinality({cid}) = 1
    BY FS_Singleton, Zenon
  <2>3. Cardinality(left) <= Cardinality({cid})
    BY <2>1, <2>2, FS_Subset
  <2> QED BY <2>2, <2>3
<1> QED BY <1>1, Invariant, PTL

\* The registry names under a share the client that was started for it.
EntriesInv == \A id \in Ids : active[id] # 0 => serves[active[id]].id = id

\* No client starts to live but the one Apply starts.
LEMMA NoNewClient ==
  ASSUME OneClientPerShare, UNCHANGED <<serves, base>>,
         \A c \in Clients : Alive(c)' => Alive(c)
  PROVE  OneClientPerShare'
<1>1. \A c \in Clients : Mine(c)' => Mine(c)
  BY Zenon DEF Mine
<1> QED BY <1>1, Zenon DEF OneClientPerShare

LEMMA SharePreserved ==
  IInv /\ EntriesInv /\ OneClientPerShare /\ [Next]_vars => EntriesInv' /\ OneClientPerShare'
<1> SUFFICES ASSUME IInv, EntriesInv, OneClientPerShare, [Next]_vars
             PROVE  EntriesInv' /\ OneClientPerShare'
  OBVIOUS
<1>0. /\ cid \in Nat /\ base \in Nat /\ base <= cid /\ active \in [Ids -> 0..cid]
      /\ cid <= MaxClients /\ MaxClients \in Nat /\ Clients = 1..MaxClients
      /\ proc \in [Clients -> {"none", "running", "mounted", "dead"}]
      /\ serves \in [Clients -> ShareMounts \cup {NoSpec}]
      /\ AgentUp /\ apc \notin {"idle", "all"} => spec.id \in Ids /\ spec \in ShareMounts
  BY MountsAssumption DEF IInv, Types, LockInv, ShareMounts, Clients
<1> USE DEF agentVars, busVars, lockVars, procVars
<1>1. CASE AgentUp /\ (UnmountExisting \/ ReapExisting \/ KillLateClient)
  <2>1. /\ UNCHANGED <<serves, base>>
        /\ \A id \in Ids : active'[id] \in {0, active[id]}
    BY <1>0, <1>1 DEF UnmountExisting, ReapExisting, KillLateClient
  <2>2. \A c \in Clients : proc'[c] \in {proc[c], "dead"}
    BY <1>0, <1>1 DEF UnmountExisting, ReapExisting, KillLateClient
  <2>3. EntriesInv'
    BY <2>1 DEF EntriesInv
  <2>4. \A c \in Clients : Alive(c)' => Alive(c)
    BY <2>2 DEF Alive
  <2> QED BY <2>1, <2>3, <2>4, NoNewClient, Zenon
<1>2. CASE AgentUp /\ StartClient
  <2>1. CASE UNCHANGED procVars
    <3>1. UNCHANGED <<serves, base, proc, active>>
      BY <1>2, <2>1 DEF StartClient
    <3> QED BY <3>1, NoNewClient, Zenon DEF EntriesInv, Alive
  <2>2. CASE ~UNCHANGED procVars
    <3>1. PICK n \in Clients : n = cid + 1
      BY <1>0, <1>2, <2>2 DEF StartClient
    <3>2. /\ apc = "spawn" /\ UNCHANGED <<base, active>>
          /\ serves' = [serves EXCEPT ![n] = spec] /\ proc' = [proc EXCEPT ![n] = "running"]
      BY <1>2, <2>2, <3>1, Zenon DEF StartClient
    <3>3. spec.id \in Ids /\ active[spec.id] = 0
      BY <1>0, <1>2, <3>2 DEF IInv, ClientInv
    <3>4. \A c \in Clients : c # n => serves'[c] = serves[c] /\ (Mine(c)' <=> Mine(c))
      BY <1>0, <3>2 DEF Mine, Alive
    <3>5. serves'[n].id = spec.id
      BY <1>0, <3>2
    <3>6. ASSUME NEW c \in Clients, c # n, Mine(c) PROVE serves[c].id # spec.id
      <4>1. PICK id \in Ids : active[id] = c
        BY <1>2, <3>2, <3>6 DEF IInv, NoClientLeaks
      <4>2. c # 0
        BY <1>0
      <4> QED BY <3>3, <4>1, <4>2, Zenon DEF EntriesInv
    <3>7. \A id \in Ids : active[id] # n /\ (active[id] # 0 => active[id] \in Clients)
      BY <1>0, <3>1
    <3>8. EntriesInv'
      BY <3>2, <3>4, <3>7, Zenon DEF EntriesInv
    <3>9. OneClientPerShare'
      BY <3>4, <3>5, <3>6, Zenon DEF OneClientPerShare
    <3> QED BY <3>8, <3>9
  <2> QED BY <2>1, <2>2
<1>3. CASE AgentUp /\ WaitMounted
  <2>1. UNCHANGED <<serves, base, proc>> /\ apc = "wait"
    BY <1>3 DEF WaitMounted
  <2>2. active' = active \/ active' = [active EXCEPT ![spec.id] = cid]
    BY <1>3, Zenon DEF WaitMounted
  <2>3. serves[cid] = spec
    BY <1>3, <2>1 DEF IInv, ClientInv
  <2>4. EntriesInv'
    BY <1>0, <1>3, <2>1, <2>2, <2>3 DEF EntriesInv
  <2> QED BY <2>1, <2>4, NoNewClient, Zenon DEF Alive
<1>4. CASE \/ BootMount \/ HandleMessage \/ LockAll \/ Subscribe \/ Receive \/ UnmountAllDone \/ Exit
           \/ CloseConns \/ Crash \/ (\E s \in Specs : Publish(s)) \/ UNCHANGED vars
  <2>1. UNCHANGED <<serves, base, proc, active>>
    BY <1>4, Zenon DEF BootMount, HandleMessage, LockAll, Subscribe, Receive, UnmountAllDone, Exit,
       CloseConns, Crash, Publish, vars
  <2> QED BY <2>1, NoNewClient, Zenon DEF EntriesInv, Alive
<1>5. ASSUME NEW id \in Ids, UnmountOne(id) PROVE EntriesInv' /\ OneClientPerShare'
  <2>1. /\ UNCHANGED <<serves, base>> /\ active' = [active EXCEPT ![id] = 0]
        /\ proc' = [proc EXCEPT ![active[id]] = "dead"]
    BY <1>5 DEF UnmountOne
  <2>2. EntriesInv'
    BY <1>0, <2>1 DEF EntriesInv
  <2>3. \A c \in Clients : Alive(c)' => Alive(c)
    BY <1>0, <2>1 DEF Alive
  <2> QED BY <2>1, <2>2, <2>3, NoNewClient, Zenon
<1>6. ASSUME NEW c \in Clients, ClientMounts(c) \/ ClientDies(c)
      PROVE  EntriesInv' /\ OneClientPerShare'
  <2>1. UNCHANGED <<serves, base, active>> /\ Alive(c)
    BY <1>6, Zenon DEF ClientMounts, ClientDies, Alive
  <2>2. \A d \in Clients : d # c => proc'[d] = proc[d]
    BY <1>0, <1>6 DEF ClientMounts, ClientDies
  <2>3. \A d \in Clients : Alive(d)' => Alive(d)
    BY <2>1, <2>2, Zenon DEF Alive
  <2> QED BY <2>1, <2>3, NoNewClient, Zenon DEF EntriesInv
<1>7. ASSUME NEW reboot \in BOOLEAN, Restart(reboot) PROVE EntriesInv' /\ OneClientPerShare'
  <2>1. /\ base' = cid /\ active' = [i \in Ids |-> 0]
        /\ \/ proc' = proc
           \/ proc' = [c \in Clients |-> IF Alive(c) THEN "dead" ELSE proc[c]]
    BY <1>7, Zenon DEF Restart
  <2>2. \A c \in Clients : ~Mine(c)'
    BY <1>0, <2>1 DEF Mine, Alive, IInv, ClientInv
  <2>3. EntriesInv'
    BY <2>1 DEF EntriesInv
  <2> QED BY <2>2, <2>3, Zenon DEF OneClientPerShare
<1> QED BY <1>1, <1>2, <1>3, <1>4, <1>5, <1>6, <1>7, Zenon
         DEF Next, Apply, Agent, Environment

\* Registry.Apply keeps at most one cfs-client per share, through repeated mounts,
\* failing unmounts, late clients and crashes, for any number of shares.
THEOREM OneClientEach == Spec => []OneClientPerShare
<1>1. Init => EntriesInv /\ OneClientPerShare
  BY DEF Init, EntriesInv, OneClientPerShare, Mine, Alive
<1> QED BY <1>1, SharePreserved, Invariant, PTL DEF Spec

-----------------------------------------------------------------------------
(***************************************************************************)
(* The types of what the invariant above does not need.                    *)
(***************************************************************************)
FlagTypes == stream \in BOOLEAN /\ replay \in BOOLEAN /\ uerr \in BOOLEAN

HistoryTypes ==
  /\ starts \in 1..MaxStarts /\ published \in 0..MaxPublishes
  /\ desired \in [Ids -> {"none", "mount", "unmount"}]

TableTypes == table \in [Points -> Seq(Clients)]

\* The registry has clients of this start of the agent only.
OwnClients ==
  /\ \A id \in Ids : active[id] # 0 => active[id] > base
  /\ AgentUp /\ apc = "wait" => cid > base

\* The topmost mount of a path, or the mount of one client, goes.
LEMMA MountGone ==
  ASSUME NEW q \in Seq(Clients), NEW i \in 1..Len(q)
  PROVE  SubSeq(q, 1, i - 1) \in Seq(Clients) /\ SubSeq(q, i + 1, Len(q)) \in Seq(Clients)
  OBVIOUS

LEMMA FlagsPreserved == FlagTypes /\ [Next]_vars => FlagTypes'
<1> SUFFICES ASSUME FlagTypes, [Next]_vars PROVE FlagTypes'
  OBVIOUS
<1> USE DEF FlagTypes, agentVars, busVars, lockVars
<1>1. CASE UnmountExisting
  BY <1>1, Zenon DEF UnmountExisting, UnmountPath, Return, Goto
<1>2. CASE ReapExisting \/ StartClient \/ WaitMounted \/ KillLateClient
  BY <1>2, Zenon DEF ReapExisting, StartClient, WaitMounted, KillLateClient, Return, Goto
<1>3. CASE BootMount \/ HandleMessage
  BY <1>3, Zenon DEF BootMount, HandleMessage, Lock
<1>4. CASE Subscribe
  BY <1>4, Zenon DEF Subscribe
<1>5. CASE Receive \/ LockAll \/ UnmountAllDone \/ Exit \/ CloseConns \/ Crash \/ UNCHANGED vars
  BY <1>5, Zenon DEF Receive, LockAll, UnmountAllDone, Exit, CloseConns, Crash, vars
<1>6. ASSUME NEW id \in Ids, UnmountOne(id) PROVE FlagTypes'
  BY <1>6, Zenon DEF UnmountOne, UnmountPath
<1>7. ASSUME NEW c \in Clients, ClientMounts(c) \/ ClientDies(c) PROVE FlagTypes'
  BY <1>7, Zenon DEF ClientMounts, ClientDies
<1>8. ASSUME NEW s \in Specs, Publish(s) PROVE FlagTypes'
  BY <1>8, Zenon DEF Publish
<1>9. ASSUME NEW reboot \in BOOLEAN, Restart(reboot) PROVE FlagTypes'
  BY <1>9, Zenon DEF Restart
<1> QED BY <1>1, <1>2, <1>3, <1>4, <1>5, <1>6, <1>7, <1>8, <1>9, Zenon
         DEF Next, Apply, Agent, Environment

LEMMA HistoryPreserved == HistoryTypes /\ [Next]_vars => HistoryTypes'
<1> SUFFICES ASSUME HistoryTypes, [Next]_vars PROVE HistoryTypes'
  OBVIOUS
<1>1. ASSUME UNCHANGED <<starts, published, desired>> PROVE HistoryTypes'
  BY <1>1 DEF HistoryTypes
<1>2. CASE Apply
  BY <1>1, <1>2, Zenon DEF Apply, UnmountExisting, ReapExisting, StartClient, WaitMounted, KillLateClient,
     Return, Goto, agentVars, busVars
<1>3. CASE Agent \/ CloseConns \/ Crash \/ UNCHANGED vars
  BY <1>1, <1>3, Zenon DEF Agent, BootMount, Subscribe, Receive, HandleMessage, LockAll, UnmountOne,
     UnmountAllDone, Exit, CloseConns, Crash, vars, agentVars, busVars
<1>4. ASSUME NEW c \in Clients, ClientMounts(c) \/ ClientDies(c) PROVE HistoryTypes'
  BY <1>1, <1>4, Zenon DEF ClientMounts, ClientDies, agentVars, busVars
<1>5. ASSUME NEW s \in Specs, Publish(s) PROVE HistoryTypes'
  <2>1. s.action \in {"mount", "unmount"}
    BY MountsAssumption DEF ShareMounts
  <2>2. desired' \in [Ids -> {"none", "mount", "unmount"}]
    BY <1>5, <2>1, Zenon DEF Publish, HistoryTypes
  <2> QED BY <1>5, <2>2, MountsAssumption DEF Publish, HistoryTypes, agentVars
<1>6. ASSUME NEW reboot \in BOOLEAN, Restart(reboot) PROVE HistoryTypes'
  BY <1>6, MountsAssumption DEF Restart, HistoryTypes
<1> QED BY <1>2, <1>3, <1>4, <1>5, <1>6, Zenon DEF Next, Environment

LEMMA TablePreserved == TableTypes /\ [Next]_vars => TableTypes'
<1> SUFFICES ASSUME TableTypes, [Next]_vars PROVE TableTypes'
  OBVIOUS
<1>1. ASSUME UNCHANGED table PROVE TableTypes'
  BY <1>1 DEF TableTypes
<1>2. ASSUME NEW p, UnmountPath(p) PROVE TableTypes'
  <2>1. CASE table[p] # <<>> /\ table' = [table EXCEPT ![p] = SubSeq(table[p], 1, Len(table[p]) - 1)]
    <3>1. p \in Points => SubSeq(table[p], 1, Len(table[p]) - 1) \in Seq(Clients)
      BY <2>1 DEF TableTypes
    <3> QED BY <2>1, <3>1, Zenon DEF TableTypes
  <2> QED BY <1>1, <1>2, <2>1 DEF UnmountPath
<1>3. CASE UnmountExisting
  BY <1>1, <1>2, <1>3, Zenon DEF UnmountExisting
<1>4. ASSUME NEW id \in Ids, UnmountOne(id) PROVE TableTypes'
  BY <1>2, <1>4, Zenon DEF UnmountOne
<1>5. CASE ReapExisting \/ StartClient \/ WaitMounted \/ KillLateClient
  BY <1>1, <1>5, Zenon DEF ReapExisting, StartClient, WaitMounted, KillLateClient
<1>6. CASE \/ BootMount \/ Subscribe \/ Receive \/ HandleMessage \/ LockAll \/ UnmountAllDone \/ Exit
           \/ CloseConns \/ Crash \/ UNCHANGED vars
  BY <1>1, <1>6, Zenon DEF BootMount, Subscribe, Receive, HandleMessage, LockAll, UnmountAllDone, Exit,
     CloseConns, Crash, vars
<1>7. ASSUME NEW c \in Clients, ClientMounts(c) PROVE TableTypes'
  <2>1. table' = [table EXCEPT ![serves[c].point] = Append(table[serves[c].point], c)]
    BY <1>7 DEF ClientMounts
  <2>2. serves[c].point \in Points => Append(table[serves[c].point], c) \in Seq(Clients)
    BY DEF TableTypes
  <2> QED BY <2>1, <2>2, Zenon DEF TableTypes
<1>8. ASSUME NEW c \in Clients, ClientDies(c) PROVE TableTypes'
  <2>1. PICK p : p = serves[c].point
    OBVIOUS
  <2>2. CASE \E i \in DOMAIN table[p] :
               table' = [table EXCEPT ![p] = SubSeq(table[p], 1, i - 1) \o SubSeq(table[p], i + 1, Len(table[p]))]
    <3>1. PICK i \in DOMAIN table[p] :
            table' = [table EXCEPT ![p] = SubSeq(table[p], 1, i - 1) \o SubSeq(table[p], i + 1, Len(table[p]))]
      BY <2>2, Zenon
    <3>2. p \in Points =>
            SubSeq(table[p], 1, i - 1) \o SubSeq(table[p], i + 1, Len(table[p])) \in Seq(Clients)
      BY MountGone DEF TableTypes
    <3> QED BY <3>1, <3>2, Zenon DEF TableTypes
  <2> QED BY <1>1, <1>8, <2>1, <2>2, Zenon DEF ClientDies
<1>9. ASSUME NEW s \in Specs, Publish(s) PROVE TableTypes'
  BY <1>1, <1>9 DEF Publish
<1>10. ASSUME NEW reboot \in BOOLEAN, Restart(reboot) PROVE TableTypes'
  <2>1. UNCHANGED table \/ table' = [p \in Points |-> <<>>]
    BY <1>10, Zenon DEF Restart
  <2>2. <<>> \in Seq(Clients)
    OBVIOUS
  <2> QED BY <1>1, <2>1, <2>2, Zenon DEF TableTypes
<1> QED BY <1>3, <1>4, <1>5, <1>6, <1>7, <1>8, <1>9, <1>10, Zenon
         DEF Next, Apply, Agent, Environment

LEMMA OwnPreserved == IInv /\ OwnClients /\ [Next]_vars => OwnClients'
<1> SUFFICES ASSUME IInv, OwnClients, [Next]_vars PROVE OwnClients'
  OBVIOUS
<1>0. /\ cid \in Nat /\ base \in Nat /\ base <= cid /\ active \in [Ids -> 0..cid]
      /\ AgentUp /\ apc \notin {"idle", "all"} => spec.id \in Ids
  BY MountsAssumption DEF IInv, Types, LockInv, ShareMounts
<1> USE <1>0 DEF OwnClients, agentVars, busVars, lockVars, procVars
<1>1. CASE AgentUp /\ (UnmountExisting \/ ReapExisting \/ KillLateClient)
  BY <1>1 DEF UnmountExisting, ReapExisting, KillLateClient, Return, Goto
<1>2. CASE AgentUp /\ StartClient
  BY <1>2 DEF StartClient, Return, Goto
<1>3. CASE AgentUp /\ WaitMounted
  BY <1>3 DEF WaitMounted, Return, Goto
<1>4. CASE BootMount \/ HandleMessage \/ LockAll
  BY <1>4 DEF BootMount, HandleMessage, LockAll, Lock
<1>5. CASE Subscribe \/ Receive \/ UnmountAllDone \/ Exit \/ CloseConns \/ Crash \/ UNCHANGED vars
  BY <1>5, Zenon DEF Subscribe, Receive, UnmountAllDone, Exit, CloseConns, Crash, vars, AgentUp
<1>6. ASSUME NEW id \in Ids, UnmountOne(id) PROVE OwnClients'
  BY <1>6 DEF UnmountOne, AgentUp
<1>7. ASSUME NEW c \in Clients, ClientMounts(c) \/ ClientDies(c) PROVE OwnClients'
  BY <1>7, Zenon DEF ClientMounts, ClientDies, AgentUp
<1>8. ASSUME NEW s \in Specs, Publish(s) PROVE OwnClients'
  BY <1>8, Zenon DEF Publish, AgentUp
<1>9. ASSUME NEW reboot \in BOOLEAN, Restart(reboot) PROVE OwnClients'
  BY <1>9 DEF Restart
<1> QED BY <1>1, <1>2, <1>3, <1>4, <1>5, <1>6, <1>7, <1>8, <1>9, Zenon
         DEF Next, Apply, Agent, Environment

\* The variables keep their types; in particular the registry never names a client
\* of an earlier start of the agent.
THEOREM TypeCorrect == Spec => []TypeOK
<1>1. Init => FlagTypes /\ HistoryTypes /\ TableTypes /\ OwnClients
  <2> SUFFICES ASSUME Init PROVE FlagTypes /\ HistoryTypes /\ TableTypes /\ OwnClients
    OBVIOUS
  <2>1. FlagTypes
    BY Zenon DEF Init, FlagTypes
  <2>2. HistoryTypes /\ TableTypes /\ OwnClients
    BY MountsAssumption DEF Init, HistoryTypes, TableTypes, OwnClients
  <2> QED BY <2>1, <2>2
<1>2. IInv /\ FlagTypes /\ HistoryTypes /\ TableTypes /\ OwnClients => TypeOK
  <2> SUFFICES ASSUME IInv, FlagTypes, HistoryTypes, TableTypes, OwnClients PROVE TypeOK
    OBVIOUS
  <2>1. active \in [Ids -> {0} \cup base+1..cid]
    BY DEF IInv, Types, OwnClients
  <2> QED BY <2>1, Zenon DEF TypeOK, IInv, Types, FlagTypes, HistoryTypes, TableTypes
<1> QED BY <1>1, <1>2, Invariant, FlagsPreserved, HistoryPreserved, TablePreserved, OwnPreserved, PTL
        DEF Spec
=============================================================================

------------------------------- MODULE Mounts -------------------------------
(***************************************************************************)
(* Dynamic share mounts: the boot-time mounts of main.go, the subscriber   *)
(* of pkg/mounts with its JetStream replay, the cubefs Registry they both  *)
(* drive, and the shutdown that empties the registry.                      *)
(*                                                                         *)
(* Registry.Apply and UnmountAll hold one mutex; what interleaves with     *)
(* them is the cfs-client processes, the kernel's mount table, publishes,  *)
(* crashes and shutdown.  A client is a number: the n-th process started.  *)
(***************************************************************************)
EXTENDS Naturals, Sequences, FiniteSets

CONSTANTS Ids,           \* ShareMount ids
          Points,        \* mount points
          Specs,         \* the valid ShareMounts that may be published
          BootSpecs,     \* the ShareMounts of the boot file, in order
          NoSpec,
          MaxClients,    \* bound: cfs-client processes started
          MaxPublishes,  \* bound: messages published
          MaxStarts      \* bound: starts of the agent

ShareMounts == [id : Ids, point : Points, action : {"mount", "unmount"}]

ASSUME MountsAssumption ==
  /\ Specs \subseteq ShareMounts /\ BootSpecs \in Seq(ShareMounts) /\ NoSpec \notin ShareMounts
  /\ MaxClients \in Nat /\ MaxPublishes \in Nat /\ MaxStarts \in Nat \ {0}

Clients == 1..MaxClients

VARIABLES phase,      \* of the agent process
          booted,     \* boot mounts applied so far
          stream,     \* whether the weft-mounts stream exists
          retained,   \* the message it retains for this VM
          replay,     \* whether the subscription is a JetStream consumer
          queue,      \* messages delivered to the subscription, not yet handled
          msg,        \* the message the handler is working on
          holder,     \* who holds the registry's mutex
          apc,        \* where the holder is
          spec,       \* the ShareMount being applied
          uerr,       \* whether unmountPath failed in this Unmount
          active,     \* Registry.active: id -> client, 0 for none
          cid,        \* clients started so far
          base,       \* clients started before this start of the agent
          proc,       \* state of each client process
          serves,     \* the ShareMount each client was started for
          table,      \* the kernel's mounts on each point, topmost last
          starts,     \* history: starts of the agent
          result,     \* history: how the last Apply of each id ended
          desired,    \* history: last action of each id that the stream took
          published   \* history: messages published

agentVars == <<phase, booted, starts>>
busVars   == <<stream, replay, retained, queue, desired, published>>
lockVars  == <<holder, apc, spec, uerr, msg>>
procVars  == <<cid, base, proc, serves>>
vars == <<agentVars, busVars, lockVars, active, procVars, table, result>>

TypeOK ==
  /\ phase \in {"boot", "run", "stopping", "stopped", "exited", "down"}
  /\ booted \in 0..Len(BootSpecs) /\ starts \in 1..MaxStarts
  /\ stream \in BOOLEAN /\ replay \in BOOLEAN /\ retained \in Specs \cup {NoSpec} /\ queue \in Seq(Specs)
  /\ msg \in Specs \cup {NoSpec} /\ spec \in ShareMounts \cup {NoSpec}
  /\ holder \in {"none", "boot", "handler", "stop"} /\ uerr \in BOOLEAN
  /\ apc \in {"idle", "existing", "reap", "spawn", "wait", "timeout", "all"}
  /\ cid \in 0..MaxClients /\ base \in 0..cid
  /\ active \in [Ids -> {0} \cup base+1..cid]
  /\ proc \in [Clients -> {"none", "running", "mounted", "dead"}]
  /\ serves \in [Clients -> ShareMounts \cup {NoSpec}] /\ table \in [Points -> Seq(Clients)]
  /\ result \in [Ids -> {"none", "mount", "unmount", "failed"}]
  /\ desired \in [Ids -> {"none", "mount", "unmount"}] /\ published \in 0..MaxPublishes

Init ==
  /\ phase = "boot" /\ booted = 0 /\ starts = 1
  /\ stream \in BOOLEAN /\ replay = FALSE /\ retained = NoSpec /\ queue = <<>> /\ msg = NoSpec
  /\ holder = "none" /\ apc = "idle" /\ spec = NoSpec /\ uerr = FALSE
  /\ active = [i \in Ids |-> 0] /\ cid = 0 /\ base = 0
  /\ proc = [c \in Clients |-> "none"] /\ serves = [c \in Clients |-> NoSpec]
  /\ table = [p \in Points |-> <<>>]
  /\ result = [i \in Ids |-> "none"] /\ desired = [i \in Ids |-> "none"] /\ published = 0

Alive(c) == proc[c] \in {"running", "mounted"}
AgentUp  == phase \notin {"exited", "down"}

(***************************************************************************)
(* Registry.Apply, under the mutex.                                        *)
(***************************************************************************)
Lock(who, s) ==
  /\ holder = "none"
  /\ holder' = who /\ spec' = s /\ apc' = "existing" /\ uerr' = FALSE

\* Faulty variant: the error path returns with the mutex held.
ReturnLocked(r) ==
  /\ holder' = IF r = "failed" THEN holder ELSE "none"
  /\ apc' = "idle" /\ spec' = NoSpec /\ uerr' = FALSE
  /\ result' = [result EXCEPT ![spec.id] = r]
  /\ msg' = IF holder = "handler" THEN NoSpec ELSE msg
  /\ booted' = IF holder = "boot" /\ r # "failed" THEN booted + 1 ELSE booted
  /\ phase' = IF holder = "boot" /\ r = "failed" THEN "down" ELSE phase
  /\ UNCHANGED <<starts, busVars>>

\* Apply returns.  A boot mount that fails ends the agent (run returns the
\* error); the handler only logs.
Return(r) ==
  /\ holder' = "none" /\ apc' = "idle" /\ spec' = NoSpec /\ uerr' = FALSE
  /\ result' = [result EXCEPT ![spec.id] = r]
  /\ msg' = IF holder = "handler" THEN NoSpec ELSE msg
  /\ booted' = IF holder = "boot" /\ r # "failed" THEN booted + 1 ELSE booted
  /\ phase' = IF holder = "boot" /\ r = "failed" THEN "down" ELSE phase
  /\ UNCHANGED <<starts, busVars>>

Goto(l) == apc' = l /\ UNCHANGED <<agentVars, busVars, holder, spec, msg, result>>

\* unmountPath: detach the topmost mount of p, if there is one; it may be busy.
UnmountPath(p) ==
  \/ /\ table[p] # <<>> /\ uerr' = FALSE
     /\ table' = [table EXCEPT ![p] = SubSeq(@, 1, Len(@) - 1)]
  \/ uerr' = TRUE /\ UNCHANGED table

\* Unmount the entry with this id, if any: first the path...
UnmountExisting ==
  /\ apc = "existing"
  /\ IF active[spec.id] # 0
     THEN UnmountPath(serves[active[spec.id]].point) /\ Goto("reap")
     ELSE /\ UNCHANGED table
          /\ \/ spec.action = "unmount" /\ Return("unmount")
             \/ spec.action = "mount" /\ Goto("spawn") /\ UNCHANGED uerr
  /\ UNCHANGED <<active, procVars>>

\* Faulty variant: the client is left to end with its mount.
ReapExistingNoKill ==
  /\ apc = "reap"
  /\ active' = IF uerr THEN active ELSE [active EXCEPT ![spec.id] = 0]
  /\ \/ uerr /\ Return("failed")
     \/ ~uerr /\ spec.action = "unmount" /\ Return("unmount")
     \/ ~uerr /\ spec.action = "mount" /\ Goto("spawn") /\ UNCHANGED uerr
  /\ UNCHANGED <<procVars, table>>

\* Faulty variant: the entry stays in the map.
ReapExistingNoDelete ==
  /\ apc = "reap"
  /\ proc' = [proc EXCEPT ![active[spec.id]] = "dead"]
  /\ \/ uerr /\ Return("failed")
     \/ ~uerr /\ spec.action = "unmount" /\ Return("unmount")
     \/ ~uerr /\ spec.action = "mount" /\ Goto("spawn") /\ UNCHANGED uerr
  /\ UNCHANGED <<active, cid, base, serves, table>>

\* ...then kill and reap the client; a path that could not be unmounted is
\* reported, and the entry stays.
ReapExisting ==
  /\ apc = "reap"
  /\ proc' = [proc EXCEPT ![active[spec.id]] = "dead"]
  /\ active' = IF uerr THEN active ELSE [active EXCEPT ![spec.id] = 0]
  /\ \/ uerr /\ Return("failed")
     \/ ~uerr /\ spec.action = "unmount" /\ Return("unmount")
     \/ ~uerr /\ spec.action = "mount" /\ Goto("spawn") /\ UNCHANGED uerr
  /\ UNCHANGED <<cid, base, serves, table>>

\* Mount: make the directories and the config file, start cfs-client.
StartClient ==
  /\ apc = "spawn"
  /\ \/ Return("failed") /\ UNCHANGED procVars
     \/ /\ cid < MaxClients
        /\ cid' = cid + 1
        /\ proc' = [proc EXCEPT ![cid + 1] = "running"]
        /\ serves' = [serves EXCEPT ![cid + 1] = spec]
        /\ Goto("wait") /\ UNCHANGED <<base, uerr>>
  /\ UNCHANGED <<active, table>>

\* waitMounted looks for any mount on the point.
WaitMounted ==
  /\ apc = "wait"
  /\ IF table[spec.point] # <<>>
     THEN active' = [active EXCEPT ![spec.id] = cid] /\ Return("mount")
     ELSE Goto("timeout") /\ UNCHANGED <<active, uerr>>
  /\ UNCHANGED <<procVars, table>>

\* Faulty variant: the client that did not mount in time is left running.
KillLateClientNot ==
  /\ apc = "timeout"
  /\ Return("failed")
  /\ UNCHANGED <<active, procVars, table>>

\* Not mounted in time: kill and reap the client.
KillLateClient ==
  /\ apc = "timeout"
  /\ proc' = [proc EXCEPT ![cid] = "dead"]
  /\ Return("failed")
  /\ UNCHANGED <<active, cid, base, serves, table>>

Apply == UnmountExisting \/ ReapExisting \/ StartClient \/ WaitMounted \/ KillLateClient

(***************************************************************************)
(* The agent: boot mounts, then the subscription, then shutdown.           *)
(***************************************************************************)
BootMount ==
  /\ phase = "boot" /\ booted < Len(BootSpecs)
  /\ Lock("boot", BootSpecs[booted + 1])
  /\ UNCHANGED <<agentVars, busVars, msg, active, procVars, table, result>>

\* Start: a JetStream consumer on the stream, made when missing, first gets the
\* message retained for its subject; the fallback to core NATS, before or after
\* the stream was made, gets nothing of the past.
Subscribe ==
  /\ phase = "boot" /\ booted = Len(BootSpecs)
  /\ phase' = "run"
  /\ \/ stream' = TRUE /\ replay' = TRUE /\ queue' = IF retained = NoSpec THEN <<>> ELSE <<retained>>
     \/ stream' \in {stream, TRUE} /\ replay' = FALSE /\ queue' = <<>>
  /\ UNCHANGED <<booted, starts, retained, desired, published, lockVars, active, procVars, table, result>>

\* The subscription's goroutine takes the next message.
Receive ==
  /\ phase = "run" /\ msg = NoSpec /\ queue # <<>>
  /\ msg' = Head(queue) /\ queue' = Tail(queue)
  /\ UNCHANGED <<agentVars, stream, replay, retained, desired, published, holder, apc, spec, uerr,
                 active, procVars, table, result>>

HandleMessage ==
  /\ AgentUp /\ msg # NoSpec
  /\ Lock("handler", msg)
  /\ UNCHANGED <<agentVars, busVars, msg, active, procVars, table, result>>

\* The shutdown goroutine: nc.Close drops what is queued and does not wait for
\* the handler...
CloseConns ==
  /\ phase = "run"
  /\ phase' = "stopping" /\ queue' = <<>>
  /\ UNCHANGED <<booted, starts, stream, replay, retained, desired, published, lockVars, active, procVars, table, result>>

\* ...then UnmountAll takes the mutex...
LockAll ==
  /\ phase = "stopping" /\ holder = "none"
  /\ holder' = "stop" /\ apc' = "all"
  /\ UNCHANGED <<agentVars, busVars, spec, uerr, msg, active, procVars, table, result>>

\* Faulty variant: a client whose path could not be unmounted is not killed.
UnmountOneSkipsKill(id) ==
  /\ apc = "all" /\ active[id] # 0
  /\ UnmountPath(serves[active[id]].point)
  /\ proc' = IF uerr' THEN proc ELSE [proc EXCEPT ![active[id]] = "dead"]
  /\ active' = [active EXCEPT ![id] = 0]
  /\ result' = [result EXCEPT ![id] = "none"]
  /\ UNCHANGED <<agentVars, busVars, holder, apc, spec, msg, cid, base, serves>>

\* ...and unmounts every entry, deleting it whether that worked or not...
UnmountOne(id) ==
  /\ apc = "all" /\ active[id] # 0
  /\ UnmountPath(serves[active[id]].point)
  /\ proc' = [proc EXCEPT ![active[id]] = "dead"]
  /\ active' = [active EXCEPT ![id] = 0]
  /\ result' = [result EXCEPT ![id] = "none"]
  /\ UNCHANGED <<agentVars, busVars, holder, apc, spec, msg, cid, base, serves>>

UnmountAllDone ==
  /\ apc = "all" /\ \A id \in Ids : active[id] = 0
  /\ holder' = "none" /\ apc' = "idle" /\ phase' = "stopped"
  /\ UNCHANGED <<booted, starts, busVars, spec, uerr, msg, active, procVars, table, result>>

\* ...before GracefulStop lets run return and the process end.
Exit ==
  /\ phase = "stopped"
  /\ phase' = "exited"
  /\ UNCHANGED <<booted, starts, busVars, lockVars, active, procVars, table, result>>

Agent == \/ BootMount \/ Subscribe \/ Receive \/ HandleMessage
         \/ LockAll \/ (\E id \in Ids : UnmountOne(id)) \/ UnmountAllDone \/ Exit

(***************************************************************************)
(* The environment.                                                        *)
(***************************************************************************)
ClientMounts(c) ==
  /\ proc[c] = "running"
  /\ proc' = [proc EXCEPT ![c] = "mounted"]
  /\ table' = [table EXCEPT ![serves[c].point] = Append(@, c)]
  /\ UNCHANGED <<agentVars, busVars, lockVars, active, cid, base, serves, result>>

\* A client that ends by itself takes its mount with it (a clean exit) or
\* leaves it in the table (killed, crashed).
ClientDies(c) ==
  /\ Alive(c)
  /\ proc' = [proc EXCEPT ![c] = "dead"]
  /\ \/ UNCHANGED table
     \/ \E i \in DOMAIN table[serves[c].point] :
          /\ table[serves[c].point][i] = c
          /\ table' = [table EXCEPT ![serves[c].point] = SubSeq(@, 1, i - 1) \o SubSeq(@, i + 1, Len(@))]
  /\ UNCHANGED <<agentVars, busVars, lockVars, active, cid, base, serves, result>>

\* The stream retains one message per subject.
Publish(s) ==
  /\ published < MaxPublishes
  /\ published' = published + 1
  /\ desired' = IF stream THEN [desired EXCEPT ![s.id] = s.action] ELSE desired
  /\ retained' = IF stream THEN s ELSE retained
  /\ queue' = IF phase = "run" THEN Append(queue, s) ELSE queue
  /\ UNCHANGED <<agentVars, stream, replay, lockVars, active, procVars, table, result>>

Crash ==
  /\ AgentUp /\ phase' = "down"
  /\ UNCHANGED <<booted, starts, busVars, lockVars, active, procVars, table, result>>

\* The agent is started again, alone or with the guest: cfs-clients are not
\* ended by the agent's end, only by the guest's.
Restart(reboot) ==
  /\ ~AgentUp /\ starts < MaxStarts
  /\ starts' = starts + 1 /\ phase' = "boot" /\ booted' = 0
  /\ queue' = <<>> /\ msg' = NoSpec
  /\ holder' = "none" /\ apc' = "idle" /\ spec' = NoSpec /\ uerr' = FALSE
  /\ active' = [i \in Ids |-> 0] /\ result' = [i \in Ids |-> "none"] /\ base' = cid
  /\ IF reboot
     THEN /\ proc' = [c \in Clients |-> IF Alive(c) THEN "dead" ELSE proc[c]]
          /\ table' = [p \in Points |-> <<>>]
     ELSE UNCHANGED <<proc, table>>
  /\ UNCHANGED <<stream, replay, retained, desired, published, cid, serves>>

Environment ==
  \/ \E c \in Clients : ClientMounts(c) \/ ClientDies(c)
  \/ \E s \in Specs : Publish(s)
  \/ CloseConns \/ Crash \/ \E reboot \in BOOLEAN : Restart(reboot)

Next == (AgentUp /\ (Apply \/ Agent)) \/ Environment

Spec == Init /\ [][Next]_vars

\* Every goroutine of a running agent goes on (Go's mutex does not starve a
\* waiter, waitMounted has a deadline, a killed client is reaped).  Signals,
\* publishes, clients and crashes may or may not come.
FairSpec == Spec /\ WF_vars(AgentUp /\ Apply) /\ WF_vars(BootMount \/ Subscribe)
                 /\ WF_vars(Receive) /\ WF_vars(HandleMessage)
                 /\ WF_vars(AgentUp /\ (\/ LockAll \/ (\E id \in Ids : UnmountOne(id))
                                        \/ UnmountAllDone \/ Exit))

(***************************************************************************)
(* Properties.                                                             *)
(***************************************************************************)
Mine(c) == c > base /\ Alive(c)

\* While the agent runs, every cfs-client it started that is still alive is in
\* the registry or is the one Mount is waiting for: no error path of Apply or
\* Unmount loses a process.
NoClientLeaks ==
  AgentUp => \A c \in Clients : Mine(c) =>
               \/ \E id \in Ids : active[id] = c
               \/ c = cid /\ apc \in {"wait", "timeout"}

\* A share has at most one cfs-client of this agent: one that is mounted again, whose
\* old mount is gone, busy or stale, gets a new client only after the old was reaped.
OneClientPerShare ==
  \A c, d \in Clients : Mine(c) /\ Mine(d) /\ serves[c].id = serves[d].id => c = d

\* Between two calls the registry says what the last Apply of an id reported:
\* an applied mount has an entry whose client was started for that id, an
\* applied unmount has none.
RegistryAgrees ==
  AgentUp => \A id \in Ids : (spec = NoSpec \/ spec.id # id) =>
    /\ result[id] = "mount" => active[id] # 0 /\ serves[active[id]].id = id
    /\ result[id] = "unmount" => active[id] = 0

\* Shutdown leaves at most one client behind: the one of a message that was in
\* the handler when the connection was closed, whatever UnmountAll met.
ShutdownLeavesAtMostOne ==
  phase \in {"stopped", "exited"} => Cardinality({c \in Clients : Mine(c)}) <= 1

\* A shutdown that has begun ends, also when it meets an Apply in progress.
ShutdownEnds == phase = "stopping" ~> ~AgentUp

\* What mounts.go says of the replay: "exactly the state the agent needs to
\* reconstruct its desired mounts".  Once a JetStream subscription has handled
\* what it was sent, every share the stream was last told to mount was tried.
ReplayReconstructs ==
  (replay /\ phase = "run" /\ queue = <<>> /\ msg = NoSpec) =>
    \A id \in Ids : desired[id] = "mount" => result[id] # "none"

\* What main.go says of UnmountAll at shutdown: it reaps the cfs-clients, which
\* otherwise survive the agent.
ShutdownReapsClients == phase = "exited" => \A c \in Clients : ~Mine(c)

\* What mounts.go says of an update: `tear down on "unmount"`.  An unmount that
\* was applied leaves no mount of that share.
UnmountTearsDown ==
  (AgentUp /\ spec = NoSpec) => \A id \in Ids : result[id] = "unmount" =>
    \A p \in Points : \A n \in 1..Len(table[p]) : serves[table[p][n]].id # id

\* What Registry.Apply says of itself: "Idempotent - a repeated publish
\* re-establishes the mount".  A share whose mount is gone is not refused
\* because there was nothing to unmount.
GoneMountIsReplaced ==
  (apc = "reap" /\ uerr) => table[serves[active[spec.id]].point] # <<>>
=============================================================================

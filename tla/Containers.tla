---------------------------- MODULE Containers ----------------------------
(***************************************************************************)
(* The container reconciler: a subscriber receives the set of containers   *)
(* the guest is to run, and Apply brings the runtime (crun) from the set   *)
(* applied last to the new one, one external command at a time.            *)
(* Containers exit by themselves, stops, pulls and starts fail, JetStream  *)
(* delivers again what was not acknowledged in time, and the agent or the  *)
(* whole guest restarts at any moment.                                     *)
(*                                                                         *)
(* One subscription goroutine calls Apply, so that the reconciler's mutex  *)
(* is never contended and is left out.                                     *)
(***************************************************************************)
EXTENDS Naturals, Sequences, FiniteSets, FiniteSetsExt

CONSTANTS Names,          \* of containers: numbers, in the names' lexical order
          Images, EnvKeys, EnvValues,
          None,
          ContainerSets,  \* the valid sets the control plane publishes
          Invalid,        \* a message that Validate rejects, or no JSON
          MaxPublished,   \* bounds: messages published,
          MaxRedelivered, \* messages delivered again,
          MaxRestarts     \* restarts of the agent or the guest

\* pod.WorkloadContainer: what makes it the same container, and what does not.
Specs == [image : Images, restart : {"no", "always"},
          env : UNION {[D -> EnvValues] : D \in SUBSET EnvKeys}]

NoContainers == [n \in Names |-> None]

ASSUME ContainersAssumption ==
  /\ Names \subseteq Nat /\ IsFiniteSet(Names) /\ IsFiniteSet(EnvKeys)
  /\ MaxRedelivered \in Nat /\ MaxRestarts \in Nat
  /\ None \notin Specs /\ Invalid \notin [Names -> Specs \cup {None}]
  /\ ContainerSets \subseteq [Names -> Specs \cup {None}]

VARIABLES
  log,        \* every message published on this VM's subject
  queue,      \* messages delivered and not handled yet, by their place in log
  unacked,    \* messages delivered to this consumer and not acknowledged
  subscribed,
  desired,    \* Reconciler.desired
  next,       \* Apply's locals: the new set,
  pc,         \*   where it is,
  todo,       \*   the names its loop has yet to visit,
  firstErr,   \*   the error it will return, "nil" or "error",
  cur,        \*   the message it applies
  last,       \* what the last Apply returned: "none", "ok", "failed"
  box,        \* the containers crun knows,
  exited,     \*   and those of them that are not running any more
  lost,       \* history: names whose container went, failed to start, or was
              \* there before this agent,
  stuck,      \*   and names whose container is not what the set says though no
              \*   error was recorded: it was not stopped, or passed for equal
  redelivered, restarts

agent   == <<desired, next, pc, todo, firstErr, cur, last>>
runtime == <<box, exited, lost, stuck>>
bus     == <<log, queue, unacked, subscribed, redelivered>>
vars    == <<agent, runtime, bus, restarts>>

TypeOK ==
  /\ log \in Seq(ContainerSets \cup {Invalid}) /\ queue \in Seq(1..Len(log))
  /\ unacked \subseteq 1..Len(log) /\ subscribed \in BOOLEAN /\ cur \in 0..Len(log)
  /\ desired \in [Names -> Specs \cup {None}] /\ next \in [Names -> Specs \cup {None}]
  /\ pc \in {"idle", "drop", "visit", "pull", "start"} /\ todo \subseteq Names
  /\ firstErr \in {"nil", "error"} /\ last \in {"none", "ok", "failed"}
  /\ box \in [Names -> Specs \cup {None}]
  /\ exited \subseteq {n \in Names : box[n] # None}
  /\ lost \subseteq Names /\ stuck \subseteq Names
  /\ redelivered \in 0..MaxRedelivered /\ restarts \in 0..MaxRestarts

Fresh ==
  /\ desired' = NoContainers /\ next' = NoContainers /\ pc' = "idle" /\ todo' = {}
  /\ firstErr' = "nil" /\ cur' = 0 /\ last' = "none"
  /\ subscribed' = FALSE /\ queue' = <<>> /\ unacked' = {}

Init ==
  /\ log = <<>> /\ queue = <<>> /\ unacked = {} /\ subscribed = FALSE
  /\ desired = NoContainers /\ next = NoContainers /\ pc = "idle" /\ todo = {}
  /\ firstErr = "nil" /\ cur = 0 /\ last = "none"
  /\ box = NoContainers /\ exited = {} /\ lost = {} /\ stuck = {}
  /\ redelivered = 0 /\ restarts = 0

(***************************************************************************)
(* The event bus.  The stream keeps one message per subject; a consumer    *)
(* created by Subscribe starts with that one.  A message that is not       *)
(* acknowledged within the ack wait is sent again if the stream still has  *)
(* it.                                                                     *)
(***************************************************************************)
Deliver(i) == queue' = Append(queue, i) /\ unacked' = unacked \cup {i}

Publish(message) ==
  /\ Len(log) < MaxPublished
  /\ log' = Append(log, message)
  /\ IF subscribed THEN Deliver(Len(log) + 1) ELSE UNCHANGED <<queue, unacked>>
  /\ UNCHANGED <<agent, runtime, subscribed, redelivered, restarts>>

\* Faulty variant: no MaxMsgsPerSubject, the stream keeps all messages.
RetainedAll == 1..Len(log)

Retained == {Len(log)} \ {0}

Redeliver(i) ==
  /\ subscribed /\ i \in Retained \cap unacked
  /\ redelivered < MaxRedelivered /\ redelivered' = redelivered + 1
  /\ Deliver(i)
  /\ UNCHANGED <<agent, runtime, log, subscribed, restarts>>

Subscribe ==
  /\ ~subscribed /\ subscribed' = TRUE
  /\ IF Retained = {} THEN UNCHANGED <<queue, unacked>> ELSE Deliver(Len(log))
  /\ UNCHANGED <<agent, runtime, log, redelivered, restarts>>

(***************************************************************************)
(* The commands of CrunRuntime.                                            *)
(***************************************************************************)
\* Stop reports no error, whether or not crun's kill and delete worked.
Stop(n) ==
  \/ /\ box' = [box EXCEPT ![n] = None] /\ exited' = exited \ {n}
     /\ lost' = lost \ {n} /\ stuck' = stuck \ {n}
  \/ /\ box[n] # None /\ stuck' = stuck \cup {n}
     /\ UNCHANGED <<box, exited, lost>>

\* The part of a spec that makes it the same container.
Identity(spec) == IF spec = None THEN None ELSE [image |-> spec.image, env |-> spec.env]

\* What a Go map of strings has under a key that is missing.
ZeroValue == ""

\* Annotations and restart policy do not count.
containerEqual(a, b) ==
  /\ a.image = b.image
  /\ Cardinality(DOMAIN a.env) = Cardinality(DOMAIN b.env)
  /\ \A k \in DOMAIN a.env : a.env[k] = IF k \in DOMAIN b.env THEN b.env[k] ELSE ZeroValue

(***************************************************************************)
(* The message handler: decode, Validate, the steps of Apply, and the      *)
(* acknowledgement, which is sent whatever Apply returned.                 *)
(***************************************************************************)
Ack(i) == unacked' = unacked \ {i}

Present(set) == {n \in Names : set[n] # None}

HandleMessage ==
  /\ pc = "idle" /\ queue # <<>>
  /\ queue' = Tail(queue)
  /\ LET i == Head(queue) IN
     IF log[i] = Invalid
     THEN Ack(i) /\ UNCHANGED agent
     ELSE /\ next' = log[i] /\ cur' = i /\ firstErr' = "nil"
          /\ pc' = "drop" /\ todo' = Present(desired) \ Present(log[i])
          /\ UNCHANGED <<unacked, desired, last>>
  /\ UNCHANGED <<runtime, log, subscribed, redelivered, restarts>>

\* Faulty variant: the loop ends after one container.
DropOne(n) ==
  /\ pc = "drop" /\ n \in todo
  /\ Stop(n)
  /\ todo' = {}
  /\ UNCHANGED <<desired, next, pc, firstErr, cur, last, bus, restarts>>

\* The loop over the old set, in the order of a Go map: any.
Drop(n) ==
  /\ pc = "drop" /\ n \in todo
  /\ Stop(n)
  /\ todo' = todo \ {n}
  /\ UNCHANGED <<desired, next, pc, firstErr, cur, last, bus, restarts>>

DropsDone ==
  /\ pc = "drop" /\ todo = {}
  /\ pc' = "visit" /\ todo' = Present(next)
  /\ UNCHANGED <<desired, next, firstErr, cur, last, runtime, bus, restarts>>

\* The loop over the new set, in the order of the names.
Current == Min(todo)

Leave == pc' = "visit" /\ todo' = todo \ {Current}

\* Faulty variant: the annotations and the restart policy count.
VisitCompareAll ==
  /\ pc = "visit" /\ todo # {}
  /\ IF desired[Current] = next[Current]
     THEN Leave /\ UNCHANGED runtime
     ELSE /\ pc' = "pull" /\ UNCHANGED todo
          /\ IF desired[Current] # None THEN Stop(Current) ELSE UNCHANGED runtime
  /\ UNCHANGED <<desired, next, firstErr, cur, last, bus, restarts>>

Visit ==
  /\ pc = "visit" /\ todo # {}
  /\ LET existed == desired[Current] # None IN
     IF existed /\ containerEqual(desired[Current], next[Current])
     THEN /\ Leave /\ UNCHANGED <<box, exited, lost>>
          /\ stuck' = IF Identity(desired[Current]) = Identity(next[Current])
                      THEN stuck ELSE stuck \cup {Current}
     ELSE /\ pc' = "pull" /\ UNCHANGED todo
          /\ IF existed THEN Stop(Current) ELSE UNCHANGED runtime
  /\ UNCHANGED <<desired, next, firstErr, cur, last, bus, restarts>>

Pull ==
  /\ pc = "pull"
  /\ pc' = "start"
  /\ UNCHANGED <<desired, next, todo, firstErr, cur, last, runtime, bus, restarts>>

\* The command fails: record the error, go on with the next container.
Miss ==
  /\ Leave /\ firstErr' = "error"
  /\ lost' = lost \cup {Current} /\ stuck' = stuck \ {Current}
  /\ UNCHANGED <<desired, next, cur, last, box, exited, bus, restarts>>

PullFails == pc = "pull" /\ Miss

\* crun refuses a name it knows, even if that container has exited.
Start ==
  /\ pc = "start" /\ box[Current] = None
  /\ box' = [box EXCEPT ![Current] = next[Current]]
  /\ lost' = lost \ {Current} /\ stuck' = stuck \ {Current}
  /\ Leave
  /\ UNCHANGED <<desired, next, firstErr, cur, last, exited, bus, restarts>>

StartFails == pc = "start" /\ Miss

\* Apply returns: its locals go.
Return ==
  /\ pc = "visit" /\ todo = {}
  /\ desired' = next
  /\ pc' = "idle" /\ last' = IF firstErr = "error" THEN "failed" ELSE "ok"
  /\ next' = NoContainers /\ firstErr' = "nil" /\ cur' = 0
  /\ Ack(cur)
  /\ UNCHANGED <<todo, runtime, log, queue, subscribed, redelivered, restarts>>

Reconcile == \/ HandleMessage \/ (\E n \in Names : Drop(n)) \/ DropsDone
             \/ Visit \/ Pull \/ PullFails \/ Start \/ StartFails \/ Return

(***************************************************************************)
(* What happens to the containers and to the agent.                        *)
(***************************************************************************)
Exits(n) ==
  /\ box[n] # None /\ n \notin exited
  /\ exited' = exited \cup {n} /\ lost' = lost \cup {n}
  /\ UNCHANGED <<agent, box, stuck, bus, restarts>>

\* Another process with an empty set takes over; crun's containers stay.
AgentRestarts ==
  /\ restarts < MaxRestarts /\ restarts' = restarts + 1
  /\ Fresh /\ lost' = Present(box) /\ stuck' = {}
  /\ UNCHANGED <<log, redelivered, box, exited>>

\* crun keeps its state under /run.
GuestReboots ==
  /\ restarts < MaxRestarts /\ restarts' = restarts + 1
  /\ Fresh /\ box' = NoContainers /\ exited' = {} /\ lost' = {} /\ stuck' = {}
  /\ UNCHANGED <<log, redelivered>>

Next ==
  \/ Reconcile \/ Subscribe \/ AgentRestarts \/ GuestReboots
  \/ \E message \in ContainerSets \cup {Invalid} : Publish(message)
  \/ \E i \in 1..Len(log) : Redeliver(i)
  \/ \E n \in Names : Exits(n)

Spec == Init /\ [][Next]_vars

\* Commands return and the handler goes on; an agent that starts subscribes.
FairSpec == Spec /\ WF_vars(Reconcile) /\ WF_vars(Subscribe)

-----------------------------------------------------------------------------
(***************************************************************************)
(* Properties.                                                             *)
(***************************************************************************)
Replaced == INSTANCE ReplaceSet WITH
  Values <- [image : Images, env : UNION {[D -> EnvValues] : D \in SUBSET EnvKeys}],
  want   <- [n \in Names |-> Identity(IF pc = "idle" THEN desired[n] ELSE next[n])],
  have   <- [n \in Names |-> IF n \in exited THEN None ELSE Identity(box[n])],
  lost   <- lost \cup stuck,
  base   <- [n \in Names |-> IF pc = "idle" \/ last # "ok" THEN None ELSE Identity(desired[n])],
  status <- CASE pc # "idle" /\ firstErr = "nil"   -> "applying"
              [] pc # "idle" /\ firstErr = "error" -> "failing"
              [] pc = "idle" /\ last = "ok"        -> "applied"
              [] pc = "idle" /\ last = "failed"    -> "failed"
              [] OTHER                             -> "idle"

\* "Apply converges the runtime to s": through exits, failing commands, repeated
\* deliveries and restarts, a container only ever becomes the one the set names or
\* nothing, one that stays the same is not restarted, a failing pull or start is
\* reported by the Apply it happens in, and success means that the runtime has the
\* set, except for containers that went by themselves, whose failure was reported,
\* that an earlier agent left, or that crun did not stop or containerEqual took for
\* the new ones.
ImplementsReplaceSet == Replaced!Spec

\* "Drops first so a rename settles cleanly": when the first container of the
\* new set is looked at, those that left the set are gone, or crun was told to
\* stop them and did not.
DropsFirst ==
  pc \in {"visit", "pull", "start"} =>
    \A n \in Present(desired) \ Present(next) : box[n] = None \/ n \in stuck

\* Late deliveries, deliveries of what was applied already and restarts do not
\* leave an old set in force: once the publisher is done, the reconciler ends
\* with the set published last.
ConvergesToLatest ==
  <>[](log # <<>> /\ log[Len(log)] # Invalid => subscribed /\ desired = log[Len(log)])

\* "Apply converges the runtime to s": after a successful Apply of the set, all
\* of it runs, containers that exited by themselves aside.
ApplyConverges ==
  (pc = "idle" /\ last = "ok") => \A n \in Present(desired) \ exited : box[n] # None

\* The same of what Apply did itself: after it reports success no container is left
\* that it should have stopped or replaced.
NothingStuck == (pc = "idle" /\ last = "ok") => stuck = {}

\* "used to seed the diff after a JetStream replay": after a successful Apply
\* nothing runs that the set does not name.
ReplaySeedsDiff == (pc = "idle" /\ last = "ok") => Present(box) \subseteq Present(desired)

\* "Restart=always is honoured by the agent's reconciler layer": a container that
\* exits is started again or leaves the set.
RestartHonoured ==
  \A n \in Names :
    (n \in exited /\ box[n].restart = "always") ~> (n \notin exited)
=============================================================================

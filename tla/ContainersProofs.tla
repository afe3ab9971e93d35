-------------------------- MODULE ContainersProofs --------------------------
(***************************************************************************)
(* The reconciler implements ReplaceSet: for every set of names, images    *)
(* and environments, and any number of messages, failing commands,         *)
(* redeliveries and restarts.                                              *)
(***************************************************************************)
EXTENDS Containers, FiniteSetTheorems, WellFoundedInduction, TLAPS

Types ==
  /\ log \in Seq(ContainerSets \cup {Invalid}) /\ queue \in Seq(Nat)
  /\ \A i \in 1..Len(queue) : queue[i] \in 1..Len(log)
  /\ desired \in [Names -> Specs \cup {None}] /\ next \in [Names -> Specs \cup {None}]
  /\ box \in [Names -> Specs \cup {None}]
  /\ pc \in {"idle", "drop", "visit", "pull", "start"} /\ todo \subseteq Names
  /\ firstErr \in {"nil", "error"} /\ last \in {"none", "ok", "failed"}
  /\ lost \subseteq Names /\ stuck \subseteq Names /\ exited \subseteq lost
  /\ \A n \in exited : box[n] # None

\* The runtime has what the set says, or the agent does not answer for the name.
Match(n, set) == n \in lost \/ n \in stuck \/ Identity(box[n]) = Identity(set[n])

Dropped(n) == desired[n] # None /\ next[n] = None
Same(n) == desired[n] # None /\ Identity(desired[n]) = Identity(next[n])

\* Between two messages the runtime matches the set applied last.
IdleInv == pc = "idle" => \A n \in Names : Match(n, desired)

\* The container is gone, or was not stopped.
Away(n) == box[n] = None \/ n \in stuck

\* Containers that leave the set go one by one, the others are as they were.
DropInv ==
  pc = "drop" =>
    /\ \A n \in todo : Dropped(n)
    /\ \A n \in Names : IF Dropped(n) /\ n \notin todo THEN Away(n) ELSE Match(n, desired)

\* The names visited match the new set, those to come the old one.
VisitInv ==
  pc \in {"visit", "pull", "start"} =>
    /\ todo \subseteq Present(next)
    /\ \A n \in Names : Dropped(n) => Away(n)
    /\ \A n \in Names \ todo : Match(n, next)
    /\ \A n \in todo : (n = Current /\ pc # "visit") \/ Match(n, desired)

\* A container is pulled and started only if it is new or another one.
StartInv ==
  pc \in {"pull", "start"} => todo # {} /\ ~Same(Current)

IInv == Types /\ IdleInv /\ DropInv /\ VisitInv /\ StartInv

LEMMA CurrentIn == ASSUME todo \subseteq Names, todo # {} PROVE Current \in todo
<1> DEFINE R == {p \in Nat \X Nat : p[1] < p[2]}
<1>1. todo \subseteq Nat
  BY ContainersAssumption
<1>2. IsWellFoundedOn(R, Nat)
  BY NatLessThanWellFounded, Zenon DEF OpToRel
<1> HIDE DEF R
<1>3. PICK i \in todo : \A j \in todo : <<j, i>> \notin R
  BY <1>1, <1>2, WFMin, Zenon
<1>4. ASSUME NEW j \in todo PROVE i <= j
  <2>1. <<j, i>> \in Nat \X Nat /\ <<j, i>> \notin R
    BY <1>1, <1>3
  <2> QED BY <2>1, <1>1 DEF R
<1>5. \E x \in todo : \A j \in todo : x <= j
  BY <1>4
<1> QED BY <1>5 DEF Current, Min

LEMMA IdentityNone == Identity(None) = None
  BY DEF Identity

\* containerEqual tells no container from the same one; but it may take another for it.
LEMMA SameIsEqual ==
  ASSUME NEW a \in Specs, NEW b \in Specs, Identity(a) = Identity(b)
  PROVE  containerEqual(a, b)
<1>1. a # None /\ b # None
  BY ContainersAssumption
<1>2. a.image = b.image /\ a.env = b.env
  BY <1>1 DEF Identity
<1> QED BY <1>2 DEF containerEqual

LEMMA InitHolds == Init => IInv
<1> SUFFICES ASSUME Init PROVE IInv
  OBVIOUS
<1>1. Types
  BY DEF Init, Types, NoContainers
<1> QED BY <1>1 DEF Init, IInv, IdleInv, DropInv, VisitInv, StartInv, Match, NoContainers

\* A step of the bus changes neither the reconciler nor the runtime.
LEMMA BusPreserves ==
  ASSUME IInv, UNCHANGED <<agent, runtime>>,
         \/ Subscribe
         \/ \E message \in ContainerSets \cup {Invalid} : Publish(message)
         \/ \E i \in 1..Len(log) : Redeliver(i)
         \/ UNCHANGED <<log, queue>>
  PROVE  IInv'
<1>1. /\ log \in Seq(ContainerSets \cup {Invalid}) /\ queue \in Seq(Nat) /\ Len(log) \in Nat
      /\ \A i \in 1..Len(queue) : queue[i] \in 1..Len(log)
  BY DEF IInv, Types
<1>2. PICK m \in Nat : m = Len(log)
  BY <1>1
<1>3. log' \in Seq(ContainerSets \cup {Invalid}) /\ m <= Len(log')
  <2>1. CASE log' = log
    BY <1>1, <1>2, <2>1
  <2>2. ASSUME NEW message \in ContainerSets \cup {Invalid}, log' = Append(log, message)
        PROVE  log' \in Seq(ContainerSets \cup {Invalid}) /\ m <= Len(log')
    BY <1>1, <1>2, <2>2
  <2> QED BY <2>1, <2>2 DEF Subscribe, Publish, Redeliver
<1>4. queue' = queue \/ \E i \in 1..Len(log') : queue' = Append(queue, i)
  <2>1. CASE Subscribe
    BY <1>1, <1>2, <1>3, <2>1 DEF Subscribe, Deliver, Retained
  <2>2. CASE \E message \in ContainerSets \cup {Invalid} : Publish(message)
    BY <1>1, <1>2, <1>3, <2>2 DEF Publish, Deliver
  <2>3. CASE \E i \in 1..Len(log) : Redeliver(i)
    BY <1>1, <2>3 DEF Redeliver, Deliver
  <2> QED BY <2>1, <2>2, <2>3
<1>5. queue' \in Seq(Nat) /\ \A i \in 1..Len(queue') : queue'[i] \in 1..Len(log')
  <2>1. \A i \in 1..Len(queue) : queue[i] \in 1..Len(log')
    BY <1>1, <1>2, <1>3
  <2>2. CASE queue' = queue
    BY <1>1, <2>1, <2>2
  <2>3. ASSUME NEW i \in 1..Len(log'), queue' = Append(queue, i)
        PROVE  queue' \in Seq(Nat) /\ \A j \in 1..Len(queue') : queue'[j] \in 1..Len(log')
    <3>1. i \in Nat
      BY <1>3
    <3> QED BY <1>1, <2>1, <2>3, <3>1
  <2> QED BY <1>4, <2>2, <2>3
<1> QED BY <1>3, <1>5 DEF IInv, Types, IdleInv, DropInv, VisitInv, StartInv, Match, Away, Dropped, Same,
        Current, agent, runtime

\* Decoding a message and starting Apply, or refusing the message.
LEMMA HandlePreserves == ASSUME IInv, HandleMessage PROVE IInv'
<1>1. /\ log \in Seq(ContainerSets \cup {Invalid}) /\ queue \in Seq(Nat) /\ queue # <<>>
      /\ \A i \in 1..Len(queue) : queue[i] \in 1..Len(log)
      /\ log' = log /\ queue' = Tail(queue) /\ UNCHANGED <<box, exited, lost, stuck>>
  BY DEF IInv, Types, HandleMessage, runtime
<1>2. queue' \in Seq(Nat) /\ \A i \in 1..Len(queue') : queue'[i] \in 1..Len(log')
  BY <1>1
<1>3. PICK i \in 1..Len(log) : i = Head(queue)
  <2>1. 1 \in 1..Len(queue) /\ Head(queue) = queue[1]
    BY <1>1
  <2> QED BY <1>1, <2>1
<1>4. CASE log[i] = Invalid
  <2>1. UNCHANGED <<desired, next, pc, todo, firstErr, last>>
    BY <1>3, <1>4 DEF HandleMessage, agent
  <2> QED BY <1>1, <1>2, <2>1 DEF IInv, Types, IdleInv, DropInv, VisitInv, StartInv, Match, Away, Dropped, Same, Current
<1>5. CASE log[i] # Invalid
  <2>1. /\ pc = "idle" /\ next' = log[i] /\ firstErr' = "nil" /\ pc' = "drop"
        /\ todo' = Present(desired) \ Present(log[i]) /\ UNCHANGED <<desired, last>>
    BY <1>3, <1>5 DEF HandleMessage
  <2>2. next' \in [Names -> Specs \cup {None}]
    BY <1>1, <1>5, <2>1, ContainersAssumption
  <2>3. Types'
    BY <1>1, <1>2, <2>1, <2>2 DEF IInv, Types, Present
  <2>4. DropInv'
    BY <1>1, <2>1 DEF IInv, IdleInv, DropInv, Dropped, Match, Present
  <2> QED BY <2>1, <2>3, <2>4 DEF IInv, IdleInv, VisitInv, StartInv
<1> QED BY <1>4, <1>5

\* The steps of Apply.
LEMMA DropPreserves == ASSUME IInv, NEW n \in Names, Drop(n) PROVE IInv'
<1>1. /\ pc = "drop" /\ n \in todo /\ todo' = todo \ {n}
      /\ UNCHANGED <<desired, next, pc, firstErr, last, log, queue>>
  BY DEF Drop, bus
<1>2. CASE /\ box' = [box EXCEPT ![n] = None] /\ exited' = exited \ {n}
           /\ lost' = lost \ {n} /\ stuck' = stuck \ {n}
  <2>1. Types'
    BY <1>1, <1>2 DEF IInv, Types
  <2>2. \A m \in Names : box'[m] = IF m = n THEN None ELSE box[m]
    BY <1>2 DEF IInv, Types
  <2>3. DropInv'
    BY <1>1, <1>2, <2>2 DEF IInv, DropInv, Dropped, Match, Away
  <2> QED BY <1>1, <2>1, <2>3 DEF IInv, IdleInv, VisitInv, StartInv
<1>3. CASE stuck' = stuck \cup {n} /\ UNCHANGED <<box, exited, lost>>
  <2>1. Types'
    BY <1>1, <1>3 DEF IInv, Types
  <2>2. DropInv'
    BY <1>1, <1>3 DEF IInv, DropInv, Dropped, Match, Away
  <2> QED BY <1>1, <2>1, <2>2 DEF IInv, IdleInv, VisitInv, StartInv
<1> QED BY <1>2, <1>3, Zenon DEF Drop, Stop

LEMMA DropsDonePreserves == ASSUME IInv, DropsDone PROVE IInv'
<1>1. /\ pc = "drop" /\ todo = {} /\ pc' = "visit" /\ todo' = Present(next)
      /\ UNCHANGED <<desired, next, firstErr, last, log, queue, box, exited, lost, stuck>>
  BY DEF DropsDone, bus, runtime
<1>2. Types'
  BY <1>1 DEF IInv, Types, Present
<1>3. VisitInv'
  BY <1>1 DEF IInv, DropInv, VisitInv, Dropped, Match, Away, Present
<1> QED BY <1>1, <1>2, <1>3 DEF IInv, IdleInv, DropInv, StartInv

LEMMA VisitPreserves == ASSUME IInv, Visit PROVE IInv'
<1>1. /\ pc = "visit" /\ todo # {}
      /\ UNCHANGED <<desired, next, firstErr, last, log, queue>>
  BY DEF Visit, bus
<1>2. PICK c \in todo : c = Current
  BY <1>1, CurrentIn DEF IInv, Types
<1>3. c \in Names /\ next[c] \in Specs /\ Match(c, desired)
  BY <1>1, <1>2 DEF IInv, Types, VisitInv, Present
<1>4. CASE desired[c] # None /\ containerEqual(desired[c], next[c])
  <2>1. /\ pc' = "visit" /\ todo' = todo \ {c} /\ UNCHANGED <<box, exited, lost>>
        /\ stuck' = IF Identity(desired[c]) = Identity(next[c]) THEN stuck ELSE stuck \cup {c}
    BY <1>2, <1>4, Zenon DEF Visit, Leave
  <2>2. Types'
    BY <1>1, <2>1 DEF IInv, Types
  <2>3. VisitInv'
    BY <1>1, <1>3, <2>1 DEF IInv, VisitInv, Dropped, Match, Away
  <2> QED BY <2>1, <2>2, <2>3 DEF IInv, IdleInv, DropInv, StartInv
<1>5. CASE ~(desired[c] # None /\ containerEqual(desired[c], next[c]))
  <2>1. pc' = "pull" /\ todo' = todo
    BY <1>2, <1>5 DEF Visit
  <2>2. ~Same(c)
    BY <1>3, <1>5, SameIsEqual DEF IInv, Types, Same
  <2>3. \/ /\ box' = [box EXCEPT ![c] = None] /\ exited' = exited \ {c}
           /\ lost' = lost \ {c} /\ stuck' = stuck \ {c}
        \/ stuck' = stuck \cup {c} /\ UNCHANGED <<box, exited, lost>>
        \/ UNCHANGED <<box, exited, lost, stuck>>
    BY <1>2, <1>5, Zenon DEF Visit, Stop, runtime
  <2>4. \A m \in Names : m # c => /\ box'[m] = box[m] /\ (m \in lost' <=> m \in lost)
                                 /\ (m \in stuck' <=> m \in stuck)
    BY <2>3 DEF IInv, Types
  <2>5. Types'
    BY <1>1, <1>3, <2>1, <2>3 DEF IInv, Types
  <2>6. c = Current'
    BY <1>2, <2>1 DEF Current
  <2>7. VisitInv'
    <3>1. c \in todo' /\ todo' \subseteq Present(next')
      BY <1>1, <1>2, <2>1 DEF IInv, VisitInv
    <3>2. ASSUME NEW m \in Names, Dropped(m)' PROVE Away(m)'
      <4>1. m # c /\ Dropped(m)
        BY <1>1, <1>3, <3>2, ContainersAssumption DEF Dropped
      <4> QED BY <1>1, <2>4, <4>1 DEF IInv, VisitInv, Away
    <3>3. ASSUME NEW m \in Names \ todo' PROVE Match(m, next)'
      <4>1. m # c /\ Match(m, next)
        BY <1>1, <1>2, <2>1 DEF IInv, VisitInv
      <4> QED BY <1>1, <2>4, <4>1 DEF Match
    <3>4. ASSUME NEW m \in todo', m # c PROVE Match(m, desired)'
      <4>1. m \in Names /\ Match(m, desired)
        BY <1>1, <2>1 DEF IInv, VisitInv, Types
      <4> QED BY <1>1, <2>4, <3>4, <4>1 DEF Match
    <3> QED BY <2>1, <2>6, <3>1, <3>2, <3>3, <3>4 DEF VisitInv
  <2>8. StartInv'
    BY <1>1, <2>1, <2>2, <2>6 DEF StartInv, Same
  <2> QED BY <2>1, <2>5, <2>7, <2>8 DEF IInv, IdleInv, DropInv
<1> QED BY <1>4, <1>5

LEMMA PullPreserves == ASSUME IInv, Pull PROVE IInv'
<1>1. /\ pc = "pull" /\ pc' = "start"
      /\ UNCHANGED <<desired, next, todo, firstErr, last, log, queue, box, exited, lost, stuck>>
  BY DEF Pull, bus, runtime
<1> QED BY <1>1 DEF IInv, Types, IdleInv, DropInv, VisitInv, StartInv, Match, Away, Dropped, Same, Current

LEMMA MissPreserves == ASSUME IInv, PullFails \/ StartFails PROVE IInv'
<1>1. pc \in {"pull", "start"}
  BY DEF PullFails, StartFails
<1>2. PICK c \in todo : c = Current
  BY <1>1, CurrentIn DEF IInv, Types, StartInv
<1>3. /\ pc' = "visit" /\ todo' = todo \ {c} /\ firstErr' = "error"
      /\ lost' = lost \cup {c} /\ stuck' = stuck \ {c}
      /\ UNCHANGED <<desired, next, last, log, queue, box, exited>>
  BY <1>2 DEF PullFails, StartFails, Miss, Leave, bus
<1>4. Types'
  BY <1>3 DEF IInv, Types
<1>5. VisitInv'
  <2>1. c \in Names /\ next[c] # None
    BY <1>1 DEF IInv, Types, VisitInv, Present
  <2> QED BY <1>1, <1>2, <1>3, <2>1 DEF IInv, VisitInv, Dropped, Match, Away
<1> QED BY <1>3, <1>4, <1>5 DEF IInv, IdleInv, DropInv, StartInv

LEMMA StartPreserves == ASSUME IInv, Start PROVE IInv'
<1>1. pc = "start"
  BY DEF Start
<1>2. PICK c \in todo : c = Current
  BY <1>1, CurrentIn DEF IInv, Types, StartInv
<1>3. /\ pc' = "visit" /\ todo' = todo \ {c} /\ box[c] = None
      /\ box' = [box EXCEPT ![c] = next[c]] /\ lost' = lost \ {c} /\ stuck' = stuck \ {c}
      /\ UNCHANGED <<desired, next, firstErr, last, log, queue, exited>>
  BY <1>2 DEF Start, Leave, bus
<1>4. c \in Names /\ c \notin exited /\ next[c] # None
  BY <1>1, <1>3 DEF IInv, Types, VisitInv, Present
<1>5. \A m \in Names : box'[m] = IF m = c THEN next[c] ELSE box[m]
  BY <1>3 DEF IInv, Types
<1>6. Types'
  BY <1>3, <1>4 DEF IInv, Types
<1>7. VisitInv'
  <2>1. todo' \subseteq Present(next')
    BY <1>1, <1>3 DEF IInv, VisitInv
  <2>2. ASSUME NEW m \in Names, Dropped(m)' PROVE Away(m)'
    <3>1. m # c /\ Dropped(m)
      BY <1>3, <1>4, <2>2 DEF Dropped
    <3> QED BY <1>1, <1>3, <1>5, <3>1 DEF IInv, VisitInv, Away
  <2>3. ASSUME NEW m \in Names \ todo' PROVE Match(m, next)'
    <3>1. CASE m = c
      BY <1>3, <1>5, <3>1 DEF Match
    <3>2. CASE m # c
      <4>1. Match(m, next)
        BY <1>1, <1>3, <3>2 DEF IInv, VisitInv
      <4> QED BY <1>3, <1>5, <3>2, <4>1 DEF Match
    <3> QED BY <3>1, <3>2
  <2>4. ASSUME NEW m \in todo' PROVE Match(m, desired)'
    <3>1. m \in Names /\ m # c /\ Match(m, desired)
      BY <1>1, <1>2, <1>3 DEF IInv, VisitInv, Types
    <3> QED BY <1>3, <1>5, <3>1 DEF Match
  <2> QED BY <1>3, <2>1, <2>2, <2>3, <2>4 DEF VisitInv
<1> QED BY <1>3, <1>6, <1>7 DEF IInv, IdleInv, DropInv, StartInv

LEMMA ReturnPreserves == ASSUME IInv, Return PROVE IInv'
<1>1. /\ pc = "visit" /\ todo = {} /\ desired' = next /\ pc' = "idle" /\ next' = NoContainers
      /\ last' \in {"ok", "failed"} /\ firstErr' = "nil"
      /\ UNCHANGED <<todo, log, queue, box, exited, lost, stuck>>
  BY DEF Return, runtime
<1>2. Types'
  BY <1>1 DEF IInv, Types, NoContainers
<1>3. IdleInv'
  BY <1>1 DEF IInv, VisitInv, IdleInv, Match
<1> QED BY <1>1, <1>2, <1>3 DEF IInv, DropInv, VisitInv, StartInv

\* Containers that exit, and restarts of the agent and of the guest.
LEMMA ExitsPreserves == ASSUME IInv, NEW n \in Names, Exits(n) PROVE IInv'
<1>1. /\ box[n] # None /\ exited' = exited \cup {n} /\ lost' = lost \cup {n}
      /\ UNCHANGED <<desired, next, pc, todo, firstErr, last, log, queue, box, stuck>>
  BY DEF Exits, agent, bus
<1>2. Types'
  BY <1>1 DEF IInv, Types
<1>3. IdleInv' /\ DropInv'
  BY <1>1 DEF IInv, IdleInv, DropInv, Match, Away, Dropped
<1>4. VisitInv' /\ StartInv'
  BY <1>1 DEF IInv, VisitInv, StartInv, Match, Away, Dropped, Same, Current
<1> QED BY <1>2, <1>3, <1>4 DEF IInv

LEMMA RestartPreserves == ASSUME IInv, AgentRestarts \/ GuestReboots PROVE IInv'
<1>1. /\ desired' = NoContainers /\ next' = NoContainers /\ pc' = "idle" /\ todo' = {}
      /\ firstErr' = "nil" /\ last' = "none" /\ queue' = <<>> /\ log' = log
  BY DEF AgentRestarts, GuestReboots, Fresh
<1>2. /\ \/ box' = box /\ exited' = exited /\ lost' = Present(box)
         \/ box' = NoContainers /\ exited' = {} /\ lost' = {}
      /\ stuck' = {}
  BY DEF AgentRestarts, GuestReboots
<1>3. Types'
  BY <1>1, <1>2 DEF IInv, Types, NoContainers, Present
<1>4. IdleInv'
  BY <1>1, <1>2 DEF IdleInv, Match, NoContainers, Present
<1> QED BY <1>1, <1>3, <1>4, Zenon DEF IInv, DropInv, VisitInv, StartInv

LEMMA StepPreserves == IInv /\ [Next]_vars => IInv'
<1> SUFFICES ASSUME IInv, [Next]_vars PROVE IInv'
  OBVIOUS
<1>1. CASE Subscribe \/ (\E message \in ContainerSets \cup {Invalid} : Publish(message))
           \/ (\E i \in 1..Len(log) : Redeliver(i)) \/ UNCHANGED vars
  <2>1. UNCHANGED <<agent, runtime>>
    BY <1>1 DEF Subscribe, Publish, Redeliver, vars
  <2> QED BY <1>1, <2>1, BusPreserves DEF vars, bus
<1> QED BY <1>1, HandlePreserves, DropPreserves, DropsDonePreserves, VisitPreserves, PullPreserves,
        MissPreserves, StartPreserves, ReturnPreserves, ExitsPreserves, RestartPreserves, Zenon
        DEF Next, Reconcile

LEMMA Invariant == Spec => []IInv
BY StepPreserves, InitHolds, PTL DEF Spec

\* "Drops first so a rename settles cleanly": no container of the new set is looked
\* at before each that left it is gone or crun failed to stop it, for any sets and
\* any order of the drops.
THEOREM DropsBeforeStarts == Spec => []DropsFirst
<1>1. IInv => DropsFirst
  BY DEF IInv, VisitInv, DropsFirst, Dropped, Away, Present
<1> QED BY <1>1, Invariant, PTL

-----------------------------------------------------------------------------
(***************************************************************************)
(* The refinement.                                                         *)
(***************************************************************************)
\* The variables of ReplaceSet, as Replaced gives them.
AbsWant   == [n \in Names |-> Identity(IF pc = "idle" THEN desired[n] ELSE next[n])]
AbsHave   == [n \in Names |-> IF n \in exited THEN None ELSE Identity(box[n])]
AbsBase   == [n \in Names |-> IF pc = "idle" \/ last # "ok" THEN None ELSE Identity(desired[n])]
AbsLost   == lost \cup stuck
AbsStatus == CASE pc # "idle" /\ firstErr = "nil"   -> "applying"
               [] pc # "idle" /\ firstErr = "error" -> "failing"
               [] pc = "idle" /\ last = "ok"        -> "applied"
               [] pc = "idle" /\ last = "failed"    -> "failed"
               [] OTHER                             -> "idle"

LEMMA StatusIs ==
  /\ pc # "idle" /\ firstErr = "nil" => AbsStatus = "applying"
  /\ pc # "idle" /\ firstErr = "error" => AbsStatus = "failing"
  /\ pc = "idle" /\ last = "ok" => AbsStatus = "applied"
  /\ pc = "idle" /\ last = "failed" => AbsStatus = "failed"
  /\ pc = "idle" /\ last = "none" => AbsStatus = "idle"
  BY DEF AbsStatus

LEMMA StatusWillBe ==
  /\ pc' # "idle" /\ firstErr' = "nil" => AbsStatus' = "applying"
  /\ pc' # "idle" /\ firstErr' = "error" => AbsStatus' = "failing"
  /\ pc' = "idle" /\ last' = "ok" => AbsStatus' = "applied"
  /\ pc' = "idle" /\ last' = "failed" => AbsStatus' = "failed"
  /\ pc' = "idle" /\ last' = "none" => AbsStatus' = "idle"
  BY DEF AbsStatus

LEMMA SetsOfSpecs ==
  ASSUME NEW set \in [Names -> Specs \cup {None}]
  PROVE  [n \in Names |-> Identity(set[n])] \in Replaced!Sets
<1>1. ASSUME NEW x \in Specs
      PROVE  Identity(x) \in [image : Images, env : UNION {[D -> EnvValues] : D \in SUBSET EnvKeys}]
  <2>1. x.image \in Images /\ x.env \in UNION {[D -> EnvValues] : D \in SUBSET EnvKeys} /\ x # None
    BY ContainersAssumption DEF Specs
  <2> QED BY <2>1 DEF Identity
<1> QED BY <1>1, IdentityNone DEF Replaced!Sets

\* No container runs at first.
LEMMA InitImplements == Init => Replaced!Init
<1> SUFFICES ASSUME Init PROVE Replaced!Init
  OBVIOUS
<1>1. AbsStatus = "idle"
  BY StatusIs DEF Init
<1>2. AbsWant = Replaced!Empty /\ AbsBase = Replaced!Empty /\ AbsHave = Replaced!Empty
  BY IdentityNone DEF Init, NoContainers, AbsWant, AbsBase, AbsHave, Replaced!Empty
<1>3. Replaced!Empty \in Replaced!Sets
  BY DEF Replaced!Empty, Replaced!Sets
<1>4. AbsLost \in SUBSET Names
  BY DEF Init, AbsLost
<1> QED BY <1>1, <1>2, <1>3, <1>4 DEF Replaced!Init, AbsStatus, AbsWant, AbsBase, AbsHave, AbsLost

\* Steps that change neither the sets, nor the runtime, nor the outcome.
LEMMA Stutters ==
  ASSUME IInv, (pc = "idle") <=> (pc' = "idle"),
         UNCHANGED <<desired, next, firstErr, last, box, exited, lost, stuck>>
  PROVE  UNCHANGED Replaced!vars
<1>1. AbsStatus' = AbsStatus
  BY StatusIs, StatusWillBe DEF IInv, Types
<1>2. AbsWant' = AbsWant /\ AbsBase' = AbsBase /\ AbsHave' = AbsHave /\ AbsLost' = AbsLost
  BY DEF AbsWant, AbsBase, AbsHave, AbsLost
<1> QED BY <1>1, <1>2 DEF Replaced!vars, AbsStatus, AbsWant, AbsBase, AbsHave, AbsLost

\* A valid message is accepted.
LEMMA HandleImplements ==
  ASSUME IInv, IInv', HandleMessage PROVE Replaced!Accept \/ UNCHANGED Replaced!vars
<1>1. CASE UNCHANGED agent
  BY <1>1, Stutters DEF HandleMessage, agent, runtime
<1>2. CASE ~UNCHANGED agent
  <2>1. /\ pc = "idle" /\ pc' = "drop" /\ firstErr' = "nil"
        /\ UNCHANGED <<desired, last, box, exited, lost, stuck>>
    BY <1>2 DEF HandleMessage, runtime
  <2>2. AbsStatus \notin {"applying", "failing"} /\ AbsStatus' = "applying"
    BY <2>1, StatusIs, StatusWillBe DEF IInv, Types
  <2>3. AbsStatus = "applied" <=> last = "ok"
    BY <2>1, StatusIs DEF IInv, Types
  <2>4. AbsBase' = IF AbsStatus = "applied" THEN AbsWant ELSE Replaced!Empty
    BY <2>1, <2>3 DEF AbsBase, AbsWant, Replaced!Empty
  <2>5. AbsWant' \in Replaced!Sets
    <3>1. [n \in Names |-> Identity(next'[n])] \in Replaced!Sets
      BY SetsOfSpecs DEF IInv, Types
    <3> QED BY <2>1, <3>1 DEF AbsWant
  <2>6. AbsHave' = AbsHave /\ AbsLost' = AbsLost
    BY <2>1 DEF AbsHave, AbsLost
  <2> QED BY <2>1, <2>2, <2>4, <2>5, <2>6 DEF Replaced!Accept, Replaced!Busy, AbsStatus, AbsWant, AbsBase, AbsHave, AbsLost
<1> QED BY <1>1, <1>2

\* While a set is applied: one container goes or is put there.
LEMMA ReplaceImplements ==
  ASSUME IInv, pc # "idle", pc' # "idle", UNCHANGED <<desired, next, firstErr, last>>,
         NEW n \in Names, next[n] = None \/ ~Same(n),
         NEW v \in {None, Identity(next[n])}, AbsHave' = [AbsHave EXCEPT ![n] = v],
         AbsLost' \in {AbsLost, AbsLost \ {n}}
  PROVE  Replaced!Next
<1>1. AbsStatus' = AbsStatus /\ AbsStatus \in {"applying", "failing"} /\ AbsWant' = AbsWant /\ AbsBase' = AbsBase
  BY StatusIs, StatusWillBe DEF IInv, Types, AbsWant, AbsBase
<1>2. AbsWant[n] = Identity(next[n])
  BY DEF AbsWant
<1>3. ~(AbsBase[n] = AbsWant[n] /\ AbsWant[n] # None)
  BY <1>2, IdentityNone DEF AbsBase, Same
<1>4. Replaced!Replace(n)
  BY <1>1, <1>2, <1>3, Zenon DEF Replaced!Replace, Replaced!Busy, Replaced!Kept, AbsStatus, AbsWant, AbsBase, AbsHave, AbsLost
<1> QED BY <1>4 DEF Replaced!Next

\* While a set is applied: a container stays as it was, unnoticed.
LEMMA StayImplements ==
  ASSUME IInv, pc # "idle", pc' # "idle", UNCHANGED <<desired, next, firstErr, last, box, exited, lost>>,
         NEW n \in Names, next[n] = None \/ ~Same(n), stuck' = stuck \cup {n}
  PROVE  Replaced!Next
<1>1. AbsStatus' = AbsStatus /\ AbsStatus \in {"applying", "failing"} /\ AbsWant' = AbsWant /\ AbsBase' = AbsBase
  BY StatusIs, StatusWillBe DEF IInv, Types, AbsWant, AbsBase
<1>2. AbsWant[n] = Identity(next[n])
  BY DEF AbsWant
<1>3. ~(AbsBase[n] = AbsWant[n] /\ AbsWant[n] # None)
  BY <1>2, IdentityNone DEF AbsBase, Same
<1>4. AbsHave' = AbsHave /\ AbsLost' = AbsLost \cup {n}
  BY DEF AbsHave, AbsLost
<1>5. Replaced!Stay(n)
  BY <1>1, <1>3, <1>4, Zenon DEF Replaced!Stay, Replaced!Busy, Replaced!Kept, AbsStatus, AbsWant, AbsBase, AbsHave, AbsLost
<1> QED BY <1>5 DEF Replaced!Next

\* Stopping a container empties its place, or leaves it as it was.
LEMMA StopImplements ==
  ASSUME IInv, pc # "idle", pc' # "idle", UNCHANGED <<desired, next, firstErr, last>>,
         NEW n \in Names, next[n] = None \/ ~Same(n), Stop(n)
  PROVE  Replaced!Next
<1>1. CASE /\ box' = [box EXCEPT ![n] = None] /\ exited' = exited \ {n}
           /\ lost' = lost \ {n} /\ stuck' = stuck \ {n}
  <2>1. n \notin exited' /\ box'[n] = None /\ AbsLost' = AbsLost \ {n}
    BY <1>1 DEF IInv, Types, AbsLost
  <2>2. \A m \in Names : m # n => box'[m] = box[m] /\ (m \in exited' <=> m \in exited)
    BY <1>1 DEF IInv, Types
  <2>3. AbsHave'[n] = None
    BY <2>1, IdentityNone DEF AbsHave
  <2>4. \A m \in Names : m # n => AbsHave'[m] = AbsHave[m]
    BY <2>2 DEF AbsHave
  <2>5. AbsHave' = [AbsHave EXCEPT ![n] = None]
    BY <2>3, <2>4, Zenon DEF AbsHave
  <2> QED BY <2>1, <2>5, ReplaceImplements, Zenon
<1>2. CASE stuck' = stuck \cup {n} /\ UNCHANGED <<box, exited, lost>>
  BY <1>2, StayImplements, Zenon
<1> QED BY <1>1, <1>2, Zenon DEF Stop

LEMMA DropImplements ==
  ASSUME IInv, NEW n \in Names, Drop(n) PROVE Replaced!Next
<1>1. /\ pc = "drop" /\ n \in todo /\ Stop(n) /\ UNCHANGED <<desired, next, pc, firstErr, last>>
  BY DEF Drop
<1>2. next[n] = None
  BY <1>1 DEF IInv, DropInv, Dropped
<1>3. pc # "idle" /\ pc' # "idle"
  BY <1>1
<1> QED BY <1>1, <1>2, <1>3, StopImplements, Zenon

LEMMA VisitImplements ==
  ASSUME IInv, Visit PROVE Replaced!Next \/ UNCHANGED Replaced!vars
<1>1. /\ pc = "visit" /\ todo # {} /\ pc' \in {"visit", "pull"}
      /\ UNCHANGED <<desired, next, firstErr, last>>
  BY DEF Visit, Leave
<1>2. PICK c \in todo : c = Current
  BY <1>1, CurrentIn DEF IInv, Types
<1>3. c \in Names /\ next[c] \in Specs /\ pc # "idle" /\ pc' # "idle"
  BY <1>1, <1>2 DEF IInv, Types, VisitInv, Present
<1>4. CASE UNCHANGED <<box, exited, lost, stuck>>
  BY <1>1, <1>4, Stutters
<1>5. CASE desired[c] # None /\ containerEqual(desired[c], next[c])
  <2>1. CASE Identity(desired[c]) = Identity(next[c])
    <3>1. UNCHANGED <<box, exited, lost, stuck>>
      BY <1>2, <1>5, <2>1, Zenon DEF Visit
    <3> QED BY <1>4, <3>1
  <2>2. CASE Identity(desired[c]) # Identity(next[c])
    <3>1. UNCHANGED <<box, exited, lost>> /\ stuck' = stuck \cup {c}
      BY <1>2, <1>5, <2>2, Zenon DEF Visit
    <3>2. ~Same(c)
      BY <2>2, Zenon DEF Same
    <3> QED BY <1>1, <1>3, <3>1, <3>2, StayImplements, Zenon
  <2> QED BY <2>1, <2>2
<1>6. CASE ~(desired[c] # None /\ containerEqual(desired[c], next[c]))
  <2>1. Stop(c) \/ UNCHANGED <<box, exited, lost, stuck>>
    BY <1>2, <1>6, Zenon DEF Visit, runtime
  <2>2. ~Same(c)
    BY <1>3, <1>6, SameIsEqual DEF IInv, Types, Same
  <2> QED BY <1>1, <1>3, <1>4, <2>1, <2>2, StopImplements, Zenon
<1> QED BY <1>5, <1>6

LEMMA StartImplements ==
  ASSUME IInv, Start PROVE Replaced!Next
<1>1. pc = "start" /\ pc' = "visit" /\ UNCHANGED <<desired, next, firstErr, last, exited>>
  BY DEF Start, Leave
<1>2. PICK c \in todo : c = Current
  BY <1>1, CurrentIn DEF IInv, Types, StartInv
<1>3. /\ box[c] = None /\ box' = [box EXCEPT ![c] = next[c]]
      /\ lost' = lost \ {c} /\ stuck' = stuck \ {c}
  BY <1>2 DEF Start
<1>4. c \in Names /\ c \notin exited /\ ~Same(c)
  BY <1>1, <1>2, <1>3 DEF IInv, Types, StartInv
<1>5. \A m \in Names : box'[m] = IF m = c THEN next[c] ELSE box[m]
  BY <1>3 DEF IInv, Types
<1>6. AbsHave' = [AbsHave EXCEPT ![c] = Identity(next[c])]
  BY <1>1, <1>4, <1>5, Zenon DEF AbsHave
<1>7. AbsLost' = AbsLost \ {c} /\ pc # "idle" /\ pc' # "idle"
  BY <1>1, <1>3 DEF AbsLost
<1> QED BY <1>1, <1>4, <1>6, <1>7, ReplaceImplements, Zenon

\* A failing command is reported.
LEMMA MissImplements ==
  ASSUME IInv, PullFails \/ StartFails PROVE Replaced!Next
<1>1. pc \in {"pull", "start"}
  BY DEF PullFails, StartFails
<1>2. PICK c \in todo : c = Current
  BY <1>1, CurrentIn DEF IInv, Types, StartInv
<1>3. /\ pc' = "visit" /\ firstErr' = "error" /\ lost' = lost \cup {c} /\ stuck' = stuck \ {c}
      /\ UNCHANGED <<desired, next, last, box, exited>>
  BY <1>2 DEF PullFails, StartFails, Miss, Leave
<1>4. c \in Names /\ ~Same(c)
  BY <1>1, <1>2 DEF IInv, Types, StartInv
<1>5. AbsStatus' = "failing" /\ AbsStatus \in {"applying", "failing"}
  BY <1>1, <1>3, StatusIs, StatusWillBe DEF IInv, Types
<1>6. AbsWant' = AbsWant /\ AbsBase' = AbsBase /\ AbsHave' = AbsHave /\ AbsLost' = AbsLost \cup {c}
  BY <1>1, <1>3 DEF AbsWant, AbsBase, AbsHave, AbsLost
<1>7. ~(AbsBase[c] = AbsWant[c] /\ AbsWant[c] # None)
  BY <1>1, <1>4, IdentityNone DEF AbsBase, AbsWant, Same
<1>8. Replaced!Miss(c)
  BY <1>3, <1>5, <1>6, <1>7 DEF Replaced!Miss, Replaced!Busy, Replaced!Kept, AbsStatus, AbsWant, AbsBase, AbsHave, AbsLost
<1> QED BY <1>4, <1>8 DEF Replaced!Next

\* Apply returns without an error only if the runtime has the set.
LEMMA ReturnImplements ==
  ASSUME IInv, Return PROVE Replaced!Succeed \/ Replaced!Fail
<1>1. /\ pc = "visit" /\ todo = {} /\ desired' = next /\ pc' = "idle"
      /\ last' = (IF firstErr = "error" THEN "failed" ELSE "ok")
      /\ UNCHANGED <<box, exited, lost, stuck>>
  BY DEF Return, runtime
<1>2. AbsWant' = AbsWant /\ AbsHave' = AbsHave /\ AbsBase' = Replaced!Empty /\ AbsLost' = AbsLost
  BY <1>1 DEF AbsWant, AbsHave, AbsBase, AbsLost, Replaced!Empty
<1>3. CASE firstErr = "error"
  <2>1. AbsStatus = "failing" /\ AbsStatus' = "failed"
    BY <1>1, <1>3, StatusIs, StatusWillBe
  <2> QED BY <1>1, <1>2, <2>1 DEF Replaced!Fail, Replaced!Busy, AbsStatus, AbsWant, AbsBase, AbsHave, AbsLost
<1>4. CASE firstErr = "nil"
  <2>1. AbsStatus = "applying" /\ AbsStatus' = "applied"
    BY <1>1, <1>4, StatusIs, StatusWillBe
  <2>2. \A n \in Names \ AbsLost : AbsHave[n] = AbsWant[n]
    BY <1>1 DEF IInv, Types, VisitInv, Match, AbsHave, AbsWant, AbsLost
  <2>3. Replaced!Succeed
    BY <1>1, <1>2, <2>1, <2>2 DEF Replaced!Succeed, AbsStatus, AbsWant, AbsBase, AbsHave, AbsLost
  <2> QED BY <2>3
<1> QED BY <1>3, <1>4 DEF IInv, Types

LEMMA ExitsImplements ==
  ASSUME IInv, NEW n \in Names, Exits(n) PROVE Replaced!Lose(n)
<1>1. /\ exited' = exited \cup {n} /\ lost' = lost \cup {n}
      /\ UNCHANGED <<desired, next, pc, firstErr, last, box, stuck>>
  BY DEF Exits, agent
<1>2. AbsStatus' = AbsStatus /\ AbsWant' = AbsWant /\ AbsBase' = AbsBase
  BY <1>1 DEF AbsStatus, AbsWant, AbsBase
<1>3. AbsHave' = [AbsHave EXCEPT ![n] = None]
  BY <1>1, Zenon DEF AbsHave
<1>4. AbsLost' = AbsLost \cup {n}
  BY <1>1 DEF AbsLost
<1> QED BY <1>2, <1>3, <1>4 DEF Replaced!Lose, AbsStatus, AbsWant, AbsBase, AbsHave, AbsLost

LEMMA RestartImplements ==
  ASSUME IInv, AgentRestarts \/ GuestReboots PROVE Replaced!Restart
<1>1. /\ desired' = NoContainers /\ pc' = "idle" /\ last' = "none"
  BY DEF AgentRestarts, GuestReboots, Fresh
<1>2. /\ \/ box' = box /\ exited' = exited /\ lost' = Present(box)
         \/ box' = NoContainers /\ exited' = {} /\ lost' = {}
      /\ stuck' = {}
  BY DEF AgentRestarts, GuestReboots
<1>3. AbsStatus' = "idle" /\ AbsWant' = Replaced!Empty /\ AbsBase' = Replaced!Empty
  BY <1>1, StatusWillBe, IdentityNone DEF NoContainers, AbsWant, AbsBase, Replaced!Empty
<1>4. AbsHave' \in {AbsHave, Replaced!Empty} /\ AbsLost' \in SUBSET Names
  BY <1>2, IdentityNone DEF NoContainers, Present, AbsHave, AbsLost, Replaced!Empty
<1> QED BY <1>3, <1>4 DEF Replaced!Restart, AbsStatus, AbsWant, AbsBase, AbsHave, AbsLost

LEMMA StepImplements ==
  IInv /\ IInv' /\ [Next]_vars => [Replaced!Next]_(Replaced!vars)
<1> SUFFICES ASSUME IInv, IInv', [Next]_vars PROVE Replaced!Next \/ UNCHANGED Replaced!vars
  OBVIOUS
<1>1. CASE HandleMessage
  BY <1>1, HandleImplements, Zenon DEF Replaced!Next
<1>2. CASE \E n \in Names : Drop(n)
  BY <1>2, DropImplements, Zenon
<1>3. CASE Visit \/ Start \/ PullFails \/ StartFails
  BY <1>3, VisitImplements, StartImplements, MissImplements, Zenon
<1>4. CASE Return
  BY <1>4, ReturnImplements, Zenon DEF Replaced!Next
<1>5. CASE \E n \in Names : Exits(n)
  BY <1>5, ExitsImplements, Zenon DEF Replaced!Next
<1>6. CASE AgentRestarts \/ GuestReboots
  BY <1>6, RestartImplements, Zenon DEF Replaced!Next
<1>7. CASE DropsDone \/ Pull
  BY <1>7, Stutters DEF DropsDone, Pull, runtime
<1>8. CASE Subscribe \/ (\E message \in ContainerSets \cup {Invalid} : Publish(message))
           \/ (\E i \in 1..Len(log) : Redeliver(i)) \/ UNCHANGED vars
  <2>1. UNCHANGED <<agent, runtime>>
    BY <1>8 DEF Subscribe, Publish, Redeliver, vars
  <2> QED BY <2>1, Stutters DEF agent, runtime
<1> QED BY <1>1, <1>2, <1>3, <1>4, <1>5, <1>6, <1>7, <1>8, Zenon DEF Next, Reconcile

\* "Apply converges the runtime to s", for every set of containers, every order of
\* drops, failures, exits, redeliveries and restarts: the reconciler implements the
\* abstract replacement of a set.
THEOREM Implements == Spec => ImplementsReplaceSet
BY StepImplements, InitImplements, Invariant, PTL DEF Spec, ImplementsReplaceSet, Replaced!Spec

(***************************************************************************)
(* The bus and the reconciler: which message is in force.                  *)
(***************************************************************************)
\* When everything delivered was handled, the set in force is the one published
\* last, however deliveries were repeated and the agent restarted.
QuietMeansLatest ==
  (subscribed /\ queue = <<>> /\ pc = "idle" /\ log # <<>> /\ log[Len(log)] # Invalid) =>
    desired = log[Len(log)]

\* The last message delivered is the last one published, and Apply works on the
\* message it was called with.
DeliveryInv ==
  /\ pc \in {"pull", "start"} => todo # {}
  /\ ~subscribed => queue = <<>> /\ pc = "idle"
  /\ pc # "idle" => cur # 0 /\ next = log[cur]
  /\ queue # <<>> => queue[Len(queue)] = Len(log)
  /\ queue = <<>> /\ pc # "idle" => cur = Len(log)
  /\ QuietMeansLatest

LatestInv == TypeOK /\ DeliveryInv

LEMMA LatestInit == Init => LatestInv
<1> SUFFICES ASSUME Init PROVE LatestInv
  OBVIOUS
<1>1. subscribed \in BOOLEAN /\ redelivered \in 0..MaxRedelivered /\ restarts \in 0..MaxRestarts
  <2>1. subscribed \in BOOLEAN
    BY Zenon DEF Init
  <2>2. MaxRedelivered \in Nat /\ MaxRestarts \in Nat
    BY ContainersAssumption
  <2> QED BY <2>1, <2>2 DEF Init
<1>2. log \in Seq(ContainerSets \cup {Invalid}) /\ queue \in Seq(1..Len(log)) /\ cur \in 0..Len(log)
  BY DEF Init
<1>3. /\ desired \in [Names -> Specs \cup {None}] /\ next \in [Names -> Specs \cup {None}]
      /\ box \in [Names -> Specs \cup {None}]
  BY DEF Init, NoContainers
<1>4. TypeOK
  BY <1>1, <1>2, <1>3 DEF Init, TypeOK
<1> QED BY <1>4 DEF Init, LatestInv, DeliveryInv, QuietMeansLatest

\* What DeliveryInv and TypeOK say of the bus, and what a delivery does to it.
BusTypes(l, q, u) ==
  /\ l \in Seq(ContainerSets \cup {Invalid}) /\ q \in Seq(1..Len(l)) /\ u \subseteq 1..Len(l)

LEMMA AppendLast ==
  ASSUME NEW S, NEW q \in Seq(S), NEW x \in S
  PROVE  Append(q, x) \in Seq(S) /\ Append(q, x) # <<>> /\ Append(q, x)[Len(Append(q, x))] = x
  OBVIOUS

LEMMA TailLast ==
  ASSUME NEW S, NEW q \in Seq(S), q # <<>>
  PROVE  /\ Tail(q) \in Seq(S) /\ Head(q) \in S
         /\ Tail(q) # <<>> => Tail(q)[Len(Tail(q))] = q[Len(q)]
         /\ Tail(q) = <<>> => Head(q) = q[Len(q)]
<1>1. Tail(q) \in Seq(S) /\ Head(q) \in S /\ Len(Tail(q)) = Len(q) - 1 /\ Head(q) = q[1]
  OBVIOUS
<1>2. ASSUME Tail(q) # <<>> PROVE Tail(q)[Len(Tail(q))] = q[Len(q)]
  <2>1. Len(Tail(q)) \in 1..(Len(q) - 1) /\ Len(Tail(q)) + 1 = Len(q)
    BY <1>1, <1>2
  <2>2. \A i \in 1..(Len(q) - 1) : Tail(q)[i] = q[i + 1]
    OBVIOUS
  <2> QED BY <2>1, <2>2
<1>3. ASSUME Tail(q) = <<>> PROVE Len(q) = 1
  <2>1. Len(Tail(q)) = Len(<<>>)
    BY <1>3, Zenon
  <2>2. Len(<<>>) = 0 /\ Len(q) \in Nat
    OBVIOUS
  <2>3. Len(q) - 1 = 0
    BY <1>1, <2>1, <2>2, Zenon
  <2> QED BY <2>2, <2>3
<1> QED BY <1>1, <1>2, <1>3

LEMMA Delivered ==
  ASSUME NEW l, NEW q, NEW u, BusTypes(l, q, u),
         NEW k \in Seq(ContainerSets \cup {Invalid}), Len(k) = Len(l) + 1
  PROVE  BusTypes(k, q, u) /\ BusTypes(k, Append(q, Len(k)), u \cup {Len(k)})
<1>1. Len(l) \in Nat /\ Len(k) = Len(l) + 1
  BY DEF BusTypes
<1>2. 1..Len(l) \subseteq 1..Len(k) /\ Len(k) \in 1..Len(k)
  BY <1>1
<1>3. q \in Seq(1..Len(k)) /\ u \subseteq 1..Len(k)
  BY <1>2 DEF BusTypes
<1>4. Append(q, Len(k)) \in Seq(1..Len(k))
  BY <1>2, <1>3
<1>5. u \cup {Len(k)} \subseteq 1..Len(k)
  BY <1>2, <1>3, Zenon
<1> QED BY <1>1, <1>3, <1>4, <1>5, Zenon DEF BusTypes

LEMMA Redelivered ==
  ASSUME NEW l, NEW q, NEW u, BusTypes(l, q, u), l # <<>>
  PROVE  BusTypes(l, Append(q, Len(l)), u \cup {Len(l)})
<1>1. Len(l) \in 1..Len(l) /\ q \in Seq(1..Len(l)) /\ u \subseteq 1..Len(l)
  BY DEF BusTypes
<1>2. Append(q, Len(l)) \in Seq(1..Len(l)) /\ u \cup {Len(l)} \subseteq 1..Len(l)
  BY <1>1, AppendLast, Zenon
<1> QED BY <1>2, Zenon DEF BusTypes

\* The steps of the bus.
LEMMA BusLatest ==
  ASSUME LatestInv,
         \/ \E message \in ContainerSets \cup {Invalid} : Publish(message)
         \/ \E i \in 1..Len(log) : Redeliver(i)
         \/ Subscribe
  PROVE  BusTypes(log', queue', unacked') /\ Len(log) <= Len(log') /\ DeliveryInv'
<1>1. /\ BusTypes(log, queue, unacked) /\ DeliveryInv /\ Len(log) \in Nat
      /\ cur \in 0..Len(log) /\ queue \in Seq(1..Len(log))
  BY DEF LatestInv, TypeOK, BusTypes
<1>2. ASSUME NEW message \in ContainerSets \cup {Invalid}, Publish(message)
      PROVE  BusTypes(log', queue', unacked') /\ Len(log) <= Len(log') /\ DeliveryInv'
  <2>1. log' = Append(log, message) /\ UNCHANGED <<pc, todo, next, cur, desired, subscribed>>
    BY <1>2 DEF Publish, agent
  <2>2. /\ BusTypes(log', queue, unacked) /\ Len(log') = Len(log) + 1
        /\ \A i \in 1..Len(log) : log'[i] = log[i]
        /\ BusTypes(log', Append(queue, Len(log')), unacked \cup {Len(log')})
    <3>1. /\ log' \in Seq(ContainerSets \cup {Invalid}) /\ Len(log') = Len(log) + 1
          /\ \A i \in 1..Len(log) : log'[i] = log[i]
      BY <1>1, <2>1 DEF BusTypes
    <3> QED BY <1>1, <3>1, Delivered, Zenon
  <2>3. pc # "idle" => cur # 0 /\ next = log'[cur]
    BY <1>1, <2>2 DEF DeliveryInv
  <2>4. CASE subscribed
    <3>1. queue' = Append(queue, Len(log')) /\ unacked' = unacked \cup {Len(log')}
      BY <1>2, <2>2, <2>4 DEF Publish, Deliver
    <3>2. queue' # <<>> /\ queue'[Len(queue')] = Len(log')
      <4>1. queue \in Seq(1..Len(log')) /\ Len(log') \in 1..Len(log')
        BY <1>1, <2>2 DEF BusTypes
      <4> QED BY <3>1, <4>1, AppendLast
    <3>3. BusTypes(log', queue', unacked')
      BY <2>2, <3>1
    <3> QED BY <1>1, <2>1, <2>2, <2>3, <2>4, <3>2, <3>3 DEF DeliveryInv, QuietMeansLatest
  <2>5. CASE ~subscribed
    <3>1. UNCHANGED <<queue, unacked>> /\ queue = <<>> /\ pc = "idle"
      BY <1>1, <1>2, <2>5 DEF Publish, DeliveryInv
    <3> QED BY <1>1, <2>1, <2>2, <2>5, <3>1 DEF DeliveryInv, QuietMeansLatest
  <2> QED BY <2>4, <2>5
<1>3. ASSUME log # <<>>, log' = log, queue' = Append(queue, Len(log)), unacked' = unacked \cup {Len(log)},
             subscribed', UNCHANGED <<pc, todo, next, cur, desired>>
      PROVE  BusTypes(log', queue', unacked') /\ Len(log) <= Len(log') /\ DeliveryInv'
  <2>1. BusTypes(log', queue', unacked')
    BY <1>1, <1>3, Redelivered
  <2>2. queue' # <<>> /\ queue'[Len(queue')] = Len(log')
    <3>1. Len(log) \in 1..Len(log)
      BY <1>1, <1>3 DEF BusTypes
    <3> QED BY <1>1, <1>3, <3>1, AppendLast
  <2> QED BY <1>1, <1>3, <2>1, <2>2 DEF DeliveryInv, QuietMeansLatest
<1>4. ASSUME NEW i \in 1..Len(log), Redeliver(i)
      PROVE  BusTypes(log', queue', unacked') /\ Len(log) <= Len(log') /\ DeliveryInv'
  <2>1. i = Len(log) /\ log # <<>>
    BY <1>1, <1>4 DEF Redeliver, Retained
  <2> QED BY <1>3, <1>4, <2>1 DEF Redeliver, Deliver, agent
<1>5. ASSUME Subscribe
      PROVE  BusTypes(log', queue', unacked') /\ Len(log) <= Len(log') /\ DeliveryInv'
  <2>1. CASE log = <<>>
    <3>1. UNCHANGED <<log, queue, unacked, pc, todo, next, cur, desired>>
      BY <1>5, <2>1 DEF Subscribe, Retained, agent
    <3>2. queue = <<>> /\ pc = "idle"
      BY <1>1, <1>5 DEF Subscribe, DeliveryInv
    <3> QED BY <1>1, <2>1, <3>1, <3>2 DEF DeliveryInv, QuietMeansLatest
  <2>2. CASE log # <<>>
    <3>1. Retained # {}
      BY <1>1, <2>2 DEF Retained, BusTypes
    <3> QED BY <1>3, <1>5, <2>2, <3>1 DEF Subscribe, Deliver, agent
  <2> QED BY <2>1, <2>2
<1> QED BY <1>2, <1>4, <1>5

\* Taking a message: when none is left, it was the last one published.
LEMMA HandleLatest ==
  ASSUME LatestInv, HandleMessage
  PROVE  /\ BusTypes(log', queue', unacked') /\ DeliveryInv'
         /\ next' \in [Names -> Specs \cup {None}] /\ cur' \in 0..Len(log')
<1>1. /\ BusTypes(log, queue, unacked) /\ DeliveryInv /\ queue \in Seq(1..Len(log)) /\ queue # <<>>
      /\ log \in Seq(ContainerSets \cup {Invalid}) /\ unacked \subseteq 1..Len(log)
      /\ next \in [Names -> Specs \cup {None}] /\ cur \in 0..Len(log) /\ pc = "idle"
      /\ log' = log /\ queue' = Tail(queue) /\ UNCHANGED subscribed
  BY DEF LatestInv, TypeOK, BusTypes, HandleMessage
<1>2. /\ queue' \in Seq(1..Len(log)) /\ queue[Len(queue)] = Len(log)
      /\ queue' # <<>> => queue'[Len(queue')] = Len(log)
  BY <1>1, TailLast DEF DeliveryInv
<1>3. PICK i \in 1..Len(log) : i = Head(queue) /\ (queue' = <<>> => i = Len(log))
  BY <1>1, <1>2, TailLast, Zenon
<1>4. unacked' \subseteq 1..Len(log) /\ BusTypes(log', queue', unacked')
  BY <1>1, <1>2, Zenon DEF HandleMessage, Ack, BusTypes
<1>5. subscribed /\ subscribed'
  BY <1>1 DEF DeliveryInv
<1>6. CASE log[i] = Invalid
  <2>1. UNCHANGED <<desired, next, pc, todo, cur>>
    BY <1>3, <1>6 DEF HandleMessage, agent
  <2> QED BY <1>1, <1>2, <1>3, <1>4, <1>5, <1>6, <2>1 DEF DeliveryInv, QuietMeansLatest
<1>7. CASE log[i] # Invalid
  <2>1. next' = log[i] /\ cur' = i /\ pc' = "drop"
    BY <1>3, <1>7 DEF HandleMessage
  <2>2. next' \in [Names -> Specs \cup {None}]
    BY <1>1, <1>7, <2>1, ContainersAssumption
  <2>3. cur' \in 0..Len(log') /\ cur' # 0 /\ next' = log'[cur'] /\ (queue' = <<>> => cur' = Len(log'))
    BY <1>1, <1>3, <2>1
  <2>4. DeliveryInv'
    BY <1>1, <1>2, <1>5, <2>1, <2>3 DEF DeliveryInv, QuietMeansLatest
  <2> QED BY <1>4, <2>2, <2>3, <2>4
<1> QED BY <1>6, <1>7

\* The steps of Apply before it returns, and a container that exits.
LEMMA ApplyLatest ==
  ASSUME LatestInv, UNCHANGED <<log, queue, subscribed, cur, next, desired>>,
         pc' = pc \/ {pc, pc'} \subseteq {"drop", "visit", "pull", "start"},
         pc' \in {"pull", "start"} => todo' # {}
  PROVE  DeliveryInv'
<1>1. DeliveryInv
  BY DEF LatestInv
<1> QED BY <1>1 DEF DeliveryInv, QuietMeansLatest

\* Apply returns: what it applied is the last message if none is left.
LEMMA ReturnLatest == ASSUME LatestInv, Return PROVE DeliveryInv'
<1>1. /\ DeliveryInv /\ pc = "visit" /\ desired' = next /\ pc' = "idle"
      /\ UNCHANGED <<log, queue, subscribed>>
  BY DEF LatestInv, Return
<1> QED BY <1>1 DEF DeliveryInv, QuietMeansLatest

LEMMA RestartLatest == ASSUME AgentRestarts \/ GuestReboots PROVE DeliveryInv'
  BY DEF AgentRestarts, GuestReboots, Fresh, DeliveryInv, QuietMeansLatest

\* The variables that are not the bus's.
LocalTypes ==
  /\ desired \in [Names -> Specs \cup {None}] /\ next \in [Names -> Specs \cup {None}]
  /\ pc \in {"idle", "drop", "visit", "pull", "start"} /\ todo \subseteq Names
  /\ firstErr \in {"nil", "error"} /\ last \in {"none", "ok", "failed"}
  /\ box \in [Names -> Specs \cup {None}]
  /\ exited \subseteq {n \in Names : box[n] # None}
  /\ lost \subseteq Names /\ stuck \subseteq Names

BusLocals == /\ subscribed \in BOOLEAN /\ cur \in 0..Len(log)
             /\ redelivered \in 0..MaxRedelivered /\ restarts \in 0..MaxRestarts

LEMMA TypesSplit == TypeOK <=> LocalTypes /\ BusLocals /\ BusTypes(log, queue, unacked)
  BY Zenon DEF TypeOK, LocalTypes, BusLocals, BusTypes

LEMMA StopTyped ==
  ASSUME LocalTypes, NEW n \in Names, Stop(n)
  PROVE  /\ box' \in [Names -> Specs \cup {None}] /\ lost' \subseteq Names /\ stuck' \subseteq Names
         /\ exited' \subseteq {m \in Names : box'[m] # None}
  BY DEF LocalTypes, Stop, runtime

LEMMA LocalPreserved ==
  ASSUME LatestInv, [Next]_vars
  PROVE  LocalTypes'
<1>0. LocalTypes /\ (pc \in {"pull", "start"} => todo # {})
  BY TypesSplit DEF LatestInv, DeliveryInv
<1>c. todo # {} => Current \in todo /\ Current \in Names
  BY <1>0, CurrentIn DEF LocalTypes
<1> USE <1>0 DEF LocalTypes
<1>1. CASE UNCHANGED <<agent, runtime>>
  BY <1>1 DEF agent, runtime
<1>2. CASE HandleMessage
  <2>1. next' \in [Names -> Specs \cup {None}]
    BY <1>2, HandleLatest
  <2>2. CASE UNCHANGED agent
    BY <1>2, <2>2 DEF HandleMessage, agent, runtime
  <2>3. CASE ~UNCHANGED agent
    <3>1. /\ firstErr' = "nil" /\ pc' = "drop" /\ todo' \subseteq Names
          /\ UNCHANGED <<desired, last, box, exited, lost, stuck>>
      BY <1>2, <2>3 DEF HandleMessage, Present, runtime
    <3> QED BY <2>1, <3>1
  <2> QED BY <2>2, <2>3
<1>3. ASSUME NEW n \in Names, Drop(n) PROVE LocalTypes'
  BY <1>3, StopTyped DEF Drop
<1>4. CASE DropsDone
  BY <1>4 DEF DropsDone, Present, runtime
<1>5. CASE Visit
  <2>1. todo # {} /\ UNCHANGED <<desired, next, firstErr, last>>
    BY <1>5 DEF Visit
  <2>2. pc' \in {"visit", "pull"} /\ todo' \subseteq Names
    BY <1>5 DEF Visit, Leave
  <2>3. \/ Stop(Current)
        \/ UNCHANGED <<box, exited, lost>> /\ stuck' \in {stuck, stuck \cup {Current}}
    BY <1>5, Zenon DEF Visit, runtime
  <2>4. /\ box' \in [Names -> Specs \cup {None}] /\ lost' \subseteq Names /\ stuck' \subseteq Names
        /\ exited' \subseteq {m \in Names : box'[m] # None}
    <3>1. CASE Stop(Current)
      BY <1>c, <2>1, <3>1, StopTyped
    <3>2. CASE UNCHANGED <<box, exited, lost>> /\ stuck' \in {stuck, stuck \cup {Current}}
      BY <1>c, <2>1, <3>2
    <3> QED BY <2>3, <3>1, <3>2
  <2> QED BY <2>1, <2>2, <2>4
<1>6. CASE Pull
  BY <1>6 DEF Pull, runtime
<1>7. CASE PullFails \/ StartFails
  BY <1>7, <1>c DEF PullFails, StartFails, Miss, Leave
<1>8. CASE Start
  <2>1. PICK c \in Names : c = Current
    BY <1>8, <1>c DEF Start
  <2>2. /\ box[c] = None /\ box' = [box EXCEPT ![c] = next[c]]
        /\ lost' \subseteq Names /\ stuck' \subseteq Names
        /\ pc' = "visit" /\ todo' \subseteq Names /\ UNCHANGED <<desired, next, firstErr, last, exited>>
    BY <1>8, <2>1 DEF Start, Leave
  <2>3. box' \in [Names -> Specs \cup {None}] /\ \A m \in Names : m # c => box'[m] = box[m]
    BY <2>2
  <2>4. exited' \subseteq {m \in Names : box'[m] # None}
    BY <2>2, <2>3
  <2> QED BY <2>2, <2>3, <2>4
<1>9. CASE Return
  BY <1>9 DEF Return, NoContainers, runtime
<1>10. ASSUME NEW n \in Names, Exits(n) PROVE LocalTypes'
  BY <1>10 DEF Exits, agent
<1>11. CASE AgentRestarts \/ GuestReboots
  BY <1>11 DEF AgentRestarts, GuestReboots, Fresh, NoContainers, Present
<1>12. CASE Subscribe \/ (\E message \in ContainerSets \cup {Invalid} : Publish(message))
            \/ (\E i \in 1..Len(log) : Redeliver(i)) \/ UNCHANGED vars
  <2>1. UNCHANGED <<agent, runtime>>
    BY <1>12 DEF Subscribe, Publish, Redeliver, vars
  <2> QED BY <1>1, <2>1
<1> QED BY <1>2, <1>3, <1>4, <1>5, <1>6, <1>7, <1>8, <1>9, <1>10, <1>11, <1>12, Zenon
        DEF Next, Reconcile

LEMMA LatestPreserved == LatestInv /\ [Next]_vars => LatestInv'
<1> SUFFICES ASSUME LatestInv, [Next]_vars PROVE LatestInv'
  OBVIOUS
<1>0. /\ TypeOK /\ DeliveryInv /\ BusLocals /\ BusTypes(log, queue, unacked) /\ LocalTypes
      /\ Len(log) \in Nat
  BY TypesSplit DEF LatestInv, BusTypes
<1> SUFFICES BusLocals' /\ BusTypes(log', queue', unacked') /\ DeliveryInv'
  <2>1. LocalTypes'
    BY LocalPreserved
  <2>2. TypeOK' <=> LocalTypes' /\ BusLocals' /\ BusTypes(log', queue', unacked')
    BY Zenon DEF TypeOK, LocalTypes, BusLocals, BusTypes
  <2> QED BY <2>1, <2>2, Zenon DEF LatestInv
<1>b. subscribed \in BOOLEAN /\ MaxRedelivered \in Nat /\ MaxRestarts \in Nat
  BY <1>0, ContainersAssumption DEF BusLocals
<1>1. CASE Subscribe \/ (\E message \in ContainerSets \cup {Invalid} : Publish(message))
           \/ (\E i \in 1..Len(log) : Redeliver(i))
  <2>1. BusTypes(log', queue', unacked') /\ Len(log) <= Len(log') /\ DeliveryInv'
    BY <1>1, BusLatest
  <2>2. subscribed' \in BOOLEAN
    BY <1>1, <1>b, Zenon DEF Subscribe, Publish, Redeliver
  <2>3. UNCHANGED <<cur, restarts>>
    BY <1>1 DEF Subscribe, Publish, Redeliver, agent
  <2>4. redelivered' \in 0..MaxRedelivered
    BY <1>0, <1>1, <1>b DEF Subscribe, Publish, Redeliver, BusLocals
  <2>5. Len(log') \in Nat
    BY <2>1 DEF BusTypes
  <2>6. cur' \in 0..Len(log')
    BY <1>0, <2>1, <2>3, <2>5 DEF BusLocals
  <2> QED BY <1>0, <2>1, <2>2, <2>3, <2>4, <2>6, Zenon DEF BusLocals
<1>2. CASE HandleMessage
  <2>1. BusTypes(log', queue', unacked') /\ DeliveryInv' /\ cur' \in 0..Len(log')
    BY <1>2, HandleLatest
  <2>2. UNCHANGED <<subscribed, redelivered, restarts>>
    BY <1>2 DEF HandleMessage
  <2> QED BY <1>0, <2>1, <2>2, Zenon DEF BusLocals
<1>3. ASSUME UNCHANGED <<bus, cur, restarts>>, DeliveryInv'
      PROVE  BusLocals' /\ BusTypes(log', queue', unacked') /\ DeliveryInv'
  <2>1. UNCHANGED <<log, queue, unacked, subscribed, redelivered, cur, restarts>>
    BY <1>3 DEF bus
  <2> QED BY <1>0, <1>3, <2>1, Zenon DEF BusLocals
<1>4. CASE \/ DropsDone \/ Visit \/ Pull \/ PullFails \/ Start \/ StartFails
           \/ (\E n \in Names : Drop(n) \/ Exits(n)) \/ UNCHANGED vars
  <2>1. UNCHANGED <<bus, cur, restarts, next, desired>>
    BY <1>4, Zenon DEF DropsDone, Visit, Pull, PullFails, Start, StartFails, Miss, Drop, Exits, vars, agent
  <2>2. pc' = pc \/ {pc, pc'} \subseteq {"drop", "visit", "pull", "start"}
    BY <1>4, Zenon DEF DropsDone, Visit, Pull, PullFails, Start, StartFails, Miss, Drop, Exits, vars, agent, Leave
  <2>3. pc' \in {"pull", "start"} => todo' # {}
    BY <1>0, <1>4, Zenon DEF DropsDone, Visit, Pull, PullFails, Start, StartFails, Miss, Drop, Exits, vars, agent,
       Leave, DeliveryInv
  <2> QED BY <1>3, <2>1, <2>2, <2>3, ApplyLatest DEF bus
<1>5. CASE Return
  <2>1. UNCHANGED <<log, queue, subscribed, redelivered, restarts>> /\ cur' = 0
        /\ unacked' = unacked \ {cur}
    BY <1>5 DEF Return, Ack
  <2>2. BusTypes(log', queue', unacked')
    BY <1>0, <2>1, Zenon DEF BusTypes
  <2>3. cur' \in 0..Len(log')
    BY <1>0, <2>1
  <2> QED BY <1>0, <1>5, <2>1, <2>2, <2>3, ReturnLatest, Zenon DEF BusLocals
<1>6. CASE AgentRestarts \/ GuestReboots
  <2>1. /\ queue' = <<>> /\ unacked' = {} /\ cur' = 0 /\ subscribed' = FALSE
        /\ UNCHANGED <<log, redelivered>> /\ restarts < MaxRestarts /\ restarts' = restarts + 1
    BY <1>6 DEF AgentRestarts, GuestReboots, Fresh
  <2>2. restarts' \in 0..MaxRestarts /\ cur' \in 0..Len(log')
    BY <1>0, <1>b, <2>1 DEF BusLocals
  <2>3. BusTypes(log', queue', unacked')
    BY <1>0, <2>1 DEF BusTypes
  <2>4. subscribed' \in BOOLEAN
    BY <2>1, Zenon
  <2> QED BY <1>0, <1>6, <2>1, <2>2, <2>3, <2>4, RestartLatest, Zenon DEF BusLocals
<1> QED BY <1>1, <1>2, <1>4, <1>5, <1>6, Zenon DEF Next, Reconcile

LEMMA LatestInvariant == Spec => []LatestInv
  BY LatestInit, LatestPreserved, PTL DEF Spec

\* The variables keep their types, for any names, sets, bounds and behaviour of crun.
THEOREM TypeCorrect == Spec => []TypeOK
<1>1. LatestInv => TypeOK
  BY DEF LatestInv
<1> QED BY <1>1, LatestInvariant, PTL

\* QuietMeansLatest holds: the part of ConvergesToLatest that is about safety.
THEOREM QuietIsLatest == Spec => []QuietMeansLatest
<1>1. LatestInv => QuietMeansLatest
  BY DEF LatestInv, DeliveryInv
<1> QED BY <1>1, LatestInvariant, PTL
=============================================================================

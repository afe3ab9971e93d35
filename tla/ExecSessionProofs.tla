------------------------- MODULE ExecSessionProofs -------------------------
(***************************************************************************)
(* Invariance proofs for ExecSession: for every set of requests and ids.   *)
(***************************************************************************)
EXTENDS ExecSession, Integers, TLAPS

\* A request inside the callback is the one in state "handling", and a run
\* that has not been registered has not been cancelled.
HandlerInv ==
  /\ \A r \in Runs : pc[r] = "handling" <=> handler = r
  /\ \A r \in Runs : ~Opened(r) => r \notin cancelled

\* What a run owns at each point of Run.
PumpInv ==
  \A r \in Runs :
    /\ pc[r] \in {"idle", "handling", "spawned"} =>
         child[r] = "none" /\ ptmx[r] = "none" /\ r \notin insub
    /\ pc[r] = "started" => r \notin insub
    /\ pc[r] \in {"exiting", "closing"} => child[r] = "reaped"

\* An exit frame on the wire belongs to a run past PublishExit.
FrameInv ==
  \A r \in Runs : ExitFrames(r) # {} => pc[r] \in {"closing", "returning", "done"}

IInv == HandlerInv /\ RegistryIsExact /\ PumpInv /\ FinishedHoldsNothing
        /\ FrameInv /\ ExitFrameAuthoritative

\* The pty never holds more than the child has written (needed for the bound
\* on buf in TypeOK).
BufInv == \A r \in Runs : buf[r] <= written[r]

\* Type correctness of the session state, whatever the numbers of requests,
\* ids and output chunks.
THEOREM TypeCorrect == Spec => []TypeOK
<1> USE NoRunAssumption, BadIdsAssumption, MaxChunksAssumption
<1>1. Init => TypeOK /\ BufInv
  BY DEF Init, TypeOK, PCs, BufInv
<1>2. TypeOK /\ BufInv /\ [Next]_vars => (TypeOK /\ BufInv)'
  <2> SUFFICES ASSUME TypeOK, BufInv, [Next]_vars PROVE (TypeOK /\ BufInv)'
    OBVIOUS
  <2> USE DEF TypeOK, BufInv, PCs, Goto, regVars, ptyVars
  <2>0. ASSUME NEW r \in Runs, NEW k \in {"o", "e"}, Publish(r, k)
        PROVE  out' \in [Ids -> Seq(Frames)]
    <3>1. [kind |-> k, run |-> r] \in Frames
      BY DEF Frames
    <3> QED BY <2>0, <3>1 DEF Publish
  <2>1. ASSUME NEW r \in Runs, Receive(r) \/ Open(r)
        PROVE  (TypeOK /\ BufInv)'
    <3>1. CASE Receive(r)
      BY <3>1 DEF Receive
    <3>2. CASE Open(r)
      <4>1. cancelled' \in SUBSET Runs
        BY <3>2 DEF Open, SessionsOpen
      <4>2. live' \in [Ids -> Runs \cup {NoRun}]
        BY <3>2 DEF Open, SessionsOpen
      <4> QED BY <3>2, <4>1, <4>2 DEF Open
    <3> QED BY <2>1, <3>1, <3>2, Zenon
  <2>2. ASSUME NEW r \in Runs, Pump(r)
        PROVE  (TypeOK /\ BufInv)'
    <3>1. CASE Start(r) \/ StartFails(r) \/ Subscribe(r) \/ SubscribeFails(r)
      <4>1. CASE Start(r)
        BY <4>1 DEF Start
      <4>2. CASE StartFails(r)
        BY <4>2 DEF StartFails
      <4>3. CASE Subscribe(r)
        BY <4>3 DEF Subscribe
      <4>4. CASE SubscribeFails(r)
        BY <4>4 DEF SubscribeFails, Kill
      <4> QED BY <3>1, <4>1, <4>2, <4>3, <4>4, Zenon
    <3>2. CASE SelectCancelled(r) \/ Reap(r)
      <4>1. CASE SelectCancelled(r)
        BY <4>1 DEF SelectCancelled, Kill
      <4>2. CASE Reap(r)
        BY <4>2 DEF Reap
      <4> QED BY <3>2, <4>1, <4>2, Zenon
    <3>3. CASE PublishExit(r)
      BY <3>3, <2>0 DEF PublishExit
    <3>4. CASE ClosePty(r)
      BY <3>4 DEF ClosePty
    <3>5. CASE Finish(r)
      <4>1. cancelled' \in SUBSET Runs
        BY <3>5 DEF Finish, SessionsClose
      <4>2. live' \in [Ids -> Runs \cup {NoRun}]
        BY <3>5 DEF Finish, SessionsClose
      <4> QED BY <3>5, <4>1, <4>2 DEF Finish
    <3> QED BY <2>2, <3>1, <3>2, <3>3, <3>4, <3>5, Zenon DEF Pump
  <2>3. ASSUME NEW r \in Runs, Reader(r)
        PROVE  (TypeOK /\ BufInv)'
    <3>1. CASE ReaderRead(r)
      BY <3>1 DEF ReaderRead
    <3>2. CASE ReaderPublish(r)
      BY <3>2, <2>0 DEF ReaderPublish
    <3>3. CASE ReaderEnd(r)
      BY <3>3 DEF ReaderEnd
    <3> QED BY <2>3, <3>1, <3>2, <3>3, Zenon DEF Reader
  <2>4. ASSUME NEW r \in Runs, Child(r) \/ RecvClose(r)
        PROVE  (TypeOK /\ BufInv)'
    <3>1. CASE ChildWrite(r)
      <4>1. buf[r] + 1 \in 0..MaxChunks /\ written[r] + 1 \in 0..MaxChunks
        BY <3>1 DEF ChildWrite
      <4>2. TypeOK'
        BY <3>1, <4>1 DEF ChildWrite
      <4>3. BufInv'
        BY <3>1, <4>1 DEF ChildWrite
      <4> QED BY <4>2, <4>3, Zenon
    <3>2. CASE ChildExit(r) \/ RecvClose(r)
      <4>1. CASE ChildExit(r)
        BY <4>1 DEF ChildExit
      <4>2. CASE RecvClose(r)
        BY <4>2 DEF RecvClose, Kill
      <4> QED BY <3>2, <4>1, <4>2, Zenon
    <3> QED BY <2>4, <3>1, <3>2, Zenon DEF Child
  <2>5. CASE Unsubscribe \/ CloseAll \/ NatsClose
    BY <2>5 DEF Unsubscribe, CloseAll, SessionsCloseAll, NatsClose
  <2>6. CASE UNCHANGED vars
    BY <2>6 DEF vars
  <2> QED BY <2>1, <2>2, <2>3, <2>4, <2>5, <2>6, Zenon DEF Next, RunStep
<1> QED BY <1>1, <1>2, PTL DEF Spec

(***************************************************************************)
(* The registry and the pump.                                              *)
(***************************************************************************)
\* Before the first request the registry is empty and no run owns anything.
LEMMA InitIInv == Init => IInv
  BY NoRunAssumption
     DEF Init, IInv, HandlerInv, RegistryIsExact, PumpInv, FinishedHoldsNothing,
         FrameInv, ExitFrameAuthoritative, ExitFrames, Opened

\* Only the open callback, the deferred Close and CloseAll touch the registry;
\* each keeps it exact.
LEMMA RegistryStep ==
  ASSUME TypeOK, HandlerInv, RegistryIsExact, [Next]_vars
  PROVE  (HandlerInv /\ RegistryIsExact)'
<1> USE NoRunAssumption DEF TypeOK, HandlerInv, RegistryIsExact, Opened, Goto
<1>1. ASSUME NEW r \in Runs, Receive(r)
      PROVE  (HandlerInv /\ RegistryIsExact)'
  BY <1>1 DEF Receive
<1>2. ASSUME NEW r \in Runs, Open(r)
      PROVE  (HandlerInv /\ RegistryIsExact)'
  BY <1>2 DEF Open, SessionsOpen
<1>3. ASSUME NEW r \in Runs, Finish(r)
      PROVE  (HandlerInv /\ RegistryIsExact)'
  BY <1>3 DEF Finish, SessionsClose
<1>4. ASSUME NEW r \in Runs, Pump(r), ~Finish(r)
      PROVE  (HandlerInv /\ RegistryIsExact)'
  <2>1. /\ UNCHANGED regVars
        /\ \E l \in {"started", "select", "reaping", "exiting", "closing", "returning"} :
             pc' = [pc EXCEPT ![r] = l]
        /\ pc[r] \notin {"idle", "handling", "done"}
    BY <1>4 DEF Pump, Start, StartFails, Subscribe, SubscribeFails,
                SelectCancelled, Reap, PublishExit, ClosePty
  <2> QED BY <2>1 DEF regVars
<1>5. ASSUME NEW r \in Runs, Reader(r) \/ Child(r) \/ RecvClose(r)
      PROVE  (HandlerInv /\ RegistryIsExact)'
  BY <1>5 DEF Reader, ReaderRead, ReaderPublish, ReaderEnd,
              Child, ChildWrite, ChildExit, RecvClose, regVars
<1>6. CASE CloseAll
  BY <1>6 DEF CloseAll, SessionsCloseAll
<1>7. CASE Unsubscribe \/ NatsClose
  BY <1>7 DEF Unsubscribe, NatsClose
<1>8. CASE UNCHANGED vars
  BY <1>8 DEF vars, regVars
<1> HIDE DEF TypeOK, HandlerInv, RegistryIsExact, Opened, Goto
<1> QED BY <1>1, <1>2, <1>3, <1>4, <1>5, <1>6, <1>7, <1>8 DEF Next, RunStep

\* What a run owns follows its position in Run; no other actor can give a
\* finished run its child, pty or subscription back.
LEMMA PumpStep ==
  ASSUME TypeOK, HandlerInv, PumpInv, FinishedHoldsNothing, [Next]_vars
  PROVE  (PumpInv /\ FinishedHoldsNothing)'
<1> USE DEF TypeOK, PumpInv, FinishedHoldsNothing, Goto, PCs
<1>1. ASSUME NEW r \in Runs, Receive(r) \/ Open(r)
      PROVE  (PumpInv /\ FinishedHoldsNothing)'
  BY <1>1 DEF Receive, Open, HandlerInv, ptyVars
<1>2. ASSUME NEW r \in Runs, Pump(r)
      PROVE  (PumpInv /\ FinishedHoldsNothing)'
  <2>1. CASE Start(r)
    BY <2>1 DEF Start
  <2>2. CASE StartFails(r)
    BY <2>2 DEF StartFails, ptyVars
  <2>3. CASE Subscribe(r)
    BY <2>3 DEF Subscribe, ptyVars
  <2>4. CASE SubscribeFails(r)
    BY <2>4 DEF SubscribeFails, Kill
  <2>5. CASE SelectCancelled(r)
    BY <2>5 DEF SelectCancelled, Kill
  <2>6. CASE Reap(r)
    BY <2>6 DEF Reap
  <2>7. CASE PublishExit(r) \/ ClosePty(r) \/ Finish(r)
    BY <2>7 DEF PublishExit, ClosePty, Finish, ptyVars
  <2> QED BY <1>2, <2>1, <2>2, <2>3, <2>4, <2>5, <2>6, <2>7 DEF Pump
<1>3. ASSUME NEW r \in Runs, Reader(r)
      PROVE  (PumpInv /\ FinishedHoldsNothing)'
  BY <1>3 DEF Reader, ReaderRead, ReaderPublish, ReaderEnd
<1>4. ASSUME NEW r \in Runs, Child(r) \/ RecvClose(r)
      PROVE  (PumpInv /\ FinishedHoldsNothing)'
  BY <1>4 DEF Child, ChildWrite, ChildExit, RecvClose, Kill
<1>5. CASE Unsubscribe \/ CloseAll \/ NatsClose
  BY <1>5 DEF Unsubscribe, CloseAll, NatsClose, ptyVars
<1>6. CASE UNCHANGED vars
  BY <1>6 DEF vars, ptyVars
<1> QED BY <1>1, <1>2, <1>3, <1>4, <1>5, <1>6 DEF Next, RunStep

\* The positions of a frame e in a sequence after one more frame is appended.
LEMMA AppendPositions ==
  ASSUME NEW S, NEW s \in Seq(S), NEW f \in S, NEW e
  PROVE  {i \in DOMAIN Append(s, f) : Append(s, f)[i] = e} =
           {i \in DOMAIN s : s[i] = e} \cup (IF f = e THEN {Len(s) + 1} ELSE {})
  OBVIOUS

\* The effect of Publish on the exit frames of any run q.
LEMMA PublishExitFrames ==
  ASSUME TypeOK, UNCHANGED sid,
         NEW r \in Runs, NEW k \in {"o", "e"}, Publish(r, k), NEW q \in Runs
  PROVE  \/ ExitFrames(q)' = ExitFrames(q)
         \/ k = "e" /\ q = r /\ ExitFrames(q)' = ExitFrames(q) \cup {Len(out[sid[r]]) + 1}
<1> DEFINE f == [kind |-> k, run |-> r]
           e == [kind |-> "e", run |-> q]
<1>1. CASE out' = out
  BY <1>1 DEF ExitFrames
<1>2. CASE out' = [out EXCEPT ![sid[r]] = Append(@, f)] /\ sid[q] # sid[r]
  BY <1>2 DEF ExitFrames, TypeOK
<1>3. CASE out' = [out EXCEPT ![sid[r]] = Append(@, f)] /\ sid[q] = sid[r]
  <2>1. f \in Frames /\ out[sid[r]] \in Seq(Frames)
    BY Zenon DEF Frames, TypeOK
  <2>2. out'[sid[r]] = Append(out[sid[r]], f)
    BY <1>3 DEF TypeOK
  <2>3. ExitFrames(q)' = ExitFrames(q) \cup (IF f = e THEN {Len(out[sid[r]]) + 1} ELSE {})
    BY <1>3, <2>1, <2>2, AppendPositions DEF ExitFrames
  <2>4. f = e => k = "e" /\ q = r
    OBVIOUS
  <2> QED BY <2>3, <2>4
<1> QED BY <1>1, <1>2, <1>3 DEF Publish

\* An exit frame is added by PublishExit alone, at a point where the run has
\* none yet and its child has been reaped; nothing removes a frame.
LEMMA FrameStep ==
  ASSUME TypeOK, HandlerInv, PumpInv, FrameInv, ExitFrameAuthoritative, [Next]_vars
  PROVE  (FrameInv /\ ExitFrameAuthoritative)'
<1> USE DEF TypeOK, FrameInv, ExitFrameAuthoritative, Goto
<1>1. ASSUME UNCHANGED <<out, sid>>,
             \A q \in Runs : pc[q] \in {"closing", "returning", "done"} =>
               pc'[q] \in {"closing", "returning", "done"},
             \A q \in Runs : child[q] = "reaped" => child'[q] = "reaped"
      PROVE  (FrameInv /\ ExitFrameAuthoritative)'
  BY <1>1 DEF ExitFrames
<1>2. ASSUME NEW r \in Runs, PublishExit(r)
      PROVE  (FrameInv /\ ExitFrameAuthoritative)'
  <2>1. ExitFrames(r) = {} /\ child[r] = "reaped"
    BY <1>2, Zenon DEF PublishExit, PumpInv
  <2>2. Publish(r, "e") /\ UNCHANGED sid /\ UNCHANGED child
    BY <1>2 DEF PublishExit, regVars, ptyVars
  <2>3. \A q \in Runs : q # r => ExitFrames(q)' = ExitFrames(q)
    BY <2>2, PublishExitFrames
  <2>4. ExitFrames(r)' = {} \/ ExitFrames(r)' = {Len(out[sid[r]]) + 1}
    <3>1. \/ ExitFrames(r)' = ExitFrames(r)
          \/ ExitFrames(r)' = ExitFrames(r) \cup {Len(out[sid[r]]) + 1}
      BY <2>2, PublishExitFrames
    <3> QED BY <3>1, <2>1
  <2>5. pc' = [pc EXCEPT ![r] = "closing"]
    BY <1>2 DEF PublishExit
  <2>6. FrameInv'
    BY <2>3, <2>5
  <2>7. ExitFrameAuthoritative'
    <3> SUFFICES ASSUME NEW q \in Runs
                 PROVE  /\ \A i, j \in ExitFrames(q)' : i = j
                        /\ ExitFrames(q)' # {} => child'[q] = "reaped"
      OBVIOUS
    <3>1. CASE q = r
      BY <3>1, <2>1, <2>2, <2>4
    <3>2. CASE q # r
      BY <3>2, <2>2, <2>3
    <3> QED BY <3>1, <3>2
  <2> QED BY <2>6, <2>7
<1>3. ASSUME NEW r \in Runs, ReaderPublish(r)
      PROVE  (FrameInv /\ ExitFrameAuthoritative)'
  <2>1. \A q \in Runs : ExitFrames(q)' = ExitFrames(q)
    BY <1>3, PublishExitFrames DEF ReaderPublish, regVars
  <2> QED BY <1>3, <2>1 DEF ReaderPublish, regVars
<1>4. ASSUME NEW r \in Runs, Receive(r) \/ Open(r)
      PROVE  (FrameInv /\ ExitFrameAuthoritative)'
  BY <1>1, <1>4 DEF Receive, Open, HandlerInv, ptyVars
<1>5. ASSUME NEW r \in Runs, Pump(r), ~PublishExit(r)
      PROVE  (FrameInv /\ ExitFrameAuthoritative)'
  <2>1. CASE Start(r) \/ StartFails(r) \/ Subscribe(r)
    BY <1>1, <2>1 DEF Start, StartFails, Subscribe, PumpInv, regVars, ptyVars
  <2>2. CASE SubscribeFails(r)
    BY <1>1, <2>2 DEF SubscribeFails, Kill, regVars
  <2>3. CASE SelectCancelled(r)
    BY <1>1, <2>3 DEF SelectCancelled, Kill, regVars
  <2>4. CASE Reap(r)
    BY <1>1, <2>4 DEF Reap, regVars
  <2>5. CASE ClosePty(r)
    BY <1>1, <2>5 DEF ClosePty, regVars
  <2>6. CASE Finish(r)
    BY <1>1, <2>6 DEF Finish, ptyVars
  <2> QED BY <1>5, <2>1, <2>2, <2>3, <2>4, <2>5, <2>6, Zenon DEF Pump
<1>6. ASSUME NEW r \in Runs, ReaderRead(r) \/ ReaderEnd(r) \/ Child(r) \/ RecvClose(r)
      PROVE  (FrameInv /\ ExitFrameAuthoritative)'
  BY <1>1, <1>6 DEF ReaderRead, ReaderEnd, Child, ChildWrite, ChildExit,
                    RecvClose, Kill, regVars
<1>7. CASE Unsubscribe \/ CloseAll \/ NatsClose
  BY <1>1, <1>7 DEF Unsubscribe, CloseAll, NatsClose, ptyVars
<1>8. CASE UNCHANGED vars
  BY <1>1, <1>8 DEF vars, regVars, ptyVars
<1> QED BY <1>2, <1>3, <1>4, <1>5, <1>6, <1>7, <1>8, Zenon DEF Next, RunStep, Reader

\* The inductive invariant behind the four theorems that follow.
LEMMA IInvInvariant == Spec => []IInv
<1>1. IInv /\ TypeOK /\ [Next]_vars => IInv'
  BY RegistryStep, PumpStep, FrameStep DEF IInv
<1> QED BY <1>1, InitIInv, TypeCorrect, PTL DEF Spec

\* Sessions.live holds exactly the sessions that can still be told to stop.
THEOREM RegistryExact == Spec => []RegistryIsExact
  BY IInvInvariant, PTL DEF IInv

\* Re-opening an id leaves at most one session of that id uncancelled.
THEOREM OneUncancelled == Spec => []OneUncancelledPerId
<1>1. RegistryIsExact => OneUncancelledPerId
  BY DEF RegistryIsExact, OneUncancelledPerId
<1> QED BY <1>1, RegistryExact, PTL

\* A goroutine that has left Run holds no subscription, open pty or running child.
THEOREM FinishedHolds == Spec => []FinishedHoldsNothing
  BY IInvInvariant, PTL DEF IInv

\* The exit frame is published at most once, and only for a reaped child.
THEOREM ExitFrameSound == Spec => []ExitFrameAuthoritative
  BY IInvInvariant, PTL DEF IInv

(***************************************************************************)
(* A cancelled session: what CancelledSessionEnds says of it, without the  *)
(* fairness.                                                               *)
(***************************************************************************)
\* What Run waits for is there: a child that is alive or can be reaped, and a
\* reader only where there is a pty.
ReapInv ==
  \A r \in Runs :
    /\ pc[r] \in {"started", "select"} => child[r] \in {"running", "killed", "dead"}
    /\ pc[r] = "reaping" => child[r] \in {"killed", "dead"}
    /\ ptmx[r] = "none" => reader[r] = "none"

\* The guards of the fair steps of a cancelled run.
CanGoOn(r) ==
  \/ pc[r] \in {"spawned", "started", "select", "exiting", "closing", "returning"}
  \/ pc[r] = "reaping" /\ child[r] = "dead"
  \/ child[r] = "killed"
  \/ reader[r] = "holding"
  \/ reader[r] = "reading" /\ ptmx[r] = "closed"

\* What is left to do in a run: by its goroutine, by its child, and by its reader,
\* which takes what the child writes.
OfPump(p) ==
  CASE p = "spawned" -> 20 [] p = "started" -> 6 [] p = "select" -> 5 [] p = "reaping" -> 4
    [] p = "exiting" -> 3 [] p = "closing" -> 2 [] p = "returning" -> 1 [] OTHER -> 0
OfChild(c) == CASE c = "running" -> 3 [] c = "killed" -> 2 [] c = "dead" -> 1 [] OTHER -> 0
OfReader(g) == CASE g = "holding" -> 2 [] g = "reading" -> 1 [] OTHER -> 0
Work(r) ==
  OfPump(pc[r]) + OfChild(child[r]) + OfReader(reader[r])
  + 3 * (MaxChunks - written[r]) + 2 * buf[r]

\* A cancelled run never waits for something that does not come: it is torn down
\* or one of its goroutines, or the kernel ending its child, can go on.
CancelledNeverStuck == \A r \in cancelled : TornDown(r) \/ CanGoOn(r)

\* A cancelled run stays cancelled and does less and less: each of its own steps
\* leaves less to do, and those of other runs with its id change nothing of it.
CancelledAlwaysCloser ==
  [][\A r \in cancelled : /\ r \in cancelled' /\ Work(r)' <= Work(r)
                          /\ RunStep(r) => Work(r)' < Work(r)]_vars

\* A run is touched by its own steps only.
LEMMA OwnSteps ==
  ASSUME TypeOK, NEW r \in Runs, Next \/ UNCHANGED vars, ~RunStep(r)
  PROVE  UNCHANGED <<pc[r], child[r], reader[r], written[r], buf[r], ptmx[r]>>
<1>1. ASSUME NEW q \in Runs, q # r, RunStep(q)
      PROVE  UNCHANGED <<pc[r], child[r], reader[r], written[r], buf[r], ptmx[r]>>
  <2> USE <1>1 DEF TypeOK, Goto, ptyVars
  <2>1. CASE Receive(q) \/ Open(q) \/ RecvClose(q)
    BY <2>1 DEF Receive, Open, RecvClose, Kill
  <2>2. CASE Start(q) \/ StartFails(q) \/ Subscribe(q) \/ SubscribeFails(q)
    BY <2>2 DEF Start, StartFails, Subscribe, SubscribeFails, Kill
  <2>3. CASE SelectCancelled(q) \/ Reap(q) \/ PublishExit(q) \/ ClosePty(q) \/ Finish(q)
    BY <2>3 DEF SelectCancelled, Reap, PublishExit, ClosePty, Finish, Kill
  <2>4. CASE Reader(q)
    BY <2>4 DEF Reader, ReaderRead, ReaderPublish, ReaderEnd
  <2>5. CASE Child(q)
    BY <2>5 DEF Child, ChildWrite, ChildExit
  <2> QED BY <1>1, <2>1, <2>2, <2>3, <2>4, <2>5, Zenon DEF RunStep, Pump
<1>2. CASE Unsubscribe \/ CloseAll \/ NatsClose \/ UNCHANGED vars
  BY <1>2 DEF Unsubscribe, CloseAll, NatsClose, vars, ptyVars
<1> QED BY <1>1, <1>2, Zenon DEF Next

LEMMA ReapStep ==
  ASSUME TypeOK, PumpInv, ReapInv, [Next]_vars
  PROVE  ReapInv'
<1> SUFFICES ASSUME NEW r \in Runs
             PROVE  /\ pc'[r] \in {"started", "select"} => child'[r] \in {"running", "killed", "dead"}
                    /\ pc'[r] = "reaping" => child'[r] \in {"killed", "dead"}
                    /\ ptmx'[r] = "none" => reader'[r] = "none"
  BY DEF ReapInv
<1>0. /\ pc[r] \in {"started", "select"} => child[r] \in {"running", "killed", "dead"}
      /\ pc[r] = "reaping" => child[r] \in {"killed", "dead"}
      /\ ptmx[r] = "none" => reader[r] = "none"
  BY DEF ReapInv
<1>1. CASE ~RunStep(r)
  BY <1>0, <1>1, OwnSteps
<1>2. CASE RunStep(r)
  <2> USE <1>0 DEF TypeOK, PumpInv, Goto, ptyVars
  <2>1. CASE Receive(r) \/ Open(r) \/ RecvClose(r)
    BY <2>1 DEF Receive, Open, RecvClose, Kill
  <2>2. CASE Start(r) \/ StartFails(r) \/ Subscribe(r) \/ SubscribeFails(r)
    BY <2>2 DEF Start, StartFails, Subscribe, SubscribeFails, Kill
  <2>3. CASE SelectCancelled(r) \/ Reap(r) \/ PublishExit(r) \/ ClosePty(r) \/ Finish(r)
    BY <2>3 DEF SelectCancelled, Reap, PublishExit, ClosePty, Finish, Kill
  <2>4. CASE Reader(r)
    BY <2>4 DEF Reader, ReaderRead, ReaderPublish, ReaderEnd
  <2>5. CASE Child(r)
    BY <2>5 DEF Child, ChildWrite, ChildExit
  <2> QED BY <1>2, <2>1, <2>2, <2>3, <2>4, <2>5, Zenon DEF RunStep, Pump
<1> QED BY <1>1, <1>2

LEMMA ReapInvariant == Spec => []ReapInv
<1>1. Init => ReapInv
  BY Zenon DEF Init, ReapInv
<1>2. TypeOK /\ IInv /\ ReapInv /\ [Next]_vars => ReapInv'
  BY ReapStep DEF IInv
<1> QED BY <1>1, <1>2, TypeCorrect, IInvInvariant, PTL DEF Spec

\* CancelledNeverStuck holds: a part of CancelledSessionEnds that is about safety.
THEOREM NeverStuck == Spec => []CancelledNeverStuck
<1>1. TypeOK /\ IInv /\ ReapInv => CancelledNeverStuck
  <2> SUFFICES ASSUME TypeOK, IInv, ReapInv, NEW r \in cancelled PROVE TornDown(r) \/ CanGoOn(r)
    BY DEF CancelledNeverStuck
  <2>1. r \in Runs /\ pc[r] \in PCs \ {"idle", "handling"}
    BY DEF TypeOK, IInv, HandlerInv, Opened
  <2>2. pc[r] = "reaping" => child[r] \in {"killed", "dead"}
    BY <2>1 DEF ReapInv
  <2>3. pc[r] = "done" => ptmx[r] # "open" /\ child[r] # "running"
    BY <2>1 DEF IInv, FinishedHoldsNothing
  <2>4. reader[r] \in {"none", "stopped"} \/ reader[r] = "holding"
          \/ (reader[r] = "reading" /\ ptmx[r] # "none")
    BY <2>1 DEF ReapInv, TypeOK
  <2>5. ptmx[r] \in {"none", "open", "closed"}
    BY <2>1 DEF TypeOK
  <2> QED BY <2>1, <2>2, <2>3, <2>4, <2>5 DEF TornDown, CanGoOn, PCs
<1> QED BY <1>1, TypeCorrect, IInvInvariant, ReapInvariant, PTL

LEMMA OfValues ==
  /\ OfPump("spawned") = 20 /\ OfPump("started") = 6 /\ OfPump("select") = 5
  /\ OfPump("reaping") = 4 /\ OfPump("exiting") = 3 /\ OfPump("closing") = 2
  /\ OfPump("returning") = 1 /\ OfPump("done") = 0
  /\ OfChild("running") = 3 /\ OfChild("killed") = 2 /\ OfChild("dead") = 1
  /\ OfChild("reaped") = 0
  /\ OfReader("holding") = 2 /\ OfReader("reading") = 1 /\ OfReader("stopped") = 0
<1>1. /\ OfPump("spawned") = 20 /\ OfPump("started") = 6 /\ OfPump("select") = 5
      /\ OfPump("reaping") = 4
  BY DEF OfPump
<1>2. /\ OfPump("exiting") = 3 /\ OfPump("closing") = 2
      /\ OfPump("returning") = 1 /\ OfPump("done") = 0
  BY DEF OfPump
<1>3. /\ OfChild("running") = 3 /\ OfChild("killed") = 2 /\ OfChild("dead") = 1
      /\ OfChild("reaped") = 0
  BY DEF OfChild
<1>4. OfReader("holding") = 2 /\ OfReader("reading") = 1 /\ OfReader("stopped") = 0
  BY DEF OfReader
<1> QED BY <1>1, <1>2, <1>3, <1>4

LEMMA OfBounds ==
  ASSUME NEW x
  PROVE  OfPump(x) \in 0..20 /\ OfChild(x) \in 0..3 /\ OfReader(x) \in 0..2
<1>1. OfPump(x) \in 0..20
  BY DEF OfPump
<1>2. OfChild(x) \in 0..3
  BY DEF OfChild
<1>3. OfReader(x) \in 0..2
  BY DEF OfReader
<1> QED BY <1>1, <1>2, <1>3

\* The sum in Work, over integers: less of something, and more of nothing that
\* weighs as much.
LEMMA Lighter ==
  ASSUME NEW p \in Int, NEW c \in Int, NEW g \in Int, NEW w \in Int, NEW b \in Int,
         NEW p1 \in Int, NEW c1 \in Int, NEW g1 \in Int, NEW w1 \in Int, NEW b1 \in Int,
         NEW m \in Int,
         p1 + c1 + g1 + 3 * w + 2 * b1 < p + c + g + 3 * w1 + 2 * b
  PROVE  p1 + c1 + g1 + 3 * (m - w1) + 2 * b1 < p + c + g + 3 * (m - w) + 2 * b
  OBVIOUS

\* One step of a run that has been opened leaves less to do.
LEMMA StepLightens ==
  ASSUME TypeOK, TypeOK', HandlerInv, NEW r \in Runs, Opened(r), RunStep(r)
  PROVE  Work(r)' < Work(r)
<1>1. /\ pc[r] \in PCs \ {"idle", "handling"} /\ handler # r
      /\ written[r] \in Int /\ buf[r] \in Int /\ written'[r] \in Int /\ buf'[r] \in Int
      /\ MaxChunks \in Int
  BY MaxChunksAssumption DEF Opened, HandlerInv, TypeOK
<1>2. /\ OfPump(pc[r]) \in 0..20 /\ OfPump(pc'[r]) \in 0..20
      /\ OfChild(child[r]) \in 0..3 /\ OfChild(child'[r]) \in 0..3
      /\ OfReader(reader[r]) \in 0..2 /\ OfReader(reader'[r]) \in 0..2
      /\ written[r] \in Int /\ buf[r] \in Int /\ written'[r] \in Int /\ buf'[r] \in Int
      /\ MaxChunks \in Int
  BY <1>1, OfBounds
<1>3. PICK p \in Int, c \in Int, g \in Int, w \in Int, b \in Int,
           p1 \in Int, c1 \in Int, g1 \in Int, w1 \in Int, b1 \in Int :
        /\ p = OfPump(pc[r]) /\ c = OfChild(child[r]) /\ g = OfReader(reader[r])
        /\ w = written[r] /\ b = buf[r]
        /\ p1 = OfPump(pc'[r]) /\ c1 = OfChild(child'[r]) /\ g1 = OfReader(reader'[r])
        /\ w1 = written'[r] /\ b1 = buf'[r]
  <2>1. /\ OfPump(pc[r]) \in Int /\ OfChild(child[r]) \in Int /\ OfReader(reader[r]) \in Int
        /\ OfPump(pc'[r]) \in Int /\ OfChild(child'[r]) \in Int /\ OfReader(reader'[r]) \in Int
    BY <1>2
  <2> QED BY <1>2, <2>1, Zenon
<1>4. SUFFICES p1 + c1 + g1 + 3 * w + 2 * b1 < p + c + g + 3 * w1 + 2 * b
  <2>1. p1 + c1 + g1 + 3 * (MaxChunks - w1) + 2 * b1 < p + c + g + 3 * (MaxChunks - w) + 2 * b
    BY <1>2, <1>4, Lighter
  <2> QED BY <1>3, <2>1, Zenon DEF Work
<1>5. 0 <= c /\ c1 <= 3 /\ 0 <= g /\ g1 <= 2
  BY <1>2, <1>3
<1>6. ~Receive(r) /\ ~Open(r)
  BY <1>1 DEF Receive, Open
<1>7. CASE Start(r) \/ StartFails(r)
  <2>1. /\ pc[r] = "spawned" /\ pc'[r] \in {"started", "returning"}
        /\ written'[r] = written[r] /\ buf'[r] = buf[r]
        /\ child'[r] = "running" \/ child'[r] = child[r]
        /\ reader'[r] = "reading" \/ reader'[r] = reader[r]
    BY <1>7 DEF TypeOK, Goto, ptyVars, Start, StartFails
  <2>2. p = 20 /\ (p1 = 6 \/ p1 = 1) /\ w1 = w /\ b1 = b
    BY <1>3, <2>1, OfValues, Zenon
  <2> QED BY <1>5, <2>2
<1>8. CASE Subscribe(r) \/ SubscribeFails(r) \/ SelectCancelled(r)
  <2>1. /\ \/ pc[r] = "started" /\ pc'[r] \in {"select", "returning"}
           \/ pc[r] = "select" /\ pc'[r] = "reaping"
        /\ written'[r] = written[r] /\ buf'[r] = buf[r] /\ reader'[r] = reader[r]
        /\ child'[r] = child[r] \/ (child[r] = "running" /\ child'[r] = "killed")
    BY <1>8 DEF TypeOK, Goto, ptyVars, Subscribe, SubscribeFails, SelectCancelled, Kill
  <2>2. /\ (p = 6 /\ (p1 = 5 \/ p1 = 1)) \/ (p = 5 /\ p1 = 4)
        /\ c1 = c \/ (c = 3 /\ c1 = 2)
        /\ g1 = g /\ w1 = w /\ b1 = b
    BY <1>3, <2>1, OfValues, Zenon
  <2> QED BY <2>2
<1>9. CASE Reap(r) \/ PublishExit(r) \/ ClosePty(r) \/ Finish(r)
  <2>1. /\ \/ pc[r] \in {"select", "reaping"} /\ pc'[r] = "exiting"
           \/ pc[r] = "exiting" /\ pc'[r] = "closing"
           \/ pc[r] = "closing" /\ pc'[r] = "returning"
           \/ pc[r] = "returning" /\ pc'[r] = "done"
        /\ written'[r] = written[r] /\ buf'[r] = buf[r] /\ reader'[r] = reader[r]
        /\ child'[r] = child[r] \/ (child[r] = "dead" /\ child'[r] = "reaped")
    BY <1>9 DEF TypeOK, Goto, ptyVars, Reap, PublishExit, ClosePty, Finish
  <2>2. /\ \/ (p = 5 \/ p = 4) /\ p1 = 3
           \/ p = 3 /\ p1 = 2
           \/ p = 2 /\ p1 = 1
           \/ p = 1 /\ p1 = 0
        /\ c1 = c \/ (c = 1 /\ c1 = 0)
        /\ g1 = g /\ w1 = w /\ b1 = b
    BY <1>3, <2>1, OfValues, Zenon
  <2> QED BY <2>2
<1>10. CASE Reader(r)
  <2>1. /\ pc'[r] = pc[r] /\ child'[r] = child[r] /\ written'[r] = written[r]
        /\ \/ reader[r] = "reading" /\ reader'[r] = "holding" /\ buf'[r] = buf[r] - 1
           \/ reader[r] = "holding" /\ reader'[r] = "reading" /\ buf'[r] = buf[r]
           \/ reader[r] = "reading" /\ reader'[r] = "stopped" /\ buf'[r] = buf[r]
    BY <1>10 DEF TypeOK, Goto, ptyVars, Reader, ReaderRead, ReaderPublish, ReaderEnd
  <2>2. /\ p1 = p /\ c1 = c /\ w1 = w
        /\ \/ g = 1 /\ g1 = 2 /\ b1 = b - 1
           \/ g = 2 /\ g1 = 1 /\ b1 = b
           \/ g = 1 /\ g1 = 0 /\ b1 = b
    BY <1>3, <2>1, OfValues, Zenon
  <2> QED BY <2>2
<1>11. CASE Child(r) \/ RecvClose(r)
  <2>1. /\ pc'[r] = pc[r] /\ reader'[r] = reader[r]
        /\ \/ /\ child'[r] = child[r]
              /\ written'[r] = written[r] + 1 /\ buf'[r] = buf[r] + 1
           \/ /\ \/ child[r] \in {"running", "killed"} /\ child'[r] = "dead"
                 \/ child[r] = "running" /\ child'[r] = "killed"
              /\ written'[r] = written[r] /\ buf'[r] = buf[r]
    BY <1>11 DEF TypeOK, Goto, ptyVars, Child, ChildWrite, ChildExit, RecvClose, Kill
  <2>2. /\ p1 = p /\ g1 = g
        /\ \/ c1 = c /\ w1 = w + 1 /\ b1 = b + 1
           \/ /\ ((c = 3 \/ c = 2) /\ c1 = 1) \/ (c = 3 /\ c1 = 2)
              /\ w1 = w /\ b1 = b
    BY <1>3, <2>1, OfValues, Zenon
  <2> QED BY <2>2
<1> QED BY <1>6, <1>7, <1>8, <1>9, <1>10, <1>11, Zenon DEF RunStep, Pump

\* CancelledAlwaysCloser holds: with CancelledNeverStuck, this leaves only the
\* fairness of CancelledSessionEnds unproved.
THEOREM AlwaysCloser == Spec => CancelledAlwaysCloser
<1>1. TypeOK /\ TypeOK' /\ IInv /\ [Next]_vars
      => [\A r \in cancelled : /\ r \in cancelled' /\ Work(r)' <= Work(r)
                               /\ RunStep(r) => Work(r)' < Work(r)]_vars
  <2> SUFFICES ASSUME TypeOK, TypeOK', IInv, Next, NEW r \in cancelled
               PROVE  /\ r \in cancelled' /\ Work(r)' <= Work(r)
                      /\ RunStep(r) => Work(r)' < Work(r)
    BY Zenon DEF TypeOK
  <2>1. r \in Runs /\ Opened(r) /\ HandlerInv
    BY Zenon DEF TypeOK, IInv, HandlerInv
  <2>2. r \in cancelled'
    <3>1. ASSUME NEW q \in Runs, Receive(q) \/ Open(q) \/ RecvClose(q) \/ Reader(q) \/ Child(q)
          PROVE  r \in cancelled'
      BY <3>1 DEF Receive, Open, SessionsOpen, RecvClose, Reader, ReaderRead, ReaderPublish,
                  ReaderEnd, Child, ChildWrite, ChildExit, regVars
    <3>2. ASSUME NEW q \in Runs, Pump(q) PROVE r \in cancelled'
      BY <3>2, Zenon DEF Pump, Start, StartFails, Subscribe, SubscribeFails, SelectCancelled, Reap,
                  PublishExit, ClosePty, Finish, SessionsClose, regVars
    <3>3. CASE Unsubscribe \/ CloseAll \/ NatsClose
      BY <3>3 DEF Unsubscribe, CloseAll, SessionsCloseAll, NatsClose
    <3> QED BY <3>1, <3>2, <3>3, Zenon DEF Next, RunStep
  <2>3. Work(r) \in Int
    <3>1. written[r] \in Int /\ buf[r] \in Int /\ MaxChunks \in Int
      BY <2>1, MaxChunksAssumption DEF TypeOK
    <3>2. /\ OfPump(pc[r]) \in 0..20 /\ OfChild(child[r]) \in 0..3
          /\ OfReader(reader[r]) \in 0..2
      BY OfBounds, Zenon
    <3> QED BY <3>1, <3>2 DEF Work
  <2>4. CASE RunStep(r)
    <3>1. Work(r)' < Work(r)
      BY <2>1, <2>4, StepLightens
    <3>2. Work(r)' \in Int
      <4>1. written'[r] \in Int /\ buf'[r] \in Int /\ MaxChunks \in Int
        BY <2>1, MaxChunksAssumption DEF TypeOK
      <4>2. /\ OfPump(pc'[r]) \in 0..20 /\ OfChild(child'[r]) \in 0..3
            /\ OfReader(reader'[r]) \in 0..2
        BY OfBounds, Zenon
      <4> QED BY <4>1, <4>2 DEF Work
    <3> QED BY <2>2, <2>3, <3>1, <3>2
  <2>5. CASE ~RunStep(r)
    <3>1. UNCHANGED <<pc[r], child[r], reader[r], written[r], buf[r], ptmx[r]>>
      BY <2>1, <2>5, OwnSteps
    <3>2. Work(r)' = Work(r)
      BY <3>1, Zenon DEF Work
    <3> QED BY <2>2, <2>3, <2>5, <3>2
  <2> QED BY <2>4, <2>5
<1> QED BY <1>1, TypeCorrect, IInvInvariant, PTL DEF Spec, CancelledAlwaysCloser
=============================================================================

-------------------------- MODULE GuestPlaneProofs --------------------------
(***************************************************************************)
(* What the host may conclude from a response: for any number of streams,  *)
(* frames and heartbeats, and a failure at any send or receive.            *)
(***************************************************************************)
EXTENDS GuestPlane, FiniteSetTheorems, TLAPS

\* The request in hand is the last one received.
Last(s) == Len(reqs[s])

RunTypes ==
  /\ pc \in {"top", "dial", "hello", "ack", "attached", "closing", "gap", "returned"}
  /\ cur \in 0..MaxStreams

Answer == [call : Nat, err : {"none", "error"}]

StreamTypes ==
  /\ reqs \in [Streams -> Seq(HostOps)]
  /\ answers \in [Streams -> Seq(Answer)]
  /\ effects \in [Streams -> SUBSET Nat]
  /\ rv \in [Streams -> {"off", "recv", "dispatch", "sending", "failed", "ended"}]
  /\ resp \in [Streams -> Answer]

\* The receive goroutine of a stream is started once, by runOnce for it.
StartInv ==
  /\ \A s \in Streams : s > cur => rv[s] = "off"
  /\ pc \in {"hello", "ack"} => cur > 0 /\ rv[cur] = "off"

\* Effects and answers of s are of requests received on s; an answer says whether
\* there was an effect.
AnswerInv(s) ==
  /\ effects[s] \subseteq 1..Last(s)
  /\ \A a \in Answered(s) : a.call \in 1..Last(s) /\ (a.err = "none" <=> a.call \in effects[s])

\* All effects were answered but that of the request in hand.
HandInv(s) ==
  /\ rv[s] \in {"off", "recv", "dispatch"} => effects[s] \subseteq AnsweredCalls(s)
  /\ effects[s] \subseteq AnsweredCalls(s) \cup {Last(s)}
  /\ rv[s] \in {"dispatch", "sending"} => Last(s) > 0 /\ Last(s) \notin AnsweredCalls(s)
  /\ rv[s] = "sending" => resp[s].call = Last(s) /\ (resp[s].err = "none" <=> Last(s) \in effects[s])

IInv == RunTypes /\ StreamTypes /\ StartInv /\ \A s \in Streams : AnswerInv(s) /\ HandInv(s)

LEMMA InitHolds == Init => IInv
<1> SUFFICES ASSUME Init PROVE IInv
  OBVIOUS
<1>1. StreamTypes
  <2>1. NoResp \in Answer
    BY DEF NoResp, Answer
  <2> QED BY <2>1 DEF Init, StreamTypes
<1>0. RunTypes /\ StartInv
  BY BoundsAssumption DEF Init, RunTypes, StartInv
<1>2. ASSUME NEW s \in Streams PROVE AnswerInv(s) /\ HandInv(s)
  BY DEF Init, AnswerInv, HandInv, AnsweredCalls, Answered, Range, Last
<1> QED BY <1>0, <1>1, <1>2 DEF IInv

LEMMA RangeAppend ==
  ASSUME NEW S, NEW q \in Seq(S), NEW x \in S
  PROVE  Range(Append(q, x)) = Range(q) \cup {x}
<1>1. DOMAIN Append(q, x) = 1..Len(q) + 1 /\ DOMAIN q = 1..Len(q) /\ Len(q) \in Nat
  OBVIOUS
<1>2. \A i \in 1..Len(q) : Append(q, x)[i] = q[i]
  OBVIOUS
<1>3. Append(q, x)[Len(q) + 1] = x
  OBVIOUS
<1> QED BY <1>1, <1>2, <1>3 DEF Range

\* A step of one receive goroutine leaves the other streams alone.
LEMMA OtherStreams ==
  ASSUME IInv, NEW s \in Streams, NEW t \in Streams, t # s,
         reqs'[t] = reqs[t], answers'[t] = answers[t], effects'[t] = effects[t],
         resp'[t] = resp[t], rv'[t] = rv[t]
  PROVE  AnswerInv(t)' /\ HandInv(t)'
  BY DEF IInv, AnswerInv, HandInv, AnsweredCalls, Answered, Last

\* Steps of Run, of the heartbeat goroutines, of the host and of the transport.
LEMMA ElsewherePreserves ==
  ASSUME IInv, UNCHANGED <<reqs, answers, effects, resp, rv>>,
         \/ UNCHANGED <<pc, cur>>
         \/ RunLoop
         \/ RecvNotHelloAck
  PROVE  IInv'
<1>0. cur \in 0..MaxStreams /\ MaxStreams \in Nat
  BY BoundsAssumption DEF IInv, RunTypes
<1>1. StreamTypes' /\ \A s \in Streams : AnswerInv(s)' /\ HandInv(s)'
  BY DEF IInv, StreamTypes, AnswerInv, HandInv, AnsweredCalls, Answered, Last
<1>2. RunTypes' /\ StartInv'
  <2> USE DEF IInv
  <2>1. CASE UNCHANGED <<pc, cur>>
    BY <2>1 DEF RunTypes, StartInv
  <2>2. CASE Attach
    <3>1. cur' = cur + 1 /\ cur' \in 1..MaxStreams /\ pc' = "hello"
      BY <1>0, <2>2 DEF Attach
    <3>2. cur' \in Streams /\ cur' > cur /\ \A s \in Streams : s > cur' => s > cur
      BY <1>0, <3>1 DEF Streams
    <3> QED BY <1>0, <3>1, <3>2 DEF RunTypes, StartInv
  <2>3. CASE Top \/ DialFails \/ SelectCancelled \/ SelectErr \/ Gap
    BY <2>3 DEF RunTypes, StartInv, Top, DialFails, SelectCancelled, SelectErr, Gap
  <2>4. CASE SendHello \/ HandshakeFails \/ CloseStream \/ RecvNotHelloAck
    BY <2>4 DEF RunTypes, StartInv, SendHello, HandshakeFails, CloseStream, RecvNotHelloAck
  <2> QED BY <2>1, <2>2, <2>3, <2>4, Zenon DEF RunLoop
<1> QED BY <1>1, <1>2 DEF IInv

\* Every step, of Run, of the goroutines of each stream and of their environment.
LEMMA StepPreserves == IInv /\ [Next]_vars => IInv'
<1> SUFFICES ASSUME IInv, [Next]_vars PROVE IInv'
  OBVIOUS
<1>0. RunTypes /\ StreamTypes /\ StartInv /\ \A s \in Streams : AnswerInv(s) /\ HandInv(s)
  BY DEF IInv
<1>1. CASE RunLoop \/ RecvNotHelloAck
  <2>1. UNCHANGED <<reqs, answers, effects, resp, rv>>
    BY <1>1 DEF RunLoop, Top, DialFails, Attach, SendHello, HandshakeFails, SelectCancelled, SelectErr,
       CloseStream, Gap, RecvNotHelloAck, recvVars, sent
  <2> QED BY <1>1, <2>1, ElsewherePreserves
<1>2. ASSUME NEW s \in Streams, Heartbeat(s) \/ StreamEnds(s) PROVE IInv'
  <2>1. UNCHANGED <<reqs, answers, effects, resp, rv, pc, cur>>
    BY <1>2 DEF Heartbeat, Tick, SendStatus, SendStatusFails, HeartbeatReport, HeartbeatDone,
       StreamEnds, recvVars, sent
  <2> QED BY <2>1, ElsewherePreserves
<1>3. CASE Signal \/ UNCHANGED vars
  <2>1. UNCHANGED <<reqs, answers, effects, resp, rv, pc, cur>>
    BY <1>3 DEF Signal, vars, recvVars, sent
  <2> QED BY <2>1, ElsewherePreserves
<1>4. CASE RecvHelloAck
  <2>1. /\ pc = "ack" /\ pc' = "attached" /\ rv' = [rv EXCEPT ![cur] = "recv"]
        /\ UNCHANGED <<cur, reqs, resp, effects, answers>>
    BY <1>4 DEF RecvHelloAck, sent
  <2>2. cur \in Streams /\ rv[cur] = "off" /\ cur \in 0..MaxStreams /\ MaxStreams \in Nat
    BY <1>0, <2>1, BoundsAssumption DEF StartInv, RunTypes, Streams
  <2>4. RunTypes' /\ StreamTypes' /\ StartInv'
    BY <1>0, <2>1, <2>2 DEF StartInv, RunTypes, StreamTypes
  <2>3. \A s \in Streams : AnswerInv(s)' /\ HandInv(s)'
    BY <1>0, <2>1, <2>2 DEF StreamTypes, AnswerInv, HandInv, AnsweredCalls, Answered, Last
  <2> QED BY <2>3, <2>4 DEF IInv
<1>5. ASSUME NEW s \in Streams, NEW op \in HostOps, RecvRequest(s, op) PROVE IInv'
  <2>1. /\ rv[s] = "recv" /\ reqs' = [reqs EXCEPT ![s] = Append(@, op)]
        /\ rv' = [rv EXCEPT ![s] = IF op = "other" THEN "recv" ELSE "dispatch"]
        /\ UNCHANGED <<pc, cur, answers, effects, resp>>
    BY <1>5 DEF RecvRequest, sent
  <2>2. RunTypes' /\ StreamTypes' /\ StartInv'
    BY <1>0, <2>1 DEF RunTypes, StreamTypes, StartInv
  <2>3. Len(reqs[s]) \in Nat /\ Len(reqs'[s]) = Len(reqs[s]) + 1
        /\ rv'[s] \in {"recv", "dispatch"}
    BY <1>0, <2>1 DEF StreamTypes
  <2>4. AnswerInv(s)'
    BY <1>0, <2>1, <2>3 DEF AnswerInv, Answered, Last
  <2>5. HandInv(s)'
    <3>1. Len(reqs'[s]) \notin AnsweredCalls(s) /\ effects[s] \subseteq AnsweredCalls(s)
      BY <1>0, <2>1, <2>3 DEF AnswerInv, HandInv, AnsweredCalls, Last
    <3> QED BY <2>1, <2>3, <3>1 DEF HandInv, AnsweredCalls, Answered, Last
  <2>6. ASSUME NEW t \in Streams, t # s PROVE AnswerInv(t)' /\ HandInv(t)'
    BY <1>0, <2>1, <2>6, OtherStreams DEF StreamTypes
  <2> QED BY <2>2, <2>4, <2>5, <2>6 DEF IInv
<1>6. ASSUME NEW s \in Streams, RecvFails(s) \/ SendResponseFails(s) \/ ReceiveReport(s) PROVE IInv'
  <2>1. /\ rv[s] \in {"recv", "sending", "failed"}
        /\ \E l \in {"failed", "ended"} : rv' = [rv EXCEPT ![s] = l]
        /\ UNCHANGED <<pc, cur, reqs, answers, effects, resp>>
    BY <1>6 DEF RecvFails, SendResponseFails, ReceiveReport, sent
  <2>2. RunTypes' /\ StreamTypes' /\ StartInv'
    BY <1>0, <2>1 DEF RunTypes, StreamTypes, StartInv
  <2>3. \A t \in Streams : AnswerInv(t)' /\ HandInv(t)'
    BY <1>0, <2>1 DEF StreamTypes, AnswerInv, HandInv, AnsweredCalls, Answered, Last
  <2> QED BY <2>2, <2>3 DEF IInv
<1>7. ASSUME NEW s \in Streams, Dispatch(s) PROVE IInv'
  <2>1. PICK n \in Nat : n = Len(reqs[s])
    BY <1>0 DEF StreamTypes
  <2>2. PICK err \in {"none", "error"} :
          /\ effects' = [effects EXCEPT ![s] = IF err = "none" THEN @ \cup {n} ELSE @]
          /\ resp' = [resp EXCEPT ![s] = [call |-> n, err |-> err]]
    BY <1>7, <2>1, Zenon DEF Dispatch, DispatchControl
  <2>3. /\ rv[s] = "dispatch" /\ rv' = [rv EXCEPT ![s] = "sending"]
        /\ UNCHANGED <<pc, cur, reqs, answers>>
    BY <1>7 DEF Dispatch, sent
  <2>4. [call |-> n, err |-> err] \in Answer
    BY DEF Answer
  <2>5. RunTypes' /\ StreamTypes' /\ StartInv'
    BY <1>0, <2>2, <2>3, <2>4 DEF RunTypes, StreamTypes, StartInv
  <2>6. /\ effects'[s] = IF err = "none" THEN effects[s] \cup {n} ELSE effects[s]
        /\ resp'[s] = [call |-> n, err |-> err] /\ rv'[s] = "sending" /\ n = Len(reqs'[s])
    BY <1>0, <2>1, <2>2, <2>3 DEF StreamTypes
  <2>7. n > 0 /\ n \notin AnsweredCalls(s) /\ effects[s] \subseteq AnsweredCalls(s) /\ n \notin effects[s]
    BY <1>0, <2>1, <2>3 DEF HandInv, Last
  <2>8. AnswerInv(s)'
    <3>1. /\ effects[s] \subseteq 1..n
          /\ \A a \in Answered(s) : a.call \in 1..n /\ (a.err = "none" <=> a.call \in effects[s])
      BY <1>0, <2>1 DEF AnswerInv, Last
    <3>2. effects'[s] \subseteq 1..n
      BY <2>6, <2>7, <3>1
    <3>3. \A a \in Answered(s) : a.call \in effects'[s] <=> a.call \in effects[s]
      BY <2>6, <2>7, Zenon DEF AnsweredCalls
    <3> QED BY <2>3, <2>6, <3>1, <3>2, <3>3 DEF AnswerInv, Last, Answered
  <2>9. HandInv(s)'
    BY <2>3, <2>6, <2>7 DEF HandInv, AnsweredCalls, Answered, Last
  <2>10. ASSUME NEW t \in Streams, t # s PROVE AnswerInv(t)' /\ HandInv(t)'
    <3>1. effects'[t] = effects[t] /\ resp'[t] = resp[t] /\ rv'[t] = rv[t]
      BY <1>0, <2>2, <2>3, <2>10 DEF StreamTypes
    <3> QED BY <2>3, <2>10, <3>1, OtherStreams
  <2> QED BY <2>5, <2>8, <2>9, <2>10 DEF IInv
<1>8. ASSUME NEW s \in Streams, SendResponse(s) PROVE IInv'
  <2>1. /\ rv[s] = "sending" /\ rv' = [rv EXCEPT ![s] = "recv"]
        /\ answers' = [answers EXCEPT ![s] = Append(@, resp[s])]
        /\ UNCHANGED <<pc, cur, reqs, effects, resp>>
    BY <1>8 DEF SendResponse
  <2>2. RunTypes' /\ StreamTypes' /\ StartInv'
    BY <1>0, <2>1 DEF RunTypes, StreamTypes, StartInv
  <2>3. Range(answers'[s]) = Range(answers[s]) \cup {resp[s]}
    BY <1>0, <2>1, RangeAppend DEF StreamTypes
  <2>4. PICK n \in Nat : n = Len(reqs[s])
    BY <1>0 DEF StreamTypes
  <2>5. n > 0 /\ resp[s].call = n /\ (resp[s].err = "none" <=> n \in effects[s])
    BY <1>0, <2>1, <2>4 DEF Last, HandInv
  <2>6. AnswerInv(s)'
    BY <1>0, <2>1, <2>3, <2>4, <2>5 DEF AnswerInv, Answered, Last
  <2>7. HandInv(s)'
    <3>1. effects[s] \subseteq AnsweredCalls(s) \cup {n}
      BY <1>0, <2>4 DEF HandInv, Last
    <3>2. effects[s] \subseteq {a.call : a \in Range(answers'[s])}
      BY <2>3, <2>5, <3>1 DEF AnsweredCalls, Answered
    <3>3. rv'[s] = "recv"
      BY <1>0, <2>1 DEF StreamTypes
    <3> QED BY <2>1, <3>2, <3>3 DEF HandInv, AnsweredCalls, Answered, Last
  <2>8. ASSUME NEW t \in Streams, t # s PROVE AnswerInv(t)' /\ HandInv(t)'
    <3>1. answers'[t] = answers[t] /\ rv'[t] = rv[t]
      BY <1>0, <2>1, <2>8 DEF StreamTypes
    <3> QED BY <2>1, <2>8, <3>1, OtherStreams
  <2> QED BY <2>2, <2>6, <2>7, <2>8 DEF IInv
<1> QED BY <1>1, <1>2, <1>3, <1>4, <1>5, <1>6, <1>7, <1>8, Zenon
        DEF Next, HostAnswers, Receiver, Environment

LEMMA Invariant == Spec => []IInv
<1> QED BY InitHolds, StepPreserves, PTL DEF Spec

\* A response without an Error is sent exactly for the requests whose effect was
\* published, on every stream and whatever fails.
THEOREM AnswersTruthful == Spec => []AckMeansEffect
<1>1. IInv => AckMeansEffect
  BY DEF IInv, AnswerInv, AckMeansEffect
<1> QED BY <1>1, Invariant, PTL

\* When a stream breaks at most one of its effects is unacknowledged, although the
\* receive goroutine may outlive the stream.
THEOREM OneInDoubt == Spec => []OneEffectInDoubt
<1>1. IInv => OneEffectInDoubt
  <2> SUFFICES ASSUME IInv, NEW s \in Streams
               PROVE  Cardinality(effects[s] \ AnsweredCalls(s)) <= 1
    BY DEF OneEffectInDoubt, AnsweredCalls
  <2>1. effects[s] \ AnsweredCalls(s) \subseteq {Last(s)}
    BY DEF IInv, HandInv
  <2>2. IsFiniteSet({Last(s)}) /\ Cardinality({Last(s)}) = 1
    BY FS_Singleton, Zenon
  <2>3. Cardinality(effects[s] \ AnsweredCalls(s)) <= Cardinality({Last(s)})
    BY <2>1, <2>2, FS_Subset
  <2>4. Cardinality(effects[s] \ AnsweredCalls(s)) \in Nat
    BY <2>1, <2>2, FS_Subset, FS_CardinalityType
  <2> QED BY <2>2, <2>3, <2>4
<1> QED BY <1>1, Invariant, PTL

-----------------------------------------------------------------------------
(***************************************************************************)
(* The order of the answers.                                               *)
(***************************************************************************)
InOrder(s) == \A i, j \in DOMAIN answers[s] : i < j => answers[s][i].call < answers[s][j].call

\* Before the next frame everything has been answered; then only that one is open.
OrderInv(s) ==
  /\ InOrder(s)
  /\ AnsweredCalls(s) \subseteq ControlCalls(s)
  /\ ControlCalls(s) \subseteq AnsweredCalls(s) \cup {Last(s)}
  /\ rv[s] \in {"off", "recv"} => ControlCalls(s) \subseteq AnsweredCalls(s)
  /\ rv[s] \in {"dispatch", "sending"} => Last(s) \in ControlCalls(s)

Ordered == \A s \in Streams : OrderInv(s)

LEMMA OrderInitHolds == Init => Ordered
  BY DEF Init, Ordered, OrderInv, InOrder, AnsweredCalls, Answered, ControlCalls, Range, Last

\* A stream whose frames and answers do not change.
LEMMA OrderKept ==
  ASSUME Ordered, NEW s \in Streams, reqs'[s] = reqs[s], answers'[s] = answers[s],
         \/ rv'[s] = rv[s]
         \/ rv'[s] \in {"failed", "ended"}
         \/ rv[s] = "off" /\ rv'[s] = "recv"
         \/ rv[s] = "dispatch" /\ rv'[s] = "sending"
  PROVE  OrderInv(s)'
  BY DEF Ordered, OrderInv, InOrder, AnsweredCalls, Answered, ControlCalls, Last

\* The receive goroutine takes a frame when it has answered all of them.
LEMMA OrderOfFrames ==
  ASSUME IInv, Ordered, NEW s \in Streams, NEW op \in HostOps,
         rv[s] = "recv", rv'[s] = (IF op = "other" THEN "recv" ELSE "dispatch"),
         reqs'[s] = Append(reqs[s], op), answers'[s] = answers[s]
  PROVE  OrderInv(s)'
<1>1. /\ reqs[s] \in Seq(HostOps) /\ Len(reqs[s]) \in Nat /\ Len(reqs'[s]) = Len(reqs[s]) + 1
      /\ reqs'[s][Len(reqs[s]) + 1] = op
      /\ \A i \in 1..Len(reqs[s]) : reqs'[s][i] = reqs[s][i]
  BY DEF IInv, StreamTypes
<1>2. ControlCalls(s)' = ControlCalls(s) \cup (IF op = "other" THEN {} ELSE {Len(reqs[s]) + 1})
  BY <1>1 DEF ControlCalls
<1>3. AnsweredCalls(s)' = AnsweredCalls(s) /\ InOrder(s)'
  BY DEF Ordered, OrderInv, InOrder, AnsweredCalls, Answered
<1>4. AnsweredCalls(s) = ControlCalls(s)
  BY Zenon DEF Ordered, OrderInv
<1>5. Last(s)' = Len(reqs[s]) + 1
  BY <1>1 DEF Last
<1> QED BY <1>2, <1>3, <1>4, <1>5 DEF OrderInv

\* It answers the last frame it took, which no answer is for yet.
LEMMA OrderOfAnswers ==
  ASSUME IInv, Ordered, NEW s \in Streams,
         rv[s] = "sending", rv'[s] = "recv", reqs'[s] = reqs[s],
         answers'[s] = Append(answers[s], resp[s])
  PROVE  OrderInv(s)'
<1>0. IInv /\ OrderInv(s) /\ AnswerInv(s) /\ HandInv(s)
  BY DEF IInv, Ordered
<1>1. PICK n \in Nat : n = Last(s)
  BY <1>0 DEF IInv, StreamTypes, Last
<1>2. /\ answers[s] \in Seq(Answer) /\ resp[s] \in Answer /\ resp[s].call = n
      /\ \A a \in Answered(s) : a.call \in 1..n /\ a.call # n
  BY <1>0, <1>1 DEF IInv, StreamTypes, AnswerInv, HandInv, AnsweredCalls
<1>3. AnsweredCalls(s)' = AnsweredCalls(s) \cup {n}
  BY <1>2, RangeAppend DEF AnsweredCalls, Answered
<1>4. InOrder(s)'
  <2> DEFINE q == answers[s]
             r == Append(q, resp[s])
  <2>1. /\ Len(q) \in Nat /\ DOMAIN q = 1..Len(q) /\ DOMAIN r = 1..Len(q) + 1
        /\ r[Len(q) + 1] = resp[s] /\ \A i \in 1..Len(q) : r[i] = q[i]
    BY <1>2
  <2>2. \A i \in 1..Len(q) : q[i].call \in Nat /\ q[i].call < n
    <3> SUFFICES ASSUME NEW i \in 1..Len(q) PROVE q[i].call \in Nat /\ q[i].call < n
      OBVIOUS
    <3>1. q[i] \in Answered(s)
      BY <2>1 DEF Answered, Range
    <3>2. q[i].call \in 1..n /\ q[i].call # n
      BY <1>2, <3>1
    <3> QED BY <3>2
  <2>3. ASSUME NEW i \in 1..Len(q) + 1, NEW j \in 1..Len(q) + 1, i < j
        PROVE  r[i].call < r[j].call
    <3>1. i \in 1..Len(q)
      BY <2>1, <2>3
    <3>2. CASE j \in 1..Len(q)
      BY <1>0, <2>1, <2>3, <3>1, <3>2 DEF OrderInv, InOrder
    <3>3. CASE j = Len(q) + 1
      BY <1>2, <2>1, <2>2, <3>1, <3>3
    <3> QED BY <2>1, <3>2, <3>3
  <2> QED BY <2>1, <2>3 DEF InOrder
<1>5. ControlCalls(s)' = ControlCalls(s) /\ Last(s)' = n /\ n \in ControlCalls(s)
  BY <1>0, <1>1 DEF ControlCalls, Last, OrderInv
<1> QED BY <1>0, <1>1, <1>3, <1>4, <1>5 DEF OrderInv

LEMMA OrderPreserved == IInv /\ Ordered /\ [Next]_vars => Ordered'
<1> SUFFICES ASSUME IInv, Ordered, [Next]_vars, NEW t \in Streams PROVE OrderInv(t)'
  BY DEF Ordered
<1>0. StreamTypes
  BY DEF IInv
<1>1. ASSUME UNCHANGED <<reqs, answers, rv>> PROVE OrderInv(t)'
  BY <1>1, OrderKept
<1>2. CASE RunLoop \/ RecvNotHelloAck \/ Signal \/ UNCHANGED vars
  <2>1. UNCHANGED <<reqs, answers, rv>>
    BY <1>2 DEF RunLoop, Top, DialFails, Attach, SendHello, HandshakeFails, SelectCancelled, SelectErr,
       CloseStream, Gap, RecvNotHelloAck, Signal, vars, recvVars, sent
  <2> QED BY <1>1, <2>1
<1>3. ASSUME NEW s \in Streams, Heartbeat(s) \/ StreamEnds(s) PROVE OrderInv(t)'
  <2>1. UNCHANGED <<reqs, answers, rv>>
    BY <1>3 DEF Heartbeat, Tick, SendStatus, SendStatusFails, HeartbeatReport, HeartbeatDone,
       StreamEnds, recvVars, sent
  <2> QED BY <1>1, <2>1
<1>4. CASE RecvHelloAck
  <2>1. pc = "ack" /\ rv' = [rv EXCEPT ![cur] = "recv"] /\ UNCHANGED <<reqs, answers>>
    BY <1>4 DEF RecvHelloAck, sent
  <2>2. rv[cur] = "off"
    BY <2>1 DEF IInv, StartInv
  <2> QED BY <1>0, <2>1, <2>2, OrderKept DEF StreamTypes
<1>5. ASSUME NEW s \in Streams, NEW op \in HostOps, RecvRequest(s, op) PROVE OrderInv(t)'
  <2>1. /\ rv[s] = "recv" /\ reqs' = [reqs EXCEPT ![s] = Append(@, op)]
        /\ rv' = [rv EXCEPT ![s] = IF op = "other" THEN "recv" ELSE "dispatch"]
        /\ answers' = answers
    BY <1>5 DEF RecvRequest, sent
  <2>2. CASE t = s
    BY <1>0, <2>1, <2>2, OrderOfFrames, Zenon DEF StreamTypes
  <2>3. CASE t # s
    BY <1>0, <2>1, <2>3, OrderKept DEF StreamTypes
  <2> QED BY <2>2, <2>3
<1>6. ASSUME NEW s \in Streams, RecvFails(s) \/ SendResponseFails(s) \/ ReceiveReport(s) \/ Dispatch(s)
      PROVE  OrderInv(t)'
  <2>1. /\ UNCHANGED <<reqs, answers>>
        /\ \/ \E l \in {"failed", "ended"} : rv' = [rv EXCEPT ![s] = l]
           \/ rv[s] = "dispatch" /\ rv' = [rv EXCEPT ![s] = "sending"]
    BY <1>6 DEF RecvFails, SendResponseFails, ReceiveReport, Dispatch, sent
  <2> QED BY <1>0, <2>1, OrderKept DEF StreamTypes
<1>7. ASSUME NEW s \in Streams, SendResponse(s) PROVE OrderInv(t)'
  <2>1. /\ rv[s] = "sending" /\ rv' = [rv EXCEPT ![s] = "recv"] /\ reqs' = reqs
        /\ answers' = [answers EXCEPT ![s] = Append(@, resp[s])]
    BY <1>7 DEF SendResponse
  <2>2. CASE t = s
    BY <1>0, <2>1, <2>2, OrderOfAnswers, Zenon DEF StreamTypes
  <2>3. CASE t # s
    BY <1>0, <2>1, <2>3, OrderKept DEF StreamTypes
  <2> QED BY <2>2, <2>3
<1> QED BY <1>2, <1>3, <1>4, <1>5, <1>6, <1>7, Zenon
        DEF Next, HostAnswers, Receiver, Environment

\* On every stream the responses are those of the ControlRequests, once each and in
\* their order; only the last frame may lack its own.
THEOREM AnswersOrdered == Spec => []AnswersInOrder
<1>1. Ordered => AnswersInOrder
  BY DEF Ordered, OrderInv, InOrder, AnswersInOrder, Last
<1> QED BY <1>1, OrderInitHolds, OrderPreserved, Invariant, PTL DEF Spec

-----------------------------------------------------------------------------
(***************************************************************************)
(* The goroutines of the streams, and the types.                           *)
(***************************************************************************)
Over(goroutine) == IF goroutine = "ended" THEN 1 ELSE 0

\* A stream is open only while runOnce is in it; a goroutine that has ended put at
\* most one value into errCh.
StreamInv(s) ==
  /\ Len(reqs[s]) <= frames
  /\ s > cur => hb[s] = "off" /\ stream[s] = "none"
  /\ stream[s] = "open" => s = cur /\ pc \in {"hello", "ack", "attached", "closing"}
  /\ stream[s] = "open" /\ hb[s] = "sending" => beats < MaxBeats
  /\ errCh[s] <= Over(hb[s]) + Over(rv[s])

GoInv ==
  /\ TypeOK
  /\ pc \in {"hello", "ack"} => hb[cur] = "off"
  /\ pc \in {"hello", "ack", "attached", "closing"} => cur > 0
  /\ \A s \in Streams : StreamInv(s)

\* Run has at most one open stream: a redial never leaves the last one behind.
OneStreamOpen ==
  \A s, t \in Streams : stream[s] = "open" /\ stream[t] = "open" => s = t

\* A goroutine that reports what broke its stream finds room in errCh, although
\* runOnce reads one value at most, and none after it has returned.
ReportNeverBlocks ==
  \A s \in Streams : "failed" \in {hb[s], rv[s]} => errCh[s] < ErrChCap

LEMMA GoInitHolds == Init => GoInv
<1> SUFFICES ASSUME Init PROVE GoInv
  OBVIOUS
<1>1. TypeOK
  BY BoundsAssumption DEF Init, TypeOK
<1>2. ASSUME NEW s \in Streams PROVE StreamInv(s)
  BY DEF Init, StreamInv, Over
<1> QED BY <1>1, <1>2 DEF Init, GoInv

LEMMA CurrentStream ==
  ASSUME GoInv, pc \in {"hello", "ack", "attached", "closing"}
  PROVE  cur \in Streams
  BY BoundsAssumption DEF GoInv, TypeOK, Streams

LEMMA ErrTyped ==
  ASSUME TypeOK, NEW s \in Streams, SendErr(s)
  PROVE  errCh' \in [Streams -> 0..2]
<1>1. errCh[s] \in 0..2 /\ errCh[s] < 2 /\ errCh' = [errCh EXCEPT ![s] = errCh[s] + 1]
  BY DEF TypeOK, SendErr, ErrChCap
<1>2. errCh[s] + 1 \in 0..2
  BY <1>1
<1> QED BY <1>1, <1>2 DEF TypeOK

LEMMA GoTyped == GoInv /\ IInv /\ [Next]_vars => TypeOK'
<1> SUFFICES ASSUME GoInv, IInv, [Next]_vars PROVE TypeOK'
  OBVIOUS
<1>0. TypeOK
  BY DEF GoInv
<1> USE <1>0, BoundsAssumption DEF TypeOK, recvVars, sent
<1>1. CASE Top \/ DialFails \/ Gap \/ SendHello \/ SelectCancelled
  BY <1>1 DEF Top, DialFails, Gap, SendHello, SelectCancelled
<1>2. CASE Attach
  <2>1. cur' \in 0..MaxStreams
    BY <1>2 DEF Attach
  <2> QED BY <1>2, <2>1, Zenon DEF Attach
<1>3. CASE HandshakeFails \/ RecvNotHelloAck \/ CloseStream
  BY <1>3, Zenon DEF HandshakeFails, RecvNotHelloAck, CloseStream
<1>4. CASE SelectErr
  BY <1>4, CurrentStream DEF SelectErr
<1>5. CASE RecvHelloAck
  BY <1>5, Zenon DEF RecvHelloAck
<1>6. ASSUME NEW s \in Streams, Tick(s) \/ SendStatusFails(s) \/ HeartbeatDone(s) PROVE TypeOK'
  BY <1>6, Zenon DEF Tick, SendStatusFails, HeartbeatDone
<1>7. ASSUME NEW s \in Streams, SendStatus(s) PROVE TypeOK'
  <2>1. beats < MaxBeats
    BY <1>7 DEF SendStatus, Send, GoInv, StreamInv
  <2> QED BY <1>7, <2>1 DEF SendStatus
<1>8. ASSUME NEW s \in Streams, HeartbeatReport(s) PROVE TypeOK'
  BY <1>8, ErrTyped DEF HeartbeatReport
<1>9. ASSUME NEW s \in Streams, NEW op \in HostOps, RecvRequest(s, op) PROVE TypeOK'
  BY <1>9 DEF RecvRequest
<1>10. ASSUME NEW s \in Streams, RecvFails(s) \/ SendResponseFails(s) PROVE TypeOK'
  BY <1>10, Zenon DEF RecvFails, SendResponseFails
<1>11. ASSUME NEW s \in Streams, ReceiveReport(s) PROVE TypeOK'
  BY <1>11, ErrTyped DEF ReceiveReport
<1>12. ASSUME NEW s \in Streams, Dispatch(s) PROVE TypeOK'
  <2>1. PICK n \in 1..MaxRequests : n = Len(reqs[s])
    BY <1>12 DEF Dispatch, IInv, HandInv, Last, GoInv, StreamInv
  <2>2. PICK err \in {"none", "error"} :
          /\ effects' = [effects EXCEPT ![s] = IF err = "none" THEN @ \cup {n} ELSE @]
          /\ resp' = [resp EXCEPT ![s] = [call |-> n, err |-> err]]
    BY <1>12, <2>1, Zenon DEF Dispatch, DispatchControl
  <2>3. [call |-> n, err |-> err] \in Responses
    BY DEF Responses
  <2> QED BY <1>12, <2>2, <2>3 DEF Dispatch
<1>13. ASSUME NEW s \in Streams, SendResponse(s) PROVE TypeOK'
  <2>1. resp[s].call # 0
    BY <1>13 DEF SendResponse, IInv, StreamTypes, HandInv, Last
  <2>2. resp[s] \in Responses
    BY <2>1 DEF NoResp
  <2>3. answers' \in [Streams -> Seq(Responses)]
    BY <1>13, <2>2 DEF SendResponse
  <2> QED BY <1>13, <2>3 DEF SendResponse
<1>14. CASE Signal
  BY <1>14 DEF Signal
<1>15. ASSUME NEW s \in Streams, StreamEnds(s) PROVE TypeOK'
  BY <1>15 DEF StreamEnds
<1>16. CASE UNCHANGED vars
  BY <1>16 DEF vars
<1> QED BY <1>1, <1>2, <1>3, <1>4, <1>5, <1>6, <1>7, <1>8, <1>9, <1>10, <1>11, <1>12, <1>13,
            <1>14, <1>15, <1>16, Zenon
         DEF Next, RunLoop, HostAnswers, Heartbeat, Receiver, Environment

LEMMA StreamPreserved ==
  ASSUME GoInv, IInv, [Next]_vars, NEW t \in Streams
  PROVE  StreamInv(t)'
<1>0. /\ TypeOK /\ StreamInv(t) /\ t \in Nat /\ t > 0 /\ cur \in Nat
      /\ pc \in {"hello", "ack", "attached", "closing"} => cur \in Streams
  BY CurrentStream, BoundsAssumption DEF GoInv, TypeOK, Streams
<1> USE <1>0 DEF TypeOK, StreamInv, recvVars, sent
<1>1. CASE Top \/ DialFails \/ Gap \/ SendHello \/ SelectCancelled
  BY <1>1 DEF Top, DialFails, Gap, SendHello, SelectCancelled
<1>2. CASE Attach
  BY <1>2 DEF Attach
<1>3. CASE HandshakeFails \/ RecvNotHelloAck \/ CloseStream
  BY <1>3 DEF HandshakeFails, RecvNotHelloAck, CloseStream
<1>4. CASE SelectErr
  BY <1>4 DEF SelectErr, Over
<1>5. CASE RecvHelloAck
  BY <1>5 DEF RecvHelloAck, GoInv, IInv, StartInv, Over
<1>6. ASSUME NEW s \in Streams, Tick(s) \/ SendStatusFails(s) \/ HeartbeatDone(s) PROVE StreamInv(t)'
  BY <1>6 DEF Tick, SendStatusFails, HeartbeatDone, Over
<1>7. ASSUME NEW s \in Streams, SendStatus(s) PROVE StreamInv(t)'
  BY <1>7 DEF SendStatus, Send, Over, GoInv
<1>8. ASSUME NEW s \in Streams, HeartbeatReport(s) PROVE StreamInv(t)'
  BY <1>8 DEF HeartbeatReport, SendErr, Over
<1>9. ASSUME NEW s \in Streams, NEW op \in HostOps, RecvRequest(s, op) PROVE StreamInv(t)'
  BY <1>9 DEF RecvRequest, Over
<1>10. ASSUME NEW s \in Streams, RecvFails(s) \/ SendResponseFails(s) PROVE StreamInv(t)'
  BY <1>10 DEF RecvFails, SendResponseFails, Over
<1>11. ASSUME NEW s \in Streams, ReceiveReport(s) PROVE StreamInv(t)'
  BY <1>11 DEF ReceiveReport, SendErr, Over
<1>12. ASSUME NEW s \in Streams, Dispatch(s) \/ SendResponse(s) PROVE StreamInv(t)'
  BY <1>12 DEF Dispatch, SendResponse, Over
<1>13. CASE Signal
  BY <1>13 DEF Signal
<1>14. ASSUME NEW s \in Streams, StreamEnds(s) PROVE StreamInv(t)'
  BY <1>14 DEF StreamEnds
<1>15. CASE UNCHANGED vars
  BY <1>15 DEF vars
<1> QED BY <1>1, <1>2, <1>3, <1>4, <1>5, <1>6, <1>7, <1>8, <1>9, <1>10, <1>11, <1>12, <1>13,
            <1>14, <1>15, Zenon
         DEF Next, RunLoop, HostAnswers, Heartbeat, Receiver, Environment

\* Only Run itself moves pc and cur.
LEMMA HelloPreserved ==
  ASSUME GoInv, [Next]_vars
  PROVE  /\ pc' \in {"hello", "ack"} => hb'[cur'] = "off"
         /\ pc' \in {"hello", "ack", "attached", "closing"} => cur' > 0
<1>0. TypeOK /\ cur \in Nat /\ MaxStreams \in Nat
  BY BoundsAssumption DEF GoInv, TypeOK
<1> USE <1>0 DEF GoInv, TypeOK, recvVars, sent
<1>1. CASE Attach
  <2>1. cur' = cur + 1 /\ cur' \in Streams /\ hb' = hb /\ cur' > cur
    BY <1>1 DEF Attach, Streams
  <2> QED BY <2>1 DEF StreamInv
<1>2. CASE Top \/ DialFails \/ Gap \/ SendHello \/ SelectCancelled \/ SelectErr
  BY <1>2 DEF Top, DialFails, Gap, SendHello, SelectCancelled, SelectErr
<1>3. CASE HandshakeFails \/ RecvNotHelloAck \/ CloseStream \/ RecvHelloAck
  BY <1>3 DEF HandshakeFails, RecvNotHelloAck, CloseStream, RecvHelloAck
<1>4. ASSUME NEW s \in Streams, Heartbeat(s)
      PROVE  /\ pc' \in {"hello", "ack"} => hb'[cur'] = "off"
             /\ pc' \in {"hello", "ack", "attached", "closing"} => cur' > 0
  <2>1. UNCHANGED <<pc, cur>> /\ hb[s] # "off" /\ \E l : hb' = [hb EXCEPT ![s] = l]
    BY <1>4 DEF Heartbeat, Tick, SendStatus, SendStatusFails, HeartbeatReport, HeartbeatDone
  <2> QED BY <2>1
<1>5. ASSUME UNCHANGED <<pc, cur, hb>>
      PROVE  /\ pc' \in {"hello", "ack"} => hb'[cur'] = "off"
             /\ pc' \in {"hello", "ack", "attached", "closing"} => cur' > 0
  BY <1>5
<1>6. CASE Signal \/ UNCHANGED vars
  BY <1>5, <1>6, Zenon DEF Signal, vars
<1>7. ASSUME NEW s \in Streams, Receiver(s) \/ StreamEnds(s) \/ \E op \in HostOps : RecvRequest(s, op)
      PROVE  UNCHANGED <<pc, cur, hb>>
  BY <1>7, Zenon DEF Receiver, RecvFails, Dispatch, SendResponse, SendResponseFails, ReceiveReport,
     StreamEnds, RecvRequest
<1> QED BY <1>1, <1>2, <1>3, <1>4, <1>5, <1>6, <1>7, Zenon DEF Next, RunLoop, HostAnswers, Environment

LEMMA GoInvariant == Spec => []GoInv
<1>1. GoInv /\ IInv /\ [Next]_vars => GoInv'
  BY GoTyped, StreamPreserved, HelloPreserved DEF GoInv
<1> QED BY <1>1, GoInitHolds, Invariant, PTL DEF Spec

\* The variables keep their types, for any number of streams, frames and beats.
THEOREM TypeCorrect == Spec => []TypeOK
<1>1. GoInv => TypeOK
  BY DEF GoInv
<1> QED BY <1>1, GoInvariant, PTL

\* OneStreamOpen holds: runOnce ends its stream on every path that leaves it.
THEOREM OneStreamAtATime == Spec => []OneStreamOpen
<1>1. GoInv => OneStreamOpen
  BY DEF GoInv, StreamInv, OneStreamOpen
<1> QED BY <1>1, GoInvariant, PTL

\* ReportNeverBlocks holds: the part of GoroutinesEnd that is about safety.
THEOREM ReportsFit == Spec => []ReportNeverBlocks
<1>1. GoInv => ReportNeverBlocks
  <2> SUFFICES ASSUME GoInv, NEW s \in Streams, "failed" \in {hb[s], rv[s]} PROVE errCh[s] < 2
    BY DEF ReportNeverBlocks, ErrChCap
  <2>1. errCh[s] \in 0..2 /\ errCh[s] <= Over(hb[s]) + Over(rv[s])
    BY DEF GoInv, TypeOK, StreamInv
  <2> QED BY <2>1 DEF Over
<1> QED BY <1>1, GoInvariant, PTL

\* While runOnce waits in its select, the receive goroutine is at work or what it
\* reported is in errCh: the end of a stream cannot be missed.
LossIsSeen ==
  pc = "attached" => errCh[cur] > 0 \/ rv[cur] \in {"recv", "dispatch", "sending", "failed"}

LEMMA LossSeenPreserved == ASSUME GoInv, LossIsSeen, [Next]_vars PROVE LossIsSeen'
<1>0. TypeOK /\ (pc \in {"ack", "attached"} => cur \in Streams)
  BY CurrentStream DEF GoInv
<1> USE <1>0 DEF TypeOK, LossIsSeen, recvVars, sent
<1>1. CASE RunLoop \/ HostAnswers
  <2>1. CASE Top \/ DialFails \/ Gap \/ SendHello \/ SelectCancelled \/ SelectErr \/ Attach
    BY <2>1 DEF Top, DialFails, Gap, SendHello, SelectCancelled, SelectErr, Attach
  <2>2. CASE HandshakeFails \/ RecvNotHelloAck \/ CloseStream \/ RecvHelloAck
    BY <2>2 DEF HandshakeFails, RecvNotHelloAck, CloseStream, RecvHelloAck
  <2> QED BY <1>1, <2>1, <2>2, Zenon DEF RunLoop, HostAnswers
<1>2. ASSUME NEW s \in Streams, HeartbeatReport(s) PROVE LossIsSeen'
  <2>1. UNCHANGED <<pc, cur>> /\ errCh' = [errCh EXCEPT ![s] = errCh[s] + 1] /\ errCh[s] \in Nat
    <3>1. errCh' = [errCh EXCEPT ![s] = errCh[s] + 1]
      BY <1>2, Zenon DEF HeartbeatReport, SendErr
    <3>2. errCh[s] \in 0..2
      OBVIOUS
    <3> QED BY <1>2, <3>1, <3>2 DEF HeartbeatReport
  <2>2. CASE s = cur
    BY <2>1, <2>2
  <2>3. CASE s # cur
    BY <1>2, <2>1, <2>3 DEF HeartbeatReport
  <2> QED BY <2>2, <2>3
<1>3. ASSUME NEW s \in Streams, ReceiveReport(s) PROVE LossIsSeen'
  <2>1. UNCHANGED <<pc, cur>> /\ errCh' = [errCh EXCEPT ![s] = errCh[s] + 1] /\ errCh[s] \in Nat
    <3>1. errCh' = [errCh EXCEPT ![s] = errCh[s] + 1]
      BY <1>3, Zenon DEF ReceiveReport, SendErr
    <3>2. errCh[s] \in 0..2
      OBVIOUS
    <3> QED BY <1>3, <3>1, <3>2 DEF ReceiveReport
  <2>2. CASE s = cur
    BY <2>1, <2>2
  <2>3. CASE s # cur
    BY <1>3, <2>1, <2>3 DEF ReceiveReport
  <2> QED BY <2>2, <2>3
<1>4. ASSUME NEW s \in Streams,
             RecvFails(s) \/ Dispatch(s) \/ SendResponse(s) \/ SendResponseFails(s)
               \/ \E op \in HostOps : RecvRequest(s, op)
      PROVE  LossIsSeen'
  <2>1. /\ UNCHANGED <<pc, cur, errCh>>
        /\ \E l \in {"recv", "dispatch", "sending", "failed"} : rv' = [rv EXCEPT ![s] = l]
    BY <1>4 DEF RecvFails, Dispatch, SendResponse, SendResponseFails, RecvRequest
  <2> QED BY <2>1
<1>5. ASSUME NEW s \in Streams,
             Tick(s) \/ SendStatus(s) \/ SendStatusFails(s) \/ HeartbeatDone(s) \/ StreamEnds(s)
      PROVE  LossIsSeen'
  BY <1>5 DEF Tick, SendStatus, SendStatusFails, HeartbeatDone, StreamEnds
<1>6. CASE Signal \/ UNCHANGED vars
  BY <1>6 DEF Signal, vars
<1> QED BY <1>1, <1>2, <1>3, <1>4, <1>5, <1>6, Zenon DEF Next, Heartbeat, Receiver, Environment

\* LossIsSeen holds: the part of RedialsAfterLoss that is about safety.
THEOREM LossSeen == Spec => []LossIsSeen
<1>1. Init => LossIsSeen
  BY DEF Init, LossIsSeen
<1>2. GoInv /\ LossIsSeen /\ [Next]_vars => LossIsSeen'
  BY LossSeenPreserved
<1> QED BY <1>1, <1>2, GoInvariant, PTL DEF Spec
=============================================================================

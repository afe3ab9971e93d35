----------------------------- MODULE GuestPlane -----------------------------
(***************************************************************************)
(* The guest side of the GuestPodPlane stream (pkg/guestplane).            *)
(*                                                                         *)
(* Run dials the host over AF_VSOCK, opens one bidirectional gRPC stream,  *)
(* sends Hello, waits for HelloAck and then serves the stream with two     *)
(* goroutines: one sends PodStatus heartbeats, one receives ControlRequest *)
(* frames, dispatches each and sends the response.  Whatever breaks the    *)
(* stream is reported through errCh; runOnce returns and Run redials.      *)
(* runOnce does not join the two goroutines, so the goroutines of an old   *)
(* stream coexist with the next stream.                                    *)
(*                                                                         *)
(* A stream is a number: the n-th successful Attach.  Only what Run does   *)
(* with a stream is modelled; what the network does to it is environment.  *)
(***************************************************************************)
EXTENDS Integers, Sequences, FiniteSets, Functions

CONSTANTS MaxStreams,   \* bound: streams the host accepts
          MaxRequests,  \* bound: frames the host sends after HelloAck, in all
          MaxBeats,     \* bound: heartbeats sent, in all
          HostOps,      \* bound: kinds of frame the host sends after HelloAck
          Wired,        \* whether a Dispatcher is configured (NATS reachable)
          HeartbeatTick \* cfg.HeartbeatTick, in seconds

ASSUME BoundsAssumption ==
  MaxStreams \in Nat /\ MaxRequests \in Nat /\ MaxBeats \in Nat
\* A ControlRequest with a known or with an unknown op, or another frame.
ASSUME HostOpsAssumption == HostOps \subseteq {"known", "unknown", "other"}
ASSUME ConfigAssumption == Wired \in BOOLEAN /\ HeartbeatTick \in Int

Streams == 1..MaxStreams

VARIABLES ctx,       \* the agent's signal context: "live" or "cancelled"
          pc,        \* where Run is
          cur,       \* number of streams opened so far; the current one
          stream,    \* state of each stream as gRPC reports it
          reqs,      \* the frames Recv has returned on each stream after HelloAck
          frames,    \* history: how many they are, on all streams
          answers,   \* responses the guest has sent on each stream
          beats,     \* heartbeats the guest has sent
          effects,   \* calls whose effect was published on the bus
          hb,        \* heartbeat goroutine of each stream
          rv,        \* receive goroutine of each stream
          resp,      \* response the receive goroutine is about to send
          errCh      \* number of values buffered in errCh of each stream

vars == <<ctx, pc, cur, stream, reqs, frames, answers, beats, effects, hb, rv, resp, errCh>>
sent == <<answers, beats>>
recvVars == <<reqs, frames, rv, resp, effects>>

\* An empty Error field is "none"; any text in it is "error".
NoResp    == [call |-> 0, err |-> "none"]
Responses == [call : 1..MaxRequests, err : {"none", "error"}]

TypeOK ==
  /\ ctx \in {"live", "cancelled"}
  /\ pc \in {"top", "dial", "hello", "ack", "attached", "closing", "gap", "returned"}
  /\ cur \in 0..MaxStreams
  /\ stream \in [Streams -> {"none", "open", "ended", "closed"}]
  /\ reqs \in [Streams -> Seq(HostOps)]
  /\ frames \in 0..MaxRequests
  /\ answers \in [Streams -> Seq(Responses)]
  /\ beats \in 0..MaxBeats
  /\ effects \in [Streams -> SUBSET (1..MaxRequests)]
  /\ hb \in [Streams -> {"off", "waiting", "sending", "failed", "ended"}]
  /\ rv \in [Streams -> {"off", "recv", "dispatch", "sending", "failed", "ended"}]
  /\ resp \in [Streams -> Responses \cup {NoResp}]
  /\ errCh \in [Streams -> 0..2]

Init ==
  /\ ctx = "live" /\ pc = "top" /\ cur = 0
  /\ stream = [s \in Streams |-> "none"]
  /\ reqs = [s \in Streams |-> <<>>] /\ frames = 0
  /\ answers = [s \in Streams |-> <<>>] /\ beats = 0
  /\ effects = [s \in Streams |-> {}]
  /\ hb = [s \in Streams |-> "off"]
  /\ rv = [s \in Streams |-> "off"]
  /\ resp = [s \in Streams |-> NoResp]
  /\ errCh = [s \in Streams |-> 0]

(***************************************************************************)
(* errCh := make(chan error, 2).                                           *)
(***************************************************************************)
\* Faulty variant: one slot for the two goroutines that report.
ErrChCapOne == 1

ErrChCap == 2

SendErr(s) ==
  /\ errCh[s] < ErrChCap
  /\ errCh' = [errCh EXCEPT ![s] = @ + 1]

\* stream.Send succeeds while gRPC believes the stream is up.
Send(s) == stream[s] = "open"

(***************************************************************************)
(* Run and the sequential part of runOnce.                                 *)
(***************************************************************************)
\* Faulty variant: Run forgets to look at ctx before it redials.
TopNoCheck ==
  /\ pc = "top"
  /\ pc' = "dial"
  /\ UNCHANGED <<ctx, cur, stream, recvVars, sent, hb, errCh>>

Top ==
  /\ pc = "top"
  /\ pc' = IF ctx = "cancelled" THEN "returned" ELSE "dial"
  /\ UNCHANGED <<ctx, cur, stream, recvVars, sent, hb, errCh>>

\* DialWithRetry gives up, or Attach fails: runOnce returns the error.
DialFails ==
  /\ pc = "dial"
  /\ pc' = "gap"
  /\ UNCHANGED <<ctx, cur, stream, recvVars, sent, hb, errCh>>

\* DialWithRetry and Attach succeed.  DialWithRetry never looks at ctx, but
\* Attach does: it fails on a cancelled context.
Attach ==
  /\ pc = "dial" /\ ctx = "live" /\ cur < MaxStreams
  /\ cur' = cur + 1
  /\ stream' = [stream EXCEPT ![cur + 1] = "open"]
  /\ pc' = "hello"
  /\ UNCHANGED <<ctx, recvVars, sent, hb, errCh>>

SendHello ==
  /\ pc = "hello"
  /\ Send(cur)
  /\ pc' = "ack"
  /\ UNCHANGED <<ctx, cur, stream, recvVars, sent, hb, errCh>>

\* Run replaces a zero HeartbeatTick by the default.
DefaultHeartbeatTick == 10
EffectiveTick == IF HeartbeatTick = 0 THEN DefaultHeartbeatTick ELSE HeartbeatTick

\* HelloAck received, possibly after the stream that carried it has ended:
\* both goroutines are started.
RecvHelloAck ==
  /\ pc = "ack"
  /\ hb' = [hb EXCEPT ![cur] = IF EffectiveTick > 0 THEN "waiting" ELSE "off"]
  /\ rv' = [rv EXCEPT ![cur] = "recv"]
  /\ pc' = "attached"
  /\ UNCHANGED <<ctx, cur, stream, reqs, frames, resp, effects, sent, errCh>>

\* The Hello cannot be sent or no answer can be received: runOnce returns
\* and its deferred cc.Close ends the stream.
HandshakeFails ==
  /\ pc \in {"hello", "ack"} /\ stream[cur] # "open"
  /\ stream' = [stream EXCEPT ![cur] = "closed"]
  /\ pc' = "gap"
  /\ UNCHANGED <<ctx, cur, recvVars, sent, hb, errCh>>

\* The first frame is not a HelloAck.
RecvNotHelloAck ==
  /\ pc = "ack"
  /\ stream' = [stream EXCEPT ![cur] = "closed"]
  /\ pc' = "gap"
  /\ UNCHANGED <<ctx, cur, recvVars, sent, hb, errCh>>

\* The final select; the deferred cancelHeartbeat runs as it returns and the
\* deferred cc.Close after that.
SelectCancelled ==
  /\ pc = "attached" /\ ctx = "cancelled"
  /\ pc' = "closing"
  /\ UNCHANGED <<ctx, cur, stream, recvVars, sent, hb, errCh>>

SelectErr ==
  /\ pc = "attached" /\ errCh[cur] > 0
  /\ errCh' = [errCh EXCEPT ![cur] = @ - 1]
  /\ pc' = "closing"
  /\ UNCHANGED <<ctx, cur, stream, recvVars, sent, hb>>

CloseStream ==
  /\ pc = "closing"
  /\ stream' = [stream EXCEPT ![cur] = "closed"]
  /\ pc' = "gap"
  /\ UNCHANGED <<ctx, cur, recvVars, sent, hb, errCh>>

\* The reconnect gap elapses, or the context ends it.
Gap ==
  /\ pc = "gap"
  /\ \/ pc' = "top"
     \/ ctx = "cancelled" /\ pc' = "returned"
  /\ UNCHANGED <<ctx, cur, stream, recvVars, sent, hb, errCh>>

HostAnswers == RecvHelloAck \/ RecvNotHelloAck

RunLoop == \/ Top \/ DialFails \/ Attach \/ SendHello \/ HandshakeFails
           \/ SelectCancelled \/ SelectErr \/ CloseStream \/ Gap

(***************************************************************************)
(* The heartbeat goroutine of stream s.                                    *)
(***************************************************************************)
\* heartbeatCtx: done when ctx is, or when runOnce for s has returned.
HeartbeatCtxDone(s) == ctx = "cancelled" \/ s # cur \/ pc # "attached"

Tick(s) ==
  /\ hb[s] = "waiting"
  /\ beats < MaxBeats
  /\ hb' = [hb EXCEPT ![s] = "sending"]
  /\ UNCHANGED <<ctx, pc, cur, stream, recvVars, sent, errCh>>

SendStatus(s) ==
  /\ hb[s] = "sending"
  /\ Send(s)
  /\ beats' = beats + 1
  /\ hb' = [hb EXCEPT ![s] = "waiting"]
  /\ UNCHANGED <<ctx, pc, cur, stream, recvVars, answers, errCh>>

SendStatusFails(s) ==
  /\ hb[s] = "sending" /\ stream[s] # "open"
  /\ hb' = [hb EXCEPT ![s] = "failed"]
  /\ UNCHANGED <<ctx, pc, cur, stream, recvVars, sent, errCh>>

HeartbeatReport(s) ==
  /\ hb[s] = "failed"
  /\ SendErr(s)
  /\ hb' = [hb EXCEPT ![s] = "ended"]
  /\ UNCHANGED <<ctx, pc, cur, stream, recvVars, sent>>

HeartbeatDone(s) ==
  /\ hb[s] = "waiting" /\ HeartbeatCtxDone(s)
  /\ hb' = [hb EXCEPT ![s] = "ended"]
  /\ UNCHANGED <<ctx, pc, cur, stream, recvVars, sent, errCh>>

Heartbeat(s) == \/ Tick(s) \/ SendStatus(s) \/ SendStatusFails(s)
                \/ HeartbeatReport(s) \/ HeartbeatDone(s)

(***************************************************************************)
(* The receive goroutine of stream s.                                      *)
(***************************************************************************)
\* Recv returns a frame of the host.  gRPC hands out what it has buffered
\* before the error that ended the stream, so the stream may be down already.
RecvRequest(s, op) ==
  /\ rv[s] = "recv"
  /\ frames < MaxRequests /\ frames' = frames + 1
  /\ reqs' = [reqs EXCEPT ![s] = Append(@, op)]
  /\ rv' = [rv EXCEPT ![s] = IF op = "other" THEN "recv" ELSE "dispatch"]
  /\ UNCHANGED <<ctx, pc, cur, stream, sent, effects, hb, resp, errCh>>

\* io.EOF or another error, after the last frame that Recv returns.
RecvFails(s) ==
  /\ rv[s] = "recv" /\ stream[s] # "open"
  /\ rv' = [rv EXCEPT ![s] = "failed"]
  /\ UNCHANGED <<ctx, pc, cur, stream, reqs, frames, resp, effects, sent, hb, errCh>>

\* Faulty variant: the callback's error is not copied into the response.
DispatchControlNoError(s, call) ==
  \E err \in {"none", "error"} :
    /\ err = "none" => Wired /\ reqs[s][call] = "known"
    /\ effects' = [effects EXCEPT ![s] = IF err = "none" THEN @ \cup {call} ELSE @]
    /\ resp' = [resp EXCEPT ![s] = [call |-> call, err |-> "none"]]

\* dispatchControl: no dispatcher or an unknown op answers with an Error and
\* does nothing; otherwise the callback publishes on the bus or fails.
DispatchControl(s, call) ==
  \E err \in {"none", "error"} :
    /\ err = "none" => Wired /\ reqs[s][call] = "known"
    /\ effects' = [effects EXCEPT ![s] = IF err = "none" THEN @ \cup {call} ELSE @]
    /\ resp' = [resp EXCEPT ![s] = [call |-> call, err |-> err]]

Dispatch(s) ==
  /\ rv[s] = "dispatch"
  /\ DispatchControl(s, Len(reqs[s]))
  /\ rv' = [rv EXCEPT ![s] = "sending"]
  /\ UNCHANGED <<ctx, pc, cur, stream, reqs, frames, sent, hb, errCh>>

SendResponse(s) ==
  /\ rv[s] = "sending"
  /\ Send(s)
  /\ answers' = [answers EXCEPT ![s] = Append(@, resp[s])]
  /\ rv' = [rv EXCEPT ![s] = "recv"]
  /\ UNCHANGED <<ctx, pc, cur, stream, reqs, frames, resp, effects, beats, hb, errCh>>

\* Faulty variant: a response that cannot be sent is dropped and the loop
\* goes on receiving.
SendResponseFailsGoesOn(s) ==
  /\ rv[s] = "sending" /\ stream[s] # "open"
  /\ rv' = [rv EXCEPT ![s] = "recv"]
  /\ UNCHANGED <<ctx, pc, cur, stream, reqs, frames, resp, effects, sent, hb, errCh>>

SendResponseFails(s) ==
  /\ rv[s] = "sending" /\ stream[s] # "open"
  /\ rv' = [rv EXCEPT ![s] = "failed"]
  /\ UNCHANGED <<ctx, pc, cur, stream, reqs, frames, resp, effects, sent, hb, errCh>>

\* Faulty variant: a clean close ends the goroutine without the nil error.
ReceiveReportSilent(s) ==
  /\ rv[s] = "failed"
  /\ rv' = [rv EXCEPT ![s] = "ended"]
  /\ UNCHANGED <<ctx, pc, cur, stream, reqs, frames, resp, effects, sent, hb, errCh>>

ReceiveReport(s) ==
  /\ rv[s] = "failed"
  /\ SendErr(s)
  /\ rv' = [rv EXCEPT ![s] = "ended"]
  /\ UNCHANGED <<ctx, pc, cur, stream, reqs, frames, resp, effects, sent, hb>>

Receiver(s) == \/ RecvFails(s) \/ Dispatch(s)
               \/ SendResponse(s) \/ SendResponseFails(s) \/ ReceiveReport(s)

(***************************************************************************)
(* The environment: the signal, the host and the vsock transport.          *)
(* Cancelling ctx also ends the stream, which was opened with it.          *)
(***************************************************************************)
Signal ==
  /\ ctx = "live"
  /\ ctx' = "cancelled"
  /\ stream' = [s \in Streams |-> IF stream[s] = "open" THEN "ended" ELSE stream[s]]
  /\ UNCHANGED <<pc, cur, recvVars, sent, hb, errCh>>

\* The stream ends, with io.EOF or with an error.
StreamEnds(s) ==
  /\ stream[s] = "open"
  /\ stream' = [stream EXCEPT ![s] = "ended"]
  /\ UNCHANGED <<ctx, pc, cur, recvVars, sent, hb, errCh>>

Environment ==
  \/ Signal
  \/ \E s \in Streams : \/ \E op \in HostOps : RecvRequest(s, op)
                        \/ StreamEnds(s)

Next == RunLoop \/ HostAnswers \/ (\E s \in Streams : Heartbeat(s) \/ Receiver(s)) \/ Environment

Spec == Init /\ [][Next]_vars

(***************************************************************************)
(* Fairness: every goroutine is scheduled, and a dial ends because its     *)
(* attempts are counted.  Nothing is assumed of the host: it may never     *)
(* accept, never answer the Hello, never send and never close.             *)
(***************************************************************************)
Fairness ==
  /\ WF_vars(RunLoop)
  /\ \A s \in Streams : WF_vars(Heartbeat(s)) /\ WF_vars(Receiver(s))

FairSpec == Spec /\ Fairness

-----------------------------------------------------------------------------
(***************************************************************************)
(* Properties.                                                             *)
(***************************************************************************)
\* The calls of the ControlRequests received on s.
ControlCalls(s) == {i \in 1..Len(reqs[s]) : reqs[s][i] # "other"}

Answered(s) == Range(answers[s])

AnsweredCalls(s) == {a.call : a \in Answered(s)}

\* The receive loop answers each ControlRequest it received once, nothing else,
\* and in the order of arrival; at any time only the last frame it received
\* may lack its answer, whatever the heartbeat goroutine and later streams do.
AnswersInOrder ==
  \A s \in Streams :
    /\ \A i, j \in DOMAIN answers[s] : i < j => answers[s][i].call < answers[s][j].call
    /\ AnsweredCalls(s) \subseteq ControlCalls(s)
    /\ ControlCalls(s) \subseteq AnsweredCalls(s) \cup {Len(reqs[s])}

\* A response without an Error is sent exactly for the requests whose effect
\* dispatchControl really put on the bus.
AckMeansEffect ==
  \A s \in Streams : \A a \in Answered(s) : (a.err = "none") <=> (a.call \in effects[s])

\* When a stream breaks the host is in doubt about one request at most: all
\* effects of a stream but one were acknowledged on it, even though its
\* receive goroutine may outlive runOnce.
OneEffectInDoubt ==
  \A s \in Streams :
    Cardinality(effects[s] \ AnsweredCalls(s)) <= 1

\* Neither goroutine of a stream outlives it for ever: runOnce reads at most
\* one value from errCh, and the other report must not block.
GoroutinesEnd ==
  \A s \in Streams :
    (stream[s] = "closed") ~> (hb[s] \in {"off", "ended"} /\ rv[s] \in {"off", "ended"})

\* A stream that ends, cleanly or not, is noticed and the host dialled again
\* unless the agent is told to stop, with or without heartbeats.
RedialsAfterLoss ==
  (pc = "attached" /\ stream[cur] # "open") ~> (pc = "dial" \/ ctx = "cancelled")

\* Run returns after the signal context is cancelled, from wherever it is.
StopsWhenCancelled == (ctx = "cancelled") ~> (pc = "returned")

\* gRPC's contract for ClientStream, which runOnce relies on: SendMsg is not
\* called on the same stream from two goroutines at once.
NoConcurrentSend ==
  \A s \in Streams : ~(hb[s] = "sending" /\ rv[s] = "sending")

\* The --guestplane-heartbeat flag's help text: an interval <= 0 disables
\* the heartbeats that runOnce starts.
NonPositiveTickDisables ==
  HeartbeatTick <= 0 => \A s \in Streams : hb[s] = "off"
=============================================================================

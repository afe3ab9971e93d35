---------------------------- MODULE ExecSession ----------------------------
(***************************************************************************)
(* Interactive exec sessions of the agent (pkg/execsession).               *)
(*                                                                         *)
(* A client publishes an ExecRequest on weft.exec.<vm>.open.  The handler  *)
(* registers a cancel function in the Sessions registry under the id the   *)
(* client chose and launches one goroutine per request; the goroutine runs *)
(* the pty pump (Run) and removes the id from the registry when it ends.   *)
(*                                                                         *)
(* A "run" below is one such goroutine with its child process, pty, reader *)
(* goroutine and subscription to the in subject.  Several runs may carry   *)
(* the same id, because a client may publish open twice with one id.       *)
(***************************************************************************)
EXTENDS Naturals, Sequences

CONSTANTS Runs,       \* the open requests that may arrive
          Ids,        \* the session ids clients use
          BadIds,     \* ids that are not legal NATS tokens (e.g. with a space)
          NoRun,      \* "no entry" in the registry
          Writers,    \* the runs whose child writes output
          MaxChunks   \* bound: chunks of output one child writes

ASSUME NoRunAssumption == NoRun \notin Runs
ASSUME BadIdsAssumption == BadIds \subseteq Ids
ASSUME WritersAssumption == Writers \subseteq Runs
ASSUME MaxChunksAssumption == MaxChunks \in Nat

VARIABLES sub,        \* the open subscription: "on" or "off"
          stop,       \* progress of the stop function: "no", "unsub", "done"
          nats,       \* the agent's connection: "open" or "closed"
          handler,    \* the request inside the open callback, or NoRun
          live,       \* Sessions.live: id -> run whose cancel is stored
          sid,        \* the id each run was opened with
          pc,         \* where each run's goroutine is
          cancelled,  \* the runs whose context has been cancelled
          child,      \* the child process
          buf,        \* chunks in the pty, not yet read by the reader
          written,    \* chunks the child has written in total
          ptmx,       \* the pty master: "none", "open", "closed"
          reader,     \* the pty -> out goroutine
          insub,      \* the runs subscribed to their in subject
          out         \* frames published on each out subject, in order

regVars  == <<sub, stop, nats, handler, live, sid, cancelled>>
ptyVars  == <<child, buf, written, ptmx, reader>>
vars     == <<regVars, pc, ptyVars, insub, out>>

PCs      == {"idle", "handling", "spawned", "started", "select", "reaping",
             "exiting", "closing", "returning", "done"}
Frames   == [kind : {"o", "e"}, run : Runs]

TypeOK ==
  /\ sub \in {"on", "off"}
  /\ stop \in {"no", "unsub", "done"}
  /\ nats \in {"open", "closed"}
  /\ handler \in Runs \cup {NoRun}
  /\ live \in [Ids -> Runs \cup {NoRun}]
  /\ sid \in [Runs -> Ids]
  /\ pc \in [Runs -> PCs]
  /\ cancelled \in SUBSET Runs
  /\ child \in [Runs -> {"none", "running", "killed", "dead", "reaped"}]
  /\ buf \in [Runs -> 0..MaxChunks]
  /\ written \in [Runs -> 0..MaxChunks]
  /\ ptmx \in [Runs -> {"none", "open", "closed"}]
  /\ reader \in [Runs -> {"none", "reading", "holding", "stopped"}]
  /\ insub \in SUBSET Runs
  /\ out \in [Ids -> Seq(Frames)]

Init ==
  /\ sub = "on" /\ stop = "no" /\ nats = "open" /\ handler = NoRun
  /\ live = [i \in Ids |-> NoRun]
  /\ sid \in [Runs -> Ids]
  /\ pc = [r \in Runs |-> "idle"]
  /\ cancelled = {}
  /\ child = [r \in Runs |-> "none"]
  /\ buf = [r \in Runs |-> 0]
  /\ written = [r \in Runs |-> 0]
  /\ ptmx = [r \in Runs |-> "none"]
  /\ reader = [r \in Runs |-> "none"]
  /\ insub = {}
  /\ out = [i \in Ids |-> <<>>]

(***************************************************************************)
(* Shared effects.                                                         *)
(***************************************************************************)
Goto(r, l) == pc' = [pc EXCEPT ![r] = l]

\* cmd.Process.Kill: SIGKILL is pending until the kernel ends the process.
Kill(r) == child' = [child EXCEPT ![r] = IF @ = "running" THEN "killed" ELSE @]

\* nc.Publish on the run's out subject; the error is dropped by every caller.
Publish(r, kind) ==
  out' = IF nats = "open" /\ sid[r] \notin BadIds
         THEN [out EXCEPT ![sid[r]] = Append(@, [kind |-> kind, run |-> r])]
         ELSE out

(***************************************************************************)
(* The registry: Sessions.Open, Close and CloseAll, each under s.mu.       *)
(***************************************************************************)
SessionsOpen(id, r) ==
  /\ cancelled' = cancelled \cup ({live[id]} \ {NoRun})
  /\ live' = [live EXCEPT ![id] = r]

\* Faulty variant of SessionsClose: the entry is deleted, cancel is not called.
SessionsCloseNoCancel(id) ==
  /\ cancelled' = cancelled
  /\ live' = [live EXCEPT ![id] = NoRun]

SessionsClose(id) ==
  /\ cancelled' = cancelled \cup ({live[id]} \ {NoRun})
  /\ live' = [live EXCEPT ![id] = NoRun]

SessionsCloseAll ==
  /\ cancelled' = cancelled \cup ({live[id] : id \in Ids} \ {NoRun})
  /\ live' = [id \in Ids |-> NoRun]

(***************************************************************************)
(* The open subscription.  NATS runs the callback of one subscription on   *)
(* one goroutine, so a single request is in the callback at a time, and    *)
(* Unsubscribe does not wait for it.  A request that DecodeRequest rejects *)
(* changes nothing; the requests here are the ones it accepts.             *)
(***************************************************************************)
Receive(r) ==
  /\ sub = "on" /\ handler = NoRun /\ pc[r] = "idle"
  /\ handler' = r
  /\ Goto(r, "handling")
  /\ UNCHANGED <<sub, stop, nats, live, sid, cancelled, ptyVars, insub, out>>

Open(r) ==
  /\ handler = r
  /\ SessionsOpen(sid[r], r)
  /\ handler' = NoRun
  /\ Goto(r, "spawned")
  /\ UNCHANGED <<sub, stop, nats, sid, ptyVars, insub, out>>

(***************************************************************************)
(* Run, the pty pump.                                                      *)
(***************************************************************************)
\* buildCommand and pty.Start succeed; the reader goroutine is launched.
Start(r) ==
  /\ pc[r] = "spawned"
  /\ child' = [child EXCEPT ![r] = "running"]
  /\ ptmx' = [ptmx EXCEPT ![r] = "open"]
  /\ reader' = [reader EXCEPT ![r] = "reading"]
  /\ Goto(r, "started")
  /\ UNCHANGED <<regVars, buf, written, insub, out>>

\* pty.Start fails (no such command or directory): Run returns the error.
\* buildCommand cannot fail here: Validate admits only the kinds it knows.
StartFails(r) ==
  /\ pc[r] = "spawned"
  /\ Goto(r, "returning")
  /\ UNCHANGED <<regVars, ptyVars, insub, out>>

Subscribe(r) ==
  /\ pc[r] = "started"
  /\ nats = "open" /\ sid[r] \notin BadIds
  /\ insub' = insub \cup {r}
  /\ Goto(r, "select")
  /\ UNCHANGED <<regVars, ptyVars, out>>

\* Faulty variant of SubscribeFails: the child is left running.
SubscribeFailsNoKill(r) ==
  /\ pc[r] = "started"
  /\ nats = "closed" \/ sid[r] \in BadIds
  /\ ptmx' = [ptmx EXCEPT ![r] = "closed"]
  /\ Goto(r, "returning")
  /\ UNCHANGED <<regVars, child, buf, written, reader, insub, out>>

\* Subscribing fails: the child is killed but not waited for.
SubscribeFails(r) ==
  /\ pc[r] = "started"
  /\ nats = "closed" \/ sid[r] \in BadIds
  /\ Kill(r)
  /\ ptmx' = [ptmx EXCEPT ![r] = "closed"]
  /\ Goto(r, "returning")
  /\ UNCHANGED <<regVars, buf, written, reader, insub, out>>

\* Faulty variant of SelectCancelled: the child is not waited for.
SelectCancelledNoWait(r) ==
  /\ pc[r] = "select" /\ r \in cancelled
  /\ Kill(r)
  /\ Goto(r, "exiting")
  /\ UNCHANGED <<regVars, buf, written, ptmx, reader, insub, out>>

\* Faulty variant of SelectCancelled: the child is waited for but not killed.
SelectCancelledNoKill(r) ==
  /\ pc[r] = "select" /\ r \in cancelled
  /\ Goto(r, "reaping")
  /\ UNCHANGED <<regVars, ptyVars, insub, out>>

\* select, case <-ctx.Done(): kill, then wait for the child.
SelectCancelled(r) ==
  /\ pc[r] = "select" /\ r \in cancelled
  /\ Kill(r)
  /\ Goto(r, "reaping")
  /\ UNCHANGED <<regVars, buf, written, ptmx, reader, insub, out>>

\* Faulty variant of Reap: the select has no case for the child's own exit.
ReapOnlyAfterCancel(r) ==
  /\ pc[r] = "reaping" /\ child[r] = "dead"
  /\ child' = [child EXCEPT ![r] = "reaped"]
  /\ Goto(r, "exiting")
  /\ UNCHANGED <<regVars, buf, written, ptmx, reader, insub, out>>

\* cmd.Wait has returned: case <-done, or the <-done of the branch above.
Reap(r) ==
  /\ pc[r] \in {"select", "reaping"} /\ child[r] = "dead"
  /\ child' = [child EXCEPT ![r] = "reaped"]
  /\ Goto(r, "exiting")
  /\ UNCHANGED <<regVars, buf, written, ptmx, reader, insub, out>>

PublishExit(r) ==
  /\ pc[r] = "exiting"
  /\ Publish(r, "e")
  /\ Goto(r, "closing")
  /\ UNCHANGED <<regVars, ptyVars, insub>>

\* ptmx.Close, then Run returns and its deferred Unsubscribe runs.
ClosePty(r) ==
  /\ pc[r] = "closing"
  /\ ptmx' = [ptmx EXCEPT ![r] = "closed"]
  /\ insub' = insub \ {r}
  /\ Goto(r, "returning")
  /\ UNCHANGED <<regVars, child, buf, written, reader, out>>

\* The goroutine's deferred sessions.Close(req.ID).
Finish(r) ==
  /\ pc[r] = "returning"
  /\ SessionsClose(sid[r])
  /\ Goto(r, "done")
  /\ UNCHANGED <<sub, stop, nats, handler, sid, ptyVars, insub, out>>

(***************************************************************************)
(* The reader goroutine: pty -> out subject.  Run does not join it.        *)
(***************************************************************************)
ReaderRead(r) ==
  /\ reader[r] = "reading" /\ ptmx[r] = "open" /\ buf[r] > 0
  /\ buf' = [buf EXCEPT ![r] = @ - 1]
  /\ reader' = [reader EXCEPT ![r] = "holding"]
  /\ UNCHANGED <<regVars, pc, child, written, ptmx, insub, out>>

ReaderPublish(r) ==
  /\ reader[r] = "holding"
  /\ Publish(r, "o")
  /\ reader' = [reader EXCEPT ![r] = "reading"]
  /\ UNCHANGED <<regVars, pc, child, buf, written, ptmx, insub>>

\* Read fails: the pty was closed, or the child is gone and it is drained.
ReaderEnd(r) ==
  /\ reader[r] = "reading"
  /\ ptmx[r] = "closed" \/ (buf[r] = 0 /\ child[r] \in {"dead", "reaped"})
  /\ reader' = [reader EXCEPT ![r] = "stopped"]
  /\ UNCHANGED <<regVars, pc, child, buf, written, ptmx, insub, out>>

(***************************************************************************)
(* The environment: the child, the client's 'x' frame, and the owner of    *)
(* the subscriber, who may call the stop function Start returned or close  *)
(* the connection.  The 'i' and 'r' frames only reach the child's tty.     *)
(***************************************************************************)
ChildWrite(r) ==
  /\ r \in Writers /\ child[r] = "running" /\ ptmx[r] = "open"
  /\ written[r] < MaxChunks
  /\ buf' = [buf EXCEPT ![r] = @ + 1]
  /\ written' = [written EXCEPT ![r] = @ + 1]
  /\ UNCHANGED <<regVars, pc, child, ptmx, reader, insub, out>>

ChildExit(r) ==
  /\ child[r] \in {"running", "killed"}
  /\ child' = [child EXCEPT ![r] = "dead"]
  /\ UNCHANGED <<regVars, pc, buf, written, ptmx, reader, insub, out>>

RecvClose(r) ==
  /\ r \in insub /\ child[r] = "running"
  /\ Kill(r)
  /\ UNCHANGED <<regVars, pc, buf, written, ptmx, reader, insub, out>>

\* stop, first half: sub.Unsubscribe.
Unsubscribe ==
  /\ stop = "no"
  /\ stop' = "unsub" /\ sub' = "off"
  /\ UNCHANGED <<nats, handler, live, sid, cancelled, pc, ptyVars, insub, out>>

\* stop, second half: sessions.CloseAll.
CloseAll ==
  /\ stop = "unsub"
  /\ stop' = "done"
  /\ SessionsCloseAll
  /\ UNCHANGED <<sub, nats, handler, sid, pc, ptyVars, insub, out>>

\* nc.Close: every subscription of the connection ends with it.
NatsClose ==
  /\ nats = "open"
  /\ nats' = "closed" /\ sub' = "off"
  /\ insub' = {}
  /\ UNCHANGED <<stop, handler, live, sid, cancelled, pc, ptyVars, out>>

(***************************************************************************)
(* The specification.                                                      *)
(***************************************************************************)
Pump(r) ==
  \/ Start(r) \/ StartFails(r) \/ Subscribe(r) \/ SubscribeFails(r)
  \/ SelectCancelled(r) \/ Reap(r) \/ PublishExit(r) \/ ClosePty(r) \/ Finish(r)

Reader(r) == ReaderRead(r) \/ ReaderPublish(r) \/ ReaderEnd(r)

Child(r) == ChildWrite(r) \/ ChildExit(r)

RunStep(r) == Receive(r) \/ Open(r) \/ Pump(r) \/ Reader(r) \/ Child(r) \/ RecvClose(r)

Next == (\E r \in Runs : RunStep(r)) \/ Unsubscribe \/ CloseAll \/ NatsClose

Spec == Init /\ [][Next]_vars

(***************************************************************************)
(* Fairness: Go schedules every runnable goroutine, and the kernel ends a  *)
(* process that was sent SIGKILL.  Neither the client, the child left to   *)
(* itself nor the owner is obliged to do anything.                         *)
(***************************************************************************)
Fairness ==
  \A r \in Runs : /\ WF_vars(Open(r))
                  /\ WF_vars(Pump(r))
                  /\ WF_vars(Reader(r))
                  /\ WF_vars(child[r] = "killed" /\ ChildExit(r))

FairSpec == Spec /\ Fairness

(***************************************************************************)
(* Properties.                                                             *)
(***************************************************************************)
Opened(r) == pc[r] \notin {"idle", "handling"}

ExitFrames(r) ==
  {i \in DOMAIN out[sid[r]] : out[sid[r]][i] = [kind |-> "e", run |-> r]}

\* Re-opening an id supersedes the previous session (Sessions.Open): two
\* sessions of one id are never both running without having been cancelled,
\* whatever the order of opens, deferred closes and CloseAll.
OneUncancelledPerId ==
  \A q, r \in Runs :
    (/\ sid[q] = sid[r]
     /\ Opened(q) /\ q \notin cancelled
     /\ Opened(r) /\ r \notin cancelled) => q = r

\* The registry holds exactly the sessions that can still be told to stop:
\* a session missing from Sessions.live has been cancelled, and an entry
\* never outlives its goroutine, so CloseAll reaches everything it must.
RegistryIsExact ==
  /\ \A r \in Runs : Opened(r) /\ r \notin cancelled => live[sid[r]] = r
  /\ \A id \in Ids : live[id] # NoRun =>
       /\ sid[live[id]] = id
       /\ Opened(live[id]) /\ pc[live[id]] # "done"
       /\ live[id] \notin cancelled

\* The 'e' frame Run publishes is authoritative: it is sent at most once per
\* session and only when the session's child has been waited for.
ExitFrameAuthoritative ==
  \A r \in Runs :
    /\ \A i, j \in ExitFrames(r) : i = j
    /\ ExitFrames(r) # {} => child[r] = "reaped"

\* A goroutine that has left Run holds nothing: not subscribed to the in
\* subject, pty master closed, child exited or killed (both early returns
\* and the normal path).
FinishedHoldsNothing ==
  \A r \in Runs :
    pc[r] \in {"returning", "done"} =>
      r \notin insub /\ ptmx[r] # "open" /\ child[r] # "running"

\* Nothing of the run is left: its goroutine, its child or its reader.
TornDown(r) ==
  /\ pc[r] = "done" /\ child[r] \notin {"running", "killed"} /\ reader[r] \in {"none", "stopped"}

\* A cancelled session is torn down completely: its goroutine ends, its child
\* dies and its reader goroutine stops, even though Run does not join it.
CancelledSessionEnds == \A r \in Runs : r \in cancelled ~> TornDown(r)

\* A client attached to a session learns that the child is gone: once the
\* pump is subscribed, the child's death leads to the 'e' frame, unless the
\* agent's connection is closed first.
ChildDeathReported ==
  \A r \in Runs :
    r \in insub /\ child[r] = "dead" ~> ExitFrames(r) # {} \/ nats = "closed"

(***************************************************************************)
(* What the comments of the package say, and the code does not do.         *)
(***************************************************************************)
\* Sessions.Open: "the publisher reissued open with the same ID, stale
\* session needs to die first".  The stale session must then not take its
\* replacement with it: a session is cancelled by a newer open of its id, by
\* CloseAll or by its own end, never by the end of the session it replaced.
ReplacementOutlivesStale ==
  [][\A q, r \in Runs :
       q # r /\ pc[q] = "returning" /\ pc'[q] = "done" => (r \in cancelled' <=> r \in cancelled)]_vars

\* Run: "Always emits a final 'e' exit frame so the caller can flip its
\* running state authoritatively" - always: every session that ended while
\* the connection was open has published one.
AlwaysEmitsExitFrame ==
  \A r \in Runs :
    pc[r] = "done" /\ nats = "open" => ExitFrames(r) # {}

\* Run: "Always emits a final 'e' exit frame" - final: no output frame of a
\* session follows its exit frame on the out subject.
ExitFrameIsFinal ==
  \A r \in Runs : \A i \in ExitFrames(r) :
    \A j \in DOMAIN out[sid[r]] : j > i => out[sid[r]][j].run # r

\* Start: "The returned stop fn unsubscribes + cancels every live session":
\* once stop has returned, no session is left uncancelled.
StopCancelsEverySession ==
  stop = "done" => \A r \in Runs : Opened(r) => r \in cancelled
=============================================================================

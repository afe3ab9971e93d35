----------------------------- MODULE SshSession -----------------------------
(***************************************************************************)
(* One session channel of the embedded SSH server: handleSession reads the *)
(* channel's requests; startShell runs a child on a PTY with two copying   *)
(* goroutines and one that waits for both, reaps the child and reports its *)
(* exit status.  The client and the child are the environment.             *)
(*                                                                         *)
(* typed counts chunks from the client, printed chunks from the child.     *)
(* The PTY's master is in blocking mode (creack/pty calls Fd on it): its   *)
(* Close does not wake a read or a write in progress, and the descriptor   *)
(* stays open until that one returns.                                      *)
(***************************************************************************)
EXTENDS SshPayload

CONSTANTS Requests,     \* the requests clients make
          MaxRequests,  \* bound: requests the client makes
          MaxOut,       \* bound: chunks the child prints
          MaxIn,        \* bound: chunks the client types
          PatientClient \* whether the client waits for the exit status

RequestTypes == {"pty-req", "env", "shell", "exec", "window-change"}

ASSUME SshSessionAssumption ==
  /\ Requests \subseteq [type : RequestTypes, payload : Payload]
  /\ MaxRequests \in Nat /\ MaxOut \in Nat /\ MaxIn \in Nat /\ PatientClient \in BOOLEAN

VARIABLES loop,      \* handleSession: "run", "starting" in startShell, "done"
          started,   \* its locals, ptyReq NotOk while it is nil,
          ptyReq, envVars,
          execLine,  \*   execLine NotOk before the first shell or exec
          reqs,      \* bound: requests made so far
          fatal,     \* <<the request whose parser panicked>>; <<>> while the agent runs
          asked,     \* history: the readable payloads of env, pty-req (the last one)
                     \* and exec up to the start, and of window-change after it
          chan,      \* the channel: "open", client's "eof", "closed"
          child,     \* "none", "run", "exited", "reaped"
          cmd,       \* what the child was started with
          winsize,   \* its terminal's size
          pty,       \* the master: "none", "open", "closing" (closed, but a
                     \* read or a write still holds it), "closed"
          typed,     \* chunks sent by the client, not read by the server
          printed,   \* chunks in the PTY, not read by the server
          sent,      \* chunks written to the channel
          wrote,     \* history: chunks the child printed
          typedAll,  \* history: chunks the client typed
          copyIn,    \* io.Copy(f, ch): "none", "run", "write" in f.Write, "done"
          copyOut,   \* io.Copy(ch, f): "none", "run", "read" in f.Read,
                     \* "write" in ch.Write, "done"
          waiter,    \* the third goroutine: "none", "first", "second", "wait", "report", "done"
          done,      \* tokens in the done channel
          status,    \* whether exit-status was sent
          inputFirst \* history: the input's copy ended before the output's

askVars == <<started, ptyReq, envVars, execLine, reqs, fatal, asked>>
runVars == <<cmd, winsize>>
ioVars  == <<typed, printed, sent, wrote, typedAll>>
goVars  == <<copyIn, copyOut, waiter, done>>
vars == <<loop, askVars, runVars, chan, child, pty, ioVars, goVars, status, inputFirst>>

\* Variables that the goroutines leave alone.
still == <<loop, askVars, runVars>>

EnvRecord == [ok : {"yes"}, key : Seq(Byte), value : Seq(Byte)]
PtyRecord == [ok : {"yes"}, term : Seq(Byte), size : [cols : Nat, rows : Nat, xPx : Nat, yPx : Nat]]
LineRecord == [ok : {"yes"}, line : Seq(Byte)]
AskedRecord == [env : Seq(Payload), pty : Seq(Payload), line : Seq(Payload), size : Seq(Payload)]

AskTypeOK ==
  /\ envVars \in Seq(EnvRecord) /\ ptyReq \in {NotOk} \cup PtyRecord
  /\ execLine \in {NotOk} \cup LineRecord
  /\ fatal = <<>> \/ \E r \in Requests : fatal = <<r>>
  /\ asked \in AskedRecord
  /\ cmd \in [env : Seq(EnvRecord), term : Seq(Byte)] /\ winsize \in [rows : Nat, cols : Nat]

ShellTypeOK ==
  /\ loop \in {"run", "starting", "done"} /\ started \in BOOLEAN /\ reqs \in 0..MaxRequests
  /\ chan \in {"open", "eof", "closed"} /\ child \in {"none", "run", "exited", "reaped"}
  /\ pty \in {"none", "open", "closing", "closed"}
  /\ typed \in 0..MaxIn /\ typedAll \in 0..MaxIn
  /\ printed \in 0..MaxOut /\ sent \in 0..MaxOut /\ wrote \in 0..MaxOut
  /\ copyIn \in {"none", "run", "write", "done"}
  /\ copyOut \in {"none", "run", "read", "write", "done"}
  /\ waiter \in {"none", "first", "second", "wait", "report", "done"} /\ done \in 0..2
  /\ status \in BOOLEAN /\ inputFirst \in BOOLEAN

TypeOK == AskTypeOK /\ ShellTypeOK

NothingAsked == [env |-> <<>>, pty |-> <<>>, line |-> <<>>, size |-> <<>>]

DefaultSize == [rows |-> 24, cols |-> 80]

Init ==
  /\ loop = "run" /\ started = FALSE /\ ptyReq = NotOk /\ envVars = <<>> /\ execLine = NotOk
  /\ reqs = 0 /\ fatal = <<>> /\ asked = NothingAsked
  /\ chan = "open" /\ child = "none" /\ pty = "none"
  /\ cmd = [env |-> <<>>, term |-> <<>>] /\ winsize = DefaultSize
  /\ typed = 0 /\ printed = 0 /\ sent = 0 /\ wrote = 0 /\ typedAll = 0
  /\ copyIn = "none" /\ copyOut = "none" /\ waiter = "none" /\ done = 0
  /\ status = FALSE /\ inputFirst = FALSE

(***************************************************************************)
(* handleSession.  Requests that arrived before the channel was closed may *)
(* be handled after it.                                                    *)
(***************************************************************************)
\* The wire format can read the request's payload.
Readable(r) ==
  CASE r.type = "pty-req" -> PtyReadings(r.payload) # {}
    [] r.type = "env" -> PairReadings(r.payload) # {}
    [] r.type = "exec" -> LineReadings(r.payload) # {}
    [] OTHER -> Len(r.payload) >= 4 * Width

Take == loop = "run" /\ reqs < MaxRequests /\ reqs' = reqs + 1

\* A panic of a parser is recovered nowhere and ends the agent.
Parsed(r, result) == fatal' = IF result.ok = "panic" THEN <<r>> ELSE <<>>

PtyReq(r) ==
  LET p == parsePtyReq(r.payload) IN
  /\ r.type = "pty-req" /\ Take /\ Parsed(r, p)
  /\ ptyReq' = IF p.ok = "yes" THEN p ELSE ptyReq
  /\ asked' = IF ~started /\ Readable(r) THEN [asked EXCEPT !.pty = <<r.payload>>] ELSE asked
  /\ UNCHANGED <<loop, started, envVars, execLine, runVars, chan, child, pty, ioVars, goVars,
                 status, inputFirst>>

\* A variable that does not parse is ignored, though the reply is yes.
EnvReq(r) ==
  LET e == parseEnvReq(r.payload) IN
  /\ r.type = "env" /\ Take /\ Parsed(r, e)
  /\ envVars' = IF e.ok = "yes" THEN Append(envVars, e) ELSE envVars
  /\ asked' = IF ~started /\ Readable(r)
              THEN [asked EXCEPT !.env = Append(asked.env, r.payload)] ELSE asked
  /\ UNCHANGED <<loop, started, ptyReq, execLine, runVars, chan, child, pty, ioVars, goVars,
                 status, inputFirst>>

\* "shell" and "exec": the first one is acted on, any other refused.  An "exec"
\* that does not parse has set the flag already.
ShellLine == [ok |-> "yes", line |-> <<>>]

StartReq(r) ==
  LET l == IF r.type = "exec" THEN parseExecReq(r.payload) ELSE ShellLine IN
  /\ r.type \in {"shell", "exec"} /\ Take
  /\ started' = TRUE
  /\ IF started
     THEN UNCHANGED <<loop, execLine, fatal, asked>>
     ELSE /\ Parsed(r, l)
          /\ loop' = IF l.ok = "yes" THEN "starting" ELSE loop
          /\ execLine' = IF l.ok = "yes" THEN l ELSE execLine
          /\ asked' = IF r.type = "exec" /\ Readable(r)
                      THEN [asked EXCEPT !.line = <<r.payload>>] ELSE asked
  /\ UNCHANGED <<ptyReq, envVars, runVars, chan, child, pty, ioVars, goVars, status, inputFirst>>

WindowSize(size) == [rows |-> Short(size.rows), cols |-> Short(size.cols)]

\* Setsize, once there is a PTY; on a closed one it fails.
WindowChange(r) ==
  LET w == parseWinChReq(r.payload) IN
  /\ r.type = "window-change" /\ Take
  /\ winsize' = IF child # "none" /\ w.ok = "yes" /\ pty # "closed"
                THEN WindowSize(w.size) ELSE winsize
  /\ asked' = IF child # "none" /\ Readable(r)
              THEN [asked EXCEPT !.size = <<r.payload>>] ELSE asked
  /\ UNCHANGED <<loop, started, ptyReq, envVars, execLine, fatal, cmd, chan, child, pty, ioVars,
                 goVars, status, inputFirst>>

Request == \E r \in Requests : PtyReq(r) \/ EnvReq(r) \/ StartReq(r) \/ WindowChange(r)

\* startShell: the child and the three goroutines; or an error, after which
\* handleSession returns and closes the channel.
StartShell ==
  /\ loop = "starting"
  /\ \/ /\ loop' = "run" /\ child' = "run" /\ pty' = "open"
        /\ cmd' = [env |-> envVars, term |-> IF ptyReq = NotOk THEN <<>> ELSE ptyReq.term]
        /\ winsize' = IF ptyReq = NotOk THEN DefaultSize ELSE WindowSize(ptyReq.size)
        /\ copyIn' = "run" /\ copyOut' = "run" /\ waiter' = "first" /\ done' = 0
        /\ UNCHANGED chan
     \/ /\ loop' = "done" /\ chan' = "closed"
        /\ UNCHANGED <<child, pty, runVars, goVars>>
  /\ UNCHANGED <<askVars, ioVars, status, inputFirst>>

\* The requests end with the channel; the deferred Close runs.
SessionEnds ==
  /\ loop = "run" /\ chan = "closed"
  /\ loop' = "done"
  /\ UNCHANGED <<askVars, runVars, chan, child, pty, ioVars, goVars, status, inputFirst>>

(***************************************************************************)
(* startShell's goroutines.                                                *)
(***************************************************************************)
\* A read or a write of the PTY has returned: a master closed meanwhile goes.
Released == IF pty = "closing" THEN "closed" ELSE pty

InputEnds == copyIn' = "done" /\ done' = done + 1 /\ inputFirst' = (copyOut # "done")

\* io.Copy(f, ch): reads what the client typed, to write it to the PTY, which
\* fails on a closed one; ends with the client's side.  With nothing typed it
\* waits in ch.Read, whatever becomes of the PTY.
ReadChan ==
  /\ copyIn = "run"
  /\ \/ /\ typed > 0 /\ typed' = typed - 1
        /\ \/ pty = "open" /\ copyIn' = "write" /\ UNCHANGED <<done, inputFirst>>
           \/ pty # "open" /\ InputEnds
     \/ typed = 0 /\ chan # "open" /\ InputEnds /\ UNCHANGED typed
  /\ UNCHANGED <<still, chan, child, pty, printed, sent, wrote, typedAll, copyOut, waiter, status>>

\* f.Write returns: the child reads, or it is gone, which may be an error.
WritePty ==
  /\ copyIn = "write"
  /\ pty' = Released
  /\ \/ copyIn' = "run" /\ UNCHANGED <<done, inputFirst>>
     \/ child \in {"exited", "reaped"} /\ InputEnds
  /\ UNCHANGED <<still, chan, child, ioVars, copyOut, waiter, status>>

\* io.Copy(ch, f) calls f.Read, which fails on a closed file...
ReadPty ==
  /\ copyOut = "run"
  /\ \/ pty = "open" /\ copyOut' = "read" /\ UNCHANGED done
     \/ pty # "open" /\ copyOut' = "done" /\ done' = done + 1
  /\ UNCHANGED <<still, chan, child, pty, ioVars, copyIn, waiter, status, inputFirst>>

\* Faulty variant: the copy ends with the child, not with the last of its output.
ReadReturnsUntilExit ==
  /\ copyOut = "read"
  /\ pty' = Released
  /\ \/ /\ printed > 0 /\ child = "run" /\ printed' = printed - 1
        /\ copyOut' = "write" /\ UNCHANGED done
     \/ /\ child \in {"exited", "reaped"}
        /\ copyOut' = "done" /\ done' = done + 1 /\ UNCHANGED printed
  /\ UNCHANGED <<still, chan, child, typed, sent, wrote, typedAll, copyIn, waiter, status, inputFirst>>

\* ...and returns with output, or with an error once the child is gone and its
\* output was read.  A Close of the file does not make it return.
ReadReturns ==
  /\ copyOut = "read"
  /\ pty' = Released
  /\ \/ /\ printed > 0 /\ printed' = printed - 1
        /\ copyOut' = "write" /\ UNCHANGED done
     \/ /\ printed = 0 /\ child \in {"exited", "reaped"}
        /\ copyOut' = "done" /\ done' = done + 1 /\ UNCHANGED printed
  /\ UNCHANGED <<still, chan, child, typed, sent, wrote, typedAll, copyIn, waiter, status, inputFirst>>

\* ch.Write, which waits for the client's window, fails on a closed channel.
WriteChan ==
  /\ copyOut = "write"
  /\ \/ chan # "closed" /\ copyOut' = "run" /\ sent' = sent + 1 /\ UNCHANGED done
     \/ chan = "closed" /\ copyOut' = "done" /\ done' = done + 1 /\ UNCHANGED sent
  /\ UNCHANGED <<still, chan, child, pty, typed, printed, wrote, typedAll, copyIn, waiter, status,
                 inputFirst>>

\* Faulty variant: the PTY stays open, so the other copy is not stopped.
ClosePtyNot ==
  /\ waiter = "first" /\ done > 0
  /\ done' = done - 1 /\ waiter' = "second"
  /\ UNCHANGED <<still, chan, child, pty, ioVars, copyIn, copyOut, status, inputFirst>>

\* The first copy is done: close the PTY, which hangs up the child once no
\* read or write holds the descriptor...
ClosePty ==
  /\ waiter = "first" /\ done > 0
  /\ done' = done - 1 /\ waiter' = "second"
  /\ pty' = IF copyOut = "read" \/ copyIn = "write" THEN "closing" ELSE "closed"
  /\ UNCHANGED <<still, chan, child, ioVars, copyIn, copyOut, status, inputFirst>>

\* ...the second is done...
SecondDone ==
  /\ waiter = "second" /\ done > 0
  /\ done' = done - 1 /\ waiter' = "wait"
  /\ UNCHANGED <<still, chan, child, pty, ioVars, copyIn, copyOut, status, inputFirst>>

\* Faulty variant: the child is not waited for.
WaitChildNot ==
  /\ waiter = "wait" /\ waiter' = "report"
  /\ UNCHANGED <<still, chan, child, pty, ioVars, copyIn, copyOut, done, status, inputFirst>>

\* ...the child is reaped...
WaitChild ==
  /\ waiter = "wait" /\ child = "exited"
  /\ child' = "reaped" /\ waiter' = "report"
  /\ UNCHANGED <<still, chan, pty, ioVars, copyIn, copyOut, done, status, inputFirst>>

\* ...and its status sent, on a channel that is still there, and the channel
\* closed.
Report ==
  /\ waiter = "report" /\ waiter' = "done"
  /\ status' = (status \/ chan # "closed") /\ chan' = "closed"
  /\ UNCHANGED <<still, child, pty, ioVars, copyIn, copyOut, done, inputFirst>>

CopyIn  == ReadChan \/ WritePty
CopyOut == ReadPty \/ ReadReturns \/ WriteChan
Waiter  == ClosePty \/ SecondDone \/ WaitChild \/ Report

Server == Request \/ StartShell \/ SessionEnds \/ CopyIn \/ CopyOut \/ Waiter

(***************************************************************************)
(* The environment.                                                        *)
(***************************************************************************)
ChildPrints ==
  /\ child = "run" /\ wrote < MaxOut /\ pty # "closed"
  /\ wrote' = wrote + 1 /\ printed' = printed + 1
  /\ UNCHANGED <<still, chan, child, pty, typed, sent, typedAll, goVars, status, inputFirst>>

ChildExits ==
  /\ child = "run" /\ child' = "exited"
  /\ UNCHANGED <<still, chan, pty, ioVars, goVars, status, inputFirst>>

Type ==
  /\ chan = "open" /\ typedAll < MaxIn
  /\ typedAll' = typedAll + 1 /\ typed' = typed + 1
  /\ UNCHANGED <<still, chan, child, pty, printed, sent, wrote, goVars, status, inputFirst>>

\* The client ends its input, or goes: it closes the channel or the connection
\* drops.  A patient client does neither before it has the exit status.
ClientEnds(how) ==
  /\ ~PatientClient /\ chan # "closed" /\ chan # how
  /\ chan' = how
  /\ UNCHANGED <<still, child, pty, ioVars, goVars, status, inputFirst>>

Environment == ChildPrints \/ ChildExits \/ Type \/ \E how \in {"eof", "closed"} : ClientEnds(how)

Up == fatal = <<>>

Next == Up /\ (Server \/ Environment)

Spec == Init /\ [][Next]_vars

\* The copies go on, except that a write waits for its reader: the child, until
\* it is gone, or the client, until the channel is closed.
CopyInGoesOn  == ReadChan \/ (child # "run" /\ WritePty)
CopyOutGoesOn == ReadPty \/ ReadReturns \/ (chan = "closed" /\ WriteChan)

\* A child whose terminal was closed is hung up and ends.
HangUp == pty = "closed" /\ ChildExits

\* The server's goroutines go on, and a hangup ends the child.  The client owes
\* nothing, the child neither output nor an end.
FairSpec == /\ Spec
            /\ WF_vars(Up /\ StartShell) /\ WF_vars(Up /\ SessionEnds)
            /\ WF_vars(Up /\ CopyInGoesOn) /\ WF_vars(Up /\ CopyOutGoesOn)
            /\ WF_vars(Up /\ Waiter) /\ WF_vars(Up /\ HangUp)

(***************************************************************************)
(* Properties.                                                             *)
(***************************************************************************)
\* An exit status is sent only for a child that was reaped, after both copies
\* have ended.
StatusIsFinal == status => child = "reaped" /\ copyIn = "done" /\ copyOut = "done"

\* Everything the child printed was sent before its exit status, unless the copy
\* of the input ended first: the client's side ended, or a write to the PTY
\* failed because the child was gone.
OutputBeforeStatus == status /\ ~inputFirst => sent = wrote

\* b gives the size of a window, whose numbers are then cut to half their width.
GivesSize(b, size) ==
  \E cols, rows \in 0 .. (Power[Width] - 1) :
    /\ IsNumber(SubSeq(b, 1, Width), cols) /\ IsNumber(SubSeq(b, Width + 1, 2 * Width), rows)
    /\ size = [rows |-> Short(rows), cols |-> Short(cols)]

\* The child runs with what was asked for up to the first shell or exec, as the
\* wire format reads it: every readable variable in order and no other, the
\* terminal of the last readable pty-req, the command line, and a window of the
\* last size.
RunsAsAsked ==
  /\ Len(cmd.env) = Len(asked.env)
  /\ \A i \in 1..Len(asked.env) : cmd.env[i] \in PairReadings(asked.env[i])
  /\ IF asked.pty = <<>> THEN cmd.term = <<>>
     ELSE \E r \in PtyReadings(asked.pty[1]) : cmd.term = r[1]
  /\ pty = "open" =>
       IF asked.size # <<>> THEN GivesSize(asked.size[1], winsize)
       ELSE IF asked.pty = <<>> THEN winsize = DefaultSize
       ELSE \E r \in PtyReadings(asked.pty[1]) : GivesSize(r[2], winsize)

\* handleSession hands its child exactly what the requests' payloads say, and
\* runs an exec's line whenever it can be read; only a payload that cannot be
\* read ever ends the agent.
RequestsReadExactly ==
  /\ child # "none" => RunsAsAsked
  /\ IF asked.line = <<>> THEN execLine \in {NotOk, ShellLine}
     ELSE execLine \in LineReadings(asked.line[1])
  /\ \A i \in 1..Len(fatal) : ~Readable(fatal[i])

\* Nothing of the session is left.
CleanedUp ==
  /\ loop = "done" /\ child \in {"none", "reaped"} /\ pty \in {"none", "closed"}
  /\ waiter \in {"none", "done"}

\* The child of a client that is gone no longer keeps the session: it has ended,
\* or there is output of it that cannot be delivered.
LetGo == child = "exited" \/ (copyIn = "done" /\ printed > 0)

\* A client that goes, at any point of the session, leaves no goroutine, PTY or
\* child behind once its child prints something or ends.
GoneClientIsCleanedUp == (chan = "closed" /\ LetGo) ~> (CleanedUp \/ ~Up)

\* The end of a client's input ends its session too, once the PTY was closed and
\* the child prints something, provided that the client takes the output.
EofEndsSession ==
  []<>(copyOut # "write") =>
    ((waiter = "second" /\ copyIn = "done" /\ printed > 0) ~> (waiter = "done" \/ ~Up))

\* What server.go says of the first copy's end: "close the PTY to wake the other
\* copy and reap the child".
ClosingWakesAndReaps == (waiter = "second" /\ chan = "closed") ~> (CleanedUp \/ ~Up)

\* What server.go says of a connection: its errors "are logged, never propagated".
ConnectionErrorsStayLocal == Up

\* What server.go says of the session: "Stop conditions : either side closes ;
\* the child exits ; the connection drops".
ChildExitEndsSession == child = "exited" ~> (waiter = "done" \/ ~Up)
=============================================================================

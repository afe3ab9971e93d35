# TLA+ models of weft-microvm-agent

The agent runs inside a microVM. It takes desired state from a NATS bus and
from the host over vsock, and applies it to the guest. The modules in this
directory model its components, TLC checks them on small instances, and TLAPS
proves the theorems of the eight `*Proofs` modules for every instance.

`PROJECT.json` is the index: the components, the runs with what each shows, the
source lines behind every definition (`map`), the places where a comment and the
code disagree (`findings`), the hazards, and the theorems.

## The system and its hard parts

| part | state | operations | what makes it hard |
|---|---|---|---|
| exec sessions (`pkg/execsession`) | registry id → cancel function; per run a child, a pty, two goroutines | open, pump, close frame, stop | an id can be reopened while the old run is still ending; the reader is not joined |
| guest plane client (`pkg/guestplane`) | one gRPC stream at a time, two goroutines per stream | dial, handshake, heartbeat, dispatch, redial | goroutines of a lost stream live on beside the next; effects without an answer |
| property tree (`pkg/properties`, `cmd/.../properties_linux.go`) | files under a directory | apply a whole set | not transactional: crashes and errors between any two file operations |
| first boot (`pkg/boot`, `watchAndRunBoot`) | sentinel, payload directory | poll, read, pull, run, stamp | reads the tree while it is written; ends between script and sentinel |
| firewall status (`pkg/firewallstatus`, `internal/metrics`) | last raw counter, published counter | read, record, publish | the kernel's counter restarts at each table rebuild |
| share mounts (`pkg/mounts`, vendored `cubefs`) | registry id → client process; the mount table | boot mounts, update, unmount all | processes that die or mount late, a lock held across commands, shutdown |
| SSH keys and host key (`pkg/sshkeys`, `pkg/sshd`) | key store, two files | push, load or create | memory and file must agree; power loss |
| SSH connections (`pkg/sshd`) | listener, per connection a handshake | accept, authorise, open a session | the store is replaced while it is read; a client may vanish |
| SSH session (`pkg/sshd/server.go`) | what the requests asked for; one child, one pty, two copies, one waiter | requests, copy, wait, report | everybody waits for somebody, and a pty in blocking mode is not woken by its Close |
| SSH request payloads (`pkg/sshd/server.go`) | none | decode | lengths are added modulo 2^32 |
| containers (`pkg/containers`) | desired set; what crun runs | replace the whole set | redelivery, failing commands, containers that exit; not wired into this version (`main.go:266`) |
| the process (`cmd/.../main.go`, `run`) | connections, listeners, two goroutines | set up, serve, take down | a signal or a failure at any step |
| firewall rules, mesh | kernel state set by a vendored function | apply a whole set | — |
| introspection, process listing, metrics endpoint | none | read | — |

The parts interact at few places: the property tree is written by one goroutine
and read by the boot watcher (`BootSystem`); a firewall apply rebuilds the table
whose counter the status emitter reads (`FirewallStatus`); a key push updates a
file (`SshKeys`) and the store the handshakes read (`SshServer`); and the shutdown
closes the bus under the handlers of all the others (`Agent`; its effect on one
part in detail in `ExecSession` and `Mounts`).

## Modules

Each component module has its state as variables, one action per step of the
code, and its properties at the end. Operators whose names extend another's name
(`CreateInPlace` beside `CreateTmp`, `ReturnLocked` beside `Return`) are variants of
a step with one plausible mistake in it, used to see that a property notices it.
`MC*` modules define constants, and `MCSshServer` the requests of its client.

- **ExecSession**: a *run* is one goroutine of the open handler. `pc[r]` is its
  place in `Run`, `live` the registry, `cancelled` the runs whose context is
  cancelled, `out` the frames on each out subject. `Receive` and `Open` are the
  two halves of the open handler: a callback of NATS in progress is not stopped by
  `Unsubscribe`. The child may write or end at any time. Input and resize frames
  change nothing the model holds and are left out.
- **GuestPlane**: `RunLoop` is `Run` and `runOnce`; `Heartbeat(s)` and
  `Receiver(s)` are the goroutines of stream `s`, which go on after `runOnce` has
  returned. A send is an interval (state "sending") so that two can overlap.
  `reqs` are the frames a stream's Recv has returned, `effects` the requests whose
  callback ran, `answers` the responses given to the stream; `frames` counts the
  requests of all streams, for the bound.
- **ReplaceSet**: the abstract promise behind every "pushed whole" set. The
  publisher's set replaces the guest's item by item; on the way an item is its old
  self, its new self or absent, an item that does not change is not touched, and a
  set reported as applied is there, but for the items in `lost`: those that went by
  themselves, those whose failure was reported, and those that were to be replaced and
  stayed unnoticed (`Stay`). The property tree has no such item; `Containers` has two
  ways to get one.
- **PropertyTree**: `tree` maps each path to nothing, a directory, a value or a
  half-written file. The apply is one action per file operation, in the code's order;
  an I/O error or a crash can come at each. It implements `ReplaceSet`.
- **Containers**: the stream with replay and redelivery, the subscription,
  `Reconciler.Apply` name by name, and crun's pull, start and stop as external
  commands. Any of them can fail; a failing kill and delete is not reported by `Stop`.
  `stuck` has the names whose container is for that reason, or because `containerEqual`
  took it for the new one, not what the set says. It implements `ReplaceSet`.
- **Boot**: the watcher reads the keys one at a time and hands the result to the
  runner. Alone (`BootAlone`) it runs over a tree that changes at will.
  **BootSystem** puts `Boot` beside an instance of `PropertyTree` over the same tree,
  and implements both `BootAlone` and `PropertyTree`.
- **FirewallStatus**: one kernel counter, its rebuilds and failed readings.
  The byte counter is updated by the same lines, independently.
- **Mounts**: `apc` is the place inside `Registry.Apply`, which the boot loader and
  the message handler share; `proc` are the cfs-client processes, `table` the stack
  of mounts at each point; `retained` is the message the stream keeps. The lock is
  explicit, because shutdown competes for it.
- **SshKeys**: `store` is the key store; each file has a view of the running system and one of
  the disk, which `WriteBack` brings together and `LosePower` tells apart; `lost`
  remembers that power was lost.
- **SshPayload**: the four payload parsers as operators on sequences of bytes, with
  wrapping sums, beside a definition of the wire format (`Readings`). `Base` is the
  number of values of a byte and `Width` the number of bytes in a number, 256 and 4 in
  the program.
- **SshSession** extends it: the request loop with what each request's payload does to
  the session, the child that is started with it, the two copies and the waiter of one
  channel. `asked` remembers the payloads that the wire format can read, to compare with
  what the child got. A parser that panics ends the agent (`fatal`): nothing in the
  program recovers. The pty's master is in blocking mode, as the vendored pty package says
  (`creack/pty/README.md:13`, `ioctl.go:9`: without a `SetNonblock`, which nothing
  calls, `Close` does not interrupt `Read`): a read or a write in progress is not woken
  by `Close`, and the descriptor stays open, and the child without a hang-up, until it
  returns (`pty = "closing"`). A write to the pty waits for the child and one to the
  channel for the client's window (states "write").
- **SshServer** extends that: the accept loop, the handshakes with the two-map key
  store and its lock, pushes that replace it, and one session.
- **Agent**: `run` as a list of `Steps`, each of which can fail, and the shutdown
  goroutine (`down`). A part is what has to be released of it.
- **ExecSessionProofs**, **GuestPlaneProofs**, **PropertyTreeProofs**,
  **BootSystemProofs**, **MountsProofs**, **ContainersProofs**, **AgentProofs** (of
  `Agent` and `FirewallStatus`) and **SshProofs** (of `SshKeys`, `SshSession`,
  `SshServer` and `SshPayload`): the theorems.

## What the runs check

Passing runs, and what is worth knowing about them (the statement of a property
is the comment above its definition):

| run | shows | bounds |
|---|---|---|
| `Exec` | the registry holds exactly the runs that can still be cancelled; exit frames are authoritative; nothing is held after the end; cancelled sessions end and deaths are reported | 2 runs, with one id, two, or a rejected one; 1 chunk of output by one of them |
| `GuestPlane` | answers in order, an answer means the effect, at most one effect in doubt; goroutines end, redial, stop | 2 streams, so that an old one's goroutines meet a new one; 2 requests and 1 heartbeat in all; all callbacks are wired and no operation is unknown (these answers are covered by the theorems) |
| `PropertySync` | applied means equal; implements `ReplaceSet`: never a torn value, unchanged keys stay readable | every tree and set over 3 keys on 2 levels, none of them a directory of another; 2 values, errors and crashes anywhere |
| `Boot` | the sentinel tells the truth, and nothing happens after it | 2 starts, any change of the tree between two reads |
| `BootSystem` | the watcher reads whole published values, and ends; implements `BootAlone`, so that what `Boot` shows holds here too | 2 starts, beside the sync: a request is published and cleared |
| `DropCount` | never overcounts, exact without rebuild | 3 drops per table, 3 rebuilds, 2 failed readings |
| `Mounts` | no lost client process, and no second one for a share; registry agrees with results; a shutdown leaves at most one client, and ends | 2 shares at one point, one of them a boot share; 3 clients, 2 updates, 2 starts |
| `SshKeys` | file and store agree after a success; one host key, kept once on disk | 2 lines, one unparseable; 2 pushes; 3 starts; power loss |
| `SshServer` | whoever is let in has a key and a name of one pushed set; the child gets exactly what the readable requests ask for, and only an unreadable one ends the agent; status after reaping and after the output; a gone client is cleaned up, and the end of input ends the session, once the child prints or ends | 1 client; 2 keys that change hands in 2 pushes; 3 requests, of every type, readable, cut short and with a length that wraps; 2 chunks out and 1 in; a byte has 4 values and a number 2 bytes (256 and 4 in the program) |
| `Containers` | drops before starts, what crun did not stop aside; implements `ReplaceSet`; the last set is what the reconciler ends with, if the last message is a valid one | 2 names; 3 messages, 1 redelivery, 1 restart; environments with an empty value; every command may fail |
| `Agent` | exit code 0 means that connections, listeners and the metrics server are closed, that no call was cut off and that shares are unmounted, but for one whose message's handler outlived its connection; it says nothing of exec sessions and their children (`SessionsClosedOnShutdown`, below); a handled signal ends the process | everything enabled, nothing, and two mixed sets of flags; 2 calls or scrapes in flight |

The bounds let each race happen that the hazards in `PROJECT.json` name: two
actors of each kind, a second start, a second push. Where a counter is bounded
the bound is a constant in the guard of the action that raises it. In `Exec` only one
of the two children writes (`Writers`): output never leaves its own run, and two
writers multiply the states without meeting. In `SshServer` one client is enough:
what a handshake races with is the pusher, and sessions share nothing. A session and
the parts around it share no variable either, but for the drop of a connection, which
closes the channel; so the run takes only behaviours in which the session is opened
after the last push and the listener's end (`SessionLast`), and every order of the steps
before it and of those in it still occurs. The requests reach every comparison of the
parsers on both sides, and sums that wrap; all payloads are in the theorem.

A length so close to 2^32 that `4+n` wraps below 4 passes the check in
`unmarshalString` (`server.go:371`), and the slice expression after it panics. This ends
the agent, with every other session and subscriber (`ConnectionErrorsStayLocal`, below).
`RequestsReadExactly` says what the code keeps: it happens only to a payload that cannot
be read, and no such payload is ever taken for another.

One run expects a violation, of a sentence of the repository that the code does
not keep; the counterexample is the shortest way there:

- `ExecReplace`: a stale run's deferred `Close(id)` cancels its replacement. Run 1
  is opened, run 2 is opened under the same id (run 1 is cancelled and replaced),
  run 1 ends and closes the id, which by now means run 2.

### Further disagreements

These properties also state what a comment promises, and TLC refutes them under
the constants given (those not mentioned as in the run of the same module). The
definitions are kept at the end of their modules.

| property | comment | what happens | constants |
|---|---|---|---|
| `AlwaysEmitsExitFrame` | `pty_linux.go:40` "Always emits a final 'e' exit frame" | the early returns publish nothing | as `Exec` |
| `ExitFrameIsFinal` | the same | the reader is not joined and may publish a chunk afterwards | as `Exec` |
| `StopCancelsEverySession` | `subscriber_linux.go:46` "unsubscribes + cancels every live session" | a callback in progress opens its session after `CloseAll` | as `Exec` |
| `NoConcurrentSend` | grpc `stream.go:134` "it is not safe to call SendMsg on the same stream in different goroutines" | the heartbeat and the receive goroutine are in `Send` at once | as `GuestPlane` |
| `NonPositiveTickDisables` | `main.go:148` "<=0 disables heartbeats" | 0 is replaced by the default tick; a negative interval does disable them (`Disabled`) | `HeartbeatTick = 0` |
| `NextPublishConverges` | `properties_linux.go:10` "The next publish from the host converges the tree" | a key that was a directory prefix fails at the rename, again and again | the `Nest*` sets, `IOFaults = FALSE` |
| `UndesiredFilesRemoved` | `properties_linux.go:6` "files that aren't in the desired set anymore are removed" | not those of keys that end in `.tmp` | `TmpsNodes`, `TmpKeys`, `TmpOrder` |
| `RunsAsPublished` | `main.go:696` "runs the boot.Runner once the request lands" | four files are read while they are rewritten; the mixture is run | `Published <- GitFull` |
| `ScriptRunsOnce` | `main.go:333` "exactly once (sentinel-guarded)" | an end between script and sentinel | as `BootSystem` |
| `UnprovisionedKeepsWatching` | `boot.go:119` "a re-published config can retry" | the watcher returns after a failure | as `BootSystem` |
| `CloneCanBeRetried` | the same | the next clone meets the leftovers | as `BootSystem` |
| `WatcherEnds` | `main.go:703` "Bails after maxWait without a request" | a read error skips the deadline check | `RootKey = TRUE`, `Published <- OnlyRoot` |
| `AccumulatesAcrossRebuilds` | `metrics.go:94` "counter resets handled by the recorder" | a rebuilt counter that has grown past the last reading | `MaxFailures = 0` |
| `OnlySuccessfulReadsCount` | `metrics.go:17` "on every successful read" | a failed one is recorded as 0 | as `DropCount` |
| `ReplayReconstructs` | `mounts.go:126` "exactly the state the agent needs to reconstruct its desired mounts" | one message is kept for all shares | `TwoShares`, `NoBoot` |
| `ShutdownReapsClients` | `main.go:399` "reap cfs-client processes the registry owns" | an update in progress mounts after `UnmountAll` | `OneShare`, `NoBoot` |
| `UnmountTearsDown` | `mounts.go:4` "tear down on unmount" | a mount that appears as its client is given up | `OneShare`, `NoBoot` |
| `GoneMountIsReplaced` | `cubefs/mount.go:171` "a repeated publish re-establishes the mount" | unmounting what is gone fails first | `OneShare`, `NoBoot` |
| `FileIsWhole` | `sshkeys_linux.go:24` "tmp file in the same directory, fsync, rename" | there is no fsync | as `SshKeys` |
| `ClosingWakesAndReaps` | `server.go:282` "close the PTY to wake the other copy and reap the child" | a read of a pty in blocking mode is not woken: the client has gone, and a child that neither prints nor ends keeps its session | as `SshServer` |
| `ConnectionErrorsStayLocal` | `server.go:99` "errors at the per-connection layer are logged, never propagated" | a length that wraps makes a parser panic, which ends the agent | as `SshServer` |
| `ChildExitEndsSession` | `server.go:16` "Stop conditions : either side closes ; the child exits ; the connection drops." | the client keeps the channel open for the exit status, and the waiter waits for the copy that reads from the client | as `SshServer`, `PatientClient = TRUE` |
| `ApplyConverges` | `containers.go:76` "Apply converges the runtime to s" | a set whose pull or start failed is kept as `desired`; applied again, nothing is started and success is reported | as `Containers` |
| `ReplaySeedsDiff` | `containers.go:48` "used to seed the diff after a JetStream replay" | `Running` is never asked: what an earlier agent started and the set no longer names stays | as `Containers` |
| `RestartHonoured` | `runtime_crun.go:58` "Restart="always" is honoured by the agent's reconciler layer" | nothing watches for exits | as `Containers` |
| `NothingStuck` | `runtime_crun.go:204` "Stop terminates the container + reaps the bundle dir."; `containers.go:147` "the deep-equal we use to decide if a container changed" | a failed kill and delete is ignored and success reported; and a variable with an empty value equals one that is absent, so that `K=""` against `L="x"` is no change in one direction | as `Containers` |
| `SessionsClosedOnShutdown` | `execsession.go:140` "CloseAll terminates every live session — called on agent shutdown" | `main.go:438` discards the stop function | as `Agent` |
| `GaugeTruthful` | `metrics.go:86` "1 if the agent currently holds a NATS connection ; 0 otherwise" | exec and guest plane connections do not count, and the shutdown that closes the others does not clear it | as `Agent` |
| `SignalExitsZero` | `main.go:284` "SIGINT / SIGTERM triggers GracefulStop on gRPC" | the server is stopped before `Serve` is called, which then returns an error | as `Agent` |

The host key is not synced either, so that `HostKeyStable` excepts a power loss:
a key that was shown and had not reached the disk is replaced by another.

Deadlock checking is off where the system may stop: the models bound what the
environment does, an agent may exit, and then nothing is left to happen.

## Fairness

Only the agent's own goroutines are fair (weakly): Go's scheduler runs a runnable
goroutine, its mutexes do not starve a waiter, and loops with a deadline reach it.
In `Agent` these are `run`, the shutdown goroutine and calls in progress; in
`Containers` the subscription and the reconciler, whose commands end; in `Mounts` the
steps of an agent that is up (a crashed one takes none). Two facts about the outside
are used: a killed process ends (`ExecSession`, `Mounts`), and a child whose terminal
was closed is hung up and ends (`SshSession`, `SshServer`; a child that ignores the
hang-up would keep its waiter, as the code has no other way to end it). A copy of an SSH
session that is in a write is fair only when its reader is gone: nothing is assumed of a
child that does not read or a client that leaves its window full, and a read of the pty
returns only with output or with the child's end. `GoneClientIsCleanedUp` and
`EofEndsSession` therefore begin where the child has printed or ended, and the second has
the client's taking of output as a premise. `BootSystem`
also assumes that time passes, and that pulls and scripts end, which the code's
context timeout gives. Clients, hosts, publishers, crashes and failures are never
fair, and neither are the accept loop and the handshakes of `SshServer`.

## What is proved

All theorems hold for every value of the constants that satisfies the assumptions
named in the component's module, among them any number of runs, streams, paths,
names, clients, keys, messages and restarts. Every invariant and every action property
that a passing run checks is among them, and the three refinements. Each rests on an
inductive invariant (`IInv`; `KeysInv`, `SessionInv`, `ServerInv`, `StatusInv`,
`WatcherInv` and `LatestInv` where a module has several), shown to hold initially and
to be preserved with one case per action.

- **ExecSession**: `TypeOK`, `RegistryIsExact`, `OneUncancelledPerId` (two runs of
  one id are never both opened and uncancelled), `FinishedHoldsNothing` and
  `ExitFrameAuthoritative`. The step that opens a run needs to know that a run being
  handled is registered nowhere and not cancelled (`HandlerInv`). A run that is
  about to publish its exit has reaped its child (`PumpInv`), and a frame on the
  subject belongs to a run that has passed `PublishExit` (`FrameInv`), so that a
  second cannot follow. The bound in `TypeOK` needs `BufInv`: the pty holds no more
  than the child wrote.
- **GuestPlane**: `TypeOK`, `AckMeansEffect`, `OneEffectInDoubt`, `AnswersInOrder`, and
  that no two streams are open at once (`OneStreamOpen`). The strengthening is that
  all effects of a stream are answered but that of the request in hand, which is the
  last one received (`HandInv`); that answers and effects are of requests received
  (`AnswerInv`); and that a stream's receiver is started once (`StartInv`). For the
  order, every control request but the one in hand has been answered before the next
  frame is received (`OrderInv`).
- **PropertyTree**: `TypeOK`, `AppliedTreeIsDesired` and the refinement
  `ImplementsReplaceSet`. At each step of an apply the invariant says what is left to do
  (`TodoInv`) and what is done (`DoneInv`): stale files are gone, a key no longer to be
  written has its value, and a key whose value stays has had it throughout. `Shape`
  (what exists lies in directories) makes the removal of empty directories harmless.
- **BootSystem**: of the watcher alone, `SentinelMeansProvisioned` and
  `NothingAfterSentinel`, because what `Run` did so far holds at each of its steps
  (`WatcherInv`), and `BootTypeOK` over trees in which no key of the watcher's is half
  written (`WholeTrees`). Of the composition: it implements `PropertyTree`
  (`ImplementsSync`), so that the invariant of that module's proofs is available here
  through an instance; with it `ReadsPublishedValues` (`OnlyPublished`; `PublishedInv`
  says that every value in the tree and in the watcher's hands was published for its
  key); and it implements `BootAlone` (`ImplementsWatcher`), which carries the
  properties of the watcher over (`SystemSentinel`, `SystemTypeCorrect`). The last three
  assume that the trees `BootAlone` ranges over include those without a half-written key
  (`SyncTrees \subseteq Trees`; for the types, that they are these).
- **FirewallStatus**: `StatusTypeOK`, `NeverOvercounts`, `ExactWithoutRebuild`. The bound
  on the metric is preserved only together with a bound on what the metric will be once
  the reading at hand is recorded, and once what was read of the current table and
  forgotten is counted again (`CountInv`); `FirstTableInv` ties readings to the first
  table.
- **Mounts**: `TypeOK`, `NoClientLeaks`, `OneClientPerShare`, `RegistryAgrees`,
  `ShutdownLeavesAtMostOne`. That no share gets a second client follows from the first
  of these and from each entry's naming a client of its own share (`EntriesInv`): one is
  started only when the share's entry is gone.
  `LockInv` says who holds the mutex and where they are, `ClientInv` what `Apply` knows
  of the share it works on, `StopInv` that after `UnmountAll` only the message that was
  in the handler can start a client.
- **Containers**: `TypeOK`, `DropsFirst` and the refinement `ImplementsReplaceSet`,
  whichever commands fail and whatever the environments. What is neither `lost` nor
  `stuck` matches the old set for
  the names to come and the new one for those visited (`IdleInv`, `DropInv`,
  `VisitInv`), and a container is started only if it is new or another one
  (`StartInv`).
- **Agent**: `TypeOK` and `CleanExit`. The shutdown goroutine exists exactly when nothing
  can be opened any more (`GoroutineInv`), `natsConns` has every open connection
  (`ConnInv`), and each step of the shutdown has released what comes before it
  (`ReleaseInv`).
- **SshKeys**: `KeysTypeOK`, `FileIsAPush`, `SuccessMeansBoth`, `HostKeyStable` and
  `HostKeyKept`. `ApplyInv` says what a push has done at each step, `CreateInv` that a
  key is generated only while there is no file, `HostKeyInv` that the file has the key
  that was shown and the disk no other.
- **SshSession**: `TypeOK`, `StatusIsFinal`, `OutputBeforeStatus` and
  `RequestsReadExactly`. The tokens the waiter has received and those still in the
  channel are as many as the copies that have ended (`CountsInv`), and nothing but the
  end of the input's copy stops the output before all of it was read (`OrderInv`). What
  the loop has noted is what was asked, until the child is started with it (`AskInv`);
  the step of each request rests on what its parser returns (`ParsersExact`, below).
- **SshServer**: it implements `SshSession` (`ServerRunsASession`), which carries those
  three properties over (`ServerKeepsSession`); `ServerTypeOK` and `LetInByOneSet`. A
  handshake that holds the store's lock keeps the pusher out, so that what it found in
  the first map still holds as it reads the second (`StoreInv`, `ClientInv`).
- **SshPayload**: `ParsersExact`: every payload shorter than `Base^Width` is decoded as
  the wire format reads it, and accepted only if it can be read (a panic is not an
  acceptance), for every `Base` and `Width`, 256 and 4 among them. A wrapped
  sum is below `Width` or above the length whenever the true sum is above the length, so
  that a wrong end never passes the check. The value of a number needs induction over
  its bytes, which is done with a least counterexample (`UpTo`): the first prefix at
  which the recursive function would fail to exist, or differ, or exceed its bound, has
  a predecessor at which it does not.

### The safety half of the liveness properties

TLC checks liveness under fairness; the prover does not reach it. What can go wrong in
the code is proved all the same: that nobody waits for something that does not come, and
that no step undoes what another has done. What is left to fairness is that a step that
can be taken is taken. The properties below are defined in the proof modules.

| liveness property | proved |
|---|---|
| `CancelledSessionEnds` | `CancelledNeverStuck`: a cancelled run is torn down, or the guard of one of its fair steps holds; `CancelledAlwaysCloser`: each step of the run lowers a number (`Work`), and other runs of its id leave it alone |
| `GoneClientIsCleanedUp` | `GoneNeverStuck`: an SSH session whose client has gone is cleaned up, or can go on, or has a copy that waits for a running child to print or to read, and with output to deliver only the latter; `GoneAlwaysCloser`: each step lowers a number but the child's printing, which leaves it as it is |
| `GoroutinesEnd` | `ReportNeverBlocks`: `errCh` has room for each goroutine that is about to report |
| `RedialsAfterLoss` | `LossIsSeen`: while `runOnce` waits, a report is there or the receive goroutine is at work, whose `Recv` a lost stream ends |
| `ConvergesToLatest` | `QuietMeansLatest`: a subscriber that is idle, with nothing to be delivered, has the last valid set published; `DeliveryInv` says that the last message delivered is the last one published |
| `SignalEndsAgent` | `SignalledNeverStuck`: after a signal `run`, the shutdown goroutine, `Serve` or a call in flight can go on |
| `ShutdownEnds` | `LockHeldInUse`: the lock is held only by an `Apply` or `UnmountAll` that is under way |

## Only model-checked, and not modelled

By TLC only: the liveness properties themselves, because the prover does not handle
fairness and ENABLED, and of `WatcherEnds`, `StopsWhenCancelled`, `EofEndsSession` and
`ChildDeathReported` no part is proved.

Not modelled:

- the process listing: it reads `/proc` once per call and keeps nothing, and is
  text and floating-point formatting; introspection, of which `Agent` has the calls
  in flight, returns it;
- the content of firewall rules and mesh membership: the handlers have no state and
  hand a whole set to a vendored function. A firewall apply is modelled as far as it
  rebuilds the table;
- what the guest plane's callbacks publish on the bus, once published;
- metrics other than the drop counters and the connection gauge, each of which is
  one increment;
- what overlapping sends do to a gRPC stream (the overlap itself is found);
- exit codes of children, frame encodings, the `config.json` of a container's bundle,
  the cryptography of SSH;
- zombies after `SubscribeFails`, which kills and does not wait;
- kernel settings and the stubs for other platforms.

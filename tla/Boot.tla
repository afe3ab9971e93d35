-------------------------------- MODULE Boot --------------------------------
(***************************************************************************)
(* First-boot provisioning: the watcher of main.go (watchAndRunBoot) polls *)
(* the property tree for the four weft.boot/* files and hands what it      *)
(* finds to boot.Runner.Run, which pulls the payload, runs the script and  *)
(* touches the sentinel that makes later boots skip all of this.           *)
(*                                                                         *)
(* The sentinel and the payload directory outlive the agent and the guest; *)
(* the watcher's own state does not.  The tree is written by the           *)
(* properties subscriber (module PropertyTree); here it is only read, one  *)
(* file at a time, and changes arbitrarily between two reads.              *)
(***************************************************************************)
EXTENDS Naturals, Sequences

CONSTANTS Above,      \* the directories each node of the tree lies in
          Trees,      \* the states of the property tree a reader can find
          MaxStarts   \* bound: how often the agent is started

ASSUME MaxStartsAssumption == MaxStarts \in Nat \ {0}

\* The files in the order ReadFromPropertiesDir reads them.
KindKey   == "weft.boot/source.kind"
UrlKey    == "weft.boot/source.url"
RefKey    == "weft.boot/source.ref"
ScriptKey == "weft.boot/script"
ReadOrder == <<KindKey, UrlKey, RefKey, ScriptKey>>
BootKeys  == {KindKey, UrlKey, RefKey, ScriptKey}

Unset    == "none"        \* an absent file, read as the empty string
NoSource == "no-source"   \* the kind spelt "none" in the code
EmptyCfg == [k \in BootKeys |-> Unset]

VARIABLES tree,      \* the property tree, as in PropertyTree
          bpc,       \* where the watcher is
          reads,     \* files read in this poll
          cfg,       \* the Config read so far
          expired,   \* whether maxWait has elapsed since the start
          shutdown,  \* whether shutdownCtx is cancelled
          sentinel,  \* whether SentinelPath exists
          repo,      \* the git clone in <WorkDir>/payload
          oci,       \* the OCI artifact in <WorkDir>/payload
          starts,    \* history: how often the agent was started
          scripts,   \* history: how often a script was started
          okRuns,    \* history: how often a script ended well
          done       \* history: the Config the sentinel was touched for

volatile == <<bpc, reads, cfg, expired, shutdown>>
payload  == <<repo, oci>>
history  == <<starts, scripts, okRuns, done>>
bootVars == <<volatile, sentinel, payload, history>>

BootTypeOK ==
  /\ bpc \in {"check", "read", "decide", "wait", "run", "pull", "cloning",
              "copying", "script", "scripting", "stamp", "exited"}
  /\ reads \in 0..4
  /\ \A c \in {cfg, done} : DOMAIN c = BootKeys /\ \A k \in BootKeys : c[k] \notin {"dir", "partial"}
  /\ expired \in BOOLEAN /\ shutdown \in BOOLEAN /\ sentinel \in BOOLEAN
  /\ repo \in {"absent", "partial", "cloned", "ready"}
  /\ oci \in {"absent", "partial", "complete"}
  /\ starts \in 1..MaxStarts /\ scripts \in Nat /\ okRuns \in 0..scripts

BootInit ==
  /\ bpc = "check" /\ reads = 0 /\ cfg = EmptyCfg
  /\ expired = FALSE /\ shutdown = FALSE
  /\ sentinel = FALSE /\ repo = "absent" /\ oci = "absent"
  /\ starts = 1 /\ scripts = 0 /\ okRuns = 0 /\ done = EmptyCfg

\* The Config belongs to one turn of the loop: it is gone once the watcher
\* waits for the next turn or returns.
Goto(l) ==
  /\ bpc' = l
  /\ IF l \in {"wait", "exited"} THEN reads' = 0 /\ cfg' = EmptyCfg
     ELSE UNCHANGED <<reads, cfg>>

\* Empty kind and empty script: nothing to do, whatever url and ref say.
IsEmpty(c) == c[KindKey] = Unset /\ c[ScriptKey] = Unset

\* Faulty variant: os.Stat looks at a path that nobody touches.
SentinelElsewhere == FALSE

SentinelPresent == sentinel

(***************************************************************************)
(* watchAndRunBoot.                                                        *)
(***************************************************************************)
Check ==
  /\ bpc = "check"
  /\ Goto(IF shutdown \/ SentinelPresent THEN "exited" ELSE "read")
  /\ UNCHANGED <<tree, expired, shutdown, sentinel, payload, history>>

\* os.ReadFile fails on a directory and below a file; only ENOENT is "".
Unreadable(k) == tree[k] = "dir" \/ \E a \in Above[k] : tree[a] \notin {"none", "dir"}

ReadKey ==
  /\ bpc = "read" /\ reads < 4
  /\ LET k == ReadOrder[reads + 1]
     IN IF Unreadable(k)
        THEN Goto("wait")
        ELSE /\ cfg' = [cfg EXCEPT ![k] = tree[k]]
             /\ reads' = reads + 1
             /\ bpc' = IF reads = 3 THEN "decide" ELSE "read"
  /\ UNCHANGED <<tree, expired, shutdown, sentinel, payload, history>>

\* Faulty variant: the watcher waits for ever.
DecideNoDeadline ==
  /\ bpc = "decide"
  /\ Goto(IF IsEmpty(cfg) THEN "wait" ELSE "run")
  /\ UNCHANGED <<tree, expired, shutdown, sentinel, payload, history>>

\* An empty Config is run only after the deadline, to touch the sentinel.
Decide ==
  /\ bpc = "decide"
  /\ IF ~IsEmpty(cfg) THEN Goto("run")
     ELSE IF expired THEN bpc' = "run" /\ cfg' = EmptyCfg /\ UNCHANGED reads
     ELSE Goto("wait")
  /\ UNCHANGED <<tree, expired, shutdown, sentinel, payload, history>>

Wait ==
  /\ bpc = "wait"
  /\ \/ Goto("check")
     \/ shutdown /\ Goto("exited")
  /\ UNCHANGED <<tree, expired, shutdown, sentinel, payload, history>>

(***************************************************************************)
(* Runner.Run.  Any error makes the watcher return.                        *)
(***************************************************************************)
runFrame == <<tree, expired, shutdown>>

\* Faulty variant: an unknown source kind is taken for "none".
RunAnyKind ==
  /\ bpc = "run"
  /\ Goto(IF SentinelPresent THEN "exited"
          ELSE IF IsEmpty(cfg) THEN "stamp"
          ELSE IF cfg[KindKey] \in {"git", "oci"} THEN "pull" ELSE "script")
  /\ UNCHANGED <<runFrame, sentinel, payload, history>>

Run ==
  /\ bpc = "run"
  /\ \/ Goto(IF SentinelPresent THEN "exited"
             ELSE IF IsEmpty(cfg) THEN "stamp"
             ELSE CASE cfg[KindKey] \in {Unset, NoSource} -> "script"
                    [] cfg[KindKey] \in {"git", "oci"}    -> "pull"
                    [] OTHER                              -> "exited")
     \/ ~SentinelPresent /\ ~IsEmpty(cfg) /\ Goto("exited")    \* no work directory
  /\ UNCHANGED <<runFrame, sentinel, payload, history>>

\* gitClone and ociPull.  go-git refuses a path that holds a repository.
StartPull ==
  /\ bpc = "pull"
  /\ \/ /\ cfg[KindKey] = "git" /\ repo # "absent"
        /\ Goto("exited") /\ UNCHANGED payload
     \/ /\ cfg[KindKey] = "git" /\ repo = "absent"
        /\ Goto("cloning") /\ repo' = "partial" /\ UNCHANGED oci
     \/ /\ cfg[KindKey] = "oci"
        /\ Goto("copying") /\ oci' = "partial" /\ UNCHANGED repo
     \/ /\ cfg[KindKey] = "oci"     \* no payload directory or file store
        /\ Goto("exited") /\ UNCHANGED payload
  /\ UNCHANGED <<runFrame, sentinel, history>>

\* A failed clone is removed again, but only where the directory was its own;
\* a ref that cannot be resolved or checked out leaves the clone behind.
EndClone ==
  /\ bpc = "cloning"
  /\ \/ Goto("script") /\ repo' = "ready"
     \/ Goto("exited") /\ repo' = IF oci = "absent" THEN "absent" ELSE "partial"
     \/ cfg[RefKey] # Unset /\ Goto("exited") /\ repo' = "cloned"
  /\ UNCHANGED <<runFrame, sentinel, oci, history>>

\* oras overwrites what an earlier pull left, and removes nothing.
EndCopy ==
  /\ bpc = "copying"
  /\ \/ Goto("script") /\ oci' = "complete"
     \/ Goto("exited") /\ UNCHANGED oci
  /\ UNCHANGED <<runFrame, sentinel, repo, history>>

StartScript ==
  /\ bpc = "script"
  /\ IF cfg[ScriptKey] = Unset
     THEN Goto("stamp") /\ UNCHANGED scripts
     ELSE Goto("scripting") /\ scripts' = scripts + 1
  /\ UNCHANGED <<runFrame, sentinel, payload, starts, okRuns, done>>

EndScript ==
  /\ bpc = "scripting"
  /\ \/ Goto("stamp") /\ okRuns' = okRuns + 1
     \/ Goto("exited") /\ UNCHANGED okRuns
  /\ UNCHANGED <<runFrame, sentinel, payload, starts, scripts, done>>

\* touchSentinel may fail like any file operation.
TouchSentinel ==
  /\ bpc = "stamp"
  /\ Goto("exited")
  /\ \/ sentinel' = TRUE /\ done' = cfg
     \/ UNCHANGED <<sentinel, done>>
  /\ UNCHANGED <<runFrame, payload, starts, scripts, okRuns>>

Watch == Check \/ ReadKey \/ Decide \/ Wait
Provision == Run \/ StartPull \/ EndClone \/ EndCopy \/ StartScript \/ EndScript \/ TouchSentinel

(***************************************************************************)
(* Time, the shutdown signal, and the end of this process followed by a    *)
(* start of the agent, at any point.                                       *)
(***************************************************************************)
DeadlinePasses ==
  /\ ~expired /\ expired' = TRUE
  /\ UNCHANGED <<tree, bpc, reads, cfg, shutdown, sentinel, payload, history>>

Shutdown ==
  /\ ~shutdown /\ shutdown' = TRUE
  /\ UNCHANGED <<tree, bpc, reads, cfg, expired, sentinel, payload, history>>

RestartWatcher ==
  /\ starts < MaxStarts
  /\ starts' = starts + 1
  /\ bpc' = "check" /\ reads' = 0 /\ cfg' = EmptyCfg /\ expired' = FALSE /\ shutdown' = FALSE
  /\ UNCHANGED <<sentinel, payload, scripts, okRuns, done>>

\* The environment of the watcher on its own: BootSystem puts the properties
\* subscriber in its place.
TreeChanges == tree' \in Trees /\ UNCHANGED bootVars

BootAloneInit == BootInit /\ tree \in Trees

BootAloneNext ==
  \/ Watch \/ Provision \/ DeadlinePasses \/ Shutdown
  \/ TreeChanges
  \/ RestartWatcher /\ tree' \in Trees

BootAlone == BootAloneInit /\ [][BootAloneNext]_<<tree, bootVars>>

-----------------------------------------------------------------------------
(***************************************************************************)
(* Properties.                                                             *)
(***************************************************************************)
\* The sentinel exists only where the Config it was touched for was carried
\* out: its source pulled and complete, its script ended without an error.
SentinelMeansProvisioned ==
  sentinel => /\ done[KindKey] \in {Unset, NoSource, "git", "oci"}
              /\ done[KindKey] = "git" => repo = "ready"
              /\ done[KindKey] = "oci" => oci = "complete"
              /\ done[ScriptKey] # Unset => okRuns > 0

\* Once the sentinel exists nothing is pulled and no script is started, by
\* this start of the agent or a later one.
NothingAfterSentinel ==
  [][sentinel => sentinel' /\ UNCHANGED <<repo, oci, scripts>>]_<<tree, bootVars>>

\* The watcher does not poll for ever: it provisions, or bails after maxWait.
WatcherEnds == []<>(bpc = "exited")

\* "run the configured payload + script exactly once (sentinel-guarded)": no
\* second run of a script that ended well.
ScriptRunsOnce == okRuns <= 1

\* "on failure it isn't, so a re-published config can retry": while there is
\* no sentinel, and no shutdown, somebody is still looking at the tree.
UnprovisionedKeepsWatching == (bpc = "exited" /\ ~shutdown) => sentinel

\* The same promise for the pull: the leftovers of a failed or interrupted
\* run do not make the next clone fail.
CloneCanBeRetried == (bpc = "pull" /\ cfg[KindKey] = "git") => repo = "absent"
=============================================================================

-------------------------- MODULE BootSystemProofs --------------------------
(***************************************************************************)
(* The sentinel tells the truth, the watcher reads only what was           *)
(* published, and the watcher and the subscriber together implement each   *)
(* of the two on its own: for every tree, every set of published           *)
(* PropertySets and any number of restarts.                                *)
(***************************************************************************)
EXTENDS BootSystem, TLAPS

(***************************************************************************)
(* The watcher on its own, whatever the property tree does.                *)
(***************************************************************************)
Provisioning == {"pull", "cloning", "copying", "script", "scripting", "stamp"}

\* The source of c is one Run knows, and its payload is there.
Pulled(c) ==
  /\ c[KindKey] \in {Unset, NoSource, "git", "oci"}
  /\ c[KindKey] = "git" => repo = "ready"
  /\ c[KindKey] = "oci" => oci = "complete"

\* Run got past its check of the sentinel, and what it did since holds.
WatcherInv ==
  /\ okRuns \in Nat
  /\ bpc \in Provisioning => ~sentinel
  /\ bpc = "pull" => cfg[KindKey] \in {"git", "oci"}
  /\ bpc = "cloning" => cfg[KindKey] = "git"
  /\ bpc = "copying" => cfg[KindKey] = "oci"
  /\ bpc \in {"script", "scripting", "stamp"} => Pulled(cfg)
  /\ bpc = "stamp" /\ cfg[ScriptKey] # Unset => okRuns > 0
  /\ SentinelMeansProvisioned

aloneVars == <<tree, bootVars>>

LEMMA WatcherInit == BootAloneInit => WatcherInv
  BY DEF BootAloneInit, BootInit, WatcherInv, Provisioning, SentinelMeansProvisioned

\* Each step of the watcher, of the runner and of their environment.
LEMMA WatcherPreserves == WatcherInv /\ [BootAloneNext]_aloneVars => WatcherInv'
<1> SUFFICES ASSUME WatcherInv, [BootAloneNext]_aloneVars PROVE WatcherInv'
  OBVIOUS
<1> USE DEF WatcherInv, Provisioning, Pulled, SentinelMeansProvisioned, Goto, payload, history, runFrame
<1>1. CASE Check
  BY <1>1 DEF Check
<1>2. CASE ReadKey
  BY <1>2 DEF ReadKey
<1>3. CASE Decide
  BY <1>3 DEF Decide
<1>4. CASE Wait
  BY <1>4 DEF Wait
<1>5. CASE Run
  <2>1. bpc' \in {"exited", "stamp", "script", "pull"}
    BY <1>5 DEF Run
  <2>2. bpc' # "exited" => ~sentinel /\ UNCHANGED cfg
    BY <1>5 DEF Run, SentinelPresent
  <2>3. bpc' = "stamp" => IsEmpty(cfg)
    BY <1>5 DEF Run
  <2>4. bpc' = "script" => cfg[KindKey] \in {Unset, NoSource}
    BY <1>5 DEF Run
  <2>5. bpc' = "pull" => cfg[KindKey] \in {"git", "oci"}
    BY <1>5 DEF Run
  <2>6. UNCHANGED <<sentinel, repo, oci, okRuns, done>>
    BY <1>5 DEF Run
  <2> QED BY <2>1, <2>2, <2>3, <2>4, <2>5, <2>6 DEF IsEmpty, Unset, NoSource
<1>6. CASE StartPull
  BY <1>6 DEF StartPull
<1>7. CASE EndClone
  BY <1>7 DEF EndClone
<1>8. CASE EndCopy
  BY <1>8 DEF EndCopy
<1>9. CASE StartScript
  BY <1>9 DEF StartScript
<1>10. CASE EndScript
  BY <1>10 DEF EndScript
<1>11. CASE TouchSentinel
  BY <1>11 DEF TouchSentinel
<1>12. CASE DeadlinePasses \/ Shutdown
  BY <1>12 DEF DeadlinePasses, Shutdown
<1>13. CASE RestartWatcher
  BY <1>13 DEF RestartWatcher
<1>14. CASE UNCHANGED bootVars
  BY <1>14 DEF bootVars, volatile
<1> QED BY <1>1, <1>2, <1>3, <1>4, <1>5, <1>6, <1>7, <1>8, <1>9, <1>10, <1>11, <1>12, <1>13, <1>14, Zenon
        DEF BootAloneNext, Watch, Provision, TreeChanges, aloneVars

LEMMA WatcherInvariant == BootAlone => []WatcherInv
<1> QED BY WatcherInit, WatcherPreserves, PTL DEF BootAlone, aloneVars

\* The sentinel that makes later boots skip provisioning exists only where the
\* Config it was touched for was carried out.
THEOREM SentinelSound == BootAlone => []SentinelMeansProvisioned
<1>1. WatcherInv => SentinelMeansProvisioned
  BY DEF WatcherInv
<1> QED BY <1>1, WatcherInvariant, PTL

\* Once the sentinel exists nothing is pulled and no script is started, by this
\* start of the agent or a later one.
THEOREM SentinelStops == BootAlone => NothingAfterSentinel
<1>1. WatcherInv /\ [BootAloneNext]_aloneVars => [sentinel => sentinel' /\ UNCHANGED <<repo, oci, scripts>>]_aloneVars
  <2> SUFFICES ASSUME WatcherInv, BootAloneNext, sentinel PROVE sentinel' /\ UNCHANGED <<repo, oci, scripts>>
    OBVIOUS
  <2> USE DEF payload, history
  <2>1. bpc \notin Provisioning
    BY DEF WatcherInv
  <2>2. CASE Check \/ ReadKey \/ Decide \/ Wait
    BY <2>2, Zenon DEF Check, ReadKey, Decide, Wait
  <2>3. CASE Run
    BY <2>3 DEF Run
  <2>4. CASE StartPull \/ EndClone \/ EndCopy \/ StartScript \/ EndScript \/ TouchSentinel
    BY <2>1, <2>4, Zenon DEF Provisioning, StartPull, EndClone, EndCopy, StartScript, EndScript, TouchSentinel
  <2>5. CASE DeadlinePasses \/ Shutdown
    BY <2>5, Zenon DEF DeadlinePasses, Shutdown
  <2>6. CASE RestartWatcher
    BY <2>6 DEF RestartWatcher
  <2>7. CASE TreeChanges
    BY <2>7 DEF TreeChanges, bootVars
  <2> QED BY <2>2, <2>3, <2>4, <2>5, <2>6, <2>7, Zenon DEF BootAloneNext, Watch, Provision
<1> QED BY <1>1, WatcherInvariant, PTL DEF BootAlone, NothingAfterSentinel, aloneVars

\* No reader finds a half-written value at a key of the watcher's.
WholeTrees == \A t \in Trees : \A k \in BootKeys : t[k] # "partial"

\* A script in progress has been counted, and has not ended well yet.
TypeInv == BootTypeOK /\ tree \in Trees /\ (bpc = "scripting" => okRuns < scripts)

LEMMA GotoTypes ==
  ASSUME TypeInv, NEW l, Goto(l)
  PROVE  /\ reads' \in 0..4 /\ DOMAIN cfg' = BootKeys
         /\ \A k \in BootKeys : cfg'[k] \notin {"dir", "partial"}
  BY DEF TypeInv, BootTypeOK, Goto, EmptyCfg, Unset

LEMMA TypeStep ==
  ASSUME WholeTrees, TypeInv, BootAloneNext
  PROVE  TypeInv'
<1>1. tree' \in Trees
  <2>1. UNCHANGED tree \/ tree' \in Trees
    BY Zenon DEF BootAloneNext, Watch, Check, ReadKey, Decide, Wait, Provision, Run, StartPull,
        EndClone, EndCopy, StartScript, EndScript, TouchSentinel, runFrame, DeadlinePasses,
        Shutdown, TreeChanges
  <2> QED BY <2>1 DEF TypeInv
<1>2. expired' \in BOOLEAN /\ shutdown' \in BOOLEAN /\ sentinel' \in BOOLEAN
  BY Zenon DEF TypeInv, BootTypeOK, BootAloneNext, Watch, Check, ReadKey, Decide, Wait, Provision,
      Run, StartPull, EndClone, EndCopy, StartScript, EndScript, TouchSentinel, runFrame,
      DeadlinePasses, Shutdown, RestartWatcher, TreeChanges, bootVars, volatile
<1> DEFINE Sequel ==
  /\ bpc' \in {"check", "read", "decide", "wait", "run", "pull", "cloning",
               "copying", "script", "scripting", "stamp", "exited"}
  /\ reads' \in 0..4
  /\ \A c \in {cfg', done'} : DOMAIN c = BootKeys /\ \A k \in BootKeys : c[k] \notin {"dir", "partial"}
  /\ repo' \in {"absent", "partial", "cloned", "ready"}
  /\ oci' \in {"absent", "partial", "complete"}
  /\ starts' \in 1..MaxStarts /\ scripts' \in Nat /\ okRuns' \in 0..scripts'
  /\ bpc' = "scripting" => okRuns' < scripts'
<1>3. Sequel
  <2> USE MaxStartsAssumption DEF TypeInv, BootTypeOK, payload, history, runFrame
  <2>1. CASE Check \/ Wait \/ Run
    BY <2>1, GotoTypes DEF Check, Wait, Run, Goto
  <2>2. CASE ReadKey
    <3>1. CASE Goto("wait")
      BY <2>2, <3>1, GotoTypes DEF ReadKey, Goto
    <3>2. ASSUME ~Unreadable(ReadOrder[reads + 1])
          PROVE  Sequel
      <4>1. PICK k : k = ReadOrder[reads + 1]
        OBVIOUS
      <4>2. /\ cfg' = [cfg EXCEPT ![k] = tree[k]]
            /\ reads' = reads + 1
            /\ bpc' = IF reads = 3 THEN "decide" ELSE "read"
            /\ reads < 4
            /\ UNCHANGED <<repo, oci, starts, scripts, okRuns, done>>
        BY <2>2, <3>2, <4>1 DEF ReadKey
      <4>3. k \in BootKeys
        BY <4>1, <4>2 DEF ReadOrder, BootKeys
      <4>4. tree[k] \notin {"dir", "partial"}
        BY <3>2, <4>1, <4>3 DEF WholeTrees, Unreadable
      <4>5. DOMAIN cfg' = BootKeys /\ \A j \in BootKeys : cfg'[j] \notin {"dir", "partial"}
        BY <4>2, <4>3, <4>4
      <4> QED BY <4>2, <4>5
    <3> QED BY <2>2, <3>1, <3>2 DEF ReadKey
  <2>3. CASE Decide
    BY <2>3, GotoTypes DEF Decide, Goto, EmptyCfg, Unset
  <2>4. CASE StartPull \/ EndClone \/ EndCopy
    BY <2>4, GotoTypes DEF StartPull, EndClone, EndCopy, Goto
  <2>5. CASE StartScript \/ EndScript
    BY <2>5, GotoTypes DEF StartScript, EndScript, Goto
  <2>6. CASE TouchSentinel
    BY <2>6, GotoTypes DEF TouchSentinel, Goto
  <2>7. CASE DeadlinePasses \/ Shutdown \/ TreeChanges
    BY <2>7 DEF DeadlinePasses, Shutdown, TreeChanges, bootVars, volatile
  <2>8. CASE RestartWatcher
    BY <2>8 DEF RestartWatcher, EmptyCfg, Unset
  <2> QED BY <2>1, <2>2, <2>3, <2>4, <2>5, <2>6, <2>7, <2>8, Zenon
          DEF BootAloneNext, Watch, Provision
<1> QED BY <1>1, <1>2, <1>3, Zenon DEF TypeInv, BootTypeOK

\* The watcher and the runner keep their state well formed; in particular no value
\* of a Config, read or provisioned, is half of one, and the script never ends well
\* more often than it was started.
THEOREM WatcherTypeCorrect == WholeTrees => (BootAlone => []BootTypeOK)
<1> SUFFICES ASSUME WholeTrees PROVE BootAlone => []BootTypeOK
  OBVIOUS
<1>1. BootAloneInit => TypeInv
  <2> SUFFICES ASSUME BootAloneInit PROVE TypeInv
    OBVIOUS
  <2>1. expired \in BOOLEAN /\ shutdown \in BOOLEAN /\ sentinel \in BOOLEAN
    BY Zenon DEF BootAloneInit, BootInit
  <2>2. \A k \in BootKeys : EmptyCfg[k] \notin {"dir", "partial"}
    BY DEF EmptyCfg, Unset
  <2>3. /\ bpc = "check" /\ reads = 0 /\ cfg = EmptyCfg /\ done = EmptyCfg
        /\ repo = "absent" /\ oci = "absent" /\ starts = 1 /\ scripts = 0 /\ okRuns = 0
        /\ tree \in Trees
    BY DEF BootAloneInit, BootInit
  <2>4. reads \in 0..4 /\ starts \in 1..MaxStarts /\ scripts \in Nat /\ okRuns \in 0..scripts
    BY <2>3, MaxStartsAssumption
  <2>5. DOMAIN EmptyCfg = BootKeys
    BY DEF EmptyCfg
  <2> QED BY <2>1, <2>2, <2>3, <2>4, <2>5, Zenon DEF TypeInv, BootTypeOK
<1>2. TypeInv /\ [BootAloneNext]_aloneVars => TypeInv'
  <2>1. ASSUME TypeInv, UNCHANGED aloneVars PROVE TypeInv'
    BY <2>1, Zenon DEF TypeInv, BootTypeOK, aloneVars, bootVars, volatile, payload, history
  <2> QED BY <2>1, TypeStep
<1>3. TypeInv => BootTypeOK
  BY DEF TypeInv
<1> QED BY <1>1, <1>2, <1>3, PTL DEF BootAlone, aloneVars

(***************************************************************************)
(* The subscriber within the system.                                       *)
(***************************************************************************)
\* The watcher only reads the tree: its steps are none of the subscriber's.
LEMMA StepOfSync == [Next]_vars => [Props!Next]_(Props!vars)
<1> SUFFICES ASSUME [Next]_vars PROVE Props!Next \/ UNCHANGED Props!vars
  OBVIOUS
<1>1. CASE Sync
  BY <1>1, PublishedAssumption, Zenon DEF Sync, Props!Next
<1>2. CASE AgentRestart \/ GuestReboot
  BY <1>2, Zenon DEF AgentRestart, GuestReboot, Props!Next
<1>3. ASSUME UNCHANGED <<tree, syncVars>> PROVE UNCHANGED Props!vars
  BY <1>3 DEF syncVars, Props!vars
<1>4. CASE WatcherStep
  BY <1>3, <1>4 DEF WatcherStep, Watch, Provision, Check, ReadKey, Decide, Wait, runFrame,
     Run, StartPull, EndClone, EndCopy, StartScript, EndScript, TouchSentinel
<1>5. CASE Environment
  BY <1>3, <1>5 DEF Environment, DeadlinePasses, Shutdown
<1>6. CASE UNCHANGED vars
  BY <1>3, <1>6 DEF vars
<1> QED BY <1>1, <1>2, <1>4, <1>5, <1>6, Zenon DEF Next

\* Within the system the subscriber does what it does on its own, so that what is
\* proved of PropertyTree holds of the system.
THEOREM ImplementsSync == Spec => Props!Spec
<1>1. Init => Props!Init
  BY DEF Init
<1> QED BY <1>1, StepOfSync, PTL DEF Spec, Props!Spec

\* The subscriber's proofs, about the same tree.
SyncProofs == INSTANCE PropertyTreeProofs

\* What the host published for a key of the watcher.
PublishedFor(k) == {ConfigOf(ps)[k] : ps \in Published}

\* What the subscriber writes, and what the watcher has read of it.
PublishedInv ==
  /\ want \in Published \cup {Props!Empty}
  /\ \A k \in BootKeys : tree[k] \in {"none", "dir"} \cup PublishedFor(k)
  /\ cfg \in [BootKeys -> Values \cup {Unset}] /\ reads \in 0..4
  /\ ReadsPublishedValues

IInv == SyncProofs!IInv /\ PublishedInv

\* The assumptions of the subscriber's module hold here.
LEMMA Assumptions ==
  /\ SyncProofs!KeysAssumption /\ SyncProofs!AboveAssumption /\ SyncProofs!TmpAssumption
  /\ SyncProofs!OrderAssumption /\ SyncProofs!ValuesAssumption /\ SyncProofs!IOFaultsAssumption
  BY TreeAssumption
  DEF Props!KeysAssumption, Props!AboveAssumption, Props!TmpAssumption,
      Props!OrderAssumption, Props!ValuesAssumption, Props!IOFaultsAssumption,
      Props!ToSet, Props!IsFiniteSet, Props!None, Props!Dir, Props!Partial,
      SyncProofs!KeysAssumption, SyncProofs!AboveAssumption, SyncProofs!TmpAssumption,
      SyncProofs!OrderAssumption, SyncProofs!ValuesAssumption, SyncProofs!IOFaultsAssumption,
      SyncProofs!ToSet, SyncProofs!IsFiniteSet, SyncProofs!None, SyncProofs!Dir, SyncProofs!Partial

\* The two instances of PropertyTree, the system's and the proofs', are one.
LEMMA SameInit == ASSUME Props!Init PROVE SyncProofs!Init
  BY Zenon DEF Props!Init, Props!None, Props!Empty, SyncProofs!Init, SyncProofs!None, SyncProofs!Empty

LEMMA SameNext == ASSUME Props!Next PROVE SyncProofs!Next
  BY Zenon
  DEF Props!Next, Props!Receive, Props!Apply, Props!Collect, Props!RemoveStale, Props!MkdirParent,
      Props!CreateTmp, Props!FillTmp, Props!RenameTmp, Props!WritesDone, Props!PruneEmptyDirs,
      Props!IOError, Props!PruneIncomplete, Props!Crash, Props!Reboot, Props!Restart, Props!Fail,
      Props!Key, Props!First, Props!IsFile, Props!KeysOf, Props!Empty, Props!EmptyDirs,
      Props!Applied, Props!PropertySets, Props!None, Props!Dir, Props!Partial,
      SyncProofs!Next, SyncProofs!Receive, SyncProofs!Apply, SyncProofs!Collect,
      SyncProofs!RemoveStale, SyncProofs!MkdirParent, SyncProofs!CreateTmp, SyncProofs!FillTmp,
      SyncProofs!RenameTmp, SyncProofs!WritesDone, SyncProofs!PruneEmptyDirs, SyncProofs!IOError,
      SyncProofs!PruneIncomplete, SyncProofs!Crash, SyncProofs!Reboot, SyncProofs!Restart,
      SyncProofs!Fail, SyncProofs!Key, SyncProofs!First, SyncProofs!IsFile, SyncProofs!KeysOf,
      SyncProofs!Empty, SyncProofs!EmptyDirs, SyncProofs!Applied, SyncProofs!PropertySets,
      SyncProofs!None, SyncProofs!Dir, SyncProofs!Partial

LEMMA SyncInit == Props!Init => SyncProofs!IInv
  BY SameInit, SyncProofs!InitHolds, Assumptions, Zenon

LEMMA SyncStep == SyncProofs!IInv /\ [Props!Next]_(Props!vars) => SyncProofs!IInv'
<1>1. [Props!Next]_(Props!vars) => [SyncProofs!Next]_(SyncProofs!vars)
  BY SameNext, Zenon DEF Props!vars, SyncProofs!vars
<1> QED BY <1>1, SyncProofs!StepPreserves, Assumptions, Zenon

(***************************************************************************)
(* What the watcher finds.                                                 *)
(***************************************************************************)
\* A key of the watcher becomes a directory, nothing, or its published value.
LEMMA KeyWrites ==
  ASSUME IInv, [Next]_vars, NEW k \in BootKeys
  PROVE  tree'[k] \in {tree[k], "none", "dir"} \cup PublishedFor(k)
<1>1. [SyncProofs!Next]_(SyncProofs!vars)
  BY StepOfSync, SameNext, Zenon DEF Props!vars, SyncProofs!vars
<1>2. k \in Nodes \ TmpNodes
  BY BootKeysAssumption
<1>3. \/ tree'[k] \in {tree[k], "none", "dir"}
      \/ k \in Keys /\ want[k] # "none" /\ tree'[k] = want[k]
  <2>1. \/ tree'[k] \in {tree[k], SyncProofs!None, SyncProofs!Dir}
        \/ k \in SyncProofs!KeysOf(want) /\ tree'[k] = want[k]
    BY <1>1, <1>2, SyncProofs!NodeWrites, Assumptions, Zenon DEF IInv
  <2> QED BY <2>1 DEF SyncProofs!None, SyncProofs!Dir, SyncProofs!KeysOf
<1>4. ASSUME k \in Keys, want[k] # "none" PROVE want[k] \in PublishedFor(k)
  <2>1. want \in Published
    BY <1>4 DEF IInv, PublishedInv, Props!Empty, Props!None
  <2>2. ConfigOf(want)[k] = want[k]
    BY <1>4 DEF ConfigOf
  <2> QED BY <2>1, <2>2 DEF PublishedFor
<1> QED BY <1>3, <1>4

\* Every step of the two, and of the failures, keeps what was read published.
LEMMA StepPreserves == IInv /\ [Next]_vars => IInv'
<1> SUFFICES ASSUME IInv, [Next]_vars PROVE IInv'
  OBVIOUS
<1>1. SyncProofs!IInv'
  BY StepOfSync, SyncStep DEF IInv
<1>2. \A k \in BootKeys : tree'[k] \in {"none", "dir"} \cup PublishedFor(k)
  BY KeyWrites DEF IInv, PublishedInv
<1>3. want' \in Published \cup {Props!Empty} /\ reads' \in 0..4 /\ (cfg' = cfg \/ cfg' = EmptyCfg \/ ReadKey)
  <2> USE DEF IInv, PublishedInv
  <2>1. CASE Sync
    <3>1. UNCHANGED <<reads, cfg>>
      BY <2>1 DEF Sync, bootVars, volatile
    <3>2. CASE \E ps \in Published : Props!Receive(ps)
      BY <3>1, <3>2 DEF Props!Receive
    <3>3. CASE Props!Apply
      <4>1. UNCHANGED want
        BY <3>3 DEF Props!Apply, Props!Collect, Props!RemoveStale, Props!MkdirParent, Props!CreateTmp,
           Props!FillTmp, Props!RenameTmp, Props!WritesDone, Props!PruneEmptyDirs, Props!Fail
      <4> QED BY <3>1, <4>1
    <3> QED BY <2>1, <3>2, <3>3 DEF Sync
  <2>2. CASE AgentRestart \/ GuestReboot
    BY <2>2 DEF AgentRestart, GuestReboot, Props!Crash, Props!Reboot, Props!Restart, RestartWatcher
  <2>3. CASE WatcherStep
    <3>1. UNCHANGED want
      BY <2>3 DEF WatcherStep, syncVars
    <3>2. (reads' \in {0, reads} /\ (cfg' = cfg \/ cfg' = EmptyCfg)) \/ ReadKey
      BY <2>3, Zenon DEF WatcherStep, Watch, Provision, Check, Decide, Wait, Goto,
         Run, StartPull, EndClone, EndCopy, StartScript, EndScript, TouchSentinel
    <3>3. ReadKey => reads' \in 0..4
      BY DEF ReadKey, Goto
    <3> QED BY <3>1, <3>2, <3>3
  <2>4. CASE Environment
    BY <2>4 DEF Environment, DeadlinePasses, Shutdown, syncVars
  <2>5. CASE UNCHANGED vars
    BY <2>5 DEF vars, syncVars, bootVars, volatile
  <2> QED BY <2>1, <2>2, <2>3, <2>4, <2>5, Zenon DEF Next
<1> DEFINE Read == Values \cup {Unset}
<1>4. cfg' \in [BootKeys -> Read] /\ \A k \in BootKeys : cfg'[k] \in {Unset} \cup PublishedFor(k)
  <2>0. cfg \in [BootKeys -> Read] /\ \A k \in BootKeys : cfg[k] \in {Unset} \cup PublishedFor(k)
    BY DEF IInv, PublishedInv, ReadsPublishedValues, PublishedFor
  <2>1. \A k \in BootKeys : PublishedFor(k) \subseteq Read
    BY PublishedAssumption DEF PublishedFor, ConfigOf, Props!PropertySets, Props!None, Unset
  <2>2. EmptyCfg \in [BootKeys -> Read] /\ \A k \in BootKeys : EmptyCfg[k] = Unset
    BY DEF EmptyCfg
  <2>3. CASE cfg' = cfg \/ cfg' = EmptyCfg
    BY <2>0, <2>2, <2>3
  <2>4. CASE ReadKey
    <3>1. CASE cfg' = EmptyCfg \/ cfg' = cfg
      BY <2>3, <3>1
    <3>2. CASE \E k \in BootKeys : ~Unreadable(k) /\ cfg' = [cfg EXCEPT ![k] = tree[k]]
      <4>1. PICK k \in BootKeys : ~Unreadable(k) /\ cfg' = [cfg EXCEPT ![k] = tree[k]]
        BY <3>2, Zenon
      <4>2. tree[k] \in {Unset} \cup PublishedFor(k)
        BY <4>1 DEF IInv, PublishedInv, Unreadable, Unset
      <4> QED BY <2>0, <2>1, <4>1, <4>2
    <3>3. reads \in 0..3 => ReadOrder[reads + 1] \in BootKeys
      BY DEF ReadOrder, BootKeys
    <3> QED BY <2>4, <3>1, <3>2, <3>3 DEF ReadKey, Goto, IInv, PublishedInv
  <2> QED BY <1>3, <2>3, <2>4
<1>5. PublishedInv'
  BY <1>2, <1>3, <1>4 DEF PublishedInv, ReadsPublishedValues, PublishedFor
<1> QED BY <1>1, <1>5 DEF IInv

LEMMA InitHolds == Init => IInv
<1> SUFFICES ASSUME Init PROVE IInv
  OBVIOUS
<1>1. SyncProofs!IInv
  BY SyncInit DEF Init
<1>2. /\ want = Props!Empty /\ \A k \in BootKeys : tree[k] = "none"
      /\ cfg = EmptyCfg /\ reads = 0
  BY BootKeysAssumption DEF Init, Props!Init, Props!None, BootInit
<1>3. PublishedInv
  BY <1>2 DEF PublishedInv, ReadsPublishedValues, EmptyCfg
<1> QED BY <1>1, <1>3 DEF IInv

LEMMA Invariant == Spec => []IInv
<1> QED BY InitHolds, StepPreserves, PTL DEF Spec

\* The watcher polls files the subscriber is writing: whatever it reads under one
\* of its keys is a whole value that the host published for that key, or nothing.
THEOREM OnlyPublished == Spec => []ReadsPublishedValues
<1>1. IInv => ReadsPublishedValues
  BY DEF IInv, PublishedInv
<1> QED BY <1>1, Invariant, PTL

\* No key of the watcher is half written, whatever the subscriber is doing.
LEMMA NeverPartial == IInv => tree \in SyncTrees
<1> SUFFICES ASSUME IInv PROVE tree \in SyncTrees
  OBVIOUS
<1>1. tree \in [Nodes -> Values \cup {"none", "dir", "partial"}]
  BY DEF IInv, SyncProofs!IInv, SyncProofs!TypeOK, SyncProofs!None, SyncProofs!Dir, SyncProofs!Partial
<1>2. "partial" \notin Values
  BY TreeAssumption DEF Props!ValuesAssumption, Props!None, Props!Dir, Props!Partial
<1>3. \A k \in BootKeys : PublishedFor(k) \subseteq Values \cup {"none"}
  BY PublishedAssumption DEF PublishedFor, ConfigOf, Props!PropertySets, Props!None, Unset
<1> QED BY <1>1, <1>2, <1>3 DEF SyncTrees, IInv, PublishedInv

\* A step of the subscriber is a change of the tree; the others are the watcher's.
LEMMA StepOfBoot ==
  ASSUME SyncTrees \subseteq Trees
  PROVE  IInv /\ IInv' /\ [Next]_vars => [BootAloneNext]_<<tree, bootVars>>
<1> SUFFICES ASSUME IInv, IInv', [Next]_vars PROVE BootAloneNext \/ UNCHANGED <<tree, bootVars>>
  OBVIOUS
<1>1. tree' \in Trees
  <2>1. (tree \in SyncTrees)'
    BY NeverPartial, PTL
  <2> QED BY <2>1 DEF SyncTrees
<1>2. CASE Sync
  BY <1>1, <1>2 DEF Sync, BootAloneNext, TreeChanges
<1>3. CASE WatcherStep \/ Environment
  BY <1>3, Zenon DEF WatcherStep, Environment, BootAloneNext
<1>4. CASE AgentRestart \/ GuestReboot
  BY <1>1, <1>4, Zenon DEF AgentRestart, GuestReboot, BootAloneNext
<1>5. CASE UNCHANGED vars
  BY <1>5 DEF vars
<1> QED BY <1>2, <1>3, <1>4, <1>5, Zenon DEF Next

\* The two together implement the watcher on its own, among any set of trees that
\* includes those without a half-written key.
THEOREM ImplementsWatcher == SyncTrees \subseteq Trees => (Spec => ImplementsBoot)
<1> SUFFICES ASSUME SyncTrees \subseteq Trees PROVE Spec => ImplementsBoot
  OBVIOUS
<1>1. Init => BootAloneInit
  BY InitHolds, NeverPartial DEF Init, BootAloneInit
<1>2. IInv /\ IInv' /\ [Next]_vars => [BootAloneNext]_<<tree, bootVars>>
  BY StepOfBoot
<1> QED BY <1>1, <1>2, Invariant, PTL DEF Spec, ImplementsBoot, BootAlone

\* The sentinel is touched only for a Config that was carried out and ends all
\* provisioning, also while the subscriber rewrites the tree the Config is read from.
THEOREM SystemSentinel ==
  SyncTrees \subseteq Trees => (Spec => []SentinelMeansProvisioned /\ NothingAfterSentinel)
<1> SUFFICES ASSUME SyncTrees \subseteq Trees
             PROVE  Spec => []SentinelMeansProvisioned /\ NothingAfterSentinel
  OBVIOUS
<1>1. Spec => BootAlone
  BY ImplementsWatcher DEF ImplementsBoot
<1> QED BY <1>1, SentinelSound, SentinelStops, PTL

\* The state of the watcher stays well formed also while the subscriber rewrites the
\* tree: no Config it reads holds half a value.
THEOREM SystemTypeCorrect == SyncTrees = Trees => (Spec => []BootTypeOK)
<1> SUFFICES ASSUME SyncTrees = Trees PROVE Spec => []BootTypeOK
  OBVIOUS
<1>1. WholeTrees
  BY DEF WholeTrees, SyncTrees
<1>2. Spec => BootAlone
  BY ImplementsWatcher DEF ImplementsBoot
<1> QED BY <1>1, <1>2, WatcherTypeCorrect, PTL
=============================================================================

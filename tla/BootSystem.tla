----------------------------- MODULE BootSystem -----------------------------
(***************************************************************************)
(* First-boot provisioning together with the properties subscriber that    *)
(* feeds it: both run in one agent process, share the property tree and    *)
(* fall with the process.  The host publishes whole PropertySets.          *)
(***************************************************************************)
EXTENDS Boot

CONSTANTS Nodes, Keys, TmpOf, TmpNodes, Order, Values, IOFaults,
          Published   \* the PropertySets the host publishes

VARIABLES pc, want, todo, last, prev    \* of PropertyTree

syncVars == <<pc, want, todo, last, prev>>
vars == <<tree, syncVars, bootVars>>

Props == INSTANCE PropertyTree

ASSUME PublishedAssumption == Published \subseteq Props!PropertySets
ASSUME TreeAssumption ==
  /\ Props!KeysAssumption /\ Props!AboveAssumption /\ Props!TmpAssumption
  /\ Props!OrderAssumption /\ Props!ValuesAssumption /\ Props!IOFaultsAssumption
\* The paths the watcher reads end in other ways than ".tmp".
ASSUME BootKeysAssumption == BootKeys \subseteq Nodes /\ BootKeys \cap TmpNodes = {}

\* What the watcher has to be ready for: no key of its own is half written.
SyncTrees == {t \in [Nodes -> Values \cup {"none", "dir", "partial"}] :
                \A k \in BootKeys : t[k] # "partial"}

Init == Props!Init /\ BootInit

\* main starts the watcher and the subscriber as independent goroutines.
Sync == /\ (\E ps \in Published : Props!Receive(ps)) \/ Props!Apply
        /\ UNCHANGED bootVars

WatcherStep == (Watch \/ Provision) /\ UNCHANGED syncVars

Environment == (DeadlinePasses \/ Shutdown) /\ UNCHANGED syncVars

\* The agent alone, or the whole guest with its tmpfs, goes down and is
\* started again.
AgentRestart == Props!Crash /\ RestartWatcher
GuestReboot  == Props!Reboot /\ RestartWatcher

Next == Sync \/ WatcherStep \/ Environment \/ AgentRestart \/ GuestReboot

Spec == Init /\ [][Next]_vars

\* The goroutines are scheduled; pulls and scripts end because their context
\* carries the watcher's timeout; time passes.
FairSpec == Spec /\ WF_vars(Sync /\ pc # "idle") /\ WF_vars(WatcherStep)
                 /\ WF_vars(DeadlinePasses /\ UNCHANGED syncVars)

\* The Config of a PropertySet, as ReadFromPropertiesDir would read it.
ConfigOf(ps) == [k \in BootKeys |-> IF k \in Keys THEN ps[k] ELSE Unset]

\* Whatever mixture of requests the watcher reads, each of its values is one
\* the host published for that key, complete: the write through a ".tmp" file
\* and a rename, against a reader that may come between any two steps of it.
ReadsPublishedValues ==
  \A k \in BootKeys : cfg[k] \in {Unset} \cup {ConfigOf(ps)[k] : ps \in Published}

\* The subscriber, its crashes and the reboots of the guest are an environment of
\* the kind the watcher was checked against on its own: every step of the two
\* together is a step of the watcher, or one in which the tree changes to one
\* without a half-written key.  What holds of Boot alone holds here.
ImplementsBoot == BootAlone

\* "runs the boot.Runner once the request lands" (watchAndRunBoot): the Config
\* handed to Run is one the host published, not a mixture of what the files
\* held while the subscriber was rewriting them.
RunsAsPublished ==
  (bpc = "run" /\ ~IsEmpty(cfg)) => cfg \in {ConfigOf(ps) : ps \in Published}
=============================================================================

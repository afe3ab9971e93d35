---------------------------- MODULE PropertyTree ----------------------------
(***************************************************************************)
(* The properties subscriber (pkg/properties) and the ApplyFunc that       *)
(* mirrors each published PropertySet onto a POSIX tree, one file per key  *)
(* (cmd/weft-microvm-agent/properties_linux.go).                           *)
(*                                                                         *)
(* NATS calls the handler for one message at a time; the interleaving that *)
(* matters is with readers of the tree, with a crash of the agent and with *)
(* I/O errors, so every file operation of an apply is a step.  A path is a *)
(* node; Above gives the directories it lies in, TmpOf the path + ".tmp"   *)
(* it is written through.                                                  *)
(***************************************************************************)
EXTENDS Naturals, FiniteSets, SequencesExt

CONSTANTS Nodes,     \* paths below the root that can come to exist
          Keys,      \* the paths of the keys that Validate accepts
          Above,     \* the proper ancestors of a node, root excluded
          TmpOf,     \* the path a key is written through
          TmpNodes,  \* the paths whose extension is ".tmp"
          Order,     \* the nodes in lexical order
          Values,    \* property values
          IOFaults   \* whether file operations may fail for outside reasons

ASSUME KeysAssumption ==
  /\ Keys \subseteq Nodes /\ TmpNodes \subseteq Nodes
  /\ IsFiniteSet(Nodes)
ASSUME AboveAssumption ==
  /\ Above \in [Nodes -> SUBSET Nodes]
  /\ \A n \in Nodes : n \notin Above[n] /\ \A m \in Above[n] : Above[m] \subseteq Above[n]
ASSUME TmpAssumption ==
  /\ TmpOf \in [Keys -> TmpNodes]
  /\ \A k \in Keys : TmpOf[k] # k /\ Above[TmpOf[k]] = Above[k]
ASSUME OrderAssumption == Order \in Seq(Nodes) /\ ToSet(Order) = Nodes
ASSUME IOFaultsAssumption == IOFaults \in BOOLEAN

\* What a path is when it is not a file with a complete value; None is also
\* the absence of a key from a PropertySet.
None    == "none"
Dir     == "dir"
Partial == "partial"     \* a file os.WriteFile has created and not yet filled
ASSUME ValuesAssumption == Values \cap {None, Dir, Partial} = {}

PropertySets == [Keys -> Values \cup {None}]
Empty        == [k \in Keys |-> None]
KeysOf(ps)   == {k \in Keys : ps[k] # None}

VARIABLES tree,   \* what each node is
          pc,     \* where the apply is
          want,   \* the set being applied, or the last one
          todo,   \* nodes still to be removed, or keys still to be written
          last,   \* how the last message ended
          prev    \* history: the set the tree held when this apply began

vars == <<tree, pc, want, todo, last, prev>>

TypeOK ==
  /\ tree \in [Nodes -> Values \cup {None, Dir, Partial}]
  /\ pc \in {"idle", "collect", "remove", "mkdir", "create", "fill", "rename", "prune"}
  /\ want \in PropertySets /\ prev \in PropertySets
  /\ todo \in SUBSET Nodes
  /\ last \in {"none", "ok", "unpruned", "failed", "crashed"}

Init ==
  /\ tree = [n \in Nodes |-> None]
  /\ pc = "idle" /\ want = Empty /\ prev = Empty /\ todo = {} /\ last = "none"

IsFile(n) == tree[n] \notin {None, Dir}

\* The element of S that comes first in lexical order.
First(S) == Order[CHOOSE i \in DOMAIN Order :
                    Order[i] \in S /\ \A j \in DOMAIN Order : Order[j] \in S => i <= j]

Key == First(todo)    \* the key being written

\* The last message was applied: the handler returned nil for it.
Applied == last \in {"ok", "unpruned"}

(***************************************************************************)
(* HandleMessage: decode, Validate, then the apply.  A message that cannot *)
(* be decoded or that Validate rejects is logged and changes nothing.      *)
(***************************************************************************)
Receive(ps) ==
  /\ pc = "idle"
  /\ pc' = "collect"
  /\ want' = ps
  /\ prev' = IF Applied THEN want ELSE Empty
  /\ UNCHANGED <<tree, todo, last>>

(***************************************************************************)
(* The steps of propertiesApplyer.                                         *)
(***************************************************************************)
\* Faulty variant: the keys that are wanted again are not kept.
CollectAll ==
  /\ pc = "collect"
  /\ todo' = {n \in Nodes : IsFile(n) /\ n \notin TmpNodes}
  /\ pc' = "remove"
  /\ UNCHANGED <<tree, want, last, prev>>

\* collectFiles skips ".tmp" files; files whose key is wanted are kept.
Collect ==
  /\ pc = "collect"
  /\ todo' = {n \in Nodes : IsFile(n) /\ n \notin TmpNodes} \ KeysOf(want)
  /\ pc' = "remove"
  /\ UNCHANGED <<tree, want, last, prev>>

RemoveStale ==
  /\ pc = "remove"
  /\ IF todo = {}
     THEN todo' = KeysOf(want) /\ pc' = "mkdir" /\ UNCHANGED tree
     ELSE /\ tree' = [tree EXCEPT ![First(todo)] = None]
          /\ todo' = todo \ {First(todo)}
          /\ UNCHANGED pc
  /\ UNCHANGED <<want, last, prev>>

\* The apply returns an error; nothing is rolled back.
Fail == pc' = "idle" /\ last' = "failed" /\ todo' = {} /\ prev' = Empty /\ UNCHANGED want

\* os.MkdirAll of the key's parent fails where an ancestor is a file.
MkdirParent ==
  /\ pc = "mkdir" /\ todo # {}
  /\ IF \E a \in Above[Key] : IsFile(a)
     THEN Fail /\ UNCHANGED tree
     ELSE /\ tree' = [n \in Nodes |-> IF n \in Above[Key] THEN Dir ELSE tree[n]]
          /\ pc' = "create"
          /\ UNCHANGED <<want, todo, last, prev>>

\* Faulty variant: the value is written to the key's own path.
CreateInPlace ==
  /\ pc = "create"
  /\ tree' = [tree EXCEPT ![Key] = Partial]
  /\ pc' = "fill"
  /\ UNCHANGED <<want, todo, last, prev>>

\* os.WriteFile of the temporary file: create or truncate, then fill.
CreateTmp ==
  /\ pc = "create"
  /\ IF tree[TmpOf[Key]] = Dir
     THEN Fail /\ UNCHANGED tree
     ELSE /\ tree' = [tree EXCEPT ![TmpOf[Key]] = Partial]
          /\ pc' = "fill"
          /\ UNCHANGED <<want, todo, last, prev>>

FillTmp ==
  /\ pc = "fill"
  /\ tree' = [tree EXCEPT ![TmpOf[Key]] = want[Key]]
  /\ pc' = "rename"
  /\ UNCHANGED <<want, todo, last, prev>>

\* os.Rename replaces a file but not a directory, even an empty one; when it
\* fails the temporary file is removed.
RenameTmp ==
  /\ pc = "rename"
  /\ IF tree[Key] = Dir
     THEN Fail /\ tree' = [tree EXCEPT ![TmpOf[Key]] = None]
     ELSE /\ tree' = [tree EXCEPT ![Key] = tree[TmpOf[Key]], ![TmpOf[Key]] = None]
          /\ todo' = todo \ {Key}
          /\ pc' = "mkdir"
          /\ UNCHANGED <<want, last, prev>>

WritesDone ==
  /\ pc = "mkdir" /\ todo = {}
  /\ pc' = "prune"
  /\ UNCHANGED <<tree, want, todo, last, prev>>

\* Faulty variant: the directories are pruned top-down, so that one whose
\* only content is an empty directory stays.
PruneTopDown ==
  /\ pc = "prune"
  /\ tree' = [n \in Nodes |->
                IF tree[n] = Dir /\ \A m \in Nodes : n \in Above[m] => tree[m] = None
                THEN None ELSE tree[n]]
  /\ pc' = "idle" /\ last' = "ok" /\ prev' = Empty
  /\ UNCHANGED <<want, todo>>

\* pruneEmptyDirs works bottom-up: what stays has a file somewhere below.
EmptyDirs == {n \in Nodes : tree[n] = Dir /\ ~ \E m \in Nodes : n \in Above[m] /\ IsFile(m)}

PruneEmptyDirs ==
  /\ pc = "prune"
  /\ tree' = [n \in Nodes |-> IF n \in EmptyDirs THEN None ELSE tree[n]]
  /\ pc' = "idle" /\ last' = "ok" /\ prev' = Empty
  /\ UNCHANGED <<want, todo>>

Apply == \/ Collect \/ RemoveStale \/ MkdirParent \/ CreateTmp \/ FillTmp
         \/ RenameTmp \/ WritesDone \/ PruneEmptyDirs

(***************************************************************************)
(* Failures.  Any file operation may fail: the disk is full, say.          *)
(* os.MkdirAll may have made the upper directories by then; a failing      *)
(* rename still removes the temporary file.  A crash of the agent leaves   *)
(* the tree as it is; the guest's reboot clears it (tmpfs).                *)
(***************************************************************************)
IOError ==
  /\ IOFaults
  /\ \/ pc \in {"collect", "create", "fill"} /\ UNCHANGED tree
     \/ pc \in {"remove", "mkdir"} /\ todo # {} /\ UNCHANGED tree
     \/ /\ pc = "mkdir" /\ todo # {} /\ ~ \E a \in Above[Key] : IsFile(a)
        /\ \E a \in Above[Key] :
             tree' = [n \in Nodes |-> IF n \in Above[a] THEN Dir ELSE tree[n]]
     \/ pc = "rename" /\ tree' = [tree EXCEPT ![TmpOf[Key]] = None]
  /\ Fail

\* Pruning is best effort: where it fails, the directory and those above it
\* stay, and the apply succeeds.
PruneIncomplete ==
  /\ IOFaults /\ pc = "prune"
  /\ \E stuck \in (SUBSET EmptyDirs) \ {{}} :
       tree' = [n \in Nodes |->
                  IF n \in EmptyDirs \ stuck /\ \A m \in stuck : n \notin Above[m]
                  THEN None ELSE tree[n]]
  /\ pc' = "idle" /\ last' = "unpruned" /\ prev' = Empty
  /\ UNCHANGED <<want, todo>>

Restart == pc' = "idle" /\ last' = "crashed" /\ todo' = {} /\ want' = Empty /\ prev' = Empty

Crash == Restart /\ UNCHANGED tree

Reboot == Restart /\ tree' = [n \in Nodes |-> None]

Next == (\E ps \in PropertySets : Receive(ps)) \/ Apply \/ IOError \/ PruneIncomplete
        \/ Crash \/ Reboot

Spec == Init /\ [][Next]_vars

-----------------------------------------------------------------------------
(***************************************************************************)
(* Properties.                                                             *)
(***************************************************************************)
\* After a successful apply the files, leftover ".tmp" files aside, are the
\* published set, whatever crashes, errors and earlier sets the tree went
\* through; the directories are those that hold a file, unless pruning failed.
AppliedTreeIsDesired ==
  (pc = "idle" /\ Applied) =>
    \A n \in Nodes \ TmpNodes :
      IF n \in KeysOf(want) THEN tree[n] = want[n]
      ELSE /\ ~IsFile(n)
           /\ last = "ok" => (tree[n] = Dir <=> \E m \in Nodes : n \in Above[m] /\ IsFile(m))

\* What a reader finds under a key: a value, or nothing.
Found(k) == IF IsFile(k) THEN tree[k] ELSE None

Replaced == INSTANCE ReplaceSet WITH
  Names  <- Keys \ TmpNodes,
  want   <- [k \in Keys \ TmpNodes |-> want[k]],
  have   <- [k \in Keys \ TmpNodes |-> Found(k)],
  base   <- [k \in Keys \ TmpNodes |-> prev[k]],
  lost   <- {},
  status <- CASE pc # "idle"                    -> "applying"
              [] pc = "idle" /\ Applied         -> "applied"
              [] pc = "idle" /\ last = "failed" -> "failed"
              [] OTHER                          -> "idle"

\* The tree implements "replace the whole set" for the readers of its files,
\* through I/O errors, crashes and reboots at every file operation: a key never
\* holds anything but its old value, its new value or nothing, and nothing only
\* if its value changes; a half-written file is never seen under a key; a key
\* whose value stays the same can be read throughout; and success is reported
\* only for a tree that is the published set.
ImplementsReplaceSet == Replaced!Spec

\* "The next publish from the host converges the tree": without outside I/O
\* errors no apply of a set of non-nested keys fails.
NextPublishConverges ==
  (pc = "idle" /\ \A k, l \in KeysOf(want) : k \notin Above[l]) => last # "failed"

\* "files that aren't in the desired set anymore are removed", for every key
\* that Validate accepts.
UndesiredFilesRemoved ==
  (pc = "idle" /\ Applied) => \A k \in Keys : IsFile(k) => k \in KeysOf(want)
=============================================================================

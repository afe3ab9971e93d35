------------------------- MODULE PropertyTreeProofs -------------------------
(***************************************************************************)
(* For every tree of nodes, every set of keys and values, and I/O errors,  *)
(* crashes and reboots at every step: a successful apply leaves the        *)
(* published tree, and the subscriber implements ReplaceSet.               *)
(***************************************************************************)
EXTENDS PropertyTree, WellFoundedInduction, TLAPS

\* What exists lies in directories.
Shape == \A m \in Nodes : tree[m] # None => \A a \in Above[m] : tree[a] = Dir

\* What is left to do, at each step of an apply.
TodoInv ==
  /\ pc \in {"idle", "collect", "prune"} => todo = {}
  /\ pc = "remove" => todo \subseteq Nodes \ (TmpNodes \cup KeysOf(want)) /\ \A n \in todo : IsFile(n)
  /\ pc \in {"mkdir", "create", "fill", "rename"} => todo \subseteq KeysOf(want)
  /\ pc \in {"create", "fill", "rename"} => todo # {} /\ \A a \in Above[Key] : tree[a] = Dir
  /\ pc = "fill" => tree[TmpOf[Key]] = Partial
  /\ pc = "rename" => tree[TmpOf[Key]] = want[Key]

\* What is done: stale files are gone, or about to go; a key that is no longer
\* to be written has its value; a key whose value stays has had it throughout.
DoneInv ==
  /\ pc = "remove" => \A n \in Nodes \ TmpNodes : IsFile(n) => n \in todo \cup KeysOf(want)
  /\ pc \in {"mkdir", "create", "fill", "rename", "prune"} =>
       /\ \A n \in Nodes \ TmpNodes : IsFile(n) => n \in KeysOf(want)
       /\ \A k \in KeysOf(want) \ (todo \cup TmpNodes) : tree[k] = want[k]
  /\ pc # "idle" => \A k \in Keys \ TmpNodes : prev[k] = want[k] /\ want[k] # None => tree[k] = want[k]

IInv == TypeOK /\ Shape /\ TodoInv /\ DoneInv /\ AppliedTreeIsDesired

\* First picks an element of the set.
LEMMA FirstIn == ASSUME NEW S \in SUBSET Nodes, S # {} PROVE First(S) \in S
<1> DEFINE T == {i \in DOMAIN Order : Order[i] \in S}
           R == {p \in Nat \X Nat : p[1] < p[2]}
<1>1. DOMAIN Order \subseteq Nat /\ \A n \in Nodes : \E i \in DOMAIN Order : Order[i] = n
  BY OrderAssumption DEF ToSet
<1>2. T \subseteq Nat /\ T # {}
  BY <1>1
<1>3. IsWellFoundedOn(R, Nat)
  BY NatLessThanWellFounded, Zenon DEF OpToRel
<1> HIDE DEF R, T
<1>4. PICK i \in T : \A j \in T : <<j, i>> \notin R
  BY <1>2, <1>3, WFMin, Zenon
<1>5. ASSUME NEW j \in T PROVE i <= j
  <2>1. <<j, i>> \in Nat \X Nat /\ <<j, i>> \notin R
    BY <1>2, <1>4
  <2> QED BY <2>1, <1>2 DEF R
<1>6. \E x \in DOMAIN Order : Order[x] \in S /\ \A j \in DOMAIN Order : Order[j] \in S => x <= j
  BY <1>5 DEF T
<1> QED BY <1>6 DEF First

\* Nothing, a directory, a half-written file and a value are four things.
LEMMA Distinct ==
  /\ None # Dir /\ None # Partial /\ Dir # Partial
  /\ \A v \in Values : v # None /\ v # Dir /\ v # Partial
  BY ValuesAssumption DEF None, Dir, Partial

LEMMA InitHolds == Init => IInv
<1> SUFFICES ASSUME Init PROVE IInv
  OBVIOUS
<1> USE Distinct DEF Init
<1>1. TypeOK
  BY DEF TypeOK, PropertySets, Empty
<1>2. Shape /\ TodoInv /\ DoneInv /\ AppliedTreeIsDesired
  BY DEF Shape, TodoInv, DoneInv, AppliedTreeIsDesired, Applied, IsFile
<1> QED BY <1>1, <1>2 DEF IInv

\* Each step of an apply, each failure and each restart.
LEMMA StepPreserves == IInv /\ [Next]_vars => IInv'
<1> SUFFICES ASSUME IInv, [Next]_vars PROVE IInv'
  OBVIOUS
<1> USE Distinct, KeysAssumption, AboveAssumption, TmpAssumption
<1> USE DEF IInv, TypeOK, PropertySets, KeysOf, IsFile
<1>0. /\ pc = "remove" /\ todo # {} => First(todo) \in todo
      /\ pc \in {"mkdir", "create", "fill", "rename"} /\ todo # {} =>
           /\ Key \in todo /\ Key \in Keys /\ want[Key] \in Values
           /\ TmpOf[Key] \in TmpNodes /\ TmpOf[Key] # Key /\ Above[TmpOf[Key]] = Above[Key]
           /\ Above[Key] \subseteq Nodes
  BY FirstIn DEF TodoInv, Key
<1>f. ASSUME Fail, tree' \in [Nodes -> Values \cup {None, Dir, Partial}], Shape' PROVE IInv'
  BY <1>f DEF Fail, Empty, TodoInv, DoneInv, AppliedTreeIsDesired, Applied
<1>1. ASSUME NEW ps \in PropertySets, Receive(ps) PROVE IInv'
  <2> USE <1>1 DEF Receive
  <2>1. TypeOK' /\ Shape'
    BY DEF Shape, Empty
  <2>2. TodoInv' /\ DoneInv' /\ AppliedTreeIsDesired'
    BY DEF TodoInv, DoneInv, AppliedTreeIsDesired, Applied, Empty
  <2> QED BY <2>1, <2>2
<1>2. CASE Collect
  <2> USE <1>2 DEF Collect
  <2>1. TypeOK' /\ Shape'
    BY DEF Shape
  <2>2. TodoInv' /\ DoneInv' /\ AppliedTreeIsDesired'
    BY DEF TodoInv, DoneInv, AppliedTreeIsDesired
  <2> QED BY <2>1, <2>2
<1>3. CASE RemoveStale
  <2>1. CASE todo = {}
    <3> USE <1>3, <2>1 DEF RemoveStale
    <3>1. TypeOK' /\ Shape'
      BY DEF Shape
    <3>2. TodoInv' /\ DoneInv' /\ AppliedTreeIsDesired'
      BY DEF TodoInv, DoneInv, AppliedTreeIsDesired
    <3> QED BY <3>1, <3>2
  <2>2. CASE todo # {}
    <3> DEFINE n == First(todo)
    <3>1. /\ n \in todo /\ n \in Nodes \ (TmpNodes \cup KeysOf(want)) /\ tree[n] \notin {None, Dir}
          /\ pc = "remove" /\ pc' = pc /\ todo' = todo \ {n} /\ tree' = [tree EXCEPT ![n] = None]
          /\ UNCHANGED <<want, last, prev>>
      BY <1>0, <1>3, <2>2 DEF RemoveStale, TodoInv
    <3> HIDE DEF n
    <3>2. TypeOK' /\ Shape'
      BY <3>1 DEF Shape
    <3>3. TodoInv' /\ DoneInv' /\ AppliedTreeIsDesired'
      BY <3>1 DEF TodoInv, DoneInv, AppliedTreeIsDesired
    <3> QED BY <3>2, <3>3
  <2> QED BY <2>1, <2>2
<1>4. CASE MkdirParent
  <2>1. CASE \E a \in Above[Key] : IsFile(a)
    BY <1>4, <1>f, <2>1 DEF MkdirParent, Shape
  <2>2. CASE ~ \E a \in Above[Key] : IsFile(a)
    <3> DEFINE up == Above[Key]
    <3>1. /\ up \subseteq Nodes /\ Key \notin up
          /\ \A a \in up : Above[a] \subseteq up /\ tree[a] \in {None, Dir}
          /\ pc = "mkdir" /\ pc' = "create" /\ todo # {}
          /\ tree' = [n \in Nodes |-> IF n \in up THEN Dir ELSE tree[n]]
          /\ UNCHANGED <<want, todo, last, prev>>
      BY <1>0, <1>4, <2>2 DEF MkdirParent
    <3>2. TypeOK' /\ Shape'
      BY <3>1 DEF Shape
    <3>3. TodoInv'
      BY <3>1, <1>0 DEF TodoInv, Key
    <3> HIDE DEF up
    <3>4. DoneInv' /\ AppliedTreeIsDesired'
      BY <3>1 DEF DoneInv, AppliedTreeIsDesired
    <3> QED BY <3>2, <3>3, <3>4
  <2> QED BY <2>1, <2>2
<1>5. CASE CreateTmp
  <2>1. CASE tree[TmpOf[Key]] = Dir
    BY <1>5, <1>f, <2>1 DEF CreateTmp, Shape
  <2>2. CASE tree[TmpOf[Key]] # Dir
    <3> DEFINE t == TmpOf[Key]
    <3>1. /\ t \in TmpNodes /\ Above[t] = Above[Key] /\ tree[t] # Dir
          /\ \A a \in Above[Key] : tree[a] = Dir
          /\ pc = "create" /\ pc' = "fill" /\ todo # {}
          /\ tree' = [tree EXCEPT ![t] = Partial]
          /\ UNCHANGED <<want, todo, last, prev>>
      BY <1>0, <1>5, <2>2 DEF CreateTmp, TodoInv
    <3>2. TodoInv'
      BY <3>1, <1>0 DEF TodoInv, Key
    <3> HIDE DEF t
    <3>3. TypeOK' /\ Shape'
      BY <3>1, <1>0 DEF Shape
    <3>4. DoneInv' /\ AppliedTreeIsDesired'
      BY <3>1 DEF DoneInv, AppliedTreeIsDesired
    <3> QED BY <3>2, <3>3, <3>4
  <2> QED BY <2>1, <2>2
<1>6. CASE FillTmp
  <2> DEFINE t == TmpOf[Key]
  <2>1. /\ t \in TmpNodes /\ Above[t] = Above[Key] /\ tree[t] = Partial
        /\ \A a \in Above[Key] : tree[a] = Dir
        /\ pc = "fill" /\ pc' = "rename" /\ todo # {} /\ want[Key] \in Values
        /\ tree' = [tree EXCEPT ![t] = want[Key]]
        /\ UNCHANGED <<want, todo, last, prev>>
    BY <1>0, <1>6 DEF FillTmp, TodoInv
  <2>2. TodoInv'
    BY <2>1, <1>0 DEF TodoInv, Key
  <2> HIDE DEF t
  <2>3. TypeOK' /\ Shape'
    BY <2>1, <1>0 DEF Shape
  <2>4. DoneInv' /\ AppliedTreeIsDesired'
    BY <2>1 DEF DoneInv, AppliedTreeIsDesired
  <2> QED BY <2>2, <2>3, <2>4
\* A rename that fails removes the temporary file.
<1>g. ASSUME pc = "rename", Fail, tree' = [tree EXCEPT ![TmpOf[Key]] = None] PROVE IInv'
  <2>1. /\ TmpOf[Key] \in Nodes /\ tree[TmpOf[Key]] \notin {None, Dir}
    BY <1>0, <1>g DEF TodoInv
  <2>2. tree' \in [Nodes -> Values \cup {None, Dir, Partial}] /\ Shape'
    BY <1>g, <2>1 DEF Shape
  <2> QED BY <1>f, <1>g, <2>2
<1>7. CASE RenameTmp
  <2>1. CASE tree[Key] = Dir
    BY <1>7, <1>g, <2>1 DEF RenameTmp
  <2>2. CASE tree[Key] # Dir
    <3> DEFINE t == TmpOf[Key]
               k == Key
    <3>1. /\ k \in todo /\ k \in Keys /\ t \in TmpNodes /\ t # k /\ Above[t] = Above[k]
          /\ tree[t] = want[k] /\ want[k] \in Values /\ tree[k] # Dir
          /\ \A a \in Above[k] : tree[a] = Dir
          /\ pc = "rename" /\ pc' = "mkdir" /\ todo' = todo \ {k}
          /\ tree' = [tree EXCEPT ![k] = tree[t], ![t] = None]
          /\ UNCHANGED <<want, last, prev>>
      BY <1>0, <1>7, <2>2 DEF RenameTmp, TodoInv
    <3> HIDE DEF t, k
    <3>2. TypeOK' /\ Shape'
      BY <3>1 DEF Shape
    <3>3. TodoInv'
      BY <3>1 DEF TodoInv
    <3>4. DoneInv' /\ AppliedTreeIsDesired'
      BY <3>1 DEF DoneInv, AppliedTreeIsDesired
    <3> QED BY <3>2, <3>3, <3>4
  <2> QED BY <2>1, <2>2
<1>8. CASE WritesDone
  <2> USE <1>8 DEF WritesDone
  <2>1. TypeOK' /\ Shape' /\ TodoInv'
    BY DEF Shape, TodoInv
  <2>2. DoneInv' /\ AppliedTreeIsDesired'
    BY DEF DoneInv, AppliedTreeIsDesired
  <2> QED BY <2>1, <2>2
\* Pruning, complete or not: gone are directories with no file below, each with
\* everything below it.
<1>h. ASSUME NEW gone \in SUBSET EmptyDirs,
             \A n \in gone : \A m \in EmptyDirs : n \in Above[m] => m \in gone,
             pc = "prune", pc' = "idle", last' \in {"ok", "unpruned"},
             last' = "ok" => gone = EmptyDirs,
             tree' = [n \in Nodes |-> IF n \in gone THEN None ELSE tree[n]],
             prev' = Empty, UNCHANGED <<want, todo>>
      PROVE  IInv'
  <2> USE <1>h
  <2>1. \A n \in gone : n \in Nodes /\ tree[n] = Dir /\ \A m \in Nodes : n \in Above[m] => ~IsFile(m)
    BY DEF EmptyDirs
  <2>2. \A n \in Nodes : (tree'[n] = tree[n] \/ (tree[n] = Dir /\ tree'[n] = None)) /\ (IsFile(n)' <=> IsFile(n))
    BY <2>1
  <2>3. TypeOK'
    BY <2>2 DEF Empty
  <2>4. Shape'
    <3> SUFFICES ASSUME NEW m \in Nodes, tree'[m] # None, NEW a \in Above[m] PROVE tree'[a] = Dir
      BY Zenon DEF Shape
    <3>1. tree[m] # None /\ tree[a] = Dir /\ a \in Nodes
      BY <2>2 DEF Shape
    <3>2. ASSUME a \in gone PROVE FALSE
      <4>1. tree[m] = Dir /\ m \notin EmptyDirs
        BY <2>1, <3>1, <3>2
      <4>2. PICK f \in Nodes : m \in Above[f] /\ IsFile(f)
        BY <4>1 DEF EmptyDirs
      <4>3. a \in Above[f]
        BY <4>2
      <4> QED BY <2>1, <3>2, <4>2, <4>3
    <3> QED BY <3>1, <3>2
  <2>5. TodoInv' /\ DoneInv'
    BY DEF TodoInv, DoneInv
  <2>6. AppliedTreeIsDesired'
    <3> SUFFICES ASSUME NEW n \in Nodes \ TmpNodes
                 PROVE  IF n \in KeysOf(want) THEN tree'[n] = want[n]
                        ELSE /\ ~IsFile(n)'
                             /\ last' = "ok" => (tree'[n] = Dir <=> \E m \in Nodes : n \in Above[m] /\ IsFile(m)')
      BY DEF AppliedTreeIsDesired
    <3>1. CASE n \in KeysOf(want)
      <4>1. todo = {} /\ tree[n] = want[n] /\ want[n] \in Values
        BY <3>1 DEF TodoInv, DoneInv
      <4> QED BY <2>2, <3>1, <4>1
    <3>2. CASE n \notin KeysOf(want)
      <4>1. ~IsFile(n) /\ ~IsFile(n)'
        BY <2>2, <3>2 DEF DoneInv
      <4>2. ASSUME NEW m \in Nodes, n \in Above[m], IsFile(m)' PROVE tree'[n] = Dir
        BY <2>4, <4>2 DEF Shape
      <4>3. ASSUME last' = "ok", tree'[n] = Dir PROVE \E m \in Nodes : n \in Above[m] /\ IsFile(m)'
        <5>1. tree[n] = Dir /\ n \notin EmptyDirs
          BY <2>2, <4>3
        <5>2. PICK m \in Nodes : n \in Above[m] /\ IsFile(m)
          BY <5>1 DEF EmptyDirs
        <5> QED BY <2>2, <5>2
      <4> QED BY <3>2, <4>1, <4>2, <4>3
    <3> QED BY <3>1, <3>2
  <2> QED BY <2>3, <2>4, <2>5, <2>6
<1>9. CASE PruneEmptyDirs
  BY <1>9, <1>h DEF PruneEmptyDirs
<1>10. CASE PruneIncomplete
  <2>1. PICK stuck \in SUBSET EmptyDirs :
          tree' = [n \in Nodes |-> IF n \in EmptyDirs \ stuck /\ \A m \in stuck : n \notin Above[m]
                                  THEN None ELSE tree[n]]
    BY <1>10, Zenon DEF PruneIncomplete
  <2> DEFINE gone == {n \in EmptyDirs : n \notin stuck /\ \A m \in stuck : n \notin Above[m]}
  <2>2. \A n \in gone : \A m \in EmptyDirs : n \in Above[m] => m \in gone
    BY DEF EmptyDirs
  <2>3. tree' = [n \in Nodes |-> IF n \in gone THEN None ELSE tree[n]]
    BY <2>1
  <2> HIDE DEF gone
  <2>4. gone \in SUBSET EmptyDirs
    BY DEF gone
  <2> QED BY <1>h, <1>10, <2>2, <2>3, <2>4, Zenon DEF PruneIncomplete
<1>11. CASE IOError
  <2>1. CASE UNCHANGED tree
    <3>1. Fail
      BY <1>11 DEF IOError
    <3>2. tree' \in [Nodes -> Values \cup {None, Dir, Partial}] /\ Shape'
      BY <2>1 DEF Shape
    <3> QED BY <1>f, <3>1, <3>2
  <2>2. CASE /\ pc = "mkdir" /\ todo # {} /\ ~ \E a \in Above[Key] : IsFile(a)
             /\ \E a \in Above[Key] :
                  tree' = [n \in Nodes |-> IF n \in Above[a] THEN Dir ELSE tree[n]]
    <3>1. PICK a \in Above[Key] : tree' = [n \in Nodes |-> IF n \in Above[a] THEN Dir ELSE tree[n]]
      BY <2>2
    <3>2. a \in Nodes /\ \A b \in Above[a] : b \in Nodes /\ Above[b] \subseteq Above[a]
      BY <1>0, <2>2
    <3>3. tree' \in [Nodes -> Values \cup {None, Dir, Partial}] /\ Shape'
      BY <3>1, <3>2 DEF Shape
    <3> QED BY <1>11, <1>f, <3>3 DEF IOError
  <2>3. CASE pc = "rename" /\ tree' = [tree EXCEPT ![TmpOf[Key]] = None]
    BY <1>11, <1>g, <2>3 DEF IOError
  <2> QED BY <1>11, <2>1, <2>2, <2>3 DEF IOError
<1>12. CASE Crash \/ Reboot
  <2>1. TypeOK' /\ Shape'
    BY <1>12 DEF Crash, Reboot, Restart, Empty, Shape
  <2>2. TodoInv' /\ DoneInv' /\ AppliedTreeIsDesired'
    BY <1>12 DEF Crash, Reboot, Restart, TodoInv, DoneInv, AppliedTreeIsDesired, Applied
  <2> QED BY <2>1, <2>2
<1>13. CASE UNCHANGED vars
  <2> USE <1>13 DEF vars
  <2>1. TypeOK' /\ Shape' /\ TodoInv'
    BY DEF Shape, TodoInv, Key
  <2>2. DoneInv' /\ AppliedTreeIsDesired'
    BY DEF DoneInv, AppliedTreeIsDesired, Applied
  <2> QED BY <2>1, <2>2
<1> QED BY <1>1, <1>2, <1>3, <1>4, <1>5, <1>6, <1>7, <1>8, <1>9, <1>10, <1>11, <1>12, <1>13, Zenon
        DEF Next, Apply

LEMMA Invariant == Spec => []IInv
<1> QED BY InitHolds, StepPreserves, PTL DEF Spec

\* Types: every node of the tree is absent, a directory, half written or a value of
\* the published sets, and the work list of an apply stays within the tree.
THEOREM TypeCorrect == Spec => []TypeOK
<1>1. IInv => TypeOK
  BY DEF IInv
<1> QED BY <1>1, Invariant, PTL

\* What an apply that succeeded left behind is the published set and nothing else
\* (temporary files aside), whatever errors, crashes and reboots came before: for
\* every set of paths, keys and values.
THEOREM AppliedIsDesired == Spec => []AppliedTreeIsDesired
<1>1. IInv => AppliedTreeIsDesired
  BY DEF IInv
<1> QED BY <1>1, Invariant, PTL

\* A path that is not a temporary one only becomes a directory, nothing, or the
\* key's value in the set being applied.
LEMMA NodeWrites ==
  ASSUME IInv, [Next]_vars, NEW n \in Nodes \ TmpNodes
  PROVE  tree'[n] \in {tree[n], None, Dir} \/ (n \in KeysOf(want) /\ tree'[n] = want[n])
<1> USE KeysAssumption, TmpAssumption DEF IInv, TypeOK, KeysOf
<1>0. pc \in {"create", "fill", "rename"} =>
        Key \in Keys /\ Key \in todo /\ want[Key] # None /\ TmpOf[Key] \in TmpNodes
  BY FirstIn DEF TodoInv, Key
<1>1. CASE UNCHANGED tree
  BY <1>1
<1>2. CASE RemoveStale
  BY <1>2 DEF RemoveStale
<1>3. CASE MkdirParent
  BY <1>3 DEF MkdirParent
<1>4. CASE CreateTmp \/ FillTmp
  BY <1>0, <1>4 DEF CreateTmp, FillTmp
<1>5. CASE RenameTmp
  BY <1>0, <1>5 DEF RenameTmp, TodoInv
<1>6. CASE PruneEmptyDirs \/ PruneIncomplete
  BY <1>6 DEF PruneEmptyDirs, PruneIncomplete
<1>7. CASE IOError
  BY <1>0, <1>7 DEF IOError
<1>8. CASE Reboot
  BY <1>8 DEF Reboot
<1>9. CASE (\E ps \in PropertySets : Receive(ps)) \/ Collect \/ WritesDone \/ Crash \/ UNCHANGED vars
  BY <1>1, <1>9 DEF Receive, Collect, WritesDone, Crash, vars
<1> QED BY <1>2, <1>3, <1>4, <1>5, <1>6, <1>7, <1>8, <1>9, Zenon DEF Next, Apply

-----------------------------------------------------------------------------
(***************************************************************************)
(* The refinement.                                                         *)
(***************************************************************************)
Names == Keys \ TmpNodes

\* The variables of ReplaceSet, as Replaced gives them.
AbsWant   == [k \in Names |-> want[k]]
AbsHave   == [k \in Names |-> Found(k)]
AbsBase   == [k \in Names |-> prev[k]]
AbsStatus == CASE pc # "idle"                    -> "applying"
               [] pc = "idle" /\ Applied         -> "applied"
               [] pc = "idle" /\ last = "failed" -> "failed"
               [] OTHER                          -> "idle"

LEMMA StatusIs ==
  /\ pc # "idle" => AbsStatus = "applying"
  /\ pc = "idle" /\ Applied => AbsStatus = "applied"
  /\ pc = "idle" /\ last = "failed" => AbsStatus = "failed"
  /\ pc = "idle" /\ last \in {"none", "crashed"} => AbsStatus = "idle"
  BY DEF AbsStatus, Applied

LEMMA StatusWillBe ==
  /\ pc' # "idle" => AbsStatus' = "applying"
  /\ pc' = "idle" /\ last' \in {"ok", "unpruned"} => AbsStatus' = "applied"
  /\ pc' = "idle" /\ last' = "failed" => AbsStatus' = "failed"
  /\ pc' = "idle" /\ last' \in {"none", "crashed"} => AbsStatus' = "idle"
  BY DEF AbsStatus, Applied

\* The tree starts empty.
LEMMA InitImplements == Init => Replaced!Init
<1> SUFFICES ASSUME Init PROVE Replaced!Init
  OBVIOUS
<1>1. AbsStatus = "idle"
  BY StatusIs DEF Init
<1>2. AbsWant = Replaced!Empty /\ AbsBase = Replaced!Empty /\ AbsHave \in Replaced!Sets
  BY KeysAssumption DEF Init, Empty, AbsWant, AbsBase, AbsHave, Found, IsFile, Replaced!Empty, Replaced!Sets, Names
<1> QED BY <1>1, <1>2 DEF Replaced!Init, AbsStatus, AbsWant, AbsBase, AbsHave, Names

\* Steps that change neither the want, nor what is found, nor the status.
LEMMA Stutters ==
  ASSUME pc # "idle", pc' # "idle", UNCHANGED <<want, prev>>, UNCHANGED AbsHave
  PROVE  UNCHANGED Replaced!vars
<1>1. AbsStatus' = AbsStatus /\ AbsWant' = AbsWant /\ AbsBase' = AbsBase
  BY StatusIs, StatusWillBe DEF AbsWant, AbsBase
<1> QED BY <1>1 DEF Replaced!vars, AbsStatus, AbsWant, AbsBase, AbsHave, Names

\* Receiving a set is accepting it.
LEMMA ReceiveImplements ==
  ASSUME IInv, NEW ps \in PropertySets, Receive(ps) PROVE Replaced!Accept
<1>1. AbsStatus \notin {"applying", "failing"} /\ AbsStatus' = "applying"
  BY StatusIs, StatusWillBe DEF IInv, TypeOK, Receive, Applied
<1>2. AbsBase' = IF AbsStatus = "applied" THEN AbsWant ELSE Replaced!Empty
  <2>1. AbsStatus = "applied" <=> Applied
    BY StatusIs DEF IInv, TypeOK, Receive, Applied
  <2>2. \A k \in Names : k \in Keys
    BY DEF Names
  <2> QED BY <2>1, <2>2 DEF Receive, AbsBase, AbsWant, Replaced!Empty, Empty, Names
<1>3. AbsWant' \in Replaced!Sets /\ AbsHave' = AbsHave
  BY DEF Receive, AbsWant, AbsHave, Found, IsFile, Replaced!Sets, PropertySets, Names
<1> QED BY <1>1, <1>2, <1>3 DEF Replaced!Accept, Replaced!Busy, AbsStatus, AbsWant, AbsBase, AbsHave, Names

\* One name gets its value or goes, or what is found stays as it is.
LEMMA ReplaceImplements ==
  ASSUME pc # "idle", pc' # "idle", UNCHANGED <<want, prev>>,
         NEW n \in Names, ~(prev[n] = want[n] /\ want[n] # None),
         NEW v \in {None, want[n]}, AbsHave' = [AbsHave EXCEPT ![n] = v]
  PROVE  Replaced!Next
<1>1. AbsStatus' = AbsStatus /\ AbsStatus = "applying" /\ AbsWant' = AbsWant /\ AbsBase' = AbsBase
  BY StatusIs, StatusWillBe DEF AbsWant, AbsBase
<1>2. AbsWant[n] = want[n] /\ AbsBase[n] = prev[n]
  BY DEF AbsWant, AbsBase
<1>3. Replaced!Replace(n)
  BY <1>1, <1>2, Zenon DEF Replaced!Replace, Replaced!Busy, Replaced!Kept, AbsStatus, AbsWant, AbsBase, AbsHave, Names
<1> QED BY <1>3 DEF Replaced!Next, Names

\* A failed apply, wherever it fails.
LEMMA FailImplements ==
  ASSUME pc # "idle", Fail, UNCHANGED AbsHave PROVE Replaced!Fail
<1>1. AbsStatus = "applying" /\ AbsStatus' = "failed" /\ AbsWant' = AbsWant
  BY StatusIs, StatusWillBe DEF Fail, AbsWant
<1>2. AbsBase' = Replaced!Empty
  BY DEF Fail, Empty, AbsBase, Replaced!Empty, Names
<1> QED BY <1>1, <1>2 DEF Replaced!Fail, Replaced!Busy, AbsStatus, AbsWant, AbsBase, AbsHave, Names

\* A successful apply, with or without all the pruning.
LEMMA SucceedImplements ==
  ASSUME IInv, pc = "prune", pc' = "idle", last' \in {"ok", "unpruned"}, prev' = Empty,
         UNCHANGED <<want, AbsHave>>
  PROVE  Replaced!Succeed
<1>1. AbsStatus = "applying" /\ AbsStatus' = "applied" /\ AbsWant' = AbsWant
  BY StatusIs, StatusWillBe DEF AbsWant
<1>2. AbsBase' = Replaced!Empty
  BY DEF Empty, AbsBase, Replaced!Empty, Names
<1>3. \A n \in Names : AbsHave[n] = AbsWant[n]
  <2> SUFFICES ASSUME NEW n \in Names PROVE Found(n) = want[n]
    BY DEF AbsHave, AbsWant
  <2>1. todo = {} /\ n \in Keys /\ n \in Nodes \ TmpNodes
    BY KeysAssumption DEF Names, IInv, TodoInv
  <2>2. CASE want[n] = None
    BY <2>1, <2>2 DEF IInv, DoneInv, KeysOf, Found
  <2>3. CASE want[n] # None
    <3>1. tree[n] = want[n] /\ want[n] \in Values
      BY <2>1, <2>3 DEF IInv, DoneInv, KeysOf, TypeOK, PropertySets
    <3> QED BY <3>1, Distinct DEF Found, IsFile
  <2> QED BY <2>2, <2>3
<1> QED BY <1>1, <1>2, <1>3 DEF Replaced!Succeed, AbsStatus, AbsWant, AbsBase, AbsHave, Names

\* The agent goes down, alone or with the guest.
LEMMA RestartImplements ==
  ASSUME Crash \/ Reboot PROVE Replaced!Restart
<1>1. AbsStatus' = "idle"
  BY StatusWillBe DEF Crash, Reboot, Restart
<1>2. AbsWant' = Replaced!Empty /\ AbsBase' = Replaced!Empty
  BY DEF Crash, Reboot, Restart, Empty, AbsWant, AbsBase, Replaced!Empty, Names
<1>3. AbsHave' \in {AbsHave, Replaced!Empty}
  <2>1. CASE Crash
    BY <2>1 DEF Crash, AbsHave, Found, IsFile
  <2>2. CASE Reboot
    <3>1. \A n \in Names : Found(n)' = None
      BY <2>2, KeysAssumption DEF Reboot, Found, IsFile, Names
    <3> QED BY <3>1 DEF AbsHave, Replaced!Empty, Names
  <2> QED BY <2>1, <2>2
<1> QED BY <1>1, <1>2, <1>3 DEF Replaced!Restart, AbsStatus, AbsWant, AbsBase, AbsHave, Names

\* Each step is a step of ReplaceSet, or one it does not see.
LEMMA StepImplements == IInv /\ [Next]_vars => [Replaced!Next]_(Replaced!vars)
<1> SUFFICES ASSUME IInv, [Next]_vars PROVE Replaced!Next \/ UNCHANGED Replaced!vars
  OBVIOUS
<1> USE Distinct, KeysAssumption, TmpAssumption
\* Changes of nodes that are no names, or that are no files and become none.
<1>0. ASSUME \A n \in Names : tree'[n] = tree[n] \/ (tree[n] \in {None, Dir} /\ tree'[n] \in {None, Dir})
      PROVE  UNCHANGED AbsHave
  BY <1>0 DEF AbsHave, Found, IsFile
<1>k. pc \in {"mkdir", "create", "fill", "rename"} /\ todo # {} =>
        /\ Key \in todo /\ Key \in Keys /\ want[Key] \in Values
        /\ TmpOf[Key] \in TmpNodes /\ TmpOf[Key] # Key
  BY FirstIn DEF IInv, TypeOK, TodoInv, Key, KeysOf, PropertySets
<1>r. pc \in {"create", "fill", "rename"} => todo # {}
  BY DEF IInv, TodoInv
<1>1. ASSUME NEW ps \in PropertySets, Receive(ps) PROVE Replaced!Next
  BY <1>1, ReceiveImplements DEF Replaced!Next
<1>2. CASE Collect \/ WritesDone
  <2>1. UNCHANGED AbsHave
    BY <1>0, <1>2 DEF Collect, WritesDone
  <2> QED BY <1>2, <2>1, Stutters DEF Collect, WritesDone
<1>3. CASE RemoveStale
  <2>1. CASE todo = {}
    <3>1. UNCHANGED AbsHave
      BY <1>0, <1>3, <2>1 DEF RemoveStale
    <3> QED BY <1>3, <2>1, <3>1, Stutters DEF RemoveStale
  <2>2. CASE todo # {}
    <3> DEFINE n == First(todo)
    <3>1. n \in Nodes \ (TmpNodes \cup KeysOf(want)) /\ pc = "remove" /\ pc' = pc
          /\ tree' = [tree EXCEPT ![n] = None] /\ UNCHANGED <<want, prev>>
      BY <1>3, <2>2, FirstIn DEF IInv, TypeOK, TodoInv, RemoveStale
    <3> HIDE DEF n
    <3>2. CASE n \in Names
      <4>1. want[n] = None
        BY <3>1, <3>2 DEF KeysOf, Names
      <4>2. AbsHave' = [AbsHave EXCEPT ![n] = None]
        BY <3>1, <3>2, Zenon DEF AbsHave, Found, IsFile, IInv, TypeOK, Names
      <4> QED BY <3>1, <3>2, <4>1, <4>2, ReplaceImplements, Zenon
    <3>3. CASE n \notin Names
      <4>1. UNCHANGED AbsHave
        BY <1>0, <3>1, <3>3 DEF Names, IInv, TypeOK
      <4> QED BY <3>1, <4>1, Stutters
    <3> QED BY <3>2, <3>3
  <2> QED BY <2>1, <2>2
<1>4. CASE MkdirParent
  <2>1. \A n \in Names : tree'[n] = tree[n] \/ (tree[n] \in {None, Dir} /\ tree'[n] \in {None, Dir})
    BY <1>4 DEF MkdirParent, IsFile, Names
  <2>2. UNCHANGED AbsHave
    BY <1>0, <2>1
  <2>3. Replaced!Fail \/ UNCHANGED Replaced!vars
    BY <1>4, <2>2, Stutters, FailImplements DEF MkdirParent
  <2> QED BY <2>3 DEF Replaced!Next
<1>5. CASE CreateTmp \/ FillTmp
  <2>1. UNCHANGED AbsHave
    BY <1>0, <1>5, <1>k, <1>r DEF CreateTmp, FillTmp, Names, IInv, TypeOK
  <2>2. Replaced!Fail \/ UNCHANGED Replaced!vars
    BY <1>5, <2>1, Stutters, FailImplements DEF CreateTmp, FillTmp
  <2> QED BY <2>2 DEF Replaced!Next
<1>f. ASSUME pc = "rename", Fail, tree' = [tree EXCEPT ![TmpOf[Key]] = None] PROVE Replaced!Next
  <2>1. UNCHANGED AbsHave
    BY <1>0, <1>f, <1>k, <1>r DEF Names, IInv, TypeOK
  <2> QED BY <1>f, <2>1, FailImplements DEF Replaced!Next
<1>6. CASE RenameTmp
  <2>1. CASE tree[Key] = Dir
    BY <1>6, <1>f, <2>1 DEF RenameTmp
  <2>2. CASE tree[Key] # Dir
    <3>0. PICK k : k = Key
      OBVIOUS
    <3>1. /\ k \in Keys /\ want[k] \in Values /\ pc = "rename" /\ pc' = "mkdir"
          /\ TmpOf[k] \in TmpNodes /\ TmpOf[k] # k /\ tree[TmpOf[k]] = want[k]
          /\ tree' = [tree EXCEPT ![k] = tree[TmpOf[k]], ![TmpOf[k]] = None]
          /\ UNCHANGED <<want, prev>>
      BY <1>6, <1>k, <1>r, <2>2, <3>0 DEF RenameTmp, IInv, TodoInv
    <3>2. \A n \in Names \ {k} : tree'[n] = tree[n]
      BY <3>1 DEF Names, IInv, TypeOK
    <3>3. CASE k \in Names /\ ~(prev[k] = want[k] /\ want[k] # None)
      <4>1. tree'[k] = want[k]
        BY <3>1 DEF IInv, TypeOK
      <4>2. AbsHave' = [AbsHave EXCEPT ![k] = want[k]]
        <5>1. Found(k)' = want[k] /\ \A n \in Names \ {k} : Found(n)' = Found(n)
          BY <3>1, <3>2, <4>1, Zenon DEF Found, IsFile
        <5> QED BY <5>1, Zenon DEF AbsHave
      <4> QED BY <3>1, <3>3, <4>2, ReplaceImplements, Zenon
    <3>4. CASE k \in Names /\ prev[k] = want[k] /\ want[k] # None
      <4>1. tree[k] = want[k] /\ tree'[k] = want[k]
        BY <3>1, <3>4 DEF IInv, TypeOK, DoneInv, Names
      <4>2. UNCHANGED AbsHave
        BY <1>0, <3>2, <4>1
      <4> QED BY <3>1, <4>2, Stutters
    <3>5. CASE k \notin Names
      <4>1. UNCHANGED AbsHave
        BY <1>0, <3>2, <3>5
      <4> QED BY <3>1, <4>1, Stutters
    <3> QED BY <3>3, <3>4, <3>5
  <2> QED BY <2>1, <2>2
<1>7. CASE PruneEmptyDirs \/ PruneIncomplete
  <2>1. \A n \in Names : tree'[n] = tree[n] \/ (tree[n] \in {None, Dir} /\ tree'[n] \in {None, Dir})
    BY <1>7 DEF PruneEmptyDirs, PruneIncomplete, EmptyDirs, Names
  <2>2. UNCHANGED AbsHave
    BY <1>0, <2>1
  <2>3. Replaced!Succeed
    BY <1>7, <2>2, SucceedImplements DEF PruneEmptyDirs, PruneIncomplete
  <2> QED BY <2>3 DEF Replaced!Next
<1>8. CASE IOError
  <2>1. CASE pc = "rename" /\ tree' = [tree EXCEPT ![TmpOf[Key]] = None]
    BY <1>8, <1>f, <2>1 DEF IOError
  <2>2. CASE UNCHANGED tree
    <3>1. UNCHANGED AbsHave
      BY <1>0, <2>2
    <3> QED BY <1>8, <3>1, FailImplements DEF IOError, Replaced!Next
  <2>3. CASE /\ pc = "mkdir" /\ todo # {} /\ ~ \E a \in Above[Key] : IsFile(a)
             /\ \E a \in Above[Key] :
                  tree' = [n \in Nodes |-> IF n \in Above[a] THEN Dir ELSE tree[n]]
    <3>1. PICK a \in Above[Key] : tree' = [n \in Nodes |-> IF n \in Above[a] THEN Dir ELSE tree[n]]
      BY <2>3
    <3>2. \A n \in Names : n \in Above[a] => tree[n] \in {None, Dir}
      BY <1>k, <2>3, AboveAssumption DEF IsFile
    <3>3. UNCHANGED AbsHave
      BY <1>0, <3>1, <3>2 DEF Names
    <3>4. Fail
      BY <1>8 DEF IOError
    <3> QED BY <2>3, <3>3, <3>4, FailImplements DEF Replaced!Next
  <2> QED BY <1>8, <2>1, <2>2, <2>3 DEF IOError
<1>9. CASE Crash \/ Reboot
  BY <1>9, RestartImplements DEF Replaced!Next
<1>10. CASE UNCHANGED vars
  <2>1. AbsWant' = AbsWant /\ AbsHave' = AbsHave /\ AbsBase' = AbsBase /\ AbsStatus' = AbsStatus
    BY <1>10 DEF vars, AbsWant, AbsHave, AbsBase, AbsStatus, Found, IsFile, Applied
  <2> QED BY <2>1 DEF Replaced!vars, AbsWant, AbsHave, AbsBase, AbsStatus, Names
<1> QED BY <1>1, <1>2, <1>3, <1>4, <1>5, <1>6, <1>7, <1>8, <1>9, <1>10, Zenon DEF Next, Apply

\* The subscriber implements the abstract replacement of a set, for every set of
\* paths, keys and values, with I/O errors, crashes and reboots at every step.
THEOREM Implements == Spec => ImplementsReplaceSet
<1> QED BY InitImplements, StepImplements, Invariant, PTL DEF Spec, ImplementsReplaceSet, Replaced!Spec
=============================================================================

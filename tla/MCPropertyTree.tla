--------------------------- MODULE MCPropertyTree ---------------------------
(***************************************************************************)
(* PropertyTree for TLC: two levels of nesting, a key whose path is the    *)
(* directory of another key, a key named like a temporary file.            *)
(***************************************************************************)
EXTENDS PropertyTree

\* Keys "a", "d/b" and "d/e/c", below the directories "d" and "d/e".
DeepOrder == <<"a", "a.tmp", "d", "d/b", "d/b.tmp", "d/e", "d/e/c", "d/e/c.tmp">>
DeepKeys  == {"a", "d/b", "d/e/c"}
\* Keys "a" and "a/b": one path as a file and as a directory.
NestOrder == <<"a", "a.tmp", "a/b", "a/b.tmp">>
NestKeys  == {"a", "a/b"}
\* Key "a.tmp".
TmpOrder  == <<"a.tmp", "a.tmp.tmp">>
TmpKeys   == {"a.tmp"}

DeepNodes == ToSet(DeepOrder)
NestNodes == ToSet(NestOrder)
TmpsNodes == ToSet(TmpOrder)

NodeAbove == [n \in Nodes |-> CASE n \in {"d/b", "d/b.tmp", "d/e"}  -> {"d"}
                                [] n \in {"d/e/c", "d/e/c.tmp"}     -> {"d", "d/e"}
                                [] n \in {"a/b", "a/b.tmp"}         -> {"a"}
                                [] OTHER                            -> {}]
TmpPath == [k \in Keys |-> CASE k = "a"     -> "a.tmp"
                             [] k = "d/b"   -> "d/b.tmp"
                             [] k = "d/e/c" -> "d/e/c.tmp"
                             [] k = "a/b"   -> "a/b.tmp"
                             [] k = "a.tmp" -> "a.tmp.tmp"]
TmpPaths == Nodes \cap {"a.tmp", "d/b.tmp", "d/e/c.tmp", "a/b.tmp", "a.tmp.tmp"}
=============================================================================

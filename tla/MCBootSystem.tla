---------------------------- MODULE MCBootSystem ----------------------------
(***************************************************************************)
(* BootSystem for TLC: the four weft.boot/* keys, optionally the key       *)
(* "weft.boot" itself, and the requests a host may publish.                *)
(***************************************************************************)
EXTENDS BootSystem, SequencesExt

CONSTANT RootKey   \* whether the key "weft.boot" is in use

BootDir   == "weft.boot"
BootOrder == <<BootDir, "weft.boot.tmp",
               ScriptKey, "weft.boot/script.tmp", KindKey, "weft.boot/source.kind.tmp",
               RefKey, "weft.boot/source.ref.tmp", UrlKey, "weft.boot/source.url.tmp">>
BootNodes == ToSet(BootOrder)
UsedKeys  == IF RootKey THEN BootKeys \cup {BootDir} ELSE BootKeys
BootAbove == [n \in BootNodes |-> IF n \in {BootDir, "weft.boot.tmp"} THEN {} ELSE {BootDir}]
BootTmpOf == [k \in UsedKeys |-> CASE k = BootDir   -> "weft.boot.tmp"
                                   [] k = ScriptKey -> "weft.boot/script.tmp"
                                   [] k = KindKey   -> "weft.boot/source.kind.tmp"
                                   [] k = RefKey    -> "weft.boot/source.ref.tmp"
                                   [] k = UrlKey    -> "weft.boot/source.url.tmp"]
BootTmps  == ToSet(SelectSeq(BootOrder, LAMBDA n : n \notin BootKeys \cup {BootDir}))

Request(kind, url, ref, script) ==
  [k \in UsedKeys |-> CASE k = KindKey   -> kind   [] k = UrlKey    -> url
                        [] k = RefKey    -> ref    [] k = ScriptKey -> script
                        [] k = BootDir   -> Unset]

BootValues == {"git", "oci", "bad", "url", "ref", "sh"}
Nothing    == Request(Unset, Unset, Unset, Unset)
Script     == Request("git", Unset, Unset, "sh")

\* A request with a source and a script, and the clearing of the tree.
GitScript  == {Nothing, Script}
\* The full request.
GitFull    == {Nothing, Request("git", "url", "ref", "sh")}
\* A set that names only the key "weft.boot".
OnlyRoot   == {[k \in UsedKeys |-> IF k = BootDir THEN "url" ELSE Unset]}
=============================================================================

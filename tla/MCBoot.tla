------------------------------- MODULE MCBoot -------------------------------
(***************************************************************************)
(* Boot on its own for TLC: any mixture of the values the host may have    *)
(* published for the four keys, and a tree in which they cannot be read.   *)
(***************************************************************************)
EXTENDS Boot

NoDirs    == [k \in BootKeys |-> {}]
FlatTrees == {[k \in BootKeys |-> CASE k = KindKey   -> kind
                                    [] k = RefKey    -> ref
                                    [] k = ScriptKey -> script
                                    [] OTHER         -> Unset] :
                kind \in {Unset, "git", "oci", "bad"}, ref \in {Unset, "ref"},
                script \in {Unset, "sh"}}
             \cup {[EmptyCfg EXCEPT ![UrlKey] = "dir"], [EmptyCfg EXCEPT ![KindKey] = NoSource]}
=============================================================================

--------------------------- MODULE MCContainers ---------------------------
(***************************************************************************)
(* Two containers.  The first appears as two different ones, and one of    *)
(* them with both restart policies.  containerEqual takes Web for WebOther *)
(* but not WebOther for Web.                                               *)
(***************************************************************************)
EXTENDS Containers

WebSpec(image, restart, env) == [image |-> image, restart |-> restart, env |-> env]
Web      == WebSpec("i1", "no", [K |-> ""])
WebOn    == WebSpec("i1", "always", [K |-> ""])
WebOther == WebSpec("i1", "no", [L |-> "x"])
Side     == WebSpec("i2", "no", <<>>)

\* Nothing, one container or both: additions, changes, drops and renames.
SmallSets == {<<None, None>>, <<Web, None>>, <<None, Side>>, <<WebOn, Side>>, <<WebOther, Side>>}
=============================================================================

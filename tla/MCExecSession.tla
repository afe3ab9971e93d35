--------------------------- MODULE MCExecSession ---------------------------
(* Small instances of ExecSession for TLC.                                 *)
EXTENDS ExecSession, TLC

\* Requests are interchangeable: they differ only in the id they carry, and
\* every assignment of ids is an initial state.
RunSymmetry == Permutations(Runs)
=============================================================================

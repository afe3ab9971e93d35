------------------------------ MODULE MCMounts ------------------------------
(* Instances of Mounts for TLC: two shares, on two points or on one. *)
EXTENDS Mounts

CONSTANTS a, b, p, q

M(i, x) == [id |-> i, point |-> x, action |-> "mount"]
U(i, x) == [id |-> i, point |-> x, action |-> "unmount"]

TwoShares == {M(a, p), U(a, p), M(b, q)}
OnePoint  == {M(a, p), U(a, p), M(b, p)}
OneShare  == {M(a, p), U(a, p)}
NoBoot    == <<>>
BootA     == <<M(a, p)>>
=============================================================================

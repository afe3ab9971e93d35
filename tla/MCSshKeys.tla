----------------------------- MODULE MCSshKeys -----------------------------
(* An instance of SshKeys for TLC: two key lines, one of which does not parse. *)
EXTENDS SshKeys

CONSTANTS k1, k2

TwoLines == {k1, k2}
BadLine  == {k2}
=============================================================================

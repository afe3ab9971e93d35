------------------------------ MODULE MCAgent ------------------------------
(***************************************************************************)
(* Everything enabled, nothing enabled, and two parts on their own.        *)
(***************************************************************************)
EXTENDS Agent

MCFlagSets == {NatsParts \cup {"bootmounts", "sshd", "metrics"}, {},
               {"bootmounts", "mounts", "guestplane", "metrics"}, {"exec", "sshd"}}
=============================================================================

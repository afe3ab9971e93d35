---------------------------- MODULE MCGuestPlane ----------------------------
(***************************************************************************)
(* GuestPlane for TLC.  A negative interval is written as a definition:    *)
(* a configuration file has no negative numbers.                           *)
(***************************************************************************)
EXTENDS GuestPlane

Disabled == -1
=============================================================================

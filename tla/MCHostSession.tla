--------------------------- MODULE MCHostSession ---------------------------
(* HostSession with two asks, two clients that answer them and two uuids    *)
(* sent again and again.                                                   *)
EXTENDS HostSession
=============================================================================

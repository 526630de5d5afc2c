--------------------------- MODULE MCSessionLink ---------------------------
(* SessionLink with one ask, a ring and a queue smaller than the history,   *)
(* so that eviction, overflow and resync all happen.                        *)
EXTENDS SessionLink, TLC
CONSTANTS a1
MCAsk == {a1}
=============================================================================

----------------------------- MODULE MCLeaseDir -----------------------------
(* LeaseDir with two sessions of one call at a time.                        *)
EXTENDS LeaseDir, TLC
CONSTANTS s1, s2, c1, c2
MCSolo == c1 :> s1 @@ c2 :> s2
=============================================================================

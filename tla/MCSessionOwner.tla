-------------------------- MODULE MCSessionOwner --------------------------
(* SessionOwner with hosts enough for a resume after a resume.             *)
EXTENDS SessionOwner

CONSTANTS t1  \* a process in a terminal
=============================================================================

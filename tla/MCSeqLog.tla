------------------------------ MODULE MCSeqLog ------------------------------
(* SeqLog with two subscriptions, events of two sizes and a ring of two     *)
(* small ones: a large event alone exceeds what is left of the budget.      *)
EXTENDS SeqLog, TLC
CONSTANTS l1, l2
MCListener == {l1, l2}
MCSize == {1, 2}
=============================================================================

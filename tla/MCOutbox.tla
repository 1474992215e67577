------------------------------- MODULE MCOutbox -------------------------------
(***************************************************************************)
(* The outbox on small instances: overlapping workers are interchangeable. *)
(***************************************************************************)
EXTENDS Outbox, TLC

Symmetry == Permutations(Workers)
===============================================================================

---------------------------- MODULE MCBusinessFiles ----------------------------
(* Small instances of BusinessFiles. *)
EXTENDS BusinessFiles, TLC

CONSTANTS f1, f2, d1, r1, w1
================================================================================

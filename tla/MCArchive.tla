------------------------------- MODULE MCArchive -------------------------------
(* Small instances of Archive. *)
EXTENDS Archive, FiniteSets, TLC

CONSTANTS n1, f1, e1, r1, d1, l1, p1, w1, w2

(* Documents that jobs rendered and faults are two together: two faults, or *)
(* a fault and a document, or both documents.  States beyond that are       *)
(* checked, those after them are not explored.                              *)
Bounded == Cardinality(Generated \cap content) + faults <= 2

(* Workers are alike. *)
WorkerSymmetry == Permutations({w1, w2})
================================================================================

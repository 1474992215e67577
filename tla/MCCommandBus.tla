----------------------------- MODULE MCCommandBus -----------------------------
(***************************************************************************)
(* The command bus on a small instance: two requests, which are two        *)
(* clients, or one client that retries; a key may be shared, or reused for *)
(* another command.  The job of the background worker is the third party   *)
(* that moves the head of the audit chain.                                 *)
(***************************************************************************)
EXTENDS CommandBus, TLC
===============================================================================

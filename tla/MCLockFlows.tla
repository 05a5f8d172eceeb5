---------------------------- MODULE MCLockFlows ----------------------------
(* What TLC needs to check an instance of LockFlows. *)
EXTENDS LockFlows, TLC

(* The locks are alike. *)
LockSymmetry == Permutations(Locks)
=============================================================================

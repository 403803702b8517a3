------------------------------ MODULE MCAtomics ------------------------------
(* Instances of Atomics for TLC.                                           *)
EXTENDS Atomics, TLC

LockSymmetry == Permutations(Threads) \cup Permutations(Buckets)
=============================================================================

----------------------------- MODULE MCSemaphore -----------------------------
(* Instances of Semaphore for TLC.                                         *)
EXTENDS Semaphore, TLC

CONSTANTS t1, t2, t3, t4

ThreadSymmetry == Permutations(Thread)
===============================================================================

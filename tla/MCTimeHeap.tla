---------------------------- MODULE MCTimeHeap -----------------------------
(* A finite instance of TimeHeap for TLC.                                  *)
EXTENDS TimeHeap, TLC

TimerSymmetry == Permutations(Timers)
=============================================================================

---------------------------- MODULE MCThreadPool ----------------------------
(* A finite instance of ThreadPool for TLC: the values are in the cfg.     *)
EXTENDS ThreadPool
=============================================================================

------------------------------- MODULE MCLog -------------------------------
(* Finite instances of Log for TLC. *)
EXTENDS Log

MCItems == [no : 1..MaxLines, day : 0..MaxDay]
=============================================================================

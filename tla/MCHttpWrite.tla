---------------------------- MODULE MCHttpWrite ----------------------------
(* Small files for TLC: one that fits the socket's buffer, one that does   *)
(* not, and one that takes several buffers.                                *)
EXTENDS HttpWrite

MCFileSizes == {1, 2, 5}
=============================================================================

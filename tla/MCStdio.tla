------------------------------ MODULE MCStdio ------------------------------
(***************************************************************************)
(* A process that writes and one that reads, with buffers of a few bytes.  *)
(***************************************************************************)
EXTENDS Stdio

CONSTANTS w1, w2, r1
=============================================================================

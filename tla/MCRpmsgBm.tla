----------------------------- MODULE MCRpmsgBm -----------------------------
(***************************************************************************)
(* Two buffers to receive with, one to send with, one request at a time.   *)
(***************************************************************************)
EXTENDS RpmsgBm
=============================================================================

------------------------------ MODULE MCVring ------------------------------
(***************************************************************************)
(* A virtqueue of three entries whose indices wrap around after six.        *)
(***************************************************************************)
EXTENDS Vring

MCContents == {1, 2}
=============================================================================

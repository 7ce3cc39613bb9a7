---------------------------- MODULE MCRingBuffer ----------------------------
(* RingBuffer on a vector of a few bytes, with transfers up to its size. *)
EXTENDS RingBuffer
=============================================================================

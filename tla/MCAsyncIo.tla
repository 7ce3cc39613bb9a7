------------------------------ MODULE MCAsyncIo ------------------------------
(* A small instance of AsyncIo for TLC. *)
EXTENDS AsyncIo

(* Reads of at least one byte and of exactly two. *)
MCReadLengths == {<<1, 2>>, <<2, 2>>}
=============================================================================

------------------------------ MODULE ByteQueue ------------------------------
(***************************************************************************)
(* What a Buffer promises (buffer.h): a bounded queue of bytes.  Writing   *)
(* appends at the back as long as there is room, reading takes from the    *)
(* front, and nothing else ever changes what is inside.                    *)
(***************************************************************************)
EXTENDS Integers, Sequences

CONSTANT Size         \* the most bytes it can hold

VARIABLE bytes        \* written and not yet read, the oldest first

Init == bytes = << >>

Write == /\ Len(bytes') > Len(bytes)
         /\ Len(bytes') <= Size
         /\ SubSeq(bytes', 1, Len(bytes)) = bytes

Read == \E n \in 1..Len(bytes) : bytes' = SubSeq(bytes, n + 1, Len(bytes))

Next == Write \/ Read

Spec == Init /\ [][Next]_bytes
=============================================================================

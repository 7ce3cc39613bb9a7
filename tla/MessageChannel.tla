--------------------------- MODULE MessageChannel ---------------------------
(***************************************************************************)
(* What a pair of StreamingIoPeers promises in one direction: messages     *)
(* come out whole, once each and in the order of send(), several of them   *)
(* at a time if need be.                                                   *)
(***************************************************************************)
EXTENDS Integers, Sequences

CONSTANT Outgoing         \* messages there are

VARIABLES sent, received

IsPrefixOf(s, t) == Len(s) <= Len(t) /\ SubSeq(t, 1, Len(s)) = s

Init == sent = << >> /\ received = << >>

Send == \E m \in Outgoing : sent' = Append(sent, m) /\ UNCHANGED received

Deliver == /\ IsPrefixOf(received, received') /\ IsPrefixOf(received', sent)
           /\ UNCHANGED sent

Next == Send \/ Deliver

Spec == Init /\ [][Next]_<<sent, received>>
=============================================================================

------------------------------- MODULE Codec -------------------------------
(***************************************************************************)
(* Two programs that exchange messages with ProtoKelCodec.  The sender     *)
(* builds a message with builders and readers and encodes it, time and     *)
(* again; its bytes reach the buffer of the receiver one by one; the       *)
(* receiver calls decode whenever it likes, always into the same root.     *)
(*                                                                         *)
(* The sender may have been built with another schema than the receiver,   *)
(* as happens between two versions of a program.                           *)
(***************************************************************************)
EXTENDS ProtoKel

CONSTANTS Outgoings,    \* schemas a sender may have been built with
          Incoming,     \* the schema of the receiver
          Calls(_),     \* what the user may call on a reference of a schema
          BufferSize,   \* size of both buffers
          PacketSize,   \* Limits::packet_size of the receiver
          MaxSent       \* bound: messages that are encoded

ASSUME CodecAssumption ==
    /\ Base \in Nat \ {0, 1} /\ LengthWidth \in Nat \ {0} /\ UnionWidth \in Nat \ {0}
    /\ MaxElements \in Nat /\ BufferSize \in Nat /\ PacketSize \in Nat /\ MaxSent \in Nat

VARIABLES outgoing,   \* the schema of the sender
          draft,      \* the message the sender builds
          wire,       \* the buffer of the sender
          buffer,     \* the buffer of the receiver
          root,       \* the message the receiver decodes into
          error,      \* what its last decode returned or threw
          sent,       \* messages that were encoded
          got         \* messages that were decoded

vars == <<outgoing, draft, wire, buffer, root, error, sent, got>>

Empty == [bytes |-> << >>, size |-> BufferSize]

Init == /\ outgoing \in Outgoings
        /\ draft = Fresh(outgoing)
        /\ wire = Empty /\ buffer = Empty
        /\ root = Fresh(Incoming)
        /\ error = "none"
        /\ sent = << >> /\ got = << >>

(* The user takes a reference and calls something on it. *)
Use == /\ Len(sent) < MaxSent
       /\ \E ref \in References(outgoing, draft) : \E call \in Calls(ref.schema) :
             draft' = Through(outgoing, draft, ref.path, call)
       /\ UNCHANGED <<outgoing, wire, buffer, root, error, sent, got>>

(* encode.  Refused, it changes nothing. *)
Send == LET e == Encode(outgoing, draft, wire) IN
        /\ Len(sent) < MaxSent
        /\ e.error = "none"
        /\ wire' = e.buffer
        /\ sent' = Append(sent, draft)
        /\ UNCHANGED <<outgoing, draft, buffer, root, error, got>>

Arrive == /\ wire.bytes # << >> /\ Len(buffer.bytes) < buffer.size
          /\ wire' = [wire EXCEPT !.bytes = Tail(@)]
          /\ buffer' = [buffer EXCEPT !.bytes = Append(@, Head(wire.bytes))]
          /\ UNCHANGED <<outgoing, draft, root, error, sent, got>>

(* decode.  After a critical error or an exception the receiver gives up. *)
Receive == LET d == Decode(Incoming, root, buffer, PacketSize) IN
           /\ error \notin {"critical", "exception"}
           /\ buffer' = d.buffer
           /\ root' = d.msg
           /\ error' = d.error
           /\ got' = IF d.error = "none" THEN Append(got, d.msg) ELSE got
           /\ UNCHANGED <<outgoing, draft, wire, sent>>

Next == Use \/ Send \/ Arrive \/ Receive

Spec == Init /\ [][Next]_vars

-----------------------------------------------------------------------------
(* The packet of a message. *)
Packet(s, msg) ==
    Encode(s, msg, [bytes |-> << >>, size |-> LengthWidth + SizeOf(s, msg)]).buffer.bytes

(* Whatever the sender builds and whatever bytes arrive, draft, root and   *)
(* the messages decoded are messages of their schemas: no union index out  *)
(* of range, no number too large (Builder, MessageContainer).              *)
TypeOK == /\ outgoing \in Outgoings
          /\ IsMessage(outgoing, draft, Base)
          /\ IsMessage(Incoming, root, Base)
          /\ \A i \in DOMAIN got : IsMessage(Incoming, got[i], Base)
          /\ wire.bytes \in Seq(Byte) /\ buffer.bytes \in Seq(Byte)
          /\ Len(wire.bytes) <= wire.size /\ Len(buffer.bytes) <= buffer.size
          /\ error \in {"none", "recoverable", "critical", "exception"}

(* A message that decode accepts spells exactly the packet that the sender *)
(* wrote, byte for byte, and the next one starts where that packet ends.   *)
(* This holds for senders with another schema too, although the body is    *)
(* decoded through a view that does not end with the packet.               *)
AcceptedAsSent ==
    /\ Len(got) <= Len(sent)
    /\ \A i \in DOMAIN got : Packet(Incoming, got[i]) = Packet(outgoing, sent[i])

(* Between programs of the same schema messages come out as they went in,  *)
(* although decode always writes into the root that holds the last one, or *)
(* what a decode that ran out of bytes left there.                         *)
RoundTrip ==
    outgoing = Incoming => \A i \in DOMAIN got : got[i] = sent[i]

(* decode tells the three cases apart: a packet that is all there is       *)
(* decoded, a packet of which bytes are missing is asked for again, and    *)
(* only one that is announced as larger than the limit is refused.  At no  *)
(* cut does it read something else as the length of an array and throw.    *)
PartialIsRecoverable ==
    outgoing = Incoming /\ Len(got) < Len(sent) =>
    LET length == SizeOf(outgoing, sent[Len(got) + 1])
        there == Len(buffer.bytes)
    IN Decode(Incoming, root, buffer, PacketSize).error =
         IF there >= LengthWidth /\ length > PacketSize THEN "critical"
         ELSE IF there >= LengthWidth + length THEN "none" ELSE "recoverable"
=============================================================================

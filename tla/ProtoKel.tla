------------------------------ MODULE ProtoKel ------------------------------
(***************************************************************************)
(* ProtoKelCodec (proto_kel.h) on StreamValue (stream_endian.h) and        *)
(* BufferView (buffer.cpp).                                                *)
(*                                                                         *)
(* A packet is its length, then its message.  encode and decode work on a  *)
(* BufferView, two offsets into the buffer, and advance the buffer only at *)
(* their end.  The buffer itself is the queue of bytes that RingBuffer is  *)
(* shown to implement, [bytes, size].                                      *)
(*                                                                         *)
(* A view carries the error of the call that failed: as every caller in    *)
(* proto_kel.h returns at once, what comes after it does nothing.          *)
(***************************************************************************)
EXTENDS Messages

CONSTANTS Base,          \* values of a byte, 256 in the code
          LengthWidth,   \* sizeof(msg_packet_length_t), _array_length_t and size_t
          UnionWidth,    \* sizeof(msg_union_id_t)
          MaxElements    \* elements that a std::vector can be resized to

Byte == 0..(Base - 1)

(* A BufferView.  `out` is what was written through it, so that            *)
(* write_offset is Len(out).                                               *)
ViewOf(buffer) == [bytes |-> buffer.bytes, read_offset |-> 0, out |-> << >>,
                   room |-> buffer.size - Len(buffer.bytes), error |-> "none"]

Unread(view) == Len(view.bytes) - view.read_offset
Failed(view, error) == [view EXCEPT !.error = error]

(* writeRequireLength(n), write(i) for each byte, writeAdvance. *)
Put(view, data) ==
    IF view.error # "none" THEN view
    ELSE IF Len(view.out) + Len(data) > view.room THEN Failed(view, "recoverable")
    ELSE [view EXCEPT !.out = @ \o data]

-----------------------------------------------------------------------------
(* StreamValue: the least significant byte first. *)
ToBytes(v, width) == [i \in 1..width |-> (v \div Base ^ (i - 1)) % Base]

(* Fault: the most significant byte first. *)
FromBytesBig(bytes) ==
    LET value[i \in 0..Len(bytes)] ==
            IF i = 0 THEN 0 ELSE value[i - 1] * Base + bytes[i]
    IN value[Len(bytes)]

FromBytes(bytes) ==
    LET value[i \in 0..Len(bytes)] ==
            IF i = 0 THEN 0 ELSE value[i - 1] + bytes[i] * Base ^ (i - 1)
    IN value[Len(bytes)]

(* The n bytes at the read offset, and the view after readAdvance(n). *)
Peek(view, n) == SubSeq(view.bytes, view.read_offset + 1, view.read_offset + n)
Advanced(view, n) == [view EXCEPT !.read_offset = @ + n]

(* StreamValue::decode: the view after it, and the value. *)
GetValue(view, width) ==
    IF view.error # "none" THEN [view |-> view, value |-> 0]
    ELSE IF width > Unread(view)
    THEN [view |-> Failed(view, "recoverable"), value |-> 0]
    ELSE [view |-> Advanced(view, width), value |-> FromBytes(Peek(view, width))]

-----------------------------------------------------------------------------
(* ProtoKelEncodeImpl::size *)
RECURSIVE SizeOf(_, _)
SizeOf(s, msg) ==
    LET members(schemas) ==
            LET sum[i \in 0..Len(msg)] ==
                    IF i = 0 THEN 0 ELSE sum[i - 1] + SizeOf(schemas[i], msg[i])
            IN sum[Len(msg)]
    IN CASE s.kind = "primitive" -> s.width
         [] s.kind = "string" -> LengthWidth + Len(msg)
         [] s.kind = "struct" -> members(s.members)
         [] s.kind = "union" -> UnionWidth + SizeOf(s.members[msg.index], msg.value)
         [] s.kind = "array" -> LengthWidth + members([i \in DOMAIN msg |-> s.element])

(* ProtoKelEncodeImpl::encode: the view with msg behind what it holds. *)
RECURSIVE EncodeImpl(_, _, _)
EncodeImpl(s, msg, view) ==
    LET members(schemas, first) ==
            LET after[i \in 0..Len(msg)] ==
                    IF i = 0 THEN first ELSE EncodeImpl(schemas[i], msg[i], after[i - 1])
            IN after[Len(msg)]
    IN CASE s.kind = "primitive" -> Put(view, ToBytes(msg, s.width))
         [] s.kind = "string" -> Put(view, ToBytes(Len(msg), LengthWidth) \o msg)
         [] s.kind = "struct" -> members(s.members, view)
         [] s.kind = "union" ->
              EncodeImpl(s.members[msg.index], msg.value,
                         Put(view, ToBytes(msg.index - 1, UnionWidth)))
         [] s.kind = "array" ->
              members([i \in DOMAIN msg |-> s.element], Put(view, ToBytes(Len(msg), LengthWidth)))

(* ProtoKelDecodeImpl::decode into what a builder refers to: the view and  *)
(* the message after it.  init<i>() gives the builder of a member as it is *)
(* found.  A primitive is set even if it could not be read.  resize() is   *)
(* given the length of an array before anything is compared with it and    *)
(* may throw: an exception goes through all of decode, which catches none. *)
RECURSIVE DecodeImpl(_, _, _)
DecodeImpl(s, msg, view) ==
    LET members(schemas, start, first) ==
            LET after[i \in 0..Len(start)] ==
                    IF i = 0 THEN [view |-> first, msg |-> start]
                    ELSE LET prior == after[i - 1]
                             d == DecodeImpl(schemas[i], start[i], prior.view)
                         IN IF prior.view.error # "none" THEN prior
                            ELSE [view |-> d.view, msg |-> [prior.msg EXCEPT ![i] = d.msg]]
            IN after[Len(start)]
        got == GetValue(view, CASE s.kind = "primitive" -> s.width
                                [] s.kind = "union" -> UnionWidth
                                [] OTHER -> LengthWidth)
        stop(v) == [view |-> v, msg |-> msg]
    IN CASE s.kind = "struct" -> members(s.members, msg, view)
         [] s.kind = "primitive" -> [view |-> got.view, msg |-> got.value]
         [] got.view.error # "none" -> stop(got.view)
         [] s.kind = "string" ->
              IF got.value > Unread(got.view) THEN stop(Failed(got.view, "recoverable"))
              ELSE [view |-> Advanced(got.view, got.value), msg |-> Peek(got.view, got.value)]
         [] s.kind = "union" ->
              IF got.value >= Len(s.members) THEN stop(Failed(got.view, "critical"))
              ELSE LET i == got.value + 1
                       d == DecodeImpl(s.members[i], Alternative(s, msg, i), got.view)
                   IN [view |-> d.view, msg |-> [index |-> i, value |-> d.msg]]
         [] s.kind = "array" ->
              IF got.value > MaxElements THEN stop(Failed(got.view, "exception"))
              ELSE members([i \in 1..got.value |-> s.element], Resized(s, msg, got.value),
                           got.view)

-----------------------------------------------------------------------------
(* ProtoKelCodec::encode: the error and the buffer after it. *)
Encode(s, msg, buffer) ==
    LET packet_length == SizeOf(s, msg)
        view == ViewOf(buffer)
        end == IF packet_length + LengthWidth > view.room THEN Failed(view, "recoverable")
               ELSE EncodeImpl(s, msg, Put(view, ToBytes(packet_length, LengthWidth)))
    IN [error |-> end.error,
        buffer |-> IF end.error # "none" THEN buffer
                   ELSE [buffer EXCEPT !.bytes = @ \o end.out]]

(* The length of the packet and its body, read through a view of the whole *)
(* buffer, not of the packet.                                              *)
DecodeBody(s, msg, buffer, packet_size) ==
    LET length == GetValue(ViewOf(buffer), LengthWidth)
        stop(view) == [length |-> length.value, view |-> view, msg |-> msg]
        d == DecodeImpl(s, msg, length.view)
    IN IF length.view.error # "none" THEN stop(length.view)
       ELSE IF length.value > packet_size THEN stop(Failed(length.view, "critical"))
       ELSE [length |-> length.value, view |-> d.view, msg |-> d.msg]

(* Fault: the length of the packet is not compared with what was read. *)
DecodeErrorUnchecked(s, body) == body.view.error

DecodeError(s, body) ==
    IF body.view.error = "none" /\ SizeOf(s, body.msg) # body.length
    THEN "critical" ELSE body.view.error

(* Fault: what was read of a packet that is not all there is gone. *)
AfterDecodeAlways(buffer, view, error) ==
    [buffer EXCEPT !.bytes = SubSeq(@, view.read_offset + 1, Len(@))]

(* buffer.readAdvance(view.readOffset()), unless something failed. *)
AfterDecode(buffer, view, error) ==
    IF error # "none" THEN buffer
    ELSE [buffer EXCEPT !.bytes = SubSeq(@, view.read_offset + 1, Len(@))]

(* ProtoKelCodec::decode: the error, the buffer and the message after it. *)
Decode(s, msg, buffer, packet_size) ==
    LET body == DecodeBody(s, msg, buffer, packet_size)
        error == DecodeError(s, body)
    IN [error |-> error, msg |-> body.msg,
        buffer |-> AfterDecode(buffer, body.view, error)]
=============================================================================

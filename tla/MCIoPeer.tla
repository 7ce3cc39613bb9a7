------------------------------ MODULE MCIoPeer ------------------------------
(* IoPeer with the codec of ProtoKel and strings of up to three bytes:     *)
(* packets of 2 to 5 bytes.                                                *)
EXTENDS IoPeer, ProtoKel

CONSTANT PacketSize   \* Limits::packet_size

MCOutgoing == {<< >>, <<5>>, <<6, 7>>, <<1, 2, 3>>}
MCEncode(m, buffer) == Encode(Text, m, buffer)
MCDecode(buffer) == Decode(Text, Fresh(Text), buffer, PacketSize)

(* Any few bytes, alone and behind a packet. *)
Few(n) == UNION {[1..k -> Byte] : k \in 0..n}
MCStrings == Few(4) \cup {Packet(m) \o s : m \in MCOutgoing, s \in Few(2)}

(* The codec is one that the peers may rely on. *)
ASSUME MCCodecAssumption ==
    /\ PacketSize \in Nat
    /\ EncodeAppends(MCStrings) /\ DecodeAdvances(MCStrings) /\ DecodeInverts(MCStrings)
=============================================================================

------------------------------ MODULE MCCodec ------------------------------
(* Codec with bytes of four values and lengths of two bytes. *)
EXTENDS Codec

(* The program, a newer version with one more alternative, and one in      *)
(* which a number has become wider.                                        *)
Plain == Struct(<<Union(<<Primitive(2), Text>>), Array(Primitive(1))>>)
Newer == Struct(<<Union(<<Primitive(2), Text, Primitive(1)>>), Array(Primitive(1))>>)
Wider == Struct(<<Union(<<Primitive(3), Text>>), Array(Primitive(1))>>)
MCOutgoings == {Plain, Newer, Wider}

Setting(v) == [name |-> "set", value |-> v]
MCCalls(s) ==
    {[name |-> "get"]} \cup
    CASE s.kind = "primitive" -> {Setting(Base ^ s.width - 2)}
      [] s.kind = "string" -> {Setting(<<3>>)}
      [] s.kind = "array" -> {[name |-> "resize", size |-> n] : n \in 0..2}
      [] OTHER -> {}
=============================================================================

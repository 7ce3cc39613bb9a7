------------------------------ MODULE Messages ------------------------------
(***************************************************************************)
(* Messages and their containers (message.h, message_container.h,          *)
(* schema.h).                                                              *)
(*                                                                         *)
(* A schema is a tree of records.  Tuples and structs are the same tree:   *)
(* the names of members are resolved at compile time.  A message of a      *)
(* schema is a number, a string (a sequence of bytes), a sequence of       *)
(* messages, or the index and the value of a union.                        *)
(*                                                                         *)
(* A Builder or Reader is a reference to a place in a message, here the    *)
(* path of member numbers that leads to it.  Both reach a member through   *)
(* get<i>() of the container, which for a union is not only a look.        *)
(***************************************************************************)
EXTENDS Integers, Sequences

Primitive(width) == [kind |-> "primitive", width |-> width]
Text == [kind |-> "string"]
Struct(members) == [kind |-> "struct", members |-> members]
Union(members) == [kind |-> "union", members |-> members]
Array(element) == [kind |-> "array", element |-> element]

(* What a default-constructed message holds; a variant its first member. *)
RECURSIVE Fresh(_)
Fresh(s) ==
    CASE s.kind = "primitive" -> 0
      [] s.kind = "string" -> << >>
      [] s.kind = "struct" -> [i \in DOMAIN s.members |-> Fresh(s.members[i])]
      [] s.kind = "union" -> [index |-> 1, value |-> Fresh(s.members[1])]
      [] s.kind = "array" -> << >>

(* Fault: the value stays when the new member is of the same kind. *)
AlternativeSameKind(s, msg, i) ==
    IF s.members[msg.index].kind = s.members[i].kind THEN msg.value
    ELSE Fresh(s.members[i])

(* MessageContainer<Union>::get<i>: a member that is not held replaces the *)
(* one that is.                                                            *)
Alternative(s, msg, i) ==
    IF msg.index = i THEN msg.value ELSE Fresh(s.members[i])

(* MessageContainer<Array>::resize, which is that of std::vector. *)
Resized(s, msg, n) ==
    [i \in 1..n |-> IF i <= Len(msg) THEN msg[i] ELSE Fresh(s.element)]

(* What a call on the reference does there: set(), resize(), or nothing. *)
Called(s, msg, call) ==
    CASE call.name = "set" -> call.value
      [] call.name = "resize" -> Resized(s, msg, call.size)
      [] call.name = "get" -> msg

(* The message after a reference to `path` was taken and used. *)
RECURSIVE Through(_, _, _, _)
Through(s, msg, path, call) ==
    IF path = << >> THEN Called(s, msg, call)
    ELSE LET i == Head(path) rest == Tail(path) IN
         CASE s.kind = "struct" ->
                [msg EXCEPT ![i] = Through(s.members[i], msg[i], rest, call)]
           [] s.kind = "array" ->
                [msg EXCEPT ![i] = Through(s.element, msg[i], rest, call)]
           [] s.kind = "union" ->
                [index |-> i,
                 value |-> Through(s.members[i], Alternative(s, msg, i), rest, call)]

(* The references there are: get(i) of an array stays within its size, and *)
(* a union offers every alternative.  With each, the schema it refers to.  *)
RECURSIVE References(_, _)
References(s, msg) ==
    LET below(i, element, m) ==
            {[path |-> <<i>> \o r.path, schema |-> r.schema] : r \in References(element, m)}
    IN {[path |-> << >>, schema |-> s]} \cup
       CASE s.kind = "struct" ->
              UNION {below(i, s.members[i], msg[i]) : i \in DOMAIN s.members}
         [] s.kind = "array" ->
              UNION {below(i, s.element, msg[i]) : i \in DOMAIN msg}
         [] s.kind = "union" ->
              UNION {below(i, s.members[i], Alternative(s, msg, i)) : i \in DOMAIN s.members}
         [] OTHER -> {}

(* msg is a message of schema s, with the bytes 0..base-1. *)
RECURSIVE IsMessage(_, _, _)
IsMessage(s, msg, base) ==
    CASE s.kind = "primitive" -> msg \in 0..(base ^ s.width - 1)
      [] s.kind = "string" -> msg \in Seq(0..(base - 1))
      [] s.kind = "struct" ->
            /\ DOMAIN msg = DOMAIN s.members
            /\ \A i \in DOMAIN msg : IsMessage(s.members[i], msg[i], base)
      [] s.kind = "union" ->
            /\ msg.index \in DOMAIN s.members
            /\ IsMessage(s.members[msg.index], msg.value, base)
      [] s.kind = "array" -> \A i \in DOMAIN msg : IsMessage(s.element, msg[i], base)
=============================================================================

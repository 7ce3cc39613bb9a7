---------------------------- MODULE MCEventPort ----------------------------
(* EventPort with two listeners, of one Signal or of two. *)
EXTENDS EventPort

MCListens == {[l \in Listener |-> "Terminate"],
              [l \in Listener |-> IF l = "l1" THEN "Terminate" ELSE "User1"]}
=============================================================================

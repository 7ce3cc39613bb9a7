-------------------------- MODULE MCConveyorChain --------------------------
(* ConveyorChain on chains of a few nodes.  With a limit of 1 a chain that *)
(* starts from a value fails an assertion (ImmediateConveyorNode), so such *)
(* chains get buffers of 2.                                                *)
EXTENDS ConveyorChain

MCEvent == 0..MaxNodes
MCCaps == [source \in Sources |-> IF source = "immediate" THEN {2} ELSE {1, 2}]
MCCaps1 == [source \in Sources |-> {1}]
MCCaps2 == [source \in Sources |-> {2}]
=============================================================================

------------------------------ MODULE MCPatrol ------------------------------
(* A loop, the same with a pause, there and back, a point come to twice, and a *)
(* point held twice.                                                           *)
EXTENDS Patrol

MCPaths ==
  {[points |-> p, pausing |-> {}] : p \in {<<1, 2, 3>>, <<1, 2, 3, 2>>, <<1, 2, 1, 3>>, <<1, 2, 2, 3>>}}
    \union {[points |-> <<1, 2, 3>>, pausing |-> {2}]}
=============================================================================

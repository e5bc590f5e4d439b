---------------------------- MODULE MCFloorControl ---------------------------
(* Instances of FloorControl for TLC: "a" called "b".                      *)
EXTENDS FloorControl

MCNode == {"a", "b"}
MCPeer == [n \in MCNode |-> IF n = "a" THEN "b" ELSE "a"]

(* The callee presses twice: the floor goes over, comes back and goes over *)
(* again.                                                                  *)
Presses == [n \in MCNode |-> IF n = "a" THEN 1 ELSE 2]
=============================================================================

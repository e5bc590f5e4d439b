---------------------------- MODULE MCCallSetup ----------------------------
(* Instances of CallSetup for TLC: phones a and b.                         *)
EXTENDS CallSetup, TLC

CONSTANTS a, b

PeerAB == (a :> b) @@ (b :> a)
OneCall == (a :> 1) @@ (b :> 0)
Glare == (a :> 1) @@ (b :> 1)
Again == (a :> 2) @@ (b :> 0)
=============================================================================

---------------------------- MODULE MCIceChecks ----------------------------
(* Instances of IceChecks for TLC: agents a and b, a host candidate and a   *)
(* server reflexive one each (ah, as, bh, bs), and bp, the address the NAT  *)
(* in front of b uses towards a when it is symmetric.                       *)
EXTENDS IceChecks

CONSTANTS a, b

PeerAB == (a :> b) @@ (b :> a)
HostAndReflexive == (a :> <<"ah", "as">>) @@ (b :> <<"bh", "bs">>)
TieAB == (a :> 1) @@ (b :> 2)

(* The type preferences of candidate.h: 126 for host candidates, 100 for     *)
(* server reflexive ones, 110 (111 in a request's PRIORITY) for learnt ones.  *)
TypePrio == [x \in {"ah", "bh"} |-> 126] @@ [x \in {"as", "bs"} |-> 100]
SockAB == [x \in {"ah", "as"} |-> "ah"] @@ [x \in {"bh", "bs", "bp"} |-> "bh"]

OneLan == (<<"ah", "bh">> :> "ah") @@ (<<"bh", "ah">> :> "bh")
Cone == (<<"ah", "bs">> :> "as") @@ (<<"bh", "as">> :> "bs")
Hairpin == OneLan @@ Cone
Symmetric == (<<"ah", "bp">> :> "as") @@ (<<"bh", "as">> :> "bp")
Mixed == OneLan @@ Symmetric

Either == {(a :> TRUE) @@ (b :> FALSE), (a :> FALSE) @@ (b :> TRUE)}
Same == {(a :> TRUE) @@ (b :> TRUE), (a :> FALSE) @@ (b :> FALSE)}
=============================================================================

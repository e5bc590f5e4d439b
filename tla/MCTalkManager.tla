---------------------------- MODULE MCTalkManager ----------------------------
(* Instances of TalkManager for TLC: phone "a" talks, phone "b" answers.   *)
EXTENDS TalkManager

MCNode == {"a", "b"}
MCPeer == [n \in MCNode |-> IF n = "a" THEN "b" ELSE "a"]

OnlyA(k) == [n \in MCNode |-> IF n = "a" THEN k ELSE 0]
None == OnlyA(0)
One  == OnlyA(1)
Two  == OnlyA(2)
Three == OnlyA(3)
=============================================================================

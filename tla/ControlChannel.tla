---------------------------- MODULE ControlChannel ----------------------------
(***************************************************************************)
(* What a pair of TalkManagers promises to the two controllers that send   *)
(* control messages through it.  Messages are numbered in the order they   *)
(* were scheduled.  A message reaches the peer's controller only after all *)
(* the earlier ones did, except those the channel lost; it may reach it    *)
(* again later, which changes nothing here.  A lost message may still turn *)
(* up, out of order.                                                       *)
(***************************************************************************)
EXTENDS Naturals

CONSTANTS Node, Peer

VARIABLES scheduled,  \* scheduled[n]: messages n's controller scheduled
          delivered,  \* delivered[n]: messages handed to n's controller
          lost        \* lost[n]: messages of n given up without an ACK

cvars == <<scheduled, delivered, lost>>

CInit == /\ scheduled = [n \in Node |-> {}]
         /\ delivered = [n \in Node |-> {}]
         /\ lost      = [n \in Node |-> {}]

(* The new message has a number above all the earlier ones.                *)
Schedule(n) ==
  /\ \E s \in scheduled'[n] : /\ \A r \in scheduled[n] : r < s
                             /\ scheduled' = [scheduled EXCEPT ![n] = @ \cup {s}]
  /\ UNCHANGED <<delivered, lost>>

Deliver(n, s) ==
  /\ s \in scheduled[Peer[n]] \ delivered[n]
  /\ s \in lost[Peer[n]]
       \/ \A r \in scheduled[Peer[n]] : r < s => r \in delivered[n] \cup lost[Peer[n]]
  /\ delivered' = [delivered EXCEPT ![n] = @ \cup {s}]
  /\ UNCHANGED <<scheduled, lost>>

Lose(n, s) ==
  /\ s \in scheduled[n] \ lost[n]
  /\ lost' = [lost EXCEPT ![n] = @ \cup {s}]
  /\ UNCHANGED <<scheduled, delivered>>

CNext == \E n \in Node : \/ Schedule(n)
                         \/ \E s \in scheduled[Peer[n]] : Deliver(n, s)
                         \/ \E s \in scheduled[n] : Lose(n, s)

CSpec == CInit /\ [][CNext]_cvars
=============================================================================

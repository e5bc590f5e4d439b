-------------------------- MODULE TalkManagerProofs --------------------------
(* TLAPS proofs about TalkManager, for any phones, retry limits and bounds *)
(* on the messages and heart beats: its type invariant, at-least-once and  *)
(* in-order delivery, the promise of ControlChannel, and how many messages *)
(* the poll race can cost.                                                 *)
EXTENDS TalkManager, Counting

(* s is the number of a message of n, and of a heart beat iff t says so.   *)
Own(n, s, t) == s < nextSeq[n] /\ (t = "HB2" <=> s \notin scheduled[n])

(* The session of n was opened and is over: it never opens again.          *)
Gone(n) == rpc[n] # "off" /\ ~Running(n)

(* Message s of n was acknowledged: the peer delivered it, is about to, or *)
(* is gone.                                                                *)
Got(n, s) ==
  /\ s < nextSeq[n]
  /\ s \in scheduled[n] => \/ s \in delivered[Peer[n]]
                           \/ rpc[Peer[n]] = "deliver" /\ cmsg[Peer[n]].seq = s
                           \/ Gone(Peer[n])

StartedTogether == \A n \in Node : spc[n] = "off" <=> rpc[n] = "off"

OffIsSilent == \A n \in Node : rpc[n] = "off" => ~receiving[n]

QueueOwned == \A n \in Node : \A i \in 1..Len(cmsgQueue[n]) :
                Own(n, cmsgQueue[n][i].seq, cmsgQueue[n][i].type)

ScheduledOwned == \A n \in Node : \A s \in scheduled[n] : s < nextSeq[n]

EntityAt(n) ==
  /\ spc[n] \in {"peeked", "held", "drop"} => Own(n, entity[n].seq, entity[n].type)
  /\ spc[n] = "drop" => entity[n].type = "HB2"

EntityOwned == \A n \in Node : EntityAt(n)

PacketsOwned == \A p \in net :
  IF p.type = "ACK" THEN Got(p.dst, p.seq) ELSE Own(Peer[p.dst], p.seq, p.type)

CmsgAt(n) ==
  /\ rpc[n] = "deliver" => cmsg[n].type # "ACK" /\ Own(Peer[n], cmsg[n].seq, cmsg[n].type)
  /\ rpc[n] \in {"peeked", "poll"} => Got(n, cmsg[n].seq)

CmsgOwned == \A n \in Node : CmsgAt(n)

KeptOrGot == \A n \in Node : \A s \in scheduled[n] :
  InQueue(cmsgQueue[n], s) \/ s \in lost[n] \/ Got(n, s)

(* Why only acknowledged messages leave the queue: a packet belongs to the *)
(* message whose number it carries (PacketsOwned), an ACK is in the net    *)
(* only for a message the peer got, and the sending thread polls for heart *)
(* beats only (EntityOwned).                                               *)
IInv == /\ TypeOK /\ StartedTogether /\ OffIsSilent /\ QueueOwned
        /\ ScheduledOwned /\ EntityOwned /\ PacketsOwned /\ CmsgOwned /\ KeptOrGot

-----------------------------------------------------------------------------
(* The type invariant.                                                     *)

LEMMA PollType == \A q \in Seq(Entity) : poll(q) \in Seq(Entity)
  BY DEF poll

LEMMA AgainType ==
  ASSUME NEW e \in Entity
  PROVE  Again(e) \in Entity /\ Again(e).seq = e.seq /\ Again(e).type = e.type
  BY DEF Entity, Again

LEMMA RetriedType == \A q \in Seq(Entity), s \in Nat : Retried(q, s) \in Seq(Entity)
  <1> SUFFICES ASSUME NEW q \in Seq(Entity), NEW s \in Nat
               PROVE  Retried(q, s) \in Seq(Entity)
    OBVIOUS
  <1>1. \A i \in 1..Len(q) : q[i] \in Entity
    BY LenProperties
  <1>2. \A i \in 1..Len(q) : Again(q[i]) \in Entity
    BY <1>1, AgainType
  <1>3. Retried(q, s) \in [1..Len(q) -> Entity]
    BY <1>1, <1>2 DEF Retried
  <1> QED
    BY <1>3, IsASeq, LenProperties

LEMMA HeadType ==
  ASSUME NEW q \in Seq(Entity), q # <<>>
  PROVE  Head(q) \in Entity /\ Head(q).seq \in Nat /\ Head(q).type \in MsgType
  <1>1. Head(q) \in Entity
    BY HeadTailProperties
  <1> QED
    BY <1>1 DEF Entity

LEMMA MisPolledType == \A q \in Seq(Entity), s \in Nat : MisPolled(q, s) \in SUBSET Nat
  BY HeadType DEF MisPolled

LEMMA PollForType ==
  ASSUME TypeOK, NEW n \in Node, NEW s \in Nat, PollFor(n, s)
  PROVE  cmsgQueue' \in [Node -> Seq(Entity)] /\ lost' \in [Node -> SUBSET Nat]
  BY PollType, MisPolledType DEF TypeOK, PollFor

LEMMA SendType ==
  ASSUME TypeOK, NEW n \in Node, NEW t \in MsgType \cup {"ACK"}, NEW s \in Nat,
         sendMessage(n, t, s)
  PROVE  net' \subseteq Packet
  BY PeerAssumption DEF TypeOK, sendMessage, Packet

LEMMA ScheduleType ==
  ASSUME TypeOK, NEW n \in Node, NEW t \in MsgType, scheduleMessage(n, t)
  PROVE  cmsgQueue' \in [Node -> Seq(Entity)] /\ nextSeq' \in [Node -> Nat]
  <1>1. [type |-> t, seq |-> nextSeq[n], retryTimes |-> 0] \in Entity
    BY DEF TypeOK, Entity
  <1>2. push(cmsgQueue[n], [type |-> t, seq |-> nextSeq[n], retryTimes |-> 0]) \in Seq(Entity)
    BY <1>1, AppendProperties DEF TypeOK, push
  <1> QED
    BY <1>2 DEF TypeOK, scheduleMessage

LEMMA NoType == NoEntity \in Entity /\ \A n \in Node : NoPacket(n) \in Packet
  BY DEF NoEntity, Entity, NoPacket, Packet, MsgType

LEMMA InitType == Init => TypeOK
  BY NoType DEF Init, TypeOK

LEMMA MainType ==
  ASSUME TypeOK, NEW n \in Node, Main(n)
  PROVE  TypeOK'
  <1>1. CASE startPush2Talk(n)
    BY <1>1 DEF startPush2Talk, TypeOK, history
  <1>2. CASE \E t \in AppType : sendControlMessage(n, t)
    <2>1. PICK t \in AppType : sendControlMessage(n, t)
      BY <1>2
    <2>2. cmsgQueue' \in [Node -> Seq(Entity)] /\ nextSeq' \in [Node -> Nat]
      BY <2>1, ScheduleType DEF sendControlMessage, MsgType
    <2>3. scheduled' \in [Node -> SUBSET Nat]
      BY <2>1 DEF sendControlMessage, TypeOK
    <2> QED
      BY <2>1, <2>2, <2>3 DEF sendControlMessage, TypeOK, mainVars, sendVars, recvVars
  <1>3. CASE endSession(n)
    BY <1>3 DEF endSession, TypeOK, sendVars, recvVars, history
  <1> QED
    BY <1>1, <1>2, <1>3 DEF Main

LEMMA SendingType ==
  ASSUME TypeOK, NEW n \in Node, cmsgSendingThread(n)
  PROVE  TypeOK'
  <1> USE DEF TypeOK, mainVars, recvVars, history
  <1>0. entity[n] \in Entity /\ entity[n].seq \in Nat /\ entity[n].type \in MsgType
    BY DEF Entity
  <1>1. CASE SenderPeek(n)
    <2>1. cmsgQueue[n] # <<>> => Head(cmsgQueue[n]) \in Entity
      BY HeadTailProperties
    <2> QED
      BY <1>1, <2>1 DEF SenderPeek
  <1>2. CASE SenderRetain(n)
    BY <1>2 DEF SenderRetain
  <1>3. CASE SenderExpire(n)
    BY <1>3 DEF SenderExpire
  <1>4. CASE SenderDecideDrop(n)
    BY <1>4 DEF SenderDecideDrop
  <1>5. CASE SenderDrop(n)
    <2>1. cmsgQueue' \in [Node -> Seq(Entity)] /\ lost' \in [Node -> SUBSET Nat]
      BY <1>0, <1>5, PollForType DEF SenderDrop
    <2> QED
      BY <1>5, <2>1 DEF SenderDrop
  <1>6. CASE SenderSend(n)
    <2>1. net' \subseteq Packet
      BY <1>0, <1>6, SendType DEF SenderSend
    <2>2. cmsgQueue' \in [Node -> Seq(Entity)]
      BY <1>0, <1>6, RetriedType DEF SenderSend
    <2>5. entity' \in [Node -> Entity]
      BY <1>0, <1>6, AgainType DEF SenderSend
    <2> QED
      BY <1>6, <2>1, <2>2, <2>5 DEF SenderSend
  <1>7. CASE SenderWait(n)
    BY <1>7 DEF SenderWait
  <1>8. CASE SenderBeat(n)
    <2>1. cmsgQueue' \in [Node -> Seq(Entity)] /\ nextSeq' \in [Node -> Nat]
      BY <1>8, ScheduleType DEF SenderBeat, MsgType
    <2>2. beats' \in [Node -> Nat]
      BY <1>8 DEF SenderBeat
    <2>3. entity' \in [Node -> Entity]
      BY <1>8, NoType DEF SenderBeat
    <2> QED
      BY <1>8, <2>1, <2>2, <2>3 DEF SenderBeat
  <1>9. CASE SenderSleep(n)
    BY <1>9, NoType DEF SenderSleep
  <1> QED
    BY <1>1, <1>2, <1>3, <1>4, <1>5, <1>6, <1>7, <1>8, <1>9 DEF cmsgSendingThread

LEMMA ReceivingType ==
  ASSUME TypeOK, NEW n \in Node, receivingThread(n)
  PROVE  TypeOK'
  <1> USE DEF TypeOK, mainVars, sendVars, history
  <1>0. cmsg[n].seq \in Nat
    BY DEF Packet
  <1>1. ASSUME NEW p \in net, RecvControl(n, p) PROVE TypeOK'
    <2>1. p \in Packet /\ p.seq \in Nat
      BY DEF Packet
    <2>2. net' \subseteq Packet
      BY <1>1, <2>1, SendType DEF RecvControl
    <2> QED
      BY <1>1, <2>1, <2>2 DEF RecvControl
  <1>2. ASSUME NEW p \in net, RecvAck(n, p) PROVE TypeOK'
    <2>1. peek(cmsgQueue[n]) \in Seq(Nat)
      BY HeadType DEF peek
    <2> QED
      BY <1>2, <2>1 DEF RecvAck
  <1>3. CASE RecvDeliver(n)
    BY <1>0, <1>3, NoType DEF RecvDeliver
  <1>4. CASE RecvMatch(n)
    <2>1. /\ rpc' \in [Node -> {"off", "loop", "deliver", "peeked", "poll", "done"}]
          /\ fate' \in [Node -> {"up", "dangling", "noHandler"}]
      BY <1>4 DEF RecvMatch, recvVars
    <2>2. cmsg' \in [Node -> Packet] /\ rhead' \in [Node -> Seq(Nat)]
      <3>1. CASE UNCHANGED recvVars
        BY <3>1 DEF recvVars
      <3>2. CASE /\ rhead' = [rhead EXCEPT ![n] = <<>>]
                 /\ cmsg' = [cmsg EXCEPT ![n] = IF Matches(n) THEN @ ELSE NoPacket(n)]
        BY <3>2, NoType
      <3> QED
        BY <1>4, <3>1, <3>2 DEF RecvMatch
    <2> QED
      BY <1>4, <2>1, <2>2 DEF RecvMatch
  <1>5. CASE RecvPoll(n)
    <2>1. cmsgQueue' \in [Node -> Seq(Entity)] /\ lost' \in [Node -> SUBSET Nat]
      BY <1>0, <1>5, PollForType DEF RecvPoll
    <2> QED
      BY <1>5, <2>1, NoType DEF RecvPoll
  <1>6. CASE RecvExit(n)
    BY <1>6 DEF RecvExit
  <1> QED
    BY <1>1, <1>2, <1>3, <1>4, <1>5, <1>6 DEF receivingThread

LEMMA StepType == TypeOK /\ [Next]_vars => TypeOK'
  <1> SUFFICES ASSUME TypeOK, [Next]_vars PROVE TypeOK'
    OBVIOUS
  <1>1. CASE UNCHANGED vars
    BY <1>1 DEF vars, TypeOK
  <1>2. CASE Next
    BY <1>2, MainType, SendingType, ReceivingType DEF Next
  <1> QED
    BY <1>1, <1>2

(* The threads of every TalkManager keep its types.                        *)
THEOREM TypeCorrect == Spec => []TypeOK
  BY InitType, StepType, PTL DEF Spec

-----------------------------------------------------------------------------
(* At-least-once delivery.  First what no step takes back.                 *)

Grows(m) ==
  /\ nextSeq[m] <= nextSeq'[m]
  /\ \A s \in Nat : s < nextSeq[m] => (s \in scheduled[m] <=> s \in scheduled'[m])
  /\ delivered[m] \subseteq delivered'[m]
  /\ lost[m] \subseteq lost'[m]
  /\ Gone(m) => Gone(m)'
  /\ \A s \in scheduled[Peer[m]] :
       rpc[m] = "deliver" /\ cmsg[m].seq = s =>
         \/ s \in delivered'[m]
         \/ rpc'[m] = "deliver" /\ cmsg'[m].seq = s
         \/ Gone(m)'

(* The part of IInv that a step needs of the session's state.              *)
Session == TypeOK /\ StartedTogether /\ OffIsSilent

LEMMA MainGrows ==
  ASSUME Session, NEW n \in Node, Main(n), NEW m \in Node
  PROVE  Grows(m)
  <1> USE DEF Session, TypeOK, Grows, Gone, Running
  <1>1. CASE startPush2Talk(n)
    <2>1. m = n => rpc[m] = "off"
      BY <1>1 DEF startPush2Talk, StartedTogether
    <2> QED
      BY <1>1, <2>1 DEF startPush2Talk, history
  <1>2. CASE \E t \in AppType : sendControlMessage(n, t)
    <2>1. PICK t \in AppType : sendControlMessage(n, t)
      BY <1>2
    <2>2. nextSeq' = [nextSeq EXCEPT ![n] = @ + 1]
      BY <2>1 DEF sendControlMessage, scheduleMessage
    <2>3. scheduled' = [scheduled EXCEPT ![n] = @ \cup {nextSeq[n]}]
      BY <2>1 DEF sendControlMessage
    <2>4. UNCHANGED <<receiving, rpc, cmsg, fate, delivered, lost>>
      BY <2>1 DEF sendControlMessage, mainVars, recvVars
    <2> QED
      BY <2>2, <2>3, <2>4
  <1>3. CASE endSession(n)
    BY <1>3 DEF endSession, recvVars, history
  <1> QED
    BY <1>1, <1>2, <1>3 DEF Main

LEMMA LostGrows ==
  ASSUME lost \in [Node -> SUBSET Nat], NEW n \in Node, NEW m \in Node, NEW S,
         UNCHANGED lost \/ lost' = [lost EXCEPT ![n] = @ \cup S]
  PROVE  lost[m] \subseteq lost'[m]
  <1>1. CASE UNCHANGED lost
    BY <1>1
  <1>2. CASE lost' = [lost EXCEPT ![n] = @ \cup S]
    <2>1. lost'[m] = lost[m] \/ lost'[m] = lost[m] \cup S
      BY <1>2
    <2> QED
      BY <2>1
  <1> QED
    BY <1>1, <1>2

(* A step of the sending thread of n moves that thread alone, and neither  *)
(* starts nor unstarts it.                                                 *)
LEMMA SenderMoves ==
  ASSUME Session, NEW n \in Node, cmsgSendingThread(n)
  PROVE  /\ spc[n] # "off" /\ spc'[n] # "off"
         /\ \A m \in Node : m # n => spc'[m] = spc[m] /\ entity'[m] = entity[m]
  <1>1. /\ spc \in [Node -> {"off", "loop", "peeked", "held", "drop", "beat", "done"}]
        /\ entity \in [Node -> Entity]
    BY DEF Session, TypeOK
  <1>2. CASE SenderPeek(n)
    BY <1>1, <1>2 DEF SenderPeek, SenderAt
  <1>3. CASE SenderRetain(n)
    BY <1>1, <1>3 DEF SenderRetain, SenderAt
  <1>4. CASE SenderExpire(n)
    BY <1>1, <1>4 DEF SenderExpire, SenderAt
  <1>5. CASE SenderDecideDrop(n)
    BY <1>1, <1>5 DEF SenderDecideDrop, SenderAt
  <1>6. CASE SenderDrop(n)
    BY <1>1, <1>6 DEF SenderDrop, SenderAt
  <1>7. CASE SenderSend(n)
    BY <1>1, <1>7 DEF SenderSend, SenderAt
  <1>8. CASE SenderWait(n)
    BY <1>1, <1>8 DEF SenderWait, SenderAt
  <1>9. CASE SenderBeat(n)
    BY <1>1, <1>9 DEF SenderBeat, SenderAt
  <1>10. CASE SenderSleep(n)
    BY <1>1, <1>10 DEF SenderSleep, SenderAt
  <1> QED
    BY <1>2, <1>3, <1>4, <1>5, <1>6, <1>7, <1>8, <1>9, <1>10 DEF cmsgSendingThread

(* The same of the receiving thread.                                       *)
LEMMA ReceiverMoves ==
  ASSUME Session, NEW n \in Node, receivingThread(n)
  PROVE  /\ rpc[n] # "off" /\ rpc'[n] # "off"
         /\ \A m \in Node : m # n => rpc'[m] = rpc[m] /\ cmsg'[m] = cmsg[m]
  <1>1. /\ rpc \in [Node -> {"off", "loop", "deliver", "peeked", "poll", "done"}]
        /\ cmsg \in [Node -> Packet]
    BY DEF Session, TypeOK
  <1>2. CASE \E p \in net : RecvControl(n, p)
    BY <1>1, <1>2 DEF RecvControl, Arrives, ReceiverAt
  <1>3. CASE \E p \in net : RecvAck(n, p)
    BY <1>1, <1>3 DEF RecvAck, Arrives, ReceiverAt
  <1>4. CASE RecvDeliver(n)
    BY <1>1, <1>4 DEF RecvDeliver, ReceiverAt
  <1>5. CASE RecvMatch(n)
    BY <1>1, <1>5 DEF RecvMatch, ReceiverAt, recvVars
  <1>6. CASE RecvPoll(n)
    BY <1>1, <1>6 DEF RecvPoll, ReceiverAt
  <1>7. CASE RecvExit(n)
    BY <1>1, <1>7 DEF RecvExit, ReceiverAt
  <1> QED
    BY <1>2, <1>3, <1>4, <1>5, <1>6, <1>7 DEF receivingThread

LEMMA SendingGrows ==
  ASSUME Session, NEW n \in Node, cmsgSendingThread(n), NEW m \in Node
  PROVE  Grows(m)
  <1> USE DEF Session, TypeOK, Grows, Gone, Running
  <1>1. UNCHANGED <<receiving, rpc, cmsg, scheduled, delivered>>
    BY DEF cmsgSendingThread, SenderPeek, SenderRetain, SenderExpire, SenderDecideDrop,
           SenderDrop, SenderSend, SenderWait, SenderBeat, SenderSleep, mainVars,
           recvVars, history
  <1>2. fate[m] # "up" => fate'[m] # "up"
    BY DEF cmsgSendingThread, SenderPeek, SenderRetain, SenderExpire, SenderDecideDrop,
           SenderDrop, SenderSend, SenderWait, SenderBeat, SenderSleep, SenderAt
  <1>3. nextSeq[m] <= nextSeq'[m]
    <2>1. UNCHANGED nextSeq \/ nextSeq' = [nextSeq EXCEPT ![n] = @ + 1]
      BY DEF cmsgSendingThread, SenderPeek, SenderRetain, SenderExpire, SenderDecideDrop,
             SenderDrop, SenderSend, SenderWait, SenderBeat, SenderSleep, scheduleMessage
    <2>2. nextSeq[m] \in Nat
      OBVIOUS
    <2>3. nextSeq'[m] = nextSeq[m] \/ nextSeq'[m] = nextSeq[m] + 1
      BY <2>1
    <2> QED
      BY <2>2, <2>3
  <1>4. lost[m] \subseteq lost'[m]
    <2>1. UNCHANGED lost \/ lost' = [lost EXCEPT ![n] = @ \cup MisPolled(cmsgQueue[n], entity[n].seq)]
      BY DEF cmsgSendingThread, SenderPeek, SenderRetain, SenderExpire, SenderDecideDrop,
             SenderDrop, SenderSend, SenderWait, SenderBeat, SenderSleep, PollFor, history
    <2> QED
      BY <2>1, LostGrows
  <1> QED
    BY <1>1, <1>2, <1>3, <1>4

LEMMA ReceivingGrows ==
  ASSUME Session, CmsgOwned, NEW n \in Node, receivingThread(n), NEW m \in Node
  PROVE  Grows(m)
  <1> USE DEF Session, TypeOK
  <1>1. UNCHANGED <<receiving, scheduled, nextSeq>>
    BY DEF receivingThread, RecvControl, RecvAck, RecvDeliver, RecvMatch, RecvPoll,
           RecvExit, mainVars, history
  <1>2. fate[m] # "up" => fate'[m] # "up"
    BY DEF receivingThread, RecvControl, RecvAck, RecvDeliver, RecvMatch, RecvPoll,
           RecvExit, ReceiverAt
  <1>3. rpc[m] # "off" => rpc'[m] # "off"
    BY DEF receivingThread, RecvControl, RecvAck, RecvDeliver, RecvMatch, RecvPoll,
           RecvExit, recvVars
  <1>4. delivered[m] \subseteq delivered'[m]
    <2>1. UNCHANGED delivered \/ RecvDeliver(n)
      BY DEF receivingThread, RecvControl, RecvAck, RecvMatch, RecvPoll, RecvExit, history
    <2>2. CASE RecvDeliver(n)
      BY <2>2 DEF RecvDeliver
    <2> QED
      BY <2>1, <2>2
  <1>5. lost[m] \subseteq lost'[m]
    <2>1. UNCHANGED lost \/ lost' = [lost EXCEPT ![n] = @ \cup MisPolled(cmsgQueue[n], cmsg[n].seq)]
      BY DEF receivingThread, RecvControl, RecvAck, RecvDeliver, RecvMatch, RecvPoll,
             RecvExit, PollFor, history
    <2> QED
      BY <2>1, LostGrows
  <1>6. ASSUME NEW s \in scheduled[Peer[m]], rpc[m] = "deliver", cmsg[m].seq = s
        PROVE  \/ s \in delivered'[m]
               \/ rpc'[m] = "deliver" /\ cmsg'[m].seq = s
               \/ Gone(m)'
    <2>1. CASE m # n
      BY <1>6, <2>1 DEF receivingThread, RecvControl, RecvAck, RecvDeliver, RecvMatch,
                        RecvPoll, RecvExit, recvVars
    <2>2. CASE m = n
      <3>1. RecvDeliver(n)
        BY <1>6, <2>2 DEF receivingThread, RecvControl, RecvAck, RecvMatch, RecvPoll,
                          RecvExit, ReceiverAt, Arrives
      <3>2. cmsg[m].type # "HB2"
        BY <1>6 DEF CmsgOwned, CmsgAt, Own
      <3>3. CASE receiving[m]
        BY <1>6, <2>2, <3>1, <3>2, <3>3 DEF RecvDeliver
      <3>4. CASE ~receiving[m]
        BY <1>1, <1>3, <1>6, <3>4 DEF Gone, Running
      <3> QED
        BY <3>3, <3>4
    <2> QED
      BY <2>1, <2>2
  <1>7. Gone(m) => Gone(m)'
    BY <1>1, <1>2, <1>3 DEF Gone, Running
  <1> QED
    BY <1>1, <1>4, <1>5, <1>6, <1>7 DEF Grows

LEMMA OwnStable ==
  ASSUME Session, NEW m \in Node, Grows(m), NEW s \in Nat, NEW t, Own(m, s, t),
         nextSeq' \in [Node -> Nat]
  PROVE  Own(m, s, t)'
  BY DEF Session, TypeOK, Grows, Own

LEMMA GotStable ==
  ASSUME Session, NEW m \in Node, Grows(m), Grows(Peer[m]), NEW s \in Nat, Got(m, s),
         nextSeq' \in [Node -> Nat]
  PROVE  Got(m, s)'
  <1> USE DEF Session, TypeOK
  <1>1. Peer[m] \in Node /\ Peer[Peer[m]] = m
    BY PeerAssumption
  <1>2. s < nextSeq'[m] /\ (s \in scheduled'[m] => s \in scheduled[m])
    <2>1. s < nextSeq[m] /\ nextSeq[m] <= nextSeq'[m]
      BY DEF Grows, Got
    <2>2. nextSeq[m] \in Nat /\ nextSeq'[m] \in Nat
      OBVIOUS
    <2>3. s < nextSeq[m] => (s \in scheduled[m] <=> s \in scheduled'[m])
      BY DEF Grows
    <2> QED
      BY <2>1, <2>2, <2>3
  <1>3. ASSUME s \in scheduled[m]
        PROVE  \/ s \in delivered'[Peer[m]]
               \/ rpc'[Peer[m]] = "deliver" /\ cmsg'[Peer[m]].seq = s
               \/ Gone(Peer[m])'
    BY <1>1, <1>3 DEF Grows, Got
  <1> QED
    BY <1>2, <1>3 DEF Got

-----------------------------------------------------------------------------
(* What the operations on the queue keep.                                  *)

(* Every entity of r is one of q, up to its retryTimes.                    *)
From(r, q) == \A i \in 1..Len(r) : \E j \in 1..Len(q) :
                r[i].seq = q[j].seq /\ r[i].type = q[j].type

LEMMA PushQueue ==
  ASSUME NEW q \in Seq(Entity), NEW e \in Entity
  PROVE  /\ \A i \in 1..Len(push(q, e)) :
              push(q, e)[i] = e \/ \E j \in 1..Len(q) : push(q, e)[i] = q[j]
         /\ InQueue(push(q, e), e.seq)
         /\ \A s : InQueue(q, s) => InQueue(push(q, e), s)
  <1>1. Len(push(q, e)) = Len(q) + 1 /\ Len(q) \in Nat
    BY AppendProperties, LenProperties DEF push
  <1>2. push(q, e)[Len(q) + 1] = e /\ \A i \in 1..Len(q) : push(q, e)[i] = q[i]
    BY AppendProperties DEF push
  <1>3. \A i \in 1..(Len(q) + 1) : i = Len(q) + 1 \/ i \in 1..Len(q)
    BY <1>1
  <1>4. Len(q) + 1 \in 1..(Len(q) + 1) /\ \A i \in 1..Len(q) : i \in 1..(Len(q) + 1)
    BY <1>1
  <1>5. InQueue(push(q, e), e.seq)
    BY <1>1, <1>2, <1>4 DEF InQueue
  <1>6. \A s : InQueue(q, s) => InQueue(push(q, e), s)
    BY <1>1, <1>2, <1>4 DEF InQueue
  <1> QED
    BY <1>1, <1>2, <1>3, <1>5, <1>6

LEMMA PollQueue ==
  ASSUME NEW q \in Seq(Entity)
  PROVE  /\ From(poll(q), q)
         /\ \A s : InQueue(q, s) => \/ InQueue(poll(q), s)
                                    \/ q # <<>> /\ Head(q).seq = s
  <1>1. CASE q = <<>>
    BY <1>1 DEF poll, From
  <1>2. CASE q # <<>>
    <2>1. poll(q) = Tail(q) /\ Tail(q) \in Seq(Entity) /\ Head(q) = q[1]
      BY <1>2, HeadTailProperties DEF poll
    <2>2. Len(Tail(q)) = Len(q) - 1 /\ Len(q) \in Nat
      BY <1>2, HeadTailProperties, LenProperties
    <2>3. \A i \in 1..Len(Tail(q)) : Tail(q)[i] = q[i + 1] /\ i + 1 \in 1..Len(q)
      BY <1>2, <2>2, HeadTailProperties
    <2>4. From(poll(q), q)
      BY <2>1, <2>3 DEF From
    <2>5. ASSUME NEW s, InQueue(q, s), Head(q).seq # s
          PROVE  InQueue(poll(q), s)
      <3>1. PICK j \in 1..Len(q) : q[j].seq = s
        BY <2>5 DEF InQueue
      <3>2. j # 1
        BY <2>1, <2>5, <3>1
      <3>3. j - 1 \in 1..Len(Tail(q)) /\ j - 1 + 1 = j
        BY <2>2, <3>2
      <3>4. Tail(q)[j - 1] = q[j]
        BY <2>3, <3>3
      <3> QED
        BY <2>1, <3>1, <3>3, <3>4 DEF InQueue
    <2> QED
      BY <1>2, <2>4, <2>5
  <1> QED
    BY <1>1, <1>2

LEMMA RetriedQueue ==
  ASSUME NEW q \in Seq(Entity), NEW r \in Nat
  PROVE  /\ From(Retried(q, r), q)
         /\ \A s : InQueue(q, s) => InQueue(Retried(q, r), s)
  <1>1. Len(q) \in Nat /\ \A i \in 1..Len(q) : q[i] \in Entity
    BY LenProperties
  <1>2. Retried(q, r) \in Seq(Entity)
    BY RetriedType
  <1>3. DOMAIN Retried(q, r) = 1..Len(q) /\ DOMAIN Retried(q, r) = 1..Len(Retried(q, r))
    BY <1>2, LenProperties DEF Retried
  <1>4. \A i \in 1..Len(q) : Retried(q, r)[i].seq = q[i].seq /\ Retried(q, r)[i].type = q[i].type
    BY <1>1, AgainType DEF Retried
  <1> QED
    BY <1>3, <1>4 DEF From, InQueue

-----------------------------------------------------------------------------
OwnNext(m, s, t) == s < nextSeq'[m] /\ (t = "HB2" <=> s \notin scheduled'[m])

(* Each part of IInv is kept.  First the queue: by a step that leaves it   *)
(* alone, by scheduling, by retrying, and by a poll for a message that is  *)
(* a heart beat or was acknowledged.                                       *)

QueueParts == QueueOwned /\ ScheduledOwned /\ KeptOrGot

LEMMA GrownParts ==
  ASSUME Session, TypeOK', QueueParts, \A m \in Node : Grows(m), NEW m \in Node
  PROVE  /\ \A s \in scheduled[m] : s < nextSeq'[m]
         /\ \A s \in scheduled[m] : InQueue(cmsgQueue[m], s) \/ s \in lost'[m] \/ Got(m, s)'
         /\ \A i \in 1..Len(cmsgQueue[m]) : OwnNext(m, cmsgQueue[m][i].seq, cmsgQueue[m][i].type)
  <1> USE DEF Session
  <1>1. Peer[m] \in Node /\ nextSeq[m] \in Nat /\ nextSeq'[m] \in Nat
    BY PeerAssumption DEF TypeOK
  <1>2. scheduled[m] \subseteq Nat
    BY DEF TypeOK
  <1>3. ASSUME NEW s \in scheduled[m] PROVE s < nextSeq'[m]
    <2>1. s < nextSeq[m] /\ nextSeq[m] <= nextSeq'[m] /\ s \in Nat
      BY <1>2 DEF QueueParts, ScheduledOwned, Grows
    <2> QED
      BY <1>1, <2>1
  <1>4. ASSUME NEW s \in scheduled[m]
        PROVE  InQueue(cmsgQueue[m], s) \/ s \in lost'[m] \/ Got(m, s)'
    <2>1. InQueue(cmsgQueue[m], s) \/ s \in lost[m] \/ Got(m, s)
      BY DEF QueueParts, KeptOrGot
    <2>2. s \in lost[m] => s \in lost'[m]
      BY DEF Grows
    <2>3. Got(m, s) => Got(m, s)'
      BY <1>1, <1>2, GotStable DEF TypeOK
    <2> QED
      BY <2>1, <2>2, <2>3
  <1>5. ASSUME NEW i \in 1..Len(cmsgQueue[m])
        PROVE  OwnNext(m, cmsgQueue[m][i].seq, cmsgQueue[m][i].type)
    <2>1. cmsgQueue[m][i] \in Entity
      BY LenProperties DEF TypeOK
    <2>2. cmsgQueue[m][i].seq \in Nat
      BY <2>1 DEF Entity
    <2>3. Own(m, cmsgQueue[m][i].seq, cmsgQueue[m][i].type)
      BY DEF QueueParts, QueueOwned
    <2> QED
      BY <1>1, <2>2, <2>3 DEF Grows, Own, OwnNext
  <1> QED
    BY <1>3, <1>4, <1>5

LEMMA QueueUnchanged ==
  ASSUME Session, TypeOK', QueueParts, \A m \in Node : Grows(m),
         UNCHANGED <<cmsgQueue, scheduled>>
  PROVE  QueueParts'
  BY GrownParts DEF QueueParts, QueueOwned, ScheduledOwned, KeptOrGot, Own, OwnNext

LEMMA QueueFrom ==
  ASSUME Session, TypeOK', QueueParts, \A m \in Node : Grows(m), UNCHANGED scheduled,
         \A m \in Node : From(cmsgQueue'[m], cmsgQueue[m]),
         \A m \in Node : \A s \in scheduled[m] :
           InQueue(cmsgQueue[m], s) => InQueue(cmsgQueue'[m], s) \/ s \in lost'[m] \/ Got(m, s)'
  PROVE  QueueParts'
  <1>1. ScheduledOwned'
    BY GrownParts DEF ScheduledOwned
  <1>2. KeptOrGot'
    BY GrownParts DEF KeptOrGot
  <1>3. QueueOwned'
    <2> SUFFICES ASSUME NEW m \in Node, NEW i \in 1..Len(cmsgQueue'[m])
                 PROVE  Own(m, cmsgQueue[m][i].seq, cmsgQueue[m][i].type)'
      BY DEF QueueOwned
    <2>1. PICK j \in 1..Len(cmsgQueue[m]) : /\ cmsgQueue'[m][i].seq = cmsgQueue[m][j].seq
                                            /\ cmsgQueue'[m][i].type = cmsgQueue[m][j].type
      BY DEF From
    <2> QED
      BY <2>1, GrownParts DEF Own, OwnNext
  <1> QED
    BY <1>1, <1>2, <1>3 DEF QueueParts

LEMMA QueueSchedule ==
  ASSUME Session, TypeOK', QueueParts, \A m \in Node : Grows(m),
         NEW n \in Node, NEW t \in MsgType, scheduleMessage(n, t),
         scheduled' = [scheduled EXCEPT ![n] = IF t = "HB2" THEN @ ELSE @ \cup {nextSeq[n]}]
  PROVE  QueueParts'
  <1> DEFINE e == [type |-> t, seq |-> nextSeq[n], retryTimes |-> 0]
  <1> USE DEF Session
  <1>1. e \in Entity /\ e.seq = nextSeq[n] /\ e.type = t /\ nextSeq[n] \in Nat
    BY DEF Entity, TypeOK
  <1>2. cmsgQueue[n] \in Seq(Entity) /\ cmsgQueue'[n] = push(cmsgQueue[n], e)
    BY DEF TypeOK, scheduleMessage
  <1>3. nextSeq'[n] = nextSeq[n] + 1
    BY DEF TypeOK, scheduleMessage
  <1>4. \A m \in Node : m # n => cmsgQueue'[m] = cmsgQueue[m] /\ scheduled'[m] = scheduled[m]
    BY DEF TypeOK, scheduleMessage
  <1>5. scheduled'[n] = IF t = "HB2" THEN scheduled[n] ELSE scheduled[n] \cup {nextSeq[n]}
    BY DEF TypeOK
  <1>6. nextSeq[n] \notin scheduled[n]
    BY <1>1 DEF QueueParts, ScheduledOwned
  <1>7. OwnNext(n, e.seq, e.type)
    BY <1>1, <1>3, <1>5, <1>6 DEF OwnNext
  <1> HIDE DEF e
  <1>8. ScheduledOwned'
    BY <1>1, <1>3, <1>4, <1>5, GrownParts DEF ScheduledOwned
  <1>9. KeptOrGot'
    <2> SUFFICES ASSUME NEW m \in Node, NEW s \in scheduled'[m]
                 PROVE  InQueue(cmsgQueue'[m], s) \/ s \in lost'[m] \/ Got(m, s)'
      BY DEF KeptOrGot
    <2>1. CASE m # n
      BY <1>4, <2>1, GrownParts
    <2>2. CASE m = n /\ s \in scheduled[n]
      BY <1>1, <1>2, <2>2, GrownParts, PushQueue
    <2>3. CASE m = n /\ s = nextSeq[n]
      BY <1>1, <1>2, <2>3, PushQueue
    <2> QED
      BY <1>5, <2>1, <2>2, <2>3
  <1>10. QueueOwned'
    <2> SUFFICES ASSUME NEW m \in Node, NEW i \in 1..Len(cmsgQueue'[m])
                 PROVE  OwnNext(m, cmsgQueue'[m][i].seq, cmsgQueue'[m][i].type)
      BY DEF QueueOwned, Own, OwnNext
    <2>1. CASE m # n
      BY <1>4, <2>1, GrownParts
    <2>2. CASE m = n
      <3>1. \/ cmsgQueue'[n][i] = e
            \/ \E j \in 1..Len(cmsgQueue[n]) : cmsgQueue'[n][i] = cmsgQueue[n][j]
        BY <1>1, <1>2, <2>2, PushQueue
      <3> QED
        BY <1>7, <2>2, <3>1, GrownParts
    <2> QED
      BY <2>1, <2>2
  <1> QED
    BY <1>8, <1>9, <1>10 DEF QueueParts

LEMMA QueuePoll ==
  ASSUME Session, TypeOK', QueueParts, \A m \in Node : Grows(m), UNCHANGED scheduled,
         NEW n \in Node, NEW s \in Nat, PollFor(n, s), s \in scheduled[n] => Got(n, s)
  PROVE  QueueParts'
  <1> USE DEF Session
  <1>1. cmsgQueue[n] \in Seq(Entity) /\ cmsgQueue'[n] = poll(cmsgQueue[n])
    BY DEF TypeOK, PollFor
  <1>2. \A m \in Node : m # n => cmsgQueue'[m] = cmsgQueue[m]
    BY DEF TypeOK, PollFor
  <1>3. \A m \in Node : From(cmsgQueue'[m], cmsgQueue[m])
    <2>1. \A m \in Node : From(cmsgQueue[m], cmsgQueue[m])
      BY DEF From
    <2>2. From(cmsgQueue'[n], cmsgQueue[n])
      BY <1>1, PollQueue
    <2> QED
      BY <1>2, <2>1, <2>2
  <1>4. ASSUME NEW r \in scheduled[n], InQueue(cmsgQueue[n], r), ~InQueue(cmsgQueue'[n], r)
        PROVE  r \in lost'[n] \/ Got(n, r)'
    <2>1. cmsgQueue[n] # <<>> /\ Head(cmsgQueue[n]).seq = r
      BY <1>1, <1>4, PollQueue
    <2>2. CASE r = s
      BY <2>2, GotStable, PeerAssumption DEF TypeOK
    <2>3. CASE r # s
      <3>1. 1 \in 1..Len(cmsgQueue[n]) /\ Head(cmsgQueue[n]) = cmsgQueue[n][1]
        BY <1>1, <2>1, HeadTailProperties, LenProperties
      <3>2. Own(n, r, Head(cmsgQueue[n]).type)
        BY <2>1, <3>1 DEF QueueParts, QueueOwned
      <3>3. Head(cmsgQueue[n]).type # "HB2"
        BY <3>2 DEF Own
      <3>4. MisPolled(cmsgQueue[n], s) = {r}
        BY <2>1, <2>3, <3>3 DEF MisPolled
      <3> QED
        BY <3>4 DEF PollFor, TypeOK
    <2> QED
      BY <2>2, <2>3
  <1> QED
    BY <1>2, <1>3, <1>4, QueueFrom

LEMMA QueueRetried ==
  ASSUME Session, TypeOK', QueueParts, \A m \in Node : Grows(m), UNCHANGED scheduled,
         NEW n \in Node, NEW s \in Nat,
         cmsgQueue' = [cmsgQueue EXCEPT ![n] = Retried(@, s)]
  PROVE  QueueParts'
  <1> USE DEF Session
  <1>1. cmsgQueue[n] \in Seq(Entity) /\ cmsgQueue'[n] = Retried(cmsgQueue[n], s)
    BY DEF TypeOK
  <1>2. \A m \in Node : m # n => cmsgQueue'[m] = cmsgQueue[m]
    BY DEF TypeOK
  <1>3. \A m \in Node : From(cmsgQueue[m], cmsgQueue[m])
    BY DEF From
  <1>4. \A m \in Node : From(cmsgQueue'[m], cmsgQueue[m])
    BY <1>1, <1>2, <1>3, RetriedQueue
  <1>5. \A m \in Node : \A r \in scheduled[m] :
          InQueue(cmsgQueue[m], r) => InQueue(cmsgQueue'[m], r)
    BY <1>1, <1>2, RetriedQueue
  <1> QED
    BY <1>4, <1>5, QueueFrom

(* Then the messages in the hands of the threads and in the net.           *)

LEMMA EntityKept ==
  ASSUME Session, TypeOK', EntityOwned, NEW m \in Node, Grows(m),
         spc'[m] = spc[m] /\ entity'[m] = entity[m]
  PROVE  EntityAt(m)'
  <1>1. entity[m].seq \in Nat /\ nextSeq[m] \in Nat /\ nextSeq'[m] \in Nat
    BY DEF Session, TypeOK, Entity
  <1> QED
    BY <1>1 DEF EntityOwned, EntityAt, Own, Grows

LEMMA CmsgKept ==
  ASSUME Session, TypeOK', CmsgOwned, \A m \in Node : Grows(m), NEW m \in Node,
         cmsg'[m] = cmsg[m],
         rpc'[m] = rpc[m] \/ (rpc[m] = "peeked" /\ rpc'[m] = "poll")
  PROVE  CmsgAt(m)'
  <1>1. cmsg[m].seq \in Nat /\ Peer[m] \in Node
    BY PeerAssumption DEF Session, TypeOK, Packet
  <1>2. nextSeq[Peer[m]] \in Nat /\ nextSeq'[Peer[m]] \in Nat
    BY <1>1 DEF Session, TypeOK
  <1>3. ASSUME rpc'[m] = "deliver"
        PROVE  cmsg'[m].type # "ACK" /\ OwnNext(Peer[m], cmsg'[m].seq, cmsg'[m].type)
    BY <1>1, <1>2, <1>3 DEF CmsgOwned, CmsgAt, Own, OwnNext, Grows
  <1>4. ASSUME rpc'[m] \in {"peeked", "poll"}, NEW s \in Nat, s = cmsg[m].seq
        PROVE  Got(m, s)'
    <2>1. Got(m, s)
      BY <1>4 DEF CmsgOwned, CmsgAt
    <2> QED
      BY <1>1, <2>1, GotStable DEF TypeOK
  <1> QED
    BY <1>1, <1>3, <1>4 DEF CmsgAt, Own, OwnNext, Got

PacketNext(p) == IF p.type = "ACK" THEN Got(p.dst, p.seq)'
                                   ELSE OwnNext(Peer[p.dst], p.seq, p.type)

LEMMA PacketKept ==
  ASSUME Session, TypeOK', PacketsOwned, \A m \in Node : Grows(m), NEW p \in net
  PROVE  PacketNext(p)
  <1>1. p.seq \in Nat /\ p.dst \in Node /\ Peer[p.dst] \in Node
    BY PeerAssumption DEF Session, TypeOK, Packet
  <1>2. CASE p.type = "ACK"
    <2>1. Got(p.dst, p.seq)
      BY <1>2 DEF PacketsOwned
    <2> QED
      BY <1>1, <1>2, <2>1, GotStable DEF TypeOK, PacketNext
  <1>3. CASE p.type # "ACK"
    <2>1. Own(Peer[p.dst], p.seq, p.type)
      BY <1>3 DEF PacketsOwned
    <2>2. nextSeq[Peer[p.dst]] \in Nat /\ nextSeq'[Peer[p.dst]] \in Nat
      BY <1>1 DEF Session, TypeOK
    <2> QED
      BY <1>1, <1>3, <2>1, <2>2 DEF PacketNext, Own, OwnNext, Grows
  <1> QED
    BY <1>2, <1>3

LEMMA PacketsKept ==
  ASSUME \A p \in net' : PacketNext(p)
  PROVE  PacketsOwned'
  BY DEF PacketsOwned, PacketNext, Own, OwnNext

(* The steps of the three threads.                                         *)

LEMMA MainStep ==
  ASSUME IInv, TypeOK', NEW n \in Node, Main(n)
  PROVE  IInv'
  <1>1. Session /\ QueueParts /\ EntityOwned /\ PacketsOwned /\ CmsgOwned
    BY DEF IInv, Session, QueueParts
  <1>2. \A m \in Node : Grows(m)
    BY <1>1, MainGrows
  <1>3. PacketsOwned'
    <2>1. net' = net
      BY DEF Main, startPush2Talk, sendControlMessage, endSession
    <2> QED
      BY <1>1, <1>2, <2>1, PacketKept, PacketsKept
  <1>4. StartedTogether' /\ OffIsSilent'
    <2> USE DEF Session, TypeOK, StartedTogether, OffIsSilent
    <2>1. CASE startPush2Talk(n)
      BY <1>1, <2>1 DEF startPush2Talk
    <2>2. CASE endSession(n)
      BY <1>1, <2>2 DEF endSession, sendVars, recvVars
    <2>3. CASE \E t \in AppType : sendControlMessage(n, t)
      <3>1. UNCHANGED <<spc, rpc, receiving>>
        BY <2>3 DEF sendControlMessage, mainVars, sendVars, recvVars
      <3> QED
        BY <1>1, <3>1
    <2> QED
      BY <2>1, <2>2, <2>3 DEF Main
  <1>5. QueueParts'
    <2>1. CASE startPush2Talk(n) \/ endSession(n)
      BY <1>1, <1>2, <2>1, QueueUnchanged DEF startPush2Talk, endSession, history
    <2>2. CASE \E t \in AppType : sendControlMessage(n, t)
      <3>1. PICK t \in AppType : sendControlMessage(n, t)
        BY <2>2
      <3>2. t \in MsgType /\ t # "HB2"
        BY TypeAssumption DEF MsgType
      <3> QED
        BY <1>1, <1>2, <3>1, <3>2, QueueSchedule DEF sendControlMessage
    <2> QED
      BY <2>1, <2>2 DEF Main
  <1>6. EntityOwned'
    <2> SUFFICES ASSUME NEW m \in Node PROVE EntityAt(m)'
      BY DEF EntityOwned
    <2>1. CASE m = n /\ startPush2Talk(n)
      BY <1>1, <2>1 DEF startPush2Talk, EntityAt, Session, TypeOK
    <2>2. CASE ~(m = n /\ startPush2Talk(n))
      <3>1. spc'[m] = spc[m] /\ entity'[m] = entity[m]
        BY <1>1, <2>2 DEF Main, startPush2Talk, sendControlMessage, endSession, sendVars,
                          Session, TypeOK
      <3> QED
        BY <1>1, <1>2, <3>1, EntityKept
    <2> QED
      BY <2>1, <2>2
  <1>7. CmsgOwned'
    <2> SUFFICES ASSUME NEW m \in Node PROVE CmsgAt(m)'
      BY DEF CmsgOwned
    <2>1. CASE m = n /\ startPush2Talk(n)
      BY <1>1, <2>1 DEF startPush2Talk, CmsgAt, Session, TypeOK
    <2>2. CASE ~(m = n /\ startPush2Talk(n))
      <3>1. rpc'[m] = rpc[m] /\ cmsg'[m] = cmsg[m]
        <4>1. rpc \in [Node -> {"off", "loop", "deliver", "peeked", "poll", "done"}]
          BY <1>1 DEF Session, TypeOK
        <4>2. CASE startPush2Talk(n)
          BY <2>2, <4>1, <4>2 DEF startPush2Talk
        <4>3. CASE endSession(n) \/ \E t \in AppType : sendControlMessage(n, t)
          BY <4>3 DEF endSession, sendControlMessage, recvVars
        <4> QED
          BY <4>2, <4>3 DEF Main
      <3> QED
        BY <1>1, <1>2, <3>1, CmsgKept
    <2> QED
      BY <2>1, <2>2
  <1> QED
    BY <1>3, <1>4, <1>5, <1>6, <1>7 DEF IInv, QueueParts

LEMMA SendingStep ==
  ASSUME IInv, TypeOK', NEW n \in Node, cmsgSendingThread(n)
  PROVE  IInv'
  <1> USE DEF mainVars, recvVars, history
  <1>1. Session /\ QueueParts /\ EntityOwned /\ PacketsOwned /\ CmsgOwned
    BY DEF IInv, Session, QueueParts
  <1>2. \A m \in Node : Grows(m)
    BY <1>1, SendingGrows
  <1>3. entity[n].seq \in Nat /\ entity[n].type \in MsgType
    BY <1>1 DEF Session, TypeOK, Entity
  <1>4. CmsgOwned'
    <2>1. UNCHANGED <<rpc, cmsg>>
      BY DEF cmsgSendingThread, SenderPeek, SenderRetain, SenderExpire, SenderDecideDrop,
             SenderDrop, SenderSend, SenderWait, SenderBeat, SenderSleep
    <2> QED
      BY <1>1, <1>2, <2>1, CmsgKept DEF CmsgOwned
  <1>5. StartedTogether' /\ OffIsSilent'
    <2>1. UNCHANGED <<rpc, receiving>>
      BY DEF cmsgSendingThread, SenderPeek, SenderRetain, SenderExpire, SenderDecideDrop,
             SenderDrop, SenderSend, SenderWait, SenderBeat, SenderSleep
    <2>2. spc[n] # "off" /\ spc'[n] # "off" /\ \A m \in Node : m # n => spc'[m] = spc[m]
      BY <1>1, SenderMoves
    <2> QED
      BY <1>1, <2>1, <2>2 DEF Session, StartedTogether, OffIsSilent
  <1>6. PacketsOwned'
    <2>1. CASE UNCHANGED net
      BY <1>1, <1>2, <2>1, PacketKept, PacketsKept
    <2>2. CASE SenderSend(n)
      <3> DEFINE new == [dst |-> Peer[n], type |-> entity[n].type, seq |-> entity[n].seq]
      <3>1. spc[n] = "held"
        BY <2>2 DEF SenderSend, SenderAt
      <3>2. Own(n, entity[n].seq, entity[n].type)
        BY <1>1, <3>1 DEF EntityOwned, EntityAt
      <3>3. nextSeq[n] \in Nat /\ UNCHANGED <<nextSeq, scheduled>>
        BY <1>1, <2>2 DEF SenderSend, Session, TypeOK
      <3>4. entity[n].type # "ACK"
        BY <1>3, TypeAssumption DEF MsgType
      <3>5. PacketNext(new)
        BY <3>2, <3>3, <3>4, PeerAssumption DEF PacketNext, Own, OwnNext
      <3>6. net' \subseteq net \cup {new}
        BY <2>2 DEF SenderSend, sendMessage
      <3> QED
        BY <1>1, <1>2, <3>5, <3>6, PacketKept, PacketsKept
    <2> QED
      BY <2>1, <2>2 DEF cmsgSendingThread, SenderPeek, SenderRetain, SenderExpire,
         SenderDecideDrop, SenderDrop, SenderWait, SenderBeat, SenderSleep
  <1>7. QueueParts'
    <2>1. CASE UNCHANGED <<cmsgQueue, scheduled>>
      BY <1>1, <1>2, <2>1, QueueUnchanged
    <2>2. CASE SenderDrop(n)
      <3>1. spc[n] = "drop"
        BY <2>2 DEF SenderDrop, SenderAt
      <3>2. entity[n].seq \notin scheduled[n]
        BY <1>1, <3>1 DEF EntityOwned, EntityAt, Own
      <3>3. UNCHANGED scheduled /\ PollFor(n, entity[n].seq)
        BY <2>2 DEF SenderDrop
      <3> QED
        BY <1>1, <1>2, <1>3, <3>2, <3>3, QueuePoll
    <2>3. CASE SenderSend(n)
      BY <1>1, <1>2, <1>3, <2>3, QueueRetried DEF SenderSend
    <2>4. CASE SenderBeat(n)
      <3>1. scheduled' = [scheduled EXCEPT ![n] = IF "HB2" = "HB2" THEN @ ELSE @ \cup {nextSeq[n]}]
        BY <1>1, <2>4 DEF SenderBeat, Session, TypeOK
      <3>2. "HB2" \in MsgType /\ scheduleMessage(n, "HB2")
        BY <2>4 DEF SenderBeat, MsgType
      <3> QED
        BY <1>1, <1>2, <3>1, <3>2, QueueSchedule
    <2> QED
      BY <2>1, <2>2, <2>3, <2>4 DEF cmsgSendingThread, SenderPeek, SenderRetain,
         SenderExpire, SenderDecideDrop, SenderWait, SenderSleep
  <1>8. EntityOwned'
    <2> SUFFICES ASSUME NEW m \in Node PROVE EntityAt(m)'
      BY DEF EntityOwned
    <2>1. CASE m # n
      <3>1. spc'[m] = spc[m] /\ entity'[m] = entity[m]
        BY <1>1, <2>1, SenderMoves
      <3> QED
        BY <1>1, <1>2, <3>1, EntityKept
    <2>2. CASE m = n /\ spc'[n] \notin {"peeked", "held", "drop"}
      BY <2>2 DEF EntityAt
    <2>3. CASE m = n /\ SenderPeek(n) /\ spc'[n] = "peeked"
      <3>1. cmsgQueue[n] \in Seq(Entity) /\ cmsgQueue[n] # <<>> /\ entity'[n] = Head(cmsgQueue[n])
        BY <1>1, <2>3 DEF SenderPeek, Session, TypeOK
      <3>2. 1 \in 1..Len(cmsgQueue[n]) /\ Head(cmsgQueue[n]) = cmsgQueue[n][1]
        BY <3>1, HeadTailProperties, LenProperties
      <3>3. OwnNext(n, entity'[n].seq, entity'[n].type)
        BY <1>1, <1>2, <3>1, <3>2, GrownParts
      <3> QED
        BY <2>3, <3>3 DEF EntityAt, Own, OwnNext
    <2>4. CASE m = n /\ (SenderRetain(n) \/ SenderDecideDrop(n))
      <3>1. spc[n] \in {"peeked", "held"} /\ entity' = entity /\ UNCHANGED <<nextSeq, scheduled>>
        BY <2>4 DEF SenderRetain, SenderDecideDrop, SenderAt
      <3>2. Own(n, entity[n].seq, entity[n].type)
        BY <1>1, <3>1 DEF EntityOwned, EntityAt
      <3>3. spc'[n] = "drop" => entity[n].type = "HB2"
        BY <1>1, <2>4 DEF SenderRetain, SenderDecideDrop, SenderAt, YieldsToNext, Session, TypeOK
      <3> QED
        BY <2>4, <3>1, <3>2, <3>3 DEF EntityAt, Own
    <2> QED
      <3>1. CASE m = n /\ SenderPeek(n)
        BY <1>1, <2>2, <2>3, <3>1 DEF SenderPeek, Session, TypeOK
      <3>2. CASE m = n /\ (SenderExpire(n) \/ SenderDrop(n) \/ SenderSend(n) \/ SenderWait(n))
        BY <1>1, <2>2, <3>2 DEF SenderExpire, SenderDrop, SenderSend, SenderWait, Session, TypeOK
      <3>3. CASE m = n /\ (SenderBeat(n) \/ SenderSleep(n))
        BY <1>1, <2>2, <3>3 DEF SenderBeat, SenderSleep, Session, TypeOK
      <3> QED
        BY <2>1, <2>4, <3>1, <3>2, <3>3 DEF cmsgSendingThread
  <1> QED
    BY <1>4, <1>5, <1>6, <1>7, <1>8 DEF IInv, QueueParts

LEMMA ReceivingStep ==
  ASSUME IInv, TypeOK', NEW n \in Node, receivingThread(n)
  PROVE  IInv'
  <1> USE DEF mainVars, sendVars, history
  <1>1. Session /\ QueueParts /\ EntityOwned /\ PacketsOwned /\ CmsgOwned
    BY DEF IInv, Session, QueueParts
  <1>2. \A m \in Node : Grows(m)
    BY <1>1, ReceivingGrows
  <1>3. EntityOwned'
    <2>1. UNCHANGED <<spc, entity>>
      BY DEF receivingThread, RecvControl, RecvAck, RecvDeliver, RecvMatch, RecvPoll, RecvExit
    <2> QED
      BY <1>1, <1>2, <2>1, EntityKept DEF EntityOwned
  <1>4. StartedTogether' /\ OffIsSilent'
    <2>1. UNCHANGED <<spc, receiving>>
      BY DEF receivingThread, RecvControl, RecvAck, RecvDeliver, RecvMatch, RecvPoll, RecvExit
    <2>2. rpc[n] # "off" /\ rpc'[n] # "off" /\ \A m \in Node : m # n => rpc'[m] = rpc[m]
      BY <1>1, ReceiverMoves
    <2> QED
      BY <1>1, <2>1, <2>2 DEF Session, StartedTogether, OffIsSilent
  <1>5. PacketsOwned'
    <2>1. CASE UNCHANGED net
      BY <1>1, <1>2, <2>1, PacketKept, PacketsKept
    <2>2. ASSUME NEW p \in net, RecvControl(n, p) PROVE PacketsOwned'
      <3> DEFINE new == [dst |-> Peer[n], type |-> "ACK", seq |-> p.seq]
      <3>1. p.dst = n /\ p.type # "ACK" /\ p.seq \in Nat
        BY <1>1, <2>2 DEF RecvControl, Arrives, Session, TypeOK, Packet
      <3>2. PacketNext(p)
        BY <1>1, <1>2, PacketKept
      <3>3. p.seq < nextSeq'[Peer[n]]
        BY <3>1, <3>2 DEF PacketNext, OwnNext
      <3>4. rpc'[n] = "deliver" /\ cmsg'[n] = p
        BY <1>1, <2>2 DEF RecvControl, Session, TypeOK
      <3>5. Peer[n] \in Node /\ Peer[Peer[n]] = n
        BY PeerAssumption
      <3>6. Got(Peer[n], p.seq)'
        BY <3>3, <3>4, <3>5 DEF Got
      <3>7. PacketNext(new)
        BY <3>6 DEF PacketNext
      <3>8. net' \subseteq net \cup {new}
        BY <2>2 DEF RecvControl, sendMessage
      <3> QED
        BY <1>1, <1>2, <3>7, <3>8, PacketKept, PacketsKept
    <2> QED
      BY <2>1, <2>2 DEF receivingThread, RecvAck, RecvDeliver, RecvMatch, RecvPoll, RecvExit
  <1>6. QueueParts'
    <2>1. CASE UNCHANGED <<cmsgQueue, scheduled>>
      BY <1>1, <1>2, <2>1, QueueUnchanged
    <2>2. CASE RecvPoll(n)
      <3>1. cmsg[n].seq \in Nat /\ rpc[n] = "poll"
        BY <1>1, <2>2 DEF RecvPoll, ReceiverAt, Session, TypeOK, Packet
      <3>2. Got(n, cmsg[n].seq)
        BY <1>1, <3>1 DEF CmsgOwned, CmsgAt
      <3>3. UNCHANGED scheduled /\ PollFor(n, cmsg[n].seq)
        BY <2>2 DEF RecvPoll
      <3> QED
        BY <1>1, <1>2, <3>1, <3>2, <3>3, QueuePoll
    <2> QED
      BY <2>1, <2>2 DEF receivingThread, RecvControl, RecvAck, RecvDeliver, RecvMatch, RecvExit
  <1>7. CmsgOwned'
    <2> SUFFICES ASSUME NEW m \in Node PROVE CmsgAt(m)'
      BY DEF CmsgOwned
    <2>1. CASE cmsg'[m] = cmsg[m] /\ (rpc'[m] = rpc[m] \/ (rpc[m] = "peeked" /\ rpc'[m] = "poll"))
      BY <1>1, <1>2, <2>1, CmsgKept
    <2>2. CASE rpc'[m] \notin {"deliver", "peeked", "poll"}
      BY <2>2 DEF CmsgAt
    <2>3. ASSUME NEW p \in net, RecvControl(n, p), m = n PROVE CmsgAt(m)'
      <3>1. p.dst = n /\ p.type # "ACK"
        BY <2>3 DEF RecvControl, Arrives
      <3>2. PacketNext(p)
        BY <1>1, <1>2, PacketKept
      <3>3. rpc'[n] = "deliver" /\ cmsg'[n] = p
        BY <1>1, <2>3 DEF RecvControl, Session, TypeOK
      <3> QED
        BY <2>3, <3>1, <3>2, <3>3 DEF CmsgAt, PacketNext, Own, OwnNext
    <2>4. ASSUME NEW p \in net, RecvAck(n, p), m = n PROVE CmsgAt(m)'
      <3>1. p.dst = n /\ p.type = "ACK"
        BY <2>4 DEF RecvAck, Arrives
      <3>2. Got(n, p.seq)'
        BY <1>1, <1>2, <3>1, PacketKept DEF PacketNext
      <3>3. rpc'[n] = "peeked" /\ cmsg'[n] = p
        BY <1>1, <2>4 DEF RecvAck, Session, TypeOK
      <3> QED
        BY <2>4, <3>2, <3>3 DEF CmsgAt, Got
    <2>5. CASE m # n
      BY <1>1, <2>1, <2>5, ReceiverMoves
    <2>6. CASE m = n /\ (RecvDeliver(n) \/ RecvPoll(n) \/ RecvExit(n))
      BY <1>1, <2>2, <2>6 DEF RecvDeliver, RecvPoll, RecvExit, Session, TypeOK
    <2>7. CASE m = n /\ RecvMatch(n)
      <3>1. rpc[n] = "peeked"
        BY <2>7 DEF RecvMatch, ReceiverAt
      <3>2. CASE UNCHANGED recvVars
        BY <2>1, <3>2 DEF recvVars
      <3>3. CASE /\ rpc' = [rpc EXCEPT ![n] = IF Matches(n) THEN "poll" ELSE "loop"]
                 /\ cmsg' = [cmsg EXCEPT ![n] = IF Matches(n) THEN @ ELSE NoPacket(n)]
        BY <1>1, <2>1, <2>2, <2>7, <3>1, <3>3 DEF Session, TypeOK
      <3> QED
        BY <2>7, <3>2, <3>3 DEF RecvMatch
    <2> QED
      BY <2>3, <2>4, <2>5, <2>6, <2>7 DEF receivingThread
  <1> QED
    BY <1>3, <1>4, <1>5, <1>6, <1>7 DEF IInv, QueueParts

LEMMA InitInv == Init => IInv
  <1> SUFFICES ASSUME Init PROVE IInv
    OBVIOUS
  <1>1. TypeOK
    BY InitType
  <1>2. \A n \in Node : Len(cmsgQueue[n]) = 0 /\ scheduled[n] = {}
    BY DEF Init
  <1>3. QueueOwned /\ ScheduledOwned /\ KeptOrGot
    BY <1>2 DEF QueueOwned, ScheduledOwned, KeptOrGot
  <1>4. StartedTogether /\ OffIsSilent /\ EntityOwned /\ PacketsOwned /\ CmsgOwned
    BY DEF Init, StartedTogether, OffIsSilent, EntityOwned, EntityAt, PacketsOwned,
           CmsgOwned, CmsgAt
  <1> QED
    BY <1>1, <1>3, <1>4 DEF IInv

LEMMA StepInv == IInv /\ [Next]_vars => IInv'
  <1> SUFFICES ASSUME IInv, [Next]_vars PROVE IInv'
    OBVIOUS
  <1>1. TypeOK'
    BY StepType DEF IInv
  <1>2. CASE UNCHANGED vars
    BY <1>2 DEF vars, IInv, TypeOK, StartedTogether, OffIsSilent, QueueOwned,
       ScheduledOwned, EntityOwned, EntityAt, PacketsOwned, CmsgOwned, CmsgAt, KeptOrGot,
       Own, Got, Gone, Running, InQueue
  <1>3. CASE Next
    BY <1>1, <1>3, MainStep, SendingStep, ReceivingStep DEF Next
  <1> QED
    BY <1>2, <1>3

(* A message scheduled by sendControlMessage leaves cmsgQueue only when    *)
(* the peer's controller got it, its session is over, or the poll race     *)
(* with a heart beat took it: for any number of messages, heart beats and  *)
(* retries.                                                                *)
THEOREM AtLeastOnce == Spec => []DeliveredOrLost
  <1>1. IInv => DeliveredOrLost
    BY DEF IInv, KeptOrGot, Got, Gone, DeliveredOrLost
  <1> QED
    BY <1>1, InitInv, StepInv, PTL DEF Spec

-----------------------------------------------------------------------------
(* Stop-and-wait keeps the order.                                          *)

(* Message s of n was transmitted.                                         *)
Sent(n, s) == \E p \in net : p.dst = Peer[n] /\ p.type # "ACK" /\ p.seq = s

(* Nothing older than s waits in the queue of n.                           *)
First(n, s) == \A i \in 1..Len(cmsgQueue[n]) : s <= cmsgQueue[n][i].seq

(* The sending thread has an entity in its hands.                          *)
Holds(n) == spc[n] \in {"peeked", "held", "drop"}

OrderedAt(n) == \A i, j \in 1..Len(cmsgQueue[n]) :
                  i < j => cmsgQueue[n][i].seq < cmsgQueue[n][j].seq

EntityTopAt(n) == Holds(n) => /\ First(n, entity[n].seq)
                              /\ \A s \in Nat : Sent(n, s) => s <= entity[n].seq

SentFirstAt(n) == \A s \in Nat : Sent(n, s) => First(n, s)

CmsgSentAt(n) == /\ rpc[n] \in {"peeked", "poll"} => Sent(n, cmsg[n].seq)
                 /\ rpc[n] = "deliver" => Sent(Peer[n], cmsg[n].seq)

OrderKeptAt(n) == \A s \in delivered[n], r \in scheduled[Peer[n]] :
                    r < s => r \in delivered[n] \/ r \in lost[Peer[n]] \/ Gone(n)

AcksSent == \A p \in net : p.type = "ACK" => Sent(p.dst, p.seq)

(* The queue is in order, and the thread transmits its head: what was ever *)
(* transmitted is older than what waits (SentFirstAt) and not younger than *)
(* the entity at hand (EntityTopAt).  So when the peer delivers a message, *)
(* the earlier ones have left the queue, and KeptOrGot says where they are.*)
OInv == /\ AcksSent
        /\ \A n \in Node : /\ OrderedAt(n) /\ EntityTopAt(n) /\ SentFirstAt(n)
                           /\ CmsgSentAt(n) /\ OrderKeptAt(n)
                           /\ delivered[n] \subseteq scheduled[Peer[n]]

(* The queue of m after a step.                                            *)
QueueStep(m) ==
  \/ cmsgQueue'[m] = cmsgQueue[m]
  \/ cmsgQueue'[m] = poll(cmsgQueue[m])
  \/ \E s \in Nat : cmsgQueue'[m] = Retried(cmsgQueue[m], s)
  \/ \E e \in Entity : e.seq = nextSeq[m] /\ cmsgQueue'[m] = push(cmsgQueue[m], e)

LEMMA QueueSteps ==
  ASSUME TypeOK, Next, NEW m \in Node
  PROVE  QueueStep(m)
  <1>1. PICK n \in Node : Main(n) \/ cmsgSendingThread(n) \/ receivingThread(n)
    BY DEF Next
  <1>2. cmsgQueue \in [Node -> Seq(Entity)] /\ nextSeq \in [Node -> Nat]
    BY DEF TypeOK
  <1>3. entity[n].seq \in Nat
    BY DEF TypeOK, Entity
  <1>4. CASE UNCHANGED cmsgQueue
    BY <1>4 DEF QueueStep
  <1>5. ASSUME NEW s, PollFor(n, s) PROVE QueueStep(m)
    BY <1>2, <1>5 DEF PollFor, QueueStep
  <1>6. CASE SenderSend(n)
    BY <1>2, <1>3, <1>6 DEF SenderSend, QueueStep
  <1>7. ASSUME NEW t \in MsgType, scheduleMessage(n, t) PROVE QueueStep(m)
    <2> DEFINE e == [type |-> t, seq |-> nextSeq[n], retryTimes |-> 0]
    <2>1. e \in Entity /\ e.seq = nextSeq[n]
      BY <1>2 DEF Entity
    <2>2. cmsgQueue' = [cmsgQueue EXCEPT ![n] = push(@, e)]
      BY <1>7 DEF scheduleMessage
    <2> HIDE DEF e
    <2> QED
      BY <1>2, <2>1, <2>2 DEF QueueStep
  <1>8. CASE Main(n)
    BY <1>4, <1>7, <1>8 DEF Main, startPush2Talk, sendControlMessage, endSession, MsgType
  <1>9. CASE cmsgSendingThread(n)
    BY <1>4, <1>5, <1>6, <1>7, <1>9 DEF cmsgSendingThread, SenderPeek, SenderRetain,
       SenderExpire, SenderDecideDrop, SenderDrop, SenderWait, SenderBeat, SenderSleep, MsgType
  <1>10. CASE receivingThread(n)
    BY <1>4, <1>5, <1>10 DEF receivingThread, RecvControl, RecvAck, RecvDeliver, RecvMatch,
       RecvPoll, RecvExit
  <1> QED
    BY <1>1, <1>8, <1>9, <1>10

(* The entities after a step are old ones, in the order they had, and      *)
(* perhaps one that is younger than all of them.                           *)
LEMMA QueueShape ==
  ASSUME TypeOK, NEW m \in Node, QueueStep(m)
  PROVE  \E d \in {0, 1} : \A i \in 1..Len(cmsgQueue'[m]) :
           \/ i + d \in 1..Len(cmsgQueue[m]) /\ cmsgQueue'[m][i].seq = cmsgQueue[m][i + d].seq
           \/ i = Len(cmsgQueue'[m]) /\ cmsgQueue'[m][i].seq = nextSeq[m]
  <1> DEFINE q == cmsgQueue[m]
  <1>1. q \in Seq(Entity) /\ Len(q) \in Nat
    BY LenProperties DEF TypeOK
  <1>2. CASE cmsgQueue'[m] = q
    BY <1>1, <1>2
  <1>3. CASE cmsgQueue'[m] = poll(q) /\ q # <<>>
    <2>1. /\ Len(Tail(q)) = Len(q) - 1 /\ cmsgQueue'[m] = Tail(q)
          /\ \A i \in 1..Len(Tail(q)) : Tail(q)[i] = q[i + 1]
      BY <1>1, <1>3, HeadTailProperties DEF poll
    <2> QED
      BY <1>1, <2>1
  <1>4. ASSUME NEW s \in Nat, cmsgQueue'[m] = Retried(q, s)
        PROVE  \A i \in 1..Len(cmsgQueue'[m]) :
                 i \in 1..Len(q) /\ cmsgQueue'[m][i].seq = q[i].seq
    <2>1. Retried(q, s) \in Seq(Entity) /\ \A i \in 1..Len(q) : q[i] \in Entity
      BY <1>1, RetriedType, LenProperties
    <2>2. DOMAIN Retried(q, s) = 1..Len(q) /\ DOMAIN Retried(q, s) = 1..Len(Retried(q, s))
      BY <2>1, LenProperties DEF Retried
    <2> QED
      BY <1>4, <2>1, <2>2, AgainType DEF Retried
  <1>5. ASSUME NEW e \in Entity, e.seq = nextSeq[m], cmsgQueue'[m] = push(q, e)
        PROVE  \A i \in 1..Len(cmsgQueue'[m]) :
                 \/ i \in 1..Len(q) /\ cmsgQueue'[m][i].seq = q[i].seq
                 \/ i = Len(cmsgQueue'[m]) /\ cmsgQueue'[m][i].seq = nextSeq[m]
    <2>1. /\ Len(push(q, e)) = Len(q) + 1 /\ push(q, e)[Len(q) + 1] = e
          /\ \A i \in 1..Len(q) : push(q, e)[i] = q[i]
      BY <1>1, AppendProperties DEF push
    <2> QED
      BY <1>1, <1>5, <2>1
  <1> HIDE DEF q
  <1>6. ASSUME \A i \in 1..Len(cmsgQueue'[m]) :
                 \/ i \in 1..Len(q) /\ cmsgQueue'[m][i].seq = q[i].seq
                 \/ i = Len(cmsgQueue'[m]) /\ cmsgQueue'[m][i].seq = nextSeq[m]
        PROVE  \A i \in 1..Len(cmsgQueue'[m]) :
                 \/ i + 0 \in 1..Len(q) /\ cmsgQueue'[m][i].seq = q[i + 0].seq
                 \/ i = Len(cmsgQueue'[m]) /\ cmsgQueue'[m][i].seq = nextSeq[m]
    BY <1>6
  <1>7. cmsgQueue'[m] = poll(q) /\ q = <<>> => cmsgQueue'[m] = q
    BY DEF poll
  <1> QED
    BY <1>2, <1>3, <1>4, <1>5, <1>6, <1>7 DEF QueueStep, q

LEMMA FirstKept ==
  ASSUME TypeOK, NEW m \in Node, QueueStep(m), NEW s \in Nat, s < nextSeq[m], First(m, s)
  PROVE  First(m, s)'
  <1>1. nextSeq[m] \in Nat
    BY DEF TypeOK
  <1> QED
    BY <1>1, QueueShape DEF First

LEMMA OrderedKept ==
  ASSUME TypeOK, TypeOK', QueueOwned, NEW m \in Node, QueueStep(m), OrderedAt(m)
  PROVE  OrderedAt(m)'
  <1>1. /\ cmsgQueue[m] \in Seq(Entity) /\ Len(cmsgQueue[m]) \in Nat
        /\ cmsgQueue'[m] \in Seq(Entity) /\ Len(cmsgQueue'[m]) \in Nat
    BY LenProperties DEF TypeOK
  <1>2. \A i \in 1..Len(cmsgQueue[m]) : cmsgQueue[m][i].seq < nextSeq[m]
    BY DEF QueueOwned, Own
  <1>3. PICK d \in {0, 1} : \A i \in 1..Len(cmsgQueue'[m]) :
           \/ i + d \in 1..Len(cmsgQueue[m]) /\ cmsgQueue'[m][i].seq = cmsgQueue[m][i + d].seq
           \/ i = Len(cmsgQueue'[m]) /\ cmsgQueue'[m][i].seq = nextSeq[m]
    BY QueueShape
  <1> SUFFICES ASSUME NEW i \in 1..Len(cmsgQueue'[m]), NEW j \in 1..Len(cmsgQueue'[m]), i < j
               PROVE  cmsgQueue'[m][i].seq < cmsgQueue'[m][j].seq
    BY DEF OrderedAt
  <1>4. i # Len(cmsgQueue'[m])
    BY <1>1
  <1>5. i + d \in 1..Len(cmsgQueue[m]) /\ cmsgQueue'[m][i].seq = cmsgQueue[m][i + d].seq
    BY <1>3, <1>4
  <1>6. CASE j + d \in 1..Len(cmsgQueue[m]) /\ cmsgQueue'[m][j].seq = cmsgQueue[m][j + d].seq
    <2>1. i + d < j + d
      BY <1>1
    <2> QED
      BY <1>5, <1>6, <2>1 DEF OrderedAt
  <1>7. CASE cmsgQueue'[m][j].seq = nextSeq[m]
    BY <1>2, <1>5, <1>7
  <1> QED
    BY <1>3, <1>6, <1>7

(* What is in the net stays there; the one way to be transmitted is to be  *)
(* the entity at hand.                                                     *)
LEMMA SentStep ==
  ASSUME TypeOK, Next, NEW m \in Node, NEW s \in Nat
  PROVE  /\ Sent(m, s) => Sent(m, s)'
         /\ Sent(m, s)' => Sent(m, s) \/ (SenderSend(m) /\ s = entity[m].seq)
  <1>1. PICK n \in Node : Main(n) \/ cmsgSendingThread(n) \/ receivingThread(n)
    BY DEF Next
  <1>2. Peer[m] \in Node /\ Peer[n] \in Node /\ Peer[Peer[n]] = n /\ Peer[Peer[m]] = m
    BY PeerAssumption
  <1>3. CASE UNCHANGED net
    BY <1>3 DEF Sent
  <1>4. CASE SenderSend(n)
    <2> DEFINE new == [dst |-> Peer[n], type |-> entity[n].type, seq |-> entity[n].seq]
    <2>1. net \subseteq net' /\ net' \subseteq net \cup {new}
      BY <1>4 DEF SenderSend, sendMessage
    <2>2. new.dst = Peer[n] /\ new.seq = entity[n].seq
      OBVIOUS
    <2>3. Sent(m, s) => Sent(m, s)'
      BY <2>1 DEF Sent
    <2> HIDE DEF new
    <2>4. Sent(m, s)' => Sent(m, s) \/ (Peer[n] = Peer[m] /\ s = entity[n].seq)
      BY <2>1, <2>2 DEF Sent
    <2> QED
      BY <1>2, <1>4, <2>3, <2>4
  <1>5. ASSUME NEW p \in net, RecvControl(n, p) PROVE Sent(m, s) <=> Sent(m, s)'
    <2> DEFINE new == [dst |-> Peer[n], type |-> "ACK", seq |-> p.seq]
    <2>1. net \subseteq net' /\ net' \subseteq net \cup {new}
      BY <1>5 DEF RecvControl, sendMessage
    <2>2. new.type = "ACK"
      OBVIOUS
    <2> HIDE DEF new
    <2> QED
      BY <2>1, <2>2 DEF Sent
  <1> QED
    BY <1>1, <1>3, <1>4, <1>5 DEF Main, startPush2Talk, sendControlMessage, endSession,
       cmsgSendingThread, SenderPeek, SenderRetain, SenderExpire, SenderDecideDrop,
       SenderDrop, SenderWait, SenderBeat, SenderSleep, receivingThread, RecvAck,
       RecvDeliver, RecvMatch, RecvPoll, RecvExit

(* The sending thread gets an entity by peeking and keeps it until it has  *)
(* sent, dropped or left it.                                               *)
LEMMA HoldsStep ==
  ASSUME Session, Next, NEW m \in Node, Holds(m)'
  PROVE  \/ Holds(m) /\ entity'[m] = entity[m] /\ ~SenderSend(m)
         \/ /\ cmsgQueue[m] # <<>> /\ entity'[m] = Head(cmsgQueue[m])
            /\ UNCHANGED <<cmsgQueue, net, rpc, cmsg, rhead>>
  <1>1. PICK n \in Node : Main(n) \/ cmsgSendingThread(n) \/ receivingThread(n)
    BY DEF Next
  <1>2. /\ spc \in [Node -> {"off", "loop", "peeked", "held", "drop", "beat", "done"}]
        /\ entity \in [Node -> Entity]
    BY DEF Session, TypeOK
  <1>3. SenderSend(m) => ~Holds(m)'
    BY <1>2 DEF SenderSend, Holds
  <1>4. CASE spc'[m] = spc[m] /\ entity'[m] = entity[m]
    BY <1>3, <1>4 DEF Holds
  <1>5. CASE Main(n)
    <2>1. CASE startPush2Talk(n)
      BY <1>2, <1>4, <2>1 DEF startPush2Talk, Holds
    <2> QED
      BY <1>4, <1>5, <2>1 DEF Main, sendControlMessage, endSession, sendVars
  <1>6. CASE receivingThread(n)
    BY <1>4, <1>6 DEF receivingThread, RecvControl, RecvAck, RecvDeliver, RecvMatch,
       RecvPoll, RecvExit, sendVars
  <1>7. CASE cmsgSendingThread(n) /\ m # n
    BY <1>4, <1>7, SenderMoves
  <1>8. CASE cmsgSendingThread(n) /\ m = n
    <2>1. CASE SenderPeek(n)
      BY <1>2, <1>8, <2>1 DEF SenderPeek, Holds, recvVars
    <2>2. CASE SenderRetain(n)
      BY <1>2, <1>3, <1>8, <2>2 DEF SenderRetain, SenderAt, Holds
    <2>3. CASE SenderDecideDrop(n)
      BY <1>2, <1>3, <1>8, <2>3 DEF SenderDecideDrop, SenderAt, Holds
    <2>4. CASE SenderExpire(n) \/ SenderDrop(n) \/ SenderSend(n) \/ SenderWait(n)
      BY <1>2, <1>8, <2>4 DEF SenderExpire, SenderDrop, SenderSend, SenderWait, Holds
    <2>5. CASE SenderBeat(n) \/ SenderSleep(n)
      BY <1>2, <1>8, <2>5 DEF SenderBeat, SenderSleep, Holds
    <2> QED
      BY <1>8, <2>1, <2>2, <2>3, <2>4, <2>5 DEF cmsgSendingThread
  <1> QED
    BY <1>1, <1>5, <1>6, <1>7, <1>8

LEMMA StepGrows ==
  ASSUME IInv, Next
  PROVE  \A m \in Node : Grows(m)
  <1>1. Session /\ CmsgOwned
    BY DEF IInv, Session
  <1> QED
    BY <1>1, MainGrows, SendingGrows, ReceivingGrows DEF Next

LEMMA EntityTopStep ==
  ASSUME IInv, IInv', OInv, Next, NEW m \in Node
  PROVE  EntityTopAt(m)'
  <1> SUFFICES ASSUME Holds(m)'
               PROVE  (First(m, entity[m].seq) /\ \A s \in Nat : Sent(m, s) => s <= entity[m].seq)'
    BY DEF EntityTopAt
  <1>1. Session /\ TypeOK /\ QueueStep(m) /\ EntityOwned
    BY QueueSteps DEF IInv, Session
  <1>2. CASE Holds(m) /\ entity'[m] = entity[m] /\ ~SenderSend(m)
    <2>1. entity[m].seq \in Nat /\ entity[m].seq < nextSeq[m]
      BY <1>1, <1>2 DEF TypeOK, Entity, EntityOwned, EntityAt, Own, Holds
    <2>2. First(m, entity[m].seq) /\ \A s \in Nat : Sent(m, s) => s <= entity[m].seq
      BY <1>2 DEF OInv, EntityTopAt
    <2>3. \A s \in Nat : Sent(m, s)' => s <= entity'[m].seq
      BY <1>1, <1>2, <2>2, SentStep
    <2>4. First(m, entity[m].seq)'
      <3>1. \A s \in Nat : s = entity[m].seq => First(m, s)'
        BY <1>1, <2>1, <2>2, FirstKept
      <3> QED
        BY <1>2, <2>1, <3>1 DEF First
    <2> QED
      BY <2>3, <2>4
  <1>3. CASE /\ cmsgQueue[m] # <<>> /\ entity'[m] = Head(cmsgQueue[m])
             /\ UNCHANGED <<cmsgQueue, net, rpc, cmsg, rhead>>
    <2>1. cmsgQueue[m] \in Seq(Entity) /\ Len(cmsgQueue[m]) \in Nat
      BY <1>1, LenProperties DEF TypeOK
    <2>2. 1 \in 1..Len(cmsgQueue[m]) /\ Head(cmsgQueue[m]) = cmsgQueue[m][1]
      BY <1>3, <2>1, HeadTailProperties, EmptySeq
    <2>3. \A s \in Nat : Sent(m, s) => s <= cmsgQueue[m][1].seq
      BY <2>2 DEF OInv, SentFirstAt, First
    <2>4. First(m, cmsgQueue[m][1].seq)
      <3>0. \A i \in 1..Len(cmsgQueue[m]) : cmsgQueue[m][i] \in Entity
        BY <2>1, LenProperties
      <3>1. \A i \in 1..Len(cmsgQueue[m]) : cmsgQueue[m][i].seq \in Nat
        BY <3>0 DEF Entity
      <3>2. \A i \in 1..Len(cmsgQueue[m]) : i # 1 => cmsgQueue[m][1].seq < cmsgQueue[m][i].seq
        BY <2>1, <2>2 DEF OInv, OrderedAt
      <3>3. \A i \in 1..Len(cmsgQueue[m]) : cmsgQueue[m][1].seq <= cmsgQueue[m][i].seq
        BY <2>2, <3>1, <3>2
      <3> QED
        BY <3>3 DEF First
    <2> QED
      BY <1>3, <2>2, <2>3, <2>4 DEF Sent, First
  <1> QED
    BY <1>1, <1>2, <1>3, HoldsStep

LEMMA SentFirstStep ==
  ASSUME IInv, IInv', OInv, Next, NEW m \in Node
  PROVE  SentFirstAt(m)'
  <1> SUFFICES ASSUME NEW s \in Nat, Sent(m, s)' PROVE First(m, s)'
    BY DEF SentFirstAt
  <1>1. TypeOK /\ QueueStep(m) /\ EntityOwned /\ PacketsOwned
    BY QueueSteps DEF IInv
  <1>2. CASE Sent(m, s)
    <2>1. s < nextSeq[m]
      BY <1>1, <1>2, PeerAssumption DEF Sent, PacketsOwned, Own
    <2> QED
      BY <1>1, <1>2, <2>1, FirstKept DEF OInv, SentFirstAt
  <1>3. CASE SenderSend(m) /\ s = entity[m].seq
    <2>1. Holds(m)
      BY <1>3 DEF SenderSend, SenderAt, Holds
    <2>2. s < nextSeq[m] /\ First(m, s)
      BY <1>1, <1>3, <2>1 DEF EntityOwned, EntityAt, Own, Holds, OInv, EntityTopAt
    <2> QED
      BY <1>1, <2>2, FirstKept
  <1> QED
    BY <1>1, <1>2, <1>3, SentStep

LEMMA AcksStep ==
  ASSUME IInv, OInv, Next
  PROVE  AcksSent'
  <1> SUFFICES ASSUME NEW p \in net', p.type = "ACK" PROVE Sent(p.dst, p.seq)'
    BY DEF AcksSent
  <1>1. TypeOK /\ net \subseteq Packet
    BY DEF IInv, TypeOK
  <1>2. CASE p \in net
    <2>1. p.dst \in Node /\ p.seq \in Nat /\ Sent(p.dst, p.seq)
      BY <1>1, <1>2 DEF Packet, OInv, AcksSent
    <2>2. \A s \in Nat : s = p.seq => Sent(p.dst, s)'
      BY <1>1, <2>1, SentStep
    <2> QED
      BY <2>1, <2>2
  <1>3. CASE p \notin net
    <2>1. PICK n \in Node : Main(n) \/ cmsgSendingThread(n) \/ receivingThread(n)
      BY DEF Next
    <2>2. ASSUME NEW c \in net, RecvControl(n, c) PROVE Sent(p.dst, p.seq)'
      <3>1. p = [dst |-> Peer[n], type |-> "ACK", seq |-> c.seq] /\ c \in net'
        BY <1>3, <2>2 DEF RecvControl, sendMessage
      <3>2. c.dst = n /\ c.type # "ACK" /\ Peer[Peer[n]] = n
        BY <2>2, PeerAssumption DEF RecvControl, Arrives
      <3> QED
        BY <3>1, <3>2 DEF Sent
    <2>3. ~SenderSend(n)
      <3>1. entity[n].type # "ACK"
        BY <1>1, TypeAssumption DEF TypeOK, Entity, MsgType
      <3> QED
        BY <1>3, <3>1 DEF SenderSend, sendMessage
    <2> QED
      BY <1>3, <2>1, <2>2, <2>3 DEF Main, startPush2Talk, sendControlMessage, endSession,
         cmsgSendingThread, SenderPeek, SenderRetain, SenderExpire, SenderDecideDrop,
         SenderDrop, SenderWait, SenderBeat, SenderSleep, receivingThread, RecvAck,
         RecvDeliver, RecvMatch, RecvPoll, RecvExit
  <1> QED
    BY <1>2, <1>3

(* What the receiving thread handles came from the net.                    *)
LEMMA CmsgStep ==
  ASSUME Session, Next, NEW m \in Node, rpc'[m] \in {"deliver", "peeked", "poll"}
  PROVE  \/ /\ cmsg'[m] = cmsg[m]
            /\ rpc'[m] = rpc[m] \/ (rpc[m] = "peeked" /\ rpc'[m] = "poll")
         \/ \E p \in net : RecvControl(m, p) /\ rpc'[m] = "deliver" /\ cmsg'[m] = p
         \/ \E p \in net : RecvAck(m, p) /\ rpc'[m] = "peeked" /\ cmsg'[m] = p
  <1>1. PICK n \in Node : Main(n) \/ cmsgSendingThread(n) \/ receivingThread(n)
    BY DEF Next
  <1>2. /\ rpc \in [Node -> {"off", "loop", "deliver", "peeked", "poll", "done"}]
        /\ cmsg \in [Node -> Packet]
    BY DEF Session, TypeOK
  <1>3. CASE Main(n)
    <2>1. CASE startPush2Talk(n)
      BY <1>2, <2>1 DEF startPush2Talk
    <2> QED
      BY <1>3, <2>1 DEF Main, sendControlMessage, endSession, recvVars
  <1>4. CASE cmsgSendingThread(n)
    BY <1>4 DEF cmsgSendingThread, SenderPeek, SenderRetain, SenderExpire,
       SenderDecideDrop, SenderDrop, SenderSend, SenderWait, SenderBeat, SenderSleep, recvVars
  <1>5. CASE receivingThread(n) /\ m # n
    BY <1>5, ReceiverMoves
  <1>6. CASE receivingThread(n) /\ m = n
    <2>1. ASSUME NEW p \in net, RecvControl(n, p) PROVE rpc'[n] = "deliver" /\ cmsg'[n] = p
      BY <1>2, <2>1 DEF RecvControl
    <2>2. ASSUME NEW p \in net, RecvAck(n, p) PROVE rpc'[n] = "peeked" /\ cmsg'[n] = p
      BY <1>2, <2>2 DEF RecvAck
    <2>3. CASE RecvMatch(n)
      BY <1>2, <1>6, <2>3 DEF RecvMatch, ReceiverAt, recvVars
    <2>4. ~RecvDeliver(n) /\ ~RecvPoll(n) /\ ~RecvExit(n)
      BY <1>2, <1>6 DEF RecvDeliver, RecvPoll, RecvExit
    <2> QED
      BY <1>6, <2>1, <2>2, <2>3, <2>4 DEF receivingThread
  <1> QED
    BY <1>1, <1>3, <1>4, <1>5, <1>6

LEMMA CmsgSentStep ==
  ASSUME IInv, OInv, Next, NEW m \in Node
  PROVE  CmsgSentAt(m)'
  <1>1. Session /\ TypeOK /\ Peer[m] \in Node /\ Peer[Peer[m]] = m
    BY PeerAssumption DEF IInv, Session
  <1>2. CASE rpc'[m] \notin {"deliver", "peeked", "poll"}
    BY <1>2 DEF CmsgSentAt
  <1>3. CASE /\ cmsg'[m] = cmsg[m]
             /\ rpc'[m] = rpc[m] \/ (rpc[m] = "peeked" /\ rpc'[m] = "poll")
    <2>1. cmsg[m].seq \in Nat
      BY <1>1 DEF TypeOK, Packet
    <2>2. \A s \in Nat : (Sent(m, s) => Sent(m, s)') /\ (Sent(Peer[m], s) => Sent(Peer[m], s)')
      BY <1>1, SentStep
    <2>3. CmsgSentAt(m)
      BY DEF OInv
    <2>4. \A s \in Nat : s = cmsg[m].seq =>
            /\ rpc'[m] \in {"peeked", "poll"} => Sent(m, s)'
            /\ rpc'[m] = "deliver" => Sent(Peer[m], s)'
      BY <1>3, <2>2, <2>3 DEF CmsgSentAt
    <2>5. /\ rpc'[m] \in {"peeked", "poll"} => Sent(m, cmsg[m].seq)'
          /\ rpc'[m] = "deliver" => Sent(Peer[m], cmsg[m].seq)'
      BY <1>3, <2>1, <2>4 DEF Sent
    <2> QED
      BY <2>5 DEF CmsgSentAt
  <1>4. ASSUME NEW p \in net, RecvControl(m, p), rpc'[m] = "deliver", cmsg'[m] = p
        PROVE  CmsgSentAt(m)'
    <2>1. p \in net' /\ p.dst = m /\ p.type # "ACK"
      BY <1>4 DEF RecvControl, Arrives, sendMessage
    <2> QED
      BY <1>1, <1>4, <2>1 DEF CmsgSentAt, Sent
  <1>5. ASSUME NEW p \in net, RecvAck(m, p), rpc'[m] = "peeked", cmsg'[m] = p
        PROVE  CmsgSentAt(m)'
    <2>1. Sent(m, p.seq) /\ UNCHANGED net
      BY <1>5 DEF RecvAck, Arrives, OInv, AcksSent
    <2> QED
      BY <1>5, <2>1 DEF CmsgSentAt, Sent
  <1> QED
    BY <1>1, <1>2, <1>3, <1>4, <1>5, CmsgStep

(* A message is handed to the controller when all the earlier ones were,   *)
(* but for the lost ones.                                                  *)
LEMMA DeliverInOrder ==
  ASSUME IInv, OInv, NEW n \in Node, RecvDeliver(n), receiving[n], cmsg[n].type # "HB2"
  PROVE  /\ cmsg[n].seq \in scheduled[Peer[n]]
         /\ \A r \in scheduled[Peer[n]] :
              r < cmsg[n].seq => r \in delivered[n] \/ r \in lost[Peer[n]]
  <1> DEFINE s == cmsg[n].seq
             k == Peer[n]
  <1>1. k \in Node /\ Peer[k] = n /\ s \in Nat /\ scheduled[k] \subseteq Nat
    BY PeerAssumption DEF IInv, TypeOK, Packet
  <1>2. rpc[n] = "deliver" /\ ~Gone(n)
    BY DEF RecvDeliver, ReceiverAt, Gone, Running
  <1>3. s \in scheduled[k]
    BY <1>2 DEF IInv, CmsgOwned, CmsgAt, Own
  <1>4. First(k, s)
    BY <1>1, <1>2 DEF OInv, CmsgSentAt, SentFirstAt
  <1>5. ASSUME NEW r \in scheduled[k], r < s PROVE r \in delivered[n] \/ r \in lost[k]
    <2>1. ~InQueue(cmsgQueue[k], r)
      <3>1. \A i \in 1..Len(cmsgQueue[k]) : s <= cmsgQueue[k][i].seq
        BY <1>4 DEF First
      <3> QED
        BY <1>1, <1>5, <3>1 DEF InQueue
    <2>2. r \in lost[k] \/ Got(k, r)
      BY <1>1, <2>1 DEF IInv, KeptOrGot
    <2>3. r # s
      BY <1>1, <1>5
    <2> QED
      BY <1>1, <1>2, <2>2, <2>3 DEF Got
  <1> QED
    BY <1>3, <1>5

(* The steps that change what was scheduled, delivered or lost.            *)
LEMMA HistoryStep ==
  ASSUME TypeOK, Next
  PROVE  \/ UNCHANGED <<scheduled, delivered, lost>>
         \/ \E n \in Node : /\ scheduled' = [scheduled EXCEPT ![n] = @ \cup {nextSeq[n]}]
                            /\ UNCHANGED <<delivered, lost>>
         \/ \E n \in Node : RecvDeliver(n)
         \/ \E n \in Node, s \in Nat : PollFor(n, s) /\ UNCHANGED <<scheduled, delivered>>
  <1>1. PICK n \in Node : Main(n) \/ cmsgSendingThread(n) \/ receivingThread(n)
    BY DEF Next
  <1>2. entity[n].seq \in Nat /\ cmsg[n].seq \in Nat
    BY DEF TypeOK, Entity, Packet
  <1>3. CASE Main(n)
    BY <1>3 DEF Main, startPush2Talk, sendControlMessage, endSession, history
  <1>4. CASE cmsgSendingThread(n)
    BY <1>2, <1>4 DEF cmsgSendingThread, SenderPeek, SenderRetain, SenderExpire,
       SenderDecideDrop, SenderDrop, SenderSend, SenderWait, SenderBeat, SenderSleep, history
  <1>5. CASE receivingThread(n)
    BY <1>2, <1>5 DEF receivingThread, RecvControl, RecvAck, RecvMatch, RecvPoll, RecvExit, history
  <1> QED
    BY <1>1, <1>3, <1>4, <1>5

LEMMA DeliveredStep ==
  ASSUME IInv, IInv', OInv, Next, NEW m \in Node
  PROVE  OrderKeptAt(m)' /\ delivered'[m] \subseteq scheduled'[Peer[m]]
  <1> DEFINE k == Peer[m]
  <1>1. /\ TypeOK /\ Grows(m) /\ k \in Node /\ Grows(k) /\ Peer[k] = m
        /\ nextSeq[k] \in Nat /\ scheduled[k] \subseteq Nat
    BY StepGrows, PeerAssumption DEF IInv, TypeOK
  <1>2. \A s \in scheduled[k] : s < nextSeq[k]
    BY <1>1 DEF IInv, ScheduledOwned
  <1>3. delivered[m] \subseteq scheduled[k] /\ OrderKeptAt(m)
    BY DEF OInv
  <1>4. scheduled[k] \subseteq scheduled'[k] /\ lost[k] \subseteq lost'[k]
    BY <1>1, <1>2 DEF Grows
  <1>5. CASE UNCHANGED <<scheduled, delivered>>
    BY <1>1, <1>3, <1>4, <1>5 DEF OrderKeptAt, Grows
  <1>6. ASSUME NEW n \in Node, UNCHANGED <<delivered, lost>>,
               scheduled' = [scheduled EXCEPT ![n] = @ \cup {nextSeq[n]}]
        PROVE  OrderKeptAt(m)' /\ delivered'[m] \subseteq scheduled'[k]
    <2>1. delivered'[m] \subseteq scheduled'[k]
      BY <1>3, <1>4, <1>6
    <2>2. scheduled'[k] \subseteq scheduled[k] \cup {nextSeq[k]}
      BY <1>1, <1>6 DEF TypeOK
    <2>3. ASSUME NEW s \in delivered[m], NEW r \in scheduled'[k], r < s
          PROVE  r \in delivered[m] \/ r \in lost[k] \/ Gone(m)'
      <3>1. s \in Nat /\ s < nextSeq[k]
        BY <1>1, <1>2, <1>3
      <3>2. r \in scheduled[k]
        BY <1>1, <2>2, <2>3, <3>1
      <3> QED
        BY <1>1, <1>3, <2>3, <3>2 DEF OrderKeptAt, Grows
    <2> QED
      BY <1>6, <2>1, <2>3 DEF OrderKeptAt
  <1>7. ASSUME NEW n \in Node, RecvDeliver(n)
        PROVE  OrderKeptAt(m)' /\ delivered'[m] \subseteq scheduled'[k]
    <2>1. UNCHANGED <<scheduled, lost>>
      BY <1>7 DEF RecvDeliver
    <2>2. CASE m = n /\ cmsg[n].type # "HB2" /\ receiving[n]
      <3>1. delivered'[m] = delivered[m] \cup {cmsg[m].seq}
        BY <1>1, <1>7, <2>2 DEF RecvDeliver, TypeOK
      <3>2. /\ cmsg[m].seq \in scheduled[k]
            /\ \A r \in scheduled[k] : r < cmsg[m].seq => r \in delivered[m] \/ r \in lost[k]
        BY <1>7, <2>2, DeliverInOrder
      <3> QED
        BY <1>1, <1>3, <2>1, <3>1, <3>2 DEF OrderKeptAt, Grows
    <2>3. CASE ~(m = n /\ cmsg[n].type # "HB2" /\ receiving[n])
      <3>1. delivered'[m] = delivered[m]
        BY <1>1, <1>7, <2>3 DEF RecvDeliver, TypeOK
      <3> QED
        BY <1>1, <1>3, <2>1, <3>1 DEF OrderKeptAt, Grows
    <2> QED
      BY <2>2, <2>3
  <1> QED
    BY <1>1, <1>5, <1>6, <1>7, HistoryStep

LEMMA InitOrder == Init => OInv
  <1> SUFFICES ASSUME Init PROVE OInv
    OBVIOUS
  <1>1. AcksSent /\ \A n \in Node : EntityTopAt(n) /\ SentFirstAt(n) /\ CmsgSentAt(n)
    BY DEF Init, AcksSent, EntityTopAt, Holds, SentFirstAt, Sent, CmsgSentAt
  <1>2. \A n \in Node : OrderedAt(n)
    BY DEF Init, OrderedAt
  <1>3. \A n \in Node : OrderKeptAt(n) /\ delivered[n] \subseteq scheduled[Peer[n]]
    BY PeerAssumption DEF Init, OrderKeptAt
  <1> QED
    BY <1>1, <1>2, <1>3 DEF OInv

LEMMA StepOrder == IInv /\ IInv' /\ OInv /\ [Next]_vars => OInv'
  <1> SUFFICES ASSUME IInv, IInv', OInv, [Next]_vars PROVE OInv'
    OBVIOUS
  <1>1. CASE UNCHANGED vars
    BY <1>1 DEF vars, OInv, AcksSent, Sent, OrderedAt, EntityTopAt, Holds, First,
       SentFirstAt, CmsgSentAt, OrderKeptAt, Gone, Running
  <1>2. CASE Next
    <2>1. \A m \in Node : OrderedAt(m)'
      BY <1>2, QueueSteps, OrderedKept DEF IInv, OInv
    <2> QED
      BY <1>2, <2>1, EntityTopStep, SentFirstStep, AcksStep, CmsgSentStep, DeliveredStep
         DEF OInv
  <1> QED
    BY <1>1, <1>2

(* Control messages reach the peer's controller in the order in which      *)
(* sendControlMessage queued them, but for the lost ones, however the      *)
(* network reorders, duplicates and drops: for any number of messages,     *)
(* heart beats and retries.                                                *)
THEOREM InOrder == Spec => []InOrderDelivery
  <1>1. IInv /\ OInv => InOrderDelivery
    <2> SUFFICES ASSUME IInv, OInv, NEW n \in Node, Running(Peer[n]),
                        NEW s \in scheduled[n] \cap delivered[Peer[n]],
                        NEW r \in scheduled[n], r < s
                 PROVE  r \in delivered[Peer[n]] \cup lost[n]
      BY DEF InOrderDelivery
    <2>1. Peer[n] \in Node /\ Peer[Peer[n]] = n
      BY PeerAssumption
    <2> QED
      BY <2>1 DEF OInv, OrderKeptAt, Gone
  <1> QED
    BY <1>1, InitInv, StepInv, InitOrder, StepOrder, PTL DEF Spec

(* Every step of the two TalkManagers is a step of the channel that the    *)
(* controllers are promised, or changes nothing they see: sendControl-     *)
(* Message schedules, the call of the delegate delivers, a poll that takes *)
(* the wrong message loses it.                                             *)
THEOREM OffersChannel == Spec => ImplementsChannel
  <1>1. Init => Channel!CInit
    BY DEF Init, Channel!CInit
  <1>2. ASSUME IInv, OInv, [Next]_vars PROVE [Channel!CNext]_(Channel!cvars)
    <2>1. CASE UNCHANGED <<scheduled, delivered, lost>>
      BY <2>1 DEF Channel!cvars
    <2>2. CASE Next
      <3>1. TypeOK
        BY <1>2 DEF IInv
      <3>2. ASSUME NEW n \in Node, UNCHANGED <<delivered, lost>>,
                   scheduled' = [scheduled EXCEPT ![n] = @ \cup {nextSeq[n]}]
            PROVE  Channel!CNext
        <4>1. \A r \in scheduled[n] : r < nextSeq[n]
          BY <1>2 DEF IInv, ScheduledOwned
        <4>2. nextSeq[n] \in scheduled'[n]
          BY <3>1, <3>2 DEF TypeOK
        <4>3. Channel!Schedule(n)
          BY <3>2, <4>1, <4>2 DEF Channel!Schedule
        <4> QED
          BY <4>3 DEF Channel!CNext
      <3>3. ASSUME NEW n \in Node, RecvDeliver(n) PROVE [Channel!CNext]_(Channel!cvars)
        <4>1. /\ UNCHANGED <<scheduled, lost>>
              /\ delivered' = [delivered EXCEPT ![n] = IF cmsg[n].type # "HB2" /\ receiving[n]
                                                        THEN @ \cup {cmsg[n].seq} ELSE @]
          BY <3>3 DEF RecvDeliver
        <4>2. CASE cmsg[n].type # "HB2" /\ receiving[n] /\ cmsg[n].seq \notin delivered[n]
          <5>1. /\ cmsg[n].seq \in scheduled[Peer[n]]
                /\ \A r \in scheduled[Peer[n]] :
                     r < cmsg[n].seq => r \in delivered[n] \/ r \in lost[Peer[n]]
            BY <1>2, <3>3, <4>2, DeliverInOrder
          <5>2. Channel!Deliver(n, cmsg[n].seq)
            BY <4>1, <4>2, <5>1 DEF Channel!Deliver
          <5> QED
            BY <5>1, <5>2 DEF Channel!CNext
        <4>3. CASE ~(cmsg[n].type # "HB2" /\ receiving[n] /\ cmsg[n].seq \notin delivered[n])
          <5>1. UNCHANGED delivered
            BY <3>1, <4>1, <4>3 DEF TypeOK
          <5> QED
            BY <2>1, <4>1, <5>1
        <4> QED
          BY <4>2, <4>3
      <3>4. ASSUME NEW n \in Node, NEW s \in Nat, PollFor(n, s), UNCHANGED <<scheduled, delivered>>
            PROVE  [Channel!CNext]_(Channel!cvars)
        <4> DEFINE q == cmsgQueue[n]
        <4>1. lost' = [lost EXCEPT ![n] = @ \cup MisPolled(q, s)] /\ lost \in [Node -> SUBSET Nat]
          BY <3>1, <3>4 DEF PollFor, TypeOK
        <4>2. CASE MisPolled(q, s) \subseteq lost[n]
          <5>1. UNCHANGED lost
            BY <4>1, <4>2
          <5> QED
            BY <2>1, <3>4, <5>1
        <4>3. CASE ~(MisPolled(q, s) \subseteq lost[n])
          <5>1. q # <<>> /\ Head(q).type # "HB2" /\ MisPolled(q, s) = {Head(q).seq}
            BY <4>3 DEF MisPolled
          <5>2. q \in Seq(Entity)
            BY <3>1 DEF TypeOK
          <5>3. 1 \in 1..Len(q) /\ Head(q) = q[1]
            BY <5>1, <5>2, HeadTailProperties, LenProperties, EmptySeq
          <5>4. Head(q).seq \in scheduled[n]
            BY <1>2, <5>1, <5>3 DEF IInv, QueueOwned, Own
          <5>5. Channel!Lose(n, Head(q).seq)
            BY <3>4, <4>1, <4>3, <5>1, <5>4 DEF Channel!Lose
          <5> QED
            BY <5>4, <5>5 DEF Channel!CNext
        <4> QED
          BY <4>2, <4>3
      <3> QED
        BY <2>1, <2>2, <3>1, <3>2, <3>3, <3>4, HistoryStep
    <2> QED
      BY <1>2, <2>1, <2>2 DEF vars
  <1> QED
    BY <1>1, <1>2, InitInv, StepInv, InitOrder, StepOrder, PTL
       DEF Spec, ImplementsChannel, Channel!CSpec

-----------------------------------------------------------------------------
(* What heart beats cost.                                                  *)

(* The sending thread is about to drop a heart beat, or may decide to,     *)
(* that the receiving thread has removed already.                          *)
LateDrop(n) == Holds(n) /\ entity[n].type = "HB2" /\ ~InQueue(cmsgQueue[n], entity[n].seq)

(* The receiving thread is about to poll for message s.                    *)
PollsFor(n, s) == /\ rpc[n] = "poll" \/ (rpc[n] = "peeked" /\ Matches(n))
                  /\ cmsg[n].seq = s

(* It is about to poll for a message that left the queue meanwhile.        *)
LatePoll(n) == \E s \in Nat : PollsFor(n, s) /\ ~InQueue(cmsgQueue[n], s)

Types(q) == [i \in DOMAIN q |-> q[i].type]
QueuedBeats(n) == Places(Types(cmsgQueue[n]), "HB2")

(* What n lost and may still lose: a heart beat in the queue can be polled *)
(* by both threads, and the late one of them takes another message.        *)
Cost(n) == Cardinality(lost[n]) + Cardinality(QueuedBeats(n))
             + (IF LateDrop(n) THEN 1 ELSE 0) + (IF LatePoll(n) THEN 1 ELSE 0)

BInv == \A n \in Node : IsFiniteSet(lost[n]) /\ Cost(n) <= beats[n]

LEMMA TypesType ==
  ASSUME NEW q \in Seq(Entity)
  PROVE  Types(q) \in Seq(MsgType) /\ Len(Types(q)) = Len(q)
  <1>1. DOMAIN q = 1..Len(q) /\ Len(q) \in Nat /\ \A i \in 1..Len(q) : q[i] \in Entity
    BY LenProperties
  <1>2. Types(q) \in [1..Len(q) -> MsgType]
    BY <1>1 DEF Types, Entity
  <1> QED
    BY <1>1, <1>2, IsASeq, LenProperties

LEMMA TypesPush ==
  ASSUME NEW q \in Seq(Entity), NEW e \in Entity
  PROVE  Types(push(q, e)) = Append(Types(q), e.type)
  <1> DEFINE r == push(q, e)
             t == Append(Types(q), e.type)
  <1>1. /\ Len(q) \in Nat /\ DOMAIN q = 1..Len(q) /\ DOMAIN r = 1..(Len(q) + 1)
        /\ \A i \in 1..Len(q) : r[i] = q[i]
        /\ r[Len(q) + 1] = e
    BY AppendProperties, LenProperties DEF push
  <1>2. e.type \in MsgType /\ Types(q) \in Seq(MsgType) /\ Len(Types(q)) = Len(q)
    BY TypesType DEF Entity
  <1>3. /\ t \in Seq(MsgType) /\ DOMAIN t = 1..(Len(q) + 1)
        /\ \A i \in 1..Len(q) : t[i] = Types(q)[i]
        /\ t[Len(q) + 1] = e.type
    BY <1>2, AppendProperties, LenProperties
  <1> HIDE DEF r, t
  <1>4. \A i \in 1..(Len(q) + 1) : t[i] = r[i].type
    BY <1>1, <1>3 DEF Types
  <1>5. t = [i \in DOMAIN t |-> t[i]]
    BY <1>3, LenProperties
  <1>6. Types(r) = [i \in 1..(Len(q) + 1) |-> t[i]]
    BY <1>1, <1>4 DEF Types
  <1> QED
    BY <1>3, <1>5, <1>6 DEF r, t

LEMMA TypesTail ==
  ASSUME NEW q \in Seq(Entity), q # <<>>
  PROVE  Types(Tail(q)) = Tail(Types(q)) /\ Head(Types(q)) = Head(q).type /\ Types(q) # <<>>
  <1> DEFINE r == Tail(q)
             t == Tail(Types(q))
  <1>1. /\ Len(q) \in Nat /\ Len(q) > 0 /\ DOMAIN q = 1..Len(q) /\ DOMAIN r = 1..(Len(q) - 1)
        /\ \A i \in 1..(Len(q) - 1) : r[i] = q[i + 1]
        /\ Head(q) = q[1]
    BY HeadTailProperties, LenProperties, EmptySeq
  <1>2. Types(q) \in Seq(MsgType) /\ Len(Types(q)) = Len(q) /\ Types(q) # <<>>
    BY <1>1, TypesType, EmptySeq
  <1>3. /\ t \in Seq(MsgType) /\ DOMAIN t = 1..(Len(q) - 1)
        /\ \A i \in 1..(Len(q) - 1) : t[i] = Types(q)[i + 1]
        /\ Head(Types(q)) = Types(q)[1]
    BY <1>1, <1>2, HeadTailProperties, LenProperties
  <1> HIDE DEF r, t
  <1>4. \A i \in 1..(Len(q) - 1) : t[i] = r[i].type
    <2>1. \A i \in 1..(Len(q) - 1) : i + 1 \in 1..Len(q)
      BY <1>1
    <2>2. \A i \in 1..Len(q) : Types(q)[i] = q[i].type
      BY <1>1 DEF Types
    <2> QED
      BY <1>1, <1>3, <2>1, <2>2
  <1>5. t = [i \in DOMAIN t |-> t[i]]
    BY <1>3, LenProperties
  <1>6. Types(r) = [i \in 1..(Len(q) - 1) |-> t[i]]
    BY <1>1, <1>4 DEF Types
  <1>7. Head(Types(q)) = Head(q).type
    BY <1>1, <1>3 DEF Types
  <1> QED
    BY <1>2, <1>3, <1>5, <1>6, <1>7 DEF r, t

LEMMA TypesRetried ==
  ASSUME NEW q \in Seq(Entity), NEW s \in Nat
  PROVE  /\ Types(Retried(q, s)) = Types(q)
         /\ \A r : InQueue(Retried(q, s), r) <=> InQueue(q, r)
  <1>1. DOMAIN q = 1..Len(q) /\ Len(q) \in Nat /\ \A i \in 1..Len(q) : q[i] \in Entity
    BY LenProperties
  <1>2. DOMAIN Retried(q, s) = 1..Len(q)
    BY DEF Retried
  <1>3. \A i \in 1..Len(q) : Retried(q, s)[i].type = q[i].type /\ Retried(q, s)[i].seq = q[i].seq
    BY <1>1, AgainType DEF Retried
  <1>4. DOMAIN Retried(q, s) = 1..Len(Retried(q, s))
    BY RetriedType, LenProperties
  <1> QED
    BY <1>1, <1>2, <1>3, <1>4 DEF Types, InQueue

LEMMA BeatsFinite ==
  ASSUME TypeOK, NEW n \in Node
  PROVE  IsFiniteSet(QueuedBeats(n)) /\ Cardinality(QueuedBeats(n)) \in Nat
  <1>1. Types(cmsgQueue[n]) \in Seq(MsgType)
    BY TypesType DEF TypeOK
  <1> QED
    BY <1>1, PlacesFinite DEF QueuedBeats

LEMMA CostCases ==
  ASSUME TypeOK, Next, NEW m \in Node
  PROVE  \/ cmsgQueue'[m] = cmsgQueue[m] /\ lost'[m] = lost[m] /\ beats'[m] = beats[m]
         \/ SenderSend(m) \/ SenderBeat(m) \/ SenderDrop(m) \/ RecvPoll(m)
         \/ \E t \in AppType : sendControlMessage(m, t)
  <1>1. PICK n \in Node : Main(n) \/ cmsgSendingThread(n) \/ receivingThread(n)
    BY DEF Next
  <1>2. /\ cmsgQueue \in [Node -> Seq(Entity)] /\ lost \in [Node -> SUBSET Nat]
        /\ beats \in [Node -> Nat]
    BY DEF TypeOK
  <1> DEFINE Same == cmsgQueue'[m] = cmsgQueue[m] /\ lost'[m] = lost[m] /\ beats'[m] = beats[m]
  <1>3. CASE Main(n)
    <2>1. ASSUME NEW t \in AppType, sendControlMessage(n, t), m # n PROVE Same
      BY <1>2, <2>1 DEF sendControlMessage, scheduleMessage
    <2> QED
      BY <1>3, <2>1 DEF Main, startPush2Talk, endSession, history
  <1>4. CASE cmsgSendingThread(n)
    <2>1. CASE SenderSend(n) /\ m # n
      BY <1>2, <2>1 DEF SenderSend, history
    <2>2. CASE SenderBeat(n) /\ m # n
      BY <1>2, <2>2 DEF SenderBeat, scheduleMessage
    <2>3. CASE SenderDrop(n) /\ m # n
      BY <1>2, <2>3 DEF SenderDrop, PollFor
    <2> QED
      BY <1>4, <2>1, <2>2, <2>3 DEF cmsgSendingThread, SenderPeek, SenderRetain,
         SenderExpire, SenderDecideDrop, SenderWait, SenderSleep, history
  <1>5. CASE receivingThread(n)
    <2>1. CASE RecvPoll(n) /\ m # n
      BY <1>2, <2>1 DEF RecvPoll, PollFor
    <2> QED
      BY <1>5, <2>1 DEF receivingThread, RecvControl, RecvAck, RecvDeliver, RecvMatch,
         RecvExit, history
  <1> QED
    BY <1>1, <1>3, <1>4, <1>5

(* A thread that is not late gets late only when its message leaves.       *)
LEMMA LateDropKept ==
  ASSUME Session, Next, NEW m \in Node, LateDrop(m)',
         Holds(m) => (InQueue(cmsgQueue[m], entity[m].seq) => InQueue(cmsgQueue'[m], entity[m].seq))
  PROVE  LateDrop(m)
  <1>1. CASE Holds(m) /\ entity'[m] = entity[m]
    BY <1>1 DEF LateDrop
  <1>2. CASE cmsgQueue[m] # <<>> /\ entity'[m] = Head(cmsgQueue[m]) /\ UNCHANGED cmsgQueue
    <2>1. cmsgQueue[m] \in Seq(Entity)
      BY DEF Session, TypeOK
    <2>2. 1 \in 1..Len(cmsgQueue[m]) /\ Head(cmsgQueue[m]) = cmsgQueue[m][1]
      BY <1>2, <2>1, HeadTailProperties, LenProperties, EmptySeq
    <2>3. InQueue(cmsgQueue'[m], entity'[m].seq)
      BY <1>2, <2>2 DEF InQueue
    <2> QED
      BY <2>3 DEF LateDrop
  <1> QED
    BY <1>1, <1>2, HoldsStep DEF LateDrop

LEMMA PollsStep ==
  ASSUME Session, Next, NEW m \in Node, NEW s \in Nat, PollsFor(m, s)'
  PROVE  PollsFor(m, s) \/ (InQueue(cmsgQueue[m], s) /\ UNCHANGED cmsgQueue)
  <1>1. PICK n \in Node : Main(n) \/ cmsgSendingThread(n) \/ receivingThread(n)
    BY DEF Next
  <1>2. /\ rpc \in [Node -> {"off", "loop", "deliver", "peeked", "poll", "done"}]
        /\ cmsg \in [Node -> Packet] /\ rhead \in [Node -> Seq(Nat)]
    BY DEF Session, TypeOK
  <1>3. CASE rpc'[m] = rpc[m] /\ cmsg'[m] = cmsg[m] /\ rhead'[m] = rhead[m]
    BY <1>3 DEF PollsFor, Matches
  <1>4. CASE Main(n)
    <2>1. CASE startPush2Talk(n) /\ m = n
      BY <1>2, <2>1 DEF startPush2Talk, PollsFor
    <2>2. CASE startPush2Talk(n) /\ m # n
      BY <1>2, <1>3, <2>2 DEF startPush2Talk
    <2> QED
      BY <1>3, <1>4, <2>1, <2>2 DEF Main, sendControlMessage, endSession, recvVars
  <1>5. CASE cmsgSendingThread(n)
    BY <1>3, <1>5 DEF cmsgSendingThread, SenderPeek, SenderRetain, SenderExpire,
       SenderDecideDrop, SenderDrop, SenderSend, SenderWait, SenderBeat, SenderSleep, recvVars
  <1>6. CASE receivingThread(n)
    <2>1. CASE m # n
      <3>1. rhead'[m] = rhead[m]
        BY <1>2, <1>6, <2>1 DEF receivingThread, RecvControl, RecvAck, RecvDeliver,
           RecvMatch, RecvPoll, RecvExit, recvVars
      <3> QED
        BY <1>3, <1>6, <2>1, <3>1, ReceiverMoves
    <2>2. CASE m = n /\ RecvMatch(n)
      <3>1. rpc[n] = "peeked"
        BY <2>2 DEF RecvMatch, ReceiverAt
      <3>2. CASE UNCHANGED recvVars
        BY <1>3, <3>2 DEF recvVars
      <3>3. CASE /\ rpc' = [rpc EXCEPT ![n] = IF Matches(n) THEN "poll" ELSE "loop"]
                 /\ cmsg' = [cmsg EXCEPT ![n] = IF Matches(n) THEN @ ELSE NoPacket(n)]
        BY <1>2, <2>2, <3>1, <3>3 DEF PollsFor
      <3> QED
        BY <2>2, <3>2, <3>3 DEF RecvMatch
    <2>3. ASSUME m = n, NEW p \in net, RecvAck(n, p)
          PROVE  InQueue(cmsgQueue[m], s) /\ UNCHANGED cmsgQueue
      <3> DEFINE q == cmsgQueue[n]
      <3>1. /\ rhead'[n] = peek(q) /\ UNCHANGED cmsgQueue /\ rpc'[n] = "peeked"
            /\ q \in Seq(Entity)
        BY <1>2, <2>3 DEF RecvAck, Session, TypeOK
      <3>2. rhead'[n] # <<>> /\ Head(rhead'[n]) = s
        BY <2>3, <3>1 DEF PollsFor, Matches
      <3>3. q # <<>> /\ Head(q).seq = s
        BY <3>1, <3>2 DEF peek
      <3>4. 1 \in 1..Len(q) /\ Head(q) = q[1]
        BY <3>1, <3>3, HeadTailProperties, LenProperties, EmptySeq
      <3> QED
        BY <2>3, <3>1, <3>3, <3>4 DEF InQueue
    <2>4. CASE m = n /\ (RecvDeliver(n) \/ RecvPoll(n) \/ RecvExit(n))
      BY <1>2, <2>4 DEF RecvDeliver, RecvPoll, RecvExit, PollsFor
    <2>5. ASSUME m = n, NEW p \in net, RecvControl(n, p) PROVE FALSE
      BY <1>2, <2>5 DEF RecvControl, PollsFor
    <2> QED
      BY <1>6, <2>1, <2>2, <2>3, <2>4, <2>5 DEF receivingThread
  <1> QED
    BY <1>1, <1>4, <1>5, <1>6

LEMMA LatePollKept ==
  ASSUME Session, Next, NEW m \in Node, LatePoll(m)',
         \A s \in Nat : PollsFor(m, s) /\ InQueue(cmsgQueue[m], s) => InQueue(cmsgQueue'[m], s)
  PROVE  LatePoll(m)
  <1>1. PICK s \in Nat : PollsFor(m, s)' /\ ~InQueue(cmsgQueue'[m], s)
    BY DEF LatePoll
  <1>2. PollsFor(m, s) \/ (InQueue(cmsgQueue[m], s) /\ UNCHANGED cmsgQueue)
    BY <1>1, PollsStep
  <1> QED
    BY <1>1, <1>2 DEF LatePoll

LEMMA HeadInQueue ==
  ASSUME NEW q \in Seq(Entity), q # <<>>
  PROVE  InQueue(q, Head(q).seq)
  <1>1. 1 \in 1..Len(q) /\ Head(q) = q[1]
    BY HeadTailProperties, LenProperties, EmptySeq
  <1> QED
    BY <1>1 DEF InQueue

(* A poll for s when nothing older than s waits.                           *)
LEMMA PollCost ==
  ASSUME TypeOK, QueueOwned, NEW n \in Node, NEW s \in Nat, PollFor(n, s), First(n, s),
         OrderedAt(n), IsFiniteSet(lost[n]), NEW q, q = cmsgQueue[n], q # <<>>
  PROVE  /\ InQueue(q, s) => Head(q).seq = s
         /\ Head(q).seq = s \/ Head(q).type = "HB2" => lost'[n] = lost[n]
         /\ s <= Head(q).seq /\ Head(q).seq \in Nat /\ Own(n, Head(q).seq, Head(q).type)
         /\ \A r : InQueue(q, r) /\ Head(q).seq # r => InQueue(cmsgQueue'[n], r)
         /\ Cardinality(QueuedBeats(n)') =
              IF Head(q).type = "HB2" THEN Cardinality(QueuedBeats(n)) - 1
                                      ELSE Cardinality(QueuedBeats(n))
         /\ IsFiniteSet(lost'[n]) /\ Cardinality(lost'[n]) \in Nat
         /\ Cardinality(lost[n]) \in Nat /\ Cardinality(lost'[n]) <= Cardinality(lost[n]) + 1
  <1>1. /\ q \in Seq(Entity) /\ Len(q) \in Nat /\ cmsgQueue'[n] = Tail(q)
        /\ lost'[n] = lost[n] \cup MisPolled(q, s) /\ cmsgQueue'[n] = poll(q)
    BY LenProperties DEF TypeOK, PollFor, poll
  <1>2. 1 \in 1..Len(q) /\ Head(q) = q[1] /\ Head(q) \in Entity
    BY <1>1, HeadTailProperties, EmptySeq
  <1>3. s <= Head(q).seq /\ Head(q).seq \in Nat /\ Own(n, Head(q).seq, Head(q).type)
    BY <1>2 DEF Entity, First, QueueOwned
  <1>4. InQueue(q, s) => Head(q).seq = s
    <2> SUFFICES ASSUME NEW j \in 1..Len(q), q[j].seq = s PROVE Head(q).seq = s
      BY DEF InQueue
    <2>1. CASE j = 1
      BY <1>2, <2>1
    <2>2. CASE j # 1
      <3>1. 1 < j
        BY <1>1, <2>2
      <3>2. q[1].seq < q[j].seq
        BY <1>2, <3>1 DEF OrderedAt
      <3> QED
        BY <1>2, <1>3, <3>2
    <2> QED
      BY <2>1, <2>2
  <1>5. Head(q).seq = s \/ Head(q).type = "HB2" => lost'[n] = lost[n]
    BY <1>1 DEF MisPolled
  <1>6. \A r : InQueue(q, r) /\ Head(q).seq # r => InQueue(cmsgQueue'[n], r)
    BY <1>1, PollQueue
  <1>7. Cardinality(QueuedBeats(n)') =
              IF Head(q).type = "HB2" THEN Cardinality(QueuedBeats(n)) - 1
                                      ELSE Cardinality(QueuedBeats(n))
    <2>1. /\ Types(q) \in Seq(MsgType) /\ Types(q) # <<>> /\ Head(Types(q)) = Head(q).type
          /\ Types(Tail(q)) = Tail(Types(q))
      BY <1>1, TypesType, TypesTail
    <2>2. Cardinality(Places(Tail(Types(q)), "HB2")) =
              IF Head(q).type = "HB2" THEN Cardinality(Places(Types(q), "HB2")) - 1
                                      ELSE Cardinality(Places(Types(q), "HB2"))
      BY <2>1, PlacesTail
    <2>3. QueuedBeats(n) = Places(Types(q), "HB2") /\ QueuedBeats(n)' = Places(Tail(Types(q)), "HB2")
      BY <1>1, <2>1 DEF QueuedBeats, Types, Places
    <2> QED
      BY <2>2, <2>3
  <1>8. /\ IsFiniteSet(lost'[n]) /\ Cardinality(lost'[n]) \in Nat
        /\ Cardinality(lost[n]) \in Nat /\ Cardinality(lost'[n]) <= Cardinality(lost[n]) + 1
    <2>1. Cardinality(lost[n]) \in Nat
      BY FS_CardinalityType
    <2>2. CASE lost'[n] = lost[n]
      BY <2>1, <2>2
    <2>3. CASE lost'[n] = lost[n] \cup {Head(q).seq} /\ Head(q).seq \notin lost[n]
      <3>1. IsFiniteSet(lost'[n]) /\ Cardinality(lost'[n]) = Cardinality(lost[n]) + 1
        BY <2>3, CardAdd
      <3> QED
        BY <2>1, <3>1
    <2> QED
      BY <1>1, <2>2, <2>3 DEF MisPolled
  <1> QED
    BY <1>3, <1>4, <1>5, <1>6, <1>7, <1>8

(* An entity at hand and the head of the queue with the same number are of *)
(* the same kind, so only the departure of a heart beat makes a drop late. *)
LEMMA DropNotLate ==
  ASSUME IInv, Next, NEW m \in Node, LateDrop(m)', NEW h, NEW t, Own(m, h, t), t # "HB2",
         \A r : InQueue(cmsgQueue[m], r) /\ h # r => InQueue(cmsgQueue'[m], r)
  PROVE  LateDrop(m)
  <1>1. Session /\ EntityOwned
    BY DEF IInv, Session
  <1>2. CASE Holds(m) /\ entity'[m] = entity[m]
    <2>1. entity[m].type = "HB2" /\ Own(m, entity[m].seq, entity[m].type)
      BY <1>1, <1>2 DEF LateDrop, EntityOwned, EntityAt, Holds
    <2>2. entity[m].seq # h
      BY <2>1 DEF Own
    <2> QED
      BY <1>1, <2>2, LateDropKept
  <1>3. CASE ~(Holds(m) /\ entity'[m] = entity[m])
    <2>1. Holds(m)'
      BY DEF LateDrop
    <2>2. UNCHANGED cmsgQueue
      BY <1>1, <1>3, <2>1, HoldsStep
    <2> QED
      BY <1>1, <2>2, LateDropKept
  <1> QED
    BY <1>2, <1>3

LEMMA CostDrop ==
  ASSUME IInv, IInv', OInv, BInv, Next, NEW m \in Node, SenderDrop(m)
  PROVE  (IsFiniteSet(lost[m]) /\ Cost(m) <= beats[m])'
  <1> DEFINE q == cmsgQueue[m]
             s == entity[m].seq
             L == Cardinality(lost[m])
             B == Cardinality(QueuedBeats(m))
  <1>1. Session /\ TypeOK /\ QueueOwned /\ EntityOwned
    BY DEF IInv, Session
  <1>2. Holds(m) /\ spc[m] = "drop" /\ ~Holds(m)' /\ s \in Nat /\ beats'[m] = beats[m] /\ PollFor(m, s)
    BY <1>1 DEF SenderDrop, SenderAt, Holds, TypeOK, Entity
  <1>3. entity[m].type = "HB2" /\ s \notin scheduled[m]
    BY <1>1, <1>2 DEF EntityOwned, EntityAt, Own
  <1>4. First(m, s) /\ OrderedAt(m) /\ \A r \in Nat : Sent(m, r) => r <= s
    BY <1>2 DEF OInv, EntityTopAt
  <1>5. IsFiniteSet(lost[m]) /\ L \in Nat /\ B \in Nat /\ Cost(m) <= beats[m] /\ beats[m] \in Nat
    BY <1>1, FS_CardinalityType, BeatsFinite DEF BInv, TypeOK
  <1>6. ~LateDrop(m)'
    BY <1>2 DEF LateDrop
  <1>7. \A r \in Nat : PollsFor(m, r) => r <= s
    BY <1>4 DEF OInv, CmsgSentAt, PollsFor
  <1>8. CASE q = <<>>
    <2>1. cmsgQueue'[m] = q /\ lost'[m] = lost[m]
      BY <1>1, <1>2, <1>8 DEF PollFor, poll, MisPolled, TypeOK
    <2>2. QueuedBeats(m)' = QueuedBeats(m)
      BY <2>1 DEF QueuedBeats, Types, Places
    <2>3. LatePoll(m)' => LatePoll(m)
      BY <1>1, <2>1, LatePollKept
    <2> QED
      BY <1>2, <1>5, <1>6, <2>1, <2>2, <2>3 DEF Cost
  <1>9. CASE q # <<>>
    <2> DEFINE h == Head(q)
    <2>1. /\ InQueue(q, s) => h.seq = s
          /\ h.seq = s \/ h.type = "HB2" => lost'[m] = lost[m]
          /\ s <= h.seq /\ h.seq \in Nat /\ Own(m, h.seq, h.type)
          /\ \A r : InQueue(q, r) /\ h.seq # r => InQueue(cmsgQueue'[m], r)
          /\ Cardinality(QueuedBeats(m)') = IF h.type = "HB2" THEN B - 1 ELSE B
          /\ IsFiniteSet(lost'[m]) /\ Cardinality(lost'[m]) \in Nat
          /\ Cardinality(lost'[m]) <= L + 1
      BY <1>1, <1>2, <1>4, <1>5, <1>9, PollCost
    <2>2. CASE InQueue(q, s)
      <3>1. h.type = "HB2"
        BY <1>3, <2>1, <2>2 DEF Own
      <3> HIDE DEF L, B, h
      <3>2. lost'[m] = lost[m] /\ Cardinality(QueuedBeats(m)') = B - 1
        BY <2>1, <3>1
      <3> QED
        BY <1>2, <1>5, <1>6, <2>1, <3>2 DEF Cost, L, B
    <2>3. CASE ~InQueue(q, s)
      <3>1. LateDrop(m)
        BY <1>2, <1>3, <2>3 DEF LateDrop
      <3>2. ASSUME LatePoll(m)', h.seq # s PROVE LatePoll(m)
        <4>1. \A r \in Nat : PollsFor(m, r) => h.seq # r
          BY <1>2, <1>7, <2>1, <3>2
        <4> QED
          BY <1>1, <2>1, <3>2, <4>1, LatePollKept
      <3> HIDE DEF L, B, h
      <3>3. Cardinality(lost'[m]) + Cardinality(QueuedBeats(m)') <= L + B + 1
        BY <1>5, <2>1 DEF B
      <3>4. CASE h.seq # s
        <4>1. LatePoll(m)' => LatePoll(m)
          BY <3>2, <3>4
        <4>2. Cardinality(QueuedBeats(m)') \in Int
          BY <1>5, <2>1
        <4> QED
          BY <1>2, <1>5, <1>6, <2>1, <3>1, <3>3, <4>1, <4>2 DEF Cost, L, B
      <3>5. CASE h.seq = s
        <4>1. q \in Seq(Entity)
          BY <1>1 DEF TypeOK
        <4> QED
          BY <1>9, <2>3, <3>5, <4>1, HeadInQueue DEF h
      <3> QED
        BY <3>4, <3>5
    <2> QED
      BY <2>2, <2>3
  <1> QED
    BY <1>8, <1>9

LEMMA CostPoll ==
  ASSUME IInv, IInv', OInv, BInv, Next, NEW m \in Node, RecvPoll(m)
  PROVE  (IsFiniteSet(lost[m]) /\ Cost(m) <= beats[m])'
  <1> DEFINE q == cmsgQueue[m]
             s == cmsg[m].seq
             L == Cardinality(lost[m])
             B == Cardinality(QueuedBeats(m))
  <1>1. Session /\ TypeOK /\ QueueOwned /\ EntityOwned
    BY DEF IInv, Session
  <1>2. /\ rpc[m] = "poll" /\ rpc'[m] = "loop" /\ s \in Nat /\ beats'[m] = beats[m]
        /\ PollFor(m, s) /\ UNCHANGED <<spc, entity>>
    BY <1>1 DEF RecvPoll, ReceiverAt, TypeOK, Packet, sendVars
  <1>3. First(m, s) /\ OrderedAt(m)
    BY <1>2 DEF OInv, CmsgSentAt, SentFirstAt
  <1>4. IsFiniteSet(lost[m]) /\ L \in Nat /\ B \in Nat /\ Cost(m) <= beats[m] /\ beats[m] \in Nat
    BY <1>1, FS_CardinalityType, BeatsFinite DEF BInv, TypeOK
  <1>5. ~LatePoll(m)' /\ (LatePoll(m) <=> ~InQueue(q, s))
    BY <1>2 DEF LatePoll, PollsFor
  <1>6. CASE q = <<>>
    <2>1. cmsgQueue'[m] = q /\ lost'[m] = lost[m]
      BY <1>1, <1>2, <1>6 DEF PollFor, poll, MisPolled, TypeOK
    <2>2. QueuedBeats(m)' = QueuedBeats(m)
      BY <2>1 DEF QueuedBeats, Types, Places
    <2>3. LateDrop(m)' => LateDrop(m)
      BY <1>1, <2>1, LateDropKept
    <2> QED
      BY <1>2, <1>4, <1>5, <2>1, <2>2, <2>3 DEF Cost
  <1>7. CASE q # <<>>
    <2> DEFINE h == Head(q)
    <2>1. /\ InQueue(q, s) => h.seq = s
          /\ h.seq = s \/ h.type = "HB2" => lost'[m] = lost[m]
          /\ Own(m, h.seq, h.type)
          /\ \A r : InQueue(q, r) /\ h.seq # r => InQueue(cmsgQueue'[m], r)
          /\ Cardinality(QueuedBeats(m)') = IF h.type = "HB2" THEN B - 1 ELSE B
          /\ IsFiniteSet(lost'[m]) /\ Cardinality(lost'[m]) \in Nat
          /\ Cardinality(lost'[m]) <= L + 1
      BY <1>1, <1>2, <1>3, <1>4, <1>7, PollCost
    <2>2. CASE h.type = "HB2"
      <3> HIDE DEF L, B, h
      <3>1. lost'[m] = lost[m] /\ Cardinality(QueuedBeats(m)') = B - 1
        BY <2>1, <2>2
      <3> QED
        BY <1>2, <1>4, <1>5, <2>1, <3>1 DEF Cost, L, B
    <2>3. CASE h.type # "HB2"
      <3>1. LateDrop(m)' => LateDrop(m)
        BY <2>1, <2>3, DropNotLate
      <3> HIDE DEF L, B, h
      <3>2. Cardinality(QueuedBeats(m)') = B
        BY <2>1, <2>3
      <3>3. InQueue(q, s) => lost'[m] = lost[m]
        BY <2>1
      <3> QED
        BY <1>2, <1>4, <1>5, <2>1, <3>1, <3>2, <3>3 DEF Cost, L, B
    <2> QED
      BY <2>2, <2>3
  <1> QED
    BY <1>6, <1>7

(* Nothing leaves the queue in the other steps.                            *)
LEMMA CostRest ==
  ASSUME IInv, IInv', BInv, Next, NEW m \in Node, lost'[m] = lost[m],
         \A r : InQueue(cmsgQueue[m], r) => InQueue(cmsgQueue'[m], r),
         Cardinality(QueuedBeats(m)') + beats[m] <= Cardinality(QueuedBeats(m)) + beats'[m]
  PROVE  (IsFiniteSet(lost[m]) /\ Cost(m) <= beats[m])'
  <1>1. Session /\ TypeOK /\ TypeOK'
    BY DEF IInv, Session
  <1>2. LateDrop(m)' => LateDrop(m)
    BY <1>1, LateDropKept
  <1>3. LatePoll(m)' => LatePoll(m)
    BY <1>1, LatePollKept
  <1>4. IsFiniteSet(lost[m]) /\ Cardinality(lost[m]) \in Nat /\ Cost(m) <= beats[m]
    BY FS_CardinalityType DEF BInv
  <1>5. beats[m] \in Nat /\ beats'[m] \in Nat /\ Cardinality(QueuedBeats(m)) \in Nat
    BY <1>1, BeatsFinite DEF TypeOK
  <1>6. Cardinality(QueuedBeats(m)') \in Nat
    <2>1. Types(cmsgQueue'[m]) \in Seq(MsgType)
      BY <1>1, TypesType DEF TypeOK
    <2>2. Cardinality(Places(Types(cmsgQueue'[m]), "HB2")) \in Nat
      BY <2>1, PlacesFinite
    <2> QED
      BY <2>2 DEF QueuedBeats, Types, Places
  <1> QED
    BY <1>2, <1>3, <1>4, <1>5, <1>6 DEF Cost

LEMMA ScheduleCost ==
  ASSUME TypeOK, NEW m \in Node, NEW t \in MsgType, scheduleMessage(m, t)
  PROVE  /\ \A r : InQueue(cmsgQueue[m], r) => InQueue(cmsgQueue'[m], r)
         /\ Cardinality(QueuedBeats(m)') = IF t = "HB2" THEN Cardinality(QueuedBeats(m)) + 1
                                                        ELSE Cardinality(QueuedBeats(m))
  <1> DEFINE e == [type |-> t, seq |-> nextSeq[m], retryTimes |-> 0]
             q == cmsgQueue[m]
  <1>1. e \in Entity /\ e.type = t /\ q \in Seq(Entity) /\ cmsgQueue'[m] = push(q, e)
    BY DEF TypeOK, Entity, scheduleMessage
  <1> HIDE DEF e
  <1>2. \A r : InQueue(q, r) => InQueue(cmsgQueue'[m], r)
    BY <1>1, PushQueue
  <1>3. Types(cmsgQueue'[m]) = Append(Types(q), t) /\ Types(q) \in Seq(MsgType)
    BY <1>1, TypesPush, TypesType
  <1>4. Cardinality(Places(Types(cmsgQueue'[m]), "HB2")) =
          IF t = "HB2" THEN Cardinality(Places(Types(q), "HB2")) + 1
                       ELSE Cardinality(Places(Types(q), "HB2"))
    BY <1>3, PlacesAppend
  <1>5. QueuedBeats(m)' = Places(Types(cmsgQueue'[m]), "HB2")
    BY DEF QueuedBeats, Types, Places
  <1> QED
    BY <1>2, <1>4, <1>5 DEF QueuedBeats

LEMMA StepCost == IInv /\ IInv' /\ OInv /\ BInv /\ [Next]_vars => BInv'
  <1> SUFFICES ASSUME IInv, IInv', OInv, BInv, [Next]_vars PROVE BInv'
    OBVIOUS
  <1>1. CASE UNCHANGED vars
    BY <1>1 DEF vars, BInv, Cost, QueuedBeats, Types, Places, LateDrop, LatePoll,
       PollsFor, Matches, Holds, InQueue
  <1>2. CASE Next
    <2> SUFFICES ASSUME NEW m \in Node PROVE (IsFiniteSet(lost[m]) /\ Cost(m) <= beats[m])'
      BY DEF BInv
    <2>1. TypeOK /\ beats[m] \in Nat /\ Cardinality(QueuedBeats(m)) \in Nat
      BY BeatsFinite DEF IInv, TypeOK
    <2>2. CASE cmsgQueue'[m] = cmsgQueue[m] /\ lost'[m] = lost[m] /\ beats'[m] = beats[m]
      <3>1. QueuedBeats(m)' = QueuedBeats(m)
        BY <2>2 DEF QueuedBeats, Types, Places
      <3> QED
        BY <1>2, <2>1, <2>2, <3>1, CostRest
    <2>3. CASE SenderSend(m)
      <3>1. entity[m].seq \in Nat /\ cmsgQueue[m] \in Seq(Entity)
        BY <2>1 DEF TypeOK, Entity
      <3>2. cmsgQueue'[m] = Retried(cmsgQueue[m], entity[m].seq) /\ UNCHANGED <<lost, beats>>
        BY <2>1, <2>3 DEF SenderSend, TypeOK, history
      <3>3. Types(cmsgQueue'[m]) = Types(cmsgQueue[m])
        BY <3>1, <3>2, TypesRetried
      <3>4. QueuedBeats(m)' = QueuedBeats(m)
        BY <3>3 DEF QueuedBeats, Types, Places
      <3>5. \A r : InQueue(cmsgQueue[m], r) => InQueue(cmsgQueue'[m], r)
        BY <3>1, <3>2, TypesRetried
      <3> QED
        BY <1>2, <2>1, <3>2, <3>4, <3>5, CostRest
    <2>4. CASE SenderBeat(m)
      <3>1. "HB2" \in MsgType /\ scheduleMessage(m, "HB2") /\ UNCHANGED lost /\ beats'[m] = beats[m] + 1
        BY <2>1, <2>4 DEF SenderBeat, MsgType, TypeOK
      <3>2. /\ Cardinality(QueuedBeats(m)') = Cardinality(QueuedBeats(m)) + 1
            /\ \A r : InQueue(cmsgQueue[m], r) => InQueue(cmsgQueue'[m], r)
        BY <2>1, <3>1, ScheduleCost
      <3> QED
        BY <1>2, <2>1, <3>1, <3>2, CostRest
    <2>5. ASSUME NEW t \in AppType, sendControlMessage(m, t)
          PROVE  (IsFiniteSet(lost[m]) /\ Cost(m) <= beats[m])'
      <3>1. t \in MsgType /\ t # "HB2" /\ scheduleMessage(m, t) /\ UNCHANGED <<lost, beats>>
        BY <2>5, TypeAssumption DEF sendControlMessage, MsgType
      <3>2. /\ Cardinality(QueuedBeats(m)') = Cardinality(QueuedBeats(m))
            /\ \A r : InQueue(cmsgQueue[m], r) => InQueue(cmsgQueue'[m], r)
        BY <2>1, <3>1, ScheduleCost
      <3> QED
        BY <1>2, <2>1, <3>1, <3>2, CostRest
    <2> QED
      BY <1>2, <2>1, <2>2, <2>3, <2>4, <2>5, CostCases, CostDrop, CostPoll
  <1> QED
    BY <1>1, <1>2

LEMMA InitCost == Init => BInv
  <1> SUFFICES ASSUME Init, NEW n \in Node PROVE IsFiniteSet(lost[n]) /\ Cost(n) <= beats[n]
    BY DEF BInv
  <1>1. /\ lost[n] = {} /\ cmsgQueue[n] = <<>> /\ beats[n] = 0
        /\ spc[n] = "off" /\ rpc[n] = "off"
    BY DEF Init
  <1>2. QueuedBeats(n) = {}
    BY <1>1 DEF QueuedBeats, Types, Places
  <1>3. ~LateDrop(n) /\ ~LatePoll(n)
    BY <1>1 DEF LateDrop, Holds, LatePoll, PollsFor
  <1> QED
    BY <1>1, <1>2, <1>3, FS_EmptySet DEF Cost

(* The poll race between cmsgSendingThread and receivingThread takes at    *)
(* most one control message for each heart beat that was scheduled, and    *)
(* none when there were none: for any schedule of the two threads and any  *)
(* number of messages, heart beats and retries.                            *)
THEOREM BeatsBoundLoss == Spec => []LostAtMostBeats
  <1>1. IInv /\ BInv => LostAtMostBeats
    <2> SUFFICES ASSUME IInv, BInv, NEW n \in Node PROVE Cardinality(lost[n]) <= beats[n]
      BY DEF LostAtMostBeats
    <2>1. /\ Cardinality(lost[n]) \in Nat /\ Cardinality(QueuedBeats(n)) \in Nat
          /\ beats[n] \in Nat /\ Cost(n) <= beats[n]
      BY FS_CardinalityType, BeatsFinite DEF IInv, BInv, TypeOK
    <2> QED
      BY <2>1 DEF Cost
  <1> QED
    BY <1>1, InitInv, StepInv, InitOrder, StepOrder, InitCost, StepCost, PTL DEF Spec
=============================================================================

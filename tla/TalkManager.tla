----------------------------- MODULE TalkManager -----------------------------
(***************************************************************************)
(* The control-message channel of a push-to-talk session: TalkManager.mm   *)
(* with CMessage.m and RCQueue.mm, one instance on each of two phones.     *)
(*                                                                         *)
(* Each phone has three threads that share cmsgQueue: the main thread      *)
(* (sendControlMessage, endSession), cmsgSendingThread, which retransmits  *)
(* the head of the queue until it is acknowledged, and receivingThread,    *)
(* which acknowledges what arrives and removes the head when its ACK       *)
(* comes.  A thread is a program counter; its steps are cut wherever       *)
(* another thread can get in between.                                      *)
(*                                                                         *)
(* RTP over UDP may lose, delay, reorder and duplicate: net holds every    *)
(* packet ever sent and any of them may arrive any number of times, or     *)
(* never.                                                                  *)
(***************************************************************************)
EXTENDS Naturals, Sequences, FiniteSets

CONSTANTS Node,             \* the two phones
          Peer,             \* Peer[n] is the phone n's session is opened to
          AppType,          \* control messages of the controller (WTT, DNT)
          MAX_RETRY_TIMES,  \* TalkManager.h: 170 transmissions
          HB_RETRY_TIMES,   \* TalkManager.h: 20 transmissions of a heart beat
          MaxMsgs,          \* bound: messages the controller of n schedules
          MaxBeats          \* bound: heart beats of n

ASSUME PeerAssumption == /\ Peer \in [Node -> Node]
                         /\ \A n \in Node : Peer[n] # n /\ Peer[Peer[n]] = n

ASSUME BoundAssumption == /\ MAX_RETRY_TIMES \in Nat \ {0}
                          /\ HB_RETRY_TIMES \in Nat \ {0}
                          /\ MaxMsgs \in [Node -> Nat]
                          /\ MaxBeats \in [Node -> Nat]

ASSUME TypeAssumption == "HB2" \notin AppType /\ "ACK" \notin AppType

VARIABLES nextSeq,    \* s_sequenceNumber
          cmsgQueue,  \* the entities waiting for their ACK, oldest first
          sending,    \* loop condition of cmsgSendingThread
          receiving,  \* loop condition of receivingThread; also: the RTP
                      \* session exists and the delegates are set
          spc,        \* where cmsgSendingThread is
          entity,     \* its local variable of that name
          rpc,        \* where receivingThread is
          cmsg,       \* its local variable: the message being handled
          rhead,      \* its local variable entity: what peek returned
          fate,       \* "up", or how the process died
          net         \* packets handed to RTP so far

(* History: what the properties talk about, read by no step.               *)
VARIABLES scheduled,  \* messages the controller asked to be sent
          delivered,  \* messages handed to the controller
          lost,       \* messages removed by a poll meant for another one
          beats       \* heart beats scheduled so far

vars == <<nextSeq, cmsgQueue, sending, receiving, spc, entity, rpc, cmsg,
          rhead, fate, net, scheduled, delivered, lost, beats>>

mainVars == <<sending, receiving>>
sendVars == <<spc, entity>>
recvVars == <<rpc, cmsg, rhead>>
history  == <<scheduled, delivered, lost, beats>>

MsgType == AppType \cup {"HB2"}
Entity  == [type : MsgType, seq : Nat, retryTimes : Nat]
Packet  == [dst : Node, type : MsgType \cup {"ACK"}, seq : Nat]

NoEntity == [type |-> "HB2", seq |-> 0, retryTimes |-> 0]
NoPacket(n) == [dst |-> n, type |-> "ACK", seq |-> 0]

-----------------------------------------------------------------------------
(* RCQueue, a std::queue of retained objects.                              *)

(* The Faulty operators here and below are slips this code could have had; *)
(* no step uses them.  Putting one in the place of the definition after it *)
(* must violate a property.                                                *)

FaultyPush(q, e) == <<e>> \o q

push(q, e) == Append(q, e)

poll(q) == IF q = <<>> THEN q ELSE Tail(q)

peek(q) == IF q = <<>> THEN <<>> ELSE <<Head(q).seq>>  \* nil, or which entity

(* The queue holds the only lasting reference to an entity: one that left  *)
(* the queue is freed unless a thread retained it before.                  *)
InQueue(q, s) == \E i \in 1..Len(q) : q[i].seq = s

(* A poll by a thread that means to remove message s removes whatever is   *)
(* the head; MisPolled is the control message that goes in its place.      *)
MisPolled(q, s) ==
  IF q # <<>> /\ Head(q).seq # s /\ Head(q).type # "HB2" THEN {Head(q).seq} ELSE {}

PollFor(n, s) ==
  /\ cmsgQueue' = [cmsgQueue EXCEPT ![n] = poll(@)]
  /\ lost' = [lost EXCEPT ![n] = @ \cup MisPolled(cmsgQueue[n], s)]

(* sendMessage: a packet leaves only while the RTP session exists.         *)
sendMessage(n, type, seq) ==
  net' = IF receiving[n]
         THEN net \cup {[dst |-> Peer[n], type |-> type, seq |-> seq]}
         ELSE net

(* scheduleMessage of a message that is no ACK.  Taking a sequence number  *)
(* and pushing are one step: numbers are only compared for equality, so    *)
(* two threads that take and push in different orders cannot be told from  *)
(* two that do not.                                                        *)
scheduleMessage(n, type) ==
  /\ cmsgQueue' = [cmsgQueue EXCEPT ![n] =
                     push(@, [type |-> type, seq |-> nextSeq[n], retryTimes |-> 0])]
  /\ nextSeq' = [nextSeq EXCEPT ![n] = @ + 1]

entityExpired(e) ==
  IF e.type = "HB2" THEN e.retryTimes >= HB_RETRY_TIMES
                    ELSE e.retryTimes >= MAX_RETRY_TIMES

-----------------------------------------------------------------------------
Init ==
  /\ nextSeq   = [n \in Node |-> 0]
  /\ cmsgQueue = [n \in Node |-> <<>>]
  /\ sending   = [n \in Node |-> FALSE]
  /\ receiving = [n \in Node |-> FALSE]
  /\ spc       = [n \in Node |-> "off"]
  /\ entity    = [n \in Node |-> NoEntity]
  /\ rpc       = [n \in Node |-> "off"]
  /\ cmsg      = [n \in Node |-> NoPacket(n)]
  /\ rhead     = [n \in Node |-> <<>>]
  /\ fate      = [n \in Node |-> "up"]
  /\ net       = {}
  /\ scheduled = [n \in Node |-> {}]
  /\ delivered = [n \in Node |-> {}]
  /\ lost      = [n \in Node |-> {}]
  /\ beats     = [n \in Node |-> 0]

-----------------------------------------------------------------------------
(* The main thread.                                                        *)

startPush2Talk(n) ==
  /\ spc[n] = "off"
  /\ sending'   = [sending EXCEPT ![n] = TRUE]
  /\ receiving' = [receiving EXCEPT ![n] = TRUE]
  /\ spc' = [spc EXCEPT ![n] = "loop"]
  /\ rpc' = [rpc EXCEPT ![n] = "loop"]
  /\ UNCHANGED <<nextSeq, cmsgQueue, entity, cmsg, rhead, fate, net, history>>

(* A handler that runs late may call it when the session is over; nobody   *)
(* reads the queue then.                                                   *)
sendControlMessage(n, type) ==
  /\ fate[n] = "up" /\ spc[n] # "off"
  /\ Cardinality(scheduled[n]) < MaxMsgs[n]
  /\ scheduleMessage(n, type)
  /\ scheduled' = [scheduled EXCEPT ![n] = @ \cup {nextSeq[n]}]
  /\ UNCHANGED <<mainVars, sendVars, recvVars, fate, net, delivered, lost, beats>>

endSession(n) ==
  /\ fate[n] = "up" /\ receiving[n]
  /\ sending'   = [sending EXCEPT ![n] = FALSE]
  /\ receiving' = [receiving EXCEPT ![n] = FALSE]
  /\ UNCHANGED <<nextSeq, cmsgQueue, sendVars, recvVars, fate, net, history>>

-----------------------------------------------------------------------------
(* cmsgSendingThread.                                                      *)

SenderAt(n, pc) == fate[n] = "up" /\ spc[n] = pc

(* while (sending), then the peek under the lock.                          *)
SenderPeek(n) ==
  /\ SenderAt(n, "loop")
  /\ spc' = [spc EXCEPT ![n] = IF ~sending[n] THEN "done"
                               ELSE IF cmsgQueue[n] = <<>> THEN "beat" ELSE "peeked"]
  /\ entity' = [entity EXCEPT ![n] = IF sending[n] /\ cmsgQueue[n] # <<>>
                                     THEN Head(cmsgQueue[n]) ELSE @]
  /\ UNCHANGED <<nextSeq, cmsgQueue, mainVars, recvVars, fate, net, history>>

(* [entity retain], after the lock was given up: an entity that the other  *)
(* thread polled in between is freed memory, which works or does not.      *)
SenderRetain(n) ==
  /\ SenderAt(n, "peeked")
  /\ \/ /\ spc' = [spc EXCEPT ![n] = "held"]
        /\ UNCHANGED fate
     \/ /\ ~InQueue(cmsgQueue[n], entity[n].seq)
        /\ fate' = [fate EXCEPT ![n] = "dangling"]
        /\ UNCHANGED spc
  /\ UNCHANGED <<nextSeq, cmsgQueue, mainVars, entity, recvVars, net, history>>

(* A message sent too often ends the sending loop and is reported to the   *)
(* delegate.  Push2TalkController has no timeoutFortalkManager: (it is     *)
(* commented out): the message is an unrecognised selector, which          *)
(* terminates the process; a nil delegate ignores it.                      *)
SenderExpire(n) ==
  /\ SenderAt(n, "held")
  /\ entityExpired(entity[n])
  /\ sending' = [sending EXCEPT ![n] = FALSE]
  /\ fate' = [fate EXCEPT ![n] = IF receiving[n] THEN "noHandler" ELSE @]
  /\ spc' = [spc EXCEPT ![n] = "beat"]
  /\ UNCHANGED <<nextSeq, cmsgQueue, receiving, entity, recvVars, net, history>>

(* A heart beat gives way when something waits behind it: the length is    *)
(* read without the lock, the poll is another step.                        *)
FaultyYieldsToNext(n) == Len(cmsgQueue[n]) > 1

YieldsToNext(n) == entity[n].type = "HB2" /\ Len(cmsgQueue[n]) > 1

SenderDecideDrop(n) ==
  /\ SenderAt(n, "held")
  /\ ~entityExpired(entity[n])
  /\ YieldsToNext(n)
  /\ spc' = [spc EXCEPT ![n] = "drop"]
  /\ UNCHANGED <<nextSeq, cmsgQueue, mainVars, entity, recvVars, fate, net, history>>

SenderDrop(n) ==
  /\ SenderAt(n, "drop")
  /\ PollFor(n, entity[n].seq)
  /\ spc' = [spc EXCEPT ![n] = "beat"]
  /\ UNCHANGED <<nextSeq, mainVars, entity, recvVars, fate, net, scheduled,
                 delivered, beats>>

(* entity.retryTimes + 1 on the object the queue shares with the thread.   *)
FaultyAgain(e) == e
FaultyCountDown(e) == [e EXCEPT !.retryTimes = @ - 1]

Again(e) == [e EXCEPT !.retryTimes = @ + 1]
Retried(q, s) == [i \in 1..Len(q) |-> IF q[i].seq = s THEN Again(q[i]) ELSE q[i]]

(* retryNeeded: at once for the first transmission, after SEND_INTERVAL or *)
(* HB_RETRY_INTERVAL for the others, so SenderWait can be the outcome only *)
(* of an entity that was sent before.                                      *)
SenderSend(n) ==
  /\ SenderAt(n, "held")
  /\ ~entityExpired(entity[n])
  /\ ~YieldsToNext(n)
  /\ entity' = [entity EXCEPT ![n] = Again(@)]
  /\ cmsgQueue' = [cmsgQueue EXCEPT ![n] = Retried(@, entity[n].seq)]
  /\ sendMessage(n, entity[n].type, entity[n].seq)
  /\ spc' = [spc EXCEPT ![n] = "beat"]
  /\ UNCHANGED <<nextSeq, mainVars, recvVars, fate, history>>

SenderWait(n) ==
  /\ SenderAt(n, "held")
  /\ ~entityExpired(entity[n])
  /\ ~YieldsToNext(n)
  /\ entity[n].retryTimes # 0
  /\ spc' = [spc EXCEPT ![n] = "beat"]
  /\ UNCHANGED <<nextSeq, cmsgQueue, mainVars, entity, recvVars, fate, net, history>>

(* The tail of an iteration: schedule a heart beat when nothing was sent   *)
(* for HEART_BEAT_INTERVAL by the wall clock, which also jumps while iOS   *)
(* keeps the app suspended; then sleep.                                    *)
SenderBeat(n) ==
  /\ SenderAt(n, "beat")
  /\ beats[n] < MaxBeats[n]
  /\ scheduleMessage(n, "HB2")
  /\ beats' = [beats EXCEPT ![n] = @ + 1]
  /\ spc' = [spc EXCEPT ![n] = "loop"]
  /\ entity' = [entity EXCEPT ![n] = NoEntity]
  /\ UNCHANGED <<mainVars, recvVars, fate, net, scheduled, delivered, lost>>

SenderSleep(n) ==
  /\ SenderAt(n, "beat")
  /\ spc' = [spc EXCEPT ![n] = "loop"]
  /\ entity' = [entity EXCEPT ![n] = NoEntity]
  /\ UNCHANGED <<nextSeq, cmsgQueue, mainVars, recvVars, fate, net, history>>

-----------------------------------------------------------------------------
(* receivingThread.                                                        *)

ReceiverAt(n, pc) == fate[n] = "up" /\ rpc[n] = pc

Arrives(n, p) == ReceiverAt(n, "loop") /\ receiving[n] /\ p \in net /\ p.dst = n

(* Anything but an ACK is acknowledged first, however often it comes ...   *)
RecvControl(n, p) ==
  /\ Arrives(n, p) /\ p.type # "ACK"
  /\ sendMessage(n, "ACK", p.seq)
  /\ cmsg' = [cmsg EXCEPT ![n] = p]
  /\ rpc' = [rpc EXCEPT ![n] = "deliver"]
  /\ UNCHANGED <<nextSeq, cmsgQueue, mainVars, sendVars, rhead, fate, history>>

(* ... and handed to the delegate, unless it is a heart beat or endSession *)
(* has cleared the delegate meanwhile.                                     *)
RecvDeliver(n) ==
  /\ ReceiverAt(n, "deliver")
  /\ delivered' = [delivered EXCEPT ![n] =
                     IF cmsg[n].type # "HB2" /\ receiving[n]
                     THEN @ \cup {cmsg[n].seq} ELSE @]
  /\ cmsg' = [cmsg EXCEPT ![n] = NoPacket(n)]
  /\ rpc' = [rpc EXCEPT ![n] = "loop"]
  /\ UNCHANGED <<nextSeq, cmsgQueue, mainVars, sendVars, rhead, fate, net,
                 scheduled, lost, beats>>

(* An ACK: peek without the lock.                                          *)
RecvAck(n, p) ==
  /\ Arrives(n, p) /\ p.type = "ACK"
  /\ cmsg' = [cmsg EXCEPT ![n] = p]
  /\ rhead' = [rhead EXCEPT ![n] = peek(cmsgQueue[n])]
  /\ rpc' = [rpc EXCEPT ![n] = "peeked"]
  /\ UNCHANGED <<nextSeq, cmsgQueue, mainVars, sendVars, fate, net, history>>

(* Retain it (see SenderRetain) and compare its number with the ACK's.     *)
FaultyMatches(n) == rhead[n] # <<>>

Matches(n) == rhead[n] # <<>> /\ Head(rhead[n]) = cmsg[n].seq

RecvMatch(n) ==
  /\ ReceiverAt(n, "peeked")
  /\ \/ /\ rpc' = [rpc EXCEPT ![n] = IF Matches(n) THEN "poll" ELSE "loop"]
        /\ rhead' = [rhead EXCEPT ![n] = <<>>]
        /\ cmsg' = [cmsg EXCEPT ![n] = IF Matches(n) THEN @ ELSE NoPacket(n)]
        /\ UNCHANGED fate
     \/ /\ rhead[n] # <<>>
        /\ ~InQueue(cmsgQueue[n], Head(rhead[n]))
        /\ fate' = [fate EXCEPT ![n] = "dangling"]
        /\ UNCHANGED recvVars
  /\ UNCHANGED <<nextSeq, cmsgQueue, mainVars, sendVars, net, history>>

(* The poll under the lock: it removes whatever is the head by now.        *)
RecvPoll(n) ==
  /\ ReceiverAt(n, "poll")
  /\ PollFor(n, cmsg[n].seq)
  /\ cmsg' = [cmsg EXCEPT ![n] = NoPacket(n)]
  /\ rpc' = [rpc EXCEPT ![n] = "loop"]
  /\ UNCHANGED <<nextSeq, mainVars, sendVars, rhead, fate, net, scheduled,
                 delivered, beats>>

RecvExit(n) ==
  /\ ReceiverAt(n, "loop") /\ ~receiving[n]
  /\ rpc' = [rpc EXCEPT ![n] = "done"]
  /\ UNCHANGED <<nextSeq, cmsgQueue, mainVars, sendVars, cmsg, rhead, fate, net, history>>

-----------------------------------------------------------------------------
Main(n) == \/ startPush2Talk(n)
           \/ \E t \in AppType : sendControlMessage(n, t)
           \/ endSession(n)

cmsgSendingThread(n) ==
  \/ SenderPeek(n) \/ SenderRetain(n) \/ SenderExpire(n)
  \/ SenderDecideDrop(n) \/ SenderDrop(n) \/ SenderSend(n) \/ SenderWait(n)
  \/ SenderBeat(n) \/ SenderSleep(n)

receivingThread(n) ==
  \/ \E p \in net : RecvControl(n, p) \/ RecvAck(n, p)
  \/ RecvDeliver(n) \/ RecvMatch(n) \/ RecvPoll(n) \/ RecvExit(n)

Next == \E n \in Node : Main(n) \/ cmsgSendingThread(n) \/ receivingThread(n)

Spec == Init /\ [][Next]_vars

(* Threads that can run do run, and time passes: an entity that waits for  *)
(* its retry interval is not examined too early forever.  Nothing is       *)
(* assumed of the network.                                                 *)
Fairness ==
  \A n \in Node :
    /\ WF_vars(cmsgSendingThread(n))
    /\ SF_vars(SenderSend(n))
    /\ WF_vars(RecvDeliver(n) \/ RecvMatch(n) \/ RecvPoll(n))

FairSpec == Spec /\ Fairness

-----------------------------------------------------------------------------
(* Properties.                                                             *)

TypeOK ==
  /\ nextSeq \in [Node -> Nat]
  /\ cmsgQueue \in [Node -> Seq(Entity)]
  /\ sending \in [Node -> BOOLEAN]
  /\ receiving \in [Node -> BOOLEAN]
  /\ spc \in [Node -> {"off", "loop", "peeked", "held", "drop", "beat", "done"}]
  /\ entity \in [Node -> Entity]
  /\ rpc \in [Node -> {"off", "loop", "deliver", "peeked", "poll", "done"}]
  /\ cmsg \in [Node -> Packet]
  /\ rhead \in [Node -> Seq(Nat)]
  /\ fate \in [Node -> {"up", "dangling", "noHandler"}]
  /\ net \subseteq Packet
  /\ scheduled \in [Node -> SUBSET Nat]
  /\ delivered \in [Node -> SUBSET Nat]
  /\ lost \in [Node -> SUBSET Nat]
  /\ beats \in [Node -> Nat]

Running(n) == fate[n] = "up" /\ receiving[n]

(* At-least-once delivery: a control message the controller scheduled is   *)
(* still queued, or reached the peer's controller (or is in the hands of   *)
(* the peer's receivingThread, or the peer's session is over), or is one   *)
(* of the lost ones below.  It is about the hand-over from cmsgQueue to    *)
(* the ACK: only an acknowledged message may leave the queue.              *)
DeliveredOrLost ==
  \A n \in Node : \A s \in scheduled[n] :
    \/ InQueue(cmsgQueue[n], s)
    \/ s \in delivered[Peer[n]]
    \/ s \in lost[n]
    \/ rpc[Peer[n]] = "deliver" /\ cmsg[Peer[n]].seq = s
    \/ ~Running(Peer[n])

(* Stop-and-wait keeps the order: when a message has reached the peer's    *)
(* controller, so has every message scheduled before it, retransmission    *)
(* and reordering in the network notwithstanding, but for the lost ones.   *)
InOrderDelivery ==
  \A n \in Node : Running(Peer[n]) =>
    \A s \in scheduled[n] \cap delivered[Peer[n]] : \A r \in scheduled[n] :
      r < s => r \in delivered[Peer[n]] \cup lost[n]

(* The channel as the controllers see it: this specification implements    *)
(* ControlChannel, step for step.                                          *)
Channel == INSTANCE ControlChannel

ImplementsChannel == Channel!CSpec

(* The two threads can both poll for one heart beat, the sender to drop it *)
(* and the receiver because its ACK came; the second poll then takes an    *)
(* innocent message.  Each heart beat costs at most one message, and a     *)
(* session without heart beats loses none.                                 *)
LostAtMostBeats == \A n \in Node : Cardinality(lost[n]) <= beats[n]

(* The retry limit keeps the queue moving with no help from the network: a *)
(* scheduled message leaves the queue, or the process or session ends.     *)
QueueMoves ==
  \A n \in Node : \A s \in 0..(MaxMsgs[n] + MaxBeats[n]) :
    InQueue(cmsgQueue[n], s) ~> ~InQueue(cmsgQueue[n], s) \/ ~Running(n)
=============================================================================

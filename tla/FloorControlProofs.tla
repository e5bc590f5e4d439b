-------------------------- MODULE FloorControlProofs --------------------------
(* TLAPS proofs about FloorControl, for any number of presses, slides,     *)
(* duplicates and losses: its type invariant, that microphone and player   *)
(* follow the talk state, that the floor is neither copied (but by a       *)
(* duplicate) nor dropped (but by a loss), and that the controllers run    *)
(* over the channel ControlChannel describes.                              *)
EXTENDS FloorControl, Counting

(* Before push2TalkConnected no device was started.                        *)
NewIsReady == \A n \in Node : phase[n] = "new" => talkState[n] = "Ready"

IInv == TypeOK /\ NewIsReady /\ DevicesFollowState

(* The parts of IInv that handlers of the main thread can disturb.         *)
StateType == /\ talkState \in [Node -> TalkState]
             /\ phase \in [Node -> {"new", "open", "ended"}]
             /\ recording \in [Node -> BOOLEAN]
             /\ playing \in [Node -> BOOLEAN]

(* What DevicesFollowState and NewIsReady say of phone n.                  *)
Follows(n) == /\ phase[n] = "new" => talkState[n] = "Ready"
              /\ recording[n] => talkState[n] = "Talking"
              /\ playing[n] => talkState[n] = "Listening"
              /\ phase[n] = "open" => /\ talkState[n] = "Talking" => recording[n]
                                      /\ talkState[n] = "Listening" => playing[n]

LEMMA FollowsAll == NewIsReady /\ DevicesFollowState <=> \A n \in Node : Follows(n)
  BY DEF NewIsReady, DevicesFollowState, Follows

-----------------------------------------------------------------------------
LEMMA SendType ==
  ASSUME TypeOK, NEW n \in Node, NEW t \in CMessageType, sendControlMessage(n, t)
  PROVE  sent' \in [Node -> Seq(CMessageType)]
  <1>1. Append(sent[n], t) \in Seq(CMessageType)
    BY AppendProperties DEF TypeOK
  <1> QED
    BY <1>1 DEF TypeOK, sendControlMessage

(* The channel variables keep their types whether a handler sends or not.  *)
ChannelType == /\ sent \in [Node -> Seq(CMessageType)]
               /\ delivered \in [Node -> SUBSET (Nat \ {0})]
               /\ lost \in [Node -> SUBSET (Nat \ {0})]
               /\ dups \in Nat

LEMMA ChannelKept ==
  ASSUME TypeOK, NEW n \in Node,
         UNCHANGED channel \/ \E t \in CMessageType : sendControlMessage(n, t)
  PROVE  ChannelType'
  <1>1. CASE UNCHANGED channel
    BY <1>1 DEF TypeOK, ChannelType, channel
  <1>2. CASE \E t \in CMessageType : sendControlMessage(n, t)
    BY <1>2, SendType DEF TypeOK, ChannelType, sendControlMessage
  <1> QED
    BY <1>1, <1>2

ButtonType == /\ pressed \in [Node -> BOOLEAN]
              /\ touching \in [Node -> BOOLEAN]
              /\ presses \in [Node -> Nat]
              /\ slides \in Nat

LEMMA TypeParts ==
  TypeOK <=> StateType /\ ChannelType /\ ButtonType /\ mainQueue \in [Node -> Seq(CMessageType)]
  BY DEF TypeOK, StateType, ChannelType, ButtonType

LEMMA Assemble ==
  ASSUME StateType', ChannelType', ButtonType', mainQueue' \in [Node -> Seq(CMessageType)]
  PROVE  TypeOK'
  BY DEF TypeOK, StateType, ChannelType, ButtonType

(* A step that changes the talk state and the devices of n only.           *)
Moves(n, ts, rec, play) ==
  /\ talkState' = [talkState EXCEPT ![n] = ts]
  /\ recording' = [recording EXCEPT ![n] = rec]
  /\ playing' = [playing EXCEPT ![n] = play]

LEMMA MovesKeep ==
  ASSUME StateType, \A m \in Node : Follows(m), NEW n \in Node,
         NEW ts \in TalkState, NEW rec \in BOOLEAN, NEW play \in BOOLEAN,
         Moves(n, ts, rec, play), phase' = phase,
         phase[n] # "new",
         rec <=> ts = "Talking", play <=> ts = "Listening"
  PROVE  StateType' /\ \A m \in Node : Follows(m)'
  <1>1. StateType'
    BY DEF StateType, Moves
  <1>2. ASSUME NEW m \in Node, m # n PROVE Follows(m)'
    <2>1. UNCHANGED <<phase[m], talkState[m], recording[m], playing[m]>>
      BY <1>2 DEF StateType, Moves
    <2> QED
      BY <2>1 DEF Follows
  <1>3. Follows(n)'
    <2>1. talkState'[n] = ts /\ recording'[n] = rec /\ playing'[n] = play /\ phase'[n] = phase[n]
      BY DEF StateType, Moves
    <2> QED
      BY <2>1 DEF Follows
  <1> QED
    BY <1>1, <1>2, <1>3

LEMMA SameKeeps ==
  ASSUME StateType, \A m \in Node : Follows(m), UNCHANGED <<talkState, phase, recording, playing>>
  PROVE  StateType' /\ \A m \in Node : Follows(m)'
  BY DEF StateType, Follows

-----------------------------------------------------------------------------
(* The steps.  Good is IInv in the form the steps use.                     *)

Good == TypeOK /\ \A m \in Node : Follows(m)

Kept == StateType' /\ \A m \in Node : Follows(m)'

LEMMA SessionStep ==
  ASSUME Good, NEW n \in Node, push2TalkConnected(n) \/ endSession(n)
  PROVE  Good'
  <1> USE DEF Good
  <1>1. StateType
    BY TypeParts
  <1>2. StateType'
    BY <1>1 DEF push2TalkConnected, endSession, StateType, setTalkState, Devices, device, TalkState
  <1>3. ASSUME NEW m \in Node, m # n PROVE Follows(m)'
    <2>1. UNCHANGED <<phase[m], talkState[m], recording[m], playing[m]>>
      BY <1>1, <1>3 DEF push2TalkConnected, endSession, StateType, setTalkState, Devices, device
    <2> QED
      BY <2>1 DEF Follows
  <1>4. Follows(n)'
    <2>1. CASE push2TalkConnected(n)
      <3>1. phase[n] = "new" /\ ~recording[n] /\ ~playing[n]
        BY <2>1 DEF push2TalkConnected, Follows
      <3>2. CASE n = Caller
        <4>1. phase'[n] = "open" /\ talkState'[n] = "CanTalk" /\ UNCHANGED <<recording[n], playing[n]>>
          BY <1>1, <2>1, <3>2 DEF push2TalkConnected, StateType, setTalkState, device
        <4> QED
          BY <3>1, <4>1 DEF Follows
      <3>3. CASE n # Caller
        <4>1. phase'[n] = "open" /\ talkState'[n] = "Listening" /\ playing'[n] = TRUE
          BY <1>1, <2>1, <3>3 DEF push2TalkConnected, StateType, setTalkState, Devices
        <4>2. recording'[n] = recording[n]
          BY <1>1, <2>1, <3>3 DEF push2TalkConnected, StateType, Devices
        <4> QED
          BY <3>1, <4>1, <4>2 DEF Follows
      <3> QED
        BY <3>2, <3>3
    <2>2. CASE endSession(n)
      <3>1. phase'[n] = "ended" /\ recording'[n] = FALSE /\ playing'[n] = FALSE
        BY <1>1, <2>2 DEF endSession, StateType, Devices
      <3> QED
        BY <3>1 DEF Follows
    <2> QED
      BY <2>1, <2>2
  <1>5. ChannelType' /\ ButtonType' /\ mainQueue' \in [Node -> Seq(CMessageType)]
    BY TypeParts DEF push2TalkConnected, endSession, channel, button, ChannelType, ButtonType
  <1> QED
    BY <1>2, <1>3, <1>4, <1>5, Assemble

LEMMA ButtonStep ==
  ASSUME Good, NEW n \in Node,
         actionPushed(n) \/ actionReleased(n) \/ TouchUpOutside(n)
  PROVE  Good'
  <1> USE DEF Good
  <1>1. StateType /\ ButtonType
    BY TypeParts
  <1>2. ButtonType'
    <2>1. CASE actionPushed(n)
      BY <1>1, <2>1 DEF actionPushed, ButtonType
    <2>2. CASE actionReleased(n)
      BY <1>1, <2>2 DEF actionReleased, ButtonType
    <2>3. CASE TouchUpOutside(n)
      BY <1>1, <2>3 DEF TouchUpOutside, ButtonType
    <2> QED
      BY <2>1, <2>2, <2>3
  <1>3. ChannelType'
    BY ChannelKept DEF actionPushed, actionReleased, TouchUpOutside, CMessageType
  <1>4. mainQueue' = mainQueue /\ phase' = phase
    BY DEF actionPushed, actionReleased, TouchUpOutside
  <1>5. Kept
    <2>1. CASE UNCHANGED <<talkState, device>>
      BY <1>1, <1>4, <2>1, SameKeeps DEF device, Kept
    <2>2. CASE talkState[n] = "CanTalk" /\ Moves(n, "Talking", TRUE, FALSE)
      <3>1. phase[n] # "new"
        BY <2>2 DEF Follows
      <3> QED
        BY <1>1, <1>4, <2>2, <3>1, MovesKeep DEF TalkState, Kept
    <2>3. CASE talkState[n] = "Talking" /\ Moves(n, "Listening", FALSE, TRUE)
      <3>1. phase[n] # "new"
        BY <2>3 DEF Follows
      <3> QED
        BY <1>1, <1>4, <2>3, <3>1, MovesKeep DEF TalkState, Kept
    <2> QED
      BY <2>1, <2>2, <2>3 DEF actionPushed, actionReleased, TouchUpOutside, setTalkState,
                              Devices, Moves
  <1> QED
    BY <1>2, <1>3, <1>4, <1>5, TypeParts, Assemble DEF Kept

LEMMA HandleStep ==
  ASSUME Good, NEW n \in Node, handleCMessageType(n)
  PROVE  Good'
  <1> USE DEF Good
  <1>1. StateType /\ ButtonType /\ mainQueue \in [Node -> Seq(CMessageType)]
    BY TypeParts
  <1>2. ButtonType' /\ phase' = phase
    BY <1>1 DEF handleCMessageType, button, ButtonType
  <1>3. mainQueue' \in [Node -> Seq(CMessageType)]
    <2>1. mainQueue[n] # <<>> /\ mainQueue[n] \in Seq(CMessageType)
      BY <1>1 DEF handleCMessageType
    <2>2. Tail(mainQueue[n]) \in Seq(CMessageType)
      BY <2>1, HeadTailProperties
    <2> QED
      BY <1>1, <2>2 DEF handleCMessageType
  <1>4. FloorArrives(n) \/ FloorAsked(n) \/ AskedWhileListening(n) \/ Ignored(n, Head(mainQueue[n]))
    BY DEF handleCMessageType
  <1>5. ChannelType'
    BY <1>4, ChannelKept DEF FloorArrives, FloorAsked, AskedWhileListening, Ignored, CMessageType
  <1>6. Kept
    <2>1. CASE Ignored(n, Head(mainQueue[n]))
      BY <1>1, <1>2, <2>1, SameKeeps DEF Ignored, device, Kept
    <2>2. CASE FloorAsked(n)
      <3>1. phase[n] # "new" /\ Moves(n, "Listening", FALSE, TRUE)
        BY <2>2 DEF FloorAsked, Follows, setTalkState, Devices, Moves
      <3> QED
        BY <1>1, <1>2, <3>1, MovesKeep DEF TalkState, Kept
    <2>3. CASE AskedWhileListening(n)
      <3>1. phase[n] # "new"
        BY <2>3 DEF AskedWhileListening, Follows
      <3>2. Moves(n, "Listening", FALSE, TRUE)
        BY <1>1, <2>3 DEF AskedWhileListening, Devices, Moves, StateType
      <3> QED
        BY <1>1, <1>2, <3>1, <3>2, MovesKeep DEF TalkState, Kept
    <2>4. CASE FloorArrives(n)
      <3>1. phase[n] # "new" /\ recording[n] = FALSE
        BY <1>1, <2>4 DEF FloorArrives, Follows, StateType
      <3>2. CASE pressed[n]
        <4>1. Moves(n, "Talking", TRUE, FALSE)
          BY <2>4, <3>2 DEF FloorArrives, setTalkState, Devices, Moves
        <4> QED
          BY <1>1, <1>2, <3>1, <4>1, MovesKeep DEF TalkState, Kept
      <3>3. CASE ~pressed[n]
        <4>1. Moves(n, "CanTalk", FALSE, FALSE)
          BY <2>4, <3>1, <3>3 DEF FloorArrives, setTalkState, Devices, Moves
        <4> QED
          BY <1>1, <1>2, <3>1, <4>1, MovesKeep DEF TalkState, Kept
      <3> QED
        BY <3>2, <3>3
    <2> QED
      BY <1>4, <2>1, <2>2, <2>3, <2>4
  <1> QED
    BY <1>2, <1>3, <1>5, <1>6, Assemble DEF Kept

(* What ControlChannel's Deliver and Lose do to this module's variables.   *)
LEMMA Delivers ==
  ASSUME NEW n \in Node, NEW i, Deliver(n, i)
  PROVE  /\ UNCHANGED <<talkState, button, phase, device, sent, lost, dups>>
         /\ phase[n] = "open" /\ i \notin delivered[n] /\ Post(n, i)
         /\ delivered' = [delivered EXCEPT ![n] = @ \cup {i}]
  BY DEF Deliver, Channel!Deliver

LEMMA Loses ==
  ASSUME NEW n \in Node, NEW i, Lose(n, i)
  PROVE  /\ UNCHANGED <<talkState, button, phase, device, mainQueue, sent, delivered, dups>>
         /\ lost' = [lost EXCEPT ![n] = @ \cup {i}]
         /\ i \notin lost[n]
  BY DEF Lose, Channel!Lose

LEMMA TransportStep ==
  ASSUME Good, NEW n \in Node, Transport(n)
  PROVE  Good'
  <1> USE DEF Good
  <1>1. StateType /\ ChannelType /\ ButtonType /\ mainQueue \in [Node -> Seq(CMessageType)]
    BY TypeParts
  <1>2. Peer[n] \in Node
    BY PeerAssumption
  <1>3. UNCHANGED <<talkState, button, phase, device, sent>>
    BY Delivers, Loses DEF Transport, Redeliver
  <1>4. DOMAIN sent[Peer[n]] \subseteq Nat \ {0} /\ DOMAIN sent[n] \subseteq Nat \ {0}
    BY <1>1, <1>2, LenProperties DEF ChannelType
  <1>5. Kept
    BY <1>1, <1>3, SameKeeps DEF device, Kept
  <1>6. ButtonType'
    BY <1>1, <1>3 DEF ButtonType, button
  <1>7. ASSUME NEW i \in DOMAIN sent[Peer[n]], Deliver(n, i) \/ Redeliver(n, i)
        PROVE  ChannelType' /\ mainQueue' \in [Node -> Seq(CMessageType)]
    <2>1. sent[Peer[n]][i] \in CMessageType
      BY <1>1, <1>2, LenProperties DEF ChannelType
    <2>2. Append(mainQueue[n], sent[Peer[n]][i]) \in Seq(CMessageType)
      BY <1>1, <2>1, AppendProperties
    <2>3. mainQueue' \in [Node -> Seq(CMessageType)]
      <3>1. Post(n, i)
        BY <1>7, Delivers DEF Redeliver
      <3> QED
        BY <1>1, <2>2, <3>1 DEF Post
    <2>4. ChannelType'
      <3>1. CASE Deliver(n, i)
        <4>1. UNCHANGED <<sent, lost, dups>> /\ delivered' = [delivered EXCEPT ![n] = @ \cup {i}]
          BY <3>1, Delivers
        <4> QED
          BY <1>1, <1>4, <4>1 DEF ChannelType
      <3>2. CASE Redeliver(n, i)
        BY <1>1, <3>2 DEF Redeliver, ChannelType
      <3> QED
        BY <1>7, <3>1, <3>2
    <2> QED
      BY <2>3, <2>4
  <1>8. ASSUME NEW i \in DOMAIN sent[n], Lose(n, i)
        PROVE  ChannelType' /\ mainQueue' \in [Node -> Seq(CMessageType)]
    <2>1. /\ UNCHANGED <<mainQueue, sent, delivered, dups>>
          /\ lost' = [lost EXCEPT ![n] = @ \cup {i}]
      BY <1>8, Loses
    <2> QED
      BY <1>1, <1>4, <2>1 DEF ChannelType
  <1> QED
    BY <1>5, <1>6, <1>7, <1>8, Assemble DEF Transport, Kept

LEMMA InitInv == Init => IInv
  BY DEF Init, IInv, TypeOK, TalkState, NewIsReady, DevicesFollowState

LEMMA StepInv == IInv /\ [Next]_vars => IInv'
  <1> SUFFICES ASSUME IInv, [Next]_vars PROVE IInv'
    OBVIOUS
  <1>1. Good
    BY FollowsAll DEF IInv, Good
  <1>2. CASE UNCHANGED vars
    BY <1>2 DEF IInv, vars, button, TypeOK, NewIsReady, DevicesFollowState
  <1>3. CASE Next
    <2>1. Good'
      BY <1>1, <1>3, SessionStep, ButtonStep, HandleStep, TransportStep DEF Next, Controller
    <2> QED
      BY <2>1, FollowsAll DEF IInv, Good, NewIsReady, DevicesFollowState, Follows
  <1> QED
    BY <1>2, <1>3

(* The handlers of both controllers keep their types.                      *)
THEOREM TypeCorrect == Spec => []TypeOK
  BY InitInv, StepInv, PTL DEF Spec, IInv

(* Whatever the buttons, the session calls and messages that run late do,  *)
(* TalkSender is started only while Talking and TalkRecver only while      *)
(* Listening, and in an open session both are when they should be.         *)
THEOREM DevicesCorrect == Spec => []DevicesFollowState
  BY InitInv, StepInv, PTL DEF Spec, IInv

-----------------------------------------------------------------------------
(* The floor.  What a controller may be said to have of it: the right to   *)
(* talk, DNT messages its peer did not get yet (the lost ones may still    *)
(* turn up), and DNT calls that wait on its main thread.                   *)

Held(n) == IF talkState[n] \in {"CanTalk", "Talking"} THEN 1 ELSE 0
Pending(n) == {i \in DOMAIN sent[n] \ delivered[Peer[n]] : sent[n][i] = "DNT"}

Mine(n) == Held(n) + Cardinality(Pending(n)) + Cardinality(Posted(n))
Saved(n) == Held(n) + Cardinality(UnderWay(n)) + Cardinality(Posted(n)) + Cardinality(lost[n])

(* The caller's push2TalkConnected makes the one floor.                    *)
Made == IF phase[Caller] = "new" THEN 0 ELSE 1

(* No more than was made and duplicated.  FloorNotCopied alone is not      *)
(* inductive: a lost message is in none of its terms, and may be posted    *)
(* later.                                                                  *)
AtMost == \A n \in Node : Mine(n) + Mine(Peer[n]) <= Made + dups

AtLeast == InSession => \A n \in Node : Saved(n) + Saved(Peer[n]) >= 1

(* What both need of the rest: the numbers of messages are places of sent, *)
(* and a phone that is not connected has no message to ignore.             *)
Sane == \A n \in Node :
  /\ delivered[n] \subseteq DOMAIN sent[Peer[n]]
  /\ lost[n] \subseteq DOMAIN sent[n]
  /\ talkState[n] = "Ready" <=> phase[n] = "new"
  /\ phase[n] = "new" => mainQueue[n] = <<>>

FInv == TypeOK /\ Sane /\ AtMost /\ AtLeast

LEMMA Peers == ASSUME NEW n \in Node
               PROVE  /\ Peer[n] \in Node /\ Peer[n] # n /\ Peer[Peer[n]] = n
                      /\ Caller \in Node
                      /\ \A k \in Node : k = n \/ k = Peer[n]
  BY PeerAssumption

(* All the sets that are counted are finite.                               *)
LEMMA Finite ==
  ASSUME TypeOK, Sane, NEW n \in Node
  PROVE  /\ IsFiniteSet(Pending(n)) /\ Cardinality(Pending(n)) \in Nat
         /\ IsFiniteSet(UnderWay(n)) /\ Cardinality(UnderWay(n)) \in Nat
         /\ IsFiniteSet(lost[n]) /\ Cardinality(lost[n]) \in Nat
         /\ IsFiniteSet(Posted(n)) /\ Cardinality(Posted(n)) \in Nat
         /\ Held(n) \in {0, 1}
  <1>1. DOMAIN sent[n] = 1..Len(sent[n]) /\ Len(sent[n]) \in Nat
    BY LenProperties DEF TypeOK
  <1>2. IsFiniteSet(DOMAIN sent[n])
    BY <1>1, FS_Interval
  <1>3. /\ Pending(n) \in SUBSET DOMAIN sent[n]
        /\ UnderWay(n) \in SUBSET DOMAIN sent[n]
        /\ lost[n] \in SUBSET DOMAIN sent[n]
    BY DEF Pending, UnderWay, Sane
  <1>4. IsFiniteSet(Pending(n)) /\ IsFiniteSet(UnderWay(n)) /\ IsFiniteSet(lost[n])
    BY <1>2, <1>3, FS_Subset
  <1>5. mainQueue[n] \in Seq(CMessageType) /\ Posted(n) = Places(mainQueue[n], "DNT")
    BY DEF TypeOK, Posted, Places
  <1> QED
    BY <1>4, <1>5, PlacesFinite, FS_CardinalityType DEF Held

(* Bounds shown for one phone and its peer hold for both phones.           *)
LEMMA BoundBoth ==
  ASSUME NEW n \in Node,
         Mine(n)' \in Nat, Mine(Peer[n])' \in Nat, Saved(n)' \in Nat, Saved(Peer[n])' \in Nat,
         Mine(n)' + Mine(Peer[n])' <= Made' + dups',
         InSession' => Saved(n)' + Saved(Peer[n])' >= 1
  PROVE  AtMost' /\ AtLeast'
  <1>1. ASSUME NEW k \in Node
        PROVE  /\ Mine(k)' + Mine(Peer[k])' <= Made' + dups'
               /\ InSession' => Saved(k)' + Saved(Peer[k])' >= 1
    <2>1. CASE k = n
      BY <2>1
    <2>2. CASE k = Peer[n]
      <3>1. Peer[k] = n
        BY <2>2, Peers
      <3>2. /\ Mine(k)' = Mine(Peer[n])' /\ Mine(Peer[k])' = Mine(n)'
            /\ Saved(k)' = Saved(Peer[n])' /\ Saved(Peer[k])' = Saved(n)'
        BY <2>2, <3>1
      <3> QED
        BY <3>2
    <2> QED
      BY <2>1, <2>2, Peers
  <1> QED
    BY <1>1 DEF AtMost, AtLeast

(* What n sends: a DNT is one more message under way, if the session is    *)
(* open.                                                                   *)
LEMMA SendFloor ==
  ASSUME TypeOK, Sane, NEW n \in Node, NEW t \in CMessageType, sendControlMessage(n, t)
  PROVE  /\ \A k \in Node : k # n => Pending(k)' = Pending(k) /\ UnderWay(k)' = UnderWay(k)
         /\ lost' = lost /\ dups' = dups
         /\ IF t = "DNT" /\ phase[n] = "open"
            THEN /\ Cardinality(Pending(n)') = Cardinality(Pending(n)) + 1
                 /\ Cardinality(UnderWay(n)') = Cardinality(UnderWay(n)) + 1
            ELSE Pending(n)' = Pending(n) /\ UnderWay(n)' = UnderWay(n)
         /\ delivered' = delivered
         /\ \A k \in Node : DOMAIN sent[k] \subseteq DOMAIN sent'[k]
  <1>0. Peer[n] \in Node
    BY Peers
  <1>1. UNCHANGED <<delivered, lost, dups>>
    BY DEF sendControlMessage
  <1>2. \A k \in Node : k # n => sent'[k] = sent[k]
    BY DEF sendControlMessage, TypeOK
  <1>3. sent'[n] = IF phase[n] = "open" THEN Append(sent[n], t) ELSE sent[n]
    BY DEF sendControlMessage, TypeOK
  <1>4. \A k \in Node : k # n => Pending(k)' = Pending(k) /\ UnderWay(k)' = UnderWay(k)
    BY <1>1, <1>2 DEF Pending, UnderWay
  <1>5. CASE phase[n] # "open"
    BY <1>1, <1>2, <1>3, <1>4, <1>5 DEF Pending, UnderWay
  <1>6. CASE phase[n] = "open"
    <2> DEFINE l == Len(sent[n]) + 1
    <2>1. /\ DOMAIN sent[n] = 1..Len(sent[n]) /\ Len(sent[n]) \in Nat
          /\ DOMAIN sent'[n] = 1..l
          /\ \A i \in 1..Len(sent[n]) : sent'[n][i] = sent[n][i]
          /\ sent'[n][l] = t
      BY <1>3, <1>6, AppendProperties, LenProperties DEF TypeOK
    <2>2. DOMAIN sent'[n] = DOMAIN sent[n] \cup {l} /\ l \notin DOMAIN sent[n]
      BY <2>1
    <2>3. l \notin delivered[Peer[n]] /\ l \notin lost[n]
      BY <1>0, <2>2, Peers DEF Sane
    <2> HIDE DEF l
    <2>4. CASE t = "DNT"
      <3>1. Pending(n)' = Pending(n) \cup {l} /\ UnderWay(n)' = UnderWay(n) \cup {l}
        BY <1>1, <2>1, <2>2, <2>3, <2>4 DEF Pending, UnderWay
      <3>2. l \notin Pending(n) /\ l \notin UnderWay(n)
        BY <2>2 DEF Pending, UnderWay
      <3>3. /\ Cardinality(Pending(n)') = Cardinality(Pending(n)) + 1
            /\ Cardinality(UnderWay(n)') = Cardinality(UnderWay(n)) + 1
        BY <3>1, <3>2, Finite, CardAdd
      <3> QED
        BY <1>1, <1>2, <1>4, <1>6, <2>2, <2>4, <3>3
    <2>5. CASE t # "DNT"
      <3>1. Pending(n)' = Pending(n) /\ UnderWay(n)' = UnderWay(n)
        BY <1>1, <2>1, <2>2, <2>5 DEF Pending, UnderWay
      <3> QED
        BY <1>1, <1>2, <1>4, <2>2, <2>5, <3>1
    <2> QED
      BY <2>4, <2>5
  <1> QED
    BY <1>5, <1>6

(* A step of n's main thread, in numbers: the right to talk goes from h to *)
(* h', a posted DNT is taken (q = 1) or not, and a DNT is sent (d = 1) or  *)
(* not; d is what leaves n when it gives the floor away.                   *)
Moved(n, q, d) ==
  /\ \A k \in Node : k # n => /\ Held(k)' = Held(k) /\ Posted(k)' = Posted(k)
                              /\ Pending(k)' = Pending(k) /\ UnderWay(k)' = UnderWay(k)
  /\ lost' = lost /\ dups' = dups
  /\ Held(n)' \in {0, 1}
  /\ Cardinality(Posted(n)') = Cardinality(Posted(n)) - q
  /\ Cardinality(Posted(n)) >= q
  /\ Cardinality(Pending(n)') = Cardinality(Pending(n)) + d
  /\ Cardinality(UnderWay(n)') = Cardinality(UnderWay(n)) + d

LEMMA MovedKeeps ==
  ASSUME FInv, NEW n \in Node, NEW q \in {0, 1}, NEW d \in {0, 1}, Moved(n, q, d),
         phase' = phase,
         Held(n)' + d <= Held(n) + q,
         InSession => Held(n)' + d = Held(n) + q \/ Held(n)' = 1
  PROVE  AtMost' /\ AtLeast'
  <1> DEFINE m == Peer[n]
  <1>1. m \in Node /\ m # n
    BY Peers
  <1>2. /\ Cardinality(Pending(n)) \in Nat /\ Cardinality(UnderWay(n)) \in Nat
        /\ Cardinality(Posted(n)) \in Nat /\ Cardinality(lost[n]) \in Nat /\ Held(n) \in {0, 1}
    BY Finite DEF FInv
  <1>3. /\ Cardinality(Pending(m)) \in Nat /\ Cardinality(UnderWay(m)) \in Nat
        /\ Cardinality(Posted(m)) \in Nat /\ Cardinality(lost[m]) \in Nat /\ Held(m) \in {0, 1}
    BY <1>1, Finite DEF FInv
  <1> HIDE DEF m
  <1>4. Mine(m)' = Mine(m) /\ Saved(m)' = Saved(m) /\ Mine(m) \in Nat /\ Saved(m) \in Nat
    BY <1>1, <1>3 DEF Moved, Mine, Saved
  <1>5. /\ Mine(n)' = Held(n)' + (Cardinality(Pending(n)) + d) + (Cardinality(Posted(n)) - q)
        /\ Saved(n)' = Held(n)' + (Cardinality(UnderWay(n)) + d) + (Cardinality(Posted(n)) - q)
                        + Cardinality(lost[n])
        /\ Cardinality(Posted(n)) >= q /\ Held(n)' \in {0, 1} /\ dups' = dups
    BY DEF Moved, Mine, Saved
  <1>6. Mine(n)' \in Nat /\ Saved(n)' \in Nat /\ Mine(n)' <= Mine(n)
    <2> HIDE DEF InSession
    <2>1. Mine(n) = Held(n) + Cardinality(Pending(n)) + Cardinality(Posted(n))
      BY DEF Mine
    <2> QED
      BY <1>2, <1>5, <2>1
  <1>6a. ASSUME InSession PROVE Saved(n)' = Saved(n) \/ Saved(n)' >= 1
    <2>1. Saved(n) = Held(n) + Cardinality(UnderWay(n)) + Cardinality(Posted(n))
                        + Cardinality(lost[n])
      BY DEF Saved
    <2>2. CASE Held(n)' + d = Held(n) + q
      BY <1>2, <1>5, <2>1, <2>2
    <2>3. CASE Held(n)' = 1
      BY <1>2, <1>5, <2>3
    <2> QED
      BY <1>6a, <2>2, <2>3
  <1>7. Made' = Made /\ InSession' = InSession /\ Made \in {0, 1} /\ dups \in Nat
    BY DEF Made, InSession, FInv, TypeOK
  <1>8. Mine(n) + Mine(m) <= Made + dups /\ (InSession => Saved(n) + Saved(m) >= 1)
    BY DEF FInv, AtMost, AtLeast, m
  <1>9. Mine(n) \in Nat /\ Saved(n) \in Nat
    BY <1>2 DEF Mine, Saved
  <1>10. Mine(n)' + Mine(m)' <= Made' + dups'
    BY <1>4, <1>5, <1>6, <1>7, <1>8, <1>9
  <1>11. InSession' => Saved(n)' + Saved(m)' >= 1
    BY <1>4, <1>6, <1>7, <1>8, <1>9, <1>6a
  <1> QED
    BY <1>4, <1>6, <1>10, <1>11, BoundBoth DEF m

LEMMA HeldAlone ==
  ASSUME TypeOK, NEW n \in Node, NEW ts, talkState' = [talkState EXCEPT ![n] = ts]
  PROVE  /\ \A k \in Node : k # n => Held(k)' = Held(k)
         /\ Held(n)' = IF ts \in {"CanTalk", "Talking"} THEN 1 ELSE 0
  BY DEF TypeOK, Held

LEMMA ChannelStays ==
  ASSUME UNCHANGED channel, NEW k \in Node
  PROVE  Pending(k)' = Pending(k) /\ UnderWay(k)' = UnderWay(k)
  BY DEF channel, Pending, UnderWay

(* A phone of an open session that may talk has its session open.          *)
LEMMA InSessionOpen ==
  ASSUME TypeOK, Sane, InSession, NEW n \in Node, talkState[n] # "Ready"
  PROVE  phase[n] = "open"
  <1>1. n = Caller \/ n = Peer[Caller]
    BY Peers
  <1>2. phase[n] # "new" /\ phase[n] \in {"new", "open", "ended"}
    BY DEF Sane, TypeOK
  <1> QED
    BY <1>1, <1>2 DEF InSession

LEMMA ButtonFloor ==
  ASSUME FInv, NEW n \in Node, actionPushed(n) \/ actionReleased(n) \/ TouchUpOutside(n)
  PROVE  AtMost' /\ AtLeast'
  <1> USE DEF FInv
  <1>0. phase' = phase /\ mainQueue' = mainQueue
    BY DEF actionPushed, actionReleased, TouchUpOutside
  <1>1. \A k \in Node : Posted(k)' = Posted(k)
    BY <1>0 DEF Posted
  <1>2. /\ Cardinality(Pending(n)) \in Nat /\ Cardinality(UnderWay(n)) \in Nat
        /\ Cardinality(Posted(n)) \in Nat /\ Held(n) \in {0, 1}
    BY Finite
  <1>3. CASE UNCHANGED <<talkState, channel>>
    <2>1. \A k \in Node : Held(k)' = Held(k)
      BY <1>3 DEF Held
    <2>2. lost' = lost /\ dups' = dups
      BY <1>3 DEF channel
    <2>3. Moved(n, 0, 0)
      BY <1>1, <1>2, <1>3, <2>1, <2>2, ChannelStays DEF Moved
    <2> QED
      BY <1>0, <1>2, <2>1, <2>3, MovedKeeps
  <1>4. CASE talkState[n] = "Listening" /\ sendControlMessage(n, "WTT") /\ UNCHANGED talkState
    <2>1. \A k \in Node : Held(k)' = Held(k)
      BY <1>4 DEF Held
    <2>2. Moved(n, 0, 0)
      BY <1>1, <1>2, <1>4, <2>1, SendFloor DEF Moved, CMessageType
    <2> QED
      BY <1>0, <1>2, <2>1, <2>2, MovedKeeps
  <1>5. CASE talkState[n] = "CanTalk" /\ setTalkState(n, "Talking") /\ UNCHANGED channel
    <2>1. /\ \A k \in Node : k # n => Held(k)' = Held(k)
          /\ Held(n)' = 1 /\ Held(n) = 1
      BY <1>5, HeldAlone DEF setTalkState, Held
    <2>2. lost' = lost /\ dups' = dups
      BY <1>5 DEF channel
    <2>3. Moved(n, 0, 0)
      BY <1>1, <1>2, <1>5, <2>1, <2>2, ChannelStays DEF Moved
    <2> QED
      BY <1>0, <2>1, <2>3, MovedKeeps
  <1>6. CASE talkState[n] = "Talking" /\ setTalkState(n, "Listening") /\ sendControlMessage(n, "DNT")
    <2> DEFINE d == IF phase[n] = "open" THEN 1 ELSE 0
    <2>1. /\ \A k \in Node : k # n => Held(k)' = Held(k)
          /\ Held(n)' = 0 /\ Held(n) = 1
      BY <1>6, HeldAlone DEF setTalkState, Held
    <2>2. Moved(n, 0, d)
      BY <1>1, <1>2, <1>6, <2>1, SendFloor DEF Moved, CMessageType
    <2>3. InSession => d = 1
      BY <1>6, InSessionOpen
    <2>4. d \in {0, 1}
      OBVIOUS
    <2> HIDE DEF d
    <2>5. Held(n)' + d <= Held(n) + 0 /\ (InSession => Held(n)' + d = Held(n) + 0)
      BY <2>1, <2>3, <2>4
    <2> QED
      BY <1>0, <2>2, <2>4, <2>5, MovedKeeps
  <1> QED
    BY <1>3, <1>4, <1>5, <1>6 DEF actionPushed, actionReleased, TouchUpOutside

LEMMA HandleFloor ==
  ASSUME FInv, NEW n \in Node, handleCMessageType(n)
  PROVE  AtMost' /\ AtLeast'
  <1> USE DEF FInv
  <1> DEFINE type == Head(mainQueue[n])
             q == IF type = "DNT" THEN 1 ELSE 0
  <1>0. phase' = phase /\ mainQueue[n] # <<>> /\ mainQueue' = [mainQueue EXCEPT ![n] = Tail(@)]
    BY DEF handleCMessageType
  <1>1. \A k \in Node : k # n => Posted(k)' = Posted(k)
    BY <1>0 DEF Posted, TypeOK
  <1>2. /\ Cardinality(Pending(n)) \in Nat /\ Cardinality(UnderWay(n)) \in Nat
        /\ Cardinality(Posted(n)) \in Nat /\ Held(n) \in {0, 1}
    BY Finite
  <1>3. /\ Cardinality(Posted(n)') = Cardinality(Posted(n)) - q
        /\ Cardinality(Posted(n)) >= q
    <2>1. mainQueue[n] \in Seq(CMessageType)
      BY DEF TypeOK
    <2>2. /\ Posted(n) = Places(mainQueue[n], "DNT")
          /\ Posted(n)' = Places(Tail(mainQueue[n]), "DNT")
      BY <1>0 DEF Posted, Places, TypeOK
    <2>3. /\ Cardinality(Places(Tail(mainQueue[n]), "DNT")) =
               IF Head(mainQueue[n]) = "DNT" THEN Cardinality(Places(mainQueue[n], "DNT")) - 1
                                             ELSE Cardinality(Places(mainQueue[n], "DNT"))
          /\ Head(mainQueue[n]) = "DNT" => Cardinality(Places(mainQueue[n], "DNT")) > 0
      BY <1>0, <2>1, PlacesTail
    <2> QED
      BY <1>2, <2>2, <2>3
  <1>4. q \in {0, 1} /\ (type = "DNT" => q = 1) /\ (type # "DNT" => q = 0)
    OBVIOUS
  <1>5. talkState[n] # "Ready"
    BY <1>0 DEF Sane
  <1> HIDE DEF q
  <1>6. CASE type = "DNT" /\ FloorArrives(n)
    <2>1. /\ \A k \in Node : k # n => Held(k)' = Held(k)
          /\ Held(n)' = 1 /\ Held(n) = 0
      <3>1. PICK ts \in {"Talking", "CanTalk"} : talkState' = [talkState EXCEPT ![n] = ts]
        BY <1>6 DEF FloorArrives, setTalkState
      <3> QED
        BY <1>6, <3>1, HeldAlone DEF FloorArrives, Held
    <2>2. UNCHANGED channel /\ lost' = lost /\ dups' = dups
      BY <1>6 DEF FloorArrives, channel
    <2>3. Moved(n, q, 0)
      BY <1>1, <1>2, <1>3, <2>1, <2>2, ChannelStays DEF Moved
    <2> QED
      BY <1>0, <1>4, <1>6, <2>1, <2>3, MovedKeeps
  <1>7. CASE type = "WTT" /\ FloorAsked(n)
    <2> DEFINE d == IF phase[n] = "open" THEN 1 ELSE 0
    <2>1. /\ \A k \in Node : k # n => Held(k)' = Held(k)
          /\ Held(n)' = 0 /\ Held(n) = 1
      BY <1>7, HeldAlone DEF FloorAsked, setTalkState, Held
    <2>2. Moved(n, q, d)
      BY <1>1, <1>2, <1>3, <1>7, <2>1, SendFloor DEF FloorAsked, Moved, CMessageType
    <2>3. InSession => d = 1
      BY <1>5, InSessionOpen
    <2>4. d \in {0, 1} /\ q = 0
      BY <1>4, <1>7
    <2> HIDE DEF d
    <2>5. Held(n)' + d <= Held(n) + q /\ (InSession => Held(n)' + d = Held(n) + q)
      BY <2>1, <2>3, <2>4
    <2> QED
      BY <1>0, <1>4, <2>2, <2>4, <2>5, MovedKeeps
  <1>8. CASE UNCHANGED <<talkState, channel>> /\ (type = "DNT" => Held(n) = 1)
    <2>1. \A k \in Node : Held(k)' = Held(k)
      BY <1>8 DEF Held
    <2>2. lost' = lost /\ dups' = dups
      BY <1>8 DEF channel
    <2>3. Moved(n, q, 0)
      BY <1>1, <1>2, <1>3, <1>8, <2>1, <2>2, ChannelStays DEF Moved
    <2>4. Held(n)' + 0 <= Held(n) + q /\ (Held(n)' + 0 = Held(n) + q \/ Held(n)' = 1)
      BY <1>2, <1>4, <1>8, <2>1
    <2> QED
      BY <1>0, <1>4, <2>3, <2>4, MovedKeeps
  <1>9. CASE type = "WTT" /\ AskedWhileListening(n)
    BY <1>8, <1>9 DEF AskedWhileListening
  <1>10. CASE Ignored(n, type)
    BY <1>5, <1>8, <1>10 DEF Ignored, Held
  <1> QED
    BY <1>6, <1>7, <1>9, <1>10 DEF handleCMessageType

(* The numbers of n and its peer, in the arithmetic the last steps use.    *)
LEMMA Sums ==
  ASSUME FInv, NEW n \in Node
  PROVE  /\ Mine(n) \in Nat /\ Mine(Peer[n]) \in Nat /\ Saved(n) \in Nat /\ Saved(Peer[n]) \in Nat
         /\ Made \in {0, 1} /\ dups \in Nat
         /\ Mine(n) + Mine(Peer[n]) <= Made + dups
         /\ InSession => Saved(n) + Saved(Peer[n]) >= 1
  <1>1. Peer[n] \in Node
    BY Peers
  <1>2. ASSUME NEW k \in Node PROVE Mine(k) \in Nat /\ Saved(k) \in Nat
    <2>1. /\ Cardinality(Pending(k)) \in Nat /\ Cardinality(UnderWay(k)) \in Nat
          /\ Cardinality(Posted(k)) \in Nat /\ Cardinality(lost[k]) \in Nat /\ Held(k) \in {0, 1}
      BY Finite DEF FInv
    <2> QED
      BY <2>1 DEF Mine, Saved
  <1>3. Made \in {0, 1} /\ dups \in Nat
    BY DEF Made, FInv, TypeOK
  <1>4. Mine(n) + Mine(Peer[n]) <= Made + dups /\ (InSession => Saved(n) + Saved(Peer[n]) >= 1)
    BY DEF FInv, AtMost, AtLeast
  <1> QED
    BY <1>1, <1>2, <1>3, <1>4

LEMMA SessionFloor ==
  ASSUME FInv, NEW n \in Node, push2TalkConnected(n) \/ endSession(n)
  PROVE  AtMost' /\ AtLeast'
  <1> DEFINE m == Peer[n]
  <1>0. m \in Node /\ m # n /\ Caller \in Node /\ (Caller = n \/ Caller = m) /\ Peer[m] = n
    BY Peers
  <1>1. UNCHANGED <<mainQueue, channel, sent, delivered, lost, dups>>
    BY DEF push2TalkConnected, endSession, channel
  <1>2. /\ Mine(n) \in Nat /\ Mine(m) \in Nat /\ Saved(n) \in Nat /\ Saved(m) \in Nat
        /\ Made \in {0, 1} /\ dups \in Nat
        /\ Mine(n) + Mine(m) <= Made + dups
        /\ InSession => Saved(n) + Saved(m) >= 1
    BY Sums
  <1>3. \A k \in Node : Pending(k)' = Pending(k) /\ UnderWay(k)' = UnderWay(k) /\ Posted(k)' = Posted(k)
    BY <1>1 DEF Pending, UnderWay, Posted
  <1>4. CASE push2TalkConnected(n)
    <2>1. phase[n] = "new" /\ talkState[n] = "Ready" /\ Held(n) = 0
      BY <1>4 DEF push2TalkConnected, FInv, Sane, Held
    <2>2. phase'[n] = "open" /\ phase'[m] = phase[m]
      BY <1>0, <1>4 DEF push2TalkConnected, FInv, TypeOK
    <2>3. talkState' = [talkState EXCEPT ![n] = IF n = Caller THEN "CanTalk" ELSE "Listening"]
      BY <1>4 DEF push2TalkConnected, setTalkState
    <2>4. /\ Held(m)' = Held(m)
          /\ Held(n)' = IF n = Caller THEN 1 ELSE 0
      BY <1>0, <2>3, HeldAlone DEF FInv
    <2>5. Mine(m)' = Mine(m) /\ Saved(m)' = Saved(m)
      BY <1>0, <1>1, <1>3, <2>4 DEF Mine, Saved
    <2>6. /\ Cardinality(Pending(n)) \in Nat /\ Cardinality(UnderWay(n)) \in Nat
          /\ Cardinality(Posted(n)) \in Nat /\ Cardinality(lost[n]) \in Nat
      BY Finite DEF FInv
    <2>7. /\ Mine(n)' = Mine(n) + Held(n)' /\ Saved(n)' = Saved(n) + Held(n)'
      BY <1>1, <1>3, <2>1, <2>4, <2>6 DEF Mine, Saved
    <2>8. CASE n = Caller
      <3>1. Made = 0 /\ Made' = 1
        BY <2>1, <2>2, <2>8 DEF Made
      <3> QED
        BY <1>0, <1>1, <1>2, <2>4, <2>5, <2>7, <2>8, <3>1, BoundBoth
    <2>9. CASE n # Caller
      <3>1. Made' = Made
        BY <1>0, <2>2, <2>9 DEF Made
      <3>2. InSession' => InSession
        BY <1>0, <2>1, <2>2, <2>9 DEF InSession
      <3> QED
        BY <1>1, <1>2, <2>4, <2>5, <2>7, <2>9, <3>1, <3>2, BoundBoth
    <2> QED
      BY <2>8, <2>9
  <1>5. CASE endSession(n)
    <2>1. phase[n] = "open" /\ phase'[n] = "ended" /\ phase'[m] = phase[m] /\ talkState' = talkState
      BY <1>0, <1>5 DEF endSession, FInv, TypeOK
    <2>2. Made' = Made /\ ~InSession'
      BY <1>0, <2>1 DEF Made, InSession
    <2>3. \A k \in Node : Mine(k)' = Mine(k) /\ Saved(k)' = Saved(k)
      BY <1>1, <1>3, <2>1 DEF Mine, Saved, Held
    <2> QED
      BY <1>0, <1>1, <1>2, <2>2, <2>3, BoundBoth
  <1> QED
    BY <1>4, <1>5

(* Posting a message adds to Posted if it is a DNT.                        *)
LEMMA PostFloor ==
  ASSUME TypeOK, Sane, NEW n \in Node, NEW i \in DOMAIN sent[Peer[n]], Post(n, i)
  PROVE  /\ \A k \in Node : k # n => Posted(k)' = Posted(k)
         /\ Cardinality(Posted(n)') =
              Cardinality(Posted(n)) + IF sent[Peer[n]][i] = "DNT" THEN 1 ELSE 0
  <1>1. Peer[n] \in Node
    BY Peers
  <1>2. mainQueue[n] \in Seq(CMessageType) /\ sent[Peer[n]][i] \in CMessageType
    BY <1>1, LenProperties DEF TypeOK
  <1>3. mainQueue' = [mainQueue EXCEPT ![n] = Append(@, sent[Peer[n]][i])]
    BY DEF Post
  <1>4. /\ Posted(n) = Places(mainQueue[n], "DNT")
        /\ Posted(n)' = Places(Append(mainQueue[n], sent[Peer[n]][i]), "DNT")
    BY <1>3 DEF Posted, Places, TypeOK
  <1>5. \A k \in Node : k # n => Posted(k)' = Posted(k)
    BY <1>3 DEF Posted, TypeOK
  <1>6. Cardinality(Places(Append(mainQueue[n], sent[Peer[n]][i]), "DNT")) =
          IF sent[Peer[n]][i] = "DNT" THEN Cardinality(Places(mainQueue[n], "DNT")) + 1
                                      ELSE Cardinality(Places(mainQueue[n], "DNT"))
    BY <1>2, PlacesAppend
  <1>7. Cardinality(Posted(n)) \in Nat
    BY Finite
  <1> QED
    BY <1>4, <1>5, <1>6, <1>7

LEMMA TransportFloor ==
  ASSUME FInv, NEW n \in Node, Transport(n)
  PROVE  AtMost' /\ AtLeast'
  <1> DEFINE m == Peer[n]
  <1>0. m \in Node /\ m # n /\ Peer[m] = n
    BY Peers
  <1>1. /\ Mine(n) \in Nat /\ Mine(m) \in Nat /\ Saved(n) \in Nat /\ Saved(m) \in Nat
        /\ Made \in {0, 1} /\ dups \in Nat
        /\ Mine(n) + Mine(m) <= Made + dups
        /\ InSession => Saved(n) + Saved(m) >= 1
    BY Sums
  <1>2. UNCHANGED <<talkState, phase, sent>>
    BY Delivers, Loses DEF Transport, Redeliver
  <1>3. Made' = Made /\ InSession' = InSession /\ \A k \in Node : Held(k)' = Held(k)
    BY <1>2 DEF Made, InSession, Held
  <1>4. \A k \in Node :
          /\ IsFiniteSet(Pending(k)) /\ Cardinality(Pending(k)) \in Nat
          /\ IsFiniteSet(UnderWay(k)) /\ Cardinality(UnderWay(k)) \in Nat
          /\ IsFiniteSet(lost[k]) /\ Cardinality(lost[k]) \in Nat
          /\ Cardinality(Posted(k)) \in Nat /\ Held(k) \in {0, 1}
    BY Finite DEF FInv
  <1> HIDE DEF m
  <1>5. ASSUME NEW i \in DOMAIN sent[m], Deliver(n, i) PROVE AtMost' /\ AtLeast'
    <2> DEFINE b == IF sent[m][i] = "DNT" THEN 1 ELSE 0
    <2>1. /\ i \notin delivered[n] /\ delivered'[n] = delivered[n] \cup {i}
          /\ delivered'[m] = delivered[m] /\ lost' = lost /\ dups' = dups
      BY <1>0, <1>5, Delivers DEF FInv, TypeOK
    <2>2. /\ Posted(m)' = Posted(m)
          /\ Cardinality(Posted(n)') = Cardinality(Posted(n)) + b
      BY <1>0, <1>5, PostFloor, Delivers DEF FInv, m
    <2>3. Pending(n)' = Pending(n) /\ UnderWay(n)' = UnderWay(n)
      BY <1>2, <2>1 DEF Pending, UnderWay, m
    <2>4. Pending(m)' = Pending(m) \ {i} /\ UnderWay(m)' = UnderWay(m) \ {i}
      BY <1>0, <1>2, <2>1 DEF Pending, UnderWay
    <2>5. i \in Pending(m) <=> b = 1
      BY <1>0, <2>1 DEF Pending
    <2>6. i \in UnderWay(m) => b = 1
      BY <1>0, <2>1 DEF UnderWay
    <2>7. Cardinality(Pending(m)') = Cardinality(Pending(m)) - b
      <3>1. Cardinality(Pending(m) \ {i}) = IF i \in Pending(m) THEN Cardinality(Pending(m)) - 1
                                                                ELSE Cardinality(Pending(m))
        BY <1>0, <1>4, FS_RemoveElement
      <3> QED
        BY <1>0, <1>4, <2>4, <2>5, <3>1
    <2>8. /\ Cardinality(UnderWay(m)') \in Nat
          /\ Cardinality(UnderWay(m)') >= Cardinality(UnderWay(m)) - b
      <3>1. /\ Cardinality(UnderWay(m) \ {i}) = IF i \in UnderWay(m) THEN Cardinality(UnderWay(m)) - 1
                                                                  ELSE Cardinality(UnderWay(m))
            /\ Cardinality(UnderWay(m) \ {i}) \in Nat
        BY <1>0, <1>4, FS_RemoveElement, FS_CardinalityType
      <3> QED
        BY <1>0, <1>4, <2>4, <2>6, <3>1
    <2>9. b \in {0, 1}
      OBVIOUS
    <2> HIDE DEF b
    <2>10. Mine(n)' = Mine(n) + b /\ Mine(m)' = Mine(m) - b /\ Saved(n)' = Saved(n) + b
      BY <1>0, <1>3, <1>4, <2>1, <2>2, <2>3, <2>7, <2>9 DEF Mine, Saved
    <2>11. Saved(m)' \in Nat /\ Saved(m)' >= Saved(m) - b
      BY <1>0, <1>3, <1>4, <2>1, <2>2, <2>8, <2>9 DEF Saved
    <2>12. Mine(m)' \in Nat
      <3>1. Cardinality(Pending(m)') \in Nat
        BY <1>0, <1>4, <2>4, FS_RemoveElement, FS_CardinalityType
      <3> QED
        BY <1>0, <1>3, <1>4, <2>2, <3>1 DEF Mine
    <2> QED
      BY <1>1, <1>3, <2>1, <2>9, <2>10, <2>11, <2>12, BoundBoth DEF m
  <1>6. ASSUME NEW i \in DOMAIN sent[m], Redeliver(n, i) PROVE AtMost' /\ AtLeast'
    <2> DEFINE b == IF sent[m][i] = "DNT" THEN 1 ELSE 0
    <2>1. delivered' = delivered /\ lost' = lost /\ dups' = dups + 1
      BY <1>6 DEF Redeliver
    <2>2. /\ Posted(m)' = Posted(m)
          /\ Cardinality(Posted(n)') = Cardinality(Posted(n)) + b
      BY <1>0, <1>6, PostFloor DEF Redeliver, FInv, m
    <2>3. \A k \in Node : Pending(k)' = Pending(k) /\ UnderWay(k)' = UnderWay(k)
      BY <1>2, <2>1 DEF Pending, UnderWay
    <2>4. b \in {0, 1}
      OBVIOUS
    <2> HIDE DEF b
    <2>5. Mine(n)' = Mine(n) + b /\ Mine(m)' = Mine(m) /\ Saved(n)' = Saved(n) + b /\ Saved(m)' = Saved(m)
      BY <1>0, <1>3, <1>4, <2>1, <2>2, <2>3, <2>4 DEF Mine, Saved
    <2> QED
      BY <1>1, <1>3, <2>1, <2>4, <2>5, BoundBoth DEF m
  <1>7. ASSUME NEW i \in DOMAIN sent[n], Lose(n, i) PROVE AtMost' /\ AtLeast'
    <2>1. /\ i \notin lost[n] /\ lost'[n] = lost[n] \cup {i} /\ lost'[m] = lost[m]
          /\ delivered' = delivered /\ dups' = dups /\ mainQueue' = mainQueue
      BY <1>0, <1>7, Loses DEF FInv, TypeOK
    <2>2. \A k \in Node : Pending(k)' = Pending(k) /\ Posted(k)' = Posted(k)
      BY <1>2, <2>1 DEF Pending, Posted
    <2>3. UnderWay(m)' = UnderWay(m) /\ UnderWay(n)' = UnderWay(n) \ {i}
      BY <1>2, <2>1 DEF UnderWay
    <2>4. /\ Cardinality(UnderWay(n)') \in Nat
          /\ Cardinality(UnderWay(n)') >= Cardinality(UnderWay(n)) - 1
      <3>1. /\ Cardinality(UnderWay(n) \ {i}) = IF i \in UnderWay(n) THEN Cardinality(UnderWay(n)) - 1
                                                                  ELSE Cardinality(UnderWay(n))
            /\ Cardinality(UnderWay(n) \ {i}) \in Nat
        BY <1>4, FS_RemoveElement, FS_CardinalityType
      <3> QED
        BY <1>4, <2>3, <3>1
    <2>5. Cardinality(lost'[n]) = Cardinality(lost[n]) + 1
      BY <1>4, <2>1, CardAdd
    <2>6. Mine(n)' = Mine(n) /\ Mine(m)' = Mine(m) /\ Saved(m)' = Saved(m)
      BY <1>0, <1>3, <2>1, <2>2, <2>3 DEF Mine, Saved
    <2>7. Saved(n)' \in Nat /\ Saved(n)' >= Saved(n)
      BY <1>3, <1>4, <2>2, <2>4, <2>5 DEF Saved
    <2> QED
      BY <1>1, <1>3, <2>1, <2>6, <2>7, BoundBoth DEF m
  <1> QED
    BY <1>5, <1>6, <1>7 DEF Transport, m

(* Sane, for one phone.                                                    *)
SaneAt(n) == /\ delivered[n] \subseteq DOMAIN sent[Peer[n]]
             /\ lost[n] \subseteq DOMAIN sent[n]
             /\ talkState[n] = "Ready" <=> phase[n] = "new"
             /\ phase[n] = "new" => mainQueue[n] = <<>>

LEMMA MainSane ==
  ASSUME TypeOK, Sane, NEW n \in Node, Controller(n)
  PROVE  Sane'
  <1>1. UNCHANGED channel \/ \E t \in CMessageType : sendControlMessage(n, t)
    BY DEF Controller, push2TalkConnected, endSession, actionPushed, actionReleased,
           TouchUpOutside, handleCMessageType, FloorArrives, FloorAsked, AskedWhileListening,
           Ignored, CMessageType
  <1>2. \A k \in Node : /\ DOMAIN sent[k] \subseteq DOMAIN sent'[k]
                        /\ delivered'[k] = delivered[k] /\ lost'[k] = lost[k]
    BY <1>1, SendFloor DEF channel
  <1>3. \A k \in Node : /\ delivered'[k] \subseteq DOMAIN sent'[Peer[k]]
                        /\ lost'[k] \subseteq DOMAIN sent'[k]
    BY <1>2, Peers DEF Sane
  <1>4. ASSUME NEW k \in Node, k # n
        PROVE  UNCHANGED <<talkState[k], phase[k], mainQueue[k]>>
    BY <1>4 DEF TypeOK, Controller, push2TalkConnected, endSession, actionPushed, actionReleased,
                TouchUpOutside, handleCMessageType, FloorArrives, FloorAsked,
                AskedWhileListening, Ignored, setTalkState
  <1>5. /\ talkState'[n] = "Ready" <=> phase'[n] = "new"
        /\ phase'[n] = "new" => mainQueue'[n] = <<>>
    <2>1. talkState[n] = "Ready" <=> phase[n] = "new"
      BY DEF Sane
    <2>2. CASE push2TalkConnected(n)
      <3>1. phase'[n] = "open" /\ talkState'[n] \in {"CanTalk", "Listening"}
        BY <2>2 DEF push2TalkConnected, setTalkState, TypeOK
      <3> QED
        BY <3>1
    <2>3. CASE endSession(n)
      <3>1. phase[n] = "open" /\ phase'[n] = "ended" /\ talkState' = talkState
        BY <2>3 DEF endSession, TypeOK
      <3> QED
        BY <2>1, <3>1
    <2>4. CASE actionPushed(n) \/ actionReleased(n) \/ TouchUpOutside(n)
      <3>1. phase' = phase /\ mainQueue' = mainQueue
        BY <2>4 DEF actionPushed, actionReleased, TouchUpOutside
      <3>2. \/ talkState'[n] = talkState[n]
            \/ talkState[n] # "Ready" /\ talkState'[n] \in {"Talking", "Listening"}
        BY <2>4 DEF actionPushed, actionReleased, TouchUpOutside, setTalkState, TypeOK
      <3> QED
        BY <2>1, <3>1, <3>2 DEF Sane
    <2>5. CASE handleCMessageType(n)
      <3>1. phase' = phase /\ mainQueue[n] # <<>>
        BY <2>5 DEF handleCMessageType
      <3>2. phase[n] # "new" /\ talkState[n] # "Ready"
        BY <2>1, <3>1 DEF Sane
      <3>3. talkState'[n] = talkState[n] \/ talkState'[n] \in {"Talking", "CanTalk", "Listening"}
        BY <2>5 DEF handleCMessageType, FloorArrives, FloorAsked, AskedWhileListening, Ignored,
                    setTalkState, TypeOK
      <3> QED
        BY <3>1, <3>2, <3>3
    <2> QED
      BY <2>2, <2>3, <2>4, <2>5 DEF Controller
  <1>6. ASSUME NEW k \in Node PROVE SaneAt(k)'
    <2>1. CASE k = n
      BY <1>3, <1>5, <2>1 DEF SaneAt
    <2>2. CASE k # n
      BY <1>3, <1>4, <2>2 DEF SaneAt, Sane
    <2> QED
      BY <2>1, <2>2
  <1> QED
    BY <1>6 DEF Sane, SaneAt

LEMMA TransportSane ==
  ASSUME TypeOK, Sane, NEW n \in Node, Transport(n)
  PROVE  Sane'
  <1>1. UNCHANGED <<talkState, phase, sent>>
    BY Delivers, Loses DEF Transport, Redeliver
  <1>2. ASSUME NEW k \in Node
        PROVE  delivered'[k] \subseteq DOMAIN sent[Peer[k]] /\ lost'[k] \subseteq DOMAIN sent[k]
    <2>1. delivered[k] \subseteq DOMAIN sent[Peer[k]] /\ lost[k] \subseteq DOMAIN sent[k]
      BY DEF Sane
    <2>2. CASE \E i \in DOMAIN sent[Peer[n]] : Deliver(n, i)
      <3>1. PICK i \in DOMAIN sent[Peer[n]] : Deliver(n, i)
        BY <2>2
      <3>2. /\ lost' = lost
            /\ delivered'[k] = IF k = n THEN delivered[k] \cup {i} ELSE delivered[k]
        <4>1. lost' = lost /\ delivered' = [delivered EXCEPT ![n] = @ \cup {i}]
          BY <3>1, Delivers
        <4> QED
          BY <4>1 DEF TypeOK
      <3> QED
        BY <2>1, <3>2
    <2>3. CASE \E i \in DOMAIN sent[Peer[n]] : Redeliver(n, i)
      BY <2>1, <2>3 DEF Redeliver
    <2>4. CASE \E i \in DOMAIN sent[n] : Lose(n, i)
      <3>1. PICK i \in DOMAIN sent[n] : Lose(n, i)
        BY <2>4
      <3>2. /\ delivered' = delivered
            /\ lost'[k] = IF k = n THEN lost[k] \cup {i} ELSE lost[k]
        <4>1. delivered' = delivered /\ lost' = [lost EXCEPT ![n] = @ \cup {i}]
          BY <3>1, Loses
        <4> QED
          BY <4>1 DEF TypeOK
      <3> QED
        BY <2>1, <3>2
    <2> QED
      BY <2>2, <2>3, <2>4 DEF Transport
  <1>3. \A k \in Node : phase[k] = "new" => mainQueue'[k] = mainQueue[k]
    BY Delivers, Loses DEF Transport, Redeliver, Post, TypeOK
  <1> QED
    BY <1>1, <1>2, <1>3 DEF Sane

LEMMA InitFloor == Init => FInv
  <1> SUFFICES ASSUME Init PROVE FInv
    OBVIOUS
  <1>1. TypeOK
    BY InitInv DEF IInv
  <1>2. Sane
    BY Peers DEF Init, Sane
  <1>3. ASSUME NEW n \in Node PROVE Mine(n) = 0
    <2>1. Pending(n) = {} /\ Posted(n) = {} /\ Held(n) = 0
      BY DEF Init, Pending, Posted, Held
    <2> QED
      BY <2>1, FS_EmptySet DEF Mine
  <1>4. AtMost
    BY <1>3, Peers DEF AtMost, Init, Made
  <1>5. AtLeast
    BY Peers DEF AtLeast, Init, InSession
  <1> QED
    BY <1>1, <1>2, <1>4, <1>5 DEF FInv

LEMMA StepFloor == IInv /\ FInv /\ [Next]_vars => FInv'
  <1> SUFFICES ASSUME IInv, FInv, [Next]_vars PROVE FInv'
    OBVIOUS
  <1>1. TypeOK'
    BY StepInv DEF IInv
  <1>2. CASE UNCHANGED vars
    BY <1>1, <1>2 DEF vars, FInv, Sane, AtMost, AtLeast, Mine, Saved, Held, Pending, UnderWay,
                      Posted, Made, InSession
  <1>3. CASE Next
    <2>1. PICK n \in Node : Controller(n) \/ Transport(n)
      BY <1>3 DEF Next
    <2>2. Sane'
      BY <2>1, MainSane, TransportSane DEF FInv
    <2>3. AtMost' /\ AtLeast'
      BY <2>1, SessionFloor, ButtonFloor, HandleFloor, TransportFloor DEF Controller
    <2> QED
      BY <1>1, <2>2, <2>3 DEF FInv
  <1> QED
    BY <1>2, <1>3

LEMMA FloorInvariant == Spec => []FInv
  BY InitInv, StepInv, InitFloor, StepFloor, PTL DEF Spec

(* The two phones that may talk, counted.                                  *)
LEMMA HoldersCount == ASSUME TypeOK PROVE Cardinality(Holders) = Held(Caller) + Held(Peer[Caller])
  <1>1. /\ Caller \in Node /\ Peer[Caller] \in Node /\ Peer[Caller] # Caller
        /\ \A k \in Node : k = Caller \/ k = Peer[Caller]
    BY PeerAssumption
  <1> DEFINE A == {k \in {Caller} : talkState[k] \in {"CanTalk", "Talking"}}
             B == {k \in {Peer[Caller]} : talkState[k] \in {"CanTalk", "Talking"}}
  <1>2. Holders = A \cup B /\ A \cap B = {}
    BY <1>1 DEF Holders
  <1>3. A = (IF Held(Caller) = 1 THEN {Caller} ELSE {})
    BY DEF Held
  <1>4. B = (IF Held(Peer[Caller]) = 1 THEN {Peer[Caller]} ELSE {})
    BY DEF Held
  <1>5. Held(Caller) \in {0, 1} /\ Held(Peer[Caller]) \in {0, 1}
    BY DEF Held
  <1> HIDE DEF A, B
  <1>6. IsFiniteSet(A) /\ Cardinality(A) = Held(Caller)
    BY <1>3, <1>5, FS_EmptySet, FS_Singleton
  <1>7. IsFiniteSet(B) /\ Cardinality(B) = Held(Peer[Caller])
    BY <1>4, <1>5, FS_EmptySet, FS_Singleton
  <1>8. Cardinality(A \cup B) = Cardinality(A) + Cardinality(B) - Cardinality(A \cap B)
    BY <1>6, <1>7, FS_Union
  <1> QED
    BY <1>2, <1>5, <1>6, <1>7, <1>8, FS_EmptySet

(* One call has one floor.  Whatever the users press, the network repeats  *)
(* or loses, and the main threads run late, no more controllers, messages  *)
(* and posted calls carry the right to talk than one and the duplicates.   *)
THEOREM FloorOnce == Spec => []FloorNotCopied
  <1>1. FInv => FloorNotCopied
    <2> SUFFICES ASSUME FInv PROVE Floors <= 1 + dups
      BY DEF FloorNotCopied
    <2> DEFINE c == Caller
               p == Peer[Caller]
    <2>1. c \in Node /\ p \in Node
      BY PeerAssumption
    <2>2. ASSUME NEW n \in Node
          PROVE  /\ Cardinality(UnderWay(n)) \in Nat /\ Cardinality(Pending(n)) \in Nat
                 /\ Cardinality(UnderWay(n)) <= Cardinality(Pending(n))
                 /\ Cardinality(Posted(n)) \in Nat /\ Held(n) \in {0, 1}
      <3>1. UnderWay(n) \in SUBSET Pending(n)
        BY DEF UnderWay, Pending
      <3> QED
        BY <3>1, Finite, FS_Subset DEF FInv
    <2>3. Mine(c) + Mine(p) <= Made + dups /\ Made \in {0, 1} /\ dups \in Nat
      BY <2>1, Sums
    <2>4. Floors = Held(c) + Held(p) + Cardinality(UnderWay(c)) + Cardinality(UnderWay(p))
                     + Cardinality(Posted(c)) + Cardinality(Posted(p))
      BY HoldersCount DEF Floors, FInv
    <2> HIDE DEF c, p
    <2> QED
      BY <2>1, <2>2, <2>3, <2>4 DEF Mine
  <1> QED
    BY <1>1, FloorInvariant, PTL

(* And the floor of a session does not vanish unless a message is lost.    *)
THEOREM FloorStays == Spec => []FloorNotDropped
  <1>1. FInv => FloorNotDropped
    <2> SUFFICES ASSUME FInv, InSession PROVE Floors + LostMsgs >= 1
      BY DEF FloorNotDropped
    <2> DEFINE c == Caller
               p == Peer[Caller]
    <2>1. c \in Node /\ p \in Node
      BY PeerAssumption
    <2>2. \A n \in Node : /\ Cardinality(UnderWay(n)) \in Nat /\ Cardinality(lost[n]) \in Nat
                          /\ Cardinality(Posted(n)) \in Nat /\ Held(n) \in {0, 1}
      BY Finite DEF FInv
    <2>3. Saved(c) + Saved(p) >= 1
      BY <2>1, Sums
    <2>4. /\ Floors = Held(c) + Held(p) + Cardinality(UnderWay(c)) + Cardinality(UnderWay(p))
                        + Cardinality(Posted(c)) + Cardinality(Posted(p))
          /\ LostMsgs = Cardinality(lost[c]) + Cardinality(lost[p])
      BY HoldersCount DEF Floors, FInv, LostMsgs
    <2> HIDE DEF c, p
    <2> QED
      BY <2>1, <2>2, <2>3, <2>4 DEF Saved
  <1> QED
    BY <1>1, FloorInvariant, PTL

===============================================================================

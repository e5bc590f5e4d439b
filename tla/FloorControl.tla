---------------------------- MODULE FloorControl ----------------------------
(***************************************************************************)
(* Who may talk: the two Push2TalkControllers of a session, composed with  *)
(* the channel of ControlChannel that carries their WTT ("want to talk")   *)
(* and DNT (the floor is yours) messages.                                  *)
(*                                                                         *)
(* Everything a controller does happens on its main thread: the button,    *)
(* the session calls, and handleCMessageType:, which receivingThread only  *)
(* posts to the main run loop (performSelectorOnMainThread), so a posted   *)
(* message can run after endSession.                                       *)
(*                                                                         *)
(* The channel delivers in order and at least once.  A retransmission that *)
(* arrives after its original is delivered again (receivingThread has no   *)
(* duplicate check) and a message removed by a misdirected poll is lost;   *)
(* both are counted, and the floor properties say what each one can cost.  *)
(*                                                                         *)
(* push2TalkConnected ends with updateViews, whose body is commented out   *)
(* (Push2TalkController.m:336-375).  It is taken as that body, which sets  *)
(* labels and buttons only; without it the call would end every session    *)
(* before it begins.                                                       *)
(***************************************************************************)
EXTENDS Naturals, Sequences, FiniteSets

CONSTANTS Node, Peer,
          Caller,      \* the phone that placed the call
          MaxPress,    \* bound: how often a user presses the button
          MaxSlide,    \* bound: how often a finger slides off the button
          MaxDup,      \* bound: duplicate deliveries
          MaxLost      \* bound: lost messages

ASSUME PeerAssumption == /\ Peer \in [Node -> Node]
                         /\ \A n \in Node : /\ Peer[n] # n /\ Peer[Peer[n]] = n
                                            /\ Node = {n, Peer[n]}
                         /\ Caller \in Node

ASSUME BoundAssumption == /\ MaxPress \in [Node -> Nat] /\ MaxSlide \in Nat
                          /\ MaxDup \in Nat /\ MaxLost \in Nat

VARIABLES talkState,  \* of the controller
          pressed,    \* the controller takes the button to be held down
          touching,   \* a finger is on the button
          phase,      \* "new", "open" after push2TalkConnected, "ended"
          recording,  \* TalkSender was started and not stopped since
          playing,    \* TalkRecver was started and not stopped since
          mainQueue,  \* handleCMessageType: calls posted to the main thread
          sent,       \* sent[n][i]: the i-th message n's controller sent
          delivered,  \* numbers of the peer's messages posted at least once
          lost,       \* numbers of n's messages that were lost
          presses,    \* how often the button was pressed
          slides,     \* how often a finger was lifted outside the button
          dups        \* duplicate deliveries so far

button == <<pressed, touching, presses, slides>>
vars == <<talkState, button, phase, recording, playing, mainQueue, sent,
          delivered, lost, dups>>

device == <<recording, playing>>
channel == <<sent, delivered, lost, dups>>

TalkState == {"Ready", "CanTalk", "Listening", "Talking"}
CMessageType == {"WTT", "DNT"}

Init ==
  /\ talkState = [n \in Node |-> "Ready"]
  /\ pressed   = [n \in Node |-> FALSE]
  /\ phase     = [n \in Node |-> "new"]
  /\ recording = [n \in Node |-> FALSE]
  /\ playing   = [n \in Node |-> FALSE]
  /\ mainQueue = [n \in Node |-> <<>>]
  /\ sent      = [n \in Node |-> <<>>]
  /\ delivered = [n \in Node |-> {}]
  /\ lost      = [n \in Node |-> {}]
  /\ touching  = [n \in Node |-> FALSE]
  /\ presses   = [n \in Node |-> 0]
  /\ slides    = 0
  /\ dups      = 0

-----------------------------------------------------------------------------
(* Assignments shared by the handlers.                                     *)

setTalkState(n, ts) == talkState' = [talkState EXCEPT ![n] = ts]

(* sender start/stop and recver start/stop; each is idempotent.            *)
Devices(n, rec, play) ==
  /\ recording' = [recording EXCEPT ![n] = rec]
  /\ playing'   = [playing EXCEPT ![n] = play]

sendControlMessage(n, type) ==
  /\ sent' = [sent EXCEPT ![n] = IF phase[n] = "open" THEN Append(@, type) ELSE @]
  /\ UNCHANGED <<delivered, lost, dups>>

-----------------------------------------------------------------------------
(* The session.                                                            *)

push2TalkConnected(n) ==
  /\ phase[n] = "new"
  /\ phase' = [phase EXCEPT ![n] = "open"]
  /\ IF n = Caller
     THEN setTalkState(n, "CanTalk") /\ UNCHANGED device
     ELSE setTalkState(n, "Listening") /\ Devices(n, recording[n], TRUE)
  /\ UNCHANGED <<button, mainQueue, channel>>

endSession(n) ==
  /\ phase[n] = "open"
  /\ phase' = [phase EXCEPT ![n] = "ended"]
  /\ Devices(n, FALSE, FALSE)
  /\ UNCHANGED <<talkState, button, mainQueue, channel>>

-----------------------------------------------------------------------------
(* The button, while the view is there.  Its targets are TouchDown and     *)
(* TouchUpInside | TouchCancel: a finger lifted outside the button calls   *)
(* nothing, and one on it when the view goes away is cancelled.            *)

actionPushed(n) ==
  /\ phase[n] # "ended" /\ ~touching[n]
  /\ presses[n] < MaxPress[n]
  /\ presses' = [presses EXCEPT ![n] = @ + 1]
  /\ touching' = [touching EXCEPT ![n] = TRUE]
  /\ pressed' = [pressed EXCEPT ![n] = TRUE]
  /\ \/ /\ talkState[n] = "Listening"
        /\ sendControlMessage(n, "WTT")
        /\ UNCHANGED <<talkState, device>>
     \/ /\ talkState[n] = "CanTalk"
        /\ setTalkState(n, "Talking")
        /\ Devices(n, TRUE, FALSE)
        /\ UNCHANGED channel
     \/ /\ talkState[n] \in {"Ready", "Talking"}
        /\ UNCHANGED <<talkState, device, channel>>
  /\ UNCHANGED <<phase, mainQueue, slides>>

(* A Faulty operator is a slip this code could have had: no step uses it,  *)
(* and in the place of the definition after it a property must fail.       *)

FaultyReleased(n) ==
  /\ touching[n]
  /\ touching' = [touching EXCEPT ![n] = FALSE]
  /\ pressed' = [pressed EXCEPT ![n] = FALSE]
  /\ IF talkState[n] = "Talking"
     THEN setTalkState(n, "Listening") /\ Devices(n, recording[n], TRUE)
          /\ sendControlMessage(n, "DNT")
     ELSE UNCHANGED <<talkState, device, channel>>
  /\ UNCHANGED <<phase, mainQueue, presses, slides>>

actionReleased(n) ==
  /\ touching[n]
  /\ touching' = [touching EXCEPT ![n] = FALSE]
  /\ pressed' = [pressed EXCEPT ![n] = FALSE]
  /\ \/ /\ talkState[n] = "Talking"
        /\ setTalkState(n, "Listening")
        /\ Devices(n, FALSE, TRUE)
        /\ sendControlMessage(n, "DNT")
     \/ /\ talkState[n] # "Talking"
        /\ UNCHANGED <<talkState, device, channel>>
  /\ UNCHANGED <<phase, mainQueue, presses, slides>>

TouchUpOutside(n) ==
  /\ touching[n]
  /\ slides < MaxSlide /\ slides' = slides + 1
  /\ touching' = [touching EXCEPT ![n] = FALSE]
  /\ UNCHANGED <<talkState, pressed, phase, device, mainQueue, presses, channel>>

-----------------------------------------------------------------------------
(* handleCMessageType:, one disjunct per case of its switch.               *)

FloorArrives(n) ==
  /\ talkState[n] = "Listening"
  /\ setTalkState(n, IF pressed[n] THEN "Talking" ELSE "CanTalk")
  /\ Devices(n, IF pressed[n] THEN TRUE ELSE recording[n], FALSE)
  /\ UNCHANGED channel

FaultyKeepsFloor(n) ==
  /\ talkState[n] = "CanTalk"
  /\ sendControlMessage(n, "DNT")
  /\ UNCHANGED <<talkState, device>>

FaultyDropsFloor(n) ==
  /\ talkState[n] = "CanTalk"
  /\ setTalkState(n, "Listening")
  /\ Devices(n, FALSE, TRUE)
  /\ UNCHANGED channel

FloorAsked(n) ==
  /\ talkState[n] = "CanTalk"
  /\ setTalkState(n, "Listening")
  /\ Devices(n, FALSE, TRUE)
  /\ sendControlMessage(n, "DNT")

AskedWhileListening(n) ==
  /\ talkState[n] = "Listening"
  /\ Devices(n, FALSE, TRUE)
  /\ UNCHANGED <<talkState, channel>>

Ignored(n, type) ==
  /\ \/ talkState[n] \in {"Ready", "Talking"}
     \/ talkState[n] = "CanTalk" /\ type # "WTT"
  /\ UNCHANGED <<talkState, device, channel>>

handleCMessageType(n) ==
  /\ mainQueue[n] # <<>>
  /\ mainQueue' = [mainQueue EXCEPT ![n] = Tail(@)]
  /\ LET type == Head(mainQueue[n])
     IN \/ type = "DNT" /\ FloorArrives(n)
        \/ type = "WTT" /\ FloorAsked(n)
        \/ type = "WTT" /\ AskedWhileListening(n)
        \/ Ignored(n, type)
  /\ UNCHANGED <<button, phase>>

-----------------------------------------------------------------------------
(* The channel: responsedWithControlType: posts to the main thread.        *)

FaultyPost(n, i) == mainQueue' = [mainQueue EXCEPT ![n] = Append(@, "ACK")]

Post(n, i) == mainQueue' = [mainQueue EXCEPT ![n] = Append(@, sent[Peer[n]][i])]

(* The messages a phone sent are the ones scheduled; they are delivered    *)
(* and lost as ControlChannel allows, up to the bounds.                    *)
Channel == INSTANCE ControlChannel WITH scheduled <- [n \in Node |-> DOMAIN sent[n]]

Deliver(n, i) ==
  /\ UNCHANGED <<talkState, button, phase, device, sent, dups>>
  /\ phase[n] = "open" /\ Channel!Deliver(n, i)
  /\ Post(n, i)

Redeliver(n, i) ==
  /\ phase[n] = "open" /\ i \in delivered[n]
  /\ dups < MaxDup /\ dups' = dups + 1
  /\ Post(n, i)
  /\ UNCHANGED <<talkState, button, phase, device, sent, delivered, lost>>

Lose(n, i) ==
  /\ UNCHANGED <<talkState, button, phase, device, mainQueue, sent, dups>>
  /\ Cardinality(lost[n]) + Cardinality(lost[Peer[n]]) < MaxLost
  /\ Channel!Lose(n, i)

-----------------------------------------------------------------------------
Controller(n) == \/ push2TalkConnected(n) \/ endSession(n)
                 \/ actionPushed(n) \/ actionReleased(n) \/ TouchUpOutside(n)
                 \/ handleCMessageType(n)

Transport(n) == \/ \E i \in DOMAIN sent[Peer[n]] : Deliver(n, i) \/ Redeliver(n, i)
                \/ \E i \in DOMAIN sent[n] : Lose(n, i)

Next == \E n \in Node : Controller(n) \/ Transport(n)

Spec == Init /\ [][Next]_vars

(* The main threads run, a user who talks stops some day, calls connect,   *)
(* and TalkManager retransmits until a message arrives.                    *)
Fairness ==
  \A n \in Node :
    /\ WF_vars(push2TalkConnected(n))
    /\ WF_vars(handleCMessageType(n))
    /\ WF_vars(talkState[n] = "Talking" /\ actionReleased(n))
    /\ WF_vars(\E i \in DOMAIN sent[Peer[n]] : Deliver(n, i))

FairSpec == Spec /\ Fairness

-----------------------------------------------------------------------------
(* Properties.                                                             *)

TypeOK ==
  /\ talkState \in [Node -> TalkState]
  /\ pressed \in [Node -> BOOLEAN]
  /\ phase \in [Node -> {"new", "open", "ended"}]
  /\ recording \in [Node -> BOOLEAN]
  /\ playing \in [Node -> BOOLEAN]
  /\ mainQueue \in [Node -> Seq(CMessageType)]
  /\ sent \in [Node -> Seq(CMessageType)]
  /\ delivered \in [Node -> SUBSET (Nat \ {0})]
  /\ lost \in [Node -> SUBSET (Nat \ {0})]
  /\ touching \in [Node -> BOOLEAN]
  /\ presses \in [Node -> Nat]
  /\ slides \in Nat
  /\ dups \in Nat

(* The microphone and the player follow the talk state: open exactly while *)
(* Talking and while Listening as long as the session is open, and never   *)
(* in another state afterwards, whatever stale calls still run.  So they   *)
(* are never open together (the audio session is in one category).         *)
DevicesFollowState ==
  \A n \in Node :
    /\ recording[n] => talkState[n] = "Talking"
    /\ playing[n] => talkState[n] = "Listening"
    /\ phase[n] = "open" => /\ talkState[n] = "Talking" => recording[n]
                            /\ talkState[n] = "Listening" => playing[n]

(* Where the right to talk is: at the controllers that may talk, in the    *)
(* DNT messages under way, and in the DNT calls posted but not run.        *)
Holders == {n \in Node : talkState[n] \in {"CanTalk", "Talking"}}
UnderWay(n) == {i \in DOMAIN sent[n] \ (delivered[Peer[n]] \cup lost[n]) : sent[n][i] = "DNT"}
Posted(n) == {i \in DOMAIN mainQueue[n] : mainQueue[n][i] = "DNT"}
Floors == Cardinality(Holders)
            + Cardinality(UnderWay(Caller)) + Cardinality(UnderWay(Peer[Caller]))
            + Cardinality(Posted(Caller)) + Cardinality(Posted(Peer[Caller]))
LostMsgs == Cardinality(lost[Caller]) + Cardinality(lost[Peer[Caller]])

InSession == phase[Caller] = "open" /\ phase[Peer[Caller]] # "ended"

(* There is one floor: every handler moves it and none copies it.  It      *)
(* takes a duplicate delivery to make another one, one for each at most;   *)
(* so without duplicates the two users never talk at once (half duplex).   *)
FloorNotCopied == InSession => Floors <= 1 + dups

(* The floor does not vanish: it takes a lost message, whatever the        *)
(* duplicates do.                                                          *)
FloorNotDropped == InSession => Floors + LostMsgs >= 1

(* A user who asks for the floor (presses while Listening, which sends     *)
(* WTT) and keeps the button down gets to talk, unless a session ends or   *)
(* something went wrong: a message lost or repeated, a finger slipped.     *)
Asks(n) == /\ pressed[n] /\ talkState[n] = "Listening"
           /\ sent[n] # <<>> /\ sent[n][Len(sent[n])] = "WTT"

AskerTalks ==
  \A n \in Node :
    Asks(n) ~> \/ talkState[n] = "Talking" \/ ~pressed[n]
               \/ \E m \in Node : phase[m] = "ended"
               \/ LostMsgs + slides + dups > 0
=============================================================================

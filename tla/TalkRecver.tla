----------------------------- MODULE TalkRecver -----------------------------
(* The receiving pipeline of a phone: TalkRecver.m and AudioStreamPlayer.mm.  *)
(* TalkManager's receiving thread hands a voice packet to                     *)
(* talkManager:responsedWithData:length:, which decodes it behind what is     *)
(* left in pkgBuffer, cuts play buffers off its front and enqueues them.  The *)
(* main thread starts and stops the player meanwhile; nothing is locked.      *)
(*                                                                            *)
(* pkgBuffer is the positions that are read and written, not the samples.     *)
(* External: the audio queue, whose calls may fail, and the Opus decoder.     *)
EXTENDS Integers

CONSTANTS
  FrameSize,        \* samples the decoder writes at most
  PlayBufferSize,   \* samples of a play buffer
  Decoded,          \* what opus_decode may return: samples, or an error code
  MaxPackets,       \* bound: voice packets that arrive
  MaxStarts,        \* bound: how often listening starts
  MaxFailures       \* bound: calls of a live audio queue that fail

ASSUME SizeAssumption == FrameSize \in Nat \ {0} /\ PlayBufferSize \in Nat \ {0}
ASSUME DecodedAssumption == Decoded \subseteq {i \in Int : i <= FrameSize}
ASSUME BoundAssumption == MaxPackets \in Nat /\ MaxStarts \in Nat /\ MaxFailures \in Nat

VARIABLES
  playing, live,          \* the player: its flag, and whether its queue is there
  mpc, starts,            \* the main thread, and history: how often it started
  rpc, begin,             \* the receiving thread, pkgBufferBegin
  pkgBufferEnd,
  packets, errors,        \* history: packets, and what error codes took from pkgBufferEnd
  failures                \* history: calls of the audio queue that failed

player == <<playing, live>>
main == <<mpc, starts>>
receiver == <<rpc, begin, pkgBufferEnd, packets, errors>>
vars == <<player, main, receiver, failures>>

FaultySize == PlayBufferSize + FrameSize

pkgBufferSize == PlayBufferSize + FrameSize * 2

Init ==
  /\ playing = FALSE /\ live = FALSE
  /\ mpc = "idle" /\ starts = 0
  /\ rpc = "idle" /\ begin = 0 /\ pkgBufferEnd = 0
  /\ packets = 0 /\ errors = 0 /\ failures = 0

(* A call of the audio queue fails.                                        *)
Fails == failures < MaxFailures /\ failures' = failures + 1

-----------------------------------------------------------------------------
(* The main thread.                                                        *)

(* start, unless it plays: a new audio queue, or the one before when it    *)
(* cannot be had ...                                                       *)
initAudioQueue ==
  \/ live' = TRUE /\ UNCHANGED failures
  \/ Fails /\ UNCHANGED live

start ==
  /\ mpc = "idle" /\ ~playing /\ starts < MaxStarts
  /\ starts' = starts + 1
  /\ initAudioQueue
  /\ mpc' = "starting"
  /\ UNCHANGED <<playing, receiver>>

(* ... then AudioQueueStart, and playing = YES when it succeeded.          *)
Started ==
  /\ mpc = "starting"
  /\ \/ live /\ playing' = TRUE /\ UNCHANGED failures
     \/ live /\ Fails /\ UNCHANGED playing
     \/ ~live /\ UNCHANGED <<playing, failures>>
  /\ mpc' = "idle"
  /\ UNCHANGED <<live, starts, receiver>>

(* stop, when it plays (destoryAudioQueue): playing = NO, then the queue   *)
(* is disposed of together with its buffers.                               *)
stop ==
  /\ mpc = "idle" /\ playing
  /\ playing' = FALSE
  /\ mpc' = "stopping"
  /\ UNCHANGED <<live, starts, receiver, failures>>

Dispose ==
  /\ mpc = "stopping"
  /\ live' = FALSE
  /\ mpc' = "idle"
  /\ UNCHANGED <<playing, starts, receiver, failures>>

-----------------------------------------------------------------------------
(* The receiving thread, in talkManager:responsedWithData:length:.         *)

(* A packet arrives; without a player it is dropped.                       *)
Arrive ==
  /\ rpc = "idle" /\ packets < MaxPackets
  /\ packets' = packets + 1
  /\ rpc' = IF playing THEN "decode" ELSE "idle"
  /\ UNCHANGED <<player, main, begin, pkgBufferEnd, errors, failures>>

(* What opusDecode returns: 0 without a decoder.                           *)
opusDecode == Decoded \cup {0}

(* The frame is decoded behind the samples that are left.  What opusDecode *)
(* returns is added, error codes too.                                      *)
Decode ==
  /\ rpc = "decode"
  /\ \E delen \in opusDecode :
       /\ pkgBufferEnd' = pkgBufferEnd + delen
       /\ errors' = IF delen < 0 THEN errors - delen ELSE errors
  /\ begin' = 0
  /\ rpc' = "loop"
  /\ UNCHANGED <<player, main, packets, failures>>

Full == pkgBufferEnd - begin >= PlayBufferSize

(* AudioQueueAllocateBuffer is called, and its queue is there.             *)
CanAllocate == playing /\ live

(* getEmptyQueueBuffer: NULL while the player does not play, when its      *)
(* queue is gone or the allocation fails, and then the loop asks again.    *)
getEmptyQueueBuffer ==
  /\ rpc = "loop" /\ Full
  /\ \/ CanAllocate /\ rpc' = "put" /\ UNCHANGED failures
     \/ CanAllocate /\ Fails /\ UNCHANGED rpc
     \/ ~CanAllocate /\ UNCHANGED <<rpc, failures>>
  /\ UNCHANGED <<player, main, begin, pkgBufferEnd, packets, errors>>

FaultyNextBegin == begin
FaultyStepBack == begin - PlayBufferSize

NextBegin == begin + PlayBufferSize

(* putQueueBuffer: the samples are copied and enqueued.  Whether the queue *)
(* takes them (it refuses a buffer of one that was disposed of) changes    *)
(* nothing here: samples that are refused are lost.                        *)
putQueueBuffer ==
  /\ rpc = "put"
  /\ begin' = NextBegin
  /\ rpc' = "loop"
  /\ UNCHANGED <<player, main, pkgBufferEnd, packets, errors, failures>>

(* Samples that are left are copied, from behind the end to their own      *)
(* place, and the end moves to the front.                                  *)
Return ==
  /\ rpc = "loop" /\ ~Full
  /\ pkgBufferEnd' = pkgBufferEnd - begin
  /\ begin' = 0
  /\ rpc' = "idle"
  /\ UNCHANGED <<player, main, packets, errors, failures>>

-----------------------------------------------------------------------------
Main == start \/ Started \/ stop \/ Dispose

responsedWithData == Decode \/ getEmptyQueueBuffer \/ putQueueBuffer \/ Return

Next == Main \/ Arrive \/ responsedWithData

Spec == Init /\ [][Next]_vars

(* Both threads run on; neither users nor packets are promised.            *)
FairSpec == Spec /\ WF_vars(responsedWithData) /\ WF_vars(Started \/ Dispose)

-----------------------------------------------------------------------------
(* Properties.                                                             *)

(* Type invariant of the receiving pipeline.                               *)
TypeOK ==
  /\ playing \in BOOLEAN /\ live \in BOOLEAN
  /\ mpc \in {"idle", "starting", "stopping"} /\ starts \in Nat
  /\ rpc \in {"idle", "decode", "loop", "put"}
  /\ begin \in Nat /\ pkgBufferEnd \in Int
  /\ packets \in Nat /\ errors \in Nat /\ failures \in Nat

(* How far the unchecked accesses to pkgBuffer reach, whatever opusDecode  *)
(* returns.  None goes beyond its end: not the decoder's whole frame, nor  *)
(* the play buffer that is cut off, nor the copy of the rest, which reads  *)
(* behind pkgBufferEnd.  Only the decoder can write before its beginning,  *)
(* and by no more than the error codes that were added to pkgBufferEnd.    *)
InBuffer ==
  /\ rpc = "decode" => /\ pkgBufferEnd + FrameSize <= pkgBufferSize
                       /\ pkgBufferEnd + errors >= 0
  /\ rpc = "put" => begin + PlayBufferSize <= pkgBufferSize
  /\ rpc = "loop" /\ ~Full /\ pkgBufferEnd > begin
       => pkgBufferEnd + (pkgBufferEnd - begin) <= pkgBufferSize

(* While the player plays on, no packet keeps the receiving thread, which  *)
(* also serves the control messages, unless allocations fail for ever.     *)
ReturnsWhilePlaying == <>[]playing => (rpc # "idle" ~> rpc = "idle")

(* "data arrived, but the player is not playing" (TalkRecver.m): the       *)
(* packet is then given up.                                                *)
ReturnsWhenStopped == rpc # "idle" /\ ~playing ~> rpc = "idle"

=============================================================================

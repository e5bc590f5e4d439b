-------------------------- MODULE TalkRecverProofs --------------------------
(* Proofs about TalkRecver.  Whatever the decoder returns, error codes        *)
(* included, no access of the receiving thread goes beyond the end of         *)
(* pkgBuffer, provided that a play buffer holds at most two frames and two    *)
(* samples (every sample rate above 8.5 kHz), and none goes further before    *)
(* its beginning than the error codes add up to.                              *)
EXTENDS TalkRecver, TLAPS

(* How far pkgBuffer is filled at each point of the receiving thread: less *)
(* than a play buffer between packets, a frame more in the loop, and never *)
(* less than the error codes took.                                         *)
Filled ==
  /\ pkgBufferEnd + errors >= 0
  /\ rpc \in {"idle", "decode"} => begin = 0 /\ pkgBufferEnd < PlayBufferSize
  /\ rpc \in {"loop", "put"} => /\ pkgBufferEnd < PlayBufferSize + FrameSize
                                /\ begin = 0 \/ (begin >= PlayBufferSize /\ begin <= pkgBufferEnd)
  /\ rpc = "put" => begin + PlayBufferSize <= pkgBufferEnd

Inv == TypeOK /\ Filled

SizesFit == PlayBufferSize <= 2 * FrameSize + 2

(* The invariant implies that every access stays inside pkgBuffer.         *)
LEMMA FilledIsInBuffer ==
  ASSUME SizesFit, Inv PROVE InBuffer
<1> USE SizeAssumption DEF Inv, TypeOK, Filled, SizesFit
<1>1. rpc = "decode" => /\ pkgBufferEnd + FrameSize <= pkgBufferSize
                        /\ pkgBufferEnd + errors >= 0
  BY DEF pkgBufferSize
<1>2. rpc = "put" => begin + PlayBufferSize <= pkgBufferSize
  BY DEF pkgBufferSize
<1>3. rpc = "loop" /\ ~Full /\ pkgBufferEnd > begin
        => pkgBufferEnd + (pkgBufferEnd - begin) <= pkgBufferSize
  <2> SUFFICES ASSUME rpc = "loop", ~Full PROVE pkgBufferEnd + (pkgBufferEnd - begin) <= pkgBufferSize
    OBVIOUS
  <2>1. pkgBufferEnd - begin < PlayBufferSize
    BY DEF Full
  <2>2. CASE begin = 0
    BY <2>1, <2>2 DEF pkgBufferSize
  <2>3. CASE begin >= PlayBufferSize
    BY <2>3 DEF pkgBufferSize
  <2> QED BY <2>2, <2>3
<1> QED BY <1>1, <1>2, <1>3 DEF InBuffer

(* The main thread's steps leave the receiving thread alone.               *)
LEMMA MainStep ==
  ASSUME Inv, Main PROVE Inv'
<1>1. UNCHANGED receiver
  BY DEF Main, start, Started, stop, Dispose
<1>2. playing' \in BOOLEAN /\ live' \in BOOLEAN /\ mpc' \in {"idle", "starting", "stopping"}
  BY DEF Main, start, initAudioQueue, Started, stop, Dispose, Inv, TypeOK
<1>3. starts' \in Nat /\ failures' \in Nat
  BY DEF Main, start, initAudioQueue, Started, stop, Dispose, Fails, Inv, TypeOK
<1> QED BY <1>1, <1>2, <1>3 DEF Inv, TypeOK, Filled, receiver

(* The steps of the receiving thread keep the invariant.                   *)
LEMMA ReceiverStep ==
  ASSUME Inv, Arrive \/ responsedWithData PROVE Inv'
<1> USE SizeAssumption
<1>1. CASE Arrive
  BY <1>1 DEF Arrive, Inv, TypeOK, Filled, player, main
<1>2. CASE Decode
  <2>1. PICK d \in opusDecode :
          /\ pkgBufferEnd' = pkgBufferEnd + d
          /\ errors' = IF d < 0 THEN errors - d ELSE errors
    BY <1>2 DEF Decode
  <2>2. d \in Int /\ d <= FrameSize
    BY DecodedAssumption DEF opusDecode
  <2>3. pkgBufferEnd' \in Int /\ errors' \in Nat /\ pkgBufferEnd' + errors' >= 0
    BY <2>1, <2>2 DEF Inv, TypeOK, Filled
  <2>4. pkgBufferEnd' < PlayBufferSize + FrameSize
    BY <1>2, <2>1, <2>2 DEF Decode, Inv, TypeOK, Filled
  <2>5. /\ begin' = 0 /\ rpc' = "loop" /\ UNCHANGED <<player, main, packets, failures>>
    BY <1>2 DEF Decode
  <2> QED BY <2>3, <2>4, <2>5 DEF Inv, TypeOK, Filled, player, main
<1>3. CASE getEmptyQueueBuffer
  BY <1>3 DEF getEmptyQueueBuffer, Fails, Full, Inv, TypeOK, Filled, player, main
<1>4. CASE putQueueBuffer
  BY <1>4 DEF putQueueBuffer, NextBegin, Inv, TypeOK, Filled, player, main
<1>5. CASE Return
  BY <1>5 DEF Return, Full, Inv, TypeOK, Filled, player, main
<1> QED BY <1>1, <1>2, <1>3, <1>4, <1>5 DEF responsedWithData

LEMMA Invariance == Spec => []Inv
<1>1. Init => Inv
  <2>1. Init => TypeOK
    <3> SUFFICES ASSUME Init PROVE TypeOK
      OBVIOUS
    <3>1. playing \in BOOLEAN /\ live \in BOOLEAN
      BY DEF Init
    <3> QED BY <3>1 DEF Init, TypeOK
  <2>2. Init => Filled BY SizeAssumption DEF Init, Filled
  <2> QED BY <2>1, <2>2 DEF Inv
<1>2. Inv /\ [Next]_vars => Inv'
  <2>1. ASSUME Inv, UNCHANGED vars PROVE Inv'
    BY <2>1 DEF Inv, TypeOK, Filled, vars, player, main, receiver
  <2> QED BY <2>1, MainStep, ReceiverStep DEF Next
<1> QED BY <1>1, <1>2, PTL DEF Spec

(* The type invariant of the receiving pipeline, for all sizes and all     *)
(* that opusDecode may return.                                             *)
THEOREM TypeCorrect == Spec => []TypeOK
<1>1. Inv => TypeOK BY DEF Inv
<1> QED BY <1>1, Invariance, PTL

(* talkManager:responsedWithData:length: checks none of its accesses to    *)
(* pkgBuffer, nor what opusDecode returns: they never go beyond its end,   *)
(* and before its beginning only as far as error codes were added.         *)
THEOREM AccessesInBuffer ==
  ASSUME SizesFit PROVE Spec => []InBuffer
<1>1. Inv => InBuffer BY FilledIsInBuffer
<1> QED BY <1>1, Invariance, PTL
=============================================================================

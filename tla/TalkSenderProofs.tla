--------------------------- MODULE TalkSenderProofs ---------------------------
(* TLAPS proofs about TalkSender, for any frame size, any number of starts *)
(* (and so of threads) and of frames: its type invariant and the condition *)
(* of the lock, where each frame is, who uses the one encoder, and the     *)
(* order in which speech is sent.                                          *)
EXTENDS TalkSender, Counting

(* The type invariant needs the condition of the lock: FrameTake takes the *)
(* head of a queue that only the condition says is not empty.              *)
IInv == /\ TypeOK
        /\ ConditionTracksQueue
        /\ pkgBufferEnd < FrameSize

LEMMA InitIInv == Init => IInv
  <1> SUFFICES ASSUME Init PROVE IInv
    OBVIOUS
  <1> USE DEF Init
  <1>1. talking \in BOOLEAN /\ running \in BOOLEAN /\ recording \in BOOLEAN /\ overlap \in BOOLEAN
    OBVIOUS
  <1>2. frameQueue \in Seq(Nat) /\ dataQueue \in Seq(Nat) /\ transmitted \in Seq(Nat)
    OBVIOUS
  <1>3. /\ fpc \in [Thread -> {"none", "spawned", "wait", "timedout", "encode", "exit", "done"}]
        /\ spc \in [Thread -> {"none", "loop", "pop", "send", "done"}]
        /\ frameBuffer \in [Thread -> Nat] /\ data \in [Thread -> Nat]
    BY DEF NoFrame
  <1>4. /\ pkgBufferEnd \in Nat /\ pkgBufferEnd < FrameSize
        /\ starts \in 0..MaxStarts /\ frames \in Nat /\ early \in Nat
    BY SizeAssumption
  <1>5. ConditionTracksQueue /\ condition \in {"HAS_DATA", "NO_DATA"} /\ failed \in SUBSET Nat
    BY DEF ConditionTracksQueue
  <1> QED
    BY <1>1, <1>2, <1>3, <1>4, <1>5 DEF IInv, TypeOK

LEMMA StartIInv == IInv /\ start => IInv'
  <1> SUFFICES ASSUME IInv, start PROVE IInv'
    OBVIOUS
  <1> USE DEF IInv, TypeOK
  <1>1. starts' \in 0..MaxStarts /\ talking' \in BOOLEAN /\ recording' \in BOOLEAN
    BY SizeAssumption DEF start
  <1>2. /\ fpc' \in [Thread -> {"none", "spawned", "wait", "timedout", "encode", "exit", "done"}]
        /\ spc' \in [Thread -> {"none", "loop", "pop", "send", "done"}]
        /\ early' \in Nat
    <2>1. CASE running
      BY <2>1 DEF start, prepare
    <2>2. CASE ~running
      <3>1. /\ fpc' = [fpc EXCEPT ![starts + 1] = "spawned"]
            /\ spc' = [spc EXCEPT ![starts + 1] = "loop"]
            /\ early' = IF \E j \in Thread : fpc[j] = "spawned" THEN early + 1 ELSE early
        BY <2>2, Zenon DEF start, prepare
      <3>2. early' = early + 1 \/ early' = early
        BY <3>1, Zenon
      <3>3. early' \in Nat
        BY <3>2
      <3> QED
        BY <3>1, <3>3
    <2> QED
      BY <2>1, <2>2
  <1>4. overlap' \in BOOLEAN
    BY Zenon DEF start, prepare
  <1>3. UNCHANGED <<running, pkgBufferEnd, frames, frameQueue, condition, dataQueue,
                    frameBuffer, data, failed, transmitted>>
    BY DEF start, recordVars
  <1> QED
    BY <1>1, <1>2, <1>3, <1>4 DEF ConditionTracksQueue

LEMMA StopIInv == IInv /\ stop => IInv'
  BY DEF IInv, TypeOK, stop, recordVars, frameVars, sendVars, ConditionTracksQueue

LEMMA Longer ==
  ASSUME NEW q \in Seq(Nat), NEW x \in Nat
  PROVE  Append(q, x) \in Seq(Nat) /\ Append(q, x) # <<>>
  BY AppendProperties

(* The only step that does arithmetic on pkgBufferEnd.  What is left after *)
(* a frame was cut off is less than what the callback brought, and that is *)
(* at most a frame.                                                        *)
LEMMA AudioIInv ==
  ASSUME IInv, NEW length \in 1..MaxLength, handleAudioBuffer(length)
  PROVE  IInv'
  <1> USE DEF IInv, TypeOK
  <1>1. UNCHANGED <<talking, recording, starts, early, overlap, dataQueue, fpc,
                    frameBuffer, running, spc, data, transmitted, failed>>
    BY DEF handleAudioBuffer, mainVars, frameVars, sendVars
  <1>2. pkgBufferEnd' \in Nat /\ pkgBufferEnd' < FrameSize
    BY SizeAssumption DEF handleAudioBuffer, EndAfter, NewEnd, PkgBufferSize
  <1>3. CASE FrameComplete(length)
    <2>1. /\ frameQueue' = Append(frameQueue, frames + 1)
          /\ condition' = "HAS_DATA"
          /\ frames' = frames + 1
      BY <1>3 DEF handleAudioBuffer, copyFrame
    <2>2. frames + 1 \in Nat
      OBVIOUS
    <2>3. frameQueue' \in Seq(Nat) /\ frameQueue' # <<>>
      BY <2>1, <2>2, Longer
    <2>4. ConditionTracksQueue'
      BY <1>1, <2>1, <2>3 DEF ConditionTracksQueue
    <2> QED
      BY <1>1, <1>2, <2>1, <2>2, <2>3, <2>4
  <1>4. CASE ~FrameComplete(length)
    <2>1. UNCHANGED <<frameQueue, condition, frames>>
      BY <1>4 DEF handleAudioBuffer
    <2> QED
      BY <1>1, <1>2, <2>1 DEF ConditionTracksQueue
  <1> QED
    BY <1>3, <1>4

LEMMA FrameIInv ==
  ASSUME IInv, NEW k \in Thread, handleFrameBuffers(k)
  PROVE  IInv'
  <1> USE DEF IInv, TypeOK, mainVars, recordVars, sendVars
  <1>1. CASE FrameBegin(k)
    BY <1>1 DEF FrameBegin, ConditionTracksQueue
  <1>2. CASE FrameTake(k)
    <2>1. frameQueue # <<>>
      BY <1>2 DEF FrameTake, UnlockCondition, ConditionTracksQueue
    <2>2. Head(frameQueue) \in Nat /\ Tail(frameQueue) \in Seq(Nat)
      BY <2>1
    <2>3. UNCHANGED <<talking, recording, starts, early, overlap, pkgBufferEnd,
                      frames, dataQueue, running, spc, data, transmitted, failed>>
      BY <1>2 DEF FrameTake, UnlockCondition
    <2>4. /\ frameBuffer' \in [Thread -> Nat]
          /\ frameQueue' \in Seq(Nat)
          /\ fpc' \in [Thread -> {"none", "spawned", "wait", "timedout", "encode", "exit", "done"}]
      BY <1>2, <2>2 DEF FrameTake, UnlockCondition
    <2>5. ConditionTracksQueue' /\ condition' \in {"HAS_DATA", "NO_DATA"}
      BY <1>2 DEF FrameTake, UnlockCondition, ConditionTracksQueue
    <2> QED
      BY <2>3, <2>4, <2>5
  <1>3. CASE FrameTimeout(k)
    BY <1>3 DEF FrameTimeout, ConditionTracksQueue
  <1>4. CASE FrameDecide(k)
    BY <1>4 DEF FrameDecide, ConditionTracksQueue
  <1>5. CASE FrameEncode(k)
    <2>0. frameBuffer[k] \in Nat
      OBVIOUS
    <2>1. /\ dataQueue' \in Seq(Nat)
          /\ failed' \in SUBSET Nat
      <3>1. CASE dataQueue' = Append(dataQueue, frameBuffer[k]) /\ UNCHANGED failed
        BY <2>0, <3>1, AppendProperties
      <3>2. CASE failed' = failed \cup {frameBuffer[k]} /\ UNCHANGED dataQueue
        BY <2>0, <3>2
      <3> QED
        BY <1>5, <3>1, <3>2 DEF FrameEncode
    <2> QED
      BY <1>5, <2>1 DEF FrameEncode, ConditionTracksQueue, NoFrame
  <1>6. CASE FrameExit(k)
    BY <1>6 DEF FrameExit, ConditionTracksQueue
  <1> QED
    BY <1>1, <1>2, <1>3, <1>4, <1>5, <1>6 DEF handleFrameBuffers

LEMMA SendIInv ==
  ASSUME IInv, NEW k \in Thread, handleSending(k)
  PROVE  IInv'
  <1> USE DEF IInv, TypeOK, mainVars, recordVars, frameVars
  <1>1. CASE SendTest(k)
    BY <1>1 DEF SendTest, ConditionTracksQueue
  <1>2. CASE SendPop(k)
    <2>1. CASE dataQueue = <<>>
      BY <1>2, <2>1 DEF SendPop, ConditionTracksQueue
    <2>2. CASE dataQueue # <<>>
      <3>1. Head(dataQueue) \in Nat /\ Tail(dataQueue) \in Seq(Nat)
        BY <2>2
      <3> QED
        BY <1>2, <2>2, <3>1 DEF SendPop, ConditionTracksQueue
    <2> QED
      BY <2>1, <2>2
  <1>3. CASE SendData(k)
    <2>1. transmitted' \in Seq(Nat)
      BY <1>3 DEF SendData
    <2> QED
      BY <1>3, <2>1 DEF SendData, ConditionTracksQueue, NoFrame
  <1> QED
    BY <1>1, <1>2, <1>3 DEF handleSending

LEMMA StepIInv == IInv /\ [Next]_vars => IInv'
  <1> SUFFICES ASSUME IInv, [Next]_vars PROVE IInv'
    OBVIOUS
  <1>1. CASE UNCHANGED vars
    BY <1>1 DEF vars, IInv, TypeOK, ConditionTracksQueue
  <1>2. CASE Next
    BY <1>2, StartIInv, StopIInv, AudioIInv, FrameIInv, SendIInv DEF Next
  <1> QED
    BY <1>1, <1>2

LEMMA Inductive == Spec => []IInv
  BY InitIInv, StepIInv, PTL DEF Spec

(* TalkSender keeps its types, for any constants.                          *)
THEOREM TypeCorrect == Spec => []TypeOK
  BY Inductive, PTL DEF IInv

(* The condition of the NSConditionLock and the frame queue never          *)
(* disagree, with any number of frame threads taking frames.               *)
THEOREM LockCorrect == Spec => []ConditionTracksQueue
  BY Inductive, PTL DEF IInv

(* handleAudioBuffer's copy never overruns pkgBuffer when the recorder's   *)
(* buffer holds at most one frame, for every frame size.                   *)
THEOREM NoOverrun == Spec => []BufferHasRoom
  <1>1. IInv => BufferHasRoom
    BY SizeAssumption DEF IInv, TypeOK, BufferHasRoom, NewEnd, PkgBufferSize
  <1> QED
    BY Inductive, <1>1, PTL

-----------------------------------------------------------------------------
(* Frames are neither lost nor doubled.                                    *)

(* A thread holds a frame only while it is about to hand it on, and only   *)
(* threads that were started do anything.                                  *)
Idle == \A k \in Thread : /\ frameBuffer[k] # NoFrame => fpc[k] = "encode"
                          /\ data[k] # NoFrame => spc[k] = "send"
                          /\ k > starts => fpc[k] = "none" /\ spc[k] = "none"

Total(f) == Copies(f, frameQueue) + Copies(f, frameBuffer) + Copies(f, dataQueue)
              + Copies(f, data) + Copies(f, transmitted) + Cardinality({f} \cap failed)

(* A frame that was not recorded yet is nowhere: the number copyFrame      *)
(* gives to the next one is new.                                           *)
Conserved == \A f \in Nat \ {0} : Total(f) = IF f <= frames THEN 1 ELSE 0

LEMMA ThreadFinite == IsFiniteSet(Thread)
  BY SizeAssumption, FS_Interval DEF Thread

LEMMA StartIdle == IInv /\ Idle /\ start => Idle'
  <1> SUFFICES ASSUME IInv, Idle, start, NEW k \in Thread
               PROVE  (/\ frameBuffer[k] # NoFrame => fpc[k] = "encode"
                       /\ data[k] # NoFrame => spc[k] = "send"
                       /\ k > starts => fpc[k] = "none" /\ spc[k] = "none")'
    BY DEF Idle
  <1>1. UNCHANGED <<frameBuffer, data>> /\ starts' = starts + 1 /\ starts \in Nat /\ starts < MaxStarts
    BY DEF start, IInv, TypeOK
  <1>2. \/ UNCHANGED <<fpc, spc>>
        \/ fpc' = [fpc EXCEPT ![starts + 1] = "spawned"] /\ spc' = [spc EXCEPT ![starts + 1] = "loop"]
    BY Zenon DEF start, prepare
  <1>3. starts + 1 \in Thread /\ k \in Nat
    BY <1>1, SizeAssumption DEF Thread
  <1>4. fpc[starts + 1] = "none" /\ spc[starts + 1] = "none"
    BY <1>1, <1>3 DEF Idle
  <1>5. /\ fpc \in [Thread -> {"none", "spawned", "wait", "timedout", "encode", "exit", "done"}]
        /\ spc \in [Thread -> {"none", "loop", "pop", "send", "done"}]
    BY DEF IInv, TypeOK
  <1>6. k > starts + 1 => k # starts + 1 /\ k > starts
    BY <1>1, <1>3
  <1> QED
    BY <1>1, <1>2, <1>4, <1>5, <1>6 DEF Idle

LEMMA ThreadIdle ==
  ASSUME IInv, Idle, NEW k \in Thread, handleFrameBuffers(k) \/ handleSending(k)
  PROVE  Idle'
  <1> USE DEF IInv, TypeOK, Idle, mainVars, frameVars, sendVars
  <1>1. CASE FrameBegin(k)
    BY <1>1 DEF FrameBegin
  <1>2. CASE FrameTake(k)
    BY <1>2 DEF FrameTake
  <1>3. CASE FrameTimeout(k)
    BY <1>3 DEF FrameTimeout
  <1>4. CASE FrameDecide(k)
    BY <1>4 DEF FrameDecide
  <1>5. CASE FrameEncode(k)
    BY <1>5 DEF FrameEncode
  <1>6. CASE FrameExit(k)
    BY <1>6 DEF FrameExit
  <1>7. CASE SendTest(k)
    BY <1>7 DEF SendTest
  <1>8. CASE SendPop(k)
    BY <1>8 DEF SendPop
  <1>9. CASE SendData(k)
    BY <1>9 DEF SendData
  <1> QED
    BY <1>1, <1>2, <1>3, <1>4, <1>5, <1>6, <1>7, <1>8, <1>9
       DEF handleFrameBuffers, handleSending

LEMMA StepIdle == IInv /\ Idle /\ [Next]_vars => Idle'
  <1> SUFFICES ASSUME IInv, Idle, [Next]_vars PROVE Idle'
    OBVIOUS
  <1>1. CASE UNCHANGED vars
    BY <1>1 DEF vars, Idle
  <1>2. CASE stop
    BY <1>2 DEF stop, frameVars, sendVars, Idle
  <1>3. ASSUME NEW length \in 1..MaxLength, handleAudioBuffer(length) PROVE Idle'
    BY <1>3 DEF handleAudioBuffer, mainVars, frameVars, sendVars, Idle
  <1> QED
    BY <1>1, <1>2, <1>3, StartIdle, ThreadIdle DEF Next

(* The pipeline of one frame: what each stage holds of it.                 *)
LEMMA TotalType ==
  ASSUME TypeOK, NEW f
  PROVE  /\ Copies(f, frameQueue) \in Nat /\ Copies(f, frameBuffer) \in Nat
         /\ Copies(f, dataQueue) \in Nat /\ Copies(f, data) \in Nat
         /\ Copies(f, transmitted) \in Nat /\ Cardinality({f} \cap failed) \in Nat
  <1>1. \A q \in Seq(Nat) : Copies(f, q) \in Nat
    BY PlacesFinite DEF Copies, Places
  <1>2. ASSUME NEW g \in [Thread -> Nat] PROVE Copies(f, g) \in Nat
    <2>1. {i \in DOMAIN g : g[i] = f} \in SUBSET Thread
      OBVIOUS
    <2>2. IsFiniteSet({i \in DOMAIN g : g[i] = f})
      BY <2>1, ThreadFinite, FS_Subset
    <2> QED
      BY <2>2, FS_CardinalityType DEF Copies
  <1>3. Cardinality({f} \cap failed) \in Nat
    <2>1. IsFiniteSet({f} \cap failed)
      BY FS_Singleton, FS_Subset
    <2> QED
      BY <2>1, FS_CardinalityType
  <1> QED
    BY <1>1, <1>2, <1>3 DEF TypeOK

LEMMA CopiesAppend ==
  ASSUME NEW q \in Seq(Nat), NEW y \in Nat, NEW f
  PROVE  Copies(f, Append(q, y)) = IF y = f THEN Copies(f, q) + 1 ELSE Copies(f, q)
  <1>1. /\ Copies(f, q) = Cardinality(Places(q, f))
        /\ Copies(f, Append(q, y)) = Cardinality(Places(Append(q, y), f))
    BY DEF Copies, Places
  <1> QED
    BY <1>1, PlacesAppend

LEMMA CopiesTail ==
  ASSUME NEW q \in Seq(Nat), q # <<>>, NEW f
  PROVE  Copies(f, Tail(q)) = IF Head(q) = f THEN Copies(f, q) - 1 ELSE Copies(f, q)
  <1>1. /\ Copies(f, q) = Cardinality(Places(q, f))
        /\ Copies(f, Tail(q)) = Cardinality(Places(Tail(q), f))
    BY DEF Copies, Places
  <1> QED
    BY <1>1, PlacesTail

LEMMA CopiesExcept ==
  ASSUME NEW g \in [Thread -> Nat], NEW k \in Thread, NEW f,
         NEW h \in [Thread -> Nat], \A i \in Thread : i # k => h[i] = g[i]
  PROVE  /\ g[k] = f => Copies(f, g) > 0
         /\ Copies(f, h) =
              IF g[k] = f
              THEN IF h[k] = f THEN Copies(f, g) ELSE Copies(f, g) - 1
              ELSE IF h[k] = f THEN Copies(f, g) + 1 ELSE Copies(f, g)
  <1>1. /\ Copies(f, g) = Cardinality(Places(g, f))
        /\ Copies(f, h) = Cardinality(Places(h, f))
    BY DEF Copies, Places
  <1> QED
    BY <1>1, ThreadFinite, PlacesExcept

LEMMA FailedAdd ==
  ASSUME NEW f, NEW y
  PROVE  /\ y # f => {f} \cap (failed \cup {y}) = {f} \cap failed
         /\ y = f => Cardinality({f} \cap (failed \cup {y})) = 1
  <1>1. CASE y = f
    <2>1. {f} \cap (failed \cup {y}) = {f}
      BY <1>1
    <2> QED
      BY <1>1, <2>1, FS_Singleton
  <1>2. CASE y # f
    BY <1>2
  <1> QED
    BY <1>1, <1>2

LEMMA FramesStep ==
  ASSUME IInv, Idle, Conserved, Next
  PROVE  Conserved'
  <1> SUFFICES ASSUME NEW f \in Nat \ {0} PROVE (Total(f) = IF f <= frames THEN 1 ELSE 0)'
    BY DEF Conserved
  <1>1. /\ TypeOK /\ frames \in Nat
        /\ Total(f) = IF f <= frames THEN 1 ELSE 0
    BY DEF IInv, TypeOK, Conserved
  <1>2. /\ Copies(f, frameQueue) \in Nat /\ Copies(f, frameBuffer) \in Nat
        /\ Copies(f, dataQueue) \in Nat /\ Copies(f, data) \in Nat
        /\ Copies(f, transmitted) \in Nat /\ Cardinality({f} \cap failed) \in Nat
    BY <1>1, TotalType
  <1>3. CASE UNCHANGED <<frameQueue, frameBuffer, dataQueue, data, transmitted, failed, frames>>
    BY <1>1, <1>3 DEF Total
  <1>4. CASE start \/ stop
    BY <1>3, <1>4 DEF start, stop, recordVars, frameVars, sendVars
  <1>5. ASSUME NEW length \in 1..MaxLength, handleAudioBuffer(length)
        PROVE  (Total(f) = IF f <= frames THEN 1 ELSE 0)'
    <2>1. UNCHANGED <<frameBuffer, dataQueue, data, transmitted, failed>>
      BY <1>5 DEF handleAudioBuffer, frameVars, sendVars
    <2>2. CASE UNCHANGED <<frameQueue, frames>>
      BY <1>3, <2>1, <2>2
    <2>3. CASE copyFrame
      <3>1. frameQueue' = Append(frameQueue, frames + 1) /\ frames' = frames + 1
        BY <2>3 DEF copyFrame
      <3>2. Copies(f, frameQueue') = IF frames + 1 = f THEN Copies(f, frameQueue) + 1
                                                       ELSE Copies(f, frameQueue)
        BY <1>1, <3>1, CopiesAppend DEF TypeOK
      <3>3. Total(f)' = IF frames + 1 = f THEN Total(f) + 1 ELSE Total(f)
        BY <1>2, <2>1, <3>2 DEF Total
      <3> QED
        BY <1>1, <3>1, <3>3
    <2> QED
      BY <1>5, <2>2, <2>3 DEF handleAudioBuffer
  <1>6. ASSUME NEW k \in Thread, handleFrameBuffers(k)
        PROVE  (Total(f) = IF f <= frames THEN 1 ELSE 0)'
    <2>1. UNCHANGED <<frames, data, transmitted>>
      BY <1>6 DEF handleFrameBuffers, FrameBegin, FrameTake, FrameTimeout, FrameDecide,
                  FrameEncode, FrameExit, recordVars, sendVars
    <2>2. CASE FrameTake(k)
      <3>1. /\ frameBuffer' = [frameBuffer EXCEPT ![k] = Head(frameQueue)]
            /\ frameQueue' = Tail(frameQueue) /\ UNCHANGED <<dataQueue, failed>>
        BY <2>2 DEF FrameTake
      <3>2. frameQueue \in Seq(Nat) /\ frameQueue # <<>> /\ frameBuffer \in [Thread -> Nat]
        BY <1>1, <2>2 DEF FrameTake, IInv, ConditionTracksQueue, TypeOK
      <3>3. Head(frameQueue) \in Nat /\ frameBuffer[k] # f
        BY <2>2, <3>2 DEF FrameTake, Idle, NoFrame
      <3>4. Copies(f, frameQueue') = IF Head(frameQueue) = f THEN Copies(f, frameQueue) - 1
                                                             ELSE Copies(f, frameQueue)
        BY <3>1, <3>2, CopiesTail
      <3>5. Copies(f, frameBuffer') = IF Head(frameQueue) = f THEN Copies(f, frameBuffer) + 1
                                                              ELSE Copies(f, frameBuffer)
        <4>1. /\ frameBuffer' \in [Thread -> Nat] /\ frameBuffer'[k] = Head(frameQueue)
              /\ \A i \in Thread : i # k => frameBuffer'[i] = frameBuffer[i]
          BY <3>1, <3>2, <3>3
        <4>2. frameBuffer \in [Thread -> Nat] /\ frameBuffer[k] # f
          BY <3>2, <3>3
        <4>3. Copies(f, frameBuffer') = IF frameBuffer'[k] = f THEN Copies(f, frameBuffer) + 1 ELSE Copies(f, frameBuffer)
          BY <4>1, <4>2, CopiesExcept
        <4> QED
          BY <4>1, <4>3
      <3>6. Total(f)' = Total(f)
        BY <1>2, <2>1, <3>1, <3>4, <3>5 DEF Total
      <3> QED
        BY <1>1, <2>1, <3>6
    <2>3. CASE FrameEncode(k)
      <3> DEFINE b == frameBuffer[k]
      <3>1. /\ frameBuffer' = [frameBuffer EXCEPT ![k] = NoFrame] /\ UNCHANGED frameQueue
            /\ frameBuffer \in [Thread -> Nat] /\ b \in Nat /\ NoFrame \in Nat /\ NoFrame # f
        BY <1>1, <2>3 DEF FrameEncode, TypeOK, NoFrame
      <3>2. /\ Copies(f, frameBuffer') = IF b = f THEN Copies(f, frameBuffer) - 1
                                                  ELSE Copies(f, frameBuffer)
            /\ b = f => Copies(f, frameBuffer) > 0
        <4>1. /\ frameBuffer' \in [Thread -> Nat] /\ frameBuffer'[k] = NoFrame
              /\ \A i \in Thread : i # k => frameBuffer'[i] = frameBuffer[i]
          BY <3>1
        <4>2. frameBuffer \in [Thread -> Nat] /\ NoFrame # f
          BY <3>1
        <4> QED
          BY <4>1, <4>2, CopiesExcept
      <3>3. CASE dataQueue' = Append(dataQueue, b) /\ UNCHANGED failed
        <4>1. Copies(f, dataQueue') = IF b = f THEN Copies(f, dataQueue) + 1
                                               ELSE Copies(f, dataQueue)
          BY <1>1, <3>1, <3>3, CopiesAppend DEF TypeOK
        <4>2. Total(f)' = Total(f)
          BY <1>2, <2>1, <3>1, <3>2, <3>3, <4>1 DEF Total
        <4> QED
          BY <1>1, <2>1, <4>2
      <3>4. CASE failed' = failed \cup {b} /\ UNCHANGED dataQueue
        <4>1. CASE b = f
          <5>1. Cardinality({f} \cap failed) = 0
            BY <1>1, <1>2, <3>2, <4>1 DEF Total
          <5>2. Cardinality({f} \cap failed') = 1
            BY <3>4, <4>1, FailedAdd
          <5>3. Total(f)' = Total(f)
            BY <1>2, <2>1, <3>1, <3>2, <3>4, <4>1, <5>1, <5>2 DEF Total
          <5> QED
            BY <1>1, <2>1, <5>3
        <4>2. CASE b # f
          <5>1. {f} \cap failed' = {f} \cap failed
            BY <3>4, <4>2
          <5>2. Total(f)' = Total(f)
            BY <1>2, <2>1, <3>1, <3>2, <3>4, <4>2, <5>1 DEF Total
          <5> QED
            BY <1>1, <2>1, <5>2
        <4> QED
          BY <4>1, <4>2
      <3> QED
        BY <2>3, <3>3, <3>4 DEF FrameEncode
    <2> QED
      BY <1>3, <1>6, <2>1, <2>2, <2>3 DEF handleFrameBuffers, FrameBegin, FrameTimeout,
         FrameDecide, FrameExit
  <1>7. ASSUME NEW k \in Thread, handleSending(k)
        PROVE  (Total(f) = IF f <= frames THEN 1 ELSE 0)'
    <2>1. UNCHANGED <<frames, frameQueue, frameBuffer, failed>>
      BY <1>7 DEF handleSending, SendTest, SendPop, SendData, recordVars, frameVars
    <2>2. CASE SendTest(k)
      BY <1>3, <2>1, <2>2 DEF SendTest
    <2>3. CASE SendPop(k) /\ dataQueue = <<>>
      BY <1>3, <2>1, <2>3 DEF SendPop
    <2>4. CASE SendPop(k) /\ dataQueue # <<>>
      <3>1. /\ data' = [data EXCEPT ![k] = Head(dataQueue)] /\ dataQueue' = Tail(dataQueue)
            /\ UNCHANGED transmitted
        BY <2>4 DEF SendPop
      <3>2. dataQueue \in Seq(Nat) /\ data \in [Thread -> Nat]
        BY <1>1 DEF TypeOK
      <3>3. Head(dataQueue) \in Nat /\ data[k] # f
        BY <2>4, <3>2 DEF SendPop, Idle, NoFrame
      <3>4. Copies(f, dataQueue') = IF Head(dataQueue) = f THEN Copies(f, dataQueue) - 1
                                                           ELSE Copies(f, dataQueue)
        BY <2>4, <3>1, <3>2, CopiesTail
      <3>5. Copies(f, data') = IF Head(dataQueue) = f THEN Copies(f, data) + 1
                                                      ELSE Copies(f, data)
        <4>1. /\ data' \in [Thread -> Nat] /\ data'[k] = Head(dataQueue)
              /\ \A i \in Thread : i # k => data'[i] = data[i]
          BY <3>1, <3>2, <3>3
        <4>2. data \in [Thread -> Nat] /\ data[k] # f
          BY <3>2, <3>3
        <4>3. Copies(f, data') = IF data'[k] = f THEN Copies(f, data) + 1 ELSE Copies(f, data)
          BY <4>1, <4>2, CopiesExcept
        <4> QED
          BY <4>1, <4>3
      <3>6. Total(f)' = Total(f)
        BY <1>2, <2>1, <3>1, <3>4, <3>5 DEF Total
      <3> QED
        BY <1>1, <2>1, <3>6
    <2>5. CASE SendData(k)
      <3>1. /\ data' = [data EXCEPT ![k] = NoFrame] /\ transmitted' = Append(transmitted, data[k])
            /\ UNCHANGED dataQueue
        BY <2>5 DEF SendData
      <3>2. transmitted \in Seq(Nat) /\ data \in [Thread -> Nat] /\ data[k] \in Nat
        BY <1>1 DEF TypeOK
      <3>3. Copies(f, transmitted') = IF data[k] = f THEN Copies(f, transmitted) + 1
                                                     ELSE Copies(f, transmitted)
        BY <3>1, <3>2, CopiesAppend
      <3>4. Copies(f, data') = IF data[k] = f THEN Copies(f, data) - 1 ELSE Copies(f, data)
        <4>1. /\ data' \in [Thread -> Nat] /\ data'[k] = NoFrame
              /\ \A i \in Thread : i # k => data'[i] = data[i]
          BY <3>1, <3>2 DEF NoFrame
        <4> QED
          BY <3>2, <4>1, CopiesExcept DEF NoFrame
      <3>5. Total(f)' = Total(f)
        BY <1>2, <2>1, <3>1, <3>3, <3>4 DEF Total
      <3> QED
        BY <1>1, <2>1, <3>5
    <2> QED
      BY <1>7, <2>2, <2>3, <2>4, <2>5 DEF handleSending
  <1> QED
    BY <1>4, <1>5, <1>6, <1>7 DEF Next

LEMMA InitFrames == Init => Idle /\ Conserved
  <1> SUFFICES ASSUME Init PROVE Idle /\ Conserved
    OBVIOUS
  <1>1. Idle
    BY DEF Init, Idle
  <1>2. ASSUME NEW f \in Nat \ {0} PROVE Total(f) = 0
    <2>1. \A q : q = <<>> => Copies(f, q) = 0
      BY FS_EmptySet DEF Copies
    <2>2. ASSUME NEW g, g = [k \in Thread |-> NoFrame] PROVE Copies(f, g) = 0
      <3>1. {i \in DOMAIN g : g[i] = f} = {}
        BY <2>2 DEF NoFrame
      <3> QED
        BY <3>1, FS_EmptySet DEF Copies
    <2>3. Cardinality({f} \cap failed) = 0
      BY FS_EmptySet DEF Init
    <2> QED
      BY <2>1, <2>2, <2>3 DEF Init, Total
  <1>3. Conserved
    BY <1>2 DEF Conserved, Init
  <1> QED
    BY <1>1, <1>3

LEMMA StepConserved == IInv /\ Idle /\ Conserved /\ [Next]_vars => Conserved'
  <1>1. Conserved /\ UNCHANGED vars => Conserved'
    BY DEF vars, Conserved, Total, Copies
  <1> QED
    BY <1>1, FramesStep

(* Every frame copyFrame queued is in exactly one place: a queue, the      *)
(* hands of one thread, sent, or refused by opusEncode.  With any number   *)
(* of frame and send threads none is encoded or sent twice and none is     *)
(* dropped on the way.                                                     *)
THEOREM NoFrameLost == Spec => []FramesConserved
  <1>1. IInv /\ Conserved => FramesConserved
    <2> SUFFICES ASSUME IInv, Conserved, NEW f \in 1..frames PROVE Total(f) = 1
      BY DEF FramesConserved, Total
    <2>1. f \in Nat \ {0} /\ f <= frames
      BY DEF IInv, TypeOK
    <2> QED
      BY <2>1 DEF Conserved
  <1> QED
    BY <1>1, InitIInv, StepIInv, InitFrames, StepIdle, StepConserved, PTL DEF Spec

-----------------------------------------------------------------------------
(* How many frame threads can be alive.                                    *)

(* When no thread says that it runs and none is about to, the next start   *)
(* makes one more without being early.                                     *)
EncodersBounded ==
  /\ OneEncoder
  /\ ~running /\ (\A k \in Thread : fpc[k] # "spawned") => Cardinality(LiveFrameThreads) <= early

LEMMA LiveFinite == IsFiniteSet(LiveFrameThreads) /\ Cardinality(LiveFrameThreads) \in Nat
  <1>1. LiveFrameThreads \in SUBSET Thread
    BY DEF LiveFrameThreads
  <1>2. IsFiniteSet(LiveFrameThreads)
    BY <1>1, ThreadFinite, FS_Subset
  <1> QED
    BY <1>2, FS_CardinalityType

LEMMA EncoderStart ==
  ASSUME IInv, Idle, EncodersBounded, start
  PROVE  EncodersBounded'
  <1>1. CASE running
    BY <1>1 DEF start, prepare, EncodersBounded, OneEncoder, LiveFrameThreads
  <1>2. CASE ~running
    <2>1. /\ fpc' = [fpc EXCEPT ![starts + 1] = "spawned"]
          /\ early' = IF \E j \in Thread : fpc[j] = "spawned" THEN early + 1 ELSE early
      BY <1>2, Zenon DEF start, prepare
    <2>2. starts + 1 \in Thread /\ starts + 1 > starts /\ early \in Nat
      BY SizeAssumption DEF start, IInv, TypeOK, Thread
    <2>3. fpc[starts + 1] = "none"
      BY <2>2 DEF Idle
    <2>4. fpc \in [Thread -> {"none", "spawned", "wait", "timedout", "encode", "exit", "done"}]
      BY DEF IInv, TypeOK
    <2>5. fpc'[starts + 1] = "spawned" /\ \A k \in Thread : k # starts + 1 => fpc'[k] = fpc[k]
      BY <2>1, <2>2, <2>4
    <2>6. LiveFrameThreads' = LiveFrameThreads \cup {starts + 1} /\ starts + 1 \notin LiveFrameThreads
      BY <2>2, <2>3, <2>5 DEF LiveFrameThreads
    <2>7. Cardinality(LiveFrameThreads') = Cardinality(LiveFrameThreads) + 1
      BY <2>6, LiveFinite, CardAdd
    <2>8. CASE \E j \in Thread : fpc[j] = "spawned"
      <3>1. early' = early + 1 /\ Cardinality(LiveFrameThreads) <= 1 + early
        BY <2>1, <2>8 DEF EncodersBounded, OneEncoder
      <3>2. Cardinality(LiveFrameThreads') <= 1 + early'
        BY <2>2, <2>7, <3>1, LiveFinite
      <3> QED
        BY <2>2, <2>5, <3>2 DEF EncodersBounded, OneEncoder
    <2>9. CASE ~\E j \in Thread : fpc[j] = "spawned"
      <3>1. early' = early /\ Cardinality(LiveFrameThreads) <= early
        BY <1>2, <2>1, <2>9 DEF EncodersBounded
      <3>2. Cardinality(LiveFrameThreads') <= 1 + early'
        BY <2>2, <2>7, <3>1, LiveFinite
      <3> QED
        BY <2>2, <2>5, <3>2 DEF EncodersBounded, OneEncoder
    <2> QED
      BY <2>8, <2>9
  <1> QED
    BY <1>1, <1>2

LEMMA EncoderFrame ==
  ASSUME IInv, EncodersBounded, NEW k \in Thread, handleFrameBuffers(k)
  PROVE  EncodersBounded'
  <1>1. fpc \in [Thread -> {"none", "spawned", "wait", "timedout", "encode", "exit", "done"}]
    BY DEF IInv, TypeOK
  <1>2. UNCHANGED early /\ early \in Nat
    BY DEF handleFrameBuffers, FrameBegin, FrameTake, FrameTimeout, FrameDecide,
           FrameEncode, FrameExit, mainVars, IInv, TypeOK
  <1>3. CASE FrameBegin(k)
    <2>1. LiveFrameThreads' = LiveFrameThreads /\ running'
      BY <1>1, <1>3 DEF FrameBegin, LiveFrameThreads
    <2> QED
      BY <1>2, <2>1 DEF EncodersBounded, OneEncoder
  <1>4. CASE FrameTake(k) \/ FrameTimeout(k) \/ FrameDecide(k) \/ FrameEncode(k)
    <2>1. /\ fpc[k] \in {"wait", "timedout", "encode"} /\ UNCHANGED running
          /\ fpc'[k] \in {"wait", "timedout", "encode", "exit"}
          /\ \A j \in Thread : j # k => fpc'[j] = fpc[j]
      BY <1>1, <1>4 DEF FrameTake, FrameTimeout, FrameDecide, FrameEncode
    <2>2. LiveFrameThreads' = LiveFrameThreads
      BY <2>1 DEF LiveFrameThreads
    <2>3. (\A j \in Thread : fpc'[j] # "spawned") => (\A j \in Thread : fpc[j] # "spawned")
      BY <2>1
    <2> QED
      BY <1>2, <2>1, <2>2, <2>3 DEF EncodersBounded, OneEncoder
  <1>5. CASE FrameExit(k)
    <2>1. fpc[k] = "exit" /\ fpc'[k] = "done" /\ \A j \in Thread : j # k => fpc'[j] = fpc[j]
      BY <1>1, <1>5 DEF FrameExit
    <2>2. LiveFrameThreads' = LiveFrameThreads \ {k} /\ k \in LiveFrameThreads
      BY <2>1 DEF LiveFrameThreads
    <2>3. Cardinality(LiveFrameThreads') = Cardinality(LiveFrameThreads) - 1
      BY <2>2, LiveFinite, CardRemove
    <2>4. Cardinality(LiveFrameThreads) <= 1 + early
      BY DEF EncodersBounded, OneEncoder
    <2>5. Cardinality(LiveFrameThreads') <= early'
      BY <1>2, <2>3, <2>4, LiveFinite
    <2>6. Cardinality(LiveFrameThreads') <= 1 + early'
      BY <1>2, <2>3, <2>4, LiveFinite
    <2> QED
      BY <2>5, <2>6 DEF EncodersBounded, OneEncoder
  <1> QED
    BY <1>3, <1>4, <1>5 DEF handleFrameBuffers

LEMMA StepEncoder == IInv /\ Idle /\ EncodersBounded /\ [Next]_vars => EncodersBounded'
  <1> SUFFICES ASSUME IInv, Idle, EncodersBounded, [Next]_vars PROVE EncodersBounded'
    OBVIOUS
  <1>1. CASE UNCHANGED <<fpc, running, early>>
    BY <1>1 DEF EncodersBounded, OneEncoder, LiveFrameThreads
  <1>2. CASE stop
    BY <1>1, <1>2 DEF stop, frameVars
  <1>3. ASSUME NEW length \in 1..MaxLength, handleAudioBuffer(length) PROVE EncodersBounded'
    BY <1>1, <1>3 DEF handleAudioBuffer, mainVars, frameVars
  <1>4. ASSUME NEW k \in Thread, handleSending(k) PROVE EncodersBounded'
    BY <1>1, <1>4 DEF handleSending, SendTest, SendPop, SendData, mainVars, frameVars
  <1> QED
    BY <1>1, <1>2, <1>3, <1>4, EncoderStart, EncoderFrame DEF Next, vars

LEMMA InitEncoder == Init => EncodersBounded
  <1> SUFFICES ASSUME Init PROVE EncodersBounded
    OBVIOUS
  <1>1. LiveFrameThreads = {}
    BY DEF Init, LiveFrameThreads
  <1> QED
    BY <1>1, FS_EmptySet DEF Init, EncodersBounded, OneEncoder

(* The static buffer and the encoder of handleFrameBuffers are shared by   *)
(* no more threads than one and those made by a start that came before the *)
(* thread of an earlier start had set running, for any number of starts.   *)
THEOREM EncoderShared == Spec => []OneEncoder
  <1>1. EncodersBounded => OneEncoder
    BY DEF EncodersBounded
  <1> QED
    BY <1>1, InitIInv, StepIInv, InitFrames, StepIdle, InitEncoder, StepEncoder, PTL DEF Spec

-----------------------------------------------------------------------------
(* The order of the speech.                                                *)

In(x, q) == \E i \in DOMAIN q : q[i] = x

(* The stages of the pipeline, from sent (1) to not recorded yet (6).      *)
At(s, x) == \/ s = 1 /\ In(x, transmitted)
            \/ s = 2 /\ \E k \in Thread : spc[k] = "send" /\ data[k] = x
            \/ s = 3 /\ In(x, dataQueue)
            \/ s = 4 /\ \E k \in Thread : fpc[k] = "encode" /\ frameBuffer[k] = x
            \/ s = 5 /\ In(x, frameQueue)
            \/ s = 6 /\ x > frames

Increasing(q) == \A i, j \in DOMAIN q : i < j => q[i] < q[j]

(* What is further down the pipeline is older.                             *)
Chain == \A s, t \in 1..6, x, y \in Nat : s < t /\ At(s, x) /\ At(t, y) => x < y

Lone == \A j, k \in Thread :
  /\ j \in LiveFrameThreads /\ k \in LiveFrameThreads => j = k
  /\ j \in LiveSendThreads /\ k \in LiveSendThreads => j = k

(* As long as threads did not overlap there is one of each kind, so each   *)
(* stage hands its oldest frame on to a stage that holds older ones only.  *)
OrderInv == ~overlap => /\ Lone /\ Chain
                        /\ Increasing(transmitted) /\ Increasing(dataQueue)
                        /\ Increasing(frameQueue)

LEMMA ChainMove ==
  ASSUME Chain, NEW s \in 2..6, NEW h \in Nat, At(s, h),
         \A x \in Nat : At(s, x)' => At(s, x) /\ h < x,
         \A x \in Nat : At(s - 1, x)' => At(s - 1, x) \/ x = h,
         \A t \in 1..6, x \in Nat : t # s /\ t # s - 1 /\ At(t, x)' => At(t, x)
  PROVE  Chain'
  <1> SUFFICES ASSUME NEW a \in 1..6, NEW b \in 1..6, NEW x \in Nat, NEW y \in Nat,
                      a < b, At(a, x)', At(b, y)'
               PROVE  x < y
    BY DEF Chain
  <1>1. s - 1 \in 1..6 /\ s \in 1..6 /\ s - 1 < s
    OBVIOUS
  <1>2. \A p, q \in 1..6, v, w \in Nat : p < q /\ At(p, v) /\ At(q, w) => v < w
    BY DEF Chain
  <1>3. CASE At(a, x) /\ At(b, y)
    BY <1>2, <1>3
  <1>4. CASE a = s - 1 /\ x = h
    <2>1. CASE b = s
      BY <1>4, <2>1
    <2>2. CASE b # s
      <3>1. s < b /\ At(b, y)
        BY <1>1, <1>4, <2>2
      <3> QED
        BY <1>1, <1>2, <1>4, <3>1
    <2> QED
      BY <2>1, <2>2
  <1>5. CASE b = s - 1 /\ y = h
    <2>1. a < s /\ a # s /\ a # s - 1 /\ At(a, x)
      BY <1>1, <1>5
    <2> QED
      BY <1>1, <1>2, <1>5, <2>1
  <1> QED
    BY <1>3, <1>4, <1>5

LEMMA ChainShrinks ==
  ASSUME Chain, \A t \in 1..6, x \in Nat : At(t, x)' => At(t, x)
  PROVE  Chain'
  BY DEF Chain

LEMMA AppendOrder ==
  ASSUME NEW q \in Seq(Nat), NEW h \in Nat
  PROVE  /\ \A x : In(x, Append(q, h)) => In(x, q) \/ x = h
         /\ Increasing(q) /\ (\A x \in Nat : In(x, q) => x < h) => Increasing(Append(q, h))
  <1> DEFINE r == Append(q, h)
  <1>1. /\ Len(q) \in Nat /\ DOMAIN q = 1..Len(q) /\ DOMAIN r = 1..(Len(q) + 1)
        /\ \A i \in 1..Len(q) : r[i] = q[i] /\ q[i] \in Nat
        /\ r[Len(q) + 1] = h
    BY AppendProperties, LenProperties
  <1> HIDE DEF r
  <1>2. \A x : In(x, r) => In(x, q) \/ x = h
    BY <1>1 DEF In
  <1>3. ASSUME Increasing(q), \A x \in Nat : In(x, q) => x < h PROVE Increasing(r)
    <2> SUFFICES ASSUME NEW i \in DOMAIN r, NEW j \in DOMAIN r, i < j PROVE r[i] < r[j]
      BY DEF Increasing
    <2>1. i \in 1..Len(q) /\ r[i] = q[i] /\ q[i] \in Nat
      BY <1>1
    <2>2. CASE j \in 1..Len(q)
      BY <1>1, <1>3, <2>1, <2>2 DEF Increasing
    <2>3. CASE j = Len(q) + 1
      BY <1>1, <1>3, <2>1, <2>3 DEF In
    <2> QED
      BY <1>1, <2>2, <2>3
  <1> QED
    BY <1>2, <1>3 DEF r

LEMMA TailOrder ==
  ASSUME NEW q \in Seq(Nat), q # <<>>, Increasing(q)
  PROVE  /\ In(Head(q), q) /\ Head(q) \in Nat
         /\ \A x : In(x, Tail(q)) => In(x, q) /\ Head(q) < x
         /\ Increasing(Tail(q))
  <1> DEFINE r == Tail(q)
  <1>1. /\ Len(q) \in Nat /\ Len(q) > 0 /\ DOMAIN q = 1..Len(q) /\ DOMAIN r = 1..(Len(q) - 1)
        /\ \A i \in 1..(Len(q) - 1) : r[i] = q[i + 1]
        /\ Head(q) = q[1] /\ \A i \in 1..Len(q) : q[i] \in Nat
    BY HeadTailProperties, LenProperties, EmptySeq
  <1> HIDE DEF r
  <1>2. In(Head(q), q) /\ Head(q) \in Nat
    BY <1>1 DEF In
  <1>3. \A i \in DOMAIN r : i + 1 \in DOMAIN q /\ 1 \in DOMAIN q /\ 1 < i + 1
    BY <1>1
  <1>4. \A x : In(x, r) => In(x, q) /\ Head(q) < x
    BY <1>1, <1>3 DEF In, Increasing
  <1>5. Increasing(r)
    <2> SUFFICES ASSUME NEW i \in DOMAIN r, NEW j \in DOMAIN r, i < j PROVE r[i] < r[j]
      BY DEF Increasing
    <2>1. i + 1 < j + 1
      BY <1>1
    <2> QED
      BY <1>1, <1>3, <2>1 DEF Increasing
  <1> QED
    BY <1>2, <1>4, <1>5 DEF r

LEMMA OverlapStays == IInv /\ [Next]_vars => (overlap => overlap')
  <1> SUFFICES ASSUME IInv, [Next]_vars, overlap PROVE overlap'
    OBVIOUS
  <1>1. CASE start
    BY <1>1, Zenon DEF start, prepare
  <1> QED
    BY <1>1 DEF Next, stop, handleAudioBuffer, handleFrameBuffers, FrameBegin, FrameTake,
       FrameTimeout, FrameDecide, FrameEncode, FrameExit, handleSending, SendTest, SendPop,
       SendData, mainVars, vars

LEMMA LoneStep ==
  ASSUME IInv, Next, Lone, ~overlap'
  PROVE  Lone'
  <1>0. /\ fpc \in [Thread -> {"none", "spawned", "wait", "timedout", "encode", "exit", "done"}]
        /\ spc \in [Thread -> {"none", "loop", "pop", "send", "done"}]
    BY DEF IInv, TypeOK
  <1>1. ASSUME LiveFrameThreads' \subseteq LiveFrameThreads, LiveSendThreads' \subseteq LiveSendThreads
        PROVE  Lone'
    BY <1>1 DEF Lone
  <1>2. CASE start
    <2>1. CASE running
      BY <1>1, <1>2, <2>1 DEF start, prepare, LiveFrameThreads, LiveSendThreads
    <2>2. CASE ~running
      <3>1. /\ fpc' = [fpc EXCEPT ![starts + 1] = "spawned"]
            /\ spc' = [spc EXCEPT ![starts + 1] = "loop"]
            /\ LiveFrameThreads \cup LiveSendThreads = {}
        BY <1>2, <2>2, Zenon DEF start, prepare
      <3>2. \A k \in Thread : k # starts + 1 => fpc'[k] = fpc[k] /\ spc'[k] = spc[k]
        BY <1>0, <3>1
      <3>3. \A k \in Thread : fpc[k] \in {"none", "done"} /\ spc[k] \in {"none", "done"}
        BY <3>1 DEF LiveFrameThreads, LiveSendThreads
      <3>4. LiveFrameThreads' \subseteq {starts + 1} /\ LiveSendThreads' \subseteq {starts + 1}
        BY <3>2, <3>3 DEF LiveFrameThreads, LiveSendThreads
      <3> QED
        BY <3>4 DEF Lone
    <2> QED
      BY <2>1, <2>2
  <1>3. CASE UNCHANGED <<fpc, spc>>
    BY <1>1, <1>3 DEF LiveFrameThreads, LiveSendThreads
  <1>4. ASSUME NEW k \in Thread, handleFrameBuffers(k) PROVE Lone'
    <2>1. /\ fpc[k] \notin {"none", "done"} /\ UNCHANGED spc
          /\ \A j \in Thread : j # k => fpc'[j] = fpc[j]
      BY <1>0, <1>4 DEF handleFrameBuffers, FrameBegin, FrameTake, FrameTimeout,
         FrameDecide, FrameEncode, FrameExit, sendVars
    <2> QED
      BY <1>1, <2>1 DEF LiveFrameThreads, LiveSendThreads
  <1>5. ASSUME NEW k \in Thread, handleSending(k) PROVE Lone'
    <2>1. /\ spc[k] \notin {"none", "done"} /\ UNCHANGED fpc
          /\ \A j \in Thread : j # k => spc'[j] = spc[j]
      BY <1>0, <1>5 DEF handleSending, SendTest, SendPop, SendData, frameVars
    <2> QED
      BY <1>1, <2>1 DEF LiveFrameThreads, LiveSendThreads
  <1>6. ASSUME NEW length \in 1..MaxLength, handleAudioBuffer(length) PROVE Lone'
    BY <1>3, <1>6 DEF handleAudioBuffer, frameVars, sendVars
  <1>7. CASE stop
    BY <1>3, <1>7 DEF stop, frameVars, sendVars
  <1> QED
    BY <1>2, <1>4, <1>5, <1>6, <1>7 DEF Next

Ordered == /\ Chain /\ Increasing(transmitted) /\ Increasing(dataQueue)
           /\ Increasing(frameQueue)

LEMMA RecordOrder ==
  ASSUME IInv, Ordered, NEW length \in 1..MaxLength, handleAudioBuffer(length)
  PROVE  Ordered'
  <1>1. UNCHANGED <<fpc, frameBuffer, dataQueue, spc, data, transmitted>>
    BY DEF handleAudioBuffer, frameVars, sendVars
  <1>2. CASE UNCHANGED <<frameQueue, frames>>
    BY <1>1, <1>2 DEF Ordered, Chain, At, In, Increasing
  <1>3. CASE copyFrame
    <2> DEFINE h == frames + 1
    <2>1. /\ frameQueue' = Append(frameQueue, h) /\ frames' = h
          /\ frameQueue \in Seq(Nat) /\ frames \in Nat /\ h \in Nat
      BY <1>3 DEF copyFrame, IInv, TypeOK
    <2>2. At(6, h) /\ \A x \in Nat : In(x, frameQueue) => x < h
      <3>1. At(6, h)
        BY <2>1 DEF At
      <3>2. \A x \in Nat : In(x, frameQueue) => At(5, x)
        BY DEF At
      <3> QED
        BY <2>1, <3>1, <3>2 DEF Ordered, Chain
    <2>3. /\ \A x : In(x, frameQueue') => In(x, frameQueue) \/ x = h
          /\ Increasing(frameQueue')
      BY <2>1, <2>2, AppendOrder DEF Ordered
    <2>4. \A x \in Nat : At(6, x)' => At(6, x) /\ h < x
      BY <2>1 DEF At
    <2>5. \A x \in Nat : At(6 - 1, x)' => At(6 - 1, x) \/ x = h
      BY <2>3 DEF At, In
    <2>6. \A t \in 1..6, x \in Nat : t # 6 /\ t # 6 - 1 /\ At(t, x)' => At(t, x)
      BY <1>1 DEF At, In
    <2> HIDE DEF h
    <2>7. Chain'
      BY <2>1, <2>2, <2>4, <2>5, <2>6, ChainMove DEF Ordered
    <2> QED
      BY <1>1, <2>3, <2>7 DEF Ordered, Increasing
  <1> QED
    BY <1>2, <1>3 DEF handleAudioBuffer

LEMMA TakeOrder ==
  ASSUME IInv, Ordered, NEW k \in Thread, FrameTake(k)
  PROVE  Ordered'
  <1> DEFINE h == Head(frameQueue)
  <1>1. /\ frameQueue' = Tail(frameQueue)
        /\ UNCHANGED <<dataQueue, spc, data, transmitted, frames>>
        /\ frameQueue # <<>> /\ frameQueue \in Seq(Nat)
    BY DEF FrameTake, recordVars, sendVars, IInv, TypeOK, ConditionTracksQueue
  <1>2. /\ frameBuffer'[k] = h
        /\ \A j \in Thread : j # k => frameBuffer'[j] = frameBuffer[j] /\ fpc'[j] = fpc[j]
    BY DEF FrameTake, IInv, TypeOK
  <1>3. /\ In(h, frameQueue) /\ h \in Nat
        /\ \A x : In(x, frameQueue') => In(x, frameQueue) /\ h < x
        /\ Increasing(frameQueue')
    BY <1>1, TailOrder DEF Ordered
  <1> HIDE DEF h
  <1>4. At(5, h) /\ \A x \in Nat : At(5, x)' => At(5, x) /\ h < x
    BY <1>3 DEF At, In
  <1>5. \A x \in Nat : At(5 - 1, x)' => At(5 - 1, x) \/ x = h
    BY <1>2 DEF At
  <1>6. \A t \in 1..6, x \in Nat : t # 5 /\ t # 5 - 1 /\ At(t, x)' => At(t, x)
    BY <1>1 DEF At, In
  <1>7. Chain'
    BY <1>3, <1>4, <1>5, <1>6, ChainMove DEF Ordered
  <1> QED
    BY <1>1, <1>3, <1>7 DEF Ordered, Increasing

(* The only frame thread holds the only frame between the queues.          *)
LEMMA EncodeOrder ==
  ASSUME IInv, Lone, Ordered, NEW k \in Thread, FrameEncode(k)
  PROVE  Ordered'
  <1> DEFINE h == frameBuffer[k]
  <1>1. /\ UNCHANGED <<frameQueue, spc, data, transmitted, frames>>
        /\ dataQueue \in Seq(Nat) /\ h \in Nat
    BY DEF FrameEncode, recordVars, sendVars, IInv, TypeOK
  <1>2. \A j \in Thread : fpc'[j] # "encode"
    <2>1. fpc[k] = "encode" /\ fpc'[k] = "wait" /\ \A j \in Thread : j # k => fpc'[j] = fpc[j]
      BY DEF FrameEncode, IInv, TypeOK
    <2>2. \A j \in Thread : fpc[j] = "encode" => j = k
      BY <2>1 DEF Lone, LiveFrameThreads
    <2> QED
      BY <2>1, <2>2
  <1>3. \A x \in Nat : ~At(4, x)'
    BY <1>2 DEF At
  <1>4. CASE UNCHANGED dataQueue
    <2>1. \A t \in 1..6, x \in Nat : At(t, x)' => At(t, x)
      BY <1>1, <1>3, <1>4 DEF At, In
    <2> QED
      BY <1>1, <1>4, <2>1, ChainShrinks DEF Ordered, Increasing
  <1>5. CASE dataQueue' = Append(dataQueue, h)
    <2>1. At(4, h)
      BY DEF At, FrameEncode
    <2>2. \A x \in Nat : In(x, dataQueue) => x < h
      <3>1. \A x \in Nat : In(x, dataQueue) => At(3, x)
        BY DEF At
      <3> QED
        BY <1>1, <2>1, <3>1 DEF Ordered, Chain
    <2>3. /\ \A x : In(x, dataQueue') => In(x, dataQueue) \/ x = h
          /\ Increasing(dataQueue')
      BY <1>1, <1>5, <2>2, AppendOrder DEF Ordered
    <2> HIDE DEF h
    <2>4. \A x \in Nat : At(4 - 1, x)' => At(4 - 1, x) \/ x = h
      BY <2>3 DEF At, In
    <2>5. \A t \in 1..6, x \in Nat : t # 4 /\ t # 4 - 1 /\ At(t, x)' => At(t, x)
      BY <1>1 DEF At, In
    <2>6. Chain'
      BY <1>1, <1>3, <2>1, <2>4, <2>5, ChainMove DEF Ordered
    <2> QED
      BY <1>1, <2>3, <2>6 DEF Ordered, Increasing
  <1> QED
    BY <1>4, <1>5 DEF FrameEncode

LEMMA FrameOrder ==
  ASSUME IInv, Lone, Ordered, NEW k \in Thread, handleFrameBuffers(k)
  PROVE  Ordered'
  <1>1. CASE FrameBegin(k) \/ FrameTimeout(k) \/ FrameDecide(k) \/ FrameExit(k)
    <2>1. UNCHANGED <<frameQueue, frameBuffer, dataQueue, spc, data, transmitted, frames>>
      BY <1>1 DEF FrameBegin, FrameTimeout, FrameDecide, FrameExit, recordVars, sendVars
    <2>2. \A j \in Thread : fpc'[j] = "encode" => fpc[j] = "encode"
      BY <1>1 DEF FrameBegin, FrameTimeout, FrameDecide, FrameExit, IInv, TypeOK
    <2>3. \A t \in 1..6, x \in Nat : At(t, x)' => At(t, x)
      BY <2>1, <2>2 DEF At, In
    <2> QED
      BY <2>1, <2>3, ChainShrinks DEF Ordered, Increasing
  <1> QED
    BY <1>1, TakeOrder, EncodeOrder DEF handleFrameBuffers

LEMMA PopOrder ==
  ASSUME IInv, Ordered, NEW k \in Thread, SendPop(k), dataQueue # <<>>
  PROVE  Ordered'
  <1> DEFINE h == Head(dataQueue)
  <1>1. /\ dataQueue' = Tail(dataQueue) /\ dataQueue \in Seq(Nat)
        /\ UNCHANGED <<frameQueue, fpc, frameBuffer, transmitted, frames>>
    BY DEF SendPop, recordVars, frameVars, IInv, TypeOK
  <1>2. data'[k] = h /\ \A j \in Thread : j # k => data'[j] = data[j] /\ spc'[j] = spc[j]
    BY DEF SendPop, IInv, TypeOK
  <1>3. /\ In(h, dataQueue) /\ h \in Nat
        /\ \A x : In(x, dataQueue') => In(x, dataQueue) /\ h < x
        /\ Increasing(dataQueue')
    BY <1>1, TailOrder DEF Ordered
  <1> HIDE DEF h
  <1>4. At(3, h) /\ \A x \in Nat : At(3, x)' => At(3, x) /\ h < x
    BY <1>3 DEF At, In
  <1>5. \A x \in Nat : At(3 - 1, x)' => At(3 - 1, x) \/ x = h
    BY <1>2 DEF At
  <1>6. \A t \in 1..6, x \in Nat : t # 3 /\ t # 3 - 1 /\ At(t, x)' => At(t, x)
    BY <1>1 DEF At, In
  <1>7. Chain'
    BY <1>3, <1>4, <1>5, <1>6, ChainMove DEF Ordered
  <1> QED
    BY <1>1, <1>3, <1>7 DEF Ordered, Increasing

LEMMA DataOrder ==
  ASSUME IInv, Lone, Ordered, NEW k \in Thread, SendData(k)
  PROVE  Ordered'
  <1> DEFINE h == data[k]
  <1>1. /\ UNCHANGED <<frameQueue, fpc, frameBuffer, dataQueue, frames>>
        /\ transmitted' = Append(transmitted, h)
        /\ transmitted \in Seq(Nat) /\ h \in Nat
    BY DEF SendData, recordVars, frameVars, IInv, TypeOK
  <1>2. \A j \in Thread : spc'[j] # "send"
    <2>1. spc[k] = "send" /\ spc'[k] = "loop" /\ \A j \in Thread : j # k => spc'[j] = spc[j]
      BY DEF SendData, IInv, TypeOK
    <2>2. \A j \in Thread : spc[j] = "send" => j = k
      BY <2>1 DEF Lone, LiveSendThreads
    <2> QED
      BY <2>1, <2>2
  <1>3. \A x \in Nat : ~At(2, x)'
    BY <1>2 DEF At
  <1>4. At(2, h)
    BY DEF At, SendData
  <1>5. \A x \in Nat : In(x, transmitted) => x < h
    <2>1. \A x \in Nat : In(x, transmitted) => At(1, x)
      BY DEF At
    <2> QED
      BY <1>1, <1>4, <2>1 DEF Ordered, Chain
  <1>6. /\ \A x : In(x, transmitted') => In(x, transmitted) \/ x = h
        /\ Increasing(transmitted')
    BY <1>1, <1>5, AppendOrder DEF Ordered
  <1> HIDE DEF h
  <1>7. \A x \in Nat : At(2 - 1, x)' => At(2 - 1, x) \/ x = h
    BY <1>6 DEF At, In
  <1>8. \A t \in 1..6, x \in Nat : t # 2 /\ t # 2 - 1 /\ At(t, x)' => At(t, x)
    BY <1>1 DEF At, In
  <1>9. Chain'
    BY <1>1, <1>3, <1>4, <1>7, <1>8, ChainMove DEF Ordered
  <1> QED
    BY <1>1, <1>6, <1>9 DEF Ordered, Increasing

LEMMA SendOrder ==
  ASSUME IInv, Lone, Ordered, NEW k \in Thread, handleSending(k)
  PROVE  Ordered'
  <1>1. CASE SendTest(k) \/ (SendPop(k) /\ dataQueue = <<>>)
    <2>1. UNCHANGED <<frameQueue, fpc, frameBuffer, dataQueue, data, transmitted, frames>>
      BY <1>1 DEF SendTest, SendPop, recordVars, frameVars
    <2>2. \A j \in Thread : spc'[j] = "send" => spc[j] = "send"
      BY <1>1 DEF SendTest, SendPop, IInv, TypeOK
    <2>3. \A t \in 1..6, x \in Nat : At(t, x)' => At(t, x)
      BY <2>1, <2>2 DEF At, In
    <2> QED
      BY <2>1, <2>3, ChainShrinks DEF Ordered, Increasing
  <1> QED
    BY <1>1, PopOrder, DataOrder DEF handleSending

LEMMA MainOrder ==
  ASSUME IInv, Ordered, start \/ stop
  PROVE  Ordered'
  <1>1. UNCHANGED <<frameQueue, frameBuffer, dataQueue, data, transmitted, frames>>
    BY DEF start, stop, recordVars, frameVars, sendVars
  <1>2. \A j \in Thread : /\ fpc'[j] = "encode" => fpc[j] = "encode"
                          /\ spc'[j] = "send" => spc[j] = "send"
    <2>1. \/ UNCHANGED <<fpc, spc>>
          \/ /\ fpc' = [fpc EXCEPT ![starts + 1] = "spawned"]
             /\ spc' = [spc EXCEPT ![starts + 1] = "loop"]
      BY Zenon DEF start, stop, prepare, frameVars, sendVars
    <2> QED
      BY <2>1 DEF IInv, TypeOK
  <1>3. \A t \in 1..6, x \in Nat : At(t, x)' => At(t, x)
    BY <1>1, <1>2 DEF At, In
  <1> QED
    BY <1>1, <1>3, ChainShrinks DEF Ordered, Increasing

LEMMA StepOrder == IInv /\ OrderInv /\ [Next]_vars => OrderInv'
  <1> SUFFICES ASSUME IInv, OrderInv, [Next]_vars, ~overlap' PROVE (Lone /\ Ordered)'
    BY DEF OrderInv, Ordered
  <1>1. Lone /\ Ordered
    BY OverlapStays DEF OrderInv, Ordered
  <1>2. CASE UNCHANGED vars
    BY <1>1, <1>2 DEF vars, Lone, LiveFrameThreads, LiveSendThreads, Ordered, Chain, At,
       In, Increasing
  <1>3. CASE Next
    BY <1>1, <1>3, LoneStep, MainOrder, RecordOrder, FrameOrder, SendOrder DEF Next
  <1> QED
    BY <1>2, <1>3

LEMMA InitOrder == Init => OrderInv
  <1> SUFFICES ASSUME Init PROVE Lone /\ Ordered
    BY DEF OrderInv, Ordered
  <1>1. Lone
    BY DEF Init, Lone, LiveFrameThreads, LiveSendThreads
  <1>2. \A s \in 1..6, x \in Nat : At(s, x) => s = 6
    BY DEF Init, At, In
  <1> QED
    BY <1>1, <1>2 DEF Init, Ordered, Chain, Increasing

(* Speech is sent in the order it was recorded as long as start never made *)
(* a pair of threads while an older one was alive, for any number of       *)
(* frames, starts and stops.                                               *)
THEOREM SpeechInOrder == Spec => []SentInOrder
  <1>1. OrderInv => SentInOrder
    BY DEF OrderInv, SentInOrder, Increasing
  <1> QED
    BY <1>1, InitIInv, StepIInv, InitOrder, StepOrder, PTL DEF Spec
=============================================================================

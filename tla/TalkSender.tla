----------------------------- MODULE TalkSender -----------------------------
(***************************************************************************)
(* The sending pipeline of one phone: TalkSender.m fed by                  *)
(* AudioStreamRecord.mm.  The recorder's callback cuts the samples into    *)
(* frames and queues them; a frame thread (handleFrameBuffers) takes a     *)
(* frame under an NSConditionLock, encodes it and queues the package; a    *)
(* send thread (handleSending) takes packages one by one and sends them.   *)
(* start on the main thread makes a new pair of threads unless one is      *)
(* known to be running.                                                    *)
(*                                                                         *)
(* The frame and its package are the number of the frame.  The k-th pair   *)
(* of threads is thread k; several can be alive at a time.                 *)
(***************************************************************************)
EXTENDS Naturals, Sequences, FiniteSets

CONSTANTS FrameSize,    \* samples of a 60 ms frame
          MaxLength,    \* samples the recorder hands over at once
          MaxStarts,    \* bound: calls of start
          MaxFrames     \* bound: frames recorded

(* bufferByteSize of the recorder holds 60 ms, the samples of one frame.   *)
ASSUME SizeAssumption == /\ FrameSize \in Nat \ {0}
                         /\ MaxLength \in 1..FrameSize
                         /\ MaxStarts \in Nat /\ MaxFrames \in Nat

VARIABLES talking, running,
          recording,    \* recordState.recording
          pkgBufferEnd, \* samples in pkgBuffer
          frameQueue,   \* frames to encode
          condition,    \* of the NSConditionLock
          dataQueue,    \* packages to send
          fpc,          \* where frame thread k is
          frameBuffer,  \* the frame it holds
          spc,          \* where send thread k is
          data          \* the package it holds

(* History and bounds.                                                     *)
VARIABLES starts,       \* calls of start
          frames,       \* frames recorded
          failed,       \* frames opusEncode gave no package for
          transmitted,  \* packages handed to TalkManager, in order
          early,        \* starts while a frame thread had not begun yet
          overlap       \* a pair was made while an older one was alive

vars == <<talking, running, recording, pkgBufferEnd, frameQueue, condition,
          dataQueue, fpc, frameBuffer, spc, data, starts, frames, failed,
          transmitted, early, overlap>>

mainVars   == <<talking, recording, starts, early, overlap>>
recordVars == <<pkgBufferEnd, frames>>
frameVars  == <<fpc, frameBuffer, running>>
sendVars   == <<spc, data, transmitted>>

PkgBufferSize == 2 * FrameSize
Thread == 1..MaxStarts
NoFrame == 0

LiveFrameThreads == {k \in Thread : fpc[k] \notin {"none", "done"}}
LiveSendThreads  == {k \in Thread : spc[k] \notin {"none", "done"}}

Init ==
  /\ talking = FALSE /\ running = FALSE /\ recording = FALSE
  /\ pkgBufferEnd = 0
  /\ frameQueue = <<>> /\ condition = "NO_DATA" /\ dataQueue = <<>>
  /\ fpc = [k \in Thread |-> "none"] /\ frameBuffer = [k \in Thread |-> NoFrame]
  /\ spc = [k \in Thread |-> "none"] /\ data = [k \in Thread |-> NoFrame]
  /\ starts = 0 /\ frames = 0 /\ failed = {} /\ transmitted = <<>>
  /\ early = 0 /\ overlap = FALSE

-----------------------------------------------------------------------------
(* The main thread.  startRecording may fail, which start does not notice. *)

(* A Faulty operator is a slip this code could have had: no step uses it,  *)
(* and in the place of the definition after it a property must fail.       *)

FaultyPrepare(k) ==
  /\ fpc' = [fpc EXCEPT ![k] = "spawned"]
  /\ spc' = [spc EXCEPT ![k] = "loop"]
  /\ early' = IF \E j \in Thread : fpc[j] = "spawned" THEN early + 1 ELSE early
  /\ overlap' = (overlap \/ LiveFrameThreads \cup LiveSendThreads # {})

prepare(k) ==
  IF running
  THEN UNCHANGED <<fpc, spc, early, overlap>>
  ELSE /\ fpc' = [fpc EXCEPT ![k] = "spawned"]
       /\ spc' = [spc EXCEPT ![k] = "loop"]
       /\ early' = IF \E j \in Thread : fpc[j] = "spawned" THEN early + 1 ELSE early
       /\ overlap' = (overlap \/ LiveFrameThreads \cup LiveSendThreads # {})

start ==
  /\ ~talking /\ starts < MaxStarts
  /\ starts' = starts + 1
  /\ talking' = TRUE
  /\ prepare(starts + 1)
  /\ recording' \in BOOLEAN
  /\ UNCHANGED <<running, recordVars, frameQueue, condition, dataQueue,
                 frameBuffer, data, failed, transmitted>>

stop ==
  /\ talking
  /\ talking' = FALSE /\ recording' = FALSE
  /\ UNCHANGED <<recordVars, frameQueue, condition, dataQueue, frameVars,
                 sendVars, failed, starts, early, overlap>>

-----------------------------------------------------------------------------
(* The recorder's callback: handleAudioBuffer, with copyFrame when a frame *)
(* is complete.                                                            *)

NewEnd(length) == pkgBufferEnd + length
FrameComplete(length) == NewEnd(length) <= PkgBufferSize /\ NewEnd(length) >= FrameSize

FaultyEnd(length) == NewEnd(length)

FaultyRest(length) == NewEnd(length) - FrameSize

EndAfter(length) ==
  IF NewEnd(length) > PkgBufferSize THEN pkgBufferEnd
  ELSE IF NewEnd(length) >= FrameSize THEN NewEnd(length) - FrameSize
  ELSE NewEnd(length)

FaultyCopyFrame ==
  /\ frameQueue' = <<frames + 1>> \o frameQueue
  /\ condition' = "HAS_DATA"
  /\ frames' = frames + 1

copyFrame ==
  /\ frameQueue' = Append(frameQueue, frames + 1)
  /\ condition' = "HAS_DATA"
  /\ frames' = frames + 1

handleAudioBuffer(length) ==
  /\ recording /\ frames < MaxFrames
  /\ pkgBufferEnd' = EndAfter(length)
  /\ IF FrameComplete(length) THEN copyFrame ELSE UNCHANGED <<frameQueue, condition, frames>>
  /\ UNCHANGED <<mainVars, dataQueue, frameVars, sendVars, failed>>

-----------------------------------------------------------------------------
(* handleFrameBuffers.                                                     *)

FrameBegin(k) ==
  /\ fpc[k] = "spawned"
  /\ running' = TRUE
  /\ fpc' = [fpc EXCEPT ![k] = "wait"]
  /\ UNCHANGED <<mainVars, recordVars, frameQueue, condition, dataQueue,
                 frameBuffer, sendVars, failed>>

FaultyUnlock(q) == "NO_DATA"

UnlockCondition(q) == IF q # <<>> THEN "HAS_DATA" ELSE "NO_DATA"

(* The lock is got with CONDITION_HAS_DATA: peek, poll and unlock.         *)
FrameTake(k) ==
  /\ fpc[k] = "wait" /\ condition = "HAS_DATA"
  /\ frameBuffer' = [frameBuffer EXCEPT ![k] = Head(frameQueue)]
  /\ frameQueue' = Tail(frameQueue)
  /\ condition' = UnlockCondition(Tail(frameQueue))
  /\ fpc' = [fpc EXCEPT ![k] = "encode"]
  /\ UNCHANGED <<mainVars, recordVars, dataQueue, running, sendVars, failed>>

(* Nothing came for 0.3 s; what talking says is looked up afterwards.      *)
FrameTimeout(k) ==
  /\ fpc[k] = "wait" /\ condition = "NO_DATA"
  /\ fpc' = [fpc EXCEPT ![k] = "timedout"]
  /\ UNCHANGED <<mainVars, recordVars, frameQueue, condition, dataQueue,
                 running, frameBuffer, sendVars, failed>>

FaultyDecide(k) ==
  /\ fpc[k] = "timedout"
  /\ fpc' = [fpc EXCEPT ![k] = "wait"]
  /\ UNCHANGED <<mainVars, recordVars, frameQueue, condition, dataQueue,
                 running, frameBuffer, sendVars, failed>>

FrameDecide(k) ==
  /\ fpc[k] = "timedout"
  /\ fpc' = [fpc EXCEPT ![k] = IF talking THEN "wait" ELSE "exit"]
  /\ UNCHANGED <<mainVars, recordVars, frameQueue, condition, dataQueue,
                 running, frameBuffer, sendVars, failed>>

FrameEncode(k) ==
  /\ fpc[k] = "encode"
  /\ \/ dataQueue' = Append(dataQueue, frameBuffer[k]) /\ UNCHANGED failed
     \/ failed' = failed \cup {frameBuffer[k]} /\ UNCHANGED dataQueue
  /\ frameBuffer' = [frameBuffer EXCEPT ![k] = NoFrame]
  /\ fpc' = [fpc EXCEPT ![k] = "wait"]
  /\ UNCHANGED <<mainVars, recordVars, frameQueue, condition, running, sendVars>>

FrameExit(k) ==
  /\ fpc[k] = "exit"
  /\ running' = FALSE
  /\ fpc' = [fpc EXCEPT ![k] = "done"]
  /\ UNCHANGED <<mainVars, recordVars, frameQueue, condition, dataQueue,
                 frameBuffer, sendVars, failed>>

-----------------------------------------------------------------------------
(* handleSending.                                                          *)

SendTest(k) ==
  /\ spc[k] = "loop"
  /\ spc' = [spc EXCEPT ![k] = IF talking \/ dataQueue # <<>> THEN "pop" ELSE "done"]
  /\ UNCHANGED <<mainVars, recordVars, frameQueue, condition, dataQueue,
                 frameVars, data, transmitted, failed>>

FaultyPop(k) ==
  /\ spc[k] = "pop"
  /\ spc' = [spc EXCEPT ![k] = IF dataQueue = <<>> THEN "loop" ELSE "send"]
  /\ data' = [data EXCEPT ![k] = IF dataQueue = <<>> THEN @ ELSE Head(dataQueue)]
  /\ UNCHANGED <<mainVars, recordVars, frameQueue, condition, dataQueue,
                 frameVars, transmitted, failed>>

SendPop(k) ==
  /\ spc[k] = "pop"
  /\ IF dataQueue = <<>>
     THEN /\ spc' = [spc EXCEPT ![k] = "loop"]
          /\ UNCHANGED <<data, dataQueue>>
     ELSE /\ spc' = [spc EXCEPT ![k] = "send"]
          /\ data' = [data EXCEPT ![k] = Head(dataQueue)]
          /\ dataQueue' = Tail(dataQueue)
  /\ UNCHANGED <<mainVars, recordVars, frameQueue, condition, frameVars,
                 transmitted, failed>>

SendData(k) ==
  /\ spc[k] = "send"
  /\ transmitted' = Append(transmitted, data[k])
  /\ data' = [data EXCEPT ![k] = NoFrame]
  /\ spc' = [spc EXCEPT ![k] = "loop"]
  /\ UNCHANGED <<mainVars, recordVars, frameQueue, condition, dataQueue,
                 frameVars, failed>>

-----------------------------------------------------------------------------
handleFrameBuffers(k) == \/ FrameBegin(k) \/ FrameTake(k) \/ FrameTimeout(k)
                         \/ FrameDecide(k) \/ FrameEncode(k) \/ FrameExit(k)
handleSending(k) == SendTest(k) \/ SendPop(k) \/ SendData(k)

Next == \/ start \/ stop
        \/ \E length \in 1..MaxLength : handleAudioBuffer(length)
        \/ \E k \in Thread : handleFrameBuffers(k) \/ handleSending(k)

Spec == Init /\ [][Next]_vars

(* Threads run; the user stops talking some day.                           *)
Fairness == /\ WF_vars(stop)
            /\ \A k \in Thread : WF_vars(handleFrameBuffers(k)) /\ WF_vars(handleSending(k))

FairSpec == Spec /\ Fairness

-----------------------------------------------------------------------------
(* Properties.                                                             *)

TypeOK ==
  /\ talking \in BOOLEAN /\ running \in BOOLEAN /\ recording \in BOOLEAN
  /\ pkgBufferEnd \in Nat
  /\ frameQueue \in Seq(Nat) /\ dataQueue \in Seq(Nat) /\ transmitted \in Seq(Nat)
  /\ condition \in {"HAS_DATA", "NO_DATA"}
  /\ fpc \in [Thread -> {"none", "spawned", "wait", "timedout", "encode", "exit", "done"}]
  /\ spc \in [Thread -> {"none", "loop", "pop", "send", "done"}]
  /\ frameBuffer \in [Thread -> Nat] /\ data \in [Thread -> Nat]
  /\ starts \in 0..MaxStarts /\ frames \in Nat /\ failed \in SUBSET Nat
  /\ early \in Nat /\ overlap \in BOOLEAN

(* The condition of the lock says whether frames wait, at every moment     *)
(* another thread can look: a frame thread that gets the lock finds a      *)
(* frame, and one that times out left none behind.                         *)
ConditionTracksQueue == condition = "HAS_DATA" <=> frameQueue # <<>>

(* pkgBuffer always has room for the next callback: the copy that precedes *)
(* the check against pkgBufferSize never overruns, and the check never     *)
(* fires.                                                                  *)
BufferHasRoom == \A length \in 1..MaxLength : NewEnd(length) <= PkgBufferSize

(* Every recorded frame is in exactly one place of the pipeline, whatever  *)
(* the number of threads: none is encoded or sent twice, none vanishes.    *)
Copies(f, q) == Cardinality({i \in DOMAIN q : q[i] = f})

FramesConserved ==
  \A f \in 1..frames :
    Copies(f, frameQueue) + Copies(f, frameBuffer) + Copies(f, dataQueue)
      + Copies(f, data) + Copies(f, transmitted) + Cardinality({f} \cap failed) = 1

(* Speech is sent in the order it was spoken, as long as no pair of        *)
(* threads is made while an older one is alive.                            *)
SentInOrder ==
  ~overlap => \A i, j \in DOMAIN transmitted : i < j => transmitted[i] < transmitted[j]

(* handleFrameBuffers encodes into a static buffer with a global encoder:  *)
(* a second frame thread can be alive only after a start that came before  *)
(* the previous frame thread had set running.                              *)
OneEncoder == Cardinality(LiveFrameThreads) <= 1 + early

(* After the last stop the threads end: nobody waits on the lock forever.  *)
ThreadsWindDown ==
  <>[](~talking) => <>[](LiveFrameThreads \cup LiveSendThreads = {})

(* "even if talk is stopped, but if data comes in, this thread must handle *)
(* the datas": a queued frame is taken by some frame thread.               *)
FramesAreHandled == \A f \in 1..MaxFrames :
  (\E i \in DOMAIN frameQueue : frameQueue[i] = f)
    ~> ~(\E i \in DOMAIN frameQueue : frameQueue[i] = f)

=============================================================================

# A TLA+ model of the MediaWS push-to-talk system

This directory holds TLA+ specifications of the push-to-talk application of the
MediaWS workspace (`MediaWS/Push2TallkApp`), the TLC models that check them and
TLAPS proofs about them.

## 1. The system

Two phones hold a half-duplex voice session. They find each other through an
XMPP server and ICE, then talk over RTP on UDP: control messages decide who may
talk, and voice is recorded, encoded with Opus, sent, decoded and played.

| Component | State | Operations | Talks to |
|---|---|---|---|
| `Push2TalkManager`, `Stunwrapper` (call set-up) | flags of the hand-shake (`q_con_received`, `r_ack_sent`, `ice_success`, ...), `busy`, the stun thread, the session info | messages Q_SDP, R_SDP, Q_CON, R_CON, R_ACK, D_CON from XMPP; ICE callbacks on the stun thread; call and quit from the view | calls `push2TalkConnected` and `push2TalkEnded` of the controller |
| `Push2TalkController` (floor control) | `talkState` (Ready, CanTalk, Listening, Talking), `pressed` | button down and up, `push2TalkConnected`, `endSession`, `handleCMessageType:` | sends WTT/DNT through `TalkManager`, starts and stops `TalkSender` and `TalkRecver` |
| `TalkManager`, `CMessage`, `RCQueue` (control channel) | `cmsgQueue`, `sending`, `receiving`, the sequence number | `sendControlMessage:`, `endSession`, the loops of `cmsgSendingThread` and `receivingThread` | RTP; posts to the controller's main thread; hands voice packets to `TalkRecver` |
| `TalkSender`, `AudioStreamRecord` (sending pipeline) | `talking`, `running`, `pkgBuffer`, `frameQueue` with its condition lock, `dataQueue` | `start`, `stop`, the recorder's callback, `handleFrameBuffers`, `handleSending` | `TalkManager sendData:` |
| `TalkRecver`, `AudioStreamPlayer` (receiving pipeline) | `pkgBuffer`, the audio queue, `playing` | `start`, `stop`, `responsedWithData:` | called by `receivingThread` |
| libnice: connectivity checks | per agent the check list, its timer, candidates, role, selected pair, stored early checks | remote candidates set, the timer's tick, inbound STUN requests and responses | the stun thread of `Stunwrapper`; the network |
| JRTPlib: sources and collisions | per session the table of sources with three counters, the own SSRC, the list of collisions | `ProcessPolledData` (packets, then timeouts), `SendPacket` | under `TalkManager` |
| `RCPromptPlayer` | `playing`, `counter`, pending repetitions | `start`, `stop`, completion callback | call set-up |
| `RCDownloader`, `UpLoadResource`/`JobDAO`/`TaskDAO`, `AMRPlayer`/`FrameQueue`, `ProtobufEncode` | request and job queues, a bounded frame queue, byte buffers | see `PROJECT.json` | other apps of the workspace |

The rest of the workspace is third-party code (the remainder of libnice and JRTPlib,
Opus, Speex, Ogg, FFmpeg, OpenCore-AMR, CocoaHTTPServer), trial programs and views.

What is hard here, and where:

* three threads per phone share `cmsgQueue`, with some accesses under
  `@synchronized` and some not, and peek and poll never in one critical section;
* the network loses, repeats and reorders; messages are retransmitted up to a
  limit and acknowledged; nobody filters duplicates;
* control messages are *posted* to the main thread and may run after the session
  ended;
* `TalkSender` makes a pair of threads per talk and decides with one flag, which
  belongs to one of the two threads, whether it needs to;
* the flags of the hand-shake are set on the main thread and on the stun thread,
  each setter testing the others' flags before it stores its own, and calls
  carry no identifier;
* `TalkRecver` loops on the receiving thread for a play buffer that the main
  thread may have taken away;
* two ICE agents nominate, prune and change roles on their own, over a network that
  loses and reorders, and must agree;
* anybody can send RTP with anybody's SSRC, and the own SSRC has to change on a
  collision but not for ever in a loop;
* stop-and-wait, the floor and the wind-down of threads are promises that
  something happens eventually.

`PROJECT.json` lists these hazards at their lines, with the properties that
would notice them going wrong.

What makes each part correct: a control message is delivered, in order, or
accounted for (channel); exactly one user may talk, somebody may, and whoever asks
gets to (floor); recorded speech is sent once, in order, and threads end
(sending pipeline); `pkgBuffer` is not overrun and the thread comes back
(receiving pipeline); a talk starts once, when it is due, and nobody is left
behind in a call the other one left (call set-up); both agents select the same, best path (ICE); the
peer, and only the peer, ends up heard (RTP).

## 2. Modules

| Module | Models | Composition |
|---|---|---|
| `ControlChannel` | what a pair of TalkManagers promises its controllers | abstract; implemented by `TalkManager`, used by `FloorControl` |
| `TalkManager` | `TalkManager.mm`, `CMessage.m`, `RCQueue.mm` on two phones | `INSTANCE ControlChannel` |
| `MCTalkManager` | its instances for TLC | |
| `TalkManagerProofs` | TLAPS proofs | |
| `FloorControl` | the two `Push2TalkController`s over the channel | `INSTANCE ControlChannel`: delivery and loss are that module's actions |
| `MCFloorControl` | its instances for TLC | |
| `FloorControlProofs` | TLAPS proofs | |
| `TalkSender` | `TalkSender.m` with `AudioStreamRecord.mm` on one phone | |
| `TalkSenderProofs` | TLAPS proofs | |
| `TalkRecver` | `TalkRecver.m` with `AudioStreamPlayer.mm` on one phone | |
| `MCTalkRecver` | its instances for TLC | |
| `TalkRecverProofs` | TLAPS proofs | |
| `CallSetup` | `Push2TalkManager.m` with `Stunwrapper.m` on two phones | ends in the `push2TalkConnected` that `FloorControl` begins with |
| `MCCallSetup` | its instances for TLC | |
| `CallSetupProofs` | TLAPS proofs | |
| `IceChecks` | `conncheck.c` and what it uses of `agent.c`, `candidate.c`, `discovery.c`, `ice.c`, `timer.c`, for two agents | what `CallSetup` sees as ICE succeeding |
| `MCIceChecks` | its instances for TLC: networks, roles, priorities | |
| `IceChecksProofs` | TLAPS proofs | |
| `RtpSession` | `rtpsources.cpp`, `rtpinternalsourcedata.cpp`, `rtpsourcedata.cpp`, `rtpcollisionlist.cpp` and the poll of `rtpsession.cpp` | under the network of `TalkManager` |
| `RtpSessionProofs` | TLAPS proofs | |
| `Counting` | lemmas: occurrences of a value in a queue, cardinalities after one change | used by the proofs that count |

Operators named `Faulty...` are slips the code could plausibly have had. No step uses
them; each is put in the place of the definition that follows it to see that
a property notices.

Code that is commented out. The application calls methods whose bodies are commented out, among them
`updateViews` of the controller (`Push2TalkController.m:336-375`, called at 452), `makeSessionInfoWithMsg:`, a form of
`sendPacketRemoteUser:` and the delegate of the request alert (`Push2TalkManager.m:475-512`). As the sources stand no
call would get through: each would end in an unrecognized selector. They are modelled as the body that
stands in the comment (for `updateViews`, which only sets labels and buttons, nothing), since everything else in
these files is written for it. The one exception is `timeoutFortalkManager:`, which is missing in the model too: it is not a step of every
session but the answer to a failure, and whether it is there decides what the retry limit does.

### TalkManager

A thread is a program counter (`spc` for `cmsgSendingThread`, `rpc` for
`receivingThread`); the main thread's calls are atomic. Steps are cut where the
code leaves a critical section: peek, `retain`, the decision to drop a heart beat,
the poll; peek, compare, poll on the receiving side; acknowledging and
delivering.

* `net` is the set of packets ever sent. Any packet may be received at any time
  and any number of times, which covers loss, delay, reordering and duplication.
* An entity lives as long as it is queued or retained. Both threads retain what
  peek returned only after leaving the lock; an entity that left the queue in
  between is freed memory, whose use works or ends the process (`fate` becomes
  `dangling`).
* Time is abstract. A retry is due at once for a fresh entity and may or may not be
  due for one sent before. A heart beat is scheduled in any iteration, up
  to `MaxBeats`: its condition compares wall-clock times.
* An expired message stops the loop and calls `timeoutFortalkManager:`, which the
  controller does not implement: `fate` becomes `noHandler` unless the delegate
  was cleared.
* Sequence numbers are naturals. The code truncates them to an `int`, which takes
  2^31 messages to matter. The signature and the header code of `CMessage` accept
  exactly what the peer sent: packets are records.
* `lost` records the control messages a poll removed in place of the one it was meant for.

### FloorControl

One action per handler of the controller, all on the main thread. `mainQueue`
holds the posted `handleCMessageType:` calls, which run in order and also after
`endSession`. The button can be pressed and released, and a finger can leave it
(`TouchUpOutside` has no target). The channel is `ControlChannel`'s: a delivery, a repeated one and a loss
are its `Deliver` and `Lose`, together with the posting of the call and the bounds on losses (`lost`) and
repetitions (`dups`), so whatever those actions allow within the bounds can happen to the controllers. `recording` and `playing`
stand for started `TalkSender` and `TalkRecver`.

### TalkSender

The k-th call of `start` may make the k-th pair of threads; old pairs may be alive.
The NSConditionLock is its condition, and what a thread does while it has the lock
is one step. Frames are numbered; a frame and its encoded package have the same
number. The recorder hands over 1 to `MaxLength` samples at a time, at most a frame
(both are 60 ms of samples). `early` counts starts that came before a
frame thread just made had set `running`; `overlap` says that a pair was made while an
older one was alive. Both are history that the properties use and no step reads.

### TalkRecver

`talkManager:responsedWithData:length:` on the receiving thread is cut where the
player's state is read: the test of `playing`, decoding, each
`getEmptyQueueBuffer`, each `putQueueBuffer`, and the copy of the rest with the
return. `start` and `stop` on the main thread are two steps each, the flag and the
audio queue. Of `pkgBuffer` the positions that are read and written are kept, not the samples. The decoder returns
any number of samples up to a frame, none (no decoder), or an error code, which `TalkRecver.m:78-79` adds to the
fill level; `errors` sums up the codes. Creating and starting the audio queue and allocating a buffer may
fail, up to `MaxFailures`; a failed start leaves `playing` false, a failed allocation makes the loop ask again. A buffer the
queue refuses is lost, which changes no state here. The copy of the remaining samples is the code's (`TalkRecver.m:95`): it
reads behind the end and leaves the rest where it is.

### CallSetup

Each phone has its main thread and up to `MaxThreads` stun threads, because a new call
can find the old thread alive. A setter is two steps, test and store. The handlers
of the six messages (with the refusal of a busy phone), the call button, call-off, the three ends of the request alert
(accept, reject, timeout) and the posted `handleTalkStarted` are main thread steps; a stun thread creates its agent, gathers, runs and
takes its callbacks, under `g_stun_mutex` where the code takes it. A callback that finds
the mutex destroyed by `StunClose` stays `blocked`; one that uses a freed agent is `dangling`.
XMPP delivers in order and loses nothing. Of `StunCreate`'s failures, `nice_agent_set_stun` fails only for a missing address or
port 0, and both are constants of the build; `nice_agent_gather_candidates` fails when there is no host candidate, which
differs from a gathering that never ends, a behaviour the model has, only in that the thread ends.

### IceChecks

One action per entry point of an agent (`nice_agent_set_remote_candidates`, the tick of the
check timer, an inbound STUN message), each a composition of operators named after the functions
it calls; each takes and returns the whole agent. The network is a set of
datagrams that can be lost (`MaxLoss`) and overtake each other. `Via` says what a NAT does: which source address a
datagram from a socket to an address has, if it passes at all. The code's own order of
things is kept where it is unusual: a pair is inserted before its priority is set, so
new pairs go to the front of the list; the list limit cuts to the number of
pairs too many; the priority of a pair with a learnt local candidate is cut to 32 bits; early checks are freed
after the first pair. A loop of the code is a recursive function over `0 .. Len(list)` whose value at `n` is the agent
after `n` rounds, and a list rewritten pair by pair is `Listed`: TLC keeps a function it has not evaluated as an
expression and then loses what `EXCEPT` changes in it, which `SubSeq` prevents. `Prompt` says that answers are faster than the
retransmission timer. Equal tie breakers, for which the draft has no rule, are excluded by
assumption.

### RtpSession

The table of sources of one session, as `TalkManager` configures it (own packets
accepted, probation with storing). Every operator named after a function of
`RTPSources` maps the table with its counters to the next; `ReceivePacket` is one turn of the
packet loop of `ProcessPolledData`, `FinishPoll` its end, so a poll is any number of the
first and one of the second. Times are ages in units of the RTCP interval, and `Tick` lets one
go by; the four timeouts are 2, 1, 5 and 10 intervals in the code and small constants in the
instance. A sequence number is abstracted to the stream it continues and whether packets of the stream were lost before
it (`gap`), which starts a probation again. Identifiers without an entry are alike, so
`CreateNewSSRC` and the packets of strangers take one of them.

## 3. Runs

| Run | Bounds | Shows |
|---|---|---|
| `channel` | one sender, 2 messages, 1 heart beat, 2 transmissions each | `DeliveredOrLost`, `InOrderDelivery`, `LostAtMostBeats`; the pair implements `ControlChannel`; `QueueMoves`: the retry limit keeps the queue moving without any help of the network |
| `floor` | presses: 1 and 2; 1 slide, 1 duplicate, 1 loss | one floor, up to duplicates and losses (`FloorNotCopied`, `FloorNotDropped`); devices follow the talk state; `AskerTalks` when nothing was lost, repeated or slid; the channel's steps are `ControlChannel`'s |
| `sender` | 3 starts, 2 frames of 2 samples | lock condition, buffer bound, conservation and order of frames, encoders alive, `ThreadsWindDown` |
| `sender_frames` | 2 starts, 2 frames | **violated**: frames that no thread takes |
| `recver` | frames of 3 samples, play buffers of 8, decoder results from -2 to 3, 7 packets, 3 starts, 1 failing call (27824 states) | `InBuffer`, `ReturnsWhilePlaying` |
| `recver_stop` | frames and play buffers of 3 samples, whole frames, 4 packets | **violated**: a stopped player keeps the receiving thread |
| `call` | one user calls twice, 2 stun threads (2290627 states) | of a single call: started once (`StartedOnce`), when due (`StartIsDue`), no use of a freed agent, nobody left busy but after a timeout of the alert; of both: `NoTalkUnaccepted` |
| `call_start` | one call | **violated**: two setters miss each other and the talk never starts |
| `ice_safety` | agents of one role; a LAN path and one through a symmetric NAT; 2 transmissions, 1 loss, early checks (365405 states) | `SelectedIsBest`, `RolesStay`, `RolesSettle`, and that only checks under way own transactions |
| `ice_agree` | agents of different roles, two working paths, 4 transmissions, 3 losses, no early checks, answers faster than the retransmission timer (`Prompt`) (122364 states) | `Agreement` and `BothReady` |
| `ice_failed` | one path, 2 transmissions, 2 losses | **violated**: FAILED with a working pair |
| `rtp` | 5 identifiers, 2 hosts and ourselves, 2 packets of anybody or gaps in the peer's stream; timeouts of 1, 1, 2, 1 intervals (1009138 states) | `CountsAddUp`, `OwnSettles`, and `PeerIsHeard` for an application that polls |

Why the bounds are enough. *Channel*: the races need a heart beat at the head, a message
behind it and an ACK for the heart beat; a second message shows ordering. One
direction suffices: a phone's queue and its ACKs do not depend on what the
peer queues. Two transmissions distinguish the first, a retransmission and the limit. *Floor*:
with one and two presses WTT and DNT cross in both directions and the floor comes
back; one duplicate, loss and slide each let them combine. *Sender*: three starts
let a thread of the first talk clear `running` under the third; frames of two samples, handed over one
or two at a time, leave samples over. *Receiver*: a play buffer of eight samples
is the largest that fits frames of three (section 5), where the copy of the rest reaches the last sample of `pkgBuffer`; seven packets
fill it with errors in between; three starts let a buffer outlive two queues. *Call*: the second call meets messages, flags and threads of the first. *ICE*: two candidates
each give four pairs, so that freezing, pruning and nomination have something to
choose from, and three losses fewer than four transmissions let a check be lost
as often as it can without failing. *RTP*: two packets suffice to take the peer's SSRC, to end it with a BYE, to
validate a stranger and let it name a contributing source, and to collide with us twice; the fifth
identifier is for the change of SSRC in the middle of that.

Deadlock checking is off where sessions end, users stop or processes die; `rtp` checks it.

Fairness. `TalkManager`: the sending loop runs; a retry is sent when it is due
again and again (strong fairness of `SenderSend`, since the interval passes while
the loop keeps looking); a message in the hands of `receivingThread` is dealt
with. Nothing is assumed of the network. `FloorControl`: connecting, the posted calls
and delivery happen, which the retransmissions justify, and a user who talks stops some
day. `TalkSender`: the threads run and the user stops some day. `TalkRecver`: both
threads run; neither users nor packets are promised. `IceChecks`: the run loop serves
timer, sockets and signalling; the conditions under which each would change something are written out,
which is weak fairness in a form TLC evaluates quickly. `RtpSession`: time goes by, and nothing else: an interval has passed only when the
peer and the loop have sent in it, which is the environment considered. That packets are handed over and polls end is the caller's
part, as the documentation of `Poll` says (`rtpsession.h:245`, "must be called regularly"), and a hypothesis of `PeerIsHeard`
(`Polling`): the library is built without its poll thread and `receivingThread` does not poll (see below).

## 4. What the violated runs say, and what else was seen

1. `sender_frames`: `running` belongs to the frame thread and is cleared after its last
   look at `talking`. A start in that window leaves frames queued. In the same way the
   send thread may end up to 0.3 s earlier and leave packages.
2. `recver_stop`: a packet was let in while the player played; after `stop`, `getEmptyQueueBuffer` returns
   NULL until the next start, and the receiving thread, which also serves control messages, spins.
3. `call_start`: `setIce_success:` on the stun thread and `setR_con_received:` on the main thread each
   test before the other stores. Nothing looks again.
4. `ice_failed`: the controlling agent answers a request with a check of a pair that has
   already succeeded; when that check is lost, the component is FAILED though the pair is selected.

Four more disagreements with what the repository says were seen, and are told here instead of in a run of their own:

* `agent.h:180-181` says of READY "ICE concluded, candidate pair selection is now final". It is not: a later nomination of a
  better pair replaces the selected one. In the instance of `ice_agree`, TLC refutes `[][state = "READY" => sel' = sel]` of an
  agent in nine steps. `Agreement` and `BothReady` are therefore about what is selected in the end.
* `rtpsources.h:285` says of `GetActiveMemberCount` that it "returns the number of members which have been validated and which
  haven't sent a BYE packet yet". A known source that is validated as a contributing source is not counted
  (`rtpsources.cpp:352-354`) until the next poll. With `=` for `<=` in the last line of `CountsAddUp`, TLC refutes it with two
  packets: one that makes an entry, then one of a valid source that names it as contributing.
* `Push2TalkManager.m:538` says of a caller "send q_con, then wait for r_ack and r_con". The call button does not look at
  `busy`: when a callee presses it while the request it got is unanswered, its session becomes a caller's; it then accepts the
  request, and `q_con_received` with `r_ack_sent` starts a caller's talk that has had neither R_CON nor R_ACK. TLC
  finds this in 20 steps with one call for each user (`MaxCalls <- Glare`). The runs let one user call.
* `rtpsession.cpp:1381` says "Only send BYE packet if we've actually sent data using this SSRC". Sending the BYE of the old SSRC
  sets `sentpackets`, so a second collision announces the end of an SSRC that was never used. What a session sends is not
  modelled; this was found by reading.

Seen where the repository says nothing else:

* Control channel: `cmsgSendingThread` gives up a heart beat because a message waits behind it, `receivingThread`
  has just matched the ACK of that heart beat, and both poll; the second poll takes the
  message. `LostAtMostBeats` bounds the damage: one message per heart beat. A timeout calls
  `timeoutFortalkManager:`, which the controller has commented out. A message that was acknowledged but not yet delivered when
  the session ends is lost without the sender's knowing; `DeliveredOrLost` excuses it.
* Receiving pipeline: a decoder error is a negative number that is added to `pkgBufferEnd`; `InBuffer` says how far before
  `pkgBuffer` the decoder can write then. The wrong copy of the rest does no
  harm at the default 24 kHz, where a frame is exactly a play buffer; at another rate what is heard is out of order.
* Call set-up: `StunClose` destroys the mutex it holds, so a callback waiting for it never returns. With two calls
  a refusal of the second Q_SDP can end calls at different times and leave a phone busy. The alert's timeout tells the caller and
  resets nothing: the called phone stays busy, has no controller to call off from, and refuses every call; when its user places a
  call the old thread is taken for the new one and none is started. A rejection resets the states and forgets the
  stun thread, which lives on and may set `ice_success` when there is no session; `handlePush2TalkCallRemote:` does not
  reset it, and the next call of that user then never sends Q_CON.
* ICE: triggered checks after the timer has stopped are never sent again; agents that begin with the same role can select
  different pairs, and so can agents with early checks, or with answers slower than the retransmission timer (TLC refutes
  `Agreement` in the instance of `ice_agree` with either changed); with a symmetric NAT and losses an agent may not become READY.
* RTP: no file of the app calls `Poll` and JRTPlib is built without threads, so what `GetNextPacket` returns
  depends on a caller outside the repository's sources, and all of the library's locks are empty while `endSession`
  destroys the session under the other threads. Packets stored on
  probation over a wrap of the sequence number are delivered out of order.

## 5. Proofs

TLAPS proves 29 theorems for every value of the constants allowed by the named
assumptions. All but one of the safety invariants the runs check are among them (`Agreement` is not), the action
property `RolesStay` and the refinement property. Each proof has one lemma per action, or per group of actions that
change the same variables; TLC checked the inductive invariants on the runs' instances
before they were proved.

**Control channel** (`TalkManagerProofs`).

* `TypeCorrect`, and `AtLeastOnce` (`DeliveredOrLost`). The property is not inductive. `IInv` adds who a
  number belongs to: every entity, packet and message in a thread's hands carries the
  number of a message that was scheduled (`Own`: a number in `scheduled` is not a heart
  beat's), an ACK in the net or in the receiving thread's hands is for a message the
  peer `Got`, and the sending thread polls only for heart beats. So a poll removes a heart
  beat, an acknowledged message or one counted in `lost`. `Grows` collects what no step takes
  back, which makes `Own` and `Got` stable; `Gone` says that a session once over is not opened again.
* `InOrder` (`InOrderDelivery`). The network reorders, so order must come from the queue: `OInv`
  says that the queue is in order, that whatever was ever transmitted is no younger than what
  waits (`SentFirstAt`) nor than the entity in the sending thread's hands (`EntityTopAt`). When a
  message is delivered, the earlier ones have therefore left the queue, and `IInv` says where they are.
* `OffersChannel` (`ImplementsChannel`): every step of the two TalkManagers is a `Schedule`, `Deliver` or `Lose` of
  `ControlChannel` or a stutter. It needs `IInv` and `OInv`, since the channel promises order.
* `BeatsBoundLoss` (`LostAtMostBeats`). The bound holds only if losses that are *about* to happen are counted: a heart
  beat in the queue can be polled by both threads, and the later poll takes something else. `BInv` bounds
  lost messages, queued heart beats, and polls whose target has already left (`LateDrop`, `LatePoll`), together,
  by the heart beats scheduled.

**Floor** (`FloorControlProofs`).

* `TypeCorrect` and `DevicesCorrect` (`DevicesFollowState`), strengthened by `NewIsReady`: before
  `push2TalkConnected` a controller is Ready with no device started. After that every handler moves talk state
  and devices together (`MovesKeep`).
* `FloorOnce` (`FloorNotCopied`) and `FloorStays` (`FloorNotDropped`). `FloorNotCopied` alone is not inductive: a message
  counted as lost is in none of its terms, but TalkManager may still deliver it. `AtMost` counts every DNT that was
  not delivered, lost or not, `AtLeast` counts the lost ones as accounted for, and both need that numbers are places of
  `sent` and that a phone not yet connected has nothing posted (`Sane`). Each handler is summed up in three numbers
  (`Moved`): right to talk held, DNT taken, DNT sent.

The channel the controllers run over is `ControlChannel` by construction; with `OffersChannel` these results are about
controllers over the TalkManagers.

**Sending pipeline** (`TalkSenderProofs`).

* `TypeCorrect`, `LockCorrect` (`ConditionTracksQueue`), `NoOverrun` (`BufferHasRoom`), from the three together with
  `pkgBufferEnd < FrameSize`: without the condition the frame thread could take from an empty
  queue, without the bound a callback could overrun.
* `NoFrameLost` (`FramesConserved`): `Conserved` says also of the frames *not yet* recorded that they are nowhere, which
  makes the next number new; `Idle` that a thread holds a frame only between take and hand-over.
* `EncoderShared` (`OneEncoder`): `EncodersBounded` adds that while `running` is false and no frame thread is about to set
  it, no more are alive than the early starts account for, since the next start then makes one more without being early.
* `SpeechInOrder` (`SentInOrder`): `OrderInv` gives every frame a stage of the pipeline; while no pairs overlapped there is
  one thread of each kind (`Lone`), each stage holds older frames than the one before (`Chain`), and each
  queue is increasing.

**Receiving pipeline** (`TalkRecverProofs`).

* `TypeCorrect` and `AccessesInBuffer` (`InBuffer`), whatever the decoder returns and whichever calls fail; the second for every
  frame and play buffer size with which the rest fits (`SizesFit`: at most two frames and two samples to a play buffer, true of
  every sample rate above 8.5 kHz). `Filled` bounds `pkgBufferEnd` at each point of the receiving thread: less than a play
  buffer between packets, a frame more in the loop, and never less than what the error codes took.

**Call set-up** (`CallSetupProofs`).

* `TypeCorrect` (`TInv`: a setter that is entered has a flag to set).
* `TalkIsAccepted` (`NoTalkUnaccepted`), for any number of calls by both users. `UInv`: before anybody accepts there is no
  R_ACK in an inbox, no flag that stands for one, stored or about to be, and no start posted.
* `StartsOneTalk` (`StartedOnce`), `StartsWhenDue` (`StartIsDue`), `AgentOutlivesCallbacks` (`NoDangling`) and `NobodyStranded`
  (`NobodyLeftBusy`) are about behaviours with a single call and share `SInv`. `Local` describes one phone: one stun thread and what it
  holds at each point (`OneThread`), the flags of its role, each set at most once (`InRole`), and that a talk that
  started has both flags stored or being stored, so that no setter tests again (`StartsOnce`). `RoleMail` and `Tokens` say
  that each message is on its way, being handled or recorded, never two of these. Of the pair, `FromPeer`
  says what a message tells about its sender, `Progress` where in the call the two can be, and `Leaving` that a phone
  left alone has a D_CON coming, or is one whose alert timed out (`Missed`): the part that makes `NobodyLeftBusy` hold in every
  crossing of Q_SDP, D_CON, call-off, rejection and timeout.

**RTP sources** (`RtpSessionProofs`).

* `TypesHold` (`TypeOK`) and `CountsRight` (`CountsAddUp`), from `RInv`. Every operator on the table is shown to replace one entry
  and to move the counters by what that entry gains or loses, `activecount` by no more than that (`Replaces`, `Replace`); the poll recounts. That the own
  entry stays active and keeps no address (`OwnStands`) rests on collisions: a packet with our SSRC collides unless it comes from
  ourselves. That there is an unused identifier to move to needs the number of strangers in the table (`Others`), at
  most one per packet of a stranger, and `SsrcAssumption`: more identifiers than those, which 2^32 stand for.

**Connectivity checks** (`IceChecksProofs`). `TypeCorrect` (`TypeOK`), `BestIsSelected` (`SelectedIsBest`) and `RolesAreKept`
(`RolesStay`), for any candidates, priorities, NATs, losses and limits, from `Invariance` of one inductive invariant. Assumed
(`AgentsAssumption`, `CandidatesAssumption`, `NetworkAssumption`, `LimitsAssumption`): peers come in pairs with different tie
breakers; gathered candidates have positive priorities that fit the 32 bits they are cut to; the source of a datagram is an address
of the socket that sent it; a check is sent at least once.

* *Loops.* What a loop of the code computes cannot be had by induction, whose rule takes an operator. Two lemmas take its place.
  `Recursion` shows that the recursive function exists, and `Reaches` that what every round preserves holds at the end, each from
  the smallest number for which it fails (`Least`, from the well-foundedness of `<`). Every loop has a lemma of this form
  (`AddForCandidateLoop`, `NominateLoop`, `PreprocessLoop`, `AddAllLoop`, `LearnLoop`), which leaves one round to prove.
* *Invariant.* Every function of `conncheck.c` takes an agent in `Good` to an agent in `Good` (one lemma each); `IInv` says that
  both agents are, and of the datagrams that they fit (`NetOK`). `SelectedIsBest` is not inductive, since a change of role
  recomputes the priorities of the pairs and not that of the selected one: a nominated valid pair could then overtake it. It cannot,
  because only the agent with the lower tie breaker changes its role, once, and *before* that none of its pairs is valid
  (`PairOK`): its requests are answered with a conflict error, never with a success. The same fact gives `RolesStay`. To keep it,
  the invariant has to follow transactions: a request made in the role both began with, and the error it earns, share no
  identifier with a check made after the change (`Apart`, `OutOK`, `NetOK`), which rests on `FreshIsFresh`.

Only model-checked, and why:

* the liveness properties (`QueueMoves`, `AskerTalks`, `ThreadsWindDown`, `ReturnsWhilePlaying`, `RolesSettle`, `BothReady`,
  `PeerIsHeard`, `OwnSettles`): fairness and ENABLED are out of the prover's reach;
* `Agreement` of `IceChecks`: it is not true of every network and number of losses (with as many losses as transmissions
  every answer to one agent's check of the better pair can be lost, and TLC finds the agents settled on different pairs), so there is nothing to prove for all constants.

## 6. Not modelled, and the plan

Not modelled: views, logging, the trial apps and the utilities the talk path does not use
(`RCDownloader`, uploads, `AMRPlayer`, `ProtobufEncode`); `RCPromptPlayer`, whose overlapping
repetitions are noted as a hazard; the audio queues' own buffers; object lifetimes except the entities of `cmsgQueue`, the
agent and the audio queue; acoustic content. Of libnice: gathering, TURN, keepalives, sockets. Of JRTPlib: the RTCP
scheduler and builders, the queue of received packets and their extended sequence numbers, creation and
destruction of sessions, the transmitters. Codecs, containers and the HTTP server are
third-party code that the talk path calls as functions or not at all; they make up almost all C and C++ lines of the
workspace, while the application itself is Objective-C.

Next, in order:

1. The queue of received packets of JRTPlib with its 16-bit sequence numbers.
2. `RCPromptPlayer`.

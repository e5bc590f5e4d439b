----------------------------- MODULE CallSetup -----------------------------
(* Setting up a call: the Push2TalkManager of two phones (Push2TalkManager.m) *)
(* with the stun thread each of them runs (Stunwrapper.m).  The caller sends  *)
(* Q_SDP with its candidates, the callee answers with R_SDP, and both run     *)
(* ICE.  A phone whose ICE succeeded sends Q_CON (caller) or R_CON (callee);  *)
(* the callee's user accepts with R_ACK.  The talk is to start on a phone     *)
(* once its ICE succeeded and the two messages (or acts) it needs are there.  *)
(*                                                                            *)
(* Messages are handled on the main thread, ICE succeeds on the stun thread.  *)
(* The setters of the state flags test the other flags before they store      *)
(* their own, without a lock, so testing and storing are separate steps.      *)
(*                                                                            *)
(* External, and modelled from their use: XMPP (messages arrive in order),    *)
(* the alert that asks the callee's user, libnice (see IceChecks), the run    *)
(* loops.  The alert's delegate is commented out (Push2TalkManager.m:475-512) *)
(* and modelled as it stands there.                                           *)
EXTENDS Naturals, Sequences, FiniteSets

CONSTANTS
  Node,         \* the two phones
  Peer,         \* the other phone
  MaxCalls,     \* how often each user may call
  MaxThreads    \* bound on the stun threads of a phone

ASSUME PeerAssumption == Peer \in [Node -> Node] /\ \A n \in Node : Peer[n] # n /\ Peer[Peer[n]] = n
ASSUME CallAssumption == MaxCalls \in [Node -> Nat] /\ MaxThreads \in Nat

VARIABLES
  busy, session, flag, ice,   \* Push2TalkManager: busy, sessionInfo, the BOOLs
  mpc, setter,                \* the main thread: where it is in which setter
  controller, talks,          \* push2TalkController; push2TalkConnected calls it got
  alert,                      \* the request alert is shown
  thread, stream,             \* the ivars thread and stream_id
  agent, lock,                \* g_agent (by its thread) and who holds g_stun_mutex
  remote,                     \* the agent that has remote candidates
  spc, spawned,               \* the stun threads, and how many were started
  posted,                     \* performSelectorOnMainThread: calls not yet run
  inbox,                      \* XMPP messages on their way to a phone
  calls, accepted             \* history: calls placed, users who accepted a request

manager == <<busy, session, flag, ice>>
ui == <<controller, talks, alert>>
stun == <<thread, stream, agent, lock, remote, spc, spawned>>
history == <<calls, accepted>>
main == <<mpc, setter>>
vars == <<manager, main, ui, stun, posted, inbox, history>>

Thread == 1..MaxThreads
Session == {"none", "Caller", "Recver"}
Request == {"Q_SDP", "R_SDP", "Q_CON", "R_CON", "R_ACK", "D_CON"}
Flag == {"r_con_received", "r_ack_received", "q_con_received", "r_ack_sent"}
Callback == {"testCaller", "testRecver", "store"}

Init ==
  /\ busy = [n \in Node |-> FALSE]
  /\ session = [n \in Node |-> "none"]
  /\ flag = [n \in Node |-> {}]
  /\ ice = [n \in Node |-> FALSE]
  /\ mpc = [n \in Node |-> "idle"]
  /\ setter = [n \in Node |-> "none"]
  /\ controller = [n \in Node |-> FALSE]
  /\ talks = [n \in Node |-> 0]
  /\ alert = [n \in Node |-> FALSE]
  /\ thread = [n \in Node |-> 0]
  /\ stream = [n \in Node |-> 0]
  /\ agent = [n \in Node |-> 0]
  /\ lock = [n \in Node |-> "free"]
  /\ remote = [n \in Node |-> 0]
  /\ spc = [n \in Node |-> [k \in Thread |-> "none"]]
  /\ spawned = [n \in Node |-> 0]
  /\ posted = [n \in Node |-> 0]
  /\ inbox = [n \in Node |-> <<>>]
  /\ calls = [n \in Node |-> 0]
  /\ accepted = {}

-----------------------------------------------------------------------------
(* Helpers of both threads.                                                *)

Set(f, n, v) == f' = [f EXCEPT ![n] = v]

(* sendPacketRemoteUser:request:...  The user is the one of sessionInfo: a *)
(* message sent without a session goes nowhere.                            *)
FaultySendPacket(n, s, request) ==
  inbox' = IF s = "none" \/ request = "D_CON" THEN inbox
           ELSE [inbox EXCEPT ![Peer[n]] = Append(@, request)]

sendPacketRemoteUser(n, s, request) ==
  inbox' = IF s = "none" THEN inbox
           ELSE [inbox EXCEPT ![Peer[n]] = Append(@, request)]

(* resetStates, without what the callers set again.                        *)
resetStates(n) ==
  /\ Set(busy, n, FALSE)
  /\ Set(session, n, "none")
  /\ Set(flag, n, {})
  /\ Set(ice, n, FALSE)

(* startStunThread: one thread at a time, as far as the ivar tells.        *)
startStunThread(n) ==
  IF thread[n] = 0
  THEN /\ spawned[n] < MaxThreads
       /\ Set(spawned, n, spawned[n] + 1)
       /\ Set(thread, n, spawned[n] + 1)
       /\ spc' = [spc EXCEPT ![n][spawned[n] + 1] = "start"]
  ELSE UNCHANGED <<spawned, thread, spc>>

(* stopStunThread with StunClose.  Nothing is closed while the stream is   *)
(* not known, but the thread is forgotten all the same.  StunClose takes   *)
(* g_stun_mutex, frees the agent, stops the run loop and destroys the      *)
(* mutex, which it still holds: a callback that waits for it waits on.     *)
FaultyLockFree(n) == TRUE

LockFree(n) == lock[n] \in {"free", "main"}

(* The threads K when their agent is freed: in its run loop, a thread has  *)
(* nothing left to run and ends, or its callback waits for the lock (pc);  *)
(* inside a callback it goes on with the freed agent.                      *)
AgentGone(n, K, pc) ==
  [k \in Thread |-> CASE k \in K /\ spc[n][k] \in {"gather", "run"} -> pc
                      [] k \in K /\ spc[n][k] \in Callback -> "dangling"
                      [] OTHER -> spc[n][k]]

Closes(n) == stream[n] # 0 /\ thread[n] # 0

stopStunThread(n) ==
  /\ Set(thread, n, 0)
  /\ Set(stream, n, 0)
  /\ IF Closes(n)
     THEN /\ LockFree(n)
          /\ Set(lock, n, "main")
          /\ Set(agent, n, 0)
          /\ Set(remote, n, 0)
          /\ \E pc \in {"done", "blocked"} :
               spc' = [spc EXCEPT ![n] = AgentGone(n, {thread[n], agent[n]}, pc)]
     ELSE UNCHANGED <<lock, agent, remote, spc>>
  /\ UNCHANGED spawned

(* closePush2Talk.                                                         *)
closePush2Talk(n) ==
  /\ Set(controller, n, FALSE)
  /\ Set(talks, n, 0)

-----------------------------------------------------------------------------
(* The main thread: notifications, messages, posted calls, the setters.    *)

(* handlePush2TalkCallRemote:, from the controller a user opened.  To open *)
(* one takes the user several turns of the run loop, which run what was    *)
(* posted.                                                                 *)
handlePush2TalkCallRemote(n) ==
  /\ mpc[n] = "idle" /\ ~controller[n] /\ posted[n] = 0 /\ calls[n] < MaxCalls[n]
  /\ Set(busy, n, TRUE)
  /\ Set(session, n, "Caller")
  /\ Set(controller, n, TRUE)
  /\ startStunThread(n)
  /\ Set(calls, n, calls[n] + 1)
  /\ UNCHANGED <<flag, ice, main, talks, alert, stream, agent, lock, remote, posted, inbox,
                 accepted>>

(* handlePush2TalkQuit:, from the call-off button.                         *)
handlePush2TalkQuit(n) ==
  /\ mpc[n] = "idle" /\ controller[n]
  /\ sendPacketRemoteUser(n, session[n], "D_CON")
  /\ stopStunThread(n)
  /\ IF session[n] # "none" THEN closePush2Talk(n) ELSE UNCHANGED <<controller, talks>>
  /\ resetStates(n)
  /\ UNCHANGED <<main, alert, posted, calls, accepted>>

Enter(n, f) == Set(mpc, n, "test") /\ Set(setter, n, f)

(* The alert's delegate.  The user accepts the request: R_ACK, then        *)
(* setR_ack_sent:.                                                         *)
Accept(n) ==
  /\ mpc[n] = "idle" /\ alert[n]
  /\ Set(alert, n, FALSE)
  /\ sendPacketRemoteUser(n, session[n], "R_ACK")
  /\ accepted' = accepted \cup {n}
  /\ Enter(n, "r_ack_sent")
  /\ UNCHANGED <<manager, controller, talks, stun, posted, calls>>

(* The user rejects it.  resetStates forgets the stun thread, which nobody *)
(* stops: its agent lives on without a session.                            *)
Reject(n) ==
  /\ mpc[n] = "idle" /\ alert[n]
  /\ Set(alert, n, FALSE)
  /\ sendPacketRemoteUser(n, session[n], "D_CON")
  /\ resetStates(n)
  /\ Set(thread, n, 0)
  /\ UNCHANGED <<main, controller, talks, stream, agent, lock, remote, spc, spawned, posted, history>>

(* Nobody answers it: D_CON to the user the alert was shown for, and       *)
(* nothing is reset.                                                       *)
AlertTimeout(n) ==
  /\ mpc[n] = "idle" /\ alert[n]
  /\ Set(alert, n, FALSE)
  /\ sendPacketRemoteUser(n, "Recver", "D_CON")
  /\ UNCHANGED <<manager, main, controller, talks, stun, posted, history>>

(* The head of the inbox, handled by handlePush2TalkRemoteMsg:.            *)
Handles(n, request) ==
  /\ mpc[n] = "idle" /\ inbox[n] # <<>> /\ Head(inbox[n]) = request

Consume(n) == inbox' = [inbox EXCEPT ![n] = Tail(@)]

(* Q_SDP while busy is refused, also from the user one is calling.         *)
Refuses(n) == busy[n]

HandleQ_SDP(n) ==
  /\ Handles(n, "Q_SDP")
  /\ IF Refuses(n)
     THEN /\ inbox' = [inbox EXCEPT ![n] = Tail(@), ![Peer[n]] = Append(@, "D_CON")]
          /\ UNCHANGED <<manager, ui, stun>>
     ELSE /\ Consume(n)
          /\ Set(busy, n, TRUE)
          /\ Set(session, n, "Recver")
          /\ Set(flag, n, {})
          /\ Set(ice, n, FALSE)
          /\ Set(alert, n, TRUE)
          /\ spawned[n] < MaxThreads       \* resetStates forgot any thread
          /\ Set(spawned, n, spawned[n] + 1)
          /\ Set(thread, n, spawned[n] + 1)
          /\ spc' = [spc EXCEPT ![n][spawned[n] + 1] = "start"]
          /\ UNCHANGED <<controller, talks, stream, agent, lock, remote>>
  /\ UNCHANGED <<main, posted, history>>

(* GetSDPDec on the main thread.  Candidates are refused while the agent   *)
(* still gathers its own.                                                  *)
TakesCandidates(n) ==
  /\ agent[n] # 0 /\ stream[n] # 0
  /\ spc[n][agent[n]] \notin {"none", "start", "created", "gather"}

HandleR_SDP(n) ==
  /\ Handles(n, "R_SDP") /\ session[n] # "none"
  /\ agent[n] # 0 => LockFree(n)
  /\ Consume(n)
  /\ Set(remote, n, IF TakesCandidates(n) THEN agent[n] ELSE remote[n])
  /\ UNCHANGED <<manager, main, ui, thread, stream, agent, lock, spc, spawned, posted, history>>

HandleD_CON(n) ==
  /\ Handles(n, "D_CON") /\ session[n] # "none"
  /\ Consume(n)
  /\ stopStunThread(n)
  /\ closePush2Talk(n)
  /\ Set(alert, n, FALSE)
  /\ resetStates(n)
  /\ UNCHANGED <<main, posted, history>>

FaultyFlagOf(request) == request

FlagOf(request) == CASE request = "Q_CON" -> "q_con_received"
                     [] request = "R_CON" -> "r_con_received"
                     [] request = "R_ACK" -> "r_ack_received"

(* Q_CON, R_CON and R_ACK enter the setter of their flag.                  *)
HandleFlag(n) ==
  /\ \E request \in {"Q_CON", "R_CON", "R_ACK"} :
       /\ Handles(n, request) /\ session[n] # "none"
       /\ Enter(n, FlagOf(request))
  /\ Consume(n)
  /\ UNCHANGED <<manager, ui, stun, posted, history>>

HandleOther(n) ==
  /\ mpc[n] = "idle" /\ inbox[n] # <<>> /\ Head(inbox[n]) # "Q_SDP" /\ session[n] = "none"
  /\ Consume(n)
  /\ UNCHANGED <<manager, main, ui, stun, posted, history>>

(* What the setter of a flag finds already there: the talk starts.  Only a *)
(* flag that was NO is tested.                                             *)
Partner(f) == CASE f = "r_con_received" -> "r_ack_received"
                [] f = "r_ack_received" -> "r_con_received"
                [] f = "q_con_received" -> "r_ack_sent"
                [] f = "r_ack_sent" -> "q_con_received"

FaultyFinds(n, f) == f \notin flag[n] /\ ice[n]

Finds(n, f) == f \notin flag[n] /\ ice[n] /\ Partner(f) \in flag[n]

(* setR_ack_sent: opens the controller, unless there is one, before it     *)
(* looks.                                                                  *)
Opens(n) == setter[n] = "r_ack_sent" /\ setter[n] \notin flag[n]

SetterTest(n) ==
  /\ mpc[n] = "test"
  /\ Set(controller, n, controller[n] \/ Opens(n))
  /\ IF Finds(n, setter[n])
     THEN /\ stopStunThread(n)
          /\ Set(talks, n, IF controller[n] \/ Opens(n) THEN talks[n] + 1 ELSE 0)
     ELSE UNCHANGED <<stun, talks>>
  /\ Set(mpc, n, "store")
  /\ UNCHANGED <<manager, setter, alert, posted, inbox, history>>

SetterStore(n) ==
  /\ mpc[n] = "store"
  /\ Set(flag, n, flag[n] \cup {setter[n]})
  /\ Set(mpc, n, "idle")
  /\ Set(setter, n, "none")
  /\ UNCHANGED <<busy, session, ice, ui, stun, posted, inbox, history>>

(* A posted handleTalkStarted or handleListenConnected runs, whatever      *)
(* became of the call meanwhile.                                           *)
RunPosted(n) ==
  /\ mpc[n] = "idle" /\ posted[n] > 0
  /\ Set(posted, n, posted[n] - 1)
  /\ stopStunThread(n)
  /\ Set(talks, n, IF controller[n] THEN talks[n] + 1 ELSE 0)
  /\ UNCHANGED <<manager, main, controller, alert, inbox, history>>

-----------------------------------------------------------------------------
(* A stun thread: startStun:, then the callbacks of its run loop, each     *)
(* under g_stun_mutex.                                                     *)

(* StunCreate initialises the mutex anew and frees an agent that is still  *)
(* there.  Its failures are left out: nice_agent_set_stun refuses only a   *)
(* missing address or port 0, which kStunAddress and kStunPort are not;    *)
(* gathering that fails is like one whose callback never comes.            *)
StunCreate(n, k) ==
  /\ spc[n][k] = "start"
  /\ Set(lock, n, "free")
  /\ Set(agent, n, k)
  /\ spc' = [spc EXCEPT ![n] = [AgentGone(n, {agent[n]}, "done") EXCEPT ![k] = "created"]]
  /\ UNCHANGED <<manager, main, ui, thread, stream, remote, spawned, posted, inbox, history>>

(* The id StunCreate returned is stored, and the run loop starts; without  *)
(* an agent it has no sources and returns.                                 *)
StartStun(n, k) ==
  /\ spc[n][k] = "created"
  /\ Set(stream, n, 1)
  /\ spc' = [spc EXCEPT ![n][k] = IF agent[n] = k THEN "gather" ELSE "done"]
  /\ UNCHANGED <<manager, main, ui, thread, agent, lock, remote, spawned, posted, inbox, history>>

(* cb_candidate_gathering_done and handleStunAddr:Stream:.  A nil          *)
(* sessionInfo has userType 0, which is kPush2TalkCaller.                  *)
handleStunAddr(n, k) ==
  /\ spc[n][k] = "gather" /\ agent[n] = k /\ lock[n] = "free"
  /\ sendPacketRemoteUser(n, session[n], IF session[n] = "Recver" THEN "R_SDP" ELSE "Q_SDP")
  /\ Set(remote, n, IF session[n] = "Recver" THEN k ELSE remote[n])
  /\ spc' = [spc EXCEPT ![n][k] = "run"]
  /\ UNCHANGED <<manager, main, ui, thread, stream, agent, lock, spawned, posted, history>>

(* cb_new_selected_pair, handleSelectPair: and setIce_success:, first part *)
(* (the flag was NO): tell the peer ...                                    *)
IceSignal(n, k) ==
  /\ spc[n][k] = "run" /\ agent[n] = k /\ remote[n] = k /\ lock[n] = "free"
  /\ ~ice[n]
  /\ Set(lock, n, "stun")
  /\ sendPacketRemoteUser(n, session[n], IF session[n] = "Recver" THEN "R_CON" ELSE "Q_CON")
  /\ spc' = [spc EXCEPT ![n][k] = IF session[n] = "Recver" THEN "testRecver" ELSE "testCaller"]
  /\ UNCHANGED <<manager, main, ui, thread, stream, agent, remote, spawned, posted, history>>

(* ... look whether the rest is there ...                                  *)
FaultyNeeded(pc) == IF pc = "testRecver" THEN {"q_con_received", "r_ack_sent"}
                                         ELSE {"r_ack_received"}

Needed(pc) == IF pc = "testRecver" THEN {"q_con_received", "r_ack_sent"}
                                   ELSE {"r_con_received", "r_ack_received"}

IceTest(n, k) ==
  /\ spc[n][k] \in {"testCaller", "testRecver"}
  /\ Set(posted, n, IF Needed(spc[n][k]) \subseteq flag[n] THEN posted[n] + 1 ELSE posted[n])
  /\ spc' = [spc EXCEPT ![n][k] = "store"]
  /\ UNCHANGED <<manager, main, ui, thread, stream, agent, lock, remote, spawned, inbox, history>>

(* ... and store it.                                                       *)
IceStore(n, k) ==
  /\ spc[n][k] = "store"
  /\ Set(ice, n, TRUE)
  /\ Set(lock, n, "free")
  /\ spc' = [spc EXCEPT ![n][k] = "run"]
  /\ UNCHANGED <<busy, session, flag, main, ui, thread, stream, agent, remote, spawned, posted,
                 inbox, history>>

(* A callback that waited gets the lock after all, which only the next     *)
(* call's StunCreate makes free: its agent is gone, and the check for that *)
(* (g_current_main_current_source_is_destroyed) is FALSE on Darwin.        *)
LateCallback(n, k) ==
  /\ spc[n][k] = "blocked" /\ lock[n] = "free"
  /\ spc' = [spc EXCEPT ![n][k] = "dangling"]
  /\ UNCHANGED <<manager, main, ui, thread, stream, agent, lock, remote, spawned, posted, inbox,
                 history>>

-----------------------------------------------------------------------------
User(n) == \/ handlePush2TalkCallRemote(n) \/ handlePush2TalkQuit(n)
           \/ Accept(n) \/ Reject(n) \/ AlertTimeout(n)

MainThread(n) ==
  \/ HandleQ_SDP(n) \/ HandleR_SDP(n) \/ HandleD_CON(n) \/ HandleFlag(n) \/ HandleOther(n)
  \/ SetterTest(n) \/ SetterStore(n) \/ RunPosted(n)

StunThread(n, k) ==
  \/ StunCreate(n, k) \/ StartStun(n, k) \/ handleStunAddr(n, k)
  \/ IceTest(n, k) \/ IceStore(n, k) \/ LateCallback(n, k)

Next == \E n \in Node : \/ User(n) \/ MainThread(n)
                        \/ \E k \in Thread : StunThread(n, k) \/ IceSignal(n, k)

Spec == Init /\ [][Next]_vars

-----------------------------------------------------------------------------
(* Properties.                                                             *)

(* Type invariant of the two phones' managers, threads and messages.       *)
TypeOK ==
  /\ busy \in [Node -> BOOLEAN] /\ ice \in [Node -> BOOLEAN]
  /\ session \in [Node -> Session] /\ flag \in [Node -> SUBSET Flag]
  /\ mpc \in [Node -> {"idle", "test", "store"}] /\ setter \in [Node -> Flag \cup {"none"}]
  /\ controller \in [Node -> BOOLEAN] /\ alert \in [Node -> BOOLEAN] /\ talks \in [Node -> Nat]
  /\ thread \in [Node -> Nat] /\ stream \in [Node -> {0, 1}] /\ spawned \in [Node -> Nat]
  /\ agent \in [Node -> Nat] /\ remote \in [Node -> Nat]
  /\ lock \in [Node -> {"free", "main", "stun"}]
  /\ spc \in [Node -> [Thread -> {"none", "start", "created", "gather", "run", "blocked",
                                 "done", "dangling"} \cup Callback]]
  /\ posted \in [Node -> Nat] /\ inbox \in [Node -> Seq(Request)]
  /\ calls \in [Node -> Nat] /\ accepted \in SUBSET Node

(* The properties of a single call: messages carry no call identifier, and *)
(* those of one call are taken for the next one's.                         *)
SingleCall == \A n \in Node : calls[n] + calls[Peer[n]] <= 1

(* The talk starts at most once for a controller (a second                 *)
(* push2TalkConnected would make a second sender, receiver and session),   *)
(* although the setters on two threads each may be the one to start it.    *)
StartedOnce == SingleCall => \A n \in Node : talks[n] <= 1

(* On the caller's phone the talk starts only after the callee's user      *)
(* accepted, and on both only after their own ICE succeeded (or is being   *)
(* recorded).                                                              *)
StartIsDue ==
  SingleCall => \A n \in Node : talks[n] > 0 =>
    /\ ice[n] \/ \E k \in Thread : spc[n][k] = "store"
    /\ session[n] = "Caller" => Peer[n] \in accepted
    /\ session[n] = "Recver" => n \in accepted

(* In whatever order two calls overlap, no phone begins to talk unless a   *)
(* user accepted a request.                                                *)
NoTalkUnaccepted == accepted = {} => \A n \in Node : talks[n] = 0

(* StunClose takes the mutex before it frees the agent: no callback works  *)
(* with an agent that is gone.                                             *)
NoDangling == SingleCall => \A n \in Node, k \in Thread : spc[n][k] # "dangling"

(* A phone that left its call (by the call-off button, D_CON, refusal or   *)
(* rejection) does not leave the other one in it: when no message and no   *)
(* thread is under way that could still change it, a phone is busy only if *)
(* its peer has a session, or if it was called and its alert timed out:    *)
(* timeoutShowingLoochaAlertView: resets nothing.                          *)
Settled(n) == /\ mpc[n] = "idle" /\ inbox[n] = <<>> /\ posted[n] = 0
              /\ \A k \in Thread : spc[n][k] \in {"none", "run", "blocked", "done"}

TimedOut(n) == session[n] = "Recver" /\ ~alert[n] /\ "r_ack_sent" \notin flag[n]

NobodyLeftBusy ==
  SingleCall /\ (\A n \in Node : Settled(n))
    => \A n \in Node : busy[n] => session[Peer[n]] # "none" \/ TimedOut(n)

Quiet(n) == /\ mpc[n] = "idle" /\ posted[n] = 0
            /\ \A k \in Thread : spc[n][k] \notin Callback

(* "send q_con, then wait for r_ack and r_con" (setIce_success:): when the *)
(* three are there, and nobody is about to act on them, the talk started.  *)
StartsWhenAllArrived ==
  \A n \in Node :
    Quiet(n) /\ session[n] = "Caller" /\ ice[n] /\ {"r_con_received", "r_ack_received"} \subseteq flag[n]
      => talks[n] > 0

=============================================================================

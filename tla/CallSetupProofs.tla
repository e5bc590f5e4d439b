-------------------------- MODULE CallSetupProofs --------------------------
(* TLAPS proofs about CallSetup, for any phones, calls and stun threads: its  *)
(* type invariant (TInv); that nobody talks unaccepted (UInv); and, for a     *)
(* single call, that the talk starts at most once and when it is due, that no *)
(* callback outlives its agent and that no phone is left busy but by an alert *)
(* that timed out (SInv).                                                     *)
EXTENDS CallSetup, SequenceTheorems, TLAPS

(* A setter that is entered has a flag to set.                             *)
SetterIsFlag == \A n \in Node : mpc[n] # "idle" => setter[n] \in Flag

(* The parts of the state, with their types.                               *)
ManagerType == /\ busy \in [Node -> BOOLEAN] /\ ice \in [Node -> BOOLEAN]
               /\ session \in [Node -> Session] /\ flag \in [Node -> SUBSET Flag]
MainType == /\ mpc \in [Node -> {"idle", "test", "store"}]
            /\ setter \in [Node -> Flag \cup {"none"}]
            /\ SetterIsFlag
UiType == controller \in [Node -> BOOLEAN] /\ alert \in [Node -> BOOLEAN] /\ talks \in [Node -> Nat]
Spc == {"none", "start", "created", "gather", "run", "blocked", "done", "dangling"} \cup Callback
StunType == /\ thread \in [Node -> Nat] /\ stream \in [Node -> {0, 1}] /\ spawned \in [Node -> Nat]
            /\ agent \in [Node -> Nat] /\ remote \in [Node -> Nat]
            /\ lock \in [Node -> {"free", "main", "stun"}]
            /\ spc \in [Node -> [Thread -> Spc]]
PostType == posted \in [Node -> Nat] /\ calls \in [Node -> Nat] /\ accepted \in SUBSET Node
InboxType == inbox \in [Node -> Seq(Request)]

TInv == ManagerType /\ MainType /\ UiType /\ StunType /\ PostType /\ InboxType

LEMMA TypeParts == TInv <=> TypeOK /\ SetterIsFlag
BY DEF TInv, TypeOK, ManagerType, MainType, UiType, StunType, PostType, InboxType, Spc

LEMMA SendType ==
  ASSUME InboxType, NEW n \in Node, NEW s, NEW r \in Request, sendPacketRemoteUser(n, s, r)
  PROVE  InboxType'
<1>1. Peer[n] \in Node BY PeerAssumption
<1>2. Append(inbox[Peer[n]], r) \in Seq(Request)
  BY <1>1, AppendProperties DEF InboxType
<1> QED BY <1>1, <1>2 DEF InboxType, sendPacketRemoteUser

LEMMA ConsumeType ==
  ASSUME InboxType, NEW n \in Node, inbox[n] # <<>>, Consume(n)
  PROVE  InboxType'
BY DEF InboxType, Consume

LEMMA GoneType ==
  ASSUME StunType, NEW n \in Node, NEW K, NEW pc \in {"done", "blocked"}
  PROVE  AgentGone(n, K, pc) \in [Thread -> Spc]
BY DEF StunType, AgentGone, Spc

LEMMA SpcType ==
  ASSUME StunType, NEW n \in Node, NEW k, NEW v \in Spc, spc' = [spc EXCEPT ![n][k] = v]
  PROVE  spc' \in [Node -> [Thread -> Spc]]
<1>1. [spc[n] EXCEPT ![k] = v] \in [Thread -> Spc]
  BY DEF StunType
<1> QED BY <1>1 DEF StunType

LEMMA StartType ==
  ASSUME StunType, NEW n \in Node, startStunThread(n),
         UNCHANGED <<stream, agent, remote, lock>>
  PROVE  StunType'
<1>1. CASE thread[n] = 0
  <2>1. "start" \in Spc BY DEF Spc
  <2>2. spc' \in [Node -> [Thread -> Spc]]
    BY <1>1, <2>1, SpcType DEF startStunThread
  <2> QED BY <1>1, <2>2 DEF StunType, startStunThread, Set
<1>2. CASE thread[n] # 0
  BY <1>2 DEF StunType, startStunThread
<1> QED BY <1>1, <1>2

LEMMA StopType ==
  ASSUME StunType, NEW n \in Node, stopStunThread(n)
  PROVE  StunType'
<1>1. thread' \in [Node -> Nat] /\ stream' \in [Node -> {0, 1}] /\ spawned' \in [Node -> Nat]
  BY DEF StunType, stopStunThread, Set
<1>2. CASE Closes(n)
  <2>1. PICK pc \in {"done", "blocked"} :
          spc' = [spc EXCEPT ![n] = AgentGone(n, {thread[n], agent[n]}, pc)]
    BY <1>2 DEF stopStunThread
  <2>2. spc' \in [Node -> [Thread -> Spc]]
    BY <2>1, GoneType DEF StunType
  <2> QED BY <1>1, <1>2, <2>2 DEF StunType, stopStunThread, Set
<1>3. CASE ~Closes(n)
  BY <1>1, <1>3 DEF StunType, stopStunThread
<1> QED BY <1>2, <1>3

LEMMA ResetType ==
  ASSUME ManagerType, NEW n \in Node, resetStates(n) PROVE ManagerType'
BY DEF ManagerType, resetStates, Set, Session

LEMMA EnterType ==
  ASSUME MainType, NEW n \in Node, NEW f \in Flag, Enter(n, f) PROVE MainType'
BY DEF MainType, Enter, Set, SetterIsFlag

LEMMA SameType ==
  /\ ManagerType /\ UNCHANGED manager => ManagerType'
  /\ MainType /\ UNCHANGED main => MainType'
  /\ UiType /\ UNCHANGED ui => UiType'
  /\ StunType /\ UNCHANGED stun => StunType'
  /\ PostType /\ UNCHANGED <<posted, calls, accepted>> => PostType'
  /\ InboxType /\ UNCHANGED inbox => InboxType'
<1>1. ManagerType /\ UNCHANGED manager => ManagerType' BY DEF ManagerType, manager
<1>2. MainType /\ UNCHANGED main => MainType' BY DEF MainType, main, SetterIsFlag
<1>3. UiType /\ UNCHANGED ui => UiType' BY DEF UiType, ui
<1>4. StunType /\ UNCHANGED stun => StunType' BY DEF StunType, stun
<1>5. PostType /\ UNCHANGED <<posted, calls, accepted>> => PostType' BY DEF PostType
<1>6. InboxType /\ UNCHANGED inbox => InboxType' BY DEF InboxType
<1> QED BY <1>1, <1>2, <1>3, <1>4, <1>5, <1>6

LEMMA TypeUser ==
  ASSUME TInv, NEW n \in Node, User(n) PROVE TInv'
<1>0. ManagerType /\ MainType /\ UiType /\ StunType /\ PostType /\ InboxType
  BY DEF TInv
<1>1. CASE handlePush2TalkCallRemote(n)
  <2>1. ManagerType'
    BY <1>0, <1>1 DEF handlePush2TalkCallRemote, ManagerType, Set, Session
  <2>2. UiType'
    BY <1>0, <1>1 DEF handlePush2TalkCallRemote, UiType, Set
  <2>3. StunType'
    BY <1>0, <1>1, StartType DEF handlePush2TalkCallRemote
  <2>4. PostType'
    BY <1>0, <1>1 DEF handlePush2TalkCallRemote, PostType, Set
  <2>5. MainType' /\ InboxType'
    BY <1>0, <1>1, SameType DEF handlePush2TalkCallRemote
  <2> QED BY <2>1, <2>2, <2>3, <2>4, <2>5 DEF TInv
<1>2. CASE handlePush2TalkQuit(n)
  <2>1. ManagerType'
    BY <1>0, <1>2, ResetType DEF handlePush2TalkQuit
  <2>2. UiType'
    <3>1. CASE session[n] # "none"
      <4>1. closePush2Talk(n) /\ UNCHANGED alert
        BY <1>2, <3>1 DEF handlePush2TalkQuit
      <4> QED BY <1>0, <4>1 DEF closePush2Talk, UiType, Set
    <3>2. CASE session[n] = "none"
      BY <1>0, <1>2, <3>2 DEF handlePush2TalkQuit, UiType
    <3> QED BY <3>1, <3>2
  <2>3. StunType'
    BY <1>0, <1>2, StopType DEF handlePush2TalkQuit
  <2>4. InboxType'
    BY <1>0, <1>2, SendType DEF handlePush2TalkQuit, Request
  <2>5. MainType' /\ PostType'
    BY <1>0, <1>2, SameType DEF handlePush2TalkQuit
  <2> QED BY <2>1, <2>2, <2>3, <2>4, <2>5 DEF TInv
<1>3. CASE Accept(n)
  <2>1. MainType'
    BY <1>0, <1>3, EnterType DEF Accept, Flag
  <2>2. UiType'
    BY <1>0, <1>3 DEF Accept, UiType, Set
  <2>3. PostType'
    BY <1>0, <1>3 DEF Accept, PostType
  <2>4. InboxType'
    BY <1>0, <1>3, SendType DEF Accept, Request
  <2>5. ManagerType' /\ StunType'
    BY <1>0, <1>3, SameType DEF Accept
  <2> QED BY <2>1, <2>2, <2>3, <2>4, <2>5 DEF TInv
<1>4. CASE Reject(n)
  <2>1. ManagerType'
    BY <1>0, <1>4, ResetType DEF Reject
  <2>2. UiType'
    BY <1>0, <1>4 DEF Reject, UiType, Set
  <2>3. StunType'
    BY <1>0, <1>4 DEF Reject, StunType, Set
  <2>4. InboxType'
    BY <1>0, <1>4, SendType DEF Reject, Request
  <2>5. MainType' /\ PostType'
    BY <1>0, <1>4, SameType DEF Reject, history
  <2> QED BY <2>1, <2>2, <2>3, <2>4, <2>5 DEF TInv
<1>5. CASE AlertTimeout(n)
  <2>1. UiType'
    BY <1>0, <1>5 DEF AlertTimeout, UiType, Set
  <2>2. InboxType'
    BY <1>0, <1>5, SendType DEF AlertTimeout, Request
  <2>3. ManagerType' /\ MainType' /\ StunType' /\ PostType'
    BY <1>0, <1>5, SameType DEF AlertTimeout, history
  <2> QED BY <2>1, <2>2, <2>3 DEF TInv
<1> QED BY <1>1, <1>2, <1>3, <1>4, <1>5 DEF User

LEMMA TypeMain ==
  ASSUME TInv, NEW n \in Node, MainThread(n) PROVE TInv'
<1>0. ManagerType /\ MainType /\ UiType /\ StunType /\ PostType /\ InboxType
  BY DEF TInv
<1>1. CASE HandleQ_SDP(n)
  <2>0. MainType' /\ PostType'
    BY <1>0, <1>1, SameType DEF HandleQ_SDP, history
  <2>1. CASE Refuses(n)
    <3>1. ManagerType' /\ UiType' /\ StunType'
      BY <1>0, <1>1, <2>1, SameType DEF HandleQ_SDP
    <3>2. Peer[n] \in Node /\ Peer[n] # n
      BY PeerAssumption
    <3>3. Append(inbox[Peer[n]], "D_CON") \in Seq(Request) /\ Tail(inbox[n]) \in Seq(Request)
      BY <1>0, <1>1, <3>2, AppendProperties DEF InboxType, HandleQ_SDP, Handles, Request
    <3>4. inbox' = [inbox EXCEPT ![n] = Tail(@), ![Peer[n]] = Append(@, "D_CON")]
      BY <1>1, <2>1 DEF HandleQ_SDP
    <3>5. InboxType'
      BY <1>0, <3>2, <3>3, <3>4 DEF InboxType
    <3> QED BY <2>0, <3>1, <3>5 DEF TInv
  <2>2. CASE ~Refuses(n)
    <3>1. ManagerType'
      BY <1>0, <1>1, <2>2 DEF HandleQ_SDP, ManagerType, Set, Session
    <3>2. UiType'
      BY <1>0, <1>1, <2>2 DEF HandleQ_SDP, UiType, Set
    <3>3. StunType'
      <4>1. "start" \in Spc BY DEF Spc
      <4>2. spc' \in [Node -> [Thread -> Spc]]
        BY <1>0, <1>1, <2>2, <4>1, SpcType DEF HandleQ_SDP
      <4>3. /\ spawned' = [spawned EXCEPT ![n] = spawned[n] + 1]
            /\ thread' = [thread EXCEPT ![n] = spawned[n] + 1]
            /\ UNCHANGED <<stream, agent, lock, remote>>
        BY <1>1, <2>2 DEF HandleQ_SDP, Set
      <4> QED BY <1>0, <4>2, <4>3 DEF StunType
    <3>4. InboxType'
      BY <1>0, <1>1, <2>2, ConsumeType DEF HandleQ_SDP, Handles
    <3> QED BY <2>0, <3>1, <3>2, <3>3, <3>4 DEF TInv
  <2> QED BY <2>1, <2>2
<1>2. CASE HandleR_SDP(n)
  <2>1. StunType'
    BY <1>0, <1>2 DEF HandleR_SDP, StunType, Set
  <2>2. InboxType'
    BY <1>0, <1>2, ConsumeType DEF HandleR_SDP, Handles
  <2>3. ManagerType' /\ MainType' /\ UiType' /\ PostType'
    BY <1>0, <1>2, SameType DEF HandleR_SDP, history
  <2> QED BY <2>1, <2>2, <2>3 DEF TInv
<1>3. CASE HandleD_CON(n)
  <2>1. StunType'
    BY <1>0, <1>3, StopType DEF HandleD_CON
  <2>2. InboxType'
    BY <1>0, <1>3, ConsumeType DEF HandleD_CON, Handles
  <2>3. ManagerType'
    BY <1>0, <1>3, ResetType DEF HandleD_CON
  <2>4. UiType'
    BY <1>0, <1>3 DEF HandleD_CON, closePush2Talk, UiType, Set
  <2>5. MainType' /\ PostType'
    BY <1>0, <1>3, SameType DEF HandleD_CON, history
  <2> QED BY <2>1, <2>2, <2>3, <2>4, <2>5 DEF TInv
<1>4. CASE HandleFlag(n)
  <2>1. PICK r \in {"Q_CON", "R_CON", "R_ACK"} : Handles(n, r) /\ Enter(n, FlagOf(r))
    BY <1>4 DEF HandleFlag
  <2>2. FlagOf(r) \in Flag
    BY DEF FlagOf, Flag
  <2>3. MainType'
    BY <1>0, <2>1, <2>2, EnterType
  <2>4. InboxType'
    BY <1>0, <1>4, <2>1, ConsumeType DEF HandleFlag, Handles
  <2>5. ManagerType' /\ UiType' /\ StunType' /\ PostType'
    BY <1>0, <1>4, SameType DEF HandleFlag, history
  <2> QED BY <2>3, <2>4, <2>5 DEF TInv
<1>5. CASE HandleOther(n)
  <2>1. InboxType'
    BY <1>0, <1>5, ConsumeType DEF HandleOther
  <2>2. ManagerType' /\ MainType' /\ UiType' /\ StunType' /\ PostType'
    BY <1>0, <1>5, SameType DEF HandleOther, history
  <2> QED BY <2>1, <2>2 DEF TInv
<1>6. CASE SetterTest(n)
  <2>1. MainType'
    BY <1>0, <1>6 DEF SetterTest, MainType, SetterIsFlag, Set
  <2>2. UiType'
    <3>1. controller' \in [Node -> BOOLEAN]
      <4>1. (controller[n] \/ Opens(n)) \in BOOLEAN
        BY <1>0 DEF UiType, Opens
      <4> QED BY <1>0, <1>6, <4>1 DEF SetterTest, UiType, Set
    <3>2. talks' \in [Node -> Nat]
      BY <1>0, <1>6 DEF SetterTest, UiType, Set
    <3> QED BY <1>0, <1>6, <3>1, <3>2 DEF SetterTest, UiType
  <2>3. StunType'
    BY <1>0, <1>6, StopType, SameType DEF SetterTest
  <2>4. ManagerType' /\ PostType' /\ InboxType'
    BY <1>0, <1>6, SameType DEF SetterTest, history
  <2> QED BY <2>1, <2>2, <2>3, <2>4 DEF TInv
<1>7. CASE SetterStore(n)
  <2>1. ManagerType'
    <3>1. setter[n] \in Flag
      BY <1>0, <1>7 DEF SetterStore, MainType, SetterIsFlag
    <3> QED BY <1>0, <1>7, <3>1 DEF SetterStore, ManagerType, Set
  <2>2. MainType'
    BY <1>0, <1>7 DEF SetterStore, MainType, SetterIsFlag, Set
  <2>3. UiType' /\ StunType' /\ PostType' /\ InboxType'
    BY <1>0, <1>7, SameType DEF SetterStore, history
  <2> QED BY <2>1, <2>2, <2>3 DEF TInv
<1>8. CASE RunPosted(n)
  <2>1. PostType'
    BY <1>0, <1>8 DEF RunPosted, PostType, Set, history
  <2>2. UiType'
    BY <1>0, <1>8 DEF RunPosted, UiType, Set
  <2>3. StunType'
    BY <1>0, <1>8, StopType DEF RunPosted
  <2>4. ManagerType' /\ MainType' /\ InboxType'
    BY <1>0, <1>8, SameType DEF RunPosted
  <2> QED BY <2>1, <2>2, <2>3, <2>4 DEF TInv
<1> QED BY <1>1, <1>2, <1>3, <1>4, <1>5, <1>6, <1>7, <1>8 DEF MainThread

LEMMA TypeStun ==
  ASSUME TInv, NEW n \in Node, NEW k \in Thread, StunThread(n, k) \/ IceSignal(n, k) PROVE TInv'
<1>0. ManagerType /\ MainType /\ UiType /\ StunType /\ PostType /\ InboxType
  BY DEF TInv
<1>k. k \in Nat BY DEF Thread
<1>1. CASE StunCreate(n, k)
  <2>1. AgentGone(n, {agent[n]}, "done") \in [Thread -> Spc]
    BY <1>0, GoneType
  <2>2. StunType'
    BY <1>0, <1>1, <1>k, <2>1 DEF StunCreate, StunType, Set, Spc
  <2>3. ManagerType' /\ MainType' /\ UiType' /\ PostType' /\ InboxType'
    BY <1>0, <1>1, SameType DEF StunCreate, history
  <2> QED BY <2>2, <2>3 DEF TInv
<1>2. CASE StartStun(n, k)
  <2>2. StunType'
    BY <1>0, <1>2 DEF StartStun, StunType, Set, Spc
  <2>3. ManagerType' /\ MainType' /\ UiType' /\ PostType' /\ InboxType'
    BY <1>0, <1>2, SameType DEF StartStun, history
  <2> QED BY <2>2, <2>3 DEF TInv
<1>3. CASE handleStunAddr(n, k)
  <2>1. InboxType'
    BY <1>0, <1>3, SendType DEF handleStunAddr, Request
  <2>2. StunType'
    BY <1>0, <1>3, <1>k DEF handleStunAddr, StunType, Set, Spc
  <2>3. ManagerType' /\ MainType' /\ UiType' /\ PostType'
    BY <1>0, <1>3, SameType DEF handleStunAddr, history
  <2> QED BY <2>1, <2>2, <2>3 DEF TInv
<1>4. CASE IceTest(n, k)
  <2>1. PostType'
    BY <1>0, <1>4 DEF IceTest, PostType, Set, history
  <2>2. StunType'
    BY <1>0, <1>4 DEF IceTest, StunType, Set, Spc, Callback
  <2>3. ManagerType' /\ MainType' /\ UiType' /\ InboxType'
    BY <1>0, <1>4, SameType DEF IceTest
  <2> QED BY <2>1, <2>2, <2>3 DEF TInv
<1>5. CASE IceStore(n, k)
  <2>1. ManagerType'
    BY <1>0, <1>5 DEF IceStore, ManagerType, Set
  <2>2. StunType'
    BY <1>0, <1>5 DEF IceStore, StunType, Set, Spc
  <2>3. MainType' /\ UiType' /\ PostType' /\ InboxType'
    BY <1>0, <1>5, SameType DEF IceStore, history
  <2> QED BY <2>1, <2>2, <2>3 DEF TInv
<1>6. CASE LateCallback(n, k)
  <2>2. StunType'
    BY <1>0, <1>6 DEF LateCallback, StunType, Spc
  <2>3. ManagerType' /\ MainType' /\ UiType' /\ PostType' /\ InboxType'
    BY <1>0, <1>6, SameType DEF LateCallback, history
  <2> QED BY <2>2, <2>3 DEF TInv
<1>7. CASE IceSignal(n, k)
  <2>1. InboxType'
    BY <1>0, <1>7, SendType DEF IceSignal, Request
  <2>2. StunType'
    BY <1>0, <1>7 DEF IceSignal, StunType, Set, Spc, Callback
  <2>3. ManagerType' /\ MainType' /\ UiType' /\ PostType'
    BY <1>0, <1>7, SameType DEF IceSignal, history
  <2> QED BY <2>1, <2>2, <2>3 DEF TInv
<1> QED BY <1>1, <1>2, <1>3, <1>4, <1>5, <1>6, <1>7 DEF StunThread

LEMMA TypeInit == ASSUME Init PROVE TInv
BY TypeParts DEF Init, TypeOK, SetterIsFlag, Session, Callback

LEMMA TypeStep == ASSUME TInv, [Next]_vars PROVE TInv'
<1>1. CASE UNCHANGED vars
  BY <1>1, SameType DEF vars, history, TInv
<1> QED BY <1>1, TypeUser, TypeMain, TypeStun DEF Next

(* The type invariant of the two phones' managers, threads and messages,   *)
(* for any number of calls and threads.                                    *)
THEOREM TypeCorrect == Spec => []TypeOK
<1>1. TInv => TypeOK BY TypeParts
<1> QED BY <1>1, TypeInit, TypeStep, PTL DEF Spec

-----------------------------------------------------------------------------
(* What a step of phone n leaves alone, and what it does to the inboxes.   *)

Step(n) == User(n) \/ MainThread(n) \/ \E k \in Thread : StunThread(n, k) \/ IceSignal(n, k)

ManagerSame(m) == busy'[m] = busy[m] /\ session'[m] = session[m] /\ flag'[m] = flag[m] /\ ice'[m] = ice[m]
MainSame(m) == mpc'[m] = mpc[m] /\ setter'[m] = setter[m]
UiSame(m) == controller'[m] = controller[m] /\ talks'[m] = talks[m] /\ alert'[m] = alert[m]
StunSame(m) == /\ thread'[m] = thread[m] /\ stream'[m] = stream[m] /\ agent'[m] = agent[m]
               /\ lock'[m] = lock[m] /\ remote'[m] = remote[m] /\ spc'[m] = spc[m]
               /\ spawned'[m] = spawned[m]
Same(m) == /\ ManagerSame(m) /\ MainSame(m) /\ UiSame(m) /\ StunSame(m)
           /\ posted'[m] = posted[m] /\ calls'[m] = calls[m]

LEMMA StopOthers ==
  ASSUME StunType, NEW n \in Node, NEW m \in Node, m # n, stopStunThread(n) PROVE StunSame(m)
<1>1. thread'[m] = thread[m] /\ stream'[m] = stream[m] /\ spawned'[m] = spawned[m]
  BY DEF stopStunThread, Set, StunType
<1>2. CASE Closes(n)
  <2>1. PICK pc \in {"done", "blocked"} :
          spc' = [spc EXCEPT ![n] = AgentGone(n, {thread[n], agent[n]}, pc)]
    BY <1>2 DEF stopStunThread
  <2>2. spc'[m] = spc[m]
    BY <2>1 DEF StunType
  <2>3. lock'[m] = lock[m] /\ agent'[m] = agent[m] /\ remote'[m] = remote[m]
    BY <1>2 DEF stopStunThread, Set, StunType
  <2> QED BY <1>1, <2>2, <2>3 DEF StunSame
<1>3. CASE ~Closes(n)
  BY <1>1, <1>3 DEF stopStunThread, StunSame
<1> QED BY <1>2, <1>3

LEMMA SpcOthers ==
  ASSUME StunType, NEW n \in Node, NEW m \in Node, m # n, NEW k, NEW v,
         spc' = [spc EXCEPT ![n][k] = v]
  PROVE  spc'[m] = spc[m]
BY DEF StunType

LEMMA UserOthers ==
  ASSUME TInv, NEW n \in Node, NEW m \in Node, m # n, User(n) PROVE Same(m)
<1>0. ManagerType /\ MainType /\ UiType /\ StunType /\ PostType
  BY DEF TInv
<1>1. CASE handlePush2TalkCallRemote(n)
  <2>1. ManagerSame(m) /\ MainSame(m) /\ UiSame(m)
    BY <1>0, <1>1 DEF handlePush2TalkCallRemote, Set, main, ManagerSame, MainSame, UiSame,
                      ManagerType, UiType
  <2>2. spawned'[m] = spawned[m] /\ thread'[m] = thread[m] /\ spc'[m] = spc[m]
    BY <1>0, <1>1, SpcOthers DEF handlePush2TalkCallRemote, startStunThread, Set, StunType
  <2>3. StunSame(m) /\ posted'[m] = posted[m] /\ calls'[m] = calls[m]
    BY <1>0, <1>1, <2>2 DEF handlePush2TalkCallRemote, Set, StunSame, PostType
  <2> QED BY <2>1, <2>3 DEF Same
<1>2. CASE handlePush2TalkQuit(n)
  <2>1. ManagerSame(m) /\ MainSame(m)
    BY <1>0, <1>2 DEF handlePush2TalkQuit, resetStates, Set, main, ManagerSame, MainSame, ManagerType
  <2>2. UiSame(m)
    <3>1. UNCHANGED alert /\ (closePush2Talk(n) \/ UNCHANGED <<controller, talks>>)
      BY <1>2 DEF handlePush2TalkQuit
    <3> QED BY <1>0, <3>1 DEF closePush2Talk, Set, UiSame, UiType
  <2>3. StunSame(m)
    BY <1>0, <1>2, StopOthers DEF handlePush2TalkQuit
  <2> QED BY <1>2, <2>1, <2>2, <2>3 DEF Same, handlePush2TalkQuit
<1>3. CASE Accept(n)
  BY <1>0, <1>3 DEF Accept, Enter, Set, manager, stun, Same, ManagerSame, MainSame, UiSame, StunSame,
                    MainType, UiType
<1>4. CASE Reject(n)
  <2>1. ManagerSame(m) /\ MainSame(m) /\ UiSame(m)
    BY <1>0, <1>4 DEF Reject, resetStates, Set, main, ManagerSame, MainSame, UiSame, ManagerType, UiType
  <2>2. StunSame(m)
    BY <1>0, <1>4 DEF Reject, Set, StunSame, StunType
  <2> QED BY <1>4, <2>1, <2>2 DEF Reject, Same, history
<1>5. CASE AlertTimeout(n)
  BY <1>0, <1>5 DEF AlertTimeout, Set, manager, main, stun, history, Same, ManagerSame, MainSame, UiSame,
                    StunSame, UiType
<1> QED BY <1>1, <1>2, <1>3, <1>4, <1>5 DEF User

LEMMA MainOthers ==
  ASSUME TInv, NEW n \in Node, NEW m \in Node, m # n, MainThread(n) PROVE Same(m)
<1>0. ManagerType /\ MainType /\ UiType /\ StunType /\ PostType
  BY DEF TInv
<1> USE DEF Same, ManagerSame, MainSame, UiSame, StunSame, manager, main, ui, stun, history, Set
<1>1. CASE HandleQ_SDP(n)
  <2>1. CASE Refuses(n)
    BY <1>1, <2>1 DEF HandleQ_SDP
  <2>2. CASE ~Refuses(n)
    <3>1. ManagerSame(m) /\ UiSame(m)
      BY <1>0, <1>1, <2>2 DEF HandleQ_SDP, ManagerType, UiType
    <3>2. spc'[m] = spc[m]
      <4>1. spc' = [spc EXCEPT ![n][spawned[n] + 1] = "start"]
        BY <1>1, <2>2 DEF HandleQ_SDP
      <4> QED BY <1>0, <4>1, SpcOthers
    <3>3. StunSame(m)
      BY <1>0, <1>1, <2>2, <3>2 DEF HandleQ_SDP, StunType
    <3> QED BY <1>1, <3>1, <3>3 DEF HandleQ_SDP
  <2> QED BY <2>1, <2>2
<1>2. CASE HandleR_SDP(n)
  BY <1>0, <1>2 DEF HandleR_SDP, StunType
<1>3. CASE HandleD_CON(n)
  <2>1. StunSame(m)
    BY <1>0, <1>3, StopOthers DEF HandleD_CON
  <2>2. ManagerSame(m) /\ UiSame(m)
    BY <1>0, <1>3 DEF HandleD_CON, resetStates, closePush2Talk, ManagerType, UiType
  <2> QED BY <1>3, <2>1, <2>2 DEF HandleD_CON
<1>4. CASE HandleFlag(n)
  BY <1>0, <1>4 DEF HandleFlag, Enter, MainType
<1>5. CASE HandleOther(n)
  BY <1>5 DEF HandleOther
<1>6. CASE SetterTest(n)
  <2>1. StunSame(m)
    BY <1>0, <1>6, StopOthers DEF SetterTest
  <2>2. controller'[m] = controller[m]
    BY <1>0, <1>6 DEF SetterTest, UiType
  <2>3. talks'[m] = talks[m]
    BY <1>0, <1>6 DEF SetterTest, UiType
  <2>4. MainSame(m)
    BY <1>0, <1>6 DEF SetterTest, MainType
  <2> QED BY <1>6, <2>1, <2>2, <2>3, <2>4 DEF SetterTest
<1>7. CASE SetterStore(n)
  BY <1>0, <1>7 DEF SetterStore, MainType, ManagerType
<1>8. CASE RunPosted(n)
  <2>1. StunSame(m)
    BY <1>0, <1>8, StopOthers DEF RunPosted
  <2>2. talks'[m] = talks[m] /\ posted'[m] = posted[m]
    BY <1>0, <1>8 DEF RunPosted, UiType, PostType
  <2> QED BY <1>8, <2>1, <2>2 DEF RunPosted
<1> QED BY <1>1, <1>2, <1>3, <1>4, <1>5, <1>6, <1>7, <1>8 DEF MainThread

LEMMA StunOthers ==
  ASSUME TInv, NEW n \in Node, NEW m \in Node, m # n, NEW k \in Thread,
         StunThread(n, k) \/ IceSignal(n, k)
  PROVE  Same(m)
<1>0. ManagerType /\ MainType /\ UiType /\ StunType /\ PostType
  BY DEF TInv
<1>1. spc'[m] = spc[m]
  <2>1. CASE StunCreate(n, k)
    BY <1>0, <2>1 DEF StunCreate, StunType
  <2>2. CASE ~StunCreate(n, k)
    <3>1. \E v : spc' = [spc EXCEPT ![n][k] = v]
      <4>1. CASE StartStun(n, k) BY <4>1 DEF StartStun
      <4>2. CASE handleStunAddr(n, k) BY <4>2 DEF handleStunAddr
      <4>3. CASE IceTest(n, k) BY <4>3 DEF IceTest
      <4>4. CASE IceStore(n, k) BY <4>4 DEF IceStore
      <4>5. CASE LateCallback(n, k) BY <4>5 DEF LateCallback
      <4>6. CASE IceSignal(n, k) BY <4>6 DEF IceSignal
      <4> QED BY <2>2, <4>1, <4>2, <4>3, <4>4, <4>5, <4>6 DEF StunThread
    <3> QED BY <1>0, <3>1, SpcOthers
  <2> QED BY <2>1, <2>2
<1> USE DEF Same, ManagerSame, MainSame, UiSame, StunSame, manager, main, ui, stun, history, Set
<1>2. CASE StunCreate(n, k) BY <1>0, <1>1, <1>2 DEF StunCreate, StunType
<1>3. CASE StartStun(n, k) BY <1>0, <1>1, <1>3 DEF StartStun, StunType
<1>4. CASE handleStunAddr(n, k) BY <1>0, <1>1, <1>4 DEF handleStunAddr, StunType
<1>5. CASE IceTest(n, k) BY <1>0, <1>1, <1>5 DEF IceTest, PostType
<1>6. CASE IceStore(n, k) BY <1>0, <1>1, <1>6 DEF IceStore, StunType, ManagerType
<1>7. CASE LateCallback(n, k) BY <1>0, <1>1, <1>7 DEF LateCallback
<1>8. CASE IceSignal(n, k) BY <1>0, <1>1, <1>8 DEF IceSignal, StunType
<1> QED BY <1>2, <1>3, <1>4, <1>5, <1>6, <1>7, <1>8 DEF StunThread

(* A phone's step changes its own variables and inboxes only.              *)
LEMMA StepOthers ==
  ASSUME TInv, NEW n \in Node, NEW m \in Node, m # n, Step(n) PROVE Same(m)
BY UserOthers, MainOthers, StunOthers DEF Step

-----------------------------------------------------------------------------
(* Messages on their way.                                                  *)

Has(m, r) == \E i \in 1..Len(inbox[m]) : inbox[m][i] = r
Once(m, r) == \A i, j \in 1..Len(inbox[m]) : inbox[m][i] = r /\ inbox[m][j] = r => i = j

LEMMA AppendMail ==
  ASSUME InboxType, NEW p \in Node, NEW r \in Request, inbox'[p] = Append(inbox[p], r), NEW x
  PROVE  /\ Has(p, x)' <=> Has(p, x) \/ x = r
         /\ Once(p, x) /\ (x = r => ~Has(p, x)) => Once(p, x)'
<1> DEFINE q == inbox[p]
           q2 == inbox'[p]
<1>1. q \in Seq(Request) BY DEF InboxType
<1>2. Len(q) \in Nat /\ Len(q2) = Len(q) + 1 /\ q2[Len(q) + 1] = r
      /\ \A i \in 1..Len(q) : q2[i] = q[i]
  BY <1>1
<1> HIDE DEF q, q2
<1>3. (\E i \in 1..Len(q2) : q2[i] = x) <=> (\E i \in 1..Len(q) : q[i] = x) \/ x = r
  BY <1>2
<1>4. ASSUME \A i, j \in 1..Len(q) : q[i] = x /\ q[j] = x => i = j,
             x = r => ~\E i \in 1..Len(q) : q[i] = x
      PROVE  \A i, j \in 1..Len(q2) : q2[i] = x /\ q2[j] = x => i = j
  BY <1>2, <1>4
<1> QED BY <1>3, <1>4 DEF q, q2, Has, Once

LEMMA TailMail ==
  ASSUME InboxType, NEW p \in Node, inbox[p] # <<>>, inbox'[p] = Tail(inbox[p]), NEW x
  PROVE  /\ Has(p, Head(inbox[p]))
         /\ Has(p, x)' => Has(p, x)
         /\ Has(p, x) /\ x # Head(inbox[p]) => Has(p, x)'
         /\ Once(p, x) => Once(p, x)'
         /\ Once(p, x) /\ x = Head(inbox[p]) => ~Has(p, x)'
<1> DEFINE q == inbox[p]
           q2 == inbox'[p]
<1>1. q \in Seq(Request) BY DEF InboxType
<1>2. /\ Len(q) \in Nat /\ Len(q) >= 1 /\ Len(q2) = Len(q) - 1 /\ Head(q) = q[1]
      /\ \A i \in 1..Len(q) - 1 : q2[i] = q[i + 1]
  BY <1>1
<1> HIDE DEF q, q2
<1>3. \E i \in 1..Len(q) : q[i] = Head(q)
  BY <1>2
<1>4. (\E i \in 1..Len(q2) : q2[i] = x) => (\E i \in 1..Len(q) : q[i] = x)
  <2> SUFFICES ASSUME NEW i \in 1..Len(q2), q2[i] = x PROVE \E j \in 1..Len(q) : q[j] = x
    OBVIOUS
  <2>1. i + 1 \in 1..Len(q) /\ q[i + 1] = x
    BY <1>2
  <2> QED BY <2>1
<1>5. ASSUME NEW j \in 1..Len(q), q[j] = x, x # Head(q) PROVE \E i \in 1..Len(q2) : q2[i] = x
  <2>1. j - 1 \in 1..Len(q2) /\ q2[j - 1] = q[(j - 1) + 1] /\ (j - 1) + 1 = j
    BY <1>2, <1>5
  <2> QED BY <2>1, <1>5
<1>6. ASSUME \A i, j \in 1..Len(q) : q[i] = x /\ q[j] = x => i = j,
             NEW i \in 1..Len(q2), NEW j \in 1..Len(q2), q2[i] = x, q2[j] = x
      PROVE  i = j
  <2>1. i + 1 \in 1..Len(q) /\ j + 1 \in 1..Len(q) /\ q[i + 1] = x /\ q[j + 1] = x
    BY <1>2, <1>6
  <2>2. i + 1 = j + 1
    BY <2>1, <1>6
  <2> QED BY <2>2, <1>2
<1>7. ASSUME \A i, j \in 1..Len(q) : q[i] = Head(q) /\ q[j] = Head(q) => i = j,
             NEW i \in 1..Len(q2), q2[i] = Head(q)
      PROVE  FALSE
  <2>1. i + 1 \in 1..Len(q) /\ 1 \in 1..Len(q) /\ q[i + 1] = Head(q) /\ q[1] = Head(q) /\ i + 1 # 1
    BY <1>2, <1>7
  <2> QED BY <2>1, <1>7
<1>8. Has(p, Head(inbox[p])) /\ (Has(p, x)' => Has(p, x))
  BY <1>3, <1>4 DEF Has, q, q2
<1>9. Has(p, x) /\ x # Head(inbox[p]) => Has(p, x)'
  BY <1>5 DEF Has, q, q2
<1>10. Once(p, x) => Once(p, x)'
  BY <1>6 DEF Once, q, q2
<1>11. Once(p, x) /\ x = Head(inbox[p]) => ~Has(p, x)'
  BY <1>7 DEF Once, Has, q, q2
<1> QED BY <1>8, <1>9, <1>10, <1>11

LEMMA SameMail ==
  ASSUME NEW p \in Node, inbox'[p] = inbox[p], NEW x
  PROVE  (Has(p, x)' <=> Has(p, x)) /\ (Once(p, x)' <=> Once(p, x))
BY DEF Has, Once

(* What sendPacketRemoteUser and the handlers do to an inbox, one by one.  *)
LEMMA SendMail ==
  ASSUME InboxType, NEW n \in Node, NEW s, NEW r \in Request, sendPacketRemoteUser(n, s, r)
  PROVE  /\ s = "none" => inbox' = inbox
         /\ s # "none" => inbox'[Peer[n]] = Append(inbox[Peer[n]], r)
         /\ \A m \in Node : m # Peer[n] => inbox'[m] = inbox[m]
BY PeerAssumption DEF sendPacketRemoteUser, InboxType

LEMMA ConsumeMail ==
  ASSUME InboxType, NEW n \in Node, Consume(n)
  PROVE  /\ inbox'[n] = Tail(inbox[n])
         /\ \A m \in Node : m # n => inbox'[m] = inbox[m]
BY DEF Consume, InboxType

LEMMA RefuseMail ==
  ASSUME InboxType, NEW n \in Node,
         inbox' = [inbox EXCEPT ![n] = Tail(@), ![Peer[n]] = Append(@, "D_CON")]
  PROVE  /\ inbox'[n] = Tail(inbox[n])
         /\ inbox'[Peer[n]] = Append(inbox[Peer[n]], "D_CON")
         /\ \A m \in Node : m # n /\ m # Peer[n] => inbox'[m] = inbox[m]
BY PeerAssumption DEF InboxType

(* Who may have sent a message that is new in an inbox.                    *)
Origin(n, r) == \/ r = "D_CON"
                \/ r = "R_ACK" /\ Accept(n)
                \/ r \in {"Q_SDP", "Q_CON"} /\ session[n] = "Caller"
                \/ r \in {"R_SDP", "R_CON"} /\ session[n] = "Recver"

LEMMA SendOrigin ==
  ASSUME TInv, NEW n \in Node, NEW m \in Node, NEW r \in Request, NEW x,
         sendPacketRemoteUser(n, session[n], r), Has(m, x)', ~Has(m, x)
  PROVE  m = Peer[n] /\ x = r /\ session[n] # "none"
<1>1. InboxType BY DEF TInv
<1>2. m = Peer[n] /\ session[n] # "none"
  BY <1>1, SendMail, SameMail
<1>3. inbox'[m] = Append(inbox[m], r)
  BY <1>1, <1>2, SendMail
<1> QED BY <1>1, <1>2, <1>3, AppendMail

LEMMA ConsumeOrigin ==
  ASSUME TInv, NEW n \in Node, NEW m \in Node, NEW x, inbox[n] # <<>>, Consume(n), Has(m, x)'
  PROVE  Has(m, x)
<1>1. InboxType BY DEF TInv
<1>2. CASE m = n
  BY <1>1, <1>2, ConsumeMail, TailMail
<1>3. CASE m # n
  BY <1>1, <1>3, ConsumeMail, SameMail
<1> QED BY <1>2, <1>3

LEMMA MailOrigin ==
  ASSUME TInv, NEW n \in Node, NEW m \in Node, NEW x, Step(n), Has(m, x)', ~Has(m, x)
  PROVE  m = Peer[n] /\ Origin(n, x)
<1>0. session[n] \in Session BY DEF TInv, ManagerType
<1>00. inbox' # inbox
  BY SameMail
<1>1. CASE handlePush2TalkQuit(n)
  BY <1>1, SendOrigin DEF handlePush2TalkQuit, Request, Origin
<1>2. CASE Accept(n)
  BY <1>2, SendOrigin DEF Accept, Request, Origin
<1>3. CASE HandleQ_SDP(n)
  <2>1. Refuses(n)
    BY <1>3, ConsumeOrigin DEF HandleQ_SDP, Handles
  <2>2. inbox' = [inbox EXCEPT ![n] = Tail(@), ![Peer[n]] = Append(@, "D_CON")] /\ inbox[n] # <<>>
    BY <1>3, <2>1 DEF HandleQ_SDP, Handles
  <2>3. InboxType BY DEF TInv
  <2>4. m = Peer[n]
    BY <2>2, <2>3, RefuseMail, SameMail, TailMail
  <2>5. inbox'[m] = Append(inbox[m], "D_CON")
    BY <2>2, <2>3, <2>4, RefuseMail
  <2>6. x = "D_CON"
    BY <2>3, <2>5, AppendMail DEF Request
  <2> QED BY <2>4, <2>6 DEF Origin
<1>4. CASE HandleR_SDP(n) \/ HandleD_CON(n) \/ HandleFlag(n) \/ HandleOther(n)
  BY <1>4, ConsumeOrigin DEF HandleR_SDP, HandleD_CON, HandleFlag, HandleOther, Handles
<1>5. ASSUME NEW k \in Thread, handleStunAddr(n, k) PROVE m = Peer[n] /\ Origin(n, x)
  <2>1. CASE session[n] = "Recver"
    BY <1>5, <2>1, SendOrigin DEF handleStunAddr, Request, Origin
  <2>2. CASE session[n] # "Recver"
    BY <1>0, <1>5, <2>2, SendOrigin DEF handleStunAddr, Request, Origin, Session
  <2> QED BY <2>1, <2>2
<1>6. ASSUME NEW k \in Thread, IceSignal(n, k) PROVE m = Peer[n] /\ Origin(n, x)
  <2>1. CASE session[n] = "Recver"
    BY <1>6, <2>1, SendOrigin DEF IceSignal, Request, Origin
  <2>2. CASE session[n] # "Recver"
    BY <1>0, <1>6, <2>2, SendOrigin DEF IceSignal, Request, Origin, Session
  <2> QED BY <2>1, <2>2
<1>7. CASE handlePush2TalkCallRemote(n) \/ SetterTest(n) \/ SetterStore(n) \/ RunPosted(n)
  BY <1>7, <1>00 DEF handlePush2TalkCallRemote, SetterTest, SetterStore, RunPosted
<1>8. ASSUME NEW k \in Thread,
             StunCreate(n, k) \/ StartStun(n, k) \/ IceTest(n, k) \/ IceStore(n, k) \/ LateCallback(n, k)
      PROVE  m = Peer[n] /\ Origin(n, x)
  BY <1>8, <1>00 DEF StunCreate, StartStun, IceTest, IceStore, LateCallback
<1>9. CASE Reject(n)
  BY <1>9, SendOrigin DEF Reject, Request, Origin
<1>10. CASE AlertTimeout(n)
  <2>1. InboxType /\ "D_CON" \in Request
    BY DEF TInv, Request
  <2>2. m = Peer[n]
    BY <1>10, <2>1, SendMail, SameMail DEF AlertTimeout
  <2>3. inbox'[m] = Append(inbox[m], "D_CON")
    BY <1>10, <2>1, <2>2, SendMail DEF AlertTimeout
  <2> QED BY <2>1, <2>2, <2>3, AppendMail DEF Origin
<1> QED BY <1>1, <1>2, <1>3, <1>4, <1>5, <1>6, <1>7, <1>8, <1>9, <1>10 DEF Step, User, MainThread, StunThread

-----------------------------------------------------------------------------
(* Which actions change what.                                              *)

LEMMA FlagChanges ==
  ASSUME NEW n \in Node, Step(n)
  PROVE  UNCHANGED flag \/ SetterStore(n) \/ flag' = [flag EXCEPT ![n] = {}]
<1>1. User(n) => UNCHANGED flag \/ flag' = [flag EXCEPT ![n] = {}]
  BY DEF User, handlePush2TalkCallRemote, handlePush2TalkQuit, Accept, Reject, AlertTimeout, resetStates, Set,
         manager
<1>2. MainThread(n) => UNCHANGED flag \/ SetterStore(n) \/ flag' = [flag EXCEPT ![n] = {}]
  BY DEF MainThread, HandleQ_SDP, HandleR_SDP, HandleD_CON, HandleFlag, HandleOther, SetterTest,
         RunPosted, resetStates, Set, manager
<1>3. ASSUME NEW k \in Thread, StunThread(n, k) \/ IceSignal(n, k) PROVE UNCHANGED flag
  BY <1>3 DEF StunThread, StunCreate, StartStun, handleStunAddr, IceTest, IceStore, LateCallback,
              IceSignal, manager
<1> QED BY <1>1, <1>2, <1>3 DEF Step

LEMMA MainChanges ==
  ASSUME NEW n \in Node, Step(n)
  PROVE  UNCHANGED main \/ Accept(n) \/ HandleFlag(n) \/ SetterTest(n) \/ SetterStore(n)
<1>1. User(n) => UNCHANGED main \/ Accept(n)
  BY DEF User, handlePush2TalkCallRemote, handlePush2TalkQuit, Reject, AlertTimeout
<1>2. MainThread(n) => UNCHANGED main \/ HandleFlag(n) \/ SetterTest(n) \/ SetterStore(n)
  BY DEF MainThread, HandleQ_SDP, HandleR_SDP, HandleD_CON, HandleOther, RunPosted
<1>3. ASSUME NEW k \in Thread, StunThread(n, k) \/ IceSignal(n, k) PROVE UNCHANGED main
  BY <1>3 DEF StunThread, StunCreate, StartStun, handleStunAddr, IceTest, IceStore, LateCallback,
              IceSignal
<1> QED BY <1>1, <1>2, <1>3 DEF Step

LEMMA PostedChanges ==
  ASSUME NEW n \in Node, Step(n)
  PROVE  UNCHANGED posted \/ RunPosted(n) \/ \E k \in Thread : IceTest(n, k)
<1>1. User(n) => UNCHANGED posted
  BY DEF User, handlePush2TalkCallRemote, handlePush2TalkQuit, Accept, Reject, AlertTimeout
<1>2. MainThread(n) => UNCHANGED posted \/ RunPosted(n)
  BY DEF MainThread, HandleQ_SDP, HandleR_SDP, HandleD_CON, HandleFlag, HandleOther,
         SetterTest, SetterStore
<1>3. ASSUME NEW k \in Thread, StunThread(n, k) \/ IceSignal(n, k)
      PROVE  UNCHANGED posted \/ IceTest(n, k)
  BY <1>3 DEF StunThread, StunCreate, StartStun, handleStunAddr, IceStore, LateCallback, IceSignal
<1> QED BY <1>1, <1>2, <1>3 DEF Step

LEMMA TalksChanges ==
  ASSUME NEW n \in Node, Step(n)
  PROVE  \/ UNCHANGED <<controller, talks>>
         \/ closePush2Talk(n)
         \/ handlePush2TalkCallRemote(n) \/ SetterTest(n) \/ RunPosted(n)
<1>1. User(n) => \/ UNCHANGED <<controller, talks>>
                 \/ closePush2Talk(n) \/ handlePush2TalkCallRemote(n)
  BY DEF User, handlePush2TalkQuit, Accept, Reject, AlertTimeout
<1>2. MainThread(n) => \/ UNCHANGED <<controller, talks>>
                       \/ closePush2Talk(n) \/ SetterTest(n) \/ RunPosted(n)
  BY DEF MainThread, HandleQ_SDP, HandleR_SDP, HandleD_CON, HandleFlag, HandleOther, SetterStore, ui
<1>3. ASSUME NEW k \in Thread, StunThread(n, k) \/ IceSignal(n, k) PROVE UNCHANGED <<controller, talks>>
  BY <1>3 DEF StunThread, StunCreate, StartStun, handleStunAddr, IceTest, IceStore, LateCallback,
              IceSignal, ui
<1> QED BY <1>1, <1>2, <1>3 DEF Step

-----------------------------------------------------------------------------
(* NoTalkUnaccepted.                                                       *)

AckFlags == {"r_ack_received", "r_ack_sent"}

(* Nothing that an acceptance leaves behind: no R_ACK, none of its flags,  *)
(* no talk and none that is about to start.                                *)
Unaccepted(m) ==
  /\ talks[m] = 0 /\ posted[m] = 0
  /\ ~Has(m, "R_ACK")
  /\ flag[m] \cap AckFlags = {}
  /\ mpc[m] # "idle" => setter[m] \notin AckFlags

UInv == accepted = {} => \A m \in Node : Unaccepted(m)

LEMMA UnacceptedStep ==
  ASSUME TInv, NEW n \in Node, Unaccepted(n), Step(n), ~Accept(n), ~Has(n, "R_ACK")'
  PROVE  Unaccepted(n)'
<1>0. ManagerType /\ MainType /\ UiType /\ StunType /\ PostType /\ InboxType
  BY DEF TInv
<1>1. flag'[n] \cap AckFlags = {}
  <2>1. CASE UNCHANGED flag
    BY <2>1 DEF Unaccepted
  <2>2. CASE SetterStore(n)
    BY <1>0, <2>2 DEF SetterStore, Set, Unaccepted, ManagerType
  <2>3. CASE flag' = [flag EXCEPT ![n] = {}]
    BY <1>0, <2>3 DEF ManagerType
  <2> QED BY <2>1, <2>2, <2>3, FlagChanges
<1>2. mpc'[n] # "idle" => setter'[n] \notin AckFlags
  <2>1. CASE UNCHANGED main
    BY <2>1 DEF main, Unaccepted
  <2>2. CASE HandleFlag(n)
    <3>1. PICK r \in {"Q_CON", "R_CON", "R_ACK"} : Handles(n, r) /\ Enter(n, FlagOf(r))
      BY <2>2 DEF HandleFlag
    <3>2. inbox[n] # <<>> /\ Consume(n)
      BY <2>2 DEF HandleFlag, Handles
    <3>3. r # "R_ACK"
      BY <1>0, <3>1, <3>2, ConsumeMail, TailMail DEF Handles, Unaccepted
    <3>4. setter'[n] = FlagOf(r)
      BY <1>0, <3>1 DEF Enter, Set, MainType
    <3> QED BY <3>3, <3>4 DEF FlagOf, AckFlags
  <2>3. CASE SetterTest(n)
    BY <1>0, <2>3 DEF SetterTest, Set, Unaccepted, MainType
  <2>4. CASE SetterStore(n)
    BY <1>0, <2>4 DEF SetterStore, Set, MainType
  <2> QED BY <2>1, <2>2, <2>3, <2>4, MainChanges
<1>3. posted'[n] = 0
  <2>1. CASE UNCHANGED posted
    BY <2>1 DEF Unaccepted
  <2>2. ASSUME NEW k \in Thread, IceTest(n, k) PROVE posted'[n] = 0
    <3>1. ~(Needed(spc[n][k]) \subseteq flag[n])
      BY DEF Needed, Unaccepted, AckFlags
    <3> QED BY <1>0, <2>2, <3>1 DEF IceTest, Set, Unaccepted, PostType
  <2>3. ~RunPosted(n)
    BY DEF RunPosted, Unaccepted
  <2> QED BY <2>1, <2>2, <2>3, PostedChanges
<1>4. talks'[n] = 0
  <2>1. CASE UNCHANGED <<controller, talks>> \/ handlePush2TalkCallRemote(n)
    BY <2>1 DEF Unaccepted, handlePush2TalkCallRemote
  <2>2. CASE closePush2Talk(n)
    BY <1>0, <2>2 DEF UiType, closePush2Talk, Set
  <2>3. ~RunPosted(n)
    BY DEF RunPosted, Unaccepted
  <2>4. CASE SetterTest(n)
    <3>1. setter[n] \in Flag /\ setter[n] \notin AckFlags
      BY <1>0, <2>4 DEF SetterTest, MainType, SetterIsFlag, Unaccepted
    <3>2. Partner(setter[n]) \in AckFlags
      BY <3>1 DEF Partner, Flag, AckFlags
    <3>3. ~Finds(n, setter[n])
      BY <3>2 DEF Finds, Unaccepted
    <3> QED BY <2>4, <3>3 DEF SetterTest, Unaccepted
  <2> QED BY <2>1, <2>2, <2>3, <2>4, TalksChanges
<1> QED BY <1>1, <1>2, <1>3, <1>4 DEF Unaccepted

LEMMA AcceptedGrows ==
  ASSUME NEW n \in Node, Step(n) PROVE accepted \subseteq accepted' /\ (Accept(n) => accepted' # {})
<1>1. Accept(n) \/ UNCHANGED accepted
  <2>1. User(n) => Accept(n) \/ UNCHANGED accepted
    BY DEF User, handlePush2TalkCallRemote, handlePush2TalkQuit, Reject, AlertTimeout, history
  <2>2. MainThread(n) => UNCHANGED accepted
    BY DEF MainThread, HandleQ_SDP, HandleR_SDP, HandleD_CON, HandleFlag, HandleOther,
           SetterTest, SetterStore, RunPosted, history
  <2>3. ASSUME NEW k \in Thread, StunThread(n, k) \/ IceSignal(n, k) PROVE UNCHANGED accepted
    BY <2>3 DEF StunThread, StunCreate, StartStun, handleStunAddr, IceTest, IceStore, LateCallback,
                IceSignal, history
  <2> QED BY <2>1, <2>2, <2>3 DEF Step
<1> QED BY <1>1 DEF Accept

LEMMA UStep ==
  ASSUME TInv, UInv, [Next]_vars PROVE UInv'
<1>1. CASE UNCHANGED vars
  BY <1>1 DEF UInv, Unaccepted, Has, vars, manager, main, ui, history
<1>2. ASSUME NEW n \in Node, Step(n), accepted' = {}, NEW m \in Node PROVE Unaccepted(m)'
  <2>1. accepted = {} /\ ~Accept(n)
    BY <1>2, AcceptedGrows
  <2>2. Unaccepted(m) /\ ~Has(m, "R_ACK")'
    <3>1. Unaccepted(m)
      BY <2>1 DEF UInv
    <3> QED BY <1>2, <2>1, <3>1, MailOrigin DEF Unaccepted, Origin
  <2>3. CASE m = n
    BY <1>2, <2>1, <2>2, <2>3, UnacceptedStep
  <2>4. CASE m # n
    BY <1>2, <2>2, <2>4, StepOthers DEF Same, ManagerSame, MainSame, UiSame, Unaccepted
  <2> QED BY <2>3, <2>4
<1> QED BY <1>1, <1>2 DEF Next, Step, UInv

(* In whatever order calls overlap, whoever places them, no phone begins   *)
(* to talk unless a user accepted a request.                               *)
THEOREM TalkIsAccepted == Spec => []NoTalkUnaccepted
<1>1. Init => UInv
  BY DEF Init, UInv, Unaccepted, Has
<1>2. UInv => NoTalkUnaccepted
  BY DEF UInv, Unaccepted, NoTalkUnaccepted
<1> QED BY <1>1, <1>2, UStep, TypeInit, TypeStep, PTL DEF Spec

-----------------------------------------------------------------------------
(* The properties of a single call.  Their inductive invariant SInv speaks *)
(* of the caller m, the phone q it calls, and what is between them.        *)

Con(m) == IF calls[m] # 0 THEN "r_con_received" ELSE "q_con_received"
Ack(m) == IF calls[m] # 0 THEN "r_ack_received" ELSE "r_ack_sent"
Got(m, f) == f \in flag[m] \/ (mpc[m] # "idle" /\ setter[m] = f)
Stored(m) == flag[m] \cup (IF mpc[m] = "store" THEN {setter[m]} ELSE {})

(* A phone has one stun thread; what it holds at each of its points.       *)
OneThread(m) ==
  /\ spawned[m] <= 1
  /\ \A k \in Thread :
      /\ spc[m][k] # "none" => k = 1 /\ spawned[m] = 1
      /\ spc[m][k] = "start" => agent[m] = 0
      /\ spc[m][k] \in {"start", "created"} => stream[m] = 0
      /\ spc[m][k] = "created" => agent[m] = k
      /\ spc[m][k] \in Callback => lock[m] = "stun"
      /\ spc[m][k] = "blocked" => lock[m] # "free"
      /\ spc[m][k] # "dangling"
      /\ spc[m][k] \in {"testCaller", "testRecver"} => ~ice[m]
  /\ spawned[m] = 0 => thread[m] = 0 /\ agent[m] = 0 /\ stream[m] = 0

(* Caller and callee have flags of their own, each set at most once.       *)
InRole(m) ==
  /\ busy[m] <=> session[m] # "none"
  /\ session[m] # IF calls[m] # 0 THEN "Recver" ELSE "Caller"
  /\ flag[m] \subseteq {Con(m), Ack(m)}
  /\ mpc[m] # "idle" => setter[m] \in {Con(m), Ack(m)} \ flag[m]
  /\ alert[m] => calls[m] = 0 /\ ~controller[m] /\ ~Got(m, "r_ack_sent")

(* Without a session nothing is left of the call.                          *)
NoSession(m) ==
  session[m] = "none" => /\ talks[m] = 0 /\ ~controller[m] /\ flag[m] = {}
                         /\ mpc[m] = "idle" /\ ~alert[m]

(* The talk started, or is about to: both flags are there or being stored, *)
(* so that no setter tests again, and so is the success of ICE.            *)
StartsOnce(m) ==
  session[m] # "none" =>
    /\ talks[m] + posted[m] <= 1
    /\ talks[m] + posted[m] > 0 => /\ {Con(m), Ack(m)} \subseteq Stored(m)
                                   /\ ice[m] \/ \E k \in Thread : spc[m][k] = "store"

Unused(m) == calls[m] = 0 /\ spawned[m] = 0 => session[m] = "none" /\ posted[m] = 0

Local(m) == OneThread(m) /\ InRole(m) /\ NoSession(m) /\ StartsOnce(m) /\ Unused(m)

Takes(n) == HandleQ_SDP(n) /\ ~Refuses(n)

LEMMA StopEffect ==
  ASSUME StunType, NEW n \in Node, stopStunThread(n)
  PROVE  /\ thread'[n] = 0 /\ stream'[n] = 0 /\ spawned'[n] = spawned[n]
         /\ \/ Closes(n) /\ LockFree(n) /\ lock'[n] = "main" /\ agent'[n] = 0
            \/ ~Closes(n) /\ lock'[n] = lock[n] /\ agent'[n] = agent[n]
         /\ \A k \in Thread :
              \/ spc'[n][k] = spc[n][k]
              \/ Closes(n) /\ spc[n][k] \in {"gather", "run"} /\ spc'[n][k] \in {"done", "blocked"}
              \/ Closes(n) /\ spc[n][k] \in Callback /\ spc'[n][k] = "dangling"
<1>1. thread'[n] = 0 /\ stream'[n] = 0 /\ spawned'[n] = spawned[n]
  BY DEF stopStunThread, Set, StunType
<1>2. CASE Closes(n)
  <2>1. PICK pc \in {"done", "blocked"} :
          spc' = [spc EXCEPT ![n] = AgentGone(n, {thread[n], agent[n]}, pc)]
    BY <1>2 DEF stopStunThread
  <2>2. \A k \in Thread : \/ spc'[n][k] = spc[n][k]
                          \/ spc[n][k] \in {"gather", "run"} /\ spc'[n][k] \in {"done", "blocked"}
                          \/ spc[n][k] \in Callback /\ spc'[n][k] = "dangling"
    BY <2>1 DEF AgentGone, StunType
  <2>3. LockFree(n) /\ lock'[n] = "main" /\ agent'[n] = 0
    BY <1>2 DEF stopStunThread, Set, StunType
  <2> QED BY <1>1, <1>2, <2>2, <2>3
<1>3. CASE ~Closes(n)
  BY <1>1, <1>3 DEF stopStunThread
<1> QED BY <1>2, <1>3

LEMMA SpawnEffect ==
  ASSUME StunType, NEW n \in Node, spawned[n] < MaxThreads,
         spc' = [spc EXCEPT ![n][spawned[n] + 1] = "start"]
  PROVE  /\ spawned[n] + 1 \in Thread /\ spc'[n][spawned[n] + 1] = "start"
         /\ \A k \in Thread : k # spawned[n] + 1 => spc'[n][k] = spc[n][k]
<1>1. spawned[n] + 1 \in Thread
  BY CallAssumption DEF StunType, Thread
<1> QED BY <1>1 DEF StunType

LEMMA CallEffect ==
  ASSUME TInv, NEW n \in Node, handlePush2TalkCallRemote(n), OneThread(n), spawned[n] = 0
  PROVE  /\ mpc[n] = "idle" /\ MainSame(n) /\ posted[n] = 0 /\ posted'[n] = 0
         /\ busy'[n] = TRUE /\ session'[n] = "Caller" /\ flag'[n] = flag[n] /\ ice'[n] = ice[n]
         /\ controller'[n] = TRUE /\ talks'[n] = talks[n] /\ alert'[n] = alert[n]
         /\ calls'[n] = calls[n] + 1 /\ inbox' = inbox /\ accepted' = accepted
         /\ stream'[n] = 0 /\ agent'[n] = 0 /\ lock'[n] = lock[n] /\ spawned'[n] = 1
         /\ 1 \in Thread /\ spc'[n][1] = "start"
         /\ \A k \in Thread : k # 1 => spc'[n][k] = "none"
<1>0. ManagerType /\ MainType /\ UiType /\ StunType /\ PostType
  BY DEF TInv
<1>1. /\ mpc[n] = "idle" /\ MainSame(n) /\ posted[n] = 0 /\ posted'[n] = 0
      /\ busy'[n] = TRUE /\ session'[n] = "Caller" /\ flag'[n] = flag[n] /\ ice'[n] = ice[n]
      /\ controller'[n] = TRUE /\ talks'[n] = talks[n] /\ alert'[n] = alert[n]
      /\ inbox' = inbox /\ accepted' = accepted
  BY <1>0 DEF handlePush2TalkCallRemote, Set, main, MainSame, ManagerType, UiType
<1>2. calls'[n] = calls[n] + 1
  BY <1>0 DEF handlePush2TalkCallRemote, Set, PostType
<1>3. stream'[n] = 0 /\ agent'[n] = 0 /\ lock'[n] = lock[n] /\ thread[n] = 0
  BY DEF handlePush2TalkCallRemote, OneThread
<1>4. /\ spawned[n] < MaxThreads /\ spawned' = [spawned EXCEPT ![n] = spawned[n] + 1]
      /\ spc' = [spc EXCEPT ![n][spawned[n] + 1] = "start"]
  BY <1>3 DEF handlePush2TalkCallRemote, startStunThread, Set
<1>5. spawned'[n] = 1 /\ spawned[n] + 1 = 1
  BY <1>0, <1>4 DEF StunType
<1>6. 1 \in Thread /\ spc'[n][1] = "start" /\ \A k \in Thread : k # 1 => spc'[n][k] = spc[n][k]
  BY <1>0, <1>4, <1>5, SpawnEffect
<1>7. \A k \in Thread : k # 1 => spc[n][k] = "none"
  BY DEF OneThread
<1> QED BY <1>1, <1>2, <1>3, <1>5, <1>6, <1>7

LEMMA TakesEffect ==
  ASSUME TInv, NEW n \in Node, Takes(n), OneThread(n), spawned[n] = 0
  PROVE  /\ mpc[n] = "idle" /\ MainSame(n) /\ posted'[n] = posted[n]
         /\ busy'[n] = TRUE /\ session'[n] = "Recver" /\ flag'[n] = {} /\ ice'[n] = FALSE
         /\ controller'[n] = controller[n] /\ talks'[n] = talks[n] /\ alert'[n] = TRUE
         /\ calls'[n] = calls[n] /\ Consume(n) /\ accepted' = accepted
         /\ inbox[n] # <<>> /\ Head(inbox[n]) = "Q_SDP"
         /\ stream'[n] = 0 /\ agent'[n] = 0 /\ lock'[n] = lock[n] /\ spawned'[n] = 1
         /\ 1 \in Thread /\ spc'[n][1] = "start"
         /\ \A k \in Thread : k # 1 => spc'[n][k] = "none"
<1>0. ManagerType /\ MainType /\ UiType /\ StunType /\ PostType
  BY DEF TInv
<1>1. /\ mpc[n] = "idle" /\ MainSame(n) /\ posted'[n] = posted[n]
      /\ controller'[n] = controller[n] /\ talks'[n] = talks[n] /\ alert'[n] = TRUE
      /\ calls'[n] = calls[n] /\ Consume(n) /\ accepted' = accepted
      /\ inbox[n] # <<>> /\ Head(inbox[n]) = "Q_SDP"
  BY <1>0 DEF Takes, HandleQ_SDP, Handles, Set, main, history, MainSame, UiType
<1>2. busy'[n] = TRUE /\ session'[n] = "Recver" /\ flag'[n] = {} /\ ice'[n] = FALSE
  BY <1>0 DEF Takes, HandleQ_SDP, Set, ManagerType
<1>3. stream'[n] = 0 /\ agent'[n] = 0 /\ lock'[n] = lock[n]
  BY DEF Takes, HandleQ_SDP, OneThread
<1>4. /\ spawned[n] < MaxThreads /\ spawned' = [spawned EXCEPT ![n] = spawned[n] + 1]
      /\ spc' = [spc EXCEPT ![n][spawned[n] + 1] = "start"]
  BY DEF Takes, HandleQ_SDP, Set
<1>5. spawned'[n] = 1 /\ spawned[n] + 1 = 1
  BY <1>0, <1>4 DEF StunType
<1>6. 1 \in Thread /\ spc'[n][1] = "start" /\ \A k \in Thread : k # 1 => spc'[n][k] = spc[n][k]
  BY <1>0, <1>4, <1>5, SpawnEffect
<1>7. \A k \in Thread : k # 1 => spc[n][k] = "none"
  BY DEF OneThread
<1> QED BY <1>1, <1>2, <1>3, <1>5, <1>6, <1>7

LEMMA ResetEffect ==
  ASSUME TInv, NEW n \in Node, handlePush2TalkQuit(n) \/ HandleD_CON(n)
  PROVE  /\ mpc[n] = "idle" /\ MainSame(n) /\ posted'[n] = posted[n] /\ calls'[n] = calls[n]
         /\ accepted' = accepted
         /\ busy'[n] = FALSE /\ session'[n] = "none" /\ flag'[n] = {} /\ ice'[n] = FALSE
         /\ session[n] # "none" => controller'[n] = FALSE /\ talks'[n] = 0
         /\ \/ handlePush2TalkQuit(n) /\ controller[n] /\ alert'[n] = alert[n]
            \/ HandleD_CON(n) /\ session[n] # "none" /\ alert'[n] = FALSE
         /\ stopStunThread(n)
<1>0. ManagerType /\ MainType /\ UiType /\ StunType /\ PostType
  BY DEF TInv
<1>1. resetStates(n) /\ stopStunThread(n)
  BY DEF handlePush2TalkQuit, HandleD_CON
<1>2. busy'[n] = FALSE /\ session'[n] = "none" /\ flag'[n] = {} /\ ice'[n] = FALSE
  BY <1>0, <1>1 DEF resetStates, Set, ManagerType
<1>3. session[n] # "none" => closePush2Talk(n)
  BY DEF handlePush2TalkQuit, HandleD_CON
<1>4. session[n] # "none" => controller'[n] = FALSE /\ talks'[n] = 0
  BY <1>0, <1>3 DEF closePush2Talk, Set, UiType
<1>5. CASE handlePush2TalkQuit(n)
  BY <1>1, <1>2, <1>4, <1>5 DEF handlePush2TalkQuit, main, MainSame
<1>6. CASE HandleD_CON(n)
  BY <1>0, <1>1, <1>2, <1>4, <1>6 DEF HandleD_CON, Handles, Set, main, MainSame, history, UiType
<1> QED BY <1>5, <1>6

LEMMA RejectEffect ==
  ASSUME TInv, NEW n \in Node, Reject(n)
  PROVE  /\ mpc[n] = "idle" /\ MainSame(n) /\ posted'[n] = posted[n] /\ calls'[n] = calls[n]
         /\ busy'[n] = FALSE /\ session'[n] = "none" /\ flag'[n] = {} /\ ice'[n] = FALSE
         /\ controller'[n] = controller[n] /\ talks'[n] = talks[n]
         /\ alert[n] /\ alert'[n] = FALSE /\ thread'[n] = 0
         /\ UNCHANGED <<stream, agent, lock, spc, spawned>>
<1>0. ManagerType /\ UiType /\ StunType
  BY DEF TInv
<1>1. busy'[n] = FALSE /\ session'[n] = "none" /\ flag'[n] = {} /\ ice'[n] = FALSE
  BY <1>0 DEF Reject, resetStates, Set, ManagerType
<1> QED BY <1>0, <1>1 DEF Reject, Set, main, history, MainSame, UiType, StunType

(* What a step of n meets in a single call: a thread is only started where *)
(* there is none, and messages fit the phone's role.                       *)
Fits(n) ==
  /\ handlePush2TalkCallRemote(n) \/ Takes(n) => calls[n] = 0 /\ spawned[n] = 0
  /\ ~(HandleQ_SDP(n) /\ Refuses(n))
  /\ \A r \in {"Q_CON", "R_CON", "R_ACK"} :
       Handles(n, r) => FlagOf(r) \in {Con(n), Ack(n)} /\ ~Got(n, FlagOf(r))

LEMMA StunChanges ==
  ASSUME NEW n \in Node, Step(n)
  PROVE  \/ UNCHANGED <<thread, stream, agent, lock, spc, spawned>>
         \/ handlePush2TalkCallRemote(n) \/ Takes(n) \/ stopStunThread(n) \/ Reject(n)
         \/ \E k \in Thread : StunThread(n, k) \/ IceSignal(n, k)
<1>1. User(n) => \/ UNCHANGED <<thread, stream, agent, lock, spc, spawned>>
                 \/ handlePush2TalkCallRemote(n) \/ stopStunThread(n) \/ Reject(n)
  BY DEF User, handlePush2TalkQuit, Accept, AlertTimeout, stun
<1>2. MainThread(n) => \/ UNCHANGED <<thread, stream, agent, lock, spc, spawned>>
                       \/ Takes(n) \/ stopStunThread(n)
  <2>1. HandleQ_SDP(n) => UNCHANGED <<thread, stream, agent, lock, spc, spawned>> \/ Takes(n)
    BY DEF HandleQ_SDP, Takes, stun
  <2> QED BY <2>1 DEF MainThread, HandleR_SDP, HandleD_CON, HandleFlag, HandleOther, SetterTest,
                      SetterStore, RunPosted, stun
<1> QED BY <1>1, <1>2 DEF Step

LEMMA IceChanges ==
  ASSUME TInv, NEW n \in Node, Step(n)
  PROVE  \/ ice'[n] = ice[n] \/ Takes(n) \/ handlePush2TalkQuit(n) \/ HandleD_CON(n) \/ Reject(n)
         \/ \E k \in Thread : IceStore(n, k)
<1>1. User(n) => ice'[n] = ice[n] \/ handlePush2TalkQuit(n) \/ Reject(n)
  BY DEF User, handlePush2TalkCallRemote, Accept, AlertTimeout, manager
<1>2. MainThread(n) => ice'[n] = ice[n] \/ Takes(n) \/ HandleD_CON(n)
  <2>1. HandleQ_SDP(n) => ice'[n] = ice[n] \/ Takes(n)
    BY DEF HandleQ_SDP, Takes, manager
  <2> QED BY <2>1 DEF MainThread, HandleR_SDP, HandleFlag, HandleOther, SetterTest,
                      SetterStore, RunPosted, manager
<1>3. ASSUME NEW k \in Thread, StunThread(n, k) \/ IceSignal(n, k)
      PROVE  ice'[n] = ice[n] \/ IceStore(n, k)
  BY <1>3 DEF StunThread, StunCreate, StartStun, handleStunAddr, IceTest, LateCallback,
              IceSignal, manager
<1> QED BY <1>1, <1>2, <1>3 DEF Step

(* A step of the one stun thread moves that thread only.                   *)
LEMMA PointEffect ==
  ASSUME TInv, NEW n \in Node, NEW k \in Thread, StunThread(n, k) \/ IceSignal(n, k), OneThread(n)
  PROVE  /\ k = 1 /\ spc[n][k] # "none" /\ spawned[n] = 1 /\ spawned'[n] = 1 /\ thread'[n] = thread[n]
         /\ \A j \in Thread : j # k => spc[n][j] = "none" /\ spc'[n][j] = "none"
         /\ StunCreate(n, k) => spc[n][k] = "start" /\ spc'[n][k] = "created"
         /\ StartStun(n, k) => spc[n][k] = "created" /\ spc'[n][k] = "gather"
         /\ handleStunAddr(n, k) => spc[n][k] = "gather" /\ spc'[n][k] = "run"
         /\ IceTest(n, k) => spc[n][k] \in {"testCaller", "testRecver"} /\ spc'[n][k] = "store"
         /\ IceStore(n, k) => spc[n][k] = "store" /\ spc'[n][k] = "run"
         /\ ~LateCallback(n, k)
         /\ IceSignal(n, k) => spc[n][k] = "run" /\ spc'[n][k] \in {"testCaller", "testRecver"}
<1>0. StunType BY DEF TInv
<1>1. spc[n][k] # "none"
  BY DEF StunThread, StunCreate, StartStun, handleStunAddr, IceTest, IceStore, LateCallback, IceSignal
<1>2. k = 1 /\ spawned[n] = 1 /\ \A j \in Thread : j # k => spc[n][j] = "none"
  BY <1>1 DEF OneThread
<1>3. ~LateCallback(n, k)
  BY DEF LateCallback, OneThread
<1>4. spawned'[n] = spawned[n] /\ thread'[n] = thread[n]
  BY <1>3 DEF StunThread, StunCreate, StartStun, handleStunAddr, IceTest, IceStore, IceSignal
<1>5. CASE StunCreate(n, k)
  <2>1. agent[n] = 0 /\ spc[n][k] = "start"
    BY <1>5 DEF StunCreate, OneThread
  <2>2. spc'[n] = [AgentGone(n, {agent[n]}, "done") EXCEPT ![k] = "created"]
    BY <1>0, <1>5 DEF StunCreate, StunType
  <2>3. \A j \in Thread : AgentGone(n, {agent[n]}, "done")[j] = spc[n][j]
    BY <2>1 DEF AgentGone, Thread
  <2>4. AgentGone(n, {agent[n]}, "done") \in [Thread -> Spc]
    BY <1>0, GoneType
  <2>5. spc'[n][k] = "created" /\ \A j \in Thread : j # k => spc'[n][j] = spc[n][j]
    BY <2>2, <2>3, <2>4
  <2>6. ~StartStun(n, k) /\ ~handleStunAddr(n, k) /\ ~IceTest(n, k) /\ ~IceStore(n, k) /\ ~IceSignal(n, k)
    BY <2>1 DEF StartStun, handleStunAddr, IceTest, IceStore, IceSignal
  <2> QED BY <1>1, <1>2, <1>3, <1>4, <2>1, <2>5, <2>6
<1>6. CASE StartStun(n, k)
  <2>1. spc[n][k] = "created" /\ agent[n] = k
    BY <1>6 DEF StartStun, OneThread
  <2>2. spc' = [spc EXCEPT ![n][k] = "gather"]
    BY <1>6, <2>1 DEF StartStun
  <2>3. spc'[n][k] = "gather" /\ \A j \in Thread : j # k => spc'[n][j] = spc[n][j]
    BY <1>0, <2>2 DEF StunType
  <2>6. ~StunCreate(n, k) /\ ~handleStunAddr(n, k) /\ ~IceTest(n, k) /\ ~IceStore(n, k) /\ ~IceSignal(n, k)
    BY <2>1 DEF StunCreate, handleStunAddr, IceTest, IceStore, IceSignal
  <2> QED BY <1>1, <1>2, <1>3, <1>4, <2>1, <2>3, <2>6
<1>7. CASE handleStunAddr(n, k)
  <2>1. spc[n][k] = "gather" /\ spc' = [spc EXCEPT ![n][k] = "run"]
    BY <1>7 DEF handleStunAddr
  <2>3. spc'[n][k] = "run" /\ \A j \in Thread : j # k => spc'[n][j] = spc[n][j]
    BY <1>0, <2>1 DEF StunType
  <2>6. ~StunCreate(n, k) /\ ~StartStun(n, k) /\ ~IceTest(n, k) /\ ~IceStore(n, k) /\ ~IceSignal(n, k)
    BY <2>1 DEF StunCreate, StartStun, IceTest, IceStore, IceSignal
  <2> QED BY <1>1, <1>2, <1>3, <1>4, <2>1, <2>3, <2>6
<1>8. CASE IceTest(n, k)
  <2>1. spc[n][k] \in {"testCaller", "testRecver"} /\ spc' = [spc EXCEPT ![n][k] = "store"]
    BY <1>8 DEF IceTest
  <2>3. spc'[n][k] = "store" /\ \A j \in Thread : j # k => spc'[n][j] = spc[n][j]
    BY <1>0, <2>1 DEF StunType
  <2>6. ~StunCreate(n, k) /\ ~StartStun(n, k) /\ ~handleStunAddr(n, k) /\ ~IceStore(n, k) /\ ~IceSignal(n, k)
    BY <2>1 DEF StunCreate, StartStun, handleStunAddr, IceStore, IceSignal
  <2> QED BY <1>1, <1>2, <1>3, <1>4, <2>1, <2>3, <2>6
<1>9. CASE IceStore(n, k)
  <2>1. spc[n][k] = "store" /\ spc' = [spc EXCEPT ![n][k] = "run"]
    BY <1>9 DEF IceStore
  <2>3. spc'[n][k] = "run" /\ \A j \in Thread : j # k => spc'[n][j] = spc[n][j]
    BY <1>0, <2>1 DEF StunType
  <2>6. ~StunCreate(n, k) /\ ~StartStun(n, k) /\ ~handleStunAddr(n, k) /\ ~IceTest(n, k) /\ ~IceSignal(n, k)
    BY <2>1 DEF StunCreate, StartStun, handleStunAddr, IceTest, IceSignal
  <2> QED BY <1>1, <1>2, <1>3, <1>4, <2>1, <2>3, <2>6
<1>10. CASE IceSignal(n, k)
  <2>1. /\ spc[n][k] = "run"
        /\ \E v \in {"testCaller", "testRecver"} : spc' = [spc EXCEPT ![n][k] = v]
    BY <1>10 DEF IceSignal
  <2>3. spc'[n][k] \in {"testCaller", "testRecver"} /\ \A j \in Thread : j # k => spc'[n][j] = spc[n][j]
    BY <1>0, <2>1 DEF StunType
  <2>6. ~StunCreate(n, k) /\ ~StartStun(n, k) /\ ~handleStunAddr(n, k) /\ ~IceTest(n, k) /\ ~IceStore(n, k)
    BY <2>1 DEF StunCreate, StartStun, handleStunAddr, IceTest, IceStore
  <2> QED BY <1>1, <1>2, <1>3, <1>4, <2>1, <2>3, <2>6
<1> QED BY <1>3, <1>5, <1>6, <1>7, <1>8, <1>9, <1>10 DEF StunThread

LEMMA OneThreadStep ==
  ASSUME TInv, NEW n \in Node, Step(n), Fits(n), OneThread(n) PROVE OneThread(n)'
<1>0. StunType /\ ManagerType
  BY DEF TInv
<1>1. CASE handlePush2TalkCallRemote(n)
  <2>1. spawned[n] = 0
    BY <1>1 DEF Fits
  <2>2. /\ spawned'[n] = 1 /\ stream'[n] = 0 /\ agent'[n] = 0
        /\ spc'[n][1] = "start" /\ \A k \in Thread : k # 1 => spc'[n][k] = "none"
    BY <1>1, <2>1, CallEffect
  <2> QED BY <2>2 DEF OneThread, Callback
<1>2. CASE Takes(n)
  <2>1. spawned[n] = 0
    BY <1>2 DEF Fits
  <2>2. /\ spawned'[n] = 1 /\ stream'[n] = 0 /\ agent'[n] = 0
        /\ spc'[n][1] = "start" /\ \A k \in Thread : k # 1 => spc'[n][k] = "none"
    BY <1>2, <2>1, TakesEffect
  <2> QED BY <2>2 DEF OneThread, Callback
<1>3. ASSUME NEW k \in Thread, StunThread(n, k) \/ IceSignal(n, k) PROVE OneThread(n)'
  <2>1. /\ k = 1 /\ spawned'[n] = 1
        /\ \A j \in Thread : j # k => spc'[n][j] = "none"
    BY <1>3, PointEffect
  <2>2. CASE StunCreate(n, k)
    <3>1. spc'[n][k] = "created" /\ spc[n][k] = "start"
      BY <1>3, <2>2, PointEffect
    <3>2. agent'[n] = k /\ stream'[n] = stream[n]
      BY <1>0, <2>2 DEF StunCreate, Set, StunType
    <3> QED BY <2>1, <3>1, <3>2 DEF OneThread, Callback
  <2>3. CASE StartStun(n, k) \/ handleStunAddr(n, k)
    <3>1. spc'[n][k] \in {"gather", "run"}
      BY <1>3, <2>3, PointEffect
    <3> QED BY <2>1, <3>1 DEF OneThread, Callback
  <2>4. CASE IceTest(n, k)
    <3>1. spc[n][k] \in {"testCaller", "testRecver"} /\ spc'[n][k] = "store"
      BY <1>3, <2>4, PointEffect
    <3>2. lock' = lock
      BY <2>4 DEF IceTest
    <3> QED BY <2>1, <3>1, <3>2 DEF OneThread, Callback
  <2>5. CASE IceStore(n, k)
    <3>1. spc'[n][k] = "run"
      BY <1>3, <2>5, PointEffect
    <3> QED BY <2>1, <3>1 DEF OneThread, Callback
  <2>6. CASE IceSignal(n, k)
    <3>1. spc'[n][k] \in {"testCaller", "testRecver"}
      BY <1>3, <2>6, PointEffect
    <3>2. lock'[n] = "stun" /\ ~ice'[n]
      BY <1>0, <2>6 DEF IceSignal, Set, manager, StunType
    <3> QED BY <2>1, <3>1, <3>2 DEF OneThread, Callback
  <2> QED BY <1>3, <2>2, <2>3, <2>4, <2>5, <2>6, PointEffect DEF StunThread
<1>4. ASSUME ~\E k \in Thread : StunThread(n, k) \/ IceSignal(n, k), ~Takes(n) PROVE ice'[n] => ice[n]
  BY <1>4, IceChanges, ResetEffect, RejectEffect DEF StunThread
<1>5. ASSUME stopStunThread(n), ice'[n] => ice[n] PROVE OneThread(n)'
  <2>1. /\ thread'[n] = 0 /\ stream'[n] = 0 /\ spawned'[n] = spawned[n]
        /\ \/ Closes(n) /\ LockFree(n) /\ lock'[n] = "main" /\ agent'[n] = 0
           \/ ~Closes(n) /\ lock'[n] = lock[n] /\ agent'[n] = agent[n]
    BY <1>0, <1>5, StopEffect
  <2>2. ASSUME NEW k \in Thread
        PROVE  \/ spc'[n][k] = spc[n][k]
               \/ Closes(n) /\ spc[n][k] \in {"gather", "run"} /\ spc'[n][k] \in {"done", "blocked"}
    <3>1. spc[n][k] \in Callback => ~LockFree(n)
      BY DEF OneThread, LockFree
    <3> QED BY <1>0, <1>5, <2>1, <3>1, StopEffect
  <2>3. CASE Closes(n)
    <3>1. \A k \in Thread : spc[n][k] \notin {"start", "created"} /\ spc[n][k] \notin Callback
      BY <2>1, <2>3 DEF OneThread, Closes, LockFree
    <3>2. lock'[n] = "main" /\ agent'[n] = 0
      BY <2>1, <2>3
    <3> QED BY <1>5, <2>1, <2>2, <3>1, <3>2 DEF OneThread, Callback
  <2>4. CASE ~Closes(n)
    <3>1. \A k \in Thread : spc'[n][k] = spc[n][k]
      BY <2>2, <2>4
    <3>2. lock'[n] = lock[n] /\ agent'[n] = agent[n]
      BY <2>1, <2>4
    <3> QED BY <1>5, <2>1, <3>1, <3>2 DEF OneThread, Callback
  <2> QED BY <2>3, <2>4
<1>6. ASSUME UNCHANGED <<thread, stream, agent, lock, spc, spawned>>, ice'[n] => ice[n] PROVE OneThread(n)'
  BY <1>6 DEF OneThread
<1>7. CASE Reject(n)
  <2>1. thread'[n] = 0 /\ ice'[n] = FALSE /\ UNCHANGED <<stream, agent, lock, spc, spawned>>
    BY <1>7, RejectEffect
  <2> QED BY <2>1 DEF OneThread
<1> QED BY <1>1, <1>2, <1>3, <1>4, <1>5, <1>6, <1>7, StunChanges

(* The stun thread leaves a callback by IceTest and IceStore only.         *)
LEMMA CallbackStays ==
  ASSUME TInv, NEW n \in Node, Step(n), Fits(n), OneThread(n), NEW k \in Thread, spc[n][k] \in Callback
  PROVE  \/ spc'[n][k] = spc[n][k]
         \/ IceTest(n, k) /\ spc'[n][k] = "store"
         \/ IceStore(n, k) /\ ice'[n] = TRUE
<1>0. StunType /\ ManagerType BY DEF TInv
<1>1. spawned[n] = 1 /\ lock[n] = "stun" /\ k = 1
  BY DEF OneThread, Callback
<1>2. ~handlePush2TalkCallRemote(n) /\ ~Takes(n)
  BY <1>1 DEF Fits
<1>3. ASSUME stopStunThread(n) PROVE spc'[n][k] = spc[n][k]
  <2>1. ~LockFree(n) BY <1>1 DEF LockFree
  <2> QED BY <1>0, <1>3, <2>1, StopEffect
<1>4. ASSUME NEW j \in Thread, StunThread(n, j) \/ IceSignal(n, j)
      PROVE  (IceTest(n, k) /\ spc'[n][k] = "store") \/ (IceStore(n, k) /\ ice'[n] = TRUE)
  <2>1. j = k
    BY <1>1, <1>4, PointEffect
  <2>2. IceTest(n, k) \/ IceStore(n, k)
    BY <1>4, <2>1, PointEffect DEF StunThread, Callback
  <2>3. IceStore(n, k) => ice'[n] = TRUE
    BY <1>0 DEF IceStore, Set, ManagerType
  <2> QED BY <1>4, <2>1, <2>2, <2>3, PointEffect
<1>5. Reject(n) => spc'[n][k] = spc[n][k]
  BY RejectEffect
<1> QED BY <1>2, <1>3, <1>4, <1>5, StunChanges

LEMMA LocalCall ==
  ASSUME TInv, NEW n \in Node, Local(n), handlePush2TalkCallRemote(n), Fits(n)
  PROVE  InRole(n)' /\ NoSession(n)' /\ StartsOnce(n)' /\ Unused(n)'
<1>1. calls[n] = 0 /\ spawned[n] = 0 /\ OneThread(n)
  BY DEF Fits, Local
<1>2. session[n] = "none" /\ posted[n] = 0 /\ talks[n] = 0 /\ flag[n] = {} /\ ~alert[n] /\ mpc[n] = "idle"
  BY <1>1 DEF Local, Unused, NoSession
<1>3. /\ MainSame(n) /\ posted'[n] = 0
      /\ busy'[n] = TRUE /\ session'[n] = "Caller" /\ flag'[n] = flag[n]
      /\ talks'[n] = talks[n] /\ alert'[n] = alert[n] /\ calls'[n] = calls[n] + 1
  BY <1>1, CallEffect
<1>4. calls'[n] = 1 /\ mpc'[n] = "idle" /\ talks'[n] + posted'[n] = 0
  BY <1>1, <1>2, <1>3 DEF MainSame
<1> QED BY <1>2, <1>3, <1>4 DEF InRole, NoSession, StartsOnce, Unused

LEMMA LocalTakes ==
  ASSUME TInv, NEW n \in Node, Local(n), Takes(n), Fits(n)
  PROVE  InRole(n)' /\ NoSession(n)' /\ StartsOnce(n)' /\ Unused(n)'
<1>1. calls[n] = 0 /\ spawned[n] = 0 /\ OneThread(n)
  BY DEF Fits, Local
<1>2. session[n] = "none" /\ posted[n] = 0 /\ talks[n] = 0 /\ ~controller[n] /\ mpc[n] = "idle"
  BY <1>1 DEF Local, Unused, NoSession
<1>3. /\ MainSame(n) /\ posted'[n] = posted[n] /\ spawned'[n] = 1
      /\ busy'[n] = TRUE /\ session'[n] = "Recver" /\ flag'[n] = {}
      /\ talks'[n] = talks[n] /\ controller'[n] = controller[n] /\ calls'[n] = calls[n]
  BY <1>1, TakesEffect
<1>4. calls'[n] = 0 /\ mpc'[n] = "idle" /\ talks'[n] + posted'[n] = 0
  BY <1>1, <1>2, <1>3 DEF MainSame
<1> QED BY <1>2, <1>3, <1>4 DEF InRole, NoSession, StartsOnce, Unused, Got

LEMMA LocalReset ==
  ASSUME TInv, NEW n \in Node, Local(n), handlePush2TalkQuit(n) \/ HandleD_CON(n)
  PROVE  InRole(n)' /\ NoSession(n)' /\ StartsOnce(n)' /\ Unused(n)' /\ session[n] # "none"
<1>1. /\ mpc[n] = "idle" /\ MainSame(n) /\ posted'[n] = posted[n] /\ calls'[n] = calls[n]
      /\ busy'[n] = FALSE /\ session'[n] = "none" /\ flag'[n] = {}
      /\ session[n] # "none" => controller'[n] = FALSE /\ talks'[n] = 0
      /\ stopStunThread(n)
  BY ResetEffect
<1>2. session[n] # "none" /\ ~alert'[n]
  BY ResetEffect DEF Local, NoSession, InRole
<1>3. spawned'[n] = spawned[n]
  BY <1>1, StopEffect DEF TInv
<1>4. mpc'[n] = "idle"
  BY <1>1 DEF MainSame
<1> QED BY <1>1, <1>2, <1>3, <1>4 DEF Local, InRole, NoSession, StartsOnce, Unused

(* The alert is answered with a rejection, or not at all.                  *)
LEMMA LocalAlert ==
  ASSUME TInv, NEW n \in Node, Local(n), alert[n]
  PROVE  session[n] = "Recver" /\ talks[n] = 0 /\ posted[n] = 0 /\ ~controller[n] /\ calls[n] = 0
<1>1. calls[n] = 0 /\ ~controller[n] /\ ~Got(n, "r_ack_sent") /\ session[n] # "none"
  BY DEF Local, InRole, NoSession
<1>2. session[n] = "Recver"
  BY <1>1 DEF Local, InRole, TInv, ManagerType, Session
<1>3. talks[n] \in Nat /\ posted[n] \in Nat
  BY DEF TInv, UiType, PostType
<1>4. Ack(n) \notin Stored(n)
  BY <1>1 DEF Ack, Stored, Got
<1>5. ~(talks[n] + posted[n] > 0)
  BY <1>1, <1>4 DEF Local, StartsOnce
<1> QED BY <1>1, <1>2, <1>3, <1>5

LEMMA LocalReject ==
  ASSUME TInv, NEW n \in Node, Local(n), Reject(n)
  PROVE  InRole(n)' /\ NoSession(n)' /\ StartsOnce(n)' /\ Unused(n)' /\ session[n] # "none"
<1>1. /\ mpc[n] = "idle" /\ MainSame(n) /\ posted'[n] = posted[n] /\ calls'[n] = calls[n]
      /\ busy'[n] = FALSE /\ session'[n] = "none" /\ flag'[n] = {}
      /\ controller'[n] = controller[n] /\ talks'[n] = talks[n] /\ alert[n] /\ alert'[n] = FALSE
  BY RejectEffect
<1>2. session[n] = "Recver" /\ talks[n] = 0 /\ posted[n] = 0 /\ ~controller[n]
  BY <1>1, LocalAlert
<1>3. mpc'[n] = "idle"
  BY <1>1 DEF MainSame
<1> QED BY <1>1, <1>2, <1>3 DEF InRole, NoSession, StartsOnce, Unused

LEMMA TimeoutEffect ==
  ASSUME TInv, NEW n \in Node, AlertTimeout(n)
  PROVE  /\ mpc[n] = "idle" /\ MainSame(n) /\ posted'[n] = posted[n] /\ calls'[n] = calls[n]
         /\ ManagerSame(n) /\ StunSame(n) /\ controller'[n] = controller[n] /\ talks'[n] = talks[n]
         /\ alert[n] /\ alert'[n] = FALSE
BY DEF AlertTimeout, Set, manager, main, stun, history, ManagerSame, MainSame, StunSame, TInv, UiType

LEMMA LocalTimeout ==
  ASSUME TInv, NEW n \in Node, Local(n), AlertTimeout(n)
  PROVE  InRole(n)' /\ NoSession(n)' /\ StartsOnce(n)' /\ Unused(n)'
<1>1. /\ MainSame(n) /\ posted'[n] = posted[n] /\ calls'[n] = calls[n]
      /\ ManagerSame(n) /\ StunSame(n) /\ controller'[n] = controller[n] /\ talks'[n] = talks[n]
      /\ alert[n] /\ alert'[n] = FALSE
  BY TimeoutEffect
<1>2. Con(n)' = Con(n) /\ Ack(n)' = Ack(n) /\ Stored(n) = Stored(n)'
  BY <1>1 DEF Con, Ack, Stored, ManagerSame, MainSame
<1>3. InRole(n)'
  BY <1>1, <1>2 DEF Local, InRole, ManagerSame, MainSame
<1>4. StartsOnce(n)'
  BY <1>1, <1>2 DEF Local, StartsOnce, ManagerSame, StunSame
<1> QED BY <1>1, <1>3, <1>4 DEF Local, NoSession, Unused, ManagerSame, MainSame, StunSame

(* Entering a setter: Accept, or a message that fits.                      *)
LEMMA LocalEnter ==
  ASSUME TInv, NEW n \in Node, Local(n), Accept(n) \/ HandleFlag(n), Fits(n)
  PROVE  InRole(n)' /\ NoSession(n)' /\ StartsOnce(n)' /\ Unused(n)'
<1>0. MainType /\ UiType BY DEF TInv
<1>1. /\ mpc[n] = "idle" /\ mpc'[n] = "test" /\ ManagerSame(n) /\ StunSame(n)
      /\ posted'[n] = posted[n] /\ calls'[n] = calls[n]
      /\ controller'[n] = controller[n] /\ talks'[n] = talks[n]
      /\ alert'[n] => alert[n]
  BY <1>0 DEF Accept, HandleFlag, Handles, Enter, Set, manager, stun, ui, history, ManagerSame, StunSame,
              MainType, UiType
<1>2. session[n] # "none" /\ setter'[n] \in {Con(n), Ack(n)} \ flag[n]
      /\ (alert'[n] => setter'[n] # "r_ack_sent")
  <2>1. CASE Accept(n)
    <3>1. alert[n] /\ ~alert'[n] /\ setter'[n] = "r_ack_sent"
      BY <1>0, <2>1 DEF Accept, Enter, Set, MainType, UiType
    <3> QED BY <3>1 DEF Local, NoSession, InRole, Ack, Got
  <2>2. CASE HandleFlag(n)
    <3>1. PICK r \in {"Q_CON", "R_CON", "R_ACK"} : Handles(n, r) /\ session[n] # "none" /\ Enter(n, FlagOf(r))
      BY <2>2 DEF HandleFlag
    <3>2. setter'[n] = FlagOf(r)
      BY <1>0, <3>1 DEF Enter, Set, MainType
    <3> QED BY <3>1, <3>2 DEF Fits, Got, FlagOf
  <2> QED BY <2>1, <2>2
<1>3. Con(n)' = Con(n) /\ Ack(n)' = Ack(n) /\ Stored(n)' = Stored(n)
  BY <1>1 DEF Con, Ack, Stored, ManagerSame
<1>4. InRole(n)'
  BY <1>1, <1>2, <1>3 DEF Local, InRole, Got, ManagerSame
<1>5. StartsOnce(n)'
  BY <1>1, <1>3 DEF Local, StartsOnce, ManagerSame, StunSame
<1> QED BY <1>1, <1>2, <1>4, <1>5 DEF Local, NoSession, Unused, ManagerSame, StunSame

LEMMA LocalStore ==
  ASSUME TInv, NEW n \in Node, Local(n), SetterStore(n)
  PROVE  InRole(n)' /\ NoSession(n)' /\ StartsOnce(n)' /\ Unused(n)'
<1>0. MainType /\ ManagerType BY DEF TInv
<1>1. /\ mpc[n] = "store" /\ mpc'[n] = "idle" /\ flag'[n] = flag[n] \cup {setter[n]}
      /\ busy'[n] = busy[n] /\ session'[n] = session[n] /\ ice'[n] = ice[n] /\ UiSame(n) /\ StunSame(n)
      /\ posted'[n] = posted[n] /\ calls'[n] = calls[n]
  BY <1>0 DEF SetterStore, Set, stun, ui, history, UiSame, StunSame, MainType, ManagerType
<1>2. session[n] # "none"
  BY <1>1 DEF Local, NoSession
<1>3. Con(n)' = Con(n) /\ Ack(n)' = Ack(n) /\ Stored(n)' = Stored(n)
  BY <1>1 DEF Con, Ack, Stored
<1>4. InRole(n)'
  BY <1>1, <1>3 DEF Local, InRole, Got, UiSame
<1>5. StartsOnce(n)'
  BY <1>1, <1>3 DEF Local, StartsOnce, UiSame, StunSame
<1> QED BY <1>1, <1>2, <1>4, <1>5 DEF Local, NoSession, Unused, StunSame

LEMMA LocalTest ==
  ASSUME TInv, NEW n \in Node, Local(n), SetterTest(n)
  PROVE  InRole(n)' /\ NoSession(n)' /\ StartsOnce(n)' /\ Unused(n)'
<1>0. MainType /\ UiType /\ StunType /\ PostType BY DEF TInv
<1>1. /\ mpc[n] = "test" /\ mpc'[n] = "store" /\ setter'[n] = setter[n] /\ ManagerSame(n)
      /\ posted'[n] = posted[n] /\ calls'[n] = calls[n] /\ alert'[n] = alert[n]
  BY <1>0 DEF SetterTest, Set, manager, history, ManagerSame, MainType
<1>2. session[n] # "none" /\ setter[n] \in {Con(n), Ack(n)} \ flag[n]
  BY <1>1 DEF Local, NoSession, InRole
<1>3. Con(n)' = Con(n) /\ Ack(n)' = Ack(n) /\ Stored(n) = flag[n] /\ Stored(n)' = flag[n] \cup {setter[n]}
  BY <1>1 DEF Con, Ack, Stored, ManagerSame
<1>4. controller'[n] = (controller[n] \/ Opens(n))
  BY <1>0 DEF SetterTest, Set, UiType
<1>5. InRole(n)'
  BY <1>1, <1>3, <1>4 DEF Local, InRole, Got, ManagerSame, Opens
<1>6. talks[n] \in Nat /\ posted[n] \in Nat
  BY <1>0 DEF UiType, PostType
<1>7. talks[n] = 0 /\ posted[n] = 0
  <2>1. ~(talks[n] + posted[n] > 0)
    BY <1>2, <1>3 DEF Local, StartsOnce
  <2> QED BY <1>6, <2>1
<1>8. spawned'[n] = spawned[n]
  BY <1>0, StopEffect DEF SetterTest, stun
<1>9. StartsOnce(n)'
  <2>1. CASE Finds(n, setter[n])
    <3>1. talks'[n] = (IF controller[n] \/ Opens(n) THEN talks[n] + 1 ELSE 0)
      BY <1>0, <2>1 DEF SetterTest, Set, UiType
    <3>2. talks'[n] \in {0, 1}
      BY <1>7, <3>1
    <3>3. ice'[n] /\ Partner(setter[n]) \in flag[n]
      BY <1>1, <2>1 DEF Finds, ManagerSame
    <3>4. {Con(n), Ack(n)} = {setter[n], Partner(setter[n])}
      BY <1>2 DEF Con, Ack, Partner
    <3>5. {Con(n), Ack(n)}' \subseteq Stored(n)'
      BY <1>3, <3>3, <3>4
    <3> QED BY <1>1, <1>7, <3>2, <3>3, <3>5 DEF StartsOnce
  <2>2. CASE ~Finds(n, setter[n])
    <3>1. talks'[n] = talks[n]
      BY <2>2 DEF SetterTest
    <3> QED BY <1>1, <1>7, <3>1 DEF StartsOnce
  <2> QED BY <2>1, <2>2
<1> QED BY <1>1, <1>2, <1>5, <1>8, <1>9 DEF Local, NoSession, Unused, ManagerSame

LEMMA LocalPosted ==
  ASSUME TInv, NEW n \in Node, Local(n), RunPosted(n), Step(n), Fits(n)
  PROVE  InRole(n)' /\ NoSession(n)' /\ StartsOnce(n)' /\ Unused(n)'
<1>0. MainType /\ UiType /\ StunType /\ PostType BY DEF TInv
<1>1. /\ MainSame(n) /\ ManagerSame(n) /\ calls'[n] = calls[n]
      /\ controller'[n] = controller[n] /\ alert'[n] = alert[n]
  BY DEF RunPosted, manager, main, history, ManagerSame, MainSame
<1>2. /\ posted[n] > 0 /\ posted'[n] = posted[n] - 1 /\ posted[n] \in Nat /\ talks[n] \in Nat
      /\ talks'[n] = (IF controller[n] THEN talks[n] + 1 ELSE 0)
  BY <1>0 DEF RunPosted, Set, UiType, PostType
<1>3. spawned'[n] = spawned[n]
  BY <1>0, StopEffect DEF RunPosted
<1>4. Con(n)' = Con(n) /\ Ack(n)' = Ack(n) /\ Stored(n) = Stored(n)'
  BY <1>1 DEF Con, Ack, Stored, ManagerSame, MainSame
<1>5. InRole(n)'
  BY <1>1, <1>4 DEF Local, InRole, Got, ManagerSame, MainSame
<1>6. StartsOnce(n)'
  <2> SUFFICES ASSUME session[n] # "none"
               PROVE  /\ talks'[n] + posted'[n] <= 1
                      /\ {Con(n), Ack(n)}' \subseteq Stored(n)'
                      /\ ice'[n] \/ \E k \in Thread : spc'[n][k] = "store"
    BY <1>1 DEF StartsOnce, ManagerSame
  <2>1. talks[n] + posted[n] <= 1 /\ talks[n] + posted[n] > 0
    BY <1>2 DEF Local, StartsOnce
  <2>2. talks'[n] + posted'[n] <= 1
    BY <1>2, <2>1
  <2>3. ice[n] \/ \E k \in Thread : spc[n][k] = "store"
    BY <2>1 DEF Local, StartsOnce
  <2>4. ASSUME NEW k \in Thread, spc[n][k] = "store" PROVE ice'[n] \/ \E j \in Thread : spc'[n][j] = "store"
    BY <2>4, CallbackStays DEF Local, Callback
  <2> QED BY <1>1, <1>4, <2>1, <2>2, <2>3, <2>4 DEF Local, StartsOnce, ManagerSame
<1> QED BY <1>1, <1>2, <1>3, <1>5, <1>6 DEF Local, NoSession, Unused, ManagerSame, MainSame

LEMMA LocalIceTest ==
  ASSUME TInv, NEW n \in Node, Local(n), NEW k \in Thread, IceTest(n, k)
  PROVE  InRole(n)' /\ NoSession(n)' /\ StartsOnce(n)' /\ Unused(n)'
<1>0. MainType /\ UiType /\ StunType /\ PostType BY DEF TInv
<1>1. MainSame(n) /\ ManagerSame(n) /\ UiSame(n) /\ calls'[n] = calls[n]
  BY DEF IceTest, manager, main, ui, history, ManagerSame, MainSame, UiSame
<1>2. OneThread(n) /\ StunThread(n, k)
  BY DEF Local, StunThread
<1>3. /\ spawned'[n] = 1 /\ spc'[n][k] = "store" /\ spc[n][k] \in {"testCaller", "testRecver"}
      /\ \A j \in Thread : j # k => spc[n][j] = "none"
  BY <1>2, PointEffect
<1>4. ~ice[n]
  BY <1>2, <1>3 DEF OneThread
<1>5. talks[n] \in Nat /\ posted[n] \in Nat
  BY <1>0 DEF UiType, PostType
<1>6. session[n] # "none" => talks[n] = 0 /\ posted[n] = 0
  <2>1. session[n] # "none" => ~(talks[n] + posted[n] > 0)
    BY <1>3, <1>4 DEF Local, StartsOnce
  <2> QED BY <1>5, <2>1
<1>7. Con(n)' = Con(n) /\ Ack(n)' = Ack(n) /\ Stored(n) = Stored(n)'
  BY <1>1 DEF Con, Ack, Stored, ManagerSame, MainSame
<1>8. InRole(n)'
  BY <1>1, <1>7 DEF Local, InRole, Got, ManagerSame, MainSame, UiSame
<1>9. StartsOnce(n)'
  <2>1. CASE Needed(spc[n][k]) \subseteq flag[n]
    <3>1. flag[n] \subseteq {Con(n), Ack(n)}
      BY DEF Local, InRole
    <3>2. {Con(n), Ack(n)} \subseteq flag[n]
      BY <1>3, <2>1, <3>1 DEF Needed, Con, Ack
    <3>3. posted'[n] = posted[n] + 1
      BY <1>0, <2>1 DEF IceTest, Set, PostType
    <3>4. session[n] # "none" => talks'[n] + posted'[n] = 1
      BY <1>1, <1>6, <3>3 DEF UiSame
    <3>5. {Con(n), Ack(n)}' \subseteq Stored(n)'
      BY <1>7, <3>2 DEF Stored
    <3> QED BY <1>1, <1>3, <3>4, <3>5 DEF StartsOnce, ManagerSame
  <2>2. CASE ~(Needed(spc[n][k]) \subseteq flag[n])
    <3>1. posted'[n] = posted[n]
      BY <1>0, <2>2 DEF IceTest, Set, PostType
    <3>2. session[n] # "none" => talks'[n] + posted'[n] = 0
      BY <1>1, <1>6, <3>1 DEF UiSame
    <3> QED BY <1>1, <3>2 DEF StartsOnce, ManagerSame
  <2> QED BY <2>1, <2>2
<1> QED BY <1>1, <1>3, <1>8, <1>9 DEF Local, NoSession, Unused, ManagerSame, MainSame, UiSame

(* Steps that leave manager, setter and talk alone but for the success of  *)
(* ICE.                                                                    *)
LEMMA LocalRest ==
  ASSUME TInv, NEW n \in Node, Local(n), Step(n), Fits(n),
         busy'[n] = busy[n] /\ session'[n] = session[n] /\ flag'[n] = flag[n],
         MainSame(n), UiSame(n), posted'[n] = posted[n], calls'[n] = calls[n], spawned'[n] = spawned[n],
         ice'[n] = ice[n] \/ ice'[n] = TRUE
  PROVE  InRole(n)' /\ NoSession(n)' /\ StartsOnce(n)' /\ Unused(n)'
<1>7. Con(n)' = Con(n) /\ Ack(n)' = Ack(n) /\ Stored(n) = Stored(n)'
  BY DEF Con, Ack, Stored, MainSame
<1>8. InRole(n)'
  BY <1>7 DEF Local, InRole, Got, MainSame, UiSame
<1>9. StartsOnce(n)'
  <2>1. ASSUME NEW k \in Thread, spc[n][k] = "store" PROVE ice'[n] \/ \E j \in Thread : spc'[n][j] = "store"
    <3>1. ~IceTest(n, k)
      BY <2>1 DEF IceTest
    <3> QED BY <2>1, <3>1, CallbackStays DEF Local, Callback
  <2> QED BY <1>7, <2>1 DEF Local, StartsOnce, UiSame
<1> QED BY <1>8, <1>9 DEF Local, NoSession, Unused, MainSame, UiSame

LEMMA LocalStep ==
  ASSUME TInv, NEW n \in Node, Local(n), Step(n), Fits(n) PROVE Local(n)'
<1>0. OneThread(n)'
  BY OneThreadStep DEF Local
<1>1. CASE handlePush2TalkCallRemote(n) \/ Takes(n) \/ handlePush2TalkQuit(n) \/ HandleD_CON(n)
           \/ Accept(n) \/ HandleFlag(n) \/ SetterStore(n) \/ SetterTest(n) \/ RunPosted(n)
  BY <1>0, <1>1, LocalCall, LocalTakes, LocalReset, LocalEnter, LocalStore, LocalTest, LocalPosted DEF Local
<1>a. CASE Reject(n) \/ AlertTimeout(n)
  BY <1>0, <1>a, LocalReject, LocalTimeout DEF Local
<1>2. CASE HandleR_SDP(n) \/ HandleOther(n)
  <2>1. /\ ManagerSame(n) /\ MainSame(n) /\ UiSame(n) /\ posted'[n] = posted[n] /\ calls'[n] = calls[n]
        /\ spawned'[n] = spawned[n]
    BY <1>2 DEF HandleR_SDP, HandleOther, manager, main, ui, stun, history, ManagerSame, MainSame, UiSame
  <2> QED BY <1>0, <2>1, LocalRest DEF Local, ManagerSame
<1>3. ASSUME NEW k \in Thread, StunThread(n, k) \/ IceSignal(n, k) PROVE Local(n)'
  <2>1. CASE IceTest(n, k)
    BY <1>0, <2>1, LocalIceTest DEF Local
  <2>2. CASE ~IceTest(n, k)
    <3>1. /\ busy'[n] = busy[n] /\ session'[n] = session[n] /\ flag'[n] = flag[n]
          /\ MainSame(n) /\ UiSame(n) /\ posted'[n] = posted[n] /\ calls'[n] = calls[n]
      BY <1>3, <2>2 DEF StunThread, StunCreate, StartStun, handleStunAddr, IceStore, LateCallback, IceSignal,
             manager, main, ui, history, MainSame, UiSame
    <3>2. spawned'[n] = spawned[n]
      BY <1>3, PointEffect DEF Local
    <3>3. ice'[n] = ice[n] \/ ice'[n] = TRUE
      <4>1. ManagerType BY DEF TInv
      <4> QED BY <1>3, <2>2, <4>1 DEF StunThread, StunCreate, StartStun, handleStunAddr, IceStore, LateCallback,
                                IceSignal, manager, Set, ManagerType
    <3> QED BY <1>0, <3>1, <3>2, <3>3, LocalRest DEF Local
  <2> QED BY <2>1, <2>2
<1>4. ~HandleQ_SDP(n) \/ Takes(n)
  BY DEF Fits, Takes
<1> QED BY <1>1, <1>a, <1>2, <1>3, <1>4 DEF Step, User, MainThread

-----------------------------------------------------------------------------
(* The two phones of a call, and the messages between them.                *)

(* Messages fit the role of the phone they are for ...                     *)
RoleMail(m) ==
  \A r \in Request : Has(m, r) => r \in IF calls[m] # 0 THEN {"R_SDP", "R_CON", "R_ACK", "D_CON"}
                                                   ELSE {"Q_SDP", "Q_CON", "D_CON"}

(* ... and each is either on its way, being handled or recorded.           *)
Tokens(m) ==
  \A r \in {"Q_CON", "R_CON", "R_ACK"} : Has(m, r) => Once(m, r) /\ ~Got(m, FlagOf(r))

Side(m) == Local(m) /\ RoleMail(m) /\ Tokens(m)

(* A phone sends Q_CON or R_CON once ...                                   *)
Signalled(q) == session[q] = "none" \/ ice[q] \/ \E k \in Thread : spc[q][k] \in Callback

(* ... and D_CON when it leaves, or its alert timed out.                   *)
Missed(q) == session[q] = "Recver" /\ ~alert[q] /\ ~Got(q, "r_ack_sent")

FromPeer(m, q) ==
  /\ Has(m, IF calls[m] # 0 THEN "R_CON" ELSE "Q_CON") \/ Got(m, Con(m)) => Signalled(q)
  /\ Has(m, "D_CON") => session[q] = "none" \/ Missed(q)

Early(m) == \E k \in Thread : spc[m][k] \in {"start", "created", "gather"}

(* Caller m and callee q: the acceptance, and the beginning of the call.   *)
Progress(m, q) ==
  /\ Has(m, "R_ACK") \/ Got(m, "r_ack_received") => ~alert[q] /\ q \in accepted
  /\ Got(q, "r_ack_sent") => q \in accepted
  /\ spawned[q] = 0 => /\ inbox[m] = <<>> /\ flag[m] = {} /\ mpc[m] = "idle"
                       /\ posted[m] = 0 /\ talks[m] = 0
  /\ Early(m) => /\ spawned[q] = 0 /\ ~Has(q, "Q_SDP")
                 /\ session[m] # "none" => inbox[q] = <<>>
  /\ Has(q, "Q_SDP") => /\ spawned[q] = 0
                        /\ \A i \in 1..Len(inbox[q]) : inbox[q][i] = "Q_SDP" => i = 1

(* Its end: a phone that is alone in the call has a D_CON coming, unless   *)
(* it told the caller itself that nobody answered.                         *)
Leaving(m, q) ==
  /\ session[m] = "none" /\ Has(q, "Q_SDP") => Has(q, "D_CON")
  /\ session[m] = "none" /\ session[q] # "none" => Has(q, "D_CON") \/ Missed(q)
  /\ session[m] # "none" /\ session[q] = "none" => Early(m) \/ Has(q, "Q_SDP") \/ Has(m, "D_CON")

Called(m, q) ==
  /\ Side(m) /\ Side(q)
  /\ FromPeer(m, q) /\ FromPeer(q, m)
  /\ Progress(m, q) /\ Leaving(m, q)

Uncalled(m) == Side(m) /\ spawned[m] = 0 /\ inbox[m] = <<>>

SInv == SingleCall => \A m \in Node : IF calls[m] # 0 THEN Called(m, Peer[m])
                                      ELSE calls[Peer[m]] = 0 => Uncalled(m)

-----------------------------------------------------------------------------
(* The inboxes after a step of n: its peer's may get one message ...       *)
Sent(n, x) ==
  \/ x = "D_CON" /\ handlePush2TalkQuit(n) /\ session[n] # "none"
  \/ x = "D_CON" /\ HandleQ_SDP(n) /\ Refuses(n)
  \/ x = "D_CON" /\ Reject(n) /\ session[n] # "none"
  \/ x = "D_CON" /\ AlertTimeout(n)
  \/ x = "R_ACK" /\ Accept(n)
  \/ \E k \in Thread : handleStunAddr(n, k) /\ \/ x = "R_SDP" /\ session[n] = "Recver"
                                               \/ x = "Q_SDP" /\ session[n] = "Caller"
  \/ \E k \in Thread : IceSignal(n, k) /\ \/ x = "R_CON" /\ session[n] = "Recver"
                                          \/ x = "Q_CON" /\ session[n] = "Caller"

LEMMA SendInbox ==
  ASSUME TInv, NEW n \in Node, NEW x \in Request, sendPacketRemoteUser(n, session[n], x)
  PROVE  IF session[n] = "none" THEN inbox'[Peer[n]] = inbox[Peer[n]]
                                ELSE inbox'[Peer[n]] = Append(inbox[Peer[n]], x)
BY SendMail DEF TInv

LEMMA PeerInbox ==
  ASSUME TInv, NEW n \in Node, Step(n)
  PROVE  \/ inbox'[Peer[n]] = inbox[Peer[n]]
         \/ \E x \in Request : inbox'[Peer[n]] = Append(inbox[Peer[n]], x) /\ Sent(n, x)
<1>0. session[n] \in Session /\ InboxType /\ Peer[n] \in Node /\ Peer[n] # n
  BY PeerAssumption DEF TInv, ManagerType
<1>1. CASE handlePush2TalkQuit(n)
  <2>1. sendPacketRemoteUser(n, session[n], "D_CON") /\ "D_CON" \in Request
    BY <1>1 DEF handlePush2TalkQuit, Request
  <2> QED BY <1>1, <2>1, SendInbox DEF Sent
<1>2. CASE Accept(n)
  <2>1. sendPacketRemoteUser(n, session[n], "R_ACK") /\ "R_ACK" \in Request
    BY <1>2 DEF Accept, Request
  <2> QED BY <1>2, <2>1, SendInbox DEF Sent
<1>3. CASE HandleQ_SDP(n)
  <2>1. CASE Refuses(n)
    <3>1. inbox' = [inbox EXCEPT ![n] = Tail(@), ![Peer[n]] = Append(@, "D_CON")]
      BY <1>3, <2>1 DEF HandleQ_SDP
    <3>2. inbox'[Peer[n]] = Append(inbox[Peer[n]], "D_CON") /\ "D_CON" \in Request
      BY <1>0, <3>1, RefuseMail DEF Request
    <3> QED BY <1>3, <2>1, <3>2 DEF Sent
  <2>2. CASE ~Refuses(n)
    BY <1>0, <1>3, <2>2, ConsumeMail DEF HandleQ_SDP
  <2> QED BY <2>1, <2>2
<1>4. CASE HandleR_SDP(n) \/ HandleD_CON(n) \/ HandleFlag(n) \/ HandleOther(n)
  BY <1>0, <1>4, ConsumeMail DEF HandleR_SDP, HandleD_CON, HandleFlag, HandleOther
<1>5. ASSUME NEW k \in Thread, handleStunAddr(n, k)
      PROVE  \/ inbox'[Peer[n]] = inbox[Peer[n]]
             \/ \E x \in Request : inbox'[Peer[n]] = Append(inbox[Peer[n]], x) /\ Sent(n, x)
  <2>1. CASE session[n] = "Recver"
    <3>1. sendPacketRemoteUser(n, session[n], "R_SDP") /\ "R_SDP" \in Request
      BY <1>5, <2>1 DEF handleStunAddr, Request
    <3>2. session[n] # "none" => Sent(n, "R_SDP")
      BY <1>0, <1>5, <2>1 DEF Sent, Session
    <3> QED BY <3>1, <3>2, SendInbox
  <2>2. CASE session[n] # "Recver"
    <3>1. sendPacketRemoteUser(n, session[n], "Q_SDP") /\ "Q_SDP" \in Request
      BY <1>5, <2>2 DEF handleStunAddr, Request
    <3>2. session[n] # "none" => Sent(n, "Q_SDP")
      BY <1>0, <1>5, <2>2 DEF Sent, Session
    <3> QED BY <3>1, <3>2, SendInbox
  <2> QED BY <2>1, <2>2
<1>6. ASSUME NEW k \in Thread, IceSignal(n, k)
      PROVE  \/ inbox'[Peer[n]] = inbox[Peer[n]]
             \/ \E x \in Request : inbox'[Peer[n]] = Append(inbox[Peer[n]], x) /\ Sent(n, x)
  <2>1. CASE session[n] = "Recver"
    <3>1. sendPacketRemoteUser(n, session[n], "R_CON") /\ "R_CON" \in Request
      BY <1>6, <2>1 DEF IceSignal, Request
    <3>2. session[n] # "none" => Sent(n, "R_CON")
      BY <1>0, <1>6, <2>1 DEF Sent, Session
    <3> QED BY <3>1, <3>2, SendInbox
  <2>2. CASE session[n] # "Recver"
    <3>1. sendPacketRemoteUser(n, session[n], "Q_CON") /\ "Q_CON" \in Request
      BY <1>6, <2>2 DEF IceSignal, Request
    <3>2. session[n] # "none" => Sent(n, "Q_CON")
      BY <1>0, <1>6, <2>2 DEF Sent, Session
    <3> QED BY <3>1, <3>2, SendInbox
  <2> QED BY <2>1, <2>2
<1>7. CASE handlePush2TalkCallRemote(n) \/ SetterTest(n) \/ SetterStore(n) \/ RunPosted(n)
  BY <1>7 DEF handlePush2TalkCallRemote, SetterTest, SetterStore, RunPosted
<1>8. ASSUME NEW k \in Thread,
             StunCreate(n, k) \/ StartStun(n, k) \/ IceTest(n, k) \/ IceStore(n, k) \/ LateCallback(n, k)
      PROVE  inbox'[Peer[n]] = inbox[Peer[n]]
  BY <1>8 DEF StunCreate, StartStun, IceTest, IceStore, LateCallback
<1>9. CASE Reject(n)
  <2>1. sendPacketRemoteUser(n, session[n], "D_CON") /\ "D_CON" \in Request
    BY <1>9 DEF Reject, Request
  <2> QED BY <1>9, <2>1, SendInbox DEF Sent
<1>10. CASE AlertTimeout(n)
  <2>1. sendPacketRemoteUser(n, "Recver", "D_CON") /\ "D_CON" \in Request
    BY <1>10 DEF AlertTimeout, Request
  <2>2. inbox'[Peer[n]] = Append(inbox[Peer[n]], "D_CON")
    BY <1>0, <2>1, SendMail
  <2> QED BY <1>10, <2>1, <2>2 DEF Sent
<1> QED BY <1>1, <1>2, <1>3, <1>4, <1>5, <1>6, <1>7, <1>8, <1>9, <1>10 DEF Step, User, MainThread, StunThread

(* ... and its own loses its head to a handler, or nothing.                *)
Handled(n) == HandleQ_SDP(n) \/ HandleR_SDP(n) \/ HandleD_CON(n) \/ HandleFlag(n) \/ HandleOther(n)

LEMMA OwnInbox ==
  ASSUME TInv, NEW n \in Node, Step(n)
  PROVE  \/ inbox'[n] = inbox[n] /\ ~Handled(n)
         \/ Handled(n) /\ mpc[n] = "idle" /\ inbox[n] # <<>> /\ inbox'[n] = Tail(inbox[n])
<1>0. InboxType /\ Peer[n] \in Node /\ Peer[n] # n
  BY PeerAssumption DEF TInv
<1>1. CASE HandleQ_SDP(n)
  <2>0. mpc[n] = "idle" /\ inbox[n] # <<>>
    BY <1>1 DEF HandleQ_SDP, Handles
  <2>1. CASE Refuses(n)
    BY <1>0, <1>1, <2>0, <2>1, RefuseMail DEF HandleQ_SDP, Handled
  <2>2. CASE ~Refuses(n)
    BY <1>0, <1>1, <2>0, <2>2, ConsumeMail DEF HandleQ_SDP, Handled
  <2> QED BY <2>1, <2>2
<1>2. CASE HandleR_SDP(n) \/ HandleD_CON(n) \/ HandleFlag(n) \/ HandleOther(n)
  BY <1>0, <1>2, ConsumeMail DEF HandleR_SDP, HandleD_CON, HandleFlag, HandleOther, Handles, Handled
<1>3. CASE ~Handled(n)
  <2>1. ASSUME NEW x, NEW r \in Request, sendPacketRemoteUser(n, x, r) PROVE inbox'[n] = inbox[n]
    BY <1>0, <2>1, SendMail
  <2>2. User(n) => inbox'[n] = inbox[n]
    BY <2>1 DEF User, handlePush2TalkCallRemote, handlePush2TalkQuit, Accept, Reject, AlertTimeout, Request
  <2>3. MainThread(n) => inbox'[n] = inbox[n]
    BY <1>3 DEF MainThread, Handled, SetterTest, SetterStore, RunPosted
  <2>4. ASSUME NEW k \in Thread, StunThread(n, k) \/ IceSignal(n, k) PROVE inbox'[n] = inbox[n]
    <3>1. CASE handleStunAddr(n, k) \/ IceSignal(n, k)
      <4>1. \E r \in Request : sendPacketRemoteUser(n, session[n], r)
        BY <3>1 DEF handleStunAddr, IceSignal, Request
      <4> QED BY <2>1, <4>1
    <3> QED BY <2>4, <3>1 DEF StunThread, StunCreate, StartStun, IceTest, IceStore, LateCallback
  <2> QED BY <1>3, <2>2, <2>3, <2>4 DEF Step
<1> QED BY <1>1, <1>2, <1>3 DEF Handled

LEMMA OtherInbox ==
  ASSUME TInv, NEW n \in Node, Step(n), NEW m \in Node, m # n, m # Peer[n] PROVE inbox'[m] = inbox[m]
<1>0. InboxType BY DEF TInv
<1>1. ASSUME NEW x, NEW r \in Request, sendPacketRemoteUser(n, x, r) PROVE inbox'[m] = inbox[m]
  BY <1>0, <1>1, SendMail
<1>2. User(n) => inbox'[m] = inbox[m]
  BY <1>1 DEF User, handlePush2TalkCallRemote, handlePush2TalkQuit, Accept, Reject, AlertTimeout, Request
<1>3. HandleQ_SDP(n) => inbox'[m] = inbox[m]
  BY <1>0, RefuseMail, ConsumeMail DEF HandleQ_SDP
<1>4. MainThread(n) => inbox'[m] = inbox[m]
  BY <1>0, <1>3, ConsumeMail DEF MainThread, HandleR_SDP, HandleD_CON, HandleFlag, HandleOther, SetterTest,
                                 SetterStore, RunPosted
<1>5. ASSUME NEW k \in Thread, StunThread(n, k) \/ IceSignal(n, k) PROVE inbox'[m] = inbox[m]
  <2>1. CASE handleStunAddr(n, k) \/ IceSignal(n, k)
    <3>1. \E r \in Request : sendPacketRemoteUser(n, session[n], r)
      BY <2>1 DEF handleStunAddr, IceSignal, Request
    <3> QED BY <1>1, <3>1
  <2> QED BY <1>5, <2>1 DEF StunThread, StunCreate, StartStun, IceTest, IceStore, LateCallback
<1> QED BY <1>2, <1>4, <1>5 DEF Step

LEMMA HeadMail ==
  ASSUME TInv, NEW n \in Node, NEW r, Handles(n, r) PROVE Has(n, r)
<1>1. inbox[n] # <<>> /\ Head(inbox[n]) = r /\ inbox[n] \in Seq(Request)
  BY DEF Handles, TInv, InboxType
<1>2. Len(inbox[n]) >= 1 /\ inbox[n][1] = r
  BY <1>1
<1> QED BY <1>1, <1>2 DEF Has

(* A flag is new where a setter was entered.                               *)
LEMMA GotStep ==
  ASSUME TInv, NEW n \in Node, Step(n), NEW f, Got(n, f)', ~Got(n, f)
  PROVE  \/ Accept(n) /\ f = "r_ack_sent"
         \/ \E r \in {"Q_CON", "R_CON", "R_ACK"} : HandleFlag(n) /\ Handles(n, r) /\ f = FlagOf(r)
<1>0. MainType /\ ManagerType BY DEF TInv
<1>1. CASE SetterStore(n)
  BY <1>0, <1>1 DEF SetterStore, Set, Got, MainType, ManagerType
<1>2. CASE ~SetterStore(n)
  <2>1. flag'[n] \subseteq flag[n]
    BY <1>0, <1>2, FlagChanges DEF ManagerType
  <2>2. mpc'[n] # "idle" /\ setter'[n] = f
    BY <2>1 DEF Got
  <2>3. CASE Accept(n)
    BY <1>0, <2>2, <2>3 DEF Accept, Enter, Set, MainType
  <2>4. CASE HandleFlag(n)
    <3>1. PICK r \in {"Q_CON", "R_CON", "R_ACK"} : Handles(n, r) /\ Enter(n, FlagOf(r))
      BY <2>4 DEF HandleFlag
    <3>2. f = FlagOf(r)
      BY <1>0, <2>2, <3>1 DEF Enter, Set, MainType
    <3> QED BY <2>4, <3>1, <3>2
  <2>5. CASE SetterTest(n) \/ UNCHANGED main
    BY <1>0, <2>2, <2>5 DEF SetterTest, Set, MainType, main, Got
  <2> QED BY <1>2, <2>3, <2>4, <2>5, MainChanges
<1> QED BY <1>1, <1>2

LEMMA CallsChanges ==
  ASSUME TInv, NEW n \in Node, Step(n)
  PROVE  calls'[n] = calls[n] \/ (handlePush2TalkCallRemote(n) /\ calls'[n] = calls[n] + 1)
<1>1. User(n) => calls'[n] = calls[n] \/ (handlePush2TalkCallRemote(n) /\ calls'[n] = calls[n] + 1)
  BY DEF User, handlePush2TalkCallRemote, handlePush2TalkQuit, Accept, Reject, AlertTimeout, Set, TInv,
         PostType, history
<1>2. MainThread(n) => calls' = calls
  BY DEF MainThread, HandleQ_SDP, HandleR_SDP, HandleD_CON, HandleFlag, HandleOther,
         SetterTest, SetterStore, RunPosted, history
<1>3. ASSUME NEW k \in Thread, StunThread(n, k) \/ IceSignal(n, k) PROVE calls' = calls
  BY <1>3 DEF StunThread, StunCreate, StartStun, handleStunAddr, IceTest, IceStore, LateCallback,
              IceSignal, history
<1> QED BY <1>1, <1>2, <1>3 DEF Step

-----------------------------------------------------------------------------
(* One step of a call's phone n; q is its peer.                            *)

LEMMA FitsCaller ==
  ASSUME TInv, NEW n \in Node, Step(n), Side(n), calls[n] # 0, calls'[n] = calls[n]
  PROVE  Fits(n) /\ ~HandleQ_SDP(n) /\ ~Accept(n) /\ ~Reject(n) /\ ~AlertTimeout(n)
<1>1. ~HandleQ_SDP(n)
  BY HeadMail DEF HandleQ_SDP, Side, RoleMail, Request
<1>2. ~handlePush2TalkCallRemote(n)
  <2>1. calls[n] \in Nat BY DEF TInv, PostType
  <2>2. handlePush2TalkCallRemote(n) => calls'[n] = calls[n] + 1
    BY DEF handlePush2TalkCallRemote, Set, TInv, PostType
  <2> QED BY <2>1, <2>2
<1>3. ASSUME NEW r \in {"Q_CON", "R_CON", "R_ACK"}, Handles(n, r)
      PROVE  FlagOf(r) \in {Con(n), Ack(n)} /\ ~Got(n, FlagOf(r))
  <2>1. Has(n, r) BY <1>3, HeadMail
  <2>2. r \in {"R_CON", "R_ACK"}
    BY <2>1 DEF Side, RoleMail, Request
  <2> QED BY <2>1, <2>2 DEF Side, Tokens, FlagOf, Con, Ack
<1>4. ~Accept(n) /\ ~Reject(n) /\ ~AlertTimeout(n)
  BY DEF Accept, Reject, AlertTimeout, Side, Local, InRole
<1> QED BY <1>1, <1>2, <1>3, <1>4 DEF Fits, Takes

LEMMA FitsCallee ==
  ASSUME TInv, NEW n \in Node, Step(n), Side(n), calls[n] = 0, calls'[n] = calls[n],
         Has(n, "Q_SDP") => spawned[n] = 0
  PROVE  Fits(n)
<1>1. HandleQ_SDP(n) => spawned[n] = 0
  BY HeadMail DEF HandleQ_SDP
<1>2. ~handlePush2TalkCallRemote(n)
  <2>2. handlePush2TalkCallRemote(n) => calls'[n] = calls[n] + 1
    BY DEF handlePush2TalkCallRemote, Set, TInv, PostType
  <2> QED BY <2>2
<1>3. ASSUME NEW r \in {"Q_CON", "R_CON", "R_ACK"}, Handles(n, r)
      PROVE  FlagOf(r) \in {Con(n), Ack(n)} /\ ~Got(n, FlagOf(r))
  <2>1. Has(n, r) BY <1>3, HeadMail
  <2>2. r = "Q_CON"
    BY <2>1 DEF Side, RoleMail, Request
  <2> QED BY <2>1, <2>2 DEF Side, Tokens, FlagOf, Con, Ack
<1>4. ~(HandleQ_SDP(n) /\ Refuses(n))
  BY <1>1 DEF Refuses, Side, Local, InRole, Unused
<1> QED BY <1>1, <1>2, <1>3, <1>4 DEF Fits, Takes

(* The phone's own inbox only loses messages.                              *)
LEMMA OwnMail ==
  ASSUME TInv, NEW n \in Node, Step(n), NEW x
  PROVE  /\ Has(n, x)' => Has(n, x)
         /\ Once(n, x) => Once(n, x)'
<1>1. InboxType BY DEF TInv
<1>2. CASE inbox'[n] = inbox[n] BY <1>2, SameMail
<1>3. CASE inbox[n] # <<>> /\ inbox'[n] = Tail(inbox[n]) BY <1>1, <1>3, TailMail
<1> QED BY <1>2, <1>3, OwnInbox

LEMMA HandledMail ==
  ASSUME TInv, NEW n \in Node, Step(n), Handled(n), NEW r, inbox[n] # <<>>, Head(inbox[n]) = r, Once(n, r)
  PROVE  ~Has(n, r)'
<1>1. InboxType BY DEF TInv
<1> QED BY <1>1, OwnInbox, TailMail

LEMMA SideOwn ==
  ASSUME TInv, NEW n \in Node, Step(n), Side(n), Fits(n), calls'[n] = calls[n]
  PROVE  Side(n)'
<1>1. Local(n)'
  BY LocalStep DEF Side
<1>2. RoleMail(n)'
  BY OwnMail DEF Side, RoleMail
<1>3. Tokens(n)'
  <2> SUFFICES ASSUME NEW r \in {"Q_CON", "R_CON", "R_ACK"}, Has(n, r)' PROVE Once(n, r)' /\ ~Got(n, FlagOf(r))'
    BY DEF Tokens, FlagOf
  <2>1. Has(n, r) /\ Once(n, r) /\ ~Got(n, FlagOf(r)) /\ Once(n, r)'
    BY OwnMail DEF Side, Tokens
  <2>2. FlagOf(r) # "r_ack_sent" /\ \A s \in {"Q_CON", "R_CON", "R_ACK"} : FlagOf(s) = FlagOf(r) => s = r
    BY DEF FlagOf
  <2>3. ~(HandleFlag(n) /\ Handles(n, r))
    BY <2>1, HandledMail DEF Handled, Handles
  <2>4. ASSUME NEW f, f = FlagOf(r), Got(n, f)' PROVE FALSE
    BY <2>1, <2>2, <2>3, <2>4, GotStep
  <2> QED BY <2>1, <2>4 DEF FlagOf
<1> QED BY <1>1, <1>2, <1>3 DEF Side

LEMMA LocalSame ==
  ASSUME NEW q \in Node, Same(q), Local(q) PROVE Local(q)'
<1>1. Con(q)' = Con(q) /\ Ack(q)' = Ack(q) /\ Stored(q)' = Stored(q) /\ \A f : Got(q, f)' <=> Got(q, f)
  BY DEF Con, Ack, Stored, Got, Same, ManagerSame, MainSame
<1>2. OneThread(q)'
  BY DEF Same, ManagerSame, StunSame, Local, OneThread
<1>3. InRole(q)'
  BY <1>1 DEF Same, ManagerSame, MainSame, UiSame, Local, InRole
<1>4. NoSession(q)' /\ Unused(q)'
  BY DEF Same, ManagerSame, MainSame, UiSame, StunSame, Local, NoSession, Unused
<1>5. StartsOnce(q)'
  BY <1>1 DEF Same, ManagerSame, UiSame, StunSame, Local, StartsOnce
<1> QED BY <1>2, <1>3, <1>4, <1>5 DEF Local

LEMMA IceSignalled ==
  ASSUME TInv, NEW n \in Node, NEW k \in Thread, IceSignal(n, k), OneThread(n), session[n] # "none"
  PROVE  ~Signalled(n)
<1>1. spc[n][k] = "run" /\ ~ice[n]
  BY DEF IceSignal
<1>2. \A j \in Thread : j # k => spc[n][j] = "none"
  BY PointEffect
<1> QED BY <1>1, <1>2 DEF Signalled, Callback

(* What n sends to its peer fits the peer, and is new to it.               *)
LEMMA SentFits ==
  ASSUME TInv, NEW n \in Node, NEW q \in Node, Local(n), Fits(n), NEW x \in Request, Sent(n, x),
         calls[n] = 0 <=> calls[q] # 0,
         FromPeer(q, n),
         Accept(n) => ~Has(q, "R_ACK") /\ ~Got(q, "r_ack_received")
  PROVE  /\ x \in IF calls[q] # 0 THEN {"R_SDP", "R_CON", "R_ACK", "D_CON"} ELSE {"Q_SDP", "Q_CON", "D_CON"}
         /\ x \in {"Q_CON", "R_CON", "R_ACK"} => ~Has(q, x) /\ ~Got(q, FlagOf(x))
<1>1. CASE x = "D_CON"
  BY <1>1
<1>2. CASE x = "R_ACK" /\ Accept(n)
  <2>1. alert[n] BY <1>2 DEF Accept
  <2>2. calls[q] # 0 BY <2>1 DEF Local, InRole
  <2> QED BY <1>2, <2>2 DEF FlagOf
<1>3. ASSUME NEW k \in Thread, handleStunAddr(n, k),
             (x = "R_SDP" /\ session[n] = "Recver") \/ (x = "Q_SDP" /\ session[n] = "Caller")
      PROVE  x \in IF calls[q] # 0 THEN {"R_SDP", "R_CON", "R_ACK", "D_CON"} ELSE {"Q_SDP", "Q_CON", "D_CON"}
  BY <1>3 DEF Local, InRole
<1>4. ASSUME NEW k \in Thread, IceSignal(n, k),
             (x = "R_CON" /\ session[n] = "Recver") \/ (x = "Q_CON" /\ session[n] = "Caller")
      PROVE  /\ x \in IF calls[q] # 0 THEN {"R_SDP", "R_CON", "R_ACK", "D_CON"} ELSE {"Q_SDP", "Q_CON", "D_CON"}
             /\ ~Has(q, x) /\ ~Got(q, FlagOf(x))
  <2>1. x = (IF calls[q] # 0 THEN "R_CON" ELSE "Q_CON") /\ FlagOf(x) = Con(q)
    BY <1>4 DEF Local, InRole, FlagOf, Con
  <2>2. ~Signalled(n)
    BY <1>4, IceSignalled DEF Local
  <2> QED BY <2>1, <2>2 DEF FromPeer
<1>5. ~(HandleQ_SDP(n) /\ Refuses(n))
  BY DEF Fits
<1> QED BY <1>1, <1>2, <1>3, <1>4, <1>5 DEF Sent

LEMMA SidePeer ==
  ASSUME TInv, NEW n \in Node, NEW q \in Node, q = Peer[n], q # n, Step(n), Local(n), Fits(n), Side(q),
         calls[n] = 0 <=> calls[q] # 0,
         FromPeer(q, n),
         Accept(n) => ~Has(q, "R_ACK") /\ ~Got(q, "r_ack_received")
  PROVE  Side(q)'
<1>0. Same(q) /\ InboxType
  BY StepOthers DEF TInv
<1>1. Local(q)'
  BY <1>0, LocalSame DEF Side
<1>2. calls'[q] = calls[q] /\ \A f : Got(q, f)' <=> Got(q, f)
  BY <1>0 DEF Same, ManagerSame, MainSame, Got
<1>3. CASE inbox'[q] = inbox[q]
  <2>1. \A r : (Has(q, r)' <=> Has(q, r)) /\ (Once(q, r)' <=> Once(q, r))
    BY <1>3, SameMail
  <2>2. RoleMail(q)'
    BY <1>2, <2>1 DEF Side, RoleMail
  <2>3. Tokens(q)'
    BY <1>2, <2>1 DEF Side, Tokens, FlagOf
  <2> QED BY <1>1, <2>2, <2>3 DEF Side
<1>4. ASSUME NEW x \in Request, inbox'[q] = Append(inbox[q], x), Sent(n, x) PROVE Side(q)'
  <2>1. /\ x \in IF calls[q] # 0 THEN {"R_SDP", "R_CON", "R_ACK", "D_CON"} ELSE {"Q_SDP", "Q_CON", "D_CON"}
        /\ x \in {"Q_CON", "R_CON", "R_ACK"} => ~Has(q, x) /\ ~Got(q, FlagOf(x))
    BY <1>4, SentFits
  <2>2. \A r : /\ Has(q, r)' <=> Has(q, r) \/ r = x
               /\ Once(q, r) /\ (r = x => ~Has(q, r)) => Once(q, r)'
    BY <1>0, <1>4, AppendMail
  <2>3. RoleMail(q)'
    BY <1>2, <2>1, <2>2 DEF Side, RoleMail
  <2>4. Tokens(q)'
    <3> SUFFICES ASSUME NEW r \in {"Q_CON", "R_CON", "R_ACK"}, Has(q, r)' PROVE Once(q, r)' /\ ~Got(q, FlagOf(r))'
      BY DEF Tokens, FlagOf
    <3>1. CASE r = x
      <4>1. ~Has(q, r) /\ ~Got(q, FlagOf(r))
        BY <2>1, <3>1
      <4>2. Once(q, r)
        BY <4>1 DEF Has, Once
      <4>3. ~Got(q, FlagOf(r))'
        BY <1>2, <4>1 DEF FlagOf
      <4> QED BY <2>2, <4>1, <4>2, <4>3
    <3>2. CASE r # x
      <4>1. Has(q, r)
        BY <2>2, <3>2
      <4>2. Once(q, r) /\ ~Got(q, FlagOf(r))
        BY <4>1 DEF Side, Tokens
      <4>3. ~Got(q, FlagOf(r))'
        BY <1>2, <4>2 DEF FlagOf
      <4> QED BY <2>2, <3>2, <4>2, <4>3
    <3> QED BY <3>1, <3>2
  <2> QED BY <1>1, <2>3, <2>4 DEF Side
<1> QED BY <1>3, <1>4, PeerInbox

LEMMA FromOwn ==
  ASSUME TInv, NEW n \in Node, NEW q \in Node, Step(n), Same(q), Side(n), FromPeer(n, q), Fits(n),
         calls'[n] = calls[n]
  PROVE  FromPeer(n, q)'
<1>1. Signalled(q)' <=> Signalled(q)
  BY DEF Signalled, Same, ManagerSame, StunSame
<1>2. session'[q] = session[q] /\ Con(n)' = Con(n) /\ (Missed(q)' <=> Missed(q))
  BY DEF Same, ManagerSame, MainSame, UiSame, Con, Missed, Got
<1>3. \A x : Has(n, x)' => Has(n, x)
  BY OwnMail
<1>4. ASSUME NEW f, f = Con(n), Got(n, f)' PROVE Signalled(q)
  <2>1. CASE Got(n, f)
    BY <1>4, <2>1 DEF FromPeer
  <2>2. CASE ~Got(n, f)
    <3>1. PICK r \in {"Q_CON", "R_CON", "R_ACK"} : Handles(n, r) /\ f = FlagOf(r)
      BY <1>4, <2>2, GotStep DEF Con
    <3>2. r = (IF calls[n] # 0 THEN "R_CON" ELSE "Q_CON")
      BY <1>4, <3>1 DEF Con, FlagOf
    <3>3. Has(n, r)
      BY <3>1, HeadMail
    <3> QED BY <3>2, <3>3 DEF FromPeer
  <2> QED BY <2>1, <2>2
<1>5. Got(n, Con(n))' => Signalled(q)
  <2>1. ASSUME NEW f, f = Con(n) PROVE Got(n, Con(n))' => Got(n, f)'
    BY <1>2, <2>1 DEF Got
  <2> QED BY <1>4, <2>1 DEF Con
<1>6. Has(n, IF calls[n] # 0 THEN "R_CON" ELSE "Q_CON")' => Has(n, IF calls[n] # 0 THEN "R_CON" ELSE "Q_CON")
  BY <1>3 DEF Has
<1> QED BY <1>1, <1>2, <1>3, <1>5, <1>6 DEF FromPeer

(* A session begins and ends with these steps only.                        *)
LEMMA SessionChanges ==
  ASSUME TInv, NEW n \in Node, Step(n)
  PROVE  \/ session'[n] = session[n] \/ handlePush2TalkCallRemote(n) \/ Takes(n)
         \/ (session'[n] = "none" /\ (handlePush2TalkQuit(n) \/ HandleD_CON(n) \/ Reject(n)))
<1>1. User(n) => \/ session'[n] = session[n] \/ handlePush2TalkCallRemote(n)
                 \/ handlePush2TalkQuit(n) \/ Reject(n)
  BY DEF User, Accept, AlertTimeout, manager
<1>2. MainThread(n) => session'[n] = session[n] \/ Takes(n) \/ HandleD_CON(n)
  <2>1. HandleQ_SDP(n) => session'[n] = session[n] \/ Takes(n)
    BY DEF HandleQ_SDP, Takes, manager
  <2> QED BY <2>1 DEF MainThread, HandleR_SDP, HandleFlag, HandleOther, SetterTest,
                      SetterStore, RunPosted, manager
<1>3. ASSUME NEW k \in Thread, StunThread(n, k) \/ IceSignal(n, k) PROVE session'[n] = session[n]
  BY <1>3 DEF StunThread, StunCreate, StartStun, handleStunAddr, IceTest, IceStore, LateCallback,
              IceSignal, manager
<1> QED BY <1>1, <1>2, <1>3, ResetEffect, RejectEffect DEF Step

LEMMA StaysSignalled ==
  ASSUME TInv, NEW n \in Node, Step(n), Fits(n), OneThread(n), Signalled(n),
         ~handlePush2TalkCallRemote(n), ~Takes(n)
  PROVE  Signalled(n)'
<1>1. CASE session'[n] = "none"
  BY <1>1 DEF Signalled
<1>2. CASE session'[n] # "none"
  <2>1. session[n] # "none" /\ ~handlePush2TalkQuit(n) /\ ~HandleD_CON(n) /\ ~Reject(n)
    BY <1>2, SessionChanges, ResetEffect, RejectEffect
  <2>2. ASSUME NEW j \in Thread, IceStore(n, j) PROVE ice'[n]
    BY <2>2 DEF IceStore, Set, TInv, ManagerType
  <2>3. ice[n] => ice'[n]
    BY <2>1, <2>2, IceChanges
  <2>4. ASSUME NEW k \in Thread, spc[n][k] \in Callback PROVE ice'[n] \/ spc'[n][k] \in Callback
    BY <2>4, CallbackStays DEF Callback
  <2> QED BY <2>1, <2>3, <2>4 DEF Signalled
<1> QED BY <1>1, <1>2

(* The alert is shown by HandleQ_SDP only.                                 *)
LEMMA AlertChanges ==
  ASSUME TInv, NEW n \in Node, Step(n), ~Takes(n), alert'[n] PROVE alert[n] /\ ~Accept(n)
<1>0. UiType BY DEF TInv
<1>1. ~Accept(n) /\ ~HandleD_CON(n) /\ ~Reject(n) /\ ~AlertTimeout(n)
  BY <1>0 DEF Accept, HandleD_CON, Reject, AlertTimeout, Set, UiType
<1>2. User(n) => alert'[n] = alert[n]
  BY <1>1 DEF User, handlePush2TalkCallRemote, handlePush2TalkQuit
<1>3. MainThread(n) => alert'[n] = alert[n]
  <2>1. HandleQ_SDP(n) => alert'[n] = alert[n]
    BY DEF HandleQ_SDP, Takes, ui
  <2> QED BY <1>1, <2>1 DEF MainThread, HandleR_SDP, HandleFlag, HandleOther, SetterTest,
                            SetterStore, RunPosted, ui
<1>4. ASSUME NEW k \in Thread, StunThread(n, k) \/ IceSignal(n, k) PROVE alert'[n] = alert[n]
  BY <1>4 DEF StunThread, StunCreate, StartStun, handleStunAddr, IceTest, IceStore, LateCallback,
              IceSignal, ui
<1> QED BY <1>1, <1>2, <1>3, <1>4 DEF Step

(* An alert that timed out is never answered, while the session lasts.     *)
LEMMA StaysMissed ==
  ASSUME TInv, NEW n \in Node, Step(n), ~handlePush2TalkCallRemote(n), ~Takes(n), Missed(n)
  PROVE  session'[n] = "none" \/ Missed(n)'
<1>1. ~alert'[n]
  BY AlertChanges DEF Missed
<1>2. ~Got(n, "r_ack_sent")'
  <2>1. ~Accept(n) BY DEF Accept, Missed
  <2> QED BY <2>1, GotStep DEF FlagOf, Missed
<1> QED BY <1>1, <1>2, SessionChanges DEF Missed

LEMMA TimeoutMisses ==
  ASSUME TInv, NEW n \in Node, Local(n), AlertTimeout(n) PROVE Missed(n)'
<1>1. session[n] = "Recver" /\ alert[n]
  BY LocalAlert DEF AlertTimeout
<1>2. ~Got(n, "r_ack_sent")
  BY <1>1 DEF Local, InRole
<1> QED BY <1>1, <1>2, TimeoutEffect DEF Missed, Got, ManagerSame, MainSame

LEMMA FromPeerStep ==
  ASSUME TInv, NEW n \in Node, NEW q \in Node, q = Peer[n], q # n, Step(n), Local(n), Fits(n), FromPeer(q, n),
         calls'[n] = calls[n],
         Takes(n) => inbox[q] = <<>> /\ flag[q] = {} /\ mpc[q] = "idle"
  PROVE  FromPeer(q, n)'
<1>0. Same(q) /\ InboxType
  BY StepOthers DEF TInv
<1>1. calls'[q] = calls[q] /\ Con(q)' = Con(q) /\ (Got(q, Con(q))' <=> Got(q, Con(q)))
  BY <1>0 DEF Same, ManagerSame, MainSame, Got, Con
<1>2. ~handlePush2TalkCallRemote(n)
  <2>1. calls[n] \in Nat BY DEF TInv, PostType
  <2>2. handlePush2TalkCallRemote(n) => calls'[n] = calls[n] + 1
    BY DEF handlePush2TalkCallRemote, Set, TInv, PostType
  <2> QED BY <2>1, <2>2
<1>3. ASSUME NEW x, Has(q, x)' PROVE Has(q, x) \/ Sent(n, x)
  <2>1. CASE inbox'[q] = inbox[q]
    BY <1>3, <2>1, SameMail
  <2>2. ASSUME NEW y \in Request, inbox'[q] = Append(inbox[q], y), Sent(n, y) PROVE Has(q, x) \/ Sent(n, x)
    BY <1>0, <1>3, <2>2, AppendMail
  <2> QED BY <2>1, <2>2, PeerInbox
<1>4. CASE Takes(n)
  <2>1. mpc[n] = "idle" /\ HandleQ_SDP(n) /\ ~Refuses(n)
    BY <1>4 DEF Takes, HandleQ_SDP, Handles
  <2>2. inbox'[q] = inbox[q]
    BY <1>0, <1>4, ConsumeMail DEF Takes, HandleQ_SDP
  <2>3. \A x : ~Has(q, x)'
    BY <1>4, <2>2 DEF Has
  <2>4. ~Got(q, Con(q))
    BY <1>4 DEF Got
  <2> QED BY <1>1, <2>3, <2>4 DEF FromPeer, Has
<1>5. CASE ~Takes(n)
  <2>1. Signalled(n) => Signalled(n)'
    BY <1>2, <1>5, StaysSignalled DEF Local
  <2>2. ASSUME NEW k \in Thread, IceSignal(n, k) PROVE Signalled(n)'
    <3>1. spc'[n][k] \in Callback
      BY <2>2, PointEffect DEF Local, Callback
    <3> QED BY <3>1 DEF Signalled
  <2>3. ASSUME NEW x, x = (IF calls[q] # 0 THEN "R_CON" ELSE "Q_CON"), Has(q, x)' PROVE Signalled(n)'
    <3>1. CASE Has(q, x)
      BY <2>1, <2>3, <3>1 DEF FromPeer
    <3>2. CASE Sent(n, x)
      BY <2>2, <2>3, <3>2 DEF Sent
    <3> QED BY <1>3, <2>3, <3>1, <3>2
  <2>4. Got(q, Con(q)) => Signalled(n)'
    BY <2>1 DEF FromPeer
  <2>5. ASSUME Has(q, "D_CON")' PROVE session'[n] = "none" \/ Missed(n)'
    <3>1. CASE Has(q, "D_CON")
      BY <1>2, <1>5, <3>1, SessionChanges, StaysMissed DEF FromPeer
    <3>2. CASE Sent(n, "D_CON")
      BY <3>2, ResetEffect, RejectEffect, TimeoutMisses DEF Sent, Fits
    <3> QED BY <1>3, <2>5, <3>1, <3>2
  <2>6. Has(q, IF calls[q] # 0 THEN "R_CON" ELSE "Q_CON")' => Signalled(n)'
    <3>1. CASE calls[q] # 0
      BY <1>1, <2>3, <3>1 DEF Has
    <3>2. CASE calls[q] = 0
      BY <1>1, <2>3, <3>2 DEF Has
    <3> QED BY <3>1, <3>2
  <2> QED BY <1>1, <2>4, <2>5, <2>6 DEF FromPeer
<1> QED BY <1>4, <1>5

(* The first message to a callee is Q_SDP.                                 *)
LEMMA FirstIsQ ==
  ASSUME TInv, NEW q \in Node, Has(q, "Q_SDP"), \A i \in 1..Len(inbox[q]) : inbox[q][i] = "Q_SDP" => i = 1
  PROVE  inbox[q] # <<>> /\ Head(inbox[q]) = "Q_SDP" /\ Once(q, "Q_SDP")
<1>1. inbox[q] \in Seq(Request) BY DEF TInv, InboxType
<1>2. PICK i \in 1..Len(inbox[q]) : inbox[q][i] = "Q_SDP" BY DEF Has
<1>3. i = 1 BY <1>2
<1>4. inbox[q] # <<>> /\ Head(inbox[q]) = inbox[q][1] BY <1>1, <1>2
<1> QED BY <1>2, <1>3, <1>4 DEF Once

(* The beginning of a call on its caller's phone.                          *)
LEMMA EarlyStep ==
  ASSUME TInv, NEW n \in Node, Step(n), OneThread(n), Fits(n), Early(n)', ~handlePush2TalkCallRemote(n), ~Takes(n)
  PROVE  Early(n) /\ ~(\E k \in Thread : handleStunAddr(n, k) \/ IceSignal(n, k))
<1>0. StunType BY DEF TInv
<1>1. CASE UNCHANGED spc
  <2>1. Early(n) BY <1>1 DEF Early
  <2>2. ASSUME NEW k \in Thread, handleStunAddr(n, k) \/ IceSignal(n, k) PROVE FALSE
    BY <1>1, <2>2, PointEffect DEF StunThread
  <2> QED BY <2>1, <2>2
<1>2. CASE stopStunThread(n)
  <2>1. PICK k \in Thread : spc'[n][k] \in {"start", "created", "gather"}
    BY DEF Early
  <2>2. spc[n][k] = spc'[n][k]
    BY <1>0, <1>2, <2>1, StopEffect
  <2>3. \A j \in Thread : j # k => spc[n][j] = "none"
    BY <2>1, <2>2 DEF OneThread
  <2>4. ASSUME NEW j \in Thread, IceSignal(n, j) PROVE FALSE
    BY <2>1, <2>2, <2>3, <2>4 DEF IceSignal
  <2>5. ASSUME NEW j \in Thread, handleStunAddr(n, j) PROVE FALSE
    <3>1. spc[n][j] = "gather" /\ spc'[n][j] = "run"
      BY <2>5, PointEffect DEF StunThread
    <3>2. j = k
      BY <2>3, <3>1
    <3> QED BY <2>2, <3>1, <3>2
  <2> QED BY <2>1, <2>2, <2>4, <2>5 DEF Early
<1>3. ASSUME NEW k \in Thread, StunThread(n, k) \/ IceSignal(n, k)
      PROVE  Early(n) /\ ~(\E j \in Thread : handleStunAddr(n, j) \/ IceSignal(n, j))
  <2>1. \A j \in Thread : j # k => spc'[n][j] = "none" /\ spc[n][j] = "none"
    BY <1>3, PointEffect
  <2>2. spc'[n][k] \in {"start", "created", "gather"}
    BY <2>1 DEF Early
  <2>3. StunCreate(n, k) \/ StartStun(n, k)
    BY <1>3, <2>2, PointEffect DEF StunThread
  <2>4. spc[n][k] \in {"start", "created"}
    BY <2>3 DEF StunCreate, StartStun
  <2>5. ASSUME NEW j \in Thread, handleStunAddr(n, j) \/ IceSignal(n, j) PROVE FALSE
    BY <2>1, <2>4, <2>5 DEF handleStunAddr, IceSignal
  <2> QED BY <2>4, <2>5 DEF Early
<1> QED BY <1>1, <1>2, <1>3, StunChanges, RejectEffect

LEMMA ProgressCaller ==
  ASSUME TInv, NEW n \in Node, NEW q \in Node, q = Peer[n], q # n, Step(n), Side(n), Fits(n),
         calls[n] # 0, calls'[n] = calls[n], Progress(n, q)
  PROVE  Progress(n, q)'
<1>0. Same(q) /\ InboxType
  BY StepOthers DEF TInv
<1>a. /\ ~HandleQ_SDP(n) /\ ~Accept(n) /\ ~Reject(n) /\ ~AlertTimeout(n) /\ ~Takes(n)
      /\ ~handlePush2TalkCallRemote(n) /\ accepted \subseteq accepted'
  <2>1. ~HandleQ_SDP(n) /\ ~Accept(n) /\ ~Reject(n) /\ ~AlertTimeout(n) BY FitsCaller
  <2> QED BY <2>1, AcceptedGrows DEF Fits, Takes
<1>b. /\ alert'[q] = alert[q] /\ spawned'[q] = spawned[q] /\ session'[q] = session[q]
      /\ (Got(q, "r_ack_sent")' <=> Got(q, "r_ack_sent"))
  BY <1>0 DEF Same, ManagerSame, MainSame, UiSame, StunSame, Got
<1>1. Has(n, "R_ACK")' \/ Got(n, "r_ack_received")' => ~alert'[q] /\ q \in accepted'
  <2>1. ASSUME Got(n, "r_ack_received")' PROVE Has(n, "R_ACK") \/ Got(n, "r_ack_received")
    <3>1. CASE ~Got(n, "r_ack_received")
      <4>1. PICK r \in {"Q_CON", "R_CON", "R_ACK"} : Handles(n, r) /\ "r_ack_received" = FlagOf(r)
        BY <1>a, <2>1, <3>1, GotStep
      <4>2. r = "R_ACK" BY <4>1 DEF FlagOf
      <4> QED BY <4>1, <4>2, HeadMail
    <3> QED BY <3>1
  <2> QED BY <1>a, <1>b, <2>1, OwnMail DEF Progress
<1>2. Got(q, "r_ack_sent")' => q \in accepted'
  BY <1>a, <1>b DEF Progress
<1>3. ASSUME spawned[q] = 0
      PROVE  inbox'[n] = <<>> /\ flag'[n] = {} /\ mpc'[n] = "idle" /\ posted'[n] = 0 /\ talks'[n] = 0
  <2>0. ManagerType /\ MainType /\ UiType /\ PostType BY DEF TInv
  <2>1. inbox[n] = <<>> /\ flag[n] = {} /\ mpc[n] = "idle" /\ posted[n] = 0 /\ talks[n] = 0
    BY <1>3 DEF Progress
  <2>2. inbox'[n] = <<>> /\ ~Handled(n)
    BY <2>1, OwnInbox
  <2>3. ~SetterTest(n) /\ ~SetterStore(n) /\ ~RunPosted(n) /\ ~HandleFlag(n)
    BY <2>1, <2>2 DEF SetterTest, SetterStore, RunPosted, Handled
  <2>4. flag'[n] = {}
    BY <2>0, <2>1, <2>3, FlagChanges DEF ManagerType
  <2>5. mpc'[n] = "idle"
    BY <1>a, <2>1, <2>3, MainChanges DEF main
  <2>6. ASSUME NEW k \in Thread, IceTest(n, k) PROVE posted'[n] = 0
    <3>1. ~(Needed(spc[n][k]) \subseteq flag[n])
      BY <2>1 DEF Needed
    <3> QED BY <2>0, <2>1, <2>6, <3>1 DEF IceTest, Set, PostType
  <2>7. posted'[n] = 0
    BY <2>1, <2>3, <2>6, PostedChanges
  <2>8. talks'[n] = 0
    BY <1>a, <2>0, <2>1, <2>3, TalksChanges DEF closePush2Talk, Set, UiType
  <2> QED BY <2>2, <2>4, <2>5, <2>7, <2>8
<1>4. ASSUME Early(n)'
      PROVE  spawned'[q] = 0 /\ ~Has(q, "Q_SDP")' /\ (session'[n] # "none" => inbox'[q] = <<>>)
  <2>1. Early(n) /\ ~(\E k \in Thread : handleStunAddr(n, k) \/ IceSignal(n, k))
    BY <1>4, <1>a, EarlyStep DEF Side, Local
  <2>2. CASE inbox'[q] = inbox[q]
    <3>1. session'[n] # "none" => session[n] # "none"
      BY <1>a, SessionChanges
    <3> QED BY <1>b, <2>1, <2>2, <3>1, SameMail DEF Progress
  <2>3. ASSUME NEW x \in Request, inbox'[q] = Append(inbox[q], x), Sent(n, x)
        PROVE  spawned'[q] = 0 /\ ~Has(q, "Q_SDP")' /\ (session'[n] # "none" => inbox'[q] = <<>>)
    <3>1. x = "D_CON" /\ handlePush2TalkQuit(n)
      BY <1>a, <2>1, <2>3 DEF Sent
    <3>2. session'[n] = "none"
      BY <3>1, ResetEffect
    <3>3. ~Has(q, "Q_SDP")'
      BY <1>0, <2>1, <2>3, <3>1, AppendMail DEF Progress
    <3> QED BY <1>b, <2>1, <3>2, <3>3 DEF Progress
  <2> QED BY <2>2, <2>3, PeerInbox
<1>5. ASSUME Has(q, "Q_SDP")'
      PROVE  spawned'[q] = 0 /\ \A i \in 1..Len(inbox'[q]) : inbox'[q][i] = "Q_SDP" => i = 1
  <2>1. CASE inbox'[q] = inbox[q]
    BY <1>b, <1>5, <2>1, SameMail DEF Progress
  <2>2. ASSUME NEW x \in Request, inbox'[q] = Append(inbox[q], x), Sent(n, x)
        PROVE  spawned'[q] = 0 /\ \A i \in 1..Len(inbox'[q]) : inbox'[q][i] = "Q_SDP" => i = 1
    <3>0. inbox[q] \in Seq(Request)
      BY <1>0 DEF InboxType
    <3>1. CASE x = "Q_SDP"
      <4>1. PICK k \in Thread : handleStunAddr(n, k) /\ session[n] = "Caller"
        BY <2>2, <3>1 DEF Sent
      <4>2. Early(n)
        BY <4>1 DEF handleStunAddr, Early
      <4>3. spawned[q] = 0 /\ inbox[q] = <<>>
        BY <4>1, <4>2 DEF Progress
      <4>4. Len(inbox'[q]) = 1
        BY <2>2, <3>0, <4>3
      <4> QED BY <1>b, <4>3, <4>4
    <3>2. CASE x # "Q_SDP"
      <4>1. Has(q, "Q_SDP")
        BY <1>0, <1>5, <2>2, <3>2, AppendMail
      <4>2. spawned[q] = 0 /\ \A i \in 1..Len(inbox[q]) : inbox[q][i] = "Q_SDP" => i = 1
        BY <4>1 DEF Progress
      <4>3. \A i \in 1..Len(inbox'[q]) : inbox'[q][i] = "Q_SDP" => i \in 1..Len(inbox[q]) /\ inbox[q][i] = "Q_SDP"
        BY <2>2, <3>0, <3>2
      <4> QED BY <1>b, <4>2, <4>3
    <3> QED BY <3>1, <3>2
  <2> QED BY <2>1, <2>2, PeerInbox
<1> QED BY <1>b, <1>1, <1>2, <1>3, <1>4, <1>5 DEF Progress
(* A thread is started with these steps only.                              *)
LEMMA SpawnedChanges ==
  ASSUME TInv, NEW n \in Node, Step(n), OneThread(n), ~handlePush2TalkCallRemote(n), ~Takes(n)
  PROVE  spawned'[n] = spawned[n]
<1>1. StunType BY DEF TInv
<1>2. ASSUME NEW k \in Thread, StunThread(n, k) \/ IceSignal(n, k) PROVE spawned'[n] = spawned[n]
  BY <1>2, PointEffect
<1>3. stopStunThread(n) => spawned'[n] = spawned[n]
  BY <1>1, StopEffect
<1> QED BY <1>2, <1>3, StunChanges, RejectEffect

(* A phone that was never called sends nothing.                            *)
LEMMA UnusedIsSilent ==
  ASSUME TInv, NEW n \in Node, Side(n), Fits(n), calls[n] = 0, spawned[n] = 0, NEW x, Sent(n, x)
  PROVE  FALSE
<1>1. session[n] = "none" /\ ~controller[n] /\ ~alert[n]
  BY DEF Side, Local, Unused, NoSession
<1>2. ~handlePush2TalkQuit(n) /\ ~Accept(n) /\ ~Reject(n) /\ ~AlertTimeout(n)
  BY <1>1 DEF handlePush2TalkQuit, Accept, Reject, AlertTimeout
<1>3. ASSUME NEW k \in Thread, handleStunAddr(n, k) \/ IceSignal(n, k) PROVE FALSE
  BY <1>3, PointEffect DEF StunThread, Side, Local
<1> QED BY <1>2, <1>3 DEF Sent, Fits

LEMMA ProgressCallee ==
  ASSUME TInv, NEW n \in Node, NEW q \in Node, q = Peer[n], q # n, Step(n), Side(n), Fits(n),
         calls[n] = 0, calls'[n] = calls[n], Progress(q, n)
  PROVE  Progress(q, n)'
<1>0. Same(q) /\ InboxType
  BY StepOthers DEF TInv
<1>a. ~handlePush2TalkCallRemote(n) /\ accepted \subseteq accepted' /\ (Accept(n) => n \in accepted')
  <2>1. handlePush2TalkCallRemote(n) => calls'[n] = calls[n] + 1
    BY DEF handlePush2TalkCallRemote, Set, TInv, PostType
  <2>2. Accept(n) => n \in accepted'
    BY DEF Accept
  <2>3. accepted \subseteq accepted'
    BY AcceptedGrows
  <2> QED BY <2>1, <2>2, <2>3
<1>b. /\ flag'[q] = flag[q] /\ mpc'[q] = mpc[q] /\ posted'[q] = posted[q] /\ talks'[q] = talks[q]
      /\ session'[q] = session[q] /\ (Early(q)' <=> Early(q))
      /\ (Got(q, "r_ack_received")' <=> Got(q, "r_ack_received"))
  BY <1>0 DEF Same, ManagerSame, MainSame, UiSame, StunSame, Got, Early
<1>c. spawned'[n] = spawned[n] \/ (Takes(n) /\ spawned[n] = 0 /\ spawned'[n] # 0)
  BY <1>a, SpawnedChanges, TakesEffect DEF Fits, Side, Local
<1>d. Has(q, "R_ACK")' => Has(q, "R_ACK") \/ Accept(n)
  <2>1. ASSUME NEW x \in Request, inbox'[q] = Append(inbox[q], x), Sent(n, x), Has(q, "R_ACK")'
        PROVE  Has(q, "R_ACK") \/ Accept(n)
    <3>1. Has(q, "R_ACK") \/ x = "R_ACK"
      BY <1>0, <2>1, AppendMail
    <3> QED BY <2>1, <3>1 DEF Sent
  <2> QED BY <2>1, PeerInbox, SameMail
<1>e. spawned[n] = 0 => inbox'[q] = inbox[q]
  BY PeerInbox, UnusedIsSilent
<1>1. ASSUME Has(q, "R_ACK")' \/ Got(q, "r_ack_received")' PROVE ~alert'[n] /\ n \in accepted'
  <2>1. CASE Takes(n)
    <3>1. spawned[n] = 0 BY <2>1 DEF Fits
    <3>2. inbox'[q] = <<>> /\ flag[q] = {} /\ mpc[q] = "idle"
      BY <1>e, <3>1 DEF Progress
    <3>3. ~Has(q, "R_ACK")' BY <3>2 DEF Has
    <3>4. ~Got(q, "r_ack_received") BY <3>2 DEF Got
    <3> QED BY <1>1, <1>b, <3>3, <3>4
  <2>2. CASE Accept(n)
    BY <1>a, <2>2, AlertChanges DEF Accept, Set, TInv, UiType
  <2>3. CASE ~Takes(n) /\ ~Accept(n)
    <3>1. Has(q, "R_ACK") \/ Got(q, "r_ack_received")
      BY <1>1, <1>b, <1>d, <2>3
    <3> QED BY <1>a, <2>3, <3>1, AlertChanges DEF Progress
  <2> QED BY <2>1, <2>2, <2>3
<1>2. ASSUME Got(n, "r_ack_sent")' PROVE n \in accepted'
  <2>1. CASE Got(n, "r_ack_sent") BY <1>a, <2>1 DEF Progress
  <2>2. CASE ~Got(n, "r_ack_sent")
    <3>1. Accept(n)
      BY <1>2, <2>2, GotStep DEF FlagOf
    <3> QED BY <1>a, <3>1
  <2> QED BY <2>1, <2>2
<1>3. ASSUME spawned'[n] = 0
      PROVE  inbox'[q] = <<>> /\ flag'[q] = {} /\ mpc'[q] = "idle" /\ posted'[q] = 0 /\ talks'[q] = 0
  BY <1>3, <1>b, <1>c, <1>e DEF Progress
<1>4. ASSUME Early(q)
      PROVE  spawned'[n] = 0 /\ ~Has(n, "Q_SDP")' /\ (session'[q] # "none" => inbox'[n] = <<>>)
  <2>1. spawned[n] = 0 /\ ~Has(n, "Q_SDP") /\ (session[q] # "none" => inbox[n] = <<>>)
    BY <1>4 DEF Progress
  <2>2. ~Takes(n)
    BY <2>1, HeadMail DEF Takes, HandleQ_SDP
  <2>3. inbox[n] = <<>> => inbox'[n] = <<>>
    BY OwnInbox
  <2> QED BY <1>b, <1>c, <2>1, <2>2, <2>3, OwnMail
<1>5. ASSUME Has(n, "Q_SDP")'
      PROVE  spawned'[n] = 0 /\ \A i \in 1..Len(inbox'[n]) : inbox'[n][i] = "Q_SDP" => i = 1
  <2>1. Has(n, "Q_SDP") BY <1>5, OwnMail
  <2>2. spawned[n] = 0 /\ \A i \in 1..Len(inbox[n]) : inbox[n][i] = "Q_SDP" => i = 1
    BY <2>1 DEF Progress
  <2>3. inbox[n] # <<>> /\ Head(inbox[n]) = "Q_SDP" /\ Once(n, "Q_SDP")
    BY <2>1, <2>2, FirstIsQ
  <2>4. ~Handled(n)
    BY <1>5, <2>3, HandledMail
  <2>5. inbox'[n] = inbox[n] /\ ~Takes(n)
    BY <2>4, OwnInbox DEF Handled, Takes
  <2> QED BY <1>c, <2>2, <2>5
<1> QED BY <1>b, <1>1, <1>2, <1>3, <1>4, <1>5 DEF Progress
(* D_CON stays until the phone handles it, or has no session.              *)
LEMMA GoodbyeStays ==
  ASSUME TInv, NEW n \in Node, Step(n), Has(n, "D_CON"), session[n] # "none", ~HandleD_CON(n)
  PROVE  Has(n, "D_CON")'
<1>0. InboxType BY DEF TInv
<1>1. CASE inbox'[n] = inbox[n] BY <1>1, SameMail
<1>2. CASE Handled(n) /\ inbox[n] # <<>> /\ inbox'[n] = Tail(inbox[n])
  <2>1. \E r \in Request \ {"D_CON"} : Handles(n, r)
    BY <1>2 DEF Handled, HandleQ_SDP, HandleR_SDP, HandleFlag, HandleOther, Request
  <2>2. Head(inbox[n]) # "D_CON"
    BY <2>1 DEF Handles
  <2> QED BY <1>0, <1>2, <2>2, TailMail
<1> QED BY <1>1, <1>2, OwnInbox

(* What was sent stays with the peer.                                      *)
LEMMA PeerKeeps ==
  ASSUME TInv, NEW n \in Node, NEW q \in Node, q = Peer[n], Step(n), NEW x, Has(q, x) PROVE Has(q, x)'
<1>0. InboxType BY DEF TInv
<1> QED BY <1>0, PeerInbox, SameMail, AppendMail

(* With a session, the call-off button and the rejection send D_CON.       *)
LEMMA RejectTells ==
  ASSUME TInv, NEW n \in Node, NEW q \in Node, q = Peer[n], Reject(n), Local(n)
  PROVE  Has(q, "D_CON")'
<1>1. session[n] # "none" /\ sendPacketRemoteUser(n, session[n], "D_CON") /\ "D_CON" \in Request
  BY LocalReject DEF Reject, Request
<1>2. inbox'[q] = Append(inbox[q], "D_CON")
  BY <1>1, SendInbox
<1> QED BY <1>1, <1>2, AppendMail DEF TInv

LEMMA QuitTells ==
  ASSUME TInv, NEW n \in Node, NEW q \in Node, q = Peer[n], handlePush2TalkQuit(n), Local(n)
  PROVE  Has(q, "D_CON")'
<1>1. session[n] # "none" /\ sendPacketRemoteUser(n, session[n], "D_CON") /\ "D_CON" \in Request
  BY LocalReset DEF handlePush2TalkQuit, Request
<1>2. inbox'[q] = Append(inbox[q], "D_CON")
  BY <1>1, SendInbox
<1> QED BY <1>1, <1>2, AppendMail DEF TInv

(* The thread of a caller ends its early part with Q_SDP, or is stopped.   *)
LEMMA EarlyEnds ==
  ASSUME TInv, NEW n \in Node, Step(n), OneThread(n), Fits(n), Early(n),
         mpc[n] = "idle", posted[n] = 0, ~handlePush2TalkQuit(n), ~HandleD_CON(n)
  PROVE  Early(n)' \/ \E k \in Thread : handleStunAddr(n, k)
<1>0. PICK j \in Thread : spc[n][j] \in {"start", "created", "gather"}
  BY DEF Early
<1>1. ~handlePush2TalkCallRemote(n) /\ ~Takes(n)
  BY <1>0 DEF OneThread, Fits
<1>2. User(n) => UNCHANGED spc
  BY <1>1 DEF User, Accept, Reject, AlertTimeout, stun
<1>3. MainThread(n) => UNCHANGED spc
  <2>1. HandleQ_SDP(n) => UNCHANGED spc
    BY <1>1 DEF HandleQ_SDP, Takes, stun
  <2>2. ~SetterTest(n) /\ ~RunPosted(n)
    BY DEF SetterTest, RunPosted
  <2> QED BY <2>1, <2>2 DEF MainThread, HandleR_SDP, HandleFlag, HandleOther, SetterStore, stun
<1>4. ASSUME NEW k \in Thread, StunThread(n, k) \/ IceSignal(n, k)
      PROVE  Early(n)' \/ \E i \in Thread : handleStunAddr(n, i)
  <2>1. j = k
    BY <1>0, <1>4, PointEffect
  <2>2. StunCreate(n, k) \/ StartStun(n, k) \/ handleStunAddr(n, k)
    BY <1>0, <1>4, <2>1 DEF StunThread, IceTest, IceStore, LateCallback, IceSignal
  <2>3. StunCreate(n, k) \/ StartStun(n, k) => spc'[n][k] \in {"start", "created", "gather"}
    BY PointEffect DEF StunThread
  <2> QED BY <2>2, <2>3 DEF Early
<1>5. UNCHANGED spc => Early(n)'
  BY DEF Early
<1> QED BY <1>2, <1>3, <1>4, <1>5 DEF Step

LEMMA LeavingCaller ==
  ASSUME TInv, NEW n \in Node, NEW q \in Node, q = Peer[n], q # n, Step(n), Side(n), Fits(n),
         calls[n] # 0, calls'[n] = calls[n], FromPeer(n, q), Progress(n, q), Leaving(n, q)
  PROVE  Leaving(n, q)'
<1>0. Same(q) /\ InboxType
  BY StepOthers DEF TInv
<1>a. /\ session'[q] = session[q] /\ (Missed(q)' <=> Missed(q))
      /\ ~HandleQ_SDP(n) /\ ~Accept(n) /\ ~Reject(n) /\ ~AlertTimeout(n) /\ ~Takes(n)
      /\ ~handlePush2TalkCallRemote(n)
  <2>1. ~HandleQ_SDP(n) /\ ~Accept(n) /\ ~Reject(n) /\ ~AlertTimeout(n) BY FitsCaller
  <2> QED BY <1>0, <2>1 DEF Fits, Takes, Same, ManagerSame, MainSame, UiSame, Missed, Got
<1>1. CASE session[n] = "none"
  <2>1. session'[n] = "none"
    BY <1>1, <1>a, SessionChanges
  <2>2. inbox'[q] = inbox[q]
    BY <1>1, <1>a, PeerInbox DEF Sent
  <2> QED BY <1>1, <1>a, <2>1, <2>2, SameMail DEF Leaving
<1>2. CASE session[n] # "none" /\ handlePush2TalkQuit(n)
  <2>1. Has(q, "D_CON")' /\ session'[n] = "none"
    BY <1>2, QuitTells, ResetEffect DEF Side
  <2> QED BY <2>1 DEF Leaving
<1>3. CASE session[n] # "none" /\ HandleD_CON(n)
  <2>1. Has(n, "D_CON") /\ inbox[n] # <<>> /\ session'[n] = "none"
    BY <1>3, HeadMail, ResetEffect DEF HandleD_CON, Handles
  <2>2. session[q] = "none" \/ Missed(q)
    BY <2>1 DEF FromPeer
  <2>3. ~Has(q, "Q_SDP")
    BY <2>1 DEF Progress
  <2>4. inbox'[q] = inbox[q]
    BY <1>0, <1>3, ConsumeMail DEF HandleD_CON
  <2>5. ~Has(q, "Q_SDP")'
    BY <2>3, <2>4, SameMail
  <2> QED BY <1>a, <2>1, <2>2, <2>5 DEF Leaving
<1>4. CASE session[n] # "none" /\ ~handlePush2TalkQuit(n) /\ ~HandleD_CON(n)
  <2>1. session'[n] # "none"
    BY <1>4, <1>a, SessionChanges
  <2>2. ASSUME session[q] = "none" PROVE Early(n)' \/ Has(q, "Q_SDP")' \/ Has(n, "D_CON")'
    <3>1. CASE Early(n)
      <4>1. mpc[n] = "idle" /\ posted[n] = 0
        BY <3>1 DEF Progress
      <4>2. CASE Early(n)'
        BY <4>2
      <4>3. ASSUME NEW k \in Thread, handleStunAddr(n, k) PROVE Has(q, "Q_SDP")'
        <5>1. session[n] = "Caller"
          BY <1>4 DEF Side, Local, InRole, TInv, ManagerType, Session
        <5>2. sendPacketRemoteUser(n, session[n], "Q_SDP") /\ "Q_SDP" \in Request
          BY <4>3, <5>1 DEF handleStunAddr, Request
        <5>3. inbox'[q] = Append(inbox[q], "Q_SDP")
          BY <1>4, <5>2, SendInbox
        <5> QED BY <1>0, <5>2, <5>3, AppendMail
      <4> QED BY <1>4, <3>1, <4>1, <4>2, <4>3, EarlyEnds DEF Side, Local
    <3>2. CASE Has(q, "Q_SDP")
      BY <3>2, PeerKeeps
    <3>3. CASE Has(n, "D_CON")
      BY <1>4, <3>3, GoodbyeStays
    <3> QED BY <1>4, <2>2, <3>1, <3>2, <3>3 DEF Leaving
  <2> QED BY <1>a, <2>1, <2>2 DEF Leaving
<1> QED BY <1>1, <1>2, <1>3, <1>4

LEMMA LeavingCallee ==
  ASSUME TInv, NEW n \in Node, NEW q \in Node, q = Peer[n], q # n, Step(n), Side(n), Fits(n),
         calls[n] = 0, calls'[n] = calls[n], session[q] # "Recver",
         FromPeer(n, q), Progress(q, n), Leaving(q, n)
  PROVE  Leaving(q, n)'
<1>0. Same(q) /\ InboxType
  BY StepOthers DEF TInv
<1>a. session'[q] = session[q] /\ (Early(q)' <=> Early(q)) /\ ~handlePush2TalkCallRemote(n)
  <2>1. handlePush2TalkCallRemote(n) => calls'[n] = calls[n] + 1
    BY DEF handlePush2TalkCallRemote, Set, TInv, PostType
  <2> QED BY <1>0, <2>1 DEF Same, ManagerSame, StunSame, Early
<1>b. ASSUME Has(n, "Q_SDP") PROVE IF Handled(n) THEN Takes(n) ELSE inbox'[n] = inbox[n]
  <2>1. inbox[n] # <<>> /\ Head(inbox[n]) = "Q_SDP"
    BY <1>b, FirstIsQ DEF Progress
  <2>2. Handled(n) => HandleQ_SDP(n)
    BY <2>1 DEF Handled, HandleR_SDP, HandleD_CON, HandleFlag, HandleOther, Handles
  <2> QED BY <2>2, OwnInbox DEF Takes, Fits
<1>1. ASSUME session[q] = "none", Has(n, "Q_SDP")' PROVE Has(n, "D_CON")'
  <2>1. Has(n, "Q_SDP") BY <1>1, OwnMail
  <2>2. ~Handled(n)
    <3>1. inbox[n] # <<>> /\ Head(inbox[n]) = "Q_SDP" /\ Once(n, "Q_SDP")
      BY <2>1, FirstIsQ DEF Progress
    <3> QED BY <1>1, <3>1, HandledMail
  <2>3. inbox'[n] = inbox[n]
    BY <2>2, OwnInbox
  <2> QED BY <1>1, <2>1, <2>3, SameMail DEF Leaving
<1>2. ASSUME session[q] = "none", session'[n] # "none" PROVE Has(n, "D_CON")' \/ Missed(n)'
  <2>1. CASE Takes(n)
    <3>1. inbox[n] # <<>> /\ Head(inbox[n]) = "Q_SDP" /\ Consume(n) /\ Has(n, "Q_SDP")
      <4>1. HandleQ_SDP(n) /\ ~Refuses(n) BY <2>1 DEF Takes
      <4> QED BY <4>1, HeadMail DEF HandleQ_SDP, Handles
    <3>2. Has(n, "D_CON")
      BY <1>2, <3>1 DEF Leaving
    <3> QED BY <1>0, <3>1, <3>2, ConsumeMail, TailMail
  <2>2. CASE ~Takes(n)
    <3>1. session[n] # "none" /\ ~HandleD_CON(n)
      BY <1>2, <1>a, <2>2, SessionChanges, ResetEffect
    <3>2. Has(n, "D_CON") \/ Missed(n)
      BY <1>2, <3>1 DEF Leaving
    <3>3. Missed(n) => Missed(n)'
      BY <1>2, <1>a, <2>2, StaysMissed
    <3> QED BY <3>1, <3>2, <3>3, GoodbyeStays
  <2> QED BY <2>1, <2>2
<1>3. ASSUME session[q] # "none", session'[n] = "none"
      PROVE  Early(q) \/ Has(n, "Q_SDP")' \/ Has(q, "D_CON")'
  <2>1. CASE session[n] = "none"
    <3>1. CASE Has(n, "Q_SDP")
      <4>1. ~Takes(n)
        BY <1>3, TakesEffect DEF Fits, Side, Local
      <4> QED BY <1>b, <3>1, <4>1, SameMail
    <3>2. CASE Has(q, "D_CON")
      BY <3>2, PeerKeeps
    <3> QED BY <1>3, <2>1, <3>1, <3>2 DEF Leaving
  <2>2. CASE handlePush2TalkQuit(n)
    BY <2>2, QuitTells DEF Side
  <2>3. CASE HandleD_CON(n)
    <3>1. Has(n, "D_CON")
      BY <2>3, HeadMail DEF HandleD_CON
    <3> QED BY <1>3, <3>1 DEF FromPeer, Missed
  <2>4. ~Takes(n)
    BY <1>3, TakesEffect DEF Fits, Side, Local
  <2>5. CASE Reject(n)
    BY <2>5, RejectTells DEF Side
  <2> QED BY <1>3, <1>a, <2>1, <2>2, <2>3, <2>4, <2>5, SessionChanges
<1> QED BY <1>a, <1>1, <1>2, <1>3 DEF Leaving
LEMMA CalledCaller ==
  ASSUME TInv, NEW n \in Node, NEW q \in Node, q = Peer[n], q # n, Step(n),
         calls[n] # 0, calls[q] = 0, calls'[n] = calls[n], Called(n, q)
  PROVE  Called(n, q)'
<1>1. Side(n) /\ Side(q) /\ FromPeer(n, q) /\ FromPeer(q, n) /\ Progress(n, q) /\ Leaving(n, q)
  BY DEF Called
<1>2. Fits(n) /\ ~Accept(n) /\ ~Takes(n)
  BY <1>1, FitsCaller DEF Takes
<1>3. Same(q) /\ Local(n)
  BY <1>1, StepOthers DEF Side
<1>4. Side(n)'
  BY <1>1, <1>2, SideOwn
<1>5. Side(q)'
  BY <1>1, <1>2, <1>3, SidePeer
<1>6. FromPeer(n, q)'
  BY <1>1, <1>2, <1>3, FromOwn
<1>7. FromPeer(q, n)'
  BY <1>1, <1>2, <1>3, FromPeerStep
<1>8. Progress(n, q)'
  BY <1>1, <1>2, ProgressCaller
<1>9. Leaving(n, q)'
  BY <1>1, <1>2, LeavingCaller
<1> QED BY <1>4, <1>5, <1>6, <1>7, <1>8, <1>9 DEF Called

LEMMA CalledCallee ==
  ASSUME TInv, NEW n \in Node, NEW q \in Node, q = Peer[n], q # n, Step(n),
         calls[n] = 0, calls[q] # 0, calls'[n] = calls[n], Called(q, n)
  PROVE  Called(q, n)'
<1>1. Side(n) /\ Side(q) /\ FromPeer(n, q) /\ FromPeer(q, n) /\ Progress(q, n) /\ Leaving(q, n)
  BY DEF Called
<1>2. Fits(n)
  BY <1>1, FitsCallee DEF Progress
<1>3. Same(q) /\ Local(n)
  BY <1>1, StepOthers DEF Side
<1>a. Takes(n) => inbox[q] = <<>> /\ flag[q] = {} /\ mpc[q] = "idle"
  BY <1>1, <1>2 DEF Fits, Progress
<1>b. Accept(n) => ~Has(q, "R_ACK") /\ ~Got(q, "r_ack_received")
  <2>1. Accept(n) => alert[n] BY DEF Accept
  <2> QED BY <1>1, <2>1 DEF Progress
<1>4. Side(n)'
  BY <1>1, <1>2, SideOwn
<1>5. Side(q)'
  BY <1>1, <1>2, <1>3, <1>b, SidePeer
<1>6. FromPeer(n, q)'
  BY <1>1, <1>2, <1>3, FromOwn
<1>7. FromPeer(q, n)'
  BY <1>1, <1>2, <1>3, <1>a, FromPeerStep
<1>8. Progress(q, n)'
  BY <1>1, <1>2, ProgressCallee
<1>9. Leaving(q, n)'
  <2>1. session[q] # "Recver"
    BY <1>1 DEF Side, Local, InRole
  <2> QED BY <1>1, <1>2, <2>1, LeavingCallee
<1> QED BY <1>4, <1>5, <1>6, <1>7, <1>8, <1>9 DEF Called

(* Before the call, nothing can happen but the call.                       *)
LEMMA OnlyCall ==
  ASSUME TInv, NEW n \in Node, Step(n), Uncalled(n), calls[n] = 0
  PROVE  handlePush2TalkCallRemote(n) /\ Fits(n)
<1>1. /\ inbox[n] = <<>> /\ spawned[n] = 0 /\ session[n] = "none" /\ posted[n] = 0 /\ ~controller[n]
      /\ ~alert[n] /\ mpc[n] = "idle"
  BY DEF Uncalled, Side, Local, Unused, NoSession
<1>2. ~handlePush2TalkQuit(n) /\ ~Accept(n) /\ ~Reject(n) /\ ~AlertTimeout(n)
  BY <1>1 DEF handlePush2TalkQuit, Accept, Reject, AlertTimeout
<1>3. ~MainThread(n)
  BY <1>1 DEF MainThread, HandleQ_SDP, HandleR_SDP, HandleD_CON, HandleFlag, HandleOther, Handles,
              SetterTest, SetterStore, RunPosted
<1>4. ASSUME NEW k \in Thread, StunThread(n, k) \/ IceSignal(n, k) PROVE FALSE
  BY <1>1, <1>4, PointEffect DEF Uncalled, Side, Local
<1>5. handlePush2TalkCallRemote(n)
  BY <1>2, <1>3, <1>4 DEF Step, User
<1>6. Fits(n)
  BY <1>1 DEF Fits, HandleQ_SDP, Handles, Takes
<1> QED BY <1>5, <1>6

LEMMA CallBegins ==
  ASSUME TInv, NEW n \in Node, NEW q \in Node, q = Peer[n], q # n, Step(n),
         calls[n] = 0, calls[q] = 0, Uncalled(n), Uncalled(q)
  PROVE  calls'[n] = 1 /\ Called(n, q)'
<1>0. Same(q) /\ handlePush2TalkCallRemote(n) /\ Fits(n)
  BY StepOthers, OnlyCall
<1>1. Local(n) /\ Local(q) /\ spawned[n] = 0 /\ spawned[q] = 0 /\ inbox[n] = <<>> /\ inbox[q] = <<>>
  BY DEF Uncalled, Side
<1>2. OneThread(n) BY <1>1 DEF Local
<1>3. /\ MainSame(n) /\ posted'[n] = 0 /\ session'[n] = "Caller" /\ flag'[n] = flag[n]
      /\ talks'[n] = talks[n] /\ calls'[n] = calls[n] + 1 /\ inbox' = inbox
      /\ 1 \in Thread /\ spc'[n][1] = "start"
  BY <1>0, <1>1, <1>2, CallEffect
<1>4. /\ session[q] = "none" /\ flag[n] = {} /\ flag[q] = {} /\ mpc[n] = "idle" /\ mpc[q] = "idle"
      /\ talks[n] = 0
  BY <1>1 DEF Local, Unused, NoSession
<1>5. /\ calls'[n] = 1 /\ flag'[n] = {} /\ mpc'[n] = "idle" /\ talks'[n] = 0 /\ Early(n)'
      /\ flag'[q] = {} /\ mpc'[q] = "idle" /\ spawned'[q] = 0 /\ session'[q] = "none"
  BY <1>0, <1>1, <1>3, <1>4 DEF Early, MainSame, Same, ManagerSame, StunSame
<1>6. /\ \A r : ~Has(n, r)' /\ ~Has(q, r)'
      /\ \A f : ~Got(n, f)' /\ ~Got(q, f)'
  BY <1>1, <1>3, <1>5 DEF Has, Got
<1>7. Local(n)' /\ Local(q)'
  BY <1>0, <1>1, LocalStep, LocalSame
<1>8. Side(n)' /\ Side(q)'
  BY <1>6, <1>7 DEF Side, RoleMail, Tokens
<1>9. FromPeer(n, q)' /\ FromPeer(q, n)'
  BY <1>6 DEF FromPeer, Con
<1>10. Progress(n, q)'
  BY <1>1, <1>3, <1>5, <1>6 DEF Progress
<1>11. Leaving(n, q)'
  BY <1>3, <1>5 DEF Leaving
<1> QED BY <1>5, <1>8, <1>9, <1>10, <1>11 DEF Called

(* A pair of phones no step of which was taken.                            *)
LEMMA SideSame ==
  ASSUME NEW m \in Node, Same(m), inbox'[m] = inbox[m], Side(m) PROVE Side(m)'
<1>1. Local(m)'
  BY LocalSame DEF Side
<1>2. calls'[m] = calls[m] /\ (\A f : Got(m, f)' <=> Got(m, f))
      /\ \A r : (Has(m, r)' <=> Has(m, r)) /\ (Once(m, r)' <=> Once(m, r))
  BY SameMail DEF Same, ManagerSame, MainSame, Got
<1>3. RoleMail(m)'
  BY <1>2 DEF Side, RoleMail
<1>4. Tokens(m)'
  BY <1>2 DEF Side, Tokens, FlagOf
<1> QED BY <1>1, <1>3, <1>4 DEF Side

LEMMA FromSame ==
  ASSUME NEW m \in Node, NEW q \in Node, Same(m), Same(q), inbox'[m] = inbox[m], FromPeer(m, q)
  PROVE  FromPeer(m, q)'
BY DEF FromPeer, Missed, Has, Got, Con, Signalled, Same, ManagerSame, MainSame, UiSame, StunSame

LEMMA CalledSame ==
  ASSUME NEW m \in Node, NEW q \in Node, Same(m), Same(q), inbox'[m] = inbox[m], inbox'[q] = inbox[q],
         accepted \subseteq accepted', Called(m, q)
  PROVE  Called(m, q)'
<1>1. Side(m)' /\ Side(q)' /\ FromPeer(m, q)' /\ FromPeer(q, m)'
  BY SideSame, FromSame DEF Called
<1>2. Progress(m, q)'
  BY DEF Called, Progress, Has, Got, Early, Same, ManagerSame, MainSame, UiSame, StunSame
<1>3. Leaving(m, q)'
  BY DEF Called, Leaving, Missed, Got, Has, Early, Same, ManagerSame, MainSame, UiSame, StunSame
<1> QED BY <1>1, <1>2, <1>3 DEF Called

LEMMA SStep ==
  ASSUME TInv, SInv, [Next]_vars PROVE SInv'
<1> DEFINE Pair(m) == IF calls[m] # 0 THEN Called(m, Peer[m]) ELSE calls[Peer[m]] = 0 => Uncalled(m)
<1>1. CASE UNCHANGED vars
  <2>1. \A m \in Node : Same(m) /\ inbox'[m] = inbox[m] /\ calls' = calls /\ accepted' = accepted
    BY <1>1 DEF vars, manager, main, ui, stun, history, Same, ManagerSame, MainSame, UiSame, StunSame
  <2>2. SingleCall' => SingleCall
    BY <1>1 DEF SingleCall, vars, history
  <2>3. ASSUME NEW m \in Node, Pair(m) PROVE Pair(m)'
    <3>1. Peer[m] \in Node BY PeerAssumption
    <3>2. Called(m, Peer[m]) => Called(m, Peer[m])'
      BY <2>1, <3>1, CalledSame
    <3>3. Uncalled(m) => Uncalled(m)'
      BY <2>1, SideSame DEF Uncalled, Same, StunSame
    <3> QED BY <2>1, <2>3, <3>2, <3>3
  <2> QED BY <2>2, <2>3 DEF SInv
<1>2. ASSUME NEW n \in Node, Step(n), SingleCall' PROVE \A m \in Node : Pair(m)'
  <2>0. PICK q \in Node : q = Peer[n] /\ q # n /\ n = Peer[q]
    BY PeerAssumption
  <2>1. \A m \in Node : m # n => Same(m) /\ calls'[m] = calls[m]
    BY <1>2, StepOthers DEF Same
  <2>2. /\ \A m \in Node : calls[m] \in Nat
        /\ calls'[n] = calls[n] \/ calls'[n] = calls[n] + 1
    BY <1>2, CallsChanges DEF TInv, PostType
  <2>3. \A m \in Node : calls'[m] \in Nat /\ calls[m] <= calls'[m]
    BY <2>1, <2>2
  <2>4. SingleCall
    BY <1>2, <2>2, <2>3, PeerAssumption DEF SingleCall
  <2>5. \A m \in Node : Pair(m)
    BY <2>4 DEF SInv
  <2>6. calls'[n] + calls'[q] <= 1 /\ calls'[q] = calls[q]
    BY <1>2, <2>0, <2>1 DEF SingleCall
  <2>7. Pair(n)' /\ Pair(q)'
    <3>1. CASE calls[n] # 0
      <4>1. calls'[n] = calls[n] /\ calls[q] = 0
        BY <2>0, <2>2, <2>6, <3>1
      <4>2. Called(n, q)'
        BY <1>2, <2>0, <2>5, <3>1, <4>1, CalledCaller
      <4> QED BY <2>0, <2>6, <3>1, <4>1, <4>2
    <3>2. CASE calls[q] # 0
      <4>1. calls'[n] = calls[n] /\ calls[n] = 0
        BY <2>0, <2>2, <2>6, <3>2
      <4>2. Called(q, n)'
        BY <1>2, <2>0, <2>5, <3>2, <4>1, CalledCallee
      <4> QED BY <2>0, <2>6, <3>2, <4>1, <4>2
    <3>3. CASE calls[n] = 0 /\ calls[q] = 0
      <4>1. Uncalled(n) /\ Uncalled(q)
        BY <2>0, <2>5, <3>3
      <4>2. calls'[n] = 1 /\ Called(n, q)'
        BY <1>2, <2>0, <3>3, <4>1, CallBegins
      <4> QED BY <2>0, <2>6, <3>3, <4>2
    <3> QED BY <3>1, <3>2, <3>3
  <2>8. ASSUME NEW m \in Node, m # n, m # q PROVE Pair(m)'
    <3>1. PICK p \in Node : p = Peer[m] /\ p # n /\ p # q
      BY <2>0, <2>8, PeerAssumption
    <3>2. /\ Same(m) /\ Same(p) /\ calls'[m] = calls[m] /\ calls'[p] = calls[p]
          /\ inbox'[m] = inbox[m] /\ inbox'[p] = inbox[p]
      BY <1>2, <2>0, <2>1, <2>8, <3>1, OtherInbox
    <3>3. accepted \subseteq accepted'
      BY <1>2, AcceptedGrows
    <3>4. Called(m, p) => Called(m, p)'
      BY <3>2, <3>3, CalledSame
    <3>5. Uncalled(m) => Uncalled(m)'
      BY <3>2, SideSame DEF Uncalled, Same, StunSame
    <3> QED BY <2>5, <3>1, <3>2, <3>4, <3>5
  <2> QED BY <2>7, <2>8
<1>3. ASSUME Next PROVE \E n \in Node : Step(n)
  BY <1>3 DEF Next, Step
<1> QED BY <1>1, <1>2, <1>3 DEF SInv
LEMMA SInit ==
  ASSUME Init PROVE SInv
<1>1. ASSUME NEW m \in Node
      PROVE  Uncalled(m) /\ calls[m] = 0
  <2>1. /\ busy[m] = FALSE /\ session[m] = "none" /\ flag[m] = {} /\ ice[m] = FALSE /\ mpc[m] = "idle"
        /\ controller[m] = FALSE /\ talks[m] = 0 /\ alert[m] = FALSE /\ thread[m] = 0 /\ stream[m] = 0
        /\ agent[m] = 0 /\ spawned[m] = 0 /\ posted[m] = 0 /\ inbox[m] = <<>> /\ calls[m] = 0
        /\ \A k \in Thread : spc[m][k] = "none"
    BY DEF Init
  <2>2. OneThread(m)
    BY <2>1 DEF OneThread, Callback
  <2>3. InRole(m) /\ NoSession(m) /\ StartsOnce(m) /\ Unused(m)
    BY <2>1 DEF InRole, NoSession, StartsOnce, Unused
  <2>4. RoleMail(m) /\ Tokens(m)
    BY <2>1 DEF RoleMail, Tokens, Has
  <2> QED BY <2>1, <2>2, <2>3, <2>4 DEF Uncalled, Side, Local
<1> QED BY <1>1 DEF SInv

LEMMA SingleCallInv == Spec => [](TInv /\ SInv)
<1>1. Init => TInv /\ SInv
  BY TypeInit, SInit
<1>2. TInv /\ SInv /\ [Next]_vars => (TInv /\ SInv)'
  BY TypeStep, SStep
<1> QED BY <1>1, <1>2, PTL DEF Spec

(* What SInv says of a phone in a single call.                             *)
LEMMA SingleCallParts ==
  ASSUME TInv, SInv, SingleCall, NEW n \in Node, NEW q \in Node, q = Peer[n]
  PROVE  /\ Side(n)
         /\ calls[n] # 0 => Called(n, q)
         /\ calls[n] = 0 /\ session[n] # "none" => Called(q, n)
<1>0. Peer[q] = n BY PeerAssumption
<1>1. CASE calls[n] # 0
  BY <1>1 DEF SInv, Called
<1>2. CASE calls[n] = 0 /\ calls[q] # 0
  <2>1. Called(q, n) BY <1>0, <1>2 DEF SInv
  <2> QED BY <1>2, <2>1 DEF Called
<1>3. CASE calls[n] = 0 /\ calls[q] = 0
  <2>1. Uncalled(n) BY <1>3 DEF SInv
  <2> QED BY <1>3, <2>1 DEF Uncalled, Side, Local, Unused
<1> QED BY <1>1, <1>2, <1>3

(* StartedOnce: in a single call, push2TalkConnected is called at most     *)
(* once for a controller, although the setters of the flags (main thread)  *)
(* and setIce_success: (stun thread) test without a lock and each may be   *)
(* the one that starts the talk.                                           *)
THEOREM StartsOneTalk == Spec => []StartedOnce
<1>1. TInv /\ SInv => StartedOnce
  <2> SUFFICES ASSUME TInv, SInv, SingleCall, NEW n \in Node PROVE talks[n] <= 1
    BY DEF StartedOnce
  <2>1. Local(n)
    BY SingleCallParts, PeerAssumption DEF Side
  <2>2. talks[n] \in Nat /\ posted[n] \in Nat
    BY DEF TInv, UiType, PostType
  <2>3. talks[n] = 0 \/ talks[n] + posted[n] <= 1
    BY <2>1 DEF Local, NoSession, StartsOnce
  <2> QED BY <2>2, <2>3
<1> QED BY <1>1, SingleCallInv, PTL

(* StartIsDue: in a single call the talk starts on a phone only when its   *)
(* own ICE succeeded (or setIce_success: is about to record it) and the    *)
(* callee's user accepted.                                                 *)
THEOREM StartsWhenDue == Spec => []StartIsDue
<1>1. TInv /\ SInv => StartIsDue
  <2> SUFFICES ASSUME TInv, SInv, SingleCall, NEW n \in Node, talks[n] > 0
               PROVE  /\ ice[n] \/ \E k \in Thread : spc[n][k] = "store"
                      /\ session[n] = "Caller" => Peer[n] \in accepted
                      /\ session[n] = "Recver" => n \in accepted
    BY DEF StartIsDue
  <2>0. PICK q \in Node : q = Peer[n] BY PeerAssumption
  <2>1. Local(n)
    BY <2>0, SingleCallParts DEF Side
  <2>2. talks[n] \in Nat /\ posted[n] \in Nat
    BY DEF TInv, UiType, PostType
  <2>3. session[n] # "none" /\ talks[n] + posted[n] > 0
    BY <2>1, <2>2 DEF Local, NoSession
  <2>4. Ack(n) \in Stored(n) /\ (ice[n] \/ \E k \in Thread : spc[n][k] = "store")
    BY <2>1, <2>3 DEF Local, StartsOnce
  <2>5. ASSUME session[n] = "Caller" PROVE q \in accepted
    <3>1. calls[n] # 0
      BY <2>1, <2>5 DEF Local, InRole
    <3>2. Got(n, "r_ack_received")
      BY <2>4, <3>1 DEF Ack, Stored, Got
    <3> QED BY <2>0, <3>1, <3>2, SingleCallParts DEF Called, Progress
  <2>6. ASSUME session[n] = "Recver" PROVE n \in accepted
    <3>1. calls[n] = 0
      BY <2>1, <2>6 DEF Local, InRole
    <3>2. Got(n, "r_ack_sent")
      BY <2>4, <3>1 DEF Ack, Stored, Got
    <3> QED BY <2>0, <2>3, <3>1, <3>2, SingleCallParts DEF Called, Progress
  <2> QED BY <2>0, <2>4, <2>5, <2>6
<1> QED BY <1>1, SingleCallInv, PTL

(* NoDangling: in a single call StunClose never frees the agent under a    *)
(* callback, because it takes g_stun_mutex first.                          *)
THEOREM AgentOutlivesCallbacks == Spec => []NoDangling
<1>1. TInv /\ SInv => NoDangling
  <2> SUFFICES ASSUME TInv, SInv, SingleCall, NEW n \in Node, NEW k \in Thread PROVE spc[n][k] # "dangling"
    BY DEF NoDangling
  <2> QED BY SingleCallParts, PeerAssumption DEF Side, Local, OneThread
<1> QED BY <1>1, SingleCallInv, PTL

(* NobodyLeftBusy: in a single call, a phone that leaves tells its peer,   *)
(* so that when nothing is under way no phone is busy with a peer that has *)
(* no session, in whatever order Q_SDP, D_CON, the call-off, the rejection *)
(* and the timeout crossed; but for the phone whose own alert timed out.   *)
THEOREM NobodyStranded == Spec => []NobodyLeftBusy
<1>1. TInv /\ SInv => NobodyLeftBusy
  <2> SUFFICES ASSUME TInv, SInv, SingleCall, \A m \in Node : Settled(m), NEW n \in Node, busy[n],
                      NEW q \in Node, q = Peer[n], session[q] = "none"
               PROVE  TimedOut(n)
    BY PeerAssumption DEF NobodyLeftBusy
  <2>1. session[n] # "none"
    BY SingleCallParts DEF Side, Local, InRole
  <2>2. \A m \in Node, r \in Request : ~Has(m, r)
    BY DEF Settled, Has
  <2>3. ~Early(n)
    BY DEF Settled, Early
  <2>4. CASE calls[n] # 0
    <3>1. Leaving(n, q) BY <2>4, SingleCallParts DEF Called
    <3> QED BY <2>1, <2>2, <2>3, <3>1 DEF Leaving, Request
  <2>5. CASE calls[n] = 0
    <3>1. Leaving(q, n) BY <2>1, <2>5, SingleCallParts DEF Called
    <3> QED BY <2>1, <2>2, <3>1 DEF Leaving, Request, Missed, Got, TimedOut
  <2> QED BY <2>4, <2>5
<1> QED BY <1>1, SingleCallInv, PTL
=============================================================================

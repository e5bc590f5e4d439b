------------------------------ MODULE IceChecks ------------------------------
(* The connectivity checks of libnice as this repository carries it: the     *)
(* check list, its timer and the STUN messages of two agents with one stream *)
(* of one component each, the way Stunwrapper.m creates them                 *)
(* (NICE_COMPATIBILITY_RFC5245, UDP, no relay).                              *)
(*                                                                           *)
(* Every entry point of an agent runs under its lock: one action each.  The  *)
(* functions an entry point calls are operators from the agent's state to    *)
(* its next one; what they send is gathered in the field out.                *)
(*                                                                           *)
(* External: sockets, NATs and the network, which may lose and reorder.  A   *)
(* candidate stands for its address.  Left out: keepalives, credentials (the *)
(* peers know each other's), STUN errors other than a role conflict.         *)
EXTENDS Integers, Sequences, FiniteSets, SequencesExt

CONSTANTS
  Agent, Peer,
  Gathered,    \* Gathered[a]: a's candidates, in the order of its SDP
  Prio,        \* Prio[x]: the priority of a gathered candidate
  AttrPrio,    \* PRIORITY in a request: that of a remote learnt from it
  LearntPrio,  \* the priority of a local candidate learnt from a reply
  Word,        \* 2^32: the size of a guint32
  Sock,        \* Sock[x]: the socket datagrams to address x arrive at
  Via,         \* Via[<<h, x>>]: the source x sees when socket h sends to it
  Tie,         \* tie_breaker
  Roles,       \* the controlling modes the two agents may be created with
  MaxTrans,    \* transmissions of a check, 4 with timer.c's 600..4800 ms
  MaxChecks,   \* agent->max_conn_checks, 100
  MaxLoss,     \* bound: datagrams lost
  Prompt,      \* datagrams are faster than the retransmission timer
  EarlyChecks  \* checks may be faster than the peer's candidates

Signalled == UNION {ToSet(Gathered[a]) : a \in Agent}

ASSUME AgentsAssumption ==
  /\ Peer \in [Agent -> Agent] /\ Tie \in [Agent -> Nat]
  /\ \A a \in Agent : Peer[a] # a /\ Peer[Peer[a]] = a /\ Tie[a] # Tie[Peer[a]]
  /\ Roles \subseteq [Agent -> BOOLEAN]

ASSUME CandidatesAssumption ==
  /\ Gathered \in [Agent -> Seq(DOMAIN Sock)]
  /\ {Word, AttrPrio, LearntPrio} \subseteq Nat \ {0}
  /\ \A x \in Signalled : Prio[x] \in Nat \ {0} /\ 2 * Prio[x] + 1 < Word

(* The source of a datagram is an address of the socket that sent it.      *)
ASSUME NetworkAssumption ==
  \A hx \in DOMAIN Via : Via[hx] \in DOMAIN Sock /\ Sock[Via[hx]] = hx[1]

ASSUME LimitsAssumption == {MaxTrans, MaxChecks} \subseteq Nat \ {0}

VARIABLES
  ag,      \* ag[a]: agent a
  net,     \* the datagrams under way
  losses   \* how many were lost

vars == <<ag, net, losses>>

NoPair == [local |-> "none", remote |-> "none", prio |-> 0]

Init ==
  /\ \E role \in Roles :
       ag = [a \in Agent |->
              [ctrl |-> role[a], local |-> Gathered[a], remote |-> <<>>,
               list |-> <<>>, state |-> "GATHERING", sel |-> NoPair,
               timer |-> FALSE, early |-> <<>>, out |-> {}]]
  /\ net = {}
  /\ losses = 0

-----------------------------------------------------------------------------
(* Priorities.                                                             *)

nice_candidate_pair_priority(o, a) ==
  LET max == IF o > a THEN o ELSE a
      min == IF o < a THEN o ELSE a
  IN  Word * min + 2 * max + (IF o > a THEN 1 ELSE 0)

LocalPrio(x) == IF x \in Signalled THEN Prio[x] ELSE LearntPrio
RemotePrio(x) == IF x \in Signalled THEN Prio[x] ELSE AttrPrio

agent_candidate_pair_priority(ctrl, l, r) ==
  IF ctrl THEN nice_candidate_pair_priority(LocalPrio(l), RemotePrio(r))
          ELSE nice_candidate_pair_priority(RemotePrio(r), LocalPrio(l))

(* Learnt candidates of one kind share an IP address, hence a foundation.  *)
Foundation(x) == IF x \in Signalled THEN x ELSE "learnt"

-----------------------------------------------------------------------------
(* The network.                                                            *)

Request(a, p) ==
  LET h == Sock[p.local] IN
  IF <<h, p.remote>> \in DOMAIN Via
    THEN {[kind |-> "request", to |-> Peer[a], from |-> Via[<<h, p.remote>>],
           sock |-> Sock[p.remote], tid |-> p.tid, ctrl |-> p.asCtrl]}
    ELSE {}

Reply(a, m, kind) ==
  IF <<m.sock, m.from>> \in DOMAIN Via
    THEN {[kind |-> kind, to |-> Peer[a], from |-> Via[<<m.sock, m.from>>],
           mapped |-> m.from, tid |-> m.tid]}
    ELSE {}

(* Does datagram m belong to transaction id of agent a?                    *)
OfTransaction(a, id, m) ==
  m.tid = id /\ (m.kind = "request") = (m.to # a)

(* An id none of the agent's transactions still uses: as good as random.   *)
Fresh(a, s) ==
  LET used == {s.list[i].tid : i \in DOMAIN s.list}
                \cup {m.tid : m \in {m \in net \cup s.out : OfTransaction(a, m.tid, m)}}
  IN  Min((1 .. Cardinality(used) + 1) \ used)

-----------------------------------------------------------------------------
(* Check pairs.                                                            *)

Valid(p) == p.state \in {"SUCCEEDED", "DISCOVERED"}
FirstPair(s, Test(_)) == SelectInSeq(s.list, Test)
Signal(s, state) == [s EXCEPT !.state = state]

(* A list written pair by pair.  (SubSeq has TLC evaluate it here: of a    *)
(* function it has not evaluated, TLC loses what EXCEPT changes later.)    *)
Listed(pairs) == SubSeq(pairs, 1, Len(pairs))

conn_check_send(a, s, i) ==
  LET p == [s.list[i] EXCEPT !.nominated = @ \/ s.ctrl, !.tid = Fresh(a, s),
                             !.sent = 1, !.asCtrl = s.ctrl]
  IN  [s EXCEPT !.list[i] = p, !.out = @ \cup Request(a, p)]

priv_conn_check_initiate(a, s, i) ==
  conn_check_send(a, [s EXCEPT !.list[i].state = "IN_PROGRESS"], i)

priv_conn_check_unfreeze_next(s) ==
  LET frozen == {i \in DOMAIN s.list : s.list[i].state = "FROZEN"}
      first == CHOOSE i \in frozen : \A j \in frozen :
                 \/ s.list[i].prio > s.list[j].prio
                 \/ s.list[i].prio = s.list[j].prio /\ i <= j
  IN  IF frozen = {} THEN s ELSE [s EXCEPT !.list[first].state = "WAITING"]

priv_conn_check_unfreeze_related(s, ok) ==
  LET related == {i \in DOMAIN s.list :
                    /\ s.list[i].state = "FROZEN"
                    /\ Foundation(s.list[i].local) = Foundation(ok.local)
                    /\ Foundation(s.list[i].remote) = Foundation(ok.remote)}
  IN  IF related = {} THEN priv_conn_check_unfreeze_next(s)
      ELSE [s EXCEPT !.list = Listed([i \in DOMAIN s.list |->
              IF i \in related THEN [s.list[i] EXCEPT !.state = "WAITING"] ELSE s.list[i]])]

priv_limit_conn_check_list_size(list) ==
  IF Len(list) > MaxChecks THEN SubSeq(list, 1, Len(list) - MaxChecks) ELSE list

(* compat_slist_insert_sorted puts the new pair before the first one it    *)
(* compares greater than.  The priority is assigned after the insertion,   *)
(* so that the new pair compares with 0.                                   *)
InsertSorted(list, p) ==
  LET at == SelectInSeq(list, LAMBDA q : 0 < q.prio)
  IN  SubSeq(list, 1, at - 1) \o <<p>> \o SubSeq(list, at, Len(list))

priv_add_new_check_pair(s, l, r, state, use) ==
  LET p == [local |-> l, remote |-> r, state |-> state, nominated |-> use,
            prio |-> agent_candidate_pair_priority(s.ctrl, l, r),
            ctrl |-> s.ctrl, asCtrl |-> s.ctrl, tid |-> 0, sent |-> 0]
  IN  [s EXCEPT !.list = priv_limit_conn_check_list_size(
         IF @ = <<>> THEN <<p>> ELSE InsertSorted(@, p))]

(* A server reflexive candidate of our own is not paired.                  *)
Paired(l) == l \in Signalled => Sock[l] = l

PairWith(s, l, r) ==
  IF Paired(l)
    THEN Signal(priv_add_new_check_pair(s, l, r, "FROZEN", FALSE),
                IF s.state \in {"GATHERING", "CONNECTING"} THEN "CONNECTING" ELSE "CONNECTED")
    ELSE s

conn_check_add_for_candidate(s, r) ==
  LET after[n \in 0 .. Len(s.local)] ==
        IF n = 0 THEN s ELSE PairWith(after[n - 1], s.local[n], r)
  IN  after[Len(s.local)]

FaultySelected(s, p) ==
  IF s.sel = NoPair
    THEN [s EXCEPT !.sel = [local |-> p.local, remote |-> p.remote, prio |-> p.prio]]
    ELSE s

priv_update_selected_pair(s, p) ==
  IF p.prio > s.sel.prio
    THEN [s EXCEPT !.sel = [local |-> p.local, remote |-> p.remote, prio |-> p.prio]]
    ELSE s

FaultyPrune(s) ==
  [s EXCEPT !.list = Listed([i \in DOMAIN s.list |->
     IF s.list[i].state \in {"FROZEN", "WAITING", "IN_PROGRESS"}
       THEN [s.list[i] EXCEPT !.state = "CANCELLED", !.tid = 0] ELSE s.list[i]])]

(* All FROZEN and WAITING pairs are cancelled, and the checks in progress  *)
(* that are worse than the best nominated pair.                            *)
priv_prune_pending_checks(s) ==
  LET best == {p.prio : p \in {p \in ToSet(s.list) : Valid(p) /\ p.nominated}}
      Cancel(p) == \/ p.state \in {"FROZEN", "WAITING"}
                   \/ p.state = "IN_PROGRESS" /\ best # {} /\ p.prio < Max(best)
  IN  [s EXCEPT !.list = Listed([i \in DOMAIN s.list |->
         IF Cancel(s.list[i]) THEN [s.list[i] EXCEPT !.state = "CANCELLED", !.tid = 0] ELSE s.list[i]])]

priv_update_check_list_state_for_ready(s) ==
  LET t == priv_prune_pending_checks(s) IN
  IF \E p \in ToSet(s.list) : Valid(p) /\ p.nominated
    THEN IF \E p \in ToSet(t.list) : p.state = "IN_PROGRESS" THEN t ELSE Signal(t, "READY")
    ELSE s

priv_update_check_list_failed_components(s) ==
  IF s.remote # <<>> /\ \A p \in ToSet(s.list) : p.state = "FAILED"
    THEN Signal(s, "FAILED") ELSE s

Nominate(s, i) ==
  LET t == [s EXCEPT !.list[i].nominated = TRUE]
  IN  priv_update_check_list_state_for_ready(
        IF Valid(t.list[i]) THEN priv_update_selected_pair(t, t.list[i]) ELSE t)

priv_mark_pair_nominated(s, r) ==
  LET after[i \in 0 .. Len(s.list)] ==
        IF i = 0 THEN s
        ELSE IF s.list[i].remote = r THEN Nominate(after[i - 1], i) ELSE after[i - 1]
  IN  after[Len(s.list)]

priv_schedule_triggered_check(a, s, sock, r, use) ==
  LET i == FirstPair(s, LAMBDA p : p.remote = r /\ Sock[p.local] = sock)
      l == SelectInSeq(s.local, LAMBDA x : Sock[x] = sock)
  IN  IF i = 0
        THEN IF l = 0 THEN s ELSE priv_add_new_check_pair(s, s.local[l], r, "WAITING", use)
      ELSE IF s.list[i].state \in {"WAITING", "FROZEN"}
        THEN priv_conn_check_initiate(a, s, i)
      ELSE IF Valid(s.list[i])
        THEN LET t == priv_update_check_list_state_for_ready(s)
             IN  IF t.ctrl THEN priv_conn_check_initiate(a, t, i) ELSE t
      ELSE s

priv_check_for_role_conflict(s, control) ==
  IF control = s.ctrl THEN s
  ELSE [s EXCEPT !.ctrl = control,
                 !.list = Listed([i \in DOMAIN s.list |-> [s.list[i] EXCEPT
                    !.prio = agent_candidate_pair_priority(control, s.list[i].local, s.list[i].remote)]])]

discovery_learn_remote_peer_reflexive_candidate(s, from) ==
  [s EXCEPT !.remote = Append(@, from)]

-----------------------------------------------------------------------------
(* The timer: start or unfreeze one check, retransmit what is due, nominate *)
(* if the role changed after the pair was validated, stop when done.        *)

InProgress(s) == {i \in DOMAIN s.list : s.list[i].state = "IN_PROGRESS"}

FaultyOnceMore(a, s, due) ==
  [s EXCEPT
     !.list = Listed([i \in DOMAIN s.list |->
        IF i \in due /\ s.list[i].sent <= MaxTrans
          THEN [s.list[i] EXCEPT !.sent = @ + 1] ELSE s.list[i]]),
     !.out = @ \cup UNION {Request(a, s.list[i]) : i \in due}]

FaultyGiveUp(a, s, due) ==
  [s EXCEPT !.list = Listed([i \in DOMAIN s.list |->
     IF i \in due THEN [s.list[i] EXCEPT !.state = "FAILED", !.tid = 0] ELSE s.list[i]])]

Retransmit(a, s, due) ==
  LET again == {i \in due : s.list[i].sent < MaxTrans} IN
  [s EXCEPT
     !.list = Listed([i \in DOMAIN s.list |->
        IF i \in again THEN [s.list[i] EXCEPT !.sent = @ + 1]
        ELSE IF i \in due THEN [s.list[i] EXCEPT !.state = "FAILED", !.tid = 0]
        ELSE s.list[i]]),
     !.out = @ \cup UNION {Request(a, s.list[i]) : i \in again}]

WaitsForNomination(s) ==
  /\ \E p \in ToSet(s.list) : Valid(p)
  /\ \A p \in ToSet(s.list) : Valid(p) => ~p.nominated

NominateFirst(a, s) ==
  LET i == FirstPair(s, Valid)
  IN  IF WaitsForNomination(s) /\ s.ctrl
        THEN priv_conn_check_initiate(a, [s EXCEPT !.list[i].nominated = TRUE], i)
        ELSE s

priv_conn_check_tick_unlocked(a, s, due) ==
  LET i == FirstPair(s, LAMBDA p : p.state = "WAITING")
      t == IF i # 0 THEN priv_conn_check_initiate(a, s, i) ELSE priv_conn_check_unfreeze_next(s)
      u == Retransmit(a, t, due)
      keep_timer_going == t # s \/ InProgress(u) # {} \/ WaitsForNomination(u)
  IN  IF keep_timer_going THEN NominateFirst(a, u)
      ELSE [priv_update_check_list_state_for_ready(priv_update_check_list_failed_components(u))
              EXCEPT !.timer = FALSE]

(* The first tick runs at once, and the timer is there if it has to go on. *)
conn_check_schedule_next(a, s) ==
  priv_conn_check_tick_unlocked(a, [priv_conn_check_unfreeze_next(s) EXCEPT !.timer = TRUE], {})

-----------------------------------------------------------------------------
(* Early checks: requests that came before the peer's candidates did.      *)

MAX_REMOTE_CANDIDATES == 25

priv_store_pending_check(s, m, use) ==
  IF Len(s.early) >= MAX_REMOTE_CANDIDATES THEN s
  ELSE [s EXCEPT !.early = Append(@, [from |-> m.from, sock |-> m.sock, use |-> use])]

UpdateWith(a, s, e, p) ==
  IF e.from = p.remote /\ e.sock = Sock[p.local]
    THEN priv_schedule_triggered_check(a,
           IF e.use THEN priv_mark_pair_nominated(s, p.remote) ELSE s, e.sock, p.remote, e.use)
    ELSE s

priv_preprocess_conn_check_pending_data(a, s, p) ==
  LET after[n \in 0 .. Len(s.early)] ==
        IF n = 0 THEN s ELSE UpdateWith(a, after[n - 1], s.early[n], p)
  IN  after[Len(s.early)]

LearnFrom(a, s, e) ==
  priv_schedule_triggered_check(a,
    conn_check_add_for_candidate(discovery_learn_remote_peer_reflexive_candidate(s, e.from), e.from),
    e.sock, e.from, e.use)

(* match is not reset from one check to the next.                          *)
LearnUnlessMatched(a, x, e) ==
  LET match == x.match \/ e.from \in ToSet(x.s.remote)
  IN  [match |-> match, s |-> IF match THEN x.s ELSE LearnFrom(a, x.s, e)]

(* The stored checks are freed at the end of the first round of the loop   *)
(* over the pairs.                                                         *)
conn_check_remote_candidates_set(a, s) ==
  LET t == priv_preprocess_conn_check_pending_data(a, s, s.list[1])
      after[n \in 0 .. Len(t.early)] ==
        IF n = 0 THEN [match |-> FALSE, s |-> t]
        ELSE LearnUnlessMatched(a, after[n - 1], t.early[n])
  IN  IF s.list = <<>> THEN s ELSE [after[Len(t.early)].s EXCEPT !.early = <<>>]

-----------------------------------------------------------------------------
(* Inbound STUN.                                                           *)

FaultyGivesWay(a, s, m) == m.ctrl = s.ctrl

(* stun_usage_ice_conncheck_create_reply: the agent with the lower tie     *)
(* breaker gives way, in either role.                                      *)
GivesWay(a, s, m) == m.ctrl = s.ctrl /\ Tie[a] < Tie[Peer[a]]

handle_request(a, s, m) ==
  LET conflict == m.ctrl = s.ctrl /\ ~GivesWay(a, s, m)
      r == priv_check_for_role_conflict(s, IF GivesWay(a, s, m) THEN ~s.ctrl ELSE s.ctrl)
      use == m.ctrl \/ r.ctrl
      t == IF r.remote # <<>> /\ m.from \notin ToSet(r.remote)
             THEN conn_check_add_for_candidate(
                    discovery_learn_remote_peer_reflexive_candidate(r, m.from), m.from)
             ELSE r
      u == [t EXCEPT !.out = @ \cup Reply(a, m, IF conflict THEN "conflict" ELSE "response")]
      v == priv_schedule_triggered_check(a, u, m.sock, m.from, use)
  IN  IF u.remote = <<>> THEN priv_store_pending_check(u, m, use)
      ELSE IF use THEN priv_mark_pair_nominated(v, m.from) ELSE v

(* The mapped address is no candidate of ours: the pair that works is a    *)
(* new one, whose priority is made from the old pair's, cut to 32 bits.    *)
priv_add_peer_reflexive_pair(s, mapped, i) ==
  LET parent == s.list[i].prio % Word
      p == [local |-> mapped, remote |-> s.list[i].remote, state |-> "DISCOVERED",
            nominated |-> FALSE, ctrl |-> s.ctrl, asCtrl |-> s.ctrl, tid |-> 0, sent |-> 0,
            prio |-> IF s.ctrl THEN nice_candidate_pair_priority(LearntPrio, parent)
                               ELSE nice_candidate_pair_priority(parent, LearntPrio)]
  IN  [s EXCEPT !.local = Append(@, mapped),
                !.list = Append([@ EXCEPT ![i].state = "FAILED"], p)]

handle_success(s, m, i) ==
  LET known == m.mapped \in ToSet(s.local)
      succ == [s EXCEPT !.list[i].state = "SUCCEEDED"]
      t == IF known THEN priv_conn_check_unfreeze_related(succ, succ.list[i])
                    ELSE priv_add_peer_reflexive_pair(s, m.mapped, i)
      ok == IF known THEN t.list[i] ELSE Last(t.list)
      u == IF t.state # "READY" THEN Signal(t, "CONNECTED") ELSE t
  IN  priv_update_check_list_state_for_ready(
        IF ok.nominated THEN priv_update_selected_pair(u, ok) ELSE u)

priv_map_reply_to_conn_check_request(s, m) ==
  LET i == FirstPair(s, LAMBDA p : p.tid = m.tid)
      t == [s EXCEPT !.list[i].tid = 0]
  IN  IF i = 0 THEN s
      ELSE IF m.kind = "conflict"
        THEN [priv_check_for_role_conflict(t, ~t.list[i].ctrl) EXCEPT !.list[i].state = "WAITING"]
      ELSE IF m.from # s.list[i].remote
        THEN [t EXCEPT !.list[i].state = "FAILED"]
      ELSE handle_success(t, m, i)

-----------------------------------------------------------------------------
(* The entry points.                                                       *)

Become(a, s, rest) ==
  /\ ag' = [ag EXCEPT ![a] = [s EXCEPT !.out = {}]]
  /\ net' = rest \cup s.out
  /\ UNCHANGED losses

(* The candidates of the peer's SDP.  One that is known already is only    *)
(* paired once more.                                                       *)
priv_add_remote_candidate(s, r) ==
  conn_check_add_for_candidate(
    IF r \in ToSet(s.remote) THEN s ELSE [s EXCEPT !.remote = Append(@, r)], r)

AddAll(s, candidates) ==
  LET after[n \in 0 .. Len(candidates)] ==
        IF n = 0 THEN s ELSE priv_add_remote_candidate(after[n - 1], candidates[n])
  IN  after[Len(candidates)]

nice_agent_set_remote_candidates(a) ==
  LET s == AddAll(ag[a], Gathered[Peer[a]])
  IN  /\ ag[a].remote = <<>>
      /\ Become(a, conn_check_schedule_next(a, conn_check_remote_candidates_set(a, s)), net)

(* A check is due when its timer ran out; with Prompt, when in addition    *)
(* nothing of its transaction is under way.                                *)
MayBeDue(a, i) ==
  Prompt => \A m \in net : ~OfTransaction(a, ag[a].list[i].tid, m)

priv_conn_check_tick(a) ==
  /\ ag[a].timer
  /\ \E due \in SUBSET {i \in InProgress(ag[a]) : MayBeDue(a, i)} :
       Become(a, priv_conn_check_tick_unlocked(a, ag[a], due), net)

conn_check_handle_inbound_stun(a) ==
  \E m \in net :
    /\ m.to = a
    /\ EarlyChecks \/ ag[a].remote # <<>>
    /\ Become(a, IF m.kind = "request" THEN handle_request(a, ag[a], m)
                 ELSE priv_map_reply_to_conn_check_request(ag[a], m),
              net \ {m})

Lose ==
  /\ losses < MaxLoss
  /\ \E m \in net : net' = net \ {m}
  /\ losses' = losses + 1
  /\ UNCHANGED ag

Next == \/ \E a \in Agent : \/ nice_agent_set_remote_candidates(a)
                            \/ priv_conn_check_tick(a)
                            \/ conn_check_handle_inbound_stun(a)
        \/ Lose

Spec == Init /\ [][Next]_vars

(* The run loop of each agent serves its timer, its sockets and the        *)
(* signalling: weak fairness of the three entry points, with the states    *)
(* in which each would change something written out.                       *)
TickIsDue(a) ==
  /\ ag[a].timer
  /\ \/ \E p \in ToSet(ag[a].list) : p.state \in {"WAITING", "FROZEN"}
     \/ \E i \in InProgress(ag[a]) : MayBeDue(a, i)
     \/ InProgress(ag[a]) = {} /\ ~WaitsForNomination(ag[a])
     \/ WaitsForNomination(ag[a]) /\ ag[a].ctrl

Fairness == \A a \in Agent :
  /\ <>[](ag[a].remote = <<>>) => []<><<nice_agent_set_remote_candidates(a)>>_vars
  /\ <>[]TickIsDue(a) => []<><<priv_conn_check_tick(a)>>_vars
  /\ <>[](\E m \in net : m.to = a /\ (EarlyChecks \/ ag[a].remote # <<>>))
       => []<><<conn_check_handle_inbound_stun(a)>>_vars

FairSpec == Spec /\ Fairness

-----------------------------------------------------------------------------
(* The types.  No check is sent more often than the STUN timer allows, and *)
(* only a check under way has a transaction (priv_map_reply_to_conn_check_ *)
(* request matches on nothing else).                                       *)
CheckState == {"WAITING", "IN_PROGRESS", "SUCCEEDED", "FAILED", "FROZEN", "CANCELLED", "DISCOVERED"}
TypeOK == \A a \in Agent :
  /\ ag[a].ctrl \in BOOLEAN /\ ag[a].timer \in BOOLEAN /\ ag[a].out = {}
  /\ ag[a].state \in {"GATHERING", "CONNECTING", "CONNECTED", "READY", "FAILED"}
  /\ ToSet(ag[a].local) \cup ToSet(ag[a].remote) \subseteq DOMAIN Sock
  /\ \A p \in ToSet(ag[a].list) :
       /\ p.state \in CheckState /\ p.nominated \in BOOLEAN /\ p.sent \in 0 .. MaxTrans
       /\ p.local \in ToSet(ag[a].local) /\ p.remote \in ToSet(ag[a].remote)
       /\ (p.tid # 0) = (p.state = "IN_PROGRESS")

(* The pair media are sent on (priv_update_selected_pair) is the best of   *)
(* the valid pairs that were nominated, whatever nominated them and in     *)
(* which order, also across a change of roles, which changes priorities;   *)
(* and there is one when the component is READY.                           *)
SelectedIsBest == \A a \in Agent :
  /\ \A p \in ToSet(ag[a].list) : Valid(p) /\ p.nominated => p.prio <= ag[a].sel.prio
  /\ ag[a].state = "READY" => ag[a].sel # NoPair

(* Once the two agents have different roles, no late request or conflict   *)
(* error takes them back (priv_check_for_role_conflict).                   *)
RolesDiffer == \A a \in Agent : ag[a].ctrl # ag[Peer[a]].ctrl
RolesStay == [][RolesDiffer => RolesDiffer']_vars

Quiet == net = {} /\ \A a \in Agent : ag[a].remote # <<>> /\ ~ag[a].timer

(* When nothing is left to do the two agents send on the same path: what   *)
(* each sends arrives with the source address the other one sends to.      *)
(* Stated for agents that begin in different roles, get the remote         *)
(* candidates before the first check (~EarlyChecks) and answers before the *)
(* retransmission timer (Prompt), and lose less than a check's             *)
(* transmissions; conncheck.c does not ensure it without these.            *)
Agreement == Quiet => \A a \in Agent :
  LET mine == ag[a].sel  yours == ag[Peer[a]].sel IN
  mine # NoPair /\ yours # NoPair =>
    /\ Sock[mine.remote] = Sock[yours.local]
    /\ Via[<<Sock[mine.local], mine.remote>>] = yours.remote

(* Two agents created with the same role end up with different ones.       *)
RolesSettle == <>[]RolesDiffer

(* Both components become READY and stay so, under the same four           *)
(* restrictions.                                                           *)
BothReady == \A a \in Agent : <>[](ag[a].state = "READY")

-----------------------------------------------------------------------------
(* What the comments of the code say, and the code does not do.            *)

(* agent.h:182: FAILED means "Connectivity checks have been completed, but *)
(* connectivity was not established".                                      *)
FailedHasNoPair == \A a \in Agent : ag[a].state = "FAILED" => ag[a].sel = NoPair

=============================================================================

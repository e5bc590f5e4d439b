--------------------------- MODULE IceChecksProofs ---------------------------
(* Proofs about IceChecks: the types, the roles of the two agents, and the *)
(* selected pair, for any agents, candidates, networks and bounds.         *)
EXTENDS IceChecks, FiniteSetTheorems, SequenceTheorems, WellFoundedInduction, TLAPS

-----------------------------------------------------------------------------
(* Least elements, and what they give: a first counterexample instead of   *)
(* induction, and that a function defined by recursion exists.             *)

LEMMA LessRelation == OpToRel(<, Nat) = {x \in Nat \X Nat : x[1] < x[2]}
  BY DEF OpToRel

LEMMA Least ==
  ASSUME NEW T \in SUBSET Nat, T # {}
  PROVE  \E x \in T : \A y \in T : x <= y
  <1>1. \E x \in T : \A y \in T : ~(<<y, x>> \in OpToRel(<, Nat))
    BY WFMin, NatLessThanWellFounded
  <1>2. \E x \in T : \A y \in T : ~(<<y, x>> \in {z \in Nat \X Nat : z[1] < z[2]})
    BY <1>1, LessRelation, Zenon
  <1>3. PICK x \in T : \A y \in T : ~(<<y, x>> \in {z \in Nat \X Nat : z[1] < z[2]})
    BY <1>2, Zenon
  <1>4. ASSUME NEW y \in T PROVE x <= y
    <2>1. PICK w : w = <<y, x>>
      OBVIOUS
    <2>2. w \in Nat \X Nat /\ w[1] = y /\ w[2] = x
      BY <2>1
    <2>3. w \notin {z \in Nat \X Nat : z[1] < z[2]}
      BY <1>3, <2>1, Zenon
    <2>4. ~(w[1] < w[2])
      BY <2>2, <2>3
    <2> QED
      BY <2>2, <2>4
  <1> QED
    BY <1>4

LEMMA MinIsLeast ==
  ASSUME NEW T \in SUBSET Nat, T # {}
  PROVE  Min(T) \in T /\ \A y \in T : Min(T) <= y
  BY Least DEF Min

(* What a loop keeps at every step, it keeps.                              *)
LEMMA Reaches ==
  ASSUME NEW n \in Nat, NEW S, NEW f, f[0] \in S,
         \A i \in 1 .. n : f[i - 1] \in S => f[i] \in S
  PROVE  \A i \in 0 .. n : f[i] \in S
  <1> SUFFICES ASSUME NEW k \in 0 .. n, f[k] \notin S PROVE FALSE
    OBVIOUS
  <1> DEFINE T == {i \in 0 .. n : f[i] \notin S}
  <1>1. T \in SUBSET Nat /\ T # {}
    OBVIOUS
  <1>2. PICK x \in T : \A y \in T : x <= y
    <2> HIDE DEF T
    <2> QED
      BY <1>1, Least
  <1>3. x # 0
    OBVIOUS
  <1>4. x - 1 \in 0 .. n /\ x - 1 \notin T
    BY <1>2, <1>3
  <1> QED
    BY <1>3, <1>4

(* f[i] is the state after i rounds of a loop, g[i] what round i does.     *)
Loop(f, n, S, base, g) ==
  /\ f \in [0 .. n -> S] /\ f[0] = base
  /\ \A i \in 1 .. n : f[i] = g[i][f[i - 1]]

LEMMA Recursion ==
  ASSUME NEW n \in Nat, NEW S, NEW base \in S, NEW g \in [1 .. n -> [S -> S]]
  PROVE  \E f : Loop(f, n, S, base, g)
  <1> DEFINE T == {k \in 0 .. n : ~ \E f : Loop(f, k, S, base, g)}
  <1>1. CASE T = {}
    <2>1. n \notin T
      BY <1>1
    <2> QED
      BY <2>1
  <1>2. CASE T # {}
    <2>1. PICK x \in T : \A y \in T : x <= y
      <3>1. T \in SUBSET Nat
        OBVIOUS
      <3> HIDE DEF T
      <3> QED
        BY <1>2, <3>1, Least
    <2>2. x # 0
      <3>1. Loop([i \in 0 .. 0 |-> base], 0, S, base, g)
        BY DEF Loop
      <3> QED
        BY <3>1
    <2>3. x \in 1 .. n /\ x - 1 \in 0 .. n /\ x - 1 \notin T
      BY <2>1, <2>2
    <2>4. PICK f : Loop(f, x - 1, S, base, g)
      BY <2>3
    <2>5. PICK h : h = [i \in 0 .. x |-> IF i = x THEN g[x][f[x - 1]] ELSE f[i]]
      OBVIOUS
    <2>6. f[x - 1] \in S /\ g[x][f[x - 1]] \in S
      BY <2>3, <2>4 DEF Loop
    <2>7. Loop(h, x, S, base, g)
      <3>1. h \in [0 .. x -> S] /\ h[0] = base
        BY <2>3, <2>4, <2>5, <2>6 DEF Loop
      <3>2. ASSUME NEW i \in 1 .. x PROVE h[i] = g[i][h[i - 1]]
        <4>1. i - 1 \in 0 .. (x - 1) /\ i - 1 # x
          BY <2>3
        <4>2. h[i - 1] = f[i - 1]
          BY <4>1, <2>3, <2>5
        <4>3. CASE i = x
          BY <4>2, <4>3, <2>3, <2>5
        <4>4. CASE i # x
          <5>1. i \in 1 .. (x - 1) /\ i \in 0 .. x
            BY <4>4, <2>3
          <5>2. h[i] = f[i]
            BY <5>1, <4>4, <2>5
          <5> QED
            BY <5>1, <5>2, <4>2, <2>4 DEF Loop
        <4> QED
          BY <4>3, <4>4
      <3> QED
        BY <3>1, <3>2 DEF Loop
    <2> QED
      BY <2>7, <2>1
  <1> QED
    BY <1>1, <1>2

-----------------------------------------------------------------------------
(* The inductive invariant.                                                *)

Addr == DOMAIN Sock
Sockets == {Sock[x] : x \in Addr}
Positive == Nat \ {0}
ComponentState == {"GATHERING", "CONNECTING", "CONNECTED", "READY", "FAILED"}

Pair ==
  [local : Addr, remote : Addr, state : CheckState, nominated : BOOLEAN, prio : Positive,
   ctrl : BOOLEAN, asCtrl : BOOLEAN, tid : Nat, sent : 0 .. MaxTrans]
EarlyCheck == [from : Addr, sock : Sockets, use : BOOLEAN]
Message ==
  [kind : {"request"}, to : Agent, from : Addr, sock : Sockets, tid : Positive, ctrl : BOOLEAN]
    \cup [kind : {"response", "conflict"}, to : Agent, from : Addr, mapped : Addr, tid : Positive]
Selected == [local : Addr \cup {"none"}, remote : Addr \cup {"none"}, prio : Nat]

State ==
  [ctrl : BOOLEAN, local : Seq(Addr), remote : Seq(Addr), list : Seq(Pair),
   state : ComponentState, sel : Selected, timer : BOOLEAN, early : Seq(EarlyCheck),
   out : SUBSET Message]

(* Of two peers the one with the lower tie breaker gives way.  The other   *)
(* one has role c for good.                                                *)
Lower(a) == Tie[a] < Tie[Peer[a]]

(* A pair in the list of agent a, whose role is ctrl, which knows the      *)
(* local candidates ls and the remote ones rs, and whose selected pair has *)
(* priority best.  An agent that will give way and has not done so has no  *)
(* valid pair.                                                             *)
PairOK(a, c, ctrl, ls, rs, best, p) ==
  /\ p.local \in ls /\ p.remote \in rs
  /\ (p.tid # 0) = (p.state = "IN_PROGRESS")
  /\ Valid(p) /\ p.nominated => p.prio <= best
  /\ ctrl = c => p.ctrl = c /\ p.asCtrl = c /\ (Lower(a) => ~Valid(p))

(* What may still bring a role conflict to agent a.                        *)
Conflicting(a, c, m) ==
  \/ m.kind = "request" /\ m.to = Peer[a] /\ m.ctrl = c
  \/ m.kind = "conflict" /\ m.to = a

(* A pair made in the other role has nothing to do with the transactions   *)
(* that may end in a conflict.                                             *)
Apart(a, c, s) == \A i \in DOMAIN s.list : s.list[i].ctrl # c =>
  /\ \A m \in net \cup s.out : Conflicting(a, c, m) => m.tid # s.list[i].tid
  /\ \A j \in DOMAIN s.list :
       s.list[j].asCtrl = c /\ s.list[j].tid # 0 => s.list[j].tid # s.list[i].tid

(* What agent a sends: checks, in role c as long as that is its role, and  *)
(* the replies in R.                                                       *)
OutOK(a, c, R, s) ==
  /\ IsFiniteSet(s.out)
  /\ \A m \in s.out : /\ m.to = Peer[a]
                      /\ IF m.kind = "request" THEN s.ctrl = c => m.ctrl = c ELSE m \in R

Good(a, c, R) == {s \in State :
  /\ \A i \in DOMAIN s.list :
       PairOK(a, c, s.ctrl, ToSet(s.local), ToSet(s.remote), s.sel.prio, s.list[i])
  /\ ~Lower(a) => s.ctrl = c
  /\ s.state = "READY" => s.sel.prio > 0
  /\ Apart(a, c, s)
  /\ OutOK(a, c, R, s)}

(* The role that the stronger one of a and its peer has.                   *)
Role(a) == IF Lower(a) THEN ag[Peer[a]].ctrl ELSE ag[a].ctrl

(* The datagrams to agent a.  Its peer sends no conflict when a is the     *)
(* stronger one; a has no response as long as its role is the peer's.      *)
NetOK(a) == \A m \in net : m.to = a =>
  /\ m.kind = "request" /\ ag[Peer[a]].ctrl = Role(a) => m.ctrl = Role(a)
  /\ m.kind = "conflict" => Lower(a)
  /\ m.kind = "response" /\ Lower(a) => ag[a].ctrl # Role(a)

IInv ==
  /\ net \subseteq Message /\ IsFiniteSet(net)
  /\ ag \in [Agent -> State]
  /\ \A a \in Agent : /\ ag[a] \in Good(a, Role(a), {}) /\ ag[a].out = {}
                      /\ NetOK(a)

-----------------------------------------------------------------------------
(* The loops of the code: each keeps what its body keeps.                  *)

LEMMA AddForCandidateLoop ==
  ASSUME NEW S, NEW s \in S, s.local \in Seq(Addr), NEW r,
         \A t \in S : \A i \in 1 .. Len(s.local) : PairWith(t, s.local[i], r) \in S
  PROVE  conn_check_add_for_candidate(s, r) \in S
  <1> DEFINE after[n \in 0 .. Len(s.local)] ==
               IF n = 0 THEN s ELSE PairWith(after[n - 1], s.local[n], r)
  <1>1. PICK len \in Nat : len = Len(s.local)
    BY LenProperties
  <1>2. PICK g : g = [i \in 1 .. len |-> [t \in S |-> PairWith(t, s.local[i], r)]]
    OBVIOUS
  <1>3. \E f : f = [n \in 0 .. len |-> IF n = 0 THEN s ELSE PairWith(f[n - 1], s.local[n], r)]
    <2>1. g \in [1 .. len -> [S -> S]]
      BY <1>1, <1>2
    <2>2. PICK f : Loop(f, len, S, s, g)
      BY <2>1, Recursion
    <2>3. \A n \in 0 .. len : f[n] = IF n = 0 THEN s ELSE PairWith(f[n - 1], s.local[n], r)
      BY <1>2, <2>2 DEF Loop
    <2>4. f \in [0 .. len -> S]
      BY <2>2 DEF Loop
    <2>5. f = [n \in 0 .. len |-> IF n = 0 THEN s ELSE PairWith(f[n - 1], s.local[n], r)]
      BY <2>3, <2>4
    <2> QED
      BY <2>5
  <1>4. after = [n \in 0 .. len |-> IF n = 0 THEN s ELSE PairWith(after[n - 1], s.local[n], r)]
    BY <1>1, <1>3
  <1>5. conn_check_add_for_candidate(s, r) = after[len]
    BY <1>1 DEF conn_check_add_for_candidate
  <1> HIDE DEF after
  <1>6. after[0] \in S /\ \A i \in 1 .. len : after[i - 1] \in S => after[i] \in S
    <2>1. after[0] = s
      BY <1>4
    <2>2. ASSUME NEW i \in 1 .. len PROVE after[i] = PairWith(after[i - 1], s.local[i], r)
      <3>1. i \in 0 .. len /\ i # 0
        OBVIOUS
      <3> QED
        BY <1>4, <3>1
    <2> QED
      BY <1>1, <2>1, <2>2
  <1>7. \A i \in 0 .. len : after[i] \in S
    BY <1>6, Reaches
  <1> QED
    BY <1>5, <1>7

LEMMA NominateLoop ==
  ASSUME NEW S, NEW s \in S, s.list \in Seq(Pair), NEW r,
         \A t \in S : \A i \in 1 .. Len(s.list) : Nominate(t, i) \in S
  PROVE  priv_mark_pair_nominated(s, r) \in S
  <1> DEFINE after[n \in 0 .. Len(s.list)] ==
               IF n = 0 THEN s
               ELSE IF s.list[n].remote = r THEN Nominate(after[n - 1], n) ELSE after[n - 1]
  <1>1. PICK len \in Nat : len = Len(s.list)
    BY LenProperties
  <1>2. PICK g : g = [i \in 1 .. len |-> [t \in S |-> IF s.list[i].remote = r THEN Nominate(t, i) ELSE t]]
    OBVIOUS
  <1>3. \E f : f = [n \in 0 .. len |-> IF n = 0 THEN s
               ELSE IF s.list[n].remote = r THEN Nominate(f[n - 1], n) ELSE f[n - 1]]
    <2>1. g \in [1 .. len -> [S -> S]]
      BY <1>1, <1>2
    <2>2. PICK f : Loop(f, len, S, s, g)
      BY <2>1, Recursion
    <2>3. \A n \in 0 .. len : f[n] = IF n = 0 THEN s
               ELSE IF s.list[n].remote = r THEN Nominate(f[n - 1], n) ELSE f[n - 1]
      <3>1. f \in [0 .. len -> S] /\ f[0] = s
        BY <2>2 DEF Loop
      <3>2. ASSUME NEW n \in 1 .. len
            PROVE  f[n] = IF s.list[n].remote = r THEN Nominate(f[n - 1], n) ELSE f[n - 1]
        <4>1. f[n] = g[n][f[n - 1]] /\ f[n - 1] \in S
          BY <2>2 DEF Loop
        <4> QED
          BY <1>2, <4>1
      <3> QED
        BY <3>1, <3>2
    <2>4. f \in [0 .. len -> S]
      BY <2>2 DEF Loop
    <2>5. f = [n \in 0 .. len |-> IF n = 0 THEN s
               ELSE IF s.list[n].remote = r THEN Nominate(f[n - 1], n) ELSE f[n - 1]]
      BY <2>3, <2>4
    <2> QED
      BY <2>5
  <1>4. after = [n \in 0 .. len |-> IF n = 0 THEN s
               ELSE IF s.list[n].remote = r THEN Nominate(after[n - 1], n) ELSE after[n - 1]]
    BY <1>1, <1>3
  <1>5. priv_mark_pair_nominated(s, r) = after[len]
    BY <1>1 DEF priv_mark_pair_nominated
  <1> HIDE DEF after
  <1>6. after[0] \in S /\ \A i \in 1 .. len : after[i - 1] \in S => after[i] \in S
    <2>1. after[0] = s
      BY <1>4
    <2>2. ASSUME NEW i \in 1 .. len PROVE after[i] = IF s.list[i].remote = r THEN Nominate(after[i - 1], i) ELSE after[i - 1]
      <3>1. i \in 0 .. len /\ i # 0
        OBVIOUS
      <3> QED
        BY <1>4, <3>1
    <2> QED
      BY <1>1, <2>1, <2>2
  <1>7. \A i \in 0 .. len : after[i] \in S
    BY <1>6, Reaches
  <1> QED
    BY <1>5, <1>7

LEMMA PreprocessLoop ==
  ASSUME NEW S, NEW s \in S, s.early \in Seq(EarlyCheck), NEW a, NEW p,
         \A t \in S : \A i \in 1 .. Len(s.early) : UpdateWith(a, t, s.early[i], p) \in S
  PROVE  priv_preprocess_conn_check_pending_data(a, s, p) \in S
  <1> DEFINE after[n \in 0 .. Len(s.early)] ==
               IF n = 0 THEN s ELSE UpdateWith(a, after[n - 1], s.early[n], p)
  <1>1. PICK len \in Nat : len = Len(s.early)
    BY LenProperties
  <1>2. PICK g : g = [i \in 1 .. len |-> [t \in S |-> UpdateWith(a, t, s.early[i], p)]]
    OBVIOUS
  <1>3. \E f : f = [n \in 0 .. len |-> IF n = 0 THEN s ELSE UpdateWith(a, f[n - 1], s.early[n], p)]
    <2>1. g \in [1 .. len -> [S -> S]]
      BY <1>1, <1>2
    <2>2. PICK f : Loop(f, len, S, s, g)
      BY <2>1, Recursion
    <2>3. \A n \in 0 .. len : f[n] = IF n = 0 THEN s ELSE UpdateWith(a, f[n - 1], s.early[n], p)
      BY <1>2, <2>2 DEF Loop
    <2>4. f \in [0 .. len -> S]
      BY <2>2 DEF Loop
    <2>5. f = [n \in 0 .. len |-> IF n = 0 THEN s ELSE UpdateWith(a, f[n - 1], s.early[n], p)]
      BY <2>3, <2>4
    <2> QED
      BY <2>5
  <1>4. after = [n \in 0 .. len |-> IF n = 0 THEN s ELSE UpdateWith(a, after[n - 1], s.early[n], p)]
    BY <1>1, <1>3
  <1>5. priv_preprocess_conn_check_pending_data(a, s, p) = after[len]
    BY <1>1 DEF priv_preprocess_conn_check_pending_data
  <1> HIDE DEF after
  <1>6. after[0] \in S /\ \A i \in 1 .. len : after[i - 1] \in S => after[i] \in S
    <2>1. after[0] = s
      BY <1>4
    <2>2. ASSUME NEW i \in 1 .. len PROVE after[i] = UpdateWith(a, after[i - 1], s.early[i], p)
      <3>1. i \in 0 .. len /\ i # 0
        OBVIOUS
      <3> QED
        BY <1>4, <3>1
    <2> QED
      BY <1>1, <2>1, <2>2
  <1>7. \A i \in 0 .. len : after[i] \in S
    BY <1>6, Reaches
  <1> QED
    BY <1>5, <1>7

LEMMA AddAllLoop ==
  ASSUME NEW S, NEW s \in S, NEW q \in Seq(Addr),
         \A t \in S : \A i \in 1 .. Len(q) : priv_add_remote_candidate(t, q[i]) \in S
  PROVE  AddAll(s, q) \in S
  <1> DEFINE after[n \in 0 .. Len(q)] ==
               IF n = 0 THEN s ELSE priv_add_remote_candidate(after[n - 1], q[n])
  <1>1. PICK len \in Nat : len = Len(q)
    BY LenProperties
  <1>2. PICK g : g = [i \in 1 .. len |-> [t \in S |-> priv_add_remote_candidate(t, q[i])]]
    OBVIOUS
  <1>3. \E f : f = [n \in 0 .. len |-> IF n = 0 THEN s ELSE priv_add_remote_candidate(f[n - 1], q[n])]
    <2>1. g \in [1 .. len -> [S -> S]]
      BY <1>1, <1>2
    <2>2. PICK f : Loop(f, len, S, s, g)
      BY <2>1, Recursion
    <2>3. \A n \in 0 .. len : f[n] = IF n = 0 THEN s ELSE priv_add_remote_candidate(f[n - 1], q[n])
      BY <1>2, <2>2 DEF Loop
    <2>4. f \in [0 .. len -> S]
      BY <2>2 DEF Loop
    <2>5. f = [n \in 0 .. len |-> IF n = 0 THEN s ELSE priv_add_remote_candidate(f[n - 1], q[n])]
      BY <2>3, <2>4
    <2> QED
      BY <2>5
  <1>4. after = [n \in 0 .. len |-> IF n = 0 THEN s ELSE priv_add_remote_candidate(after[n - 1], q[n])]
    BY <1>1, <1>3
  <1>5. AddAll(s, q) = after[len]
    BY <1>1 DEF AddAll
  <1> HIDE DEF after
  <1>6. after[0] \in S /\ \A i \in 1 .. len : after[i - 1] \in S => after[i] \in S
    <2>1. after[0] = s
      BY <1>4
    <2>2. ASSUME NEW i \in 1 .. len PROVE after[i] = priv_add_remote_candidate(after[i - 1], q[i])
      <3>1. i \in 0 .. len /\ i # 0
        OBVIOUS
      <3> QED
        BY <1>4, <3>1
    <2> QED
      BY <1>1, <2>1, <2>2
  <1>7. \A i \in 0 .. len : after[i] \in S
    BY <1>6, Reaches
  <1> QED
    BY <1>5, <1>7

Forget(s) == [s EXCEPT !.early = <<>>]

LEMMA LearnLoop ==
  ASSUME NEW S, NEW a, NEW s, s.list # <<>>,
         NEW t \in S, t = priv_preprocess_conn_check_pending_data(a, s, s.list[1]),
         t.early \in Seq(EarlyCheck),
         \A u \in S : \A i \in 1 .. Len(t.early) : LearnFrom(a, u, t.early[i]) \in S
  PROVE  \E u \in S : conn_check_remote_candidates_set(a, s) = Forget(u)
  <1> DEFINE Round(x, i) == LearnUnlessMatched(a, x, t.early[i])
             after[n \in 0 .. Len(t.early)] ==
               IF n = 0 THEN [match |-> FALSE, s |-> t]
               ELSE LearnUnlessMatched(a, after[n - 1], t.early[n])
  <1>1. PICK len \in Nat : len = Len(t.early)
    BY LenProperties
  <1>2. PICK W : W = [match : BOOLEAN, s : S]
    OBVIOUS
  <1>3. PICK w : w = [match |-> FALSE, s |-> t]
    OBVIOUS
  <1>4. w \in W
    BY <1>2, <1>3
  <1>5. ASSUME NEW x \in W, NEW i \in 1 .. len PROVE Round(x, i) \in W
    <2>1. x.match \in BOOLEAN /\ x.s \in S
      BY <1>2
    <2>2. PICK match \in BOOLEAN : match = (x.match \/ t.early[i].from \in ToSet(x.s.remote))
      OBVIOUS
    <2>3. LearnFrom(a, x.s, t.early[i]) \in S
      BY <1>1, <2>1
    <2>4. [match |-> match, s |-> IF match THEN x.s ELSE LearnFrom(a, x.s, t.early[i])] \in W
      BY <1>2, <2>1, <2>3
    <2> QED
      BY <2>2, <2>4, Zenon DEF LearnUnlessMatched
  <1>6. PICK g : g = [i \in 1 .. len |-> [x \in W |-> Round(x, i)]]
    OBVIOUS
  <1>7. \E f : f = [n \in 0 .. len |-> IF n = 0 THEN w ELSE Round(f[n - 1], n)]
    <2>1. g \in [1 .. len -> [W -> W]]
      BY <1>5, <1>6
    <2>2. PICK f : Loop(f, len, W, w, g)
      BY <1>4, <2>1, Recursion
    <2> HIDE DEF Round, after
    <2>3. \A n \in 0 .. len : f[n] = IF n = 0 THEN w ELSE Round(f[n - 1], n)
      BY <1>6, <2>2 DEF Loop
    <2>4. f \in [0 .. len -> W]
      BY <2>2 DEF Loop
    <2>5. f = [n \in 0 .. len |-> IF n = 0 THEN w ELSE Round(f[n - 1], n)]
      BY <2>3, <2>4
    <2> QED
      BY <2>5
  <1>8. after = [n \in 0 .. len |-> IF n = 0 THEN w ELSE Round(after[n - 1], n)]
    BY <1>1, <1>3, <1>7
  <1>9. conn_check_remote_candidates_set(a, s) = Forget(after[len].s)
    BY <1>1 DEF conn_check_remote_candidates_set, Forget
  <1> HIDE DEF after, Round
  <1>10. after[0] \in W /\ \A i \in 1 .. len : after[i - 1] \in W => after[i] \in W
    BY <1>4, <1>5, <1>8
  <1>11. \A i \in 0 .. len : after[i] \in W
    BY <1>10, Reaches
  <1>12. after[len].s \in S
    BY <1>2, <1>11
  <1> QED
    BY <1>9, <1>12

-----------------------------------------------------------------------------
(* Pairs and lists of pairs.                                               *)

LEMMA PriorityIsPositive ==
  ASSUME NEW o \in Nat, NEW r \in Nat, o # 0 \/ r # 0
  PROVE  nice_candidate_pair_priority(o, r) \in Positive
  <1> DEFINE max == IF o > r THEN o ELSE r
             min == IF o < r THEN o ELSE r
  <1>1. max \in Positive /\ min \in Nat /\ Word \in Nat
    BY CandidatesAssumption DEF Positive
  <1>2. ASSUME NEW x \in Nat PROVE Word * x \in Nat
    BY <1>1
  <1>3. Word * min \in Nat
    BY <1>1, <1>2
  <1>4. PICK y \in Nat : y = Word * min
    BY <1>3
  <1>5. nice_candidate_pair_priority(o, r) = y + 2 * max + (IF o > r THEN 1 ELSE 0)
    BY <1>4 DEF nice_candidate_pair_priority
  <1> HIDE DEF max, min
  <1> QED
    BY <1>1, <1>5 DEF Positive

LEMMA PairPriorityIsPositive ==
  ASSUME NEW ctrl, NEW l, NEW r
  PROVE  agent_candidate_pair_priority(ctrl, l, r) \in Positive
  <1>1. LocalPrio(l) \in Positive /\ RemotePrio(r) \in Positive
    BY CandidatesAssumption DEF LocalPrio, RemotePrio, Positive
  <1>2. PICK x \in Positive : x = LocalPrio(l)
    BY <1>1
  <1>3. PICK y \in Positive : y = RemotePrio(r)
    BY <1>1
  <1>4. nice_candidate_pair_priority(x, y) \in Positive /\ nice_candidate_pair_priority(y, x) \in Positive
    BY PriorityIsPositive DEF Positive
  <1> QED
    BY <1>2, <1>3, <1>4 DEF agent_candidate_pair_priority

LEMMA ListedIsTheList ==
  ASSUME NEW S, NEW q \in Seq(S)
  PROVE  Listed(q) = q
  <1>1. q = [i \in 1 .. Len(q) |-> q[i]] /\ Len(q) \in Nat
    OBVIOUS
  <1>2. SubSeq(q, 1, Len(q)) = [i \in 1 .. Len(q) |-> q[i]]
    <2>1. /\ SubSeq(q, 1, Len(q)) \in Seq(S) /\ Len(SubSeq(q, 1, Len(q))) = Len(q)
          /\ \A i \in 1 .. Len(q) : SubSeq(q, 1, Len(q))[i] = q[i]
      BY <1>1, SubSeqProperties
    <2> QED
      BY <2>1, <1>1
  <1> QED
    BY <1>1, <1>2 DEF Listed

LEMMA FirstPairIs ==
  ASSUME NEW T \in SUBSET Nat, NEW n \in Nat, T \subseteq 1 .. n,
         NEW i, i = IF T # {} THEN Min(T) ELSE 0
  PROVE  i \in 0 .. n /\ (i # 0 => i \in T) /\ (i = 0 => T = {})
  <1>1. CASE T = {}
    BY <1>1
  <1>2. CASE T # {}
    <2>1. i \in T
      BY <1>2, MinIsLeast
    <2> QED
      BY <1>2, <2>1
  <1> QED
    BY <1>1, <1>2

-----------------------------------------------------------------------------
(* Steps that change neither the role nor the candidates nor what is sent. *)

Kept(s, t) == t.ctrl = s.ctrl /\ t.local = s.local /\ t.remote = s.remote

(* The pair p has the transaction and the roles of the pair q.             *)
Same(p, q) == p.tid = q.tid /\ p.ctrl = q.ctrl /\ p.asCtrl = q.asCtrl

ListOK(a, c, s) == \A i \in DOMAIN s.list :
  PairOK(a, c, s.ctrl, ToSet(s.local), ToSet(s.remote), s.sel.prio, s.list[i])

LEMMA Rewritten ==
  ASSUME NEW a, NEW c, NEW R, NEW s \in Good(a, c, R), NEW t \in State, net \subseteq Message,
         Kept(s, t), t.out = s.out, ListOK(a, c, t),
         \A j \in DOMAIN t.list : t.list[j].tid = 0 \/ \E i \in DOMAIN s.list : Same(t.list[j], s.list[i]),
         t.state = "READY" => t.sel.prio > 0
  PROVE  t \in Good(a, c, R)
  <1>1. Apart(a, c, t)
    <2> SUFFICES ASSUME NEW i \in DOMAIN t.list, t.list[i].ctrl # c
                 PROVE  /\ \A m \in net \cup t.out : Conflicting(a, c, m) => m.tid # t.list[i].tid
                        /\ \A j \in DOMAIN t.list :
                             t.list[j].asCtrl = c /\ t.list[j].tid # 0 => t.list[j].tid # t.list[i].tid
      BY DEF Apart
    <2>1. \A m \in net \cup t.out : m.tid # 0
      BY DEF Good, State, Message, Positive
    <2>2. CASE t.list[i].tid = 0
      BY <2>1, <2>2
    <2>3. CASE t.list[i].tid # 0
      <3>1. PICK k \in DOMAIN s.list : Same(t.list[i], s.list[k])
        BY <2>3
      <3>2. /\ \A m \in net \cup s.out : Conflicting(a, c, m) => m.tid # s.list[k].tid
            /\ \A j \in DOMAIN s.list :
                 s.list[j].asCtrl = c /\ s.list[j].tid # 0 => s.list[j].tid # s.list[k].tid
        BY <3>1 DEF Good, Apart, Same
      <3> QED
        BY <3>1, <3>2 DEF Same
    <2> QED
      BY <2>2, <2>3
  <1>2. OutOK(a, c, R, t)
    BY DEF Good, OutOK, Kept
  <1>3. ~Lower(a) => t.ctrl = c
    BY DEF Good, Kept
  <1> QED
    BY <1>1, <1>2, <1>3 DEF Good, ListOK

(* A pair that has become p was q: the same candidates, the same roles,    *)
(* the same transaction or none, and no valid pair that was not.           *)
Reworked(p, q) ==
  /\ p \in Pair /\ p.local = q.local /\ p.remote = q.remote
  /\ p.ctrl = q.ctrl /\ p.asCtrl = q.asCtrl
  /\ p.tid = 0 \/ p.tid = q.tid
  /\ (p.tid # 0) = (p.state = "IN_PROGRESS")
  /\ Valid(p) => p = q

LEMMA ListReworked ==
  ASSUME NEW a, NEW c, NEW R, NEW s \in Good(a, c, R), net \subseteq Message,
         NEW h \in Seq(Pair), DOMAIN h = DOMAIN s.list,
         \A i \in DOMAIN s.list : Reworked(h[i], s.list[i]),
         NEW t, t = [s EXCEPT !.list = h]
  PROVE  t \in Good(a, c, R) /\ Kept(s, t) /\ t.list = h
  <1>1. t \in State /\ t.list = h /\ Kept(s, t) /\ t.out = s.out /\ t.sel = s.sel /\ t.state = s.state
    BY DEF Good, State, Kept
  <1>2. ListOK(a, c, t)
    BY <1>1 DEF ListOK, Good, PairOK, Reworked, Kept
  <1>3. \A j \in DOMAIN t.list : t.list[j].tid = 0 \/ \E i \in DOMAIN s.list : Same(t.list[j], s.list[i])
    BY <1>1 DEF Reworked, Same
  <1>4. t.state = "READY" => t.sel.prio > 0
    BY <1>1 DEF Good
  <1> QED
    BY <1>1, <1>2, <1>3, <1>4, Rewritten

LEMMA SignalGood ==
  ASSUME NEW a, NEW c, NEW R, NEW s \in Good(a, c, R), net \subseteq Message,
         NEW state \in ComponentState, state = "READY" => s.sel.prio > 0
  PROVE  /\ Signal(s, state) \in Good(a, c, R) /\ Kept(s, Signal(s, state))
         /\ Signal(s, state).list = s.list /\ Signal(s, state).sel = s.sel
         /\ Signal(s, state).early = s.early
  <1>1. PICK t : t = Signal(s, state)
    OBVIOUS
  <1>2. /\ t \in State /\ t.list = s.list /\ Kept(s, t) /\ t.out = s.out /\ t.sel = s.sel
        /\ t.state = state /\ t.early = s.early
    BY <1>1 DEF Good, State, Kept, Signal
  <1>3. ListOK(a, c, t)
    BY <1>2 DEF ListOK, Good, Kept
  <1>4. \A j \in DOMAIN t.list : t.list[j].tid = 0 \/ \E i \in DOMAIN s.list : Same(t.list[j], s.list[i])
    BY <1>2 DEF Same
  <1>5. t \in Good(a, c, R)
    BY <1>2, <1>3, <1>4, Rewritten
  <1> QED
    BY <1>1, <1>2, <1>5

-----------------------------------------------------------------------------
(* Freezing and pruning.                                                   *)

(* Of some numbered values one is the first of the largest.                *)
LEMMA FirstOfTheLargest ==
  ASSUME NEW n \in Nat, NEW T \in SUBSET (1 .. n), T # {}, NEW f, \A i \in T : f[i] \in Nat
  PROVE  \E i \in T : \A j \in T : f[i] > f[j] \/ (f[i] = f[j] /\ i <= j)
  <1> DEFINE Beats(i, j) == f[i] > f[j] \/ (f[i] = f[j] /\ i <= j)
             Upto(k) == {i \in T : i <= k}
             Bad == {k \in 0 .. n : Upto(k) # {} /\ ~ \E i \in Upto(k) : \A j \in Upto(k) : Beats(i, j)}
  <1>0. \A i \in T : i \in Nat /\ 1 <= i /\ i <= n
    OBVIOUS
  <1>1. Bad = {}
    <2> SUFFICES ASSUME Bad # {} PROVE FALSE
      OBVIOUS
    <2>1. PICK x \in Bad : \A y \in Bad : x <= y
      <3>1. Bad \in SUBSET Nat
        OBVIOUS
      <3> HIDE DEF Bad
      <3> QED
        BY <3>1, Least
    <2>2. Upto(0) = {}
      <3> HIDE DEF Bad, Beats
      <3>1. \A i \in T : ~(i <= 0)
        BY <1>0
      <3> QED
        BY <3>1
    <2>3. x \in 1 .. n
      BY <2>2
    <2>4. x - 1 \in 0 .. n /\ x - 1 \notin Bad
      <3> HIDE DEF Bad
      <3> QED
        BY <2>1, <2>3
    <2>5. \A i \in T : i <= x <=> (i <= x - 1 \/ i = x)
      BY <2>3
    <2>6. ~ \E i \in Upto(x) : \A j \in Upto(x) : Beats(i, j)
      OBVIOUS
    <2>7. Upto(x - 1) # {} => \E i \in Upto(x - 1) : \A j \in Upto(x - 1) : Beats(i, j)
      BY <2>4
    <2>8. Upto(x) # {}
      OBVIOUS
    <2> HIDE DEF Bad
    <2>9. CASE x \notin T
      <3>1. Upto(x) = Upto(x - 1)
        BY <2>5, <2>9
      <3> QED
        BY <2>6, <2>7, <2>8, <3>1
    <2>10. CASE x \in T /\ Upto(x - 1) = {}
      <3>1. x \in Upto(x) /\ \A j \in Upto(x) : j = x
        BY <2>3, <2>5, <2>10
      <3>2. Beats(x, x)
        BY <2>3, <2>10
      <3> HIDE DEF Beats, Upto
      <3> QED
        BY <2>6, <3>1, <3>2
    <2>11. CASE x \in T /\ Upto(x - 1) # {}
      <3>1. PICK b \in Upto(x - 1) : \A j \in Upto(x - 1) : Beats(b, j)
        BY <2>7, <2>11
      <3>2. b \in T /\ b \in Nat /\ b <= x /\ b \in Upto(x) /\ x \in Upto(x)
        BY <2>3, <2>11
      <3>3. \A j \in Upto(x) : j = x \/ j \in Upto(x - 1)
        BY <2>5
      <3>4. f[b] \in Nat /\ f[x] \in Nat /\ x \in Nat
        BY <2>11, <2>3, <3>2
      <3>5. CASE f[b] >= f[x]
        <4>1. Beats(b, x)
          BY <3>2, <3>4, <3>5
        <4>2. \A j \in Upto(x) : Beats(b, j)
          BY <3>1, <3>3, <4>1
        <4> QED
          BY <2>6, <3>2, <4>2
      <3>6. CASE f[b] < f[x]
        <4>1. ASSUME NEW j \in Upto(x - 1) PROVE Beats(x, j)
          <5>1. Beats(b, j) /\ f[j] \in Nat
            BY <3>1
          <5> QED
            BY <3>4, <3>6, <5>1
        <4>2. Beats(x, x)
          BY <3>4
        <4>3. \A j \in Upto(x) : Beats(x, j)
          BY <3>3, <4>1, <4>2
        <4> QED
          BY <2>6, <3>2, <4>3
      <3> QED
        BY <3>4, <3>5, <3>6
    <2> QED
      BY <2>9, <2>10, <2>11
  <1>2. Upto(n) = T
    BY <1>0
  <1>3. n \notin Bad
    BY <1>1
  <1> QED
    BY <1>2, <1>3

LEMMA BestPosition ==
  ASSUME NEW list \in Seq(Pair), NEW T \in SUBSET (DOMAIN list), T # {}
  PROVE  \E i \in T : \A j \in T : \/ list[i].prio > list[j].prio
                                   \/ list[i].prio = list[j].prio /\ i <= j
  <1>1. PICK n \in Nat : DOMAIN list = 1 .. n
    BY LenProperties
  <1>2. PICK f : f = [i \in T |-> list[i].prio]
    OBVIOUS
  <1>3. \A i \in T : list[i] \in Pair
    OBVIOUS
  <1>4. \A i \in T : f[i] \in Nat
    BY <1>2, <1>3 DEF Pair, Positive
  <1>5. \E i \in T : \A j \in T : f[i] > f[j] \/ (f[i] = f[j] /\ i <= j)
    BY <1>1, <1>4, FirstOfTheLargest
  <1> QED
    BY <1>2, <1>5

LEMMA FunctionIsSeq ==
  ASSUME NEW S, NEW n \in Nat, NEW h, h = [i \in 1 .. n |-> h[i]], \A i \in 1 .. n : h[i] \in S
  PROVE  h \in Seq(S)
  <1>1. h \in [1 .. n -> S]
    BY Zenon
  <1> QED
    BY <1>1

LEMMA PairInState ==
  ASSUME NEW p \in Pair, NEW state \in CheckState, NEW q, q = [p EXCEPT !.state = state]
  PROVE  /\ q \in Pair /\ q.state = state /\ q.tid = p.tid /\ q.ctrl = p.ctrl /\ q.asCtrl = p.asCtrl
         /\ q.local = p.local /\ q.remote = p.remote /\ q.nominated = p.nominated /\ q.prio = p.prio
         /\ q.sent = p.sent
  BY DEF Pair

(* What a step that only reworks pairs leaves as it was.                   *)
Unchanging(s, t) ==
  /\ Kept(s, t) /\ DOMAIN t.list = DOMAIN s.list
  /\ \A i \in DOMAIN s.list : t.list[i].remote = s.list[i].remote
                              /\ t.list[i].local = s.list[i].local

(* A pair that may have been unfrozen.                                     *)
Unfrozen(q, p) == q \in Pair /\
  \/ q = p
  \/ /\ p.state = "FROZEN" /\ q.state = "WAITING" /\ Same(q, p)
     /\ q.local = p.local /\ q.remote = p.remote

(* Nothing but the list changes, and the list as Unfrozen says.            *)
Thawed(s, t) ==
  /\ t \in State /\ Kept(s, t) /\ t.out = s.out /\ t.sel = s.sel /\ t.state = s.state
  /\ DOMAIN t.list = DOMAIN s.list
  /\ \A i \in DOMAIN s.list : Unfrozen(t.list[i], s.list[i])

LEMMA UnfreezeNextIs ==
  ASSUME NEW s \in State, NEW t, t = priv_conn_check_unfreeze_next(s)
  PROVE  Thawed(s, t)
  <1> DEFINE frozen == {i \in DOMAIN s.list : s.list[i].state = "FROZEN"}
             Best(i) == \A j \in frozen : \/ s.list[i].prio > s.list[j].prio
                                          \/ s.list[i].prio = s.list[j].prio /\ i <= j
  <1>1. s.list \in Seq(Pair)
    BY DEF State
  <1>2. CASE frozen = {}
    <2>1. t = s
      BY <1>2 DEF priv_conn_check_unfreeze_next
    <2> QED
      BY <1>1, <2>1 DEF Thawed, Kept, Unfrozen
  <1>3. CASE frozen # {}
    <2>1. PICK first : first = CHOOSE i \in frozen : Best(i)
      OBVIOUS
    <2>2. \E i \in frozen : Best(i)
      BY <1>1, <1>3, BestPosition
    <2>3. first \in frozen
      BY <2>1, <2>2, Zenon
    <2>4. t = [s EXCEPT !.list[first].state = "WAITING"]
      BY <1>3, <2>1 DEF priv_conn_check_unfreeze_next
    <2> HIDE DEF Best
    <2>5. PICK q : q = [s.list[first] EXCEPT !.state = "WAITING"]
      OBVIOUS
    <2>6. s.list[first] \in Pair /\ s.list[first].state = "FROZEN" /\ "WAITING" \in CheckState
      BY <1>1, <2>3 DEF CheckState
    <2>7. PICK h : h = [s.list EXCEPT ![first] = q]
      OBVIOUS
    <2>8. Unfrozen(q, s.list[first]) /\ q \in Pair
      BY <2>5, <2>6, PairInState DEF Unfrozen, Same
    <2>9. h \in Seq(Pair) /\ DOMAIN h = DOMAIN s.list
      BY <1>1, <2>3, <2>7, <2>8
    <2>10. \A i \in DOMAIN s.list : Unfrozen(h[i], s.list[i])
      BY <1>1, <2>7, <2>8 DEF Unfrozen
    <2>11. t = [s EXCEPT !.list = h]
      BY <2>4, <2>5, <2>7 DEF State
    <2>12. t \in State /\ Kept(s, t) /\ t.out = s.out /\ t.sel = s.sel /\ t.state = s.state /\ t.list = h
      BY <2>9, <2>11 DEF State, Kept
    <2> QED
      BY <2>9, <2>10, <2>12 DEF Thawed
  <1> QED
    BY <1>2, <1>3

LEMMA UnfreezeRelatedIs ==
  ASSUME NEW s \in State, NEW ok, NEW t, t = priv_conn_check_unfreeze_related(s, ok)
  PROVE  Thawed(s, t)
  <1> DEFINE related == {i \in DOMAIN s.list :
                    /\ s.list[i].state = "FROZEN"
                    /\ Foundation(s.list[i].local) = Foundation(ok.local)
                    /\ Foundation(s.list[i].remote) = Foundation(ok.remote)}
  <1>1. s.list \in Seq(Pair)
    BY DEF State
  <1>2. CASE related = {}
    BY <1>2, UnfreezeNextIs DEF priv_conn_check_unfreeze_related
  <1>3. CASE related # {}
    <2>1. PICK h : h = [i \in DOMAIN s.list |->
              IF i \in related THEN [s.list[i] EXCEPT !.state = "WAITING"] ELSE s.list[i]]
      OBVIOUS
    <2>2. t = [s EXCEPT !.list = Listed(h)]
      BY <1>3, <2>1 DEF priv_conn_check_unfreeze_related
    <2>3. \A i \in related : i \in DOMAIN s.list /\ s.list[i].state = "FROZEN"
      OBVIOUS
    <2> HIDE DEF related
    <2>4. DOMAIN h = 1 .. Len(s.list) /\ DOMAIN s.list = 1 .. Len(s.list) /\ Len(s.list) \in Nat
      BY <1>1, <2>1, LenProperties
    <2>5. ASSUME NEW i \in DOMAIN s.list PROVE Unfrozen(h[i], s.list[i])
      <3>1. s.list[i] \in Pair /\ "WAITING" \in CheckState
        BY <1>1 DEF CheckState
      <3>2. CASE i \notin related
        BY <2>1, <3>1, <3>2 DEF Unfrozen
      <3>3. CASE i \in related
        <4>1. h[i] = [s.list[i] EXCEPT !.state = "WAITING"]
          BY <2>1, <3>3
        <4> QED
          BY <2>3, <3>1, <3>3, <4>1, PairInState DEF Unfrozen, Same
      <3> QED
        BY <3>2, <3>3
    <2>6. h \in Seq(Pair)
      BY <2>1, <2>4, <2>5, FunctionIsSeq DEF Unfrozen
    <2>7. t = [s EXCEPT !.list = h]
      BY <2>2, <2>6, ListedIsTheList
    <2>8. t \in State /\ Kept(s, t) /\ t.out = s.out /\ t.sel = s.sel /\ t.state = s.state /\ t.list = h
      BY <2>6, <2>7 DEF State, Kept
    <2> QED
      BY <2>4, <2>5, <2>8 DEF Thawed
  <1> QED
    BY <1>2, <1>3

LEMMA ThawedGood ==
  ASSUME NEW a, NEW c, NEW R, NEW s \in Good(a, c, R), net \subseteq Message, NEW t, Thawed(s, t)
  PROVE  t \in Good(a, c, R)
  <1>1. ListOK(a, c, t)
    <2> SUFFICES ASSUME NEW i \in DOMAIN s.list
                 PROVE  PairOK(a, c, s.ctrl, ToSet(s.local), ToSet(s.remote), s.sel.prio, t.list[i])
      BY DEF ListOK, Thawed, Kept
    <2>1. Unfrozen(t.list[i], s.list[i])
      BY DEF Thawed
    <2>2. PairOK(a, c, s.ctrl, ToSet(s.local), ToSet(s.remote), s.sel.prio, s.list[i])
      BY DEF Good
    <2> QED
      BY <2>1, <2>2 DEF Unfrozen, Same, PairOK, Valid
  <1>2. \A j \in DOMAIN t.list : \E i \in DOMAIN s.list : Same(t.list[j], s.list[i])
    BY DEF Thawed, Unfrozen, Same
  <1>3. t.state = "READY" => t.sel.prio > 0
    BY DEF Thawed, Good
  <1> QED
    BY <1>1, <1>2, <1>3, Rewritten DEF Thawed

LEMMA UnfreezeNextGood ==
  ASSUME NEW a, NEW c, NEW R, NEW s \in Good(a, c, R), net \subseteq Message,
         NEW t, t = priv_conn_check_unfreeze_next(s)
  PROVE  /\ t \in Good(a, c, R) /\ Unchanging(s, t)
         /\ \A i \in DOMAIN s.list : s.list[i].state = "FROZEN" \/ t.list[i] = s.list[i]
  <1>1. s \in State
    BY DEF Good
  <1>2. Thawed(s, t)
    BY <1>1, UnfreezeNextIs
  <1>3. t \in Good(a, c, R)
    BY <1>2, ThawedGood
  <1> QED
    BY <1>2, <1>3 DEF Thawed, Unfrozen, Unchanging

LEMMA UnchangingTransitive ==
  ASSUME NEW s, NEW t, NEW u, Unchanging(s, t), Unchanging(t, u)
  PROVE  Unchanging(s, u)
  BY DEF Unchanging, Kept

LEMMA PruneGood ==
  ASSUME NEW a, NEW c, NEW R, NEW s \in Good(a, c, R), net \subseteq Message,
         NEW t, t = priv_prune_pending_checks(s)
  PROVE  t \in Good(a, c, R) /\ Unchanging(s, t) /\ t.sel = s.sel
  <1> DEFINE best == {p.prio : p \in {p \in ToSet(s.list) : Valid(p) /\ p.nominated}}
             Cancel(p) == \/ p.state \in {"FROZEN", "WAITING"}
                          \/ p.state = "IN_PROGRESS" /\ best # {} /\ p.prio < Max(best)
  <1>1. s.list \in Seq(Pair)
    BY DEF Good, State
  <1>2. PICK h : h = [i \in DOMAIN s.list |->
          IF Cancel(s.list[i]) THEN [s.list[i] EXCEPT !.state = "CANCELLED", !.tid = 0] ELSE s.list[i]]
    OBVIOUS
  <1>3. t = [s EXCEPT !.list = Listed(h)]
    BY <1>2 DEF priv_prune_pending_checks
  <1> HIDE DEF Cancel
  <1>4. DOMAIN h = 1 .. Len(s.list) /\ DOMAIN s.list = 1 .. Len(s.list) /\ Len(s.list) \in Nat
    BY <1>1, <1>2, LenProperties
  <1>5. ASSUME NEW i \in DOMAIN s.list
        PROVE  Reworked(h[i], s.list[i])
    <2>1. s.list[i] \in Pair /\ "CANCELLED" \in CheckState
      BY <1>1 DEF CheckState
    <2>2. Reworked(s.list[i], s.list[i])
      BY <2>1 DEF Reworked, Good, PairOK
    <2>3. CASE h[i] = s.list[i]
      BY <2>2, <2>3
    <2>4. CASE h[i] = [s.list[i] EXCEPT !.state = "CANCELLED", !.tid = 0]
      <3>1. /\ h[i] \in Pair /\ h[i].state = "CANCELLED" /\ h[i].tid = 0
            /\ h[i].ctrl = s.list[i].ctrl /\ h[i].asCtrl = s.list[i].asCtrl
            /\ h[i].local = s.list[i].local /\ h[i].remote = s.list[i].remote
        <4>1. PICK p \in Pair : p = s.list[i]
          BY <2>1
        <4>2. PICK q : q = [p EXCEPT !.state = "CANCELLED", !.tid = 0]
          OBVIOUS
        <4>3. /\ q \in Pair /\ q.state = "CANCELLED" /\ q.tid = 0 /\ q.ctrl = p.ctrl
              /\ q.asCtrl = p.asCtrl /\ q.local = p.local /\ q.remote = p.remote
          BY <4>2 DEF Pair, CheckState
        <4>4. h[i] = q
          BY <2>4, <4>1, <4>2
        <4> QED
          BY <4>1, <4>3, <4>4
      <3> QED
        BY <3>1 DEF Reworked, Valid
    <2> QED
      BY <1>2, <2>3, <2>4
  <1>6. h \in Seq(Pair)
    BY <1>2, <1>4, <1>5, FunctionIsSeq DEF Reworked
  <1>7. t = [s EXCEPT !.list = h]
    BY <1>3, <1>6, ListedIsTheList
  <1>8. t \in Good(a, c, R) /\ Kept(s, t) /\ t.list = h
    BY <1>4, <1>5, <1>6, <1>7, ListReworked
  <1>9. t.sel = s.sel
    BY <1>7 DEF Good, State
  <1> QED
    BY <1>4, <1>5, <1>8, <1>9 DEF Unchanging, Reworked

(* READY is signalled only with a pair selected.                           *)
LEMMA UpdateForReadyGood ==
  ASSUME NEW a, NEW c, NEW R, NEW s \in Good(a, c, R), net \subseteq Message,
         NEW t, t = priv_update_check_list_state_for_ready(s)
  PROVE  t \in Good(a, c, R) /\ Unchanging(s, t)
  <1>1. PICK u : u = priv_prune_pending_checks(s)
    OBVIOUS
  <1>2. u \in Good(a, c, R) /\ Unchanging(s, u) /\ u.sel = s.sel
    BY <1>1, PruneGood
  <1>3. CASE ~ \E p \in ToSet(s.list) : Valid(p) /\ p.nominated
    <2>1. t = s
      BY <1>3 DEF priv_update_check_list_state_for_ready
    <2> QED
      BY <2>1 DEF Unchanging, Kept
  <1>4. CASE \E p \in ToSet(s.list) : Valid(p) /\ p.nominated
    <2>1. u.sel.prio > 0
      <3>1. PICK i \in DOMAIN s.list : Valid(s.list[i]) /\ s.list[i].nominated
        BY <1>4 DEF ToSet
      <3>2. s.list[i] \in Pair /\ s.sel.prio \in Nat
        BY DEF Good, State, Selected
      <3>3. s.list[i].prio <= s.sel.prio
        BY <3>1 DEF Good, PairOK
      <3> QED
        BY <1>2, <3>2, <3>3 DEF Pair, Positive
    <2>2. CASE \E p \in ToSet(u.list) : p.state = "IN_PROGRESS"
      BY <1>1, <1>2, <1>4, <2>2 DEF priv_update_check_list_state_for_ready
    <2>3. CASE ~ \E p \in ToSet(u.list) : p.state = "IN_PROGRESS"
      <3>1. t = Signal(u, "READY")
        BY <1>1, <1>4, <2>3 DEF priv_update_check_list_state_for_ready
      <3>2. t \in Good(a, c, R) /\ Kept(u, t) /\ t.list = u.list
        BY <1>2, <2>1, <3>1, SignalGood DEF ComponentState
      <3> QED
        BY <1>2, <3>2 DEF Unchanging, Kept
    <2> QED
      BY <2>2, <2>3
  <1> QED
    BY <1>3, <1>4

LEMMA FailedComponentsGood ==
  ASSUME NEW a, NEW c, NEW R, NEW s \in Good(a, c, R), net \subseteq Message,
         NEW t, t = priv_update_check_list_failed_components(s)
  PROVE  t \in Good(a, c, R) /\ Unchanging(s, t)
  <1>1. CASE t = s
    BY <1>1 DEF Unchanging, Kept
  <1>2. CASE t = Signal(s, "FAILED")
    <2>1. t \in Good(a, c, R) /\ Kept(s, t) /\ t.list = s.list
      BY <1>2, SignalGood DEF ComponentState
    <2> QED
      BY <2>1 DEF Unchanging
  <1> QED
    BY <1>1, <1>2 DEF priv_update_check_list_failed_components

-----------------------------------------------------------------------------
(* Nomination.                                                             *)

(* Pair i has just become valid or nominated.                              *)
AllBut(a, c, s, i) == \A j \in DOMAIN s.list :
  PairOK(a, c, s.ctrl, ToSet(s.local), ToSet(s.remote),
         IF j = i THEN s.list[i].prio ELSE s.sel.prio, s.list[j])

(* The same transactions as before, or fewer.                              *)
NoneMore(s, t) ==
  /\ t \in State /\ Kept(s, t) /\ t.out = s.out /\ t.sel = s.sel
  /\ t.state # "READY" \/ t.state = s.state
  /\ \A j \in DOMAIN t.list : t.list[j].tid = 0 \/ \E k \in DOMAIN s.list : Same(t.list[j], s.list[k])

(* It is taken into account at once.                                       *)
LEMMA SelectGood ==
  ASSUME NEW a, NEW c, NEW R, NEW s \in Good(a, c, R), net \subseteq Message,
         NEW t, NoneMore(s, t), NEW i \in DOMAIN t.list, AllBut(a, c, t, i),
         NEW u, u = priv_update_selected_pair(t, t.list[i])
  PROVE  u \in Good(a, c, R) /\ Kept(s, u) /\ u.list = t.list
  <1>0. /\ t \in State /\ Kept(s, t) /\ t.out = s.out /\ t.sel = s.sel
        /\ t.state # "READY" \/ t.state = s.state
        /\ \A j \in DOMAIN t.list : t.list[j].tid = 0 \/ \E k \in DOMAIN s.list : Same(t.list[j], s.list[k])
    BY DEF NoneMore
  <1>1. t.list[i] \in Pair /\ t.sel \in Selected
    BY <1>0 DEF State
  <1>2. /\ t.list[i].prio \in Nat /\ t.sel.prio \in Nat
        /\ t.list[i].local \in Addr /\ t.list[i].remote \in Addr
    BY <1>1 DEF Pair, Positive, Selected
  <1>3. PICK x : x = [local |-> t.list[i].local, remote |-> t.list[i].remote, prio |-> t.list[i].prio]
    OBVIOUS
  <1>4. x \in Selected /\ x.prio = t.list[i].prio
    BY <1>0, <1>2, <1>3 DEF Selected
  <1>5. /\ u \in State /\ Kept(s, u) /\ u.out = s.out /\ u.list = t.list /\ u.state = t.state
        /\ u.sel.prio >= t.sel.prio /\ u.sel.prio >= t.list[i].prio /\ u.sel.prio \in Nat
    <2>1. CASE t.list[i].prio > t.sel.prio
      <3>1. u = [t EXCEPT !.sel = x]
        BY <1>3, <2>1 DEF priv_update_selected_pair
      <3>2. u \in State /\ u.sel = x /\ u.out = t.out /\ u.list = t.list /\ u.state = t.state /\ Kept(t, u)
        BY <1>0, <1>4, <3>1 DEF State, Kept
      <3>3. u.sel.prio = t.list[i].prio
        BY <1>4, <3>2
      <3>4. u.sel.prio >= t.sel.prio /\ u.sel.prio >= t.list[i].prio /\ u.sel.prio \in Nat
        BY <1>0, <1>2, <2>1, <3>3
      <3> QED
        BY <1>0, <3>2, <3>4 DEF Kept
    <2>2. CASE ~(t.list[i].prio > t.sel.prio)
      <3>1. u = t
        BY <2>2 DEF priv_update_selected_pair
      <3> QED
        BY <1>0, <1>2, <2>2, <3>1
    <2> QED
      BY <2>1, <2>2
  <1>6. ListOK(a, c, u)
    <2> SUFFICES ASSUME NEW j \in DOMAIN u.list
                 PROVE  PairOK(a, c, u.ctrl, ToSet(u.local), ToSet(u.remote), u.sel.prio, u.list[j])
      BY DEF ListOK
    <2>0. t.list[j] \in Pair /\ u.list[j] = t.list[j]
      BY <1>0, <1>5 DEF State
    <2>1. t.list[j].prio \in Nat /\ u.list[j] = t.list[j]
      BY <2>0 DEF Pair, Positive
    <2> QED
      BY <1>0, <1>2, <1>5, <2>1 DEF PairOK, Kept, AllBut
  <1>7. u.state = "READY" => u.sel.prio > 0
    BY <1>0, <1>2, <1>5 DEF Good
  <1> QED
    BY <1>0, <1>5, <1>6, <1>7, Rewritten

LEMMA NominateGood ==
  ASSUME NEW a, NEW c, NEW R, NEW s \in Good(a, c, R), net \subseteq Message,
         NEW i \in DOMAIN s.list, NEW t, t = Nominate(s, i)
  PROVE  t \in Good(a, c, R) /\ Unchanging(s, t)
  <1>1. s.list \in Seq(Pair) /\ s.list[i] \in Pair
    BY DEF Good, State
  <1>2. PICK q : q = [s.list[i] EXCEPT !.nominated = TRUE]
    OBVIOUS
  <1>3. /\ q \in Pair /\ q.nominated = TRUE /\ q.state = s.list[i].state /\ q.tid = s.list[i].tid
        /\ q.ctrl = s.list[i].ctrl /\ q.asCtrl = s.list[i].asCtrl /\ q.prio = s.list[i].prio
        /\ q.local = s.list[i].local /\ q.remote = s.list[i].remote
    BY <1>1, <1>2 DEF Pair
  <1>4. PICK u : u = [s EXCEPT !.list[i].nominated = TRUE]
    OBVIOUS
  <1>5. /\ u \in State /\ Kept(s, u) /\ u.out = s.out /\ u.sel = s.sel /\ u.state = s.state
        /\ u.list = [s.list EXCEPT ![i] = q]
    <2>1. PICK h : h = [s.list EXCEPT ![i] = q]
      OBVIOUS
    <2>2. h \in Seq(Pair)
      BY <1>1, <1>3, <2>1
    <2>3. u = [s EXCEPT !.list = h]
      BY <1>2, <1>4, <2>1 DEF Good, State
    <2>4. /\ u \in State /\ Kept(s, u) /\ u.out = s.out /\ u.sel = s.sel /\ u.state = s.state
          /\ u.list = h
      BY <2>2, <2>3 DEF Good, State, Kept
    <2> QED
      BY <2>1, <2>4
  <1>6. DOMAIN u.list = DOMAIN s.list /\ u.list[i] = q /\ \A j \in DOMAIN s.list : j # i => u.list[j] = s.list[j]
    BY <1>5
  <1>7. \A j \in DOMAIN u.list : \E k \in DOMAIN s.list : Same(u.list[j], s.list[k])
    BY <1>3, <1>6 DEF Same
  <1>8. \A j \in DOMAIN s.list : u.list[j].remote = s.list[j].remote /\ u.list[j].local = s.list[j].local
    BY <1>3, <1>6
  <1>9. AllBut(a, c, u, i)
    <2>1. \A j \in DOMAIN s.list : PairOK(a, c, u.ctrl, ToSet(u.local), ToSet(u.remote), u.sel.prio, s.list[j])
      BY <1>5 DEF Good, Kept
    <2>2. q.prio \in Nat
      BY <1>3 DEF Pair, Positive
    <2>3. PairOK(a, c, u.ctrl, ToSet(u.local), ToSet(u.remote), q.prio, q)
      BY <1>3, <2>1, <2>2 DEF PairOK, Valid
    <2> QED
      BY <1>6, <2>1, <2>3 DEF AllBut
  <1>10. PICK v : v = IF Valid(u.list[i]) THEN priv_update_selected_pair(u, u.list[i]) ELSE u
    OBVIOUS
  <1>11. v \in Good(a, c, R) /\ Kept(s, v) /\ v.list = u.list
    <2>1. CASE Valid(u.list[i])
      <3>1. v = priv_update_selected_pair(u, u.list[i])
        BY <1>10, <2>1
      <3>2. NoneMore(s, u)
        BY <1>5, <1>7 DEF NoneMore
      <3> QED
        BY <1>6, <1>9, <3>1, <3>2, SelectGood
    <2>2. CASE ~Valid(u.list[i])
      <3>1. v = u
        BY <1>10, <2>2
      <3>2. ListOK(a, c, u)
        BY <1>9, <2>2 DEF ListOK, PairOK, AllBut
      <3>3. u.state = "READY" => u.sel.prio > 0
        BY <1>5 DEF Good
      <3> QED
        BY <1>5, <1>7, <3>1, <3>2, <3>3, Rewritten
    <2> QED
      BY <2>1, <2>2
  <1>12. t = priv_update_check_list_state_for_ready(v)
    BY <1>4, <1>10 DEF Nominate
  <1>13. t \in Good(a, c, R) /\ Unchanging(v, t)
    BY <1>11, <1>12, UpdateForReadyGood
  <1>14. Unchanging(s, v)
    BY <1>6, <1>8, <1>11 DEF Unchanging
  <1> QED
    BY <1>13, <1>14, UnchangingTransitive

LEMMA MarkGood ==
  ASSUME NEW a, NEW c, NEW R, NEW s \in Good(a, c, R), net \subseteq Message, NEW r,
         NEW t, t = priv_mark_pair_nominated(s, r)
  PROVE  t \in Good(a, c, R) /\ Unchanging(s, t)
  <1>1. PICK S : S = {u \in Good(a, c, R) : Unchanging(s, u)}
    OBVIOUS
  <1>2. s \in S /\ s.list \in Seq(Pair)
    BY <1>1 DEF Good, State, Unchanging, Kept
  <1>3. \A u \in S : \A i \in 1 .. Len(s.list) : Nominate(u, i) \in S
    <2> SUFFICES ASSUME NEW u \in S, NEW i \in 1 .. Len(s.list) PROVE Nominate(u, i) \in S
      OBVIOUS
    <2>1. u \in Good(a, c, R) /\ Unchanging(s, u) /\ i \in DOMAIN u.list
      BY <1>1, <1>2, LenProperties DEF Unchanging
    <2>2. Nominate(u, i) \in Good(a, c, R) /\ Unchanging(u, Nominate(u, i))
      BY <2>1, NominateGood
    <2> QED
      BY <1>1, <2>1, <2>2, UnchangingTransitive
  <1>4. t \in S
    BY <1>2, <1>3, NominateLoop
  <1> QED
    BY <1>1, <1>4

-----------------------------------------------------------------------------
(* Sending a check.                                                        *)

LEMMA ImageIsFinite ==
  ASSUME NEW S, IsFiniteSet(S), NEW f
  PROVE  IsFiniteSet({f[x] : x \in S})
  <1>1. PICK T : T = {f[x] : x \in S}
    OBVIOUS
  <1>2. PICK g : g = [x \in S |-> f[x]]
    OBVIOUS
  <1>3. g \in [S -> T] /\ \A t \in T : \E x \in S : g[x] = t
    BY <1>1, <1>2
  <1>4. g \in Surjection(S, T)
    BY <1>3 DEF Surjection
  <1> QED
    BY <1>1, <1>4, FS_Surjection

LEMMA FreshIsFresh ==
  ASSUME NEW a, NEW s, s.list \in Seq(Pair), IsFiniteSet(s.out), IsFiniteSet(net),
         NEW n, n = Fresh(a, s)
  PROVE  /\ n \in Positive
         /\ \A i \in DOMAIN s.list : s.list[i].tid # n
         /\ \A m \in net \cup s.out : (m.kind = "request") = (m.to # a) => m.tid # n
  <1> DEFINE mine == {m \in net \cup s.out : OfTransaction(a, m.tid, m)}
             inList == {s.list[i].tid : i \in DOMAIN s.list}
             inNet == {m.tid : m \in mine}
             used == inList \cup inNet
  <1>1. IsFiniteSet(inList)
    <2>1. PICK f : f = [i \in DOMAIN s.list |-> s.list[i].tid]
      OBVIOUS
    <2>2. IsFiniteSet(DOMAIN s.list)
      BY LenProperties, FS_Interval
    <2>3. inList = {f[i] : i \in DOMAIN s.list}
      BY <2>1
    <2> HIDE DEF inList
    <2> QED
      BY <2>2, <2>3, ImageIsFinite
  <1>2. IsFiniteSet(inNet)
    <2>1. PICK M : M = mine
      OBVIOUS
    <2>2. IsFiniteSet(net \cup s.out) /\ M \in SUBSET (net \cup s.out)
      BY <2>1, FS_Union
    <2>3. IsFiniteSet(M)
      BY <2>2, FS_Subset
    <2>4. PICK f : f = [m \in M |-> m.tid]
      OBVIOUS
    <2>5. inNet = {f[m] : m \in M}
      BY <2>1, <2>4
    <2> HIDE DEF inNet
    <2> QED
      BY <2>3, <2>5, ImageIsFinite
  <1>3. n = Min((1 .. Cardinality(used) + 1) \ used)
    BY DEF Fresh
  <1>4. IsFiniteSet(used)
    <2> HIDE DEF inList, inNet
    <2> QED
      BY <1>1, <1>2, FS_Union
  <1>5. \A i \in DOMAIN s.list : s.list[i].tid \in used
    OBVIOUS
  <1>6. \A m \in net \cup s.out : (m.kind = "request") = (m.to # a) => m.tid \in used
    BY DEF OfTransaction
  <1> HIDE DEF used
  <1>7. PICK k \in Nat : k = Cardinality(used)
    BY <1>4, FS_CardinalityType
  <1>8. PICK T : T = (1 .. k + 1) \ used
    OBVIOUS
  <1>9. T # {} /\ T \in SUBSET Nat
    <2>1. ASSUME T = {} PROVE FALSE
      <3>1. 1 .. k + 1 \in SUBSET used
        BY <1>8, <2>1
      <3>2. Cardinality(1 .. k + 1) <= k
        BY <1>4, <1>7, <3>1, FS_Subset
      <3>3. Cardinality(1 .. k + 1) = k + 1
        <4>1. PICK b \in Int : b = k + 1
          OBVIOUS
        <4>2. Cardinality(1 .. b) = IF 1 > b THEN 0 ELSE b - 1 + 1
          BY FS_Interval
        <4> QED
          BY <4>1, <4>2
      <3> QED
        BY <3>2, <3>3
    <2> QED
      BY <1>8, <2>1
  <1>10. n \in T
    BY <1>3, <1>7, <1>8, <1>9, MinIsLeast
  <1> QED
    BY <1>5, <1>6, <1>8, <1>10 DEF Positive

LEMMA RequestIs ==
  ASSUME NEW a \in Agent, NEW p \in Pair, p.tid # 0
  PROVE  /\ Request(a, p) \subseteq Message /\ IsFiniteSet(Request(a, p))
         /\ \A m \in Request(a, p) : /\ m.kind = "request" /\ m.to = Peer[a]
                                     /\ m.tid = p.tid /\ m.ctrl = p.asCtrl
  <1>1. /\ p.local \in Addr /\ p.remote \in Addr /\ p.tid \in Positive /\ p.asCtrl \in BOOLEAN
        /\ Peer[a] \in Agent
    BY AgentsAssumption DEF Pair, Positive
  <1>2. CASE <<Sock[p.local], p.remote>> \notin DOMAIN Via
    <2>1. Request(a, p) = {}
      BY <1>2 DEF Request
    <2> QED
      BY <2>1, FS_EmptySet
  <1>3. CASE <<Sock[p.local], p.remote>> \in DOMAIN Via
    <2>1. PICK from \in Addr : from = Via[<<Sock[p.local], p.remote>>]
      BY <1>3, NetworkAssumption DEF Addr
    <2>2. PICK m : m = [kind |-> "request", to |-> Peer[a], from |-> from,
                        sock |-> Sock[p.remote], tid |-> p.tid, ctrl |-> p.asCtrl]
      OBVIOUS
    <2>3. Request(a, p) = {m}
      BY <1>3, <2>1, <2>2 DEF Request
    <2>4. Sock[p.remote] \in Sockets
      BY <1>1 DEF Sockets
    <2>5. m \in Message
      BY <1>1, <2>2, <2>4 DEF Message
    <2>6. m.kind = "request" /\ m.to = Peer[a] /\ m.tid = p.tid /\ m.ctrl = p.asCtrl
      BY <2>2
    <2> QED
      BY <2>3, <2>5, <2>6, FS_Singleton
  <1> QED
    BY <1>2, <1>3

(* The agent's own requests are no replies.                                *)
LEMMA InitiateGood ==
  ASSUME NEW a \in Agent, NEW c \in BOOLEAN, NEW R, NEW s \in Good(a, c, R),
         net \subseteq Message, IsFiniteSet(net),
         NEW i \in DOMAIN s.list, NEW t, t = priv_conn_check_initiate(a, s, i)
  PROVE  /\ t \in Good(a, c, R) /\ Unchanging(s, t)
         /\ \A j \in DOMAIN s.list : j # i => t.list[j] = s.list[j]
         /\ t.list[i].state = "IN_PROGRESS"
  <1>1. /\ s \in State /\ s.list \in Seq(Pair) /\ s.list[i] \in Pair /\ s.ctrl \in BOOLEAN
        /\ s.out \subseteq Message
    BY DEF Good, State
  <1>2. PICK q : q = [s.list[i] EXCEPT !.state = "IN_PROGRESS"]
    OBVIOUS
  <1>3. /\ q \in Pair /\ q.state = "IN_PROGRESS" /\ q.tid = s.list[i].tid /\ q.ctrl = s.list[i].ctrl
        /\ q.local = s.list[i].local /\ q.remote = s.list[i].remote
    BY <1>1, <1>2 DEF Pair, CheckState
  <1>4. PICK l : l = [s.list EXCEPT ![i] = q]
    OBVIOUS
  <1>5. l \in Seq(Pair) /\ DOMAIN l = DOMAIN s.list /\ l[i] = q
    BY <1>1, <1>3, <1>4
  <1>6. PICK u : u = [s EXCEPT !.list = l]
    OBVIOUS
  <1>7. [s EXCEPT !.list[i].state = "IN_PROGRESS"] = u
    BY <1>1, <1>2, <1>4, <1>6 DEF State
  <1>8. u \in State /\ u.list = l /\ u.out = s.out /\ u.sel = s.sel /\ u.state = s.state /\ Kept(s, u)
    BY <1>1, <1>5, <1>6 DEF State, Kept
  <1>9. PICK n : n = Fresh(a, u)
    OBVIOUS
  <1>10. /\ n \in Positive
         /\ \A j \in DOMAIN l : l[j].tid # n
         /\ \A m \in net \cup s.out : (m.kind = "request") = (m.to # a) => m.tid # n
    <2>1. IsFiniteSet(u.out) /\ u.list \in Seq(Pair)
      BY <1>5, <1>8 DEF Good, OutOK
    <2> QED
      BY <1>8, <1>9, <2>1, FreshIsFresh
  <1>11. PICK p : p = [q EXCEPT !.nominated = @ \/ s.ctrl, !.tid = n, !.sent = 1, !.asCtrl = s.ctrl]
    OBVIOUS
  <1>12. /\ p \in Pair /\ p.tid = n /\ p.asCtrl = s.ctrl /\ p.state = "IN_PROGRESS"
         /\ p.ctrl = s.list[i].ctrl /\ p.local = s.list[i].local /\ p.remote = s.list[i].remote
    <2>1. 1 \in 0 .. MaxTrans /\ n \in Nat
      BY <1>10, LimitsAssumption DEF Positive
    <2> QED
      BY <1>1, <1>3, <1>11, <2>1 DEF Pair
  <1>13. t = [u EXCEPT !.list[i] = p, !.out = @ \cup Request(a, p)]
    <2>1. t = conn_check_send(a, u, i)
      BY <1>7 DEF priv_conn_check_initiate
    <2>2. p = [u.list[i] EXCEPT !.nominated = @ \/ u.ctrl, !.tid = Fresh(a, u), !.sent = 1, !.asCtrl = u.ctrl]
      BY <1>5, <1>8, <1>9, <1>11 DEF Kept
    <2> QED
      BY <2>1, <2>2 DEF conn_check_send
  <1>14. PICK h : h = [s.list EXCEPT ![i] = p]
    OBVIOUS
  <1>15. /\ h \in Seq(Pair) /\ DOMAIN h = DOMAIN s.list /\ h[i] = p
         /\ \A j \in DOMAIN s.list : j # i => h[j] = s.list[j]
    BY <1>1, <1>12, <1>14
  <1>16. /\ Request(a, p) \subseteq Message /\ IsFiniteSet(Request(a, p))
         /\ \A m \in Request(a, p) : m.kind = "request" /\ m.to = Peer[a] /\ m.tid = n /\ m.ctrl = s.ctrl
    BY <1>10, <1>12, RequestIs DEF Positive
  <1>17. /\ t \in State /\ t.list = h /\ t.out = s.out \cup Request(a, p) /\ Kept(s, t)
         /\ t.sel = s.sel /\ t.state = s.state
    <2>1. [l EXCEPT ![i] = p] = h
      BY <1>1, <1>4, <1>14
    <2>2. PICK o : o = s.out \cup Request(a, p)
      OBVIOUS
    <2>3. t = [u EXCEPT !.list = h, !.out = o]
      BY <1>8, <1>13, <2>1, <2>2 DEF State
    <2>4. o \in SUBSET Message
      BY <1>1, <1>16, <2>2
    <2>5. t \in State /\ t.list = h /\ t.out = o /\ Kept(u, t) /\ t.sel = u.sel /\ t.state = u.state
      BY <1>8, <1>15, <2>3, <2>4 DEF State, Kept
    <2> QED
      BY <1>8, <2>2, <2>5 DEF Kept
  <1>18. ASSUME NEW j \in DOMAIN h
         PROVE  PairOK(a, c, t.ctrl, ToSet(t.local), ToSet(t.remote), t.sel.prio, h[j])
    <2>1. PairOK(a, c, s.ctrl, ToSet(s.local), ToSet(s.remote), s.sel.prio, s.list[j])
      BY <1>15 DEF Good
    <2>2. CASE j # i
      BY <1>15, <1>17, <2>1, <2>2 DEF Kept
    <2>3. CASE j = i
      <3>1. n # 0
        BY <1>10 DEF Positive
      <3>2. PairOK(a, c, s.ctrl, ToSet(s.local), ToSet(s.remote), s.sel.prio, p)
        BY <1>12, <2>1, <2>3, <3>1 DEF PairOK, Valid
      <3> QED
        BY <1>15, <1>17, <2>3, <3>2 DEF Kept
    <2> QED
      BY <2>2, <2>3
  <1>19. Apart(a, c, t)
    <2>1. SUFFICES ASSUME NEW j \in DOMAIN h, h[j].ctrl # c
                   PROVE  /\ \A m \in net \cup s.out \cup Request(a, p) :
                               Conflicting(a, c, m) => m.tid # h[j].tid
                          /\ \A k \in DOMAIN h : h[k].asCtrl = c /\ h[k].tid # 0 => h[k].tid # h[j].tid
      BY <1>17 DEF Apart
    <2>2. s.list[j].ctrl # c /\ j \in DOMAIN s.list
      BY <2>1, <1>12, <1>15
    <2>3. s.ctrl # c
      BY <2>2 DEF Good, PairOK
    <2>4. /\ \A m \in net \cup s.out : Conflicting(a, c, m) => m.tid # s.list[j].tid
          /\ \A k \in DOMAIN s.list :
               s.list[k].asCtrl = c /\ s.list[k].tid # 0 => s.list[k].tid # s.list[j].tid
      BY <2>2 DEF Good, Apart
    <2>5. \A m \in Request(a, p) : ~Conflicting(a, c, m)
      BY <1>16, <2>3 DEF Conflicting
    <2>6. \A m \in net \cup s.out : Conflicting(a, c, m) => m.tid # n
      BY <1>10, AgentsAssumption DEF Conflicting
    <2>7. \A k \in DOMAIN s.list : l[k].tid = s.list[k].tid
      BY <1>1, <1>3, <1>4
    <2>8. \A k \in DOMAIN s.list : s.list[k].tid # n
      BY <1>5, <1>10, <2>7
    <2>9. CASE j = i
      <3>1. h[j].tid = n
        BY <1>12, <1>15, <2>9
      <3> QED
        BY <1>12, <1>15, <2>3, <2>5, <2>6, <2>8, <2>9, <3>1
    <2>10. CASE j # i
      <3>1. h[j] = s.list[j]
        BY <1>15, <2>10
      <3> QED
        BY <1>12, <1>15, <2>3, <2>4, <2>5, <3>1
    <2> QED
      BY <2>9, <2>10
  <1>20. OutOK(a, c, R, t)
    <2>1. /\ IsFiniteSet(s.out)
          /\ \A m \in s.out : /\ m.to = Peer[a]
                              /\ IF m.kind = "request" THEN s.ctrl = c => m.ctrl = c ELSE m \in R
      BY DEF Good, OutOK
    <2>2. IsFiniteSet(t.out)
      <3>1. PICK Q : Q = Request(a, p)
        OBVIOUS
      <3>2. IsFiniteSet(s.out \cup Q)
        BY <1>16, <2>1, <3>1, FS_Union
      <3> QED
        BY <1>17, <3>1, <3>2
    <2>3. ASSUME NEW m \in t.out
          PROVE  /\ m.to = Peer[a]
                 /\ IF m.kind = "request" THEN t.ctrl = c => m.ctrl = c ELSE m \in R
      <3>1. CASE m \in s.out
        BY <1>17, <2>1, <3>1 DEF Kept
      <3>2. CASE m \in Request(a, p)
        BY <1>16, <1>17, <3>2 DEF Kept
      <3> QED
        BY <1>17, <3>1, <3>2
    <2> QED
      BY <2>2, <2>3 DEF OutOK
  <1>21. (~Lower(a) => t.ctrl = c) /\ (t.state = "READY" => t.sel.prio > 0)
    BY <1>17 DEF Good, Kept
  <1>22. t \in Good(a, c, R)
    BY <1>17, <1>18, <1>19, <1>20, <1>21 DEF Good
  <1> QED
    BY <1>12, <1>15, <1>17, <1>22 DEF Unchanging

-----------------------------------------------------------------------------
(* New pairs and new candidates.                                           *)

LEMMA AddPairGood ==
  ASSUME NEW a, NEW c, NEW R, NEW s \in Good(a, c, R), net \subseteq Message,
         NEW l \in ToSet(s.local), NEW r \in ToSet(s.remote),
         NEW state \in {"FROZEN", "WAITING"}, NEW use \in BOOLEAN,
         NEW t, t = priv_add_new_check_pair(s, l, r, state, use)
  PROVE  t \in Good(a, c, R) /\ Kept(s, t) /\ t.state = s.state /\ t.sel = s.sel
  <1>1. /\ s \in State /\ s.list \in Seq(Pair) /\ s.ctrl \in BOOLEAN
        /\ s.local \in Seq(Addr) /\ s.remote \in Seq(Addr)
    BY DEF Good, State
  <1>2. l \in Addr /\ r \in Addr
    BY <1>1 DEF ToSet
  <1>3. PICK prio \in Positive : prio = agent_candidate_pair_priority(s.ctrl, l, r)
    BY PairPriorityIsPositive
  <1>4. PICK p : p = [local |-> l, remote |-> r, state |-> state, nominated |-> use, prio |-> prio,
                      ctrl |-> s.ctrl, asCtrl |-> s.ctrl, tid |-> 0, sent |-> 0]
    OBVIOUS
  <1>5. /\ p \in Pair /\ p.local = l /\ p.remote = r /\ p.state = state /\ p.ctrl = s.ctrl
        /\ p.asCtrl = s.ctrl /\ p.tid = 0
    <2>1. 0 \in 0 .. MaxTrans
      BY LimitsAssumption
    <2> QED
      BY <1>1, <1>2, <1>4, <2>1 DEF Pair, CheckState
  <1>6. PICK Q : Q = {p} \cup {s.list[i] : i \in DOMAIN s.list}
    OBVIOUS
  <1>7. s.list \in Seq(Q) /\ p \in Q /\ Q \subseteq Pair
    BY <1>1, <1>5, <1>6
  <1>8. PICK n : n = IF s.list = <<>> THEN <<p>> ELSE InsertSorted(s.list, p)
    OBVIOUS
  <1>9. n \in Seq(Q)
    <2>1. CASE s.list = <<>>
      BY <1>7, <1>8, <2>1
    <2>2. CASE s.list # <<>>
      <3>1. PICK len \in Nat : len = Len(s.list) /\ DOMAIN s.list = 1 .. len /\ len # 0
        BY <1>1, <2>2, LenProperties, EmptySeq
      <3>2. PICK T : T = {i \in 1 .. len : 0 < s.list[i].prio}
        OBVIOUS
      <3>3. s.list[1] \in Pair /\ 1 \in 1 .. len
        BY <1>1, <3>1
      <3>4. 1 \in T
        BY <3>2, <3>3 DEF Pair, Positive
      <3>5. PICK at : at = IF T # {} THEN Min(T) ELSE 0
        OBVIOUS
      <3>6. at \in 1 .. len
        BY <3>2, <3>4, <3>5, FirstPairIs
      <3>7. n = SubSeq(s.list, 1, at - 1) \o <<p>> \o SubSeq(s.list, at, Len(s.list))
        BY <1>8, <2>2, <3>1, <3>2, <3>5 DEF InsertSorted, SelectInSeq
      <3>8. SubSeq(s.list, 1, at - 1) \in Seq(Q) /\ SubSeq(s.list, at, Len(s.list)) \in Seq(Q)
        BY <1>7, <3>1, <3>6, SubSeqProperties
      <3> QED
        BY <1>7, <3>7, <3>8, ConcatProperties
    <2> QED
      BY <2>1, <2>2
  <1>10. PICK h : h = priv_limit_conn_check_list_size(n)
    OBVIOUS
  <1>11. h \in Seq(Q)
    <2>1. Len(n) \in Nat /\ MaxChecks \in Nat
      BY <1>9, LenProperties, LimitsAssumption
    <2>2. Len(n) > MaxChecks => SubSeq(n, 1, Len(n) - MaxChecks) \in Seq(Q)
      BY <1>9, <2>1, SubSeqProperties
    <2> QED
      BY <1>9, <1>10, <2>2 DEF priv_limit_conn_check_list_size
  <1>12. h \in Seq(Pair) /\ \A j \in DOMAIN h : h[j] = p \/ \E i \in DOMAIN s.list : h[j] = s.list[i]
    <2>1. \A j \in DOMAIN h : h[j] \in Q
      BY <1>11
    <2>2. h \in Seq(Pair)
      BY <1>7, <1>11
    <2> QED
      BY <1>6, <2>1, <2>2
  <1>13. t = [s EXCEPT !.list = h]
    BY <1>3, <1>4, <1>8, <1>10 DEF priv_add_new_check_pair, Good, State
  <1>14. /\ t \in State /\ t.list = h /\ Kept(s, t) /\ t.out = s.out /\ t.sel = s.sel
         /\ t.state = s.state
    BY <1>1, <1>12, <1>13 DEF State, Kept
  <1>15. PairOK(a, c, s.ctrl, ToSet(s.local), ToSet(s.remote), s.sel.prio, p)
    BY <1>5 DEF PairOK, Valid
  <1>16. ListOK(a, c, t)
    BY <1>12, <1>14, <1>15 DEF ListOK, Good, Kept
  <1>17. \A j \in DOMAIN t.list : t.list[j].tid = 0 \/ \E i \in DOMAIN s.list : Same(t.list[j], s.list[i])
    BY <1>5, <1>12, <1>14 DEF Same
  <1>18. t.state = "READY" => t.sel.prio > 0
    BY <1>14 DEF Good
  <1> QED
    BY <1>14, <1>16, <1>17, <1>18, Rewritten

LEMMA PairWithGood ==
  ASSUME NEW a, NEW c, NEW R, NEW s \in Good(a, c, R), net \subseteq Message,
         NEW l \in ToSet(s.local), NEW r \in ToSet(s.remote), NEW t, t = PairWith(s, l, r)
  PROVE  t \in Good(a, c, R) /\ Kept(s, t)
  <1>1. PICK u : u = priv_add_new_check_pair(s, l, r, "FROZEN", FALSE)
    OBVIOUS
  <1>2. u \in Good(a, c, R) /\ Kept(s, u)
    BY <1>1, AddPairGood
  <1>3. PICK state : state = IF s.state \in {"GATHERING", "CONNECTING"} THEN "CONNECTING" ELSE "CONNECTED"
    OBVIOUS
  <1>4. state \in ComponentState /\ state # "READY"
    BY <1>3 DEF ComponentState
  <1>5. Signal(u, state) \in Good(a, c, R) /\ Kept(u, Signal(u, state))
    BY <1>2, <1>4, SignalGood
  <1>6. t = s \/ t = Signal(u, state)
    BY <1>1, <1>3 DEF PairWith
  <1> QED
    BY <1>2, <1>5, <1>6 DEF Kept

LEMMA AddForCandidateGood ==
  ASSUME NEW a, NEW c, NEW R, NEW s \in Good(a, c, R), net \subseteq Message,
         NEW r \in ToSet(s.remote), NEW t, t = conn_check_add_for_candidate(s, r)
  PROVE  t \in Good(a, c, R) /\ Kept(s, t)
  <1>1. PICK S : S = {u \in Good(a, c, R) : Kept(s, u)}
    OBVIOUS
  <1>2. s \in S /\ s.local \in Seq(Addr)
    BY <1>1 DEF Good, State, Kept
  <1>3. ASSUME NEW u \in S, NEW i \in 1 .. Len(s.local) PROVE PairWith(u, s.local[i], r) \in S
    <2>1. u \in Good(a, c, R) /\ Kept(s, u) /\ i \in DOMAIN s.local
      BY <1>1, <1>2, LenProperties
    <2>2. PICK l : l = s.local[i]
      OBVIOUS
    <2>3. l \in ToSet(u.local) /\ r \in ToSet(u.remote)
      BY <2>1, <2>2 DEF Kept, ToSet
    <2>4. PairWith(u, l, r) \in Good(a, c, R) /\ Kept(u, PairWith(u, l, r))
      BY <2>1, <2>3, PairWithGood
    <2> QED
      BY <1>1, <2>1, <2>2, <2>4 DEF Kept
  <1>4. t \in S
    BY <1>2, <1>3, AddForCandidateLoop
  <1> QED
    BY <1>1, <1>4

(* A candidate of the peer more: the list stays as it is.                  *)
LEMMA LearnRemoteGood ==
  ASSUME NEW a, NEW c, NEW R, NEW s \in Good(a, c, R), net \subseteq Message,
         NEW r \in Addr, NEW t, t = discovery_learn_remote_peer_reflexive_candidate(s, r)
  PROVE  /\ t \in Good(a, c, R) /\ t.ctrl = s.ctrl /\ t.local = s.local
         /\ ToSet(t.remote) = ToSet(s.remote) \cup {r}
  <1>1. s \in State /\ s.remote \in Seq(Addr)
    BY DEF Good, State
  <1>2. PICK q : q = Append(s.remote, r)
    OBVIOUS
  <1>3. q \in Seq(Addr) /\ ToSet(q) = ToSet(s.remote) \cup {r}
    <2>1. q \in Seq(Addr) /\ Len(q) = Len(s.remote) + 1 /\ Len(s.remote) \in Nat
      BY <1>1, <1>2, AppendProperties, LenProperties
    <2>2. /\ \A i \in 1 .. Len(s.remote) : q[i] = s.remote[i]
          /\ q[Len(s.remote) + 1] = r
      BY <1>1, <1>2, AppendProperties
    <2>3. DOMAIN q = 1 .. Len(s.remote) + 1 /\ DOMAIN s.remote = 1 .. Len(s.remote)
      BY <1>1, <2>1, LenProperties
    <2> QED
      BY <2>1, <2>2, <2>3 DEF ToSet
  <1>4. /\ t \in State /\ t.remote = q /\ t.ctrl = s.ctrl /\ t.local = s.local /\ t.list = s.list
        /\ t.out = s.out /\ t.sel = s.sel /\ t.state = s.state
    BY <1>1, <1>2, <1>3 DEF State, discovery_learn_remote_peer_reflexive_candidate
  <1>5. \A i \in DOMAIN t.list :
          PairOK(a, c, t.ctrl, ToSet(t.local), ToSet(t.remote), t.sel.prio, t.list[i])
    BY <1>3, <1>4 DEF Good, PairOK
  <1>6. Apart(a, c, t) /\ OutOK(a, c, R, t)
    BY <1>4 DEF Good, Apart, OutOK
  <1>7. (~Lower(a) => t.ctrl = c) /\ (t.state = "READY" => t.sel.prio > 0)
    BY <1>4 DEF Good
  <1> QED
    BY <1>3, <1>4, <1>5, <1>6, <1>7 DEF Good

(* A candidate learnt from a request.                                      *)
LEMMA AddRemoteGood ==
  ASSUME NEW a, NEW c, NEW R, NEW s \in Good(a, c, R), net \subseteq Message, NEW r \in Addr,
         NEW t, t = conn_check_add_for_candidate(discovery_learn_remote_peer_reflexive_candidate(s, r), r)
  PROVE  /\ t \in Good(a, c, R) /\ t.ctrl = s.ctrl /\ t.local = s.local
         /\ ToSet(t.remote) = ToSet(s.remote) \cup {r}
  <1>1. PICK u : u = discovery_learn_remote_peer_reflexive_candidate(s, r)
    OBVIOUS
  <1>2. /\ u \in Good(a, c, R) /\ u.ctrl = s.ctrl /\ u.local = s.local
        /\ ToSet(u.remote) = ToSet(s.remote) \cup {r}
    BY <1>1, LearnRemoteGood
  <1>3. t \in Good(a, c, R) /\ Kept(u, t)
    BY <1>1, <1>2, AddForCandidateGood
  <1> QED
    BY <1>2, <1>3 DEF Kept

(* A candidate of the SDP: a new one, or one that is there.                *)
LEMMA SignalledRemoteGood ==
  ASSUME NEW a, NEW c, NEW R, NEW s \in Good(a, c, R), net \subseteq Message, NEW r \in Addr
  PROVE  /\ priv_add_remote_candidate(s, r) \in Good(a, c, R)
         /\ priv_add_remote_candidate(s, r).ctrl = s.ctrl
  <1>1. CASE r \in ToSet(s.remote)
    <2>1. priv_add_remote_candidate(s, r) = conn_check_add_for_candidate(s, r)
      BY <1>1 DEF priv_add_remote_candidate
    <2> QED
      BY <1>1, <2>1, AddForCandidateGood DEF Kept
  <1>2. CASE r \notin ToSet(s.remote)
    <2>1. priv_add_remote_candidate(s, r)
            = conn_check_add_for_candidate(discovery_learn_remote_peer_reflexive_candidate(s, r), r)
      BY <1>2 DEF priv_add_remote_candidate, discovery_learn_remote_peer_reflexive_candidate
    <2> QED
      BY <2>1, AddRemoteGood
  <1> QED
    BY <1>1, <1>2

LEMMA AddAllGood ==
  ASSUME NEW a, NEW c, NEW R, NEW s \in Good(a, c, R), net \subseteq Message,
         NEW q \in Seq(Addr), NEW t, t = AddAll(s, q)
  PROVE  t \in Good(a, c, R) /\ t.ctrl = s.ctrl
  <1>1. PICK S : S = {u \in Good(a, c, R) : u.ctrl = s.ctrl}
    OBVIOUS
  <1>2. ASSUME NEW u \in S, NEW i \in 1 .. Len(q) PROVE priv_add_remote_candidate(u, q[i]) \in S
    <2>1. u \in Good(a, c, R) /\ u.ctrl = s.ctrl
      BY <1>1
    <2>2. PICK r \in Addr : r = q[i]
      OBVIOUS
    <2>3. priv_add_remote_candidate(u, r) \in Good(a, c, R) /\ priv_add_remote_candidate(u, r).ctrl = u.ctrl
      BY <2>1, SignalledRemoteGood
    <2> QED
      BY <1>1, <2>1, <2>2, <2>3
  <1>3. t \in S
    BY <1>1, <1>2, AddAllLoop
  <1> QED
    BY <1>1, <1>3

-----------------------------------------------------------------------------
(* Triggered checks, and those that came early.                            *)

(* The timer and the stored checks concern none of it.                     *)
LEMMA AsideGood ==
  ASSUME NEW a, NEW c, NEW R, NEW s \in Good(a, c, R), net \subseteq Message, NEW t \in State,
         Kept(s, t), t.list = s.list, t.out = s.out, t.sel = s.sel, t.state = s.state
  PROVE  t \in Good(a, c, R)
  <1>1. ListOK(a, c, t)
    BY DEF ListOK, Good, Kept
  <1>2. \A j \in DOMAIN t.list : t.list[j].tid = 0 \/ \E i \in DOMAIN s.list : Same(t.list[j], s.list[i])
    BY DEF Same
  <1>3. t.state = "READY" => t.sel.prio > 0
    BY DEF Good
  <1> QED
    BY <1>1, <1>2, <1>3, Rewritten

LEMMA ScheduleGood ==
  ASSUME NEW a \in Agent, NEW c \in BOOLEAN, NEW R, NEW s \in Good(a, c, R),
         net \subseteq Message, IsFiniteSet(net),
         NEW sock, NEW r \in ToSet(s.remote), NEW use \in BOOLEAN,
         NEW t, t = priv_schedule_triggered_check(a, s, sock, r, use)
  PROVE  t \in Good(a, c, R) /\ Kept(s, t)
  <1>1. s.list \in Seq(Pair) /\ s.local \in Seq(Addr)
    BY DEF Good, State
  <1>2. PICK n \in Nat : n = Len(s.list) /\ DOMAIN s.list = 1 .. n
    BY <1>1, LenProperties
  <1>3. PICK k \in Nat : k = Len(s.local) /\ DOMAIN s.local = 1 .. k
    BY <1>1, LenProperties
  <1>4. PICK T : T = {i \in 1 .. n : s.list[i].remote = r /\ Sock[s.list[i].local] = sock}
    OBVIOUS
  <1>5. PICK L : L = {i \in 1 .. k : Sock[s.local[i]] = sock}
    OBVIOUS
  <1>6. PICK i : i = IF T # {} THEN Min(T) ELSE 0
    OBVIOUS
  <1>7. PICK l : l = IF L # {} THEN Min(L) ELSE 0
    OBVIOUS
  <1>8. i \in 0 .. n /\ l \in 0 .. k
    <2>1. T \in SUBSET Nat /\ T \subseteq 1 .. n /\ L \in SUBSET Nat /\ L \subseteq 1 .. k
      BY <1>4, <1>5
    <2> QED
      BY <1>6, <1>7, <2>1, FirstPairIs
  <1>9. PICK u : u = priv_update_check_list_state_for_ready(s)
    OBVIOUS
  <1>10. t = IF i = 0
               THEN IF l = 0 THEN s ELSE priv_add_new_check_pair(s, s.local[l], r, "WAITING", use)
             ELSE IF s.list[i].state \in {"WAITING", "FROZEN"}
               THEN priv_conn_check_initiate(a, s, i)
             ELSE IF Valid(s.list[i])
               THEN IF u.ctrl THEN priv_conn_check_initiate(a, u, i) ELSE u
             ELSE s
    BY <1>2, <1>3, <1>4, <1>5, <1>6, <1>7, <1>9
       DEF priv_schedule_triggered_check, FirstPair, SelectInSeq
  <1>11. CASE t = s
    BY <1>11 DEF Kept
  <1>12. CASE l # 0 /\ t = priv_add_new_check_pair(s, s.local[l], r, "WAITING", use)
    <2>1. PICK x : x = s.local[l]
      OBVIOUS
    <2>2. x \in ToSet(s.local)
      BY <1>3, <1>8, <1>12, <2>1 DEF ToSet
    <2> QED
      BY <1>12, <2>1, <2>2, AddPairGood
  <1>13. CASE i # 0 /\ t = priv_conn_check_initiate(a, s, i)
    <2>1. i \in DOMAIN s.list
      BY <1>2, <1>8, <1>13
    <2> QED
      BY <1>13, <2>1, InitiateGood DEF Unchanging
  <1>14. CASE i # 0 /\ (t = u \/ t = priv_conn_check_initiate(a, u, i))
    <2>1. u \in Good(a, c, R) /\ Unchanging(s, u)
      BY <1>9, UpdateForReadyGood
    <2>2. i \in DOMAIN u.list
      BY <1>2, <1>8, <1>14, <2>1 DEF Unchanging
    <2>3. CASE t = u
      BY <2>1, <2>3 DEF Unchanging
    <2>4. CASE t = priv_conn_check_initiate(a, u, i)
      <3>1. t \in Good(a, c, R) /\ Unchanging(u, t)
        BY <2>1, <2>2, <2>4, InitiateGood
      <3> QED
        BY <2>1, <3>1 DEF Unchanging, Kept
    <2> QED
      BY <1>14, <2>3, <2>4
  <1> QED
    BY <1>10, <1>11, <1>12, <1>13, <1>14

LEMMA UpdateWithGood ==
  ASSUME NEW a \in Agent, NEW c \in BOOLEAN, NEW R, NEW s \in Good(a, c, R),
         net \subseteq Message, IsFiniteSet(net),
         NEW e \in EarlyCheck, NEW p, p.remote \in ToSet(s.remote),
         NEW t, t = UpdateWith(a, s, e, p)
  PROVE  t \in Good(a, c, R) /\ Kept(s, t)
  <1>1. e.use \in BOOLEAN
    BY DEF EarlyCheck
  <1>2. PICK u : u = IF e.use THEN priv_mark_pair_nominated(s, p.remote) ELSE s
    OBVIOUS
  <1>3. u \in Good(a, c, R) /\ Kept(s, u)
    <2>1. CASE e.use
      BY <1>2, <2>1, MarkGood DEF Unchanging
    <2>2. CASE ~e.use
      BY <1>2, <2>2 DEF Kept
    <2> QED
      BY <2>1, <2>2
  <1>4. p.remote \in ToSet(u.remote)
    BY <1>3 DEF Kept
  <1>5. PICK v : v = priv_schedule_triggered_check(a, u, e.sock, p.remote, e.use)
    OBVIOUS
  <1>6. v \in Good(a, c, R) /\ Kept(u, v)
    BY <1>1, <1>3, <1>4, <1>5, ScheduleGood
  <1>7. t = s \/ t = v
    BY <1>2, <1>5 DEF UpdateWith
  <1> QED
    BY <1>3, <1>6, <1>7 DEF Kept

LEMMA PreprocessGood ==
  ASSUME NEW a \in Agent, NEW c \in BOOLEAN, NEW R, NEW s \in Good(a, c, R),
         net \subseteq Message, IsFiniteSet(net), NEW p, p.remote \in ToSet(s.remote),
         NEW t, t = priv_preprocess_conn_check_pending_data(a, s, p)
  PROVE  t \in Good(a, c, R) /\ t.ctrl = s.ctrl
  <1>1. PICK S : S = {u \in Good(a, c, R) : Kept(s, u)}
    OBVIOUS
  <1>2. s \in S /\ s.early \in Seq(EarlyCheck)
    BY <1>1 DEF Good, State, Kept
  <1>3. ASSUME NEW u \in S, NEW i \in 1 .. Len(s.early) PROVE UpdateWith(a, u, s.early[i], p) \in S
    <2>1. u \in Good(a, c, R) /\ Kept(s, u)
      BY <1>1
    <2>2. PICK e \in EarlyCheck : e = s.early[i]
      BY <1>2
    <2>3. p.remote \in ToSet(u.remote)
      BY <2>1 DEF Kept
    <2>4. UpdateWith(a, u, e, p) \in Good(a, c, R) /\ Kept(u, UpdateWith(a, u, e, p))
      BY <2>1, <2>3, UpdateWithGood
    <2> QED
      BY <1>1, <2>1, <2>2, <2>4 DEF Kept
  <1>4. t \in S
    BY <1>2, <1>3, PreprocessLoop
  <1> QED
    BY <1>1, <1>4 DEF Kept

LEMMA LearnFromGood ==
  ASSUME NEW a \in Agent, NEW c \in BOOLEAN, NEW R, NEW s \in Good(a, c, R),
         net \subseteq Message, IsFiniteSet(net), NEW e \in EarlyCheck,
         NEW t, t = LearnFrom(a, s, e)
  PROVE  t \in Good(a, c, R) /\ t.ctrl = s.ctrl
  <1>1. e.use \in BOOLEAN /\ e.from \in Addr
    BY DEF EarlyCheck
  <1>2. PICK u : u = conn_check_add_for_candidate(
                       discovery_learn_remote_peer_reflexive_candidate(s, e.from), e.from)
    OBVIOUS
  <1>3. u \in Good(a, c, R) /\ u.ctrl = s.ctrl /\ e.from \in ToSet(u.remote)
    BY <1>1, <1>2, AddRemoteGood
  <1>4. t = priv_schedule_triggered_check(a, u, e.sock, e.from, e.use)
    BY <1>2 DEF LearnFrom
  <1>5. t \in Good(a, c, R) /\ Kept(u, t)
    BY <1>1, <1>3, <1>4, ScheduleGood
  <1> QED
    BY <1>3, <1>5 DEF Kept

LEMMA RemoteCandidatesSetGood ==
  ASSUME NEW a \in Agent, NEW c \in BOOLEAN, NEW R, NEW s \in Good(a, c, R),
         net \subseteq Message, IsFiniteSet(net),
         NEW t, t = conn_check_remote_candidates_set(a, s)
  PROVE  t \in Good(a, c, R) /\ t.ctrl = s.ctrl
  <1>1. CASE s.list = <<>>
    BY <1>1 DEF conn_check_remote_candidates_set
  <1>2. CASE s.list # <<>>
    <2>1. s.list \in Seq(Pair) /\ 1 \in DOMAIN s.list
      <3>1. s.list \in Seq(Pair)
        BY DEF Good, State
      <3> QED
        BY <1>2, <3>1, LenProperties, EmptySeq
    <2>2. PICK p : p = s.list[1]
      OBVIOUS
    <2>3. p.remote \in ToSet(s.remote)
      BY <2>1, <2>2 DEF Good, PairOK
    <2>4. PICK u : u = priv_preprocess_conn_check_pending_data(a, s, p)
      OBVIOUS
    <2>5. u \in Good(a, c, R) /\ u.ctrl = s.ctrl
      BY <2>3, <2>4, PreprocessGood
    <2>6. PICK S : S = {v \in Good(a, c, R) : v.ctrl = s.ctrl}
      OBVIOUS
    <2>7. u \in S /\ u.early \in Seq(EarlyCheck)
      BY <2>5, <2>6 DEF Good, State
    <2>8. ASSUME NEW v \in S, NEW i \in 1 .. Len(u.early) PROVE LearnFrom(a, v, u.early[i]) \in S
      <3>1. v \in Good(a, c, R) /\ v.ctrl = s.ctrl
        BY <2>6
      <3>2. PICK e \in EarlyCheck : e = u.early[i]
        BY <2>7
      <3>3. LearnFrom(a, v, e) \in Good(a, c, R) /\ LearnFrom(a, v, e).ctrl = v.ctrl
        BY <3>1, LearnFromGood
      <3> QED
        BY <2>6, <3>1, <3>2, <3>3
    <2>9. PICK v \in S : t = Forget(v)
      BY <1>2, <2>2, <2>4, <2>7, <2>8, LearnLoop
    <2>10. v \in Good(a, c, R) /\ v.ctrl = s.ctrl
      BY <2>6
    <2>11. /\ t \in State /\ Kept(v, t) /\ t.list = v.list /\ t.out = v.out /\ t.sel = v.sel
           /\ t.state = v.state
      <3>1. <<>> \in Seq(EarlyCheck) /\ v \in State
        BY <2>10 DEF Good
      <3> QED
        BY <2>9, <3>1 DEF State, Kept, Forget
    <2>12. t \in Good(a, c, R)
      BY <2>10, <2>11, AsideGood
    <2> QED
      BY <2>10, <2>11, <2>12 DEF Kept
  <1> QED
    BY <1>1, <1>2

-----------------------------------------------------------------------------
(* The timer.                                                              *)

(* Requests sent once more.                                                *)
Resent(a, s, again) == [s EXCEPT !.out = s.out \cup UNION {Request(a, s.list[i]) : i \in again}]

LEMMA ResendGood ==
  ASSUME NEW a \in Agent, NEW c \in BOOLEAN, NEW R, NEW s \in Good(a, c, R),
         net \subseteq Message, NEW again \in SUBSET (DOMAIN s.list),
         \A i \in again : s.list[i].tid # 0,
         NEW t, t = Resent(a, s, again)
  PROVE  t \in Good(a, c, R) /\ Kept(s, t) /\ t.list = s.list
  <1>1. s \in State /\ s.list \in Seq(Pair) /\ s.out \subseteq Message
    BY DEF Good, State
  <1>2. PICK f : f = [i \in again |-> Request(a, s.list[i])]
    OBVIOUS
  <1>3. PICK F : F = {f[i] : i \in again}
    OBVIOUS
  <1>4. PICK X : X = UNION F
    OBVIOUS
  <1>5. X = UNION {Request(a, s.list[i]) : i \in again}
    BY <1>2, <1>3, <1>4
  <1>6. \A i \in again : f[i] = Request(a, s.list[i])
    BY <1>2
  <1>7. ASSUME NEW i \in again
        PROVE  /\ f[i] \subseteq Message /\ IsFiniteSet(f[i])
               /\ \A m \in f[i] : /\ m.kind = "request" /\ m.to = Peer[a]
                                  /\ m.tid = s.list[i].tid /\ m.ctrl = s.list[i].asCtrl
    <2>1. PICK p \in Pair : p = s.list[i]
      BY <1>1
    <2>2. /\ Request(a, p) \subseteq Message /\ IsFiniteSet(Request(a, p))
          /\ \A m \in Request(a, p) : /\ m.kind = "request" /\ m.to = Peer[a]
                                      /\ m.tid = p.tid /\ m.ctrl = p.asCtrl
      BY <2>1, RequestIs
    <2> QED
      BY <1>6, <2>1, <2>2
  <1>8. IsFiniteSet(X)
    <2>1. PICK n \in Nat : DOMAIN s.list = 1 .. n
      BY <1>1, LenProperties
    <2>2. IsFiniteSet(1 .. n)
      BY FS_Interval
    <2>3. IsFiniteSet(again)
      BY <2>1, <2>2, FS_Subset
    <2>4. IsFiniteSet(F)
      BY <1>3, <2>3, ImageIsFinite
    <2>5. \A T \in F : IsFiniteSet(T)
      BY <1>3, <1>7
    <2> QED
      BY <1>4, <2>4, <2>5, FS_UNION
  <1>9. \A m \in X : \E i \in again : /\ m.kind = "request" /\ m.to = Peer[a]
                                      /\ m.tid = s.list[i].tid /\ m.ctrl = s.list[i].asCtrl
    BY <1>3, <1>4, <1>7
  <1>10. X \subseteq Message
    BY <1>3, <1>4, <1>7
  <1>11. PICK o : o = s.out \cup X
    OBVIOUS
  <1>12. t = [s EXCEPT !.out = o]
    BY <1>5, <1>11 DEF Resent
  <1>13. o \in SUBSET Message
    BY <1>1, <1>10, <1>11
  <1>14. /\ t \in State /\ t.out = o /\ t.list = s.list /\ t.sel = s.sel /\ t.state = s.state
         /\ Kept(s, t)
    BY <1>1, <1>12, <1>13 DEF State, Kept
  <1>15. Apart(a, c, t)
    <2>1. SUFFICES ASSUME NEW j \in DOMAIN s.list, s.list[j].ctrl # c
                   PROVE  /\ \A m \in net \cup o : Conflicting(a, c, m) => m.tid # s.list[j].tid
                          /\ \A k \in DOMAIN s.list :
                               s.list[k].asCtrl = c /\ s.list[k].tid # 0 => s.list[k].tid # s.list[j].tid
      BY <1>14 DEF Apart
    <2>2. /\ \A m \in net \cup s.out : Conflicting(a, c, m) => m.tid # s.list[j].tid
          /\ \A k \in DOMAIN s.list :
               s.list[k].asCtrl = c /\ s.list[k].tid # 0 => s.list[k].tid # s.list[j].tid
      BY <2>1 DEF Good, Apart
    <2>3. ASSUME NEW m \in X, Conflicting(a, c, m) PROVE m.tid # s.list[j].tid
      <3>1. PICK i \in again : /\ m.kind = "request" /\ m.to = Peer[a]
                               /\ m.tid = s.list[i].tid /\ m.ctrl = s.list[i].asCtrl
        BY <1>9
      <3>2. s.list[i].asCtrl = c
        BY <2>3, <3>1 DEF Conflicting
      <3> QED
        BY <2>2, <3>1, <3>2
    <2> QED
      BY <1>11, <2>2, <2>3
  <1>16. OutOK(a, c, R, t)
    <2>1. /\ IsFiniteSet(s.out)
          /\ \A m \in s.out : /\ m.to = Peer[a]
                              /\ IF m.kind = "request" THEN s.ctrl = c => m.ctrl = c ELSE m \in R
      BY DEF Good, OutOK
    <2>2. IsFiniteSet(s.out \cup X)
      BY <1>8, <2>1, FS_Union
    <2>3. ASSUME NEW m \in X
          PROVE  m.to = Peer[a] /\ m.kind = "request" /\ (s.ctrl = c => m.ctrl = c)
      <3>1. PICK i \in again : /\ m.kind = "request" /\ m.to = Peer[a]
                               /\ m.tid = s.list[i].tid /\ m.ctrl = s.list[i].asCtrl
        BY <1>9
      <3>2. s.ctrl = c => s.list[i].asCtrl = c
        BY DEF Good, PairOK
      <3> QED
        BY <3>1, <3>2
    <2> QED
      BY <1>11, <1>14, <2>1, <2>2, <2>3 DEF OutOK, Kept
  <1>17. (~Lower(a) => t.ctrl = c) /\ (t.state = "READY" => t.sel.prio > 0)
    BY <1>14 DEF Good, Kept
  <1>18. t \in Good(a, c, R)
    BY <1>14, <1>15, <1>16, <1>17 DEF Good, Kept
  <1> QED
    BY <1>14, <1>18

LEMMA RetransmitGood ==
  ASSUME NEW a \in Agent, NEW c \in BOOLEAN, NEW R, NEW s \in Good(a, c, R),
         net \subseteq Message, NEW due \in SUBSET (DOMAIN s.list),
         \A i \in due : s.list[i].state = "IN_PROGRESS",
         NEW t, t = Retransmit(a, s, due)
  PROVE  t \in Good(a, c, R) /\ Kept(s, t)
  <1>1. s \in State /\ s.list \in Seq(Pair)
    BY DEF Good, State
  <1>2. PICK again : again = {i \in due : s.list[i].sent < MaxTrans}
    OBVIOUS
  <1>3. again \in SUBSET (DOMAIN s.list) /\ \A i \in again : s.list[i].tid # 0
    BY <1>2 DEF Good, PairOK
  <1>4. PICK o : o = s.out \cup UNION {Request(a, s.list[i]) : i \in again}
    OBVIOUS
  <1>5. PICK u : u = [s EXCEPT !.out = o]
    OBVIOUS
  <1>6. u \in Good(a, c, R) /\ Kept(s, u) /\ u.list = s.list
    <2>1. u = Resent(a, s, again)
      BY <1>4, <1>5 DEF Resent
    <2> QED
      BY <1>3, <2>1, ResendGood
  <1>7. PICK h : h = [i \in DOMAIN s.list |->
          IF i \in again THEN [s.list[i] EXCEPT !.sent = @ + 1]
          ELSE IF i \in due THEN [s.list[i] EXCEPT !.state = "FAILED", !.tid = 0]
          ELSE s.list[i]]
    OBVIOUS
  <1>8. t = [u EXCEPT !.list = Listed(h)]
    <2>1. t = [s EXCEPT !.list = Listed(h), !.out = o]
      BY <1>1, <1>2, <1>4, <1>7 DEF Retransmit, State
    <2> QED
      BY <1>1, <1>5, <2>1 DEF State
  <1>9. DOMAIN h = 1 .. Len(s.list) /\ DOMAIN s.list = 1 .. Len(s.list) /\ Len(s.list) \in Nat
    BY <1>1, <1>7, LenProperties
  <1>10. ASSUME NEW i \in DOMAIN s.list PROVE Reworked(h[i], s.list[i])
    <2>1. PICK p \in Pair : p = s.list[i]
      BY <1>1
    <2>2. Reworked(p, p)
      BY <2>1 DEF Reworked, Good, PairOK
    <2>3. CASE i \in again
      <3>1. p.sent \in 0 .. MaxTrans /\ p.sent < MaxTrans /\ MaxTrans \in Nat /\ p.state = "IN_PROGRESS"
        BY <1>2, <2>1, <2>3, LimitsAssumption DEF Pair
      <3>2. PICK n : n = p.sent + 1
        OBVIOUS
      <3>3. n \in 0 .. MaxTrans
        BY <3>1, <3>2
      <3>4. PICK q : q = [p EXCEPT !.sent = n]
        OBVIOUS
      <3>5. /\ q \in Pair /\ q.state = p.state /\ q.tid = p.tid /\ q.ctrl = p.ctrl
            /\ q.asCtrl = p.asCtrl /\ q.local = p.local /\ q.remote = p.remote
        BY <3>3, <3>4 DEF Pair
      <3>6. h[i] = q
        BY <1>7, <2>1, <2>3, <3>2, <3>4
      <3> QED
        BY <2>1, <2>2, <3>1, <3>5, <3>6 DEF Reworked, Valid
    <2>4. CASE i \notin again /\ i \in due
      <3>1. PICK q : q = [p EXCEPT !.state = "FAILED", !.tid = 0]
        OBVIOUS
      <3>2. /\ q \in Pair /\ q.state = "FAILED" /\ q.tid = 0 /\ q.ctrl = p.ctrl
            /\ q.asCtrl = p.asCtrl /\ q.local = p.local /\ q.remote = p.remote
        BY <3>1 DEF Pair, CheckState
      <3>3. h[i] = q
        BY <1>7, <2>1, <2>4, <3>1
      <3> QED
        BY <2>1, <3>2, <3>3 DEF Reworked, Valid
    <2>5. CASE i \notin again /\ i \notin due
      <3>1. h[i] = p
        BY <1>7, <2>1, <2>5
      <3> QED
        BY <2>1, <2>2, <3>1
    <2> QED
      BY <2>3, <2>4, <2>5
  <1>11. h \in Seq(Pair)
    BY <1>7, <1>9, <1>10, FunctionIsSeq DEF Reworked
  <1>12. t = [u EXCEPT !.list = h]
    BY <1>8, <1>11, ListedIsTheList
  <1>13. t \in Good(a, c, R) /\ Kept(u, t)
    BY <1>6, <1>9, <1>10, <1>11, <1>12, ListReworked
  <1> QED
    BY <1>6, <1>13 DEF Kept

(* A controlling agent nominates with every check it sends: to nominate    *)
(* before is the same.                                                     *)
LEMMA NominateFirstGood ==
  ASSUME NEW a \in Agent, NEW c \in BOOLEAN, NEW R, NEW s \in Good(a, c, R),
         net \subseteq Message, IsFiniteSet(net), NEW t, t = NominateFirst(a, s)
  PROVE  t \in Good(a, c, R) /\ Kept(s, t)
  <1>1. s \in State /\ s.list \in Seq(Pair) /\ s.ctrl \in BOOLEAN
    BY DEF Good, State
  <1>2. CASE ~(WaitsForNomination(s) /\ s.ctrl)
    <2>1. t = s
      BY <1>2 DEF NominateFirst
    <2> QED
      BY <2>1 DEF Kept
  <1>3. CASE WaitsForNomination(s) /\ s.ctrl
    <2>1. PICK n \in Nat : n = Len(s.list) /\ DOMAIN s.list = 1 .. n
      BY <1>1, LenProperties
    <2>2. PICK T : T = {j \in 1 .. n : Valid(s.list[j])}
      OBVIOUS
    <2>3. PICK i : i = IF T # {} THEN Min(T) ELSE 0
      OBVIOUS
    <2>4. T # {}
      BY <1>3, <2>1, <2>2 DEF WaitsForNomination, ToSet
    <2>5. i \in DOMAIN s.list
      <3>1. T \in SUBSET Nat /\ T \subseteq 1 .. n
        BY <2>2
      <3>2. i \in 0 .. n /\ (i = 0 => T = {})
        BY <2>3, <3>1, FirstPairIs
      <3> QED
        BY <2>1, <2>4, <3>2
    <2>6. PICK u : u = [s EXCEPT !.list[i].nominated = TRUE]
      OBVIOUS
    <2>7. t = priv_conn_check_initiate(a, u, i)
      BY <1>3, <2>1, <2>2, <2>3, <2>6 DEF NominateFirst, FirstPair, SelectInSeq
    <2>8. PICK p \in Pair : p = s.list[i]
      BY <1>1, <2>5
    <2>9. PICK q : q = [p EXCEPT !.state = "IN_PROGRESS"]
      OBVIOUS
    <2>10. PICK r : r = [p EXCEPT !.nominated = TRUE, !.state = "IN_PROGRESS"]
      OBVIOUS
    <2>11. PICK v : v = [s EXCEPT !.list = [s.list EXCEPT ![i] = q]]
      OBVIOUS
    <2>12. PICK w : w = [s EXCEPT !.list = [s.list EXCEPT ![i] = r]]
      OBVIOUS
    <2>13. [s EXCEPT !.list[i].state = "IN_PROGRESS"] = v
      BY <1>1, <2>5, <2>8, <2>9, <2>11 DEF State
    <2>14. [u EXCEPT !.list[i].state = "IN_PROGRESS"] = w
      <3>1. PICK x : x = [p EXCEPT !.nominated = TRUE]
        OBVIOUS
      <3>2. PICK l : l = [s.list EXCEPT ![i] = x]
        OBVIOUS
      <3>3. u = [s EXCEPT !.list = l]
        BY <1>1, <2>5, <2>6, <2>8, <3>1, <3>2 DEF State
      <3>4. u.list = l /\ l[i] = x
        BY <1>1, <2>5, <3>2, <3>3 DEF State
      <3>5. [x EXCEPT !.state = "IN_PROGRESS"] = r
        BY <2>10, <3>1 DEF Pair
      <3>6. PICK y : y = [l EXCEPT ![i] = r]
        OBVIOUS
      <3>7. [u EXCEPT !.list[i].state = "IN_PROGRESS"] = [u EXCEPT !.list = y]
        BY <1>1, <3>3, <3>4, <3>5, <3>6 DEF State
      <3>8. y = [s.list EXCEPT ![i] = r]
        BY <1>1, <2>5, <3>2, <3>6
      <3> QED
        BY <1>1, <2>12, <3>3, <3>7, <3>8 DEF State
    <2>15. /\ v.list = [s.list EXCEPT ![i] = q] /\ w.list = [s.list EXCEPT ![i] = r]
           /\ v.out = s.out /\ w.out = s.out /\ v.ctrl = s.ctrl /\ w.ctrl = s.ctrl
      BY <1>1, <2>11, <2>12 DEF State
    <2>16. DOMAIN v.list = DOMAIN s.list /\ DOMAIN w.list = DOMAIN s.list /\ v.list[i] = q /\ w.list[i] = r
      BY <2>5, <2>15
    <2>17. q.tid = p.tid /\ r.tid = p.tid
      BY <2>9, <2>10 DEF Pair
    <2>18. \A j \in DOMAIN s.list : v.list[j].tid = w.list[j].tid
      BY <2>5, <2>15, <2>17
    <2>19. Fresh(a, v) = Fresh(a, w)
      <3>1. {v.list[j].tid : j \in DOMAIN v.list} = {w.list[j].tid : j \in DOMAIN w.list}
        BY <2>16, <2>18
      <3> QED
        BY <2>15, <3>1 DEF Fresh
    <2>20. PICK f : f = Fresh(a, v)
      OBVIOUS
    <2>21. PICK x : x = [q EXCEPT !.nominated = @ \/ s.ctrl, !.tid = f, !.sent = 1, !.asCtrl = s.ctrl]
      OBVIOUS
    <2>22. x = [r EXCEPT !.nominated = @ \/ s.ctrl, !.tid = f, !.sent = 1, !.asCtrl = s.ctrl]
      <3>1. (q.nominated \/ s.ctrl) = TRUE /\ (r.nominated \/ s.ctrl) = TRUE
        BY <1>3
      <3>2. x = [q EXCEPT !.nominated = TRUE, !.tid = f, !.sent = 1, !.asCtrl = s.ctrl]
        BY <2>21, <3>1
      <3>3. PICK z : z = [r EXCEPT !.nominated = TRUE, !.tid = f, !.sent = 1, !.asCtrl = s.ctrl]
        OBVIOUS
      <3>4. z = x
        BY <2>9, <2>10, <3>2, <3>3 DEF Pair
      <3> QED
        BY <3>1, <3>3, <3>4
    <2>23. t = [w EXCEPT !.list[i] = x, !.out = @ \cup Request(a, x)]
      BY <2>7, <2>14, <2>15, <2>16, <2>19, <2>20, <2>22 DEF priv_conn_check_initiate, conn_check_send
    <2>24. priv_conn_check_initiate(a, s, i) = [v EXCEPT !.list[i] = x, !.out = @ \cup Request(a, x)]
      BY <2>13, <2>15, <2>16, <2>20, <2>21 DEF priv_conn_check_initiate, conn_check_send
    <2>25. t = priv_conn_check_initiate(a, s, i)
      <3>1. PICK g : g = [s.list EXCEPT ![i] = x]
        OBVIOUS
      <3>2. [v.list EXCEPT ![i] = x] = g /\ [w.list EXCEPT ![i] = x] = g
        BY <1>1, <2>5, <2>15, <3>1
      <3>3. PICK o : o = s.out \cup Request(a, x)
        OBVIOUS
      <3>4. t = [w EXCEPT !.list = g, !.out = o]
        BY <2>15, <2>23, <3>2, <3>3, <1>1, <2>12 DEF State
      <3>5. priv_conn_check_initiate(a, s, i) = [v EXCEPT !.list = g, !.out = o]
        BY <2>15, <2>24, <3>2, <3>3, <1>1, <2>11 DEF State
      <3> QED
        BY <1>1, <2>11, <2>12, <3>4, <3>5 DEF State
    <2> QED
      BY <2>5, <2>25, InitiateGood DEF Unchanging
  <1> QED
    BY <1>2, <1>3

LEMMA TickGood ==
  ASSUME NEW a \in Agent, NEW c \in BOOLEAN, NEW R, NEW s \in Good(a, c, R),
         net \subseteq Message, IsFiniteSet(net), NEW due \in SUBSET InProgress(s),
         NEW t, t = priv_conn_check_tick_unlocked(a, s, due)
  PROVE  t \in Good(a, c, R) /\ Kept(s, t)
  <1>1. s.list \in Seq(Pair)
    BY DEF Good, State
  <1>2. PICK n \in Nat : n = Len(s.list) /\ DOMAIN s.list = 1 .. n
    BY <1>1, LenProperties
  <1>3. PICK T : T = {j \in 1 .. n : s.list[j].state = "WAITING"}
    OBVIOUS
  <1>4. PICK i : i = IF T # {} THEN Min(T) ELSE 0
    OBVIOUS
  <1>5. i \in 0 .. n /\ (i # 0 => i \in T)
    <2>1. T \in SUBSET Nat /\ T \subseteq 1 .. n
      BY <1>3
    <2> QED
      BY <1>4, <2>1, FirstPairIs
  <1>6. PICK u : u = IF i # 0 THEN priv_conn_check_initiate(a, s, i) ELSE priv_conn_check_unfreeze_next(s)
    OBVIOUS
  <1>7. PICK v : v = Retransmit(a, u, due)
    OBVIOUS
  <1>8. PICK w : w = priv_update_check_list_state_for_ready(priv_update_check_list_failed_components(v))
    OBVIOUS
  <1>9. t = NominateFirst(a, v) \/ t = [w EXCEPT !.timer = FALSE]
    BY <1>2, <1>3, <1>4, <1>6, <1>7, <1>8 DEF priv_conn_check_tick_unlocked, FirstPair, SelectInSeq
  <1>10. \A j \in due : j \in DOMAIN s.list /\ s.list[j].state = "IN_PROGRESS"
    BY DEF InProgress
  <1>11. u \in Good(a, c, R) /\ Unchanging(s, u) /\ \A j \in due : u.list[j] = s.list[j]
    <2>1. CASE i # 0
      <3>1. i \in DOMAIN s.list /\ s.list[i].state = "WAITING" /\ u = priv_conn_check_initiate(a, s, i)
        BY <1>2, <1>3, <1>5, <1>6, <2>1
      <3>2. /\ u \in Good(a, c, R) /\ Unchanging(s, u)
            /\ \A j \in DOMAIN s.list : j # i => u.list[j] = s.list[j]
        BY <3>1, InitiateGood
      <3> QED
        BY <1>10, <3>1, <3>2
    <2>2. CASE i = 0
      <3>1. u = priv_conn_check_unfreeze_next(s)
        BY <1>6, <2>2
      <3>2. /\ u \in Good(a, c, R) /\ Unchanging(s, u)
            /\ \A j \in DOMAIN s.list : s.list[j].state = "FROZEN" \/ u.list[j] = s.list[j]
        BY <3>1, UnfreezeNextGood
      <3> QED
        BY <1>10, <3>2
    <2> QED
      BY <2>1, <2>2
  <1>12. due \in SUBSET (DOMAIN u.list) /\ \A j \in due : u.list[j].state = "IN_PROGRESS"
    BY <1>10, <1>11 DEF Unchanging
  <1>13. v \in Good(a, c, R) /\ Kept(u, v)
    BY <1>7, <1>11, <1>12, RetransmitGood
  <1>14. Kept(s, v)
    BY <1>11, <1>13 DEF Unchanging, Kept
  <1>15. CASE t = NominateFirst(a, v)
    <2>1. t \in Good(a, c, R) /\ Kept(v, t)
      BY <1>13, <1>15, NominateFirstGood
    <2> QED
      BY <1>14, <2>1 DEF Kept
  <1>16. CASE t = [w EXCEPT !.timer = FALSE]
    <2>1. PICK x : x = priv_update_check_list_failed_components(v)
      OBVIOUS
    <2>2. x \in Good(a, c, R) /\ Unchanging(v, x)
      BY <1>13, <2>1, FailedComponentsGood
    <2>3. w \in Good(a, c, R) /\ Unchanging(x, w)
      BY <1>8, <2>1, <2>2, UpdateForReadyGood
    <2>4. /\ t \in State /\ Kept(w, t) /\ t.list = w.list /\ t.out = w.out /\ t.sel = w.sel
          /\ t.state = w.state
      <3>1. w \in State
        BY <2>3 DEF Good
      <3> QED
        BY <1>16, <3>1 DEF State, Kept
    <2>5. t \in Good(a, c, R)
      BY <2>3, <2>4, AsideGood
    <2> QED
      BY <1>14, <2>2, <2>3, <2>4, <2>5 DEF Unchanging, Kept
  <1> QED
    BY <1>9, <1>15, <1>16

LEMMA ScheduleNextGood ==
  ASSUME NEW a \in Agent, NEW c \in BOOLEAN, NEW R, NEW s \in Good(a, c, R),
         net \subseteq Message, IsFiniteSet(net), NEW t, t = conn_check_schedule_next(a, s)
  PROVE  t \in Good(a, c, R) /\ Kept(s, t)
  <1>1. PICK u : u = priv_conn_check_unfreeze_next(s)
    OBVIOUS
  <1>2. u \in Good(a, c, R) /\ Unchanging(s, u)
    BY <1>1, UnfreezeNextGood
  <1>3. PICK v : v = [u EXCEPT !.timer = TRUE]
    OBVIOUS
  <1>4. /\ v \in State /\ Kept(u, v) /\ v.list = u.list /\ v.out = u.out /\ v.sel = u.sel
        /\ v.state = u.state
    <2>1. u \in State
      BY <1>2 DEF Good
    <2> QED
      BY <1>3, <2>1 DEF State, Kept
  <1>5. v \in Good(a, c, R)
    BY <1>2, <1>4, AsideGood
  <1>6. t = priv_conn_check_tick_unlocked(a, v, {})
    BY <1>1, <1>3 DEF conn_check_schedule_next
  <1>7. t \in Good(a, c, R) /\ Kept(v, t)
    BY <1>5, <1>6, TickGood
  <1> QED
    BY <1>2, <1>4, <1>7 DEF Unchanging, Kept

-----------------------------------------------------------------------------
(* Roles.                                                                  *)

(* What the change of the role leaves of a pair.                           *)
Revalued(q, p) ==
  /\ q \in Pair /\ q.state = p.state /\ q.tid = p.tid /\ q.sent = p.sent /\ q.nominated = p.nominated
  /\ q.ctrl = p.ctrl /\ q.asCtrl = p.asCtrl /\ q.local = p.local /\ q.remote = p.remote

LEMMA RoleConflictIs ==
  ASSUME NEW s \in State, NEW control \in BOOLEAN, control # s.ctrl,
         NEW t, t = priv_check_for_role_conflict(s, control)
  PROVE  /\ t \in State /\ t.ctrl = control /\ t.local = s.local /\ t.remote = s.remote
         /\ t.out = s.out /\ t.sel = s.sel /\ t.state = s.state /\ DOMAIN t.list = DOMAIN s.list
         /\ \A i \in DOMAIN s.list : Revalued(t.list[i], s.list[i])
  <1>1. s.list \in Seq(Pair)
    BY DEF State
  <1>2. PICK h : h = [i \in DOMAIN s.list |-> [s.list[i] EXCEPT
                  !.prio = agent_candidate_pair_priority(control, s.list[i].local, s.list[i].remote)]]
    OBVIOUS
  <1>3. t = [s EXCEPT !.ctrl = control, !.list = Listed(h)]
    BY <1>2 DEF priv_check_for_role_conflict
  <1>4. DOMAIN h = 1 .. Len(s.list) /\ DOMAIN s.list = 1 .. Len(s.list) /\ Len(s.list) \in Nat
    BY <1>1, <1>2, LenProperties
  <1>5. ASSUME NEW i \in DOMAIN s.list PROVE Revalued(h[i], s.list[i])
    <2>1. PICK p \in Pair : p = s.list[i]
      BY <1>1
    <2>2. PICK prio \in Positive : prio = agent_candidate_pair_priority(control, p.local, p.remote)
      BY PairPriorityIsPositive
    <2>3. PICK q : q = [p EXCEPT !.prio = prio]
      OBVIOUS
    <2>4. Revalued(q, p)
      BY <2>3 DEF Revalued, Pair
    <2>5. h[i] = q
      BY <1>2, <2>1, <2>2, <2>3
    <2> QED
      BY <2>1, <2>4, <2>5
  <1>6. h \in Seq(Pair)
    BY <1>2, <1>4, <1>5, FunctionIsSeq DEF Revalued
  <1>7. t = [s EXCEPT !.ctrl = control, !.list = h]
    BY <1>3, <1>6, ListedIsTheList
  <1>8. /\ t \in State /\ t.ctrl = control /\ t.list = h /\ t.local = s.local /\ t.remote = s.remote
        /\ t.out = s.out /\ t.sel = s.sel /\ t.state = s.state
    BY <1>6, <1>7 DEF State
  <1> QED
    BY <1>4, <1>5, <1>8

(* Only the agent that has to give way changes its role, and only once.    *)
LEMMA TurnedGood ==
  ASSUME NEW a, NEW c \in BOOLEAN, NEW R, NEW s \in Good(a, c, R), Lower(a), s.ctrl = c,
         NEW t \in State, t.ctrl # c, t.local = s.local, t.remote = s.remote,
         t.out = s.out, t.sel = s.sel, t.state = s.state, DOMAIN t.list = DOMAIN s.list,
         \A i \in DOMAIN s.list :
           /\ t.list[i].local = s.list[i].local /\ t.list[i].remote = s.list[i].remote
           /\ t.list[i].ctrl = s.list[i].ctrl
           /\ (t.list[i].tid # 0) = (t.list[i].state = "IN_PROGRESS")
           /\ Valid(t.list[i]) => Valid(s.list[i])
  PROVE  t \in Good(a, c, R)
  <1>1. ASSUME NEW i \in DOMAIN t.list
        PROVE  /\ PairOK(a, c, t.ctrl, ToSet(t.local), ToSet(t.remote), t.sel.prio, t.list[i])
               /\ t.list[i].ctrl = c
    <2>1. PairOK(a, c, s.ctrl, ToSet(s.local), ToSet(s.remote), s.sel.prio, s.list[i])
      BY DEF Good
    <2> QED
      BY <2>1 DEF PairOK
  <1>2. Apart(a, c, t)
    BY <1>1 DEF Apart
  <1>3. OutOK(a, c, R, t)
    BY DEF Good, OutOK
  <1>4. t.state = "READY" => t.sel.prio > 0
    BY DEF Good
  <1> QED
    BY <1>1, <1>2, <1>3, <1>4 DEF Good

LEMMA RoleConflictGood ==
  ASSUME NEW a, NEW c \in BOOLEAN, NEW R, NEW s \in Good(a, c, R), NEW control \in BOOLEAN,
         control # s.ctrl => Lower(a) /\ s.ctrl = c,
         NEW t, t = priv_check_for_role_conflict(s, control)
  PROVE  t \in Good(a, c, R) /\ t.ctrl = control
  <1>1. s \in State
    BY DEF Good
  <1>2. CASE control = s.ctrl
    BY <1>2 DEF priv_check_for_role_conflict
  <1>3. CASE control # s.ctrl
    <2>1. /\ t \in State /\ t.ctrl = control /\ t.local = s.local /\ t.remote = s.remote
          /\ t.out = s.out /\ t.sel = s.sel /\ t.state = s.state /\ DOMAIN t.list = DOMAIN s.list
          /\ \A i \in DOMAIN s.list : Revalued(t.list[i], s.list[i])
      BY <1>1, <1>3, RoleConflictIs
    <2>2. \A i \in DOMAIN s.list : (s.list[i].tid # 0) = (s.list[i].state = "IN_PROGRESS")
      BY DEF Good, PairOK
    <2>3. \A i \in DOMAIN s.list :
           /\ t.list[i].local = s.list[i].local /\ t.list[i].remote = s.list[i].remote
           /\ t.list[i].ctrl = s.list[i].ctrl
           /\ (t.list[i].tid # 0) = (t.list[i].state = "IN_PROGRESS")
           /\ Valid(t.list[i]) => Valid(s.list[i])
      BY <2>1, <2>2 DEF Revalued, Valid
    <2> QED
      BY <1>3, <2>1, <2>3, TurnedGood
  <1> QED
    BY <1>2, <1>3

-----------------------------------------------------------------------------
(* Requests.                                                               *)

LEMMA ReplyIs ==
  ASSUME NEW a \in Agent, NEW m \in Message, m.kind = "request", NEW kind \in {"response", "conflict"},
         NEW X, X = Reply(a, m, kind)
  PROVE  /\ X \subseteq Message /\ IsFiniteSet(X)
         /\ \A n \in X : n.kind = kind /\ n.to = Peer[a] /\ n.tid = m.tid
  <1>1. m.from \in Addr /\ m.tid \in Positive /\ Peer[a] \in Agent
    BY AgentsAssumption DEF Message
  <1>2. CASE <<m.sock, m.from>> \notin DOMAIN Via
    <2>1. X = {}
      BY <1>2 DEF Reply
    <2> QED
      BY <2>1, FS_EmptySet
  <1>3. CASE <<m.sock, m.from>> \in DOMAIN Via
    <2>1. PICK from \in Addr : from = Via[<<m.sock, m.from>>]
      BY <1>3, NetworkAssumption DEF Addr
    <2>2. PICK n : n = [kind |-> kind, to |-> Peer[a], from |-> from, mapped |-> m.from, tid |-> m.tid]
      OBVIOUS
    <2>3. X = {n}
      BY <1>3, <2>1, <2>2 DEF Reply
    <2>4. n \in Message /\ n.kind = kind /\ n.to = Peer[a] /\ n.tid = m.tid
      BY <1>1, <2>2 DEF Message
    <2> QED
      BY <2>3, <2>4, FS_Singleton
  <1> QED
    BY <1>2, <1>3

(* The reply goes out.                                                     *)
Replied(s, X) == [s EXCEPT !.out = @ \cup X]

LEMMA RepliedGood ==
  ASSUME NEW a \in Agent, NEW c, NEW X, NEW s \in Good(a, c, X), X \subseteq Message, IsFiniteSet(X),
         \A n \in X : n.kind \in {"response", "conflict"} /\ n.to = Peer[a],
         NEW t, t = Replied(s, X)
  PROVE  /\ t \in Good(a, c, X) /\ Kept(s, t) /\ t.early = s.early
  <1>1. s \in State /\ s.out \subseteq Message
    BY DEF Good, State
  <1>2. PICK o : o = s.out \cup X
    OBVIOUS
  <1>3. t = [s EXCEPT !.out = o]
    BY <1>1, <1>2 DEF Replied, State
  <1>4. o \in SUBSET Message
    BY <1>1, <1>2
  <1>5. /\ t \in State /\ t.out = o /\ t.list = s.list /\ t.sel = s.sel /\ t.state = s.state
        /\ t.early = s.early /\ Kept(s, t)
    BY <1>1, <1>3, <1>4 DEF State, Kept
  <1>6. \A n \in X : ~Conflicting(a, c, n)
    BY AgentsAssumption DEF Conflicting
  <1>7. Apart(a, c, t)
    BY <1>2, <1>5, <1>6 DEF Good, Apart
  <1>8. OutOK(a, c, X, t)
    <2>1. /\ IsFiniteSet(s.out)
          /\ \A m \in s.out : /\ m.to = Peer[a]
                              /\ IF m.kind = "request" THEN s.ctrl = c => m.ctrl = c ELSE m \in X
      BY DEF Good, OutOK
    <2>2. IsFiniteSet(s.out \cup X)
      BY <2>1, FS_Union
    <2> QED
      BY <1>2, <1>5, <2>1, <2>2 DEF OutOK, Kept
  <1>9. t \in Good(a, c, X)
    BY <1>5, <1>7, <1>8 DEF Good, Kept
  <1> QED
    BY <1>5, <1>9

(* What agent a, who was in the state s, answers to request m.             *)
Answer(a, s, m) ==
  Reply(a, m, IF m.ctrl = s.ctrl /\ ~GivesWay(a, s, m) THEN "conflict" ELSE "response")

LEMMA HandleRequestGood ==
  ASSUME NEW a \in Agent, NEW c \in BOOLEAN, NEW s \in Good(a, c, {}),
         net \subseteq Message, IsFiniteSet(net), NEW m \in Message, m.kind = "request",
         Lower(a) => m.ctrl = c,
         NEW t, t = handle_request(a, s, m)
  PROVE  /\ t \in Good(a, c, Answer(a, s, m))
         /\ t.ctrl = IF GivesWay(a, s, m) THEN ~s.ctrl ELSE s.ctrl
  <1>1. /\ m.from \in Addr /\ m.sock \in Sockets /\ m.ctrl \in BOOLEAN /\ s.ctrl \in BOOLEAN
        /\ Peer[a] \in Agent /\ Peer[a] # a
    BY AgentsAssumption DEF Message, Good, State
  <1>2. PICK kind : kind = IF m.ctrl = s.ctrl /\ ~GivesWay(a, s, m) THEN "conflict" ELSE "response"
    OBVIOUS
  <1>3. PICK X : X = Reply(a, m, kind)
    OBVIOUS
  <1>4. Answer(a, s, m) = X /\ kind \in {"response", "conflict"}
    BY <1>2, <1>3 DEF Answer
  <1>5. /\ X \subseteq Message /\ IsFiniteSet(X)
        /\ \A n \in X : n.kind \in {"response", "conflict"} /\ n.to = Peer[a]
    BY <1>3, <1>4, ReplyIs
  <1>6. s \in Good(a, c, X)
    BY DEF Good, OutOK
  <1>7. PICK control : control = IF GivesWay(a, s, m) THEN ~s.ctrl ELSE s.ctrl
    OBVIOUS
  <1>8. control \in BOOLEAN /\ (control # s.ctrl => Lower(a) /\ s.ctrl = c)
    BY <1>1, <1>7 DEF GivesWay, Lower
  <1>9. PICK r : r = priv_check_for_role_conflict(s, control)
    OBVIOUS
  <1>10. r \in Good(a, c, X) /\ r.ctrl = control
    BY <1>6, <1>8, <1>9, RoleConflictGood
  <1>11. PICK use : use = (m.ctrl \/ r.ctrl)
    OBVIOUS
  <1>12. use \in BOOLEAN
    BY <1>11
  <1>13. PICK u : u = IF r.remote # <<>> /\ m.from \notin ToSet(r.remote)
                        THEN conn_check_add_for_candidate(
                               discovery_learn_remote_peer_reflexive_candidate(r, m.from), m.from)
                        ELSE r
    OBVIOUS
  <1>14. /\ u \in Good(a, c, X) /\ u.ctrl = control
         /\ u.remote # <<>> => m.from \in ToSet(u.remote)
    <2>1. CASE r.remote # <<>> /\ m.from \notin ToSet(r.remote)
      <3>1. u = conn_check_add_for_candidate(discovery_learn_remote_peer_reflexive_candidate(r, m.from), m.from)
        BY <1>13, <2>1
      <3> QED
        BY <1>1, <1>10, <3>1, AddRemoteGood
    <2>2. CASE ~(r.remote # <<>> /\ m.from \notin ToSet(r.remote))
      <3>1. u = r
        BY <1>13, <2>2
      <3> QED
        BY <1>10, <2>2, <3>1
    <2> QED
      BY <2>1, <2>2
  <1>15. PICK v : v = Replied(u, X)
    OBVIOUS
  <1>16. v \in Good(a, c, X) /\ Kept(u, v)
    BY <1>5, <1>14, <1>15, RepliedGood
  <1>17. PICK w : w = priv_schedule_triggered_check(a, v, m.sock, m.from, use)
    OBVIOUS
  <1>18. t = IF v.remote = <<>> THEN priv_store_pending_check(v, m, use)
             ELSE IF use THEN priv_mark_pair_nominated(w, m.from) ELSE w
    <2> DEFINE r0 == priv_check_for_role_conflict(s, IF GivesWay(a, s, m) THEN ~s.ctrl ELSE s.ctrl)
               use0 == m.ctrl \/ r0.ctrl
               u0 == IF r0.remote # <<>> /\ m.from \notin ToSet(r0.remote)
                       THEN conn_check_add_for_candidate(
                              discovery_learn_remote_peer_reflexive_candidate(r0, m.from), m.from)
                       ELSE r0
               X0 == Reply(a, m, IF m.ctrl = s.ctrl /\ ~GivesWay(a, s, m) THEN "conflict" ELSE "response")
               v0 == [u0 EXCEPT !.out = @ \cup X0]
               w0 == priv_schedule_triggered_check(a, v0, m.sock, m.from, use0)
    <2>1. t = IF v0.remote = <<>> THEN priv_store_pending_check(v0, m, use0)
              ELSE IF use0 THEN priv_mark_pair_nominated(w0, m.from) ELSE w0
      BY Zenon DEF handle_request
    <2>2. r0 = r
      BY <1>7, <1>9, Zenon
    <2>3. X0 = X
      BY <1>2, <1>3, Zenon
    <2>4. use0 = use
      <3> HIDE DEF r0
      <3> QED
        BY <1>11, <2>2, Zenon
    <2>5. u0 = u
      <3> HIDE DEF r0
      <3> QED
        BY <1>13, <2>2, Zenon
    <2> HIDE DEF u0, X0, use0
    <2>6. v0 = v
      BY <1>15, <2>3, <2>5, Zenon DEF Replied
    <2> HIDE DEF v0
    <2>7. w0 = w
      BY <1>17, <2>4, <2>6, Zenon
    <2> HIDE DEF w0
    <2> QED
      BY <2>1, <2>4, <2>6, <2>7, Zenon
  <1>19. CASE v.remote = <<>>
    <2>1. t = priv_store_pending_check(v, m, use)
      BY <1>18, <1>19
    <2>2. CASE t = v
      BY <1>4, <1>7, <1>14, <1>16, <2>2 DEF Kept
    <2>3. CASE t = [v EXCEPT !.early = Append(@, [from |-> m.from, sock |-> m.sock, use |-> use])]
      <3>1. PICK e : e = [from |-> m.from, sock |-> m.sock, use |-> use]
        OBVIOUS
      <3>2. e \in EarlyCheck
        BY <1>1, <1>12, <3>1 DEF EarlyCheck
      <3>3. v \in State /\ v.early \in Seq(EarlyCheck)
        BY <1>16 DEF Good, State
      <3>4. PICK q : q = Append(v.early, e)
        OBVIOUS
      <3>5. q \in Seq(EarlyCheck)
        BY <3>2, <3>3, <3>4, AppendProperties
      <3>6. t = [v EXCEPT !.early = q]
        BY <2>3, <3>1, <3>3, <3>4 DEF State
      <3>7. /\ t \in State /\ Kept(v, t) /\ t.list = v.list /\ t.out = v.out /\ t.sel = v.sel
            /\ t.state = v.state
        BY <3>3, <3>5, <3>6 DEF State, Kept
      <3>8. t \in Good(a, c, X)
        BY <1>16, <3>7, AsideGood
      <3> QED
        BY <1>4, <1>7, <1>14, <1>16, <3>7, <3>8 DEF Kept
    <2> QED
      BY <2>1, <2>2, <2>3 DEF priv_store_pending_check
  <1>20. CASE v.remote # <<>>
    <2>1. m.from \in ToSet(v.remote)
      BY <1>14, <1>16, <1>20 DEF Kept
    <2>2. w \in Good(a, c, X) /\ Kept(v, w)
      BY <1>12, <1>16, <1>17, <2>1, ScheduleGood
    <2>3. t \in Good(a, c, X) /\ Kept(w, t)
      <3>1. CASE t = w
        BY <2>2, <3>1 DEF Kept
      <3>2. CASE t = priv_mark_pair_nominated(w, m.from)
        BY <2>2, <3>2, MarkGood DEF Unchanging
      <3> QED
        BY <1>18, <1>20, <3>1, <3>2
    <2> QED
      BY <1>4, <1>7, <1>14, <1>16, <2>2, <2>3 DEF Kept
  <1> QED
    BY <1>19, <1>20

-----------------------------------------------------------------------------
(* Replies.                                                                *)

InState(s, i, state) == [s EXCEPT !.list[i].state = state]
Ended(s, i) == [s EXCEPT !.list[i].tid = 0]

(* t differs from s in pair i of the list only.                            *)
Beside(s, t, i) ==
  /\ t \in State /\ Kept(s, t) /\ t.out = s.out /\ t.sel = s.sel /\ t.state = s.state
  /\ DOMAIN t.list = DOMAIN s.list
  /\ \A j \in DOMAIN s.list : j # i => t.list[j] = s.list[j]

Alike(q, p) ==
  /\ q \in Pair /\ q.local = p.local /\ q.remote = p.remote /\ q.nominated = p.nominated
  /\ q.prio = p.prio /\ q.ctrl = p.ctrl /\ q.asCtrl = p.asCtrl

LEMMA InStateIs ==
  ASSUME NEW s \in State, NEW i \in DOMAIN s.list, NEW state \in CheckState,
         NEW t, t = InState(s, i, state)
  PROVE  /\ Beside(s, t, i) /\ Alike(t.list[i], s.list[i])
         /\ t.list[i].state = state /\ t.list[i].tid = s.list[i].tid
  <1>1. s.list \in Seq(Pair)
    BY DEF State
  <1>2. PICK p \in Pair : p = s.list[i]
    BY <1>1
  <1>3. PICK q : q = [p EXCEPT !.state = state]
    OBVIOUS
  <1>4. Alike(q, p) /\ q.state = state /\ q.tid = p.tid /\ q \in Pair
    BY <1>3 DEF Alike, Pair
  <1>5. PICK h : h = [s.list EXCEPT ![i] = q]
    OBVIOUS
  <1>6. /\ h \in Seq(Pair) /\ DOMAIN h = DOMAIN s.list /\ h[i] = q
        /\ \A j \in DOMAIN s.list : j # i => h[j] = s.list[j]
    BY <1>1, <1>4, <1>5
  <1>7. t = [s EXCEPT !.list = h]
    BY <1>1, <1>2, <1>3, <1>5 DEF InState, State
  <1>8. t \in State /\ Kept(s, t) /\ t.out = s.out /\ t.sel = s.sel /\ t.state = s.state /\ t.list = h
    BY <1>6, <1>7 DEF State, Kept
  <1> QED
    BY <1>2, <1>4, <1>6, <1>8 DEF Beside

LEMMA EndedIs ==
  ASSUME NEW s \in State, NEW i \in DOMAIN s.list, NEW t, t = Ended(s, i)
  PROVE  /\ Beside(s, t, i) /\ Alike(t.list[i], s.list[i])
         /\ t.list[i].state = s.list[i].state /\ t.list[i].tid = 0
  <1>1. s.list \in Seq(Pair)
    BY DEF State
  <1>2. PICK p \in Pair : p = s.list[i]
    BY <1>1
  <1>3. PICK q : q = [p EXCEPT !.tid = 0]
    OBVIOUS
  <1>4. Alike(q, p) /\ q.state = p.state /\ q.tid = 0 /\ q \in Pair
    BY <1>3 DEF Alike, Pair
  <1>5. PICK h : h = [s.list EXCEPT ![i] = q]
    OBVIOUS
  <1>6. /\ h \in Seq(Pair) /\ DOMAIN h = DOMAIN s.list /\ h[i] = q
        /\ \A j \in DOMAIN s.list : j # i => h[j] = s.list[j]
    BY <1>1, <1>4, <1>5
  <1>7. t = [s EXCEPT !.list = h]
    BY <1>1, <1>2, <1>3, <1>5 DEF Ended, State
  <1>8. t \in State /\ Kept(s, t) /\ t.out = s.out /\ t.sel = s.sel /\ t.state = s.state /\ t.list = h
    BY <1>6, <1>7 DEF State, Kept
  <1> QED
    BY <1>2, <1>4, <1>6, <1>8 DEF Beside

(* A check ends without success.                                           *)
LEMMA EndedGood ==
  ASSUME NEW a, NEW c, NEW R, NEW s \in Good(a, c, R), net \subseteq Message, NEW i \in DOMAIN s.list,
         NEW t, Beside(s, t, i), Alike(t.list[i], s.list[i]), t.list[i].tid = 0,
         t.list[i].state \in {"FAILED", "WAITING"}
  PROVE  t \in Good(a, c, R)
  <1>1. ListOK(a, c, t)
    <2> SUFFICES ASSUME NEW j \in DOMAIN s.list
                 PROVE  PairOK(a, c, s.ctrl, ToSet(s.local), ToSet(s.remote), s.sel.prio, t.list[j])
      BY DEF ListOK, Beside, Kept
    <2>1. PairOK(a, c, s.ctrl, ToSet(s.local), ToSet(s.remote), s.sel.prio, s.list[j])
      BY DEF Good
    <2>2. CASE j = i
      BY <2>1, <2>2 DEF PairOK, Alike, Valid
    <2>3. CASE j # i
      BY <2>1, <2>3 DEF Beside
    <2> QED
      BY <2>2, <2>3
  <1>2. \A j \in DOMAIN t.list : t.list[j].tid = 0 \/ \E k \in DOMAIN s.list : Same(t.list[j], s.list[k])
    BY DEF Beside, Same
  <1>3. t.state = "READY" => t.sel.prio > 0
    BY DEF Beside, Good
  <1> QED
    BY <1>1, <1>2, <1>3, Rewritten DEF Beside

(* A conflict error is about a pair made in the role to be given up.       *)
LEMMA ConflictGood ==
  ASSUME NEW a \in Agent, NEW c \in BOOLEAN, NEW R, NEW s \in Good(a, c, R), net \subseteq Message,
         NEW i \in DOMAIN s.list, s.list[i].ctrl = c, Lower(a),
         NEW x, x = Ended(s, i),
         NEW r, r = priv_check_for_role_conflict(x, ~c),
         NEW t, t = InState(r, i, "WAITING")
  PROVE  t \in Good(a, c, R) /\ t.ctrl # c
  <1>1. s \in State /\ s.ctrl \in BOOLEAN
    BY DEF Good, State
  <1>2. /\ Beside(s, x, i) /\ Alike(x.list[i], s.list[i])
        /\ x.list[i].state = s.list[i].state /\ x.list[i].tid = 0
    BY <1>1, EndedIs
  <1>3. "WAITING" \in CheckState
    BY DEF CheckState
  <1>4. CASE s.ctrl # c
    <2>1. r = x
      BY <1>1, <1>2, <1>4 DEF priv_check_for_role_conflict, Beside, Kept
    <2>2. x \in State /\ i \in DOMAIN x.list
      BY <1>2 DEF Beside
    <2>3. /\ Beside(x, t, i) /\ Alike(t.list[i], x.list[i])
          /\ t.list[i].state = "WAITING" /\ t.list[i].tid = x.list[i].tid
      BY <1>3, <2>1, <2>2, InStateIs
    <2>4. Beside(s, t, i) /\ Alike(t.list[i], s.list[i])
      BY <1>2, <2>3 DEF Beside, Alike, Kept
    <2>5. t \in Good(a, c, R)
      BY <1>2, <2>3, <2>4, EndedGood
    <2> QED
      BY <1>4, <2>4, <2>5 DEF Beside, Kept
  <1>5. CASE s.ctrl = c
    <2>1. x \in State /\ x.ctrl = c /\ i \in DOMAIN x.list
      BY <1>2, <1>5 DEF Beside, Kept
    <2>2. PICK control \in BOOLEAN : control = ~c
      OBVIOUS
    <2>3. control # x.ctrl /\ r = priv_check_for_role_conflict(x, control)
      BY <2>1, <2>2, Zenon
    <2>4. /\ r \in State /\ r.ctrl = control /\ r.local = x.local /\ r.remote = x.remote
          /\ r.out = x.out /\ r.sel = x.sel /\ r.state = x.state /\ DOMAIN r.list = DOMAIN x.list
          /\ \A j \in DOMAIN x.list : Revalued(r.list[j], x.list[j])
      BY <2>1, <2>3, RoleConflictIs
    <2>5. /\ Beside(r, t, i) /\ Alike(t.list[i], r.list[i])
          /\ t.list[i].state = "WAITING" /\ t.list[i].tid = r.list[i].tid
      BY <1>3, <2>1, <2>4, InStateIs
    <2>6. \A j \in DOMAIN s.list : (s.list[j].tid # 0) = (s.list[j].state = "IN_PROGRESS")
      BY DEF Good, PairOK
    <2>7. ASSUME NEW j \in DOMAIN s.list
          PROVE  /\ t.list[j].local = s.list[j].local /\ t.list[j].remote = s.list[j].remote
                 /\ t.list[j].ctrl = s.list[j].ctrl
                 /\ (t.list[j].tid # 0) = (t.list[j].state = "IN_PROGRESS")
                 /\ Valid(t.list[j]) => Valid(s.list[j])
      <3>1. CASE j = i
        BY <1>2, <2>1, <2>4, <2>5, <3>1 DEF Alike, Revalued, Valid
      <3>2. CASE j # i
        <4>1. j \in DOMAIN x.list /\ x.list[j] = s.list[j]
          BY <1>2, <3>2 DEF Beside
        <4>2. Revalued(r.list[j], x.list[j])
          BY <2>4, <4>1
        <4>3. t.list[j] = r.list[j]
          BY <2>4, <2>5, <3>2, <4>1 DEF Beside
        <4> QED
          BY <2>6, <4>1, <4>2, <4>3 DEF Revalued, Valid
      <3> QED
        BY <3>1, <3>2
    <2>8. /\ t \in State /\ t.ctrl # c /\ t.local = s.local /\ t.remote = s.remote /\ t.out = s.out
          /\ t.sel = s.sel /\ t.state = s.state /\ DOMAIN t.list = DOMAIN s.list
      <3>1. t.ctrl = control /\ control # c
        BY <2>2, <2>4, <2>5 DEF Beside, Kept
      <3> QED
        BY <1>2, <2>4, <2>5, <3>1 DEF Beside, Kept
    <2> QED
      BY <1>5, <2>7, <2>8, TurnedGood
  <1> QED
    BY <1>4, <1>5

(* A check that succeeds with a mapped address the agent knows.            *)
LEMMA KnownGood ==
  ASSUME NEW a \in Agent, NEW c \in BOOLEAN, NEW R, NEW s \in Good(a, c, R), net \subseteq Message,
         NEW i \in DOMAIN s.list, Lower(a) => s.ctrl # c,
         NEW x, x = Ended(s, i), NEW succ, succ = InState(x, i, "SUCCEEDED"),
         NEW r, r = priv_conn_check_unfreeze_related(succ, succ.list[i]),
         NEW u, u = IF r.state # "READY" THEN Signal(r, "CONNECTED") ELSE r,
         NEW t, t = IF r.list[i].nominated THEN priv_update_selected_pair(u, r.list[i]) ELSE u
  PROVE  t \in Good(a, c, R) /\ Kept(s, t)
  <1>1. s \in State
    BY DEF Good
  <1>2. /\ Beside(s, x, i) /\ Alike(x.list[i], s.list[i])
        /\ x.list[i].state = s.list[i].state /\ x.list[i].tid = 0
    BY <1>1, EndedIs
  <1>3. "SUCCEEDED" \in CheckState /\ x \in State /\ i \in DOMAIN x.list
    BY <1>2 DEF CheckState, Beside
  <1>4. /\ Beside(x, succ, i) /\ Alike(succ.list[i], x.list[i])
        /\ succ.list[i].state = "SUCCEEDED" /\ succ.list[i].tid = x.list[i].tid
    BY <1>3, InStateIs
  <1>5. Beside(s, succ, i) /\ Alike(succ.list[i], s.list[i]) /\ succ.list[i].tid = 0 /\ succ \in State
    BY <1>2, <1>4 DEF Beside, Alike, Kept
  <1>6. Thawed(succ, r)
    BY <1>5, UnfreezeRelatedIs
  <1>7. r.list[i] = succ.list[i]
    <2>1. Unfrozen(r.list[i], succ.list[i])
      BY <1>5, <1>6 DEF Thawed, Beside
    <2> QED
      BY <1>4, <2>1 DEF Unfrozen
  <1>8. \A j \in DOMAIN s.list : j # i => Unfrozen(r.list[j], s.list[j])
    BY <1>5, <1>6 DEF Thawed, Beside
  <1>9. /\ u \in State /\ Kept(s, u) /\ u.out = s.out /\ u.sel = s.sel /\ u.list = r.list
        /\ u.state # "READY" \/ u.state = s.state
    <2>1. /\ r \in State /\ Kept(s, r) /\ r.out = s.out /\ r.sel = s.sel /\ r.state = s.state
      BY <1>5, <1>6 DEF Thawed, Beside, Kept
    <2>2. CASE u = r
      BY <2>1, <2>2
    <2>3. CASE u = Signal(r, "CONNECTED")
      <3>1. /\ u \in State /\ Kept(r, u) /\ u.out = r.out /\ u.sel = r.sel /\ u.list = r.list
            /\ u.state = "CONNECTED"
        BY <2>1, <2>3 DEF Signal, State, ComponentState, Kept
      <3> QED
        BY <2>1, <3>1 DEF Kept
    <2> QED
      BY <2>2, <2>3
  <1>10. DOMAIN u.list = DOMAIN s.list
    BY <1>5, <1>6, <1>9 DEF Thawed, Beside
  <1>11. \A j \in DOMAIN u.list :
           u.list[j].tid = 0 \/ \E k \in DOMAIN s.list : Same(u.list[j], s.list[k])
    <2> SUFFICES ASSUME NEW j \in DOMAIN s.list
                 PROVE  u.list[j].tid = 0 \/ \E k \in DOMAIN s.list : Same(u.list[j], s.list[k])
      BY <1>10
    <2>1. CASE j = i
      BY <1>5, <1>7, <1>9, <2>1
    <2>2. CASE j # i
      <3>1. Unfrozen(r.list[j], s.list[j])
        BY <1>8, <2>2
      <3> QED
        BY <1>9, <3>1 DEF Unfrozen, Same
    <2> QED
      BY <2>1, <2>2
  <1>12. AllBut(a, c, u, i)
    <2> SUFFICES ASSUME NEW j \in DOMAIN s.list
                 PROVE  PairOK(a, c, s.ctrl, ToSet(s.local), ToSet(s.remote),
                               IF j = i THEN u.list[i].prio ELSE s.sel.prio, u.list[j])
      BY <1>9, <1>10 DEF Kept, AllBut
    <2>1. PairOK(a, c, s.ctrl, ToSet(s.local), ToSet(s.remote), s.sel.prio, s.list[j])
      BY DEF Good
    <2>2. CASE j = i
      <3>1. PICK q \in Pair : q = u.list[i]
        BY <1>5, <1>7, <1>9 DEF Alike
      <3>2. q.prio \in Nat /\ Alike(q, s.list[i]) /\ q.tid = 0 /\ q.state = "SUCCEEDED"
        BY <1>4, <1>5, <1>7, <1>9, <3>1 DEF Pair, Positive
      <3>3. q.prio <= q.prio
        BY <3>2
      <3>4. PairOK(a, c, s.ctrl, ToSet(s.local), ToSet(s.remote), q.prio, q)
        BY <2>1, <2>2, <3>2, <3>3 DEF PairOK, Alike
      <3> QED
        BY <2>2, <3>1, <3>4
    <2>3. CASE j # i
      <3>1. Unfrozen(u.list[j], s.list[j])
        BY <1>8, <1>9, <2>3
      <3>2. PairOK(a, c, s.ctrl, ToSet(s.local), ToSet(s.remote), s.sel.prio, u.list[j])
        BY <2>1, <3>1 DEF Unfrozen, Same, PairOK, Valid
      <3> QED
        BY <2>3, <3>2
    <2> QED
      BY <2>2, <2>3
  <1>13. CASE r.list[i].nominated
    <2>1. t = priv_update_selected_pair(u, u.list[i]) /\ i \in DOMAIN u.list
      BY <1>9, <1>10, <1>13
    <2>2. NoneMore(s, u)
      BY <1>9, <1>11 DEF NoneMore
    <2> QED
      BY <1>12, <2>1, <2>2, SelectGood
  <1>14. CASE ~r.list[i].nominated
    <2>1. t = u
      BY <1>14
    <2>2. ListOK(a, c, u)
      <3> SUFFICES ASSUME NEW j \in DOMAIN u.list
                   PROVE  PairOK(a, c, u.ctrl, ToSet(u.local), ToSet(u.remote), u.sel.prio, u.list[j])
        BY DEF ListOK
      <3>1. CASE j = i
        <4>1. PairOK(a, c, u.ctrl, ToSet(u.local), ToSet(u.remote), u.list[i].prio, u.list[j])
          BY <1>12, <3>1 DEF AllBut
        <4>2. ~u.list[j].nominated
          BY <1>9, <1>14, <3>1
        <4> QED
          BY <4>1, <4>2 DEF PairOK
      <3>2. CASE j # i
        BY <1>12, <3>2 DEF AllBut
      <3> QED
        BY <3>1, <3>2
    <2>3. u.state = "READY" => u.sel.prio > 0
      BY <1>9 DEF Good
    <2>4. u \in Good(a, c, R)
      BY <1>9, <1>11, <2>2, <2>3, Rewritten
    <2> QED
      BY <1>9, <2>1, <2>4
  <1> QED
    BY <1>13, <1>14

(* A candidate of its own more: the list stays as it is.                   *)
LearnLocal(s, x) == [s EXCEPT !.local = Append(@, x)]

LEMMA LearnLocalGood ==
  ASSUME NEW a, NEW c, NEW R, NEW s \in Good(a, c, R), NEW x \in Addr, NEW t, t = LearnLocal(s, x)
  PROVE  /\ t \in Good(a, c, R) /\ t.ctrl = s.ctrl /\ t.remote = s.remote /\ t.list = s.list
         /\ t.out = s.out /\ t.sel = s.sel /\ t.state = s.state
         /\ t.local = Append(s.local, x) /\ x \in ToSet(t.local)
  <1>1. s \in State /\ s.local \in Seq(Addr)
    BY DEF Good, State
  <1>2. PICK q : q = Append(s.local, x)
    OBVIOUS
  <1>3. q \in Seq(Addr) /\ ToSet(q) = ToSet(s.local) \cup {x}
    <2>1. q \in Seq(Addr) /\ Len(q) = Len(s.local) + 1 /\ Len(s.local) \in Nat
      BY <1>1, <1>2, AppendProperties, LenProperties
    <2>2. /\ \A i \in 1 .. Len(s.local) : q[i] = s.local[i]
          /\ q[Len(s.local) + 1] = x
      BY <1>1, <1>2, AppendProperties
    <2>3. DOMAIN q = 1 .. Len(s.local) + 1 /\ DOMAIN s.local = 1 .. Len(s.local)
      BY <1>1, <2>1, LenProperties
    <2> QED
      BY <2>1, <2>2, <2>3 DEF ToSet
  <1>4. /\ t \in State /\ t.local = q /\ t.ctrl = s.ctrl /\ t.remote = s.remote /\ t.list = s.list
        /\ t.out = s.out /\ t.sel = s.sel /\ t.state = s.state
    BY <1>1, <1>2, <1>3 DEF State, LearnLocal
  <1>5. \A i \in DOMAIN t.list :
          PairOK(a, c, t.ctrl, ToSet(t.local), ToSet(t.remote), t.sel.prio, t.list[i])
    BY <1>3, <1>4 DEF Good, PairOK
  <1>6. Apart(a, c, t) /\ OutOK(a, c, R, t)
    BY <1>4 DEF Good, Apart, OutOK
  <1>7. (~Lower(a) => t.ctrl = c) /\ (t.state = "READY" => t.sel.prio > 0)
    BY <1>4 DEF Good
  <1> QED
    BY <1>2, <1>3, <1>4, <1>5, <1>6, <1>7 DEF Good

LEMMA CutPriority ==
  ASSUME NEW x \in Nat
  PROVE  x % Word \in Nat
  BY CandidatesAssumption

(* A check that succeeds with a mapped address the agent does not know.    *)
LEMMA PeerReflexiveGood ==
  ASSUME NEW a \in Agent, NEW c \in BOOLEAN, NEW R, NEW s \in Good(a, c, R), net \subseteq Message,
         NEW i \in DOMAIN s.list, Lower(a) => s.ctrl # c, NEW mapped \in Addr,
         NEW x, x = Ended(s, i), NEW t, t = priv_add_peer_reflexive_pair(x, mapped, i)
  PROVE  t \in Good(a, c, R) /\ t.ctrl = s.ctrl /\ t.sel = s.sel /\ ~Last(t.list).nominated
  <1>1. s \in State /\ s.ctrl \in BOOLEAN /\ s.list \in Seq(Pair)
    BY DEF Good, State
  <1>2. /\ Beside(s, x, i) /\ Alike(x.list[i], s.list[i])
        /\ x.list[i].state = s.list[i].state /\ x.list[i].tid = 0
    BY <1>1, EndedIs
  <1>3. x \in State /\ x.list \in Seq(Pair) /\ i \in DOMAIN x.list /\ x.ctrl = s.ctrl
    BY <1>2 DEF Beside, State, Kept
  <1>4. PICK y : y = LearnLocal(s, mapped)
    OBVIOUS
  <1>5. /\ y \in Good(a, c, R) /\ y.ctrl = s.ctrl /\ y.remote = s.remote /\ y.list = s.list
        /\ y.out = s.out /\ y.sel = s.sel /\ y.state = s.state
        /\ y.local = Append(s.local, mapped) /\ mapped \in ToSet(y.local)
    BY <1>4, LearnLocalGood
  <1>6. PICK old \in Pair : old = x.list[i]
    BY <1>3
  <1>7. PICK prio : prio = IF x.ctrl THEN nice_candidate_pair_priority(LearntPrio, old.prio % Word)
                                     ELSE nice_candidate_pair_priority(old.prio % Word, LearntPrio)
    OBVIOUS
  <1>8. prio \in Positive
    <2>1. old.prio \in Nat /\ LearntPrio \in Nat /\ LearntPrio # 0
      BY CandidatesAssumption DEF Pair, Positive
    <2>2. PICK parent \in Nat : parent = old.prio % Word
      BY <2>1, CutPriority
    <2>3. /\ nice_candidate_pair_priority(LearntPrio, parent) \in Positive
          /\ nice_candidate_pair_priority(parent, LearntPrio) \in Positive
      BY <2>1, PriorityIsPositive
    <2> QED
      BY <1>7, <2>2, <2>3
  <1>9. PICK p : p = [local |-> mapped, remote |-> old.remote, state |-> "DISCOVERED",
                      nominated |-> FALSE, ctrl |-> x.ctrl, asCtrl |-> x.ctrl, tid |-> 0, sent |-> 0,
                      prio |-> prio]
    OBVIOUS
  <1>10. /\ p \in Pair /\ p.local = mapped /\ p.remote = old.remote /\ p.state = "DISCOVERED"
         /\ p.nominated = FALSE /\ p.ctrl = s.ctrl /\ p.asCtrl = s.ctrl /\ p.tid = 0
    <2>1. 0 \in 0 .. MaxTrans /\ old.remote \in Addr
      BY LimitsAssumption DEF Pair
    <2> QED
      BY <1>1, <1>3, <1>8, <1>9, <2>1 DEF Pair, CheckState
  <1>11. PICK q : q = [old EXCEPT !.state = "FAILED"]
    OBVIOUS
  <1>12. Alike(q, old) /\ q.state = "FAILED" /\ q.tid = old.tid /\ q \in Pair
    BY <1>11 DEF Alike, Pair, CheckState
  <1>13. PICK h : h = [x.list EXCEPT ![i] = q]
    OBVIOUS
  <1>14. /\ h \in Seq(Pair) /\ DOMAIN h = DOMAIN s.list /\ h[i] = q
         /\ \A j \in DOMAIN s.list : j # i => h[j] = s.list[j]
    BY <1>2, <1>3, <1>12, <1>13 DEF Beside
  <1>15. PICK g : g = Append(h, p)
    OBVIOUS
  <1>16. /\ g \in Seq(Pair) /\ Last(g) = p
         /\ \A j \in DOMAIN g : g[j] = p \/ (j \in DOMAIN h /\ g[j] = h[j])
    <2>1. g \in Seq(Pair) /\ Len(g) = Len(h) + 1 /\ Len(h) \in Nat
      BY <1>10, <1>14, <1>15, AppendProperties, LenProperties
    <2>2. (\A j \in 1 .. Len(h) : g[j] = h[j]) /\ g[Len(h) + 1] = p
      BY <1>10, <1>14, <1>15, AppendProperties
    <2>3. DOMAIN g = 1 .. Len(h) + 1 /\ DOMAIN h = 1 .. Len(h)
      BY <1>14, <2>1, LenProperties
    <2> QED
      BY <2>1, <2>2, <2>3 DEF Last
  <1>17. t = [x EXCEPT !.local = Append(x.local, mapped), !.list = g]
    <2>1. [x.list EXCEPT ![i].state = "FAILED"] = h
      BY <1>6, <1>11, <1>13
    <2> QED
      BY <1>3, <1>6, <1>7, <1>9, <1>15, <2>1 DEF priv_add_peer_reflexive_pair, State
  <1>18. /\ t \in State /\ Kept(y, t) /\ t.list = g /\ t.out = y.out /\ t.sel = y.sel /\ t.state = y.state
    <2>1. PICK l : l = Append(x.local, mapped)
      OBVIOUS
    <2>2. l = y.local /\ l \in Seq(Addr)
      BY <1>2, <1>5, <2>1 DEF Beside, Kept, Good, State
    <2>3. t = [x EXCEPT !.local = l, !.list = g]
      BY <1>17, <2>1
    <2>4. /\ t \in State /\ t.local = l /\ t.list = g /\ t.out = x.out /\ t.sel = x.sel
          /\ t.state = x.state /\ t.ctrl = x.ctrl /\ t.remote = x.remote
      BY <1>3, <1>16, <2>2, <2>3 DEF State
    <2> QED
      BY <1>2, <1>5, <2>2, <2>4 DEF Beside, Kept
  <1>19. ASSUME NEW j \in DOMAIN s.list
         PROVE  PairOK(a, c, y.ctrl, ToSet(y.local), ToSet(y.remote), y.sel.prio, h[j])
    <2>1. PairOK(a, c, y.ctrl, ToSet(y.local), ToSet(y.remote), y.sel.prio, s.list[j])
      BY <1>5 DEF Good
    <2>2. CASE j = i
      <3>1. /\ h[j] = q /\ q.local = s.list[i].local /\ q.remote = s.list[i].remote
            /\ q.ctrl = s.list[i].ctrl /\ q.asCtrl = s.list[i].asCtrl /\ q.tid = 0
        BY <1>2, <1>6, <1>12, <1>14, <2>2 DEF Alike
      <3> QED
        BY <1>12, <2>1, <2>2, <3>1 DEF PairOK, Valid
    <2>3. CASE j # i
      BY <1>14, <2>1, <2>3
    <2> QED
      BY <2>2, <2>3
  <1>20. PairOK(a, c, y.ctrl, ToSet(y.local), ToSet(y.remote), y.sel.prio, p)
    <2>1. old.remote = s.list[i].remote
      BY <1>2, <1>6 DEF Alike
    <2>2. s.list[i].remote \in ToSet(y.remote)
      BY <1>5 DEF Good, PairOK
    <2> QED
      BY <1>5, <1>10, <2>1, <2>2 DEF PairOK
  <1>21. ListOK(a, c, t)
    BY <1>14, <1>16, <1>18, <1>19, <1>20 DEF ListOK, Kept
  <1>22. \A j \in DOMAIN t.list : t.list[j].tid = 0 \/ \E k \in DOMAIN y.list : Same(t.list[j], y.list[k])
    <2> SUFFICES ASSUME NEW j \in DOMAIN g
                 PROVE  g[j].tid = 0 \/ \E k \in DOMAIN s.list : Same(g[j], s.list[k])
      BY <1>5, <1>18
    <2>1. CASE g[j] = p
      BY <1>10, <2>1
    <2>2. CASE j \in DOMAIN h /\ g[j] = h[j]
      <3>1. h[i].tid = 0
        BY <1>2, <1>6, <1>12, <1>14
      <3> QED
        BY <1>14, <2>2, <3>1 DEF Same
    <2> QED
      BY <1>16, <2>1, <2>2
  <1>23. t.state = "READY" => t.sel.prio > 0
    BY <1>5, <1>18 DEF Good
  <1>24. t \in Good(a, c, R)
    BY <1>5, <1>18, <1>21, <1>22, <1>23, Rewritten
  <1> QED
    BY <1>5, <1>10, <1>16, <1>18, <1>24 DEF Kept

LEMMA SuccessGood ==
  ASSUME NEW a \in Agent, NEW c \in BOOLEAN, NEW R, NEW s \in Good(a, c, R), net \subseteq Message,
         NEW i \in DOMAIN s.list, Lower(a) => s.ctrl # c,
         NEW m, m.mapped \in Addr, NEW x, x = Ended(s, i), NEW t, t = handle_success(x, m, i)
  PROVE  t \in Good(a, c, R) /\ t.ctrl = s.ctrl
  <1> DEFINE known == m.mapped \in ToSet(x.local)
  <1>2. PICK succ : succ = InState(x, i, "SUCCEEDED")
    OBVIOUS
  <1>3. PICK r : r = IF known THEN priv_conn_check_unfreeze_related(succ, succ.list[i])
                     ELSE priv_add_peer_reflexive_pair(x, m.mapped, i)
    OBVIOUS
  <1>4. PICK ok : ok = IF known THEN r.list[i] ELSE Last(r.list)
    OBVIOUS
  <1>5. PICK u : u = IF r.state # "READY" THEN Signal(r, "CONNECTED") ELSE r
    OBVIOUS
  <1>6. PICK v : v = IF ok.nominated THEN priv_update_selected_pair(u, ok) ELSE u
    OBVIOUS
  <1>7. t = priv_update_check_list_state_for_ready(v)
    <2> DEFINE succ0 == [x EXCEPT !.list[i].state = "SUCCEEDED"]
               r0 == IF known THEN priv_conn_check_unfreeze_related(succ0, succ0.list[i])
                     ELSE priv_add_peer_reflexive_pair(x, m.mapped, i)
               ok0 == IF known THEN r0.list[i] ELSE Last(r0.list)
               u0 == IF r0.state # "READY" THEN Signal(r0, "CONNECTED") ELSE r0
               v0 == IF ok0.nominated THEN priv_update_selected_pair(u0, ok0) ELSE u0
    <2>1. t = priv_update_check_list_state_for_ready(v0)
      BY Zenon DEF handle_success
    <2>2. succ0 = succ
      BY <1>2, Zenon DEF InState
    <2> HIDE DEF succ0
    <2>3. r0 = r
      BY <1>3, <2>2, Zenon
    <2> HIDE DEF r0
    <2>4. ok0 = ok /\ u0 = u
      BY <1>4, <1>5, <2>3, Zenon
    <2> HIDE DEF ok0, u0
    <2>5. v0 = v
      BY <1>6, <2>4, Zenon
    <2> HIDE DEF v0
    <2> QED
      BY <2>1, <2>5, Zenon
  <1>8. v \in Good(a, c, R) /\ v.ctrl = s.ctrl
    <2>1. CASE known
      <3>1. r = priv_conn_check_unfreeze_related(succ, succ.list[i]) /\ ok = r.list[i]
        BY <1>3, <1>4, <2>1
      <3>2. v = IF r.list[i].nominated THEN priv_update_selected_pair(u, r.list[i]) ELSE u
        BY <1>6, <3>1
      <3>3. v \in Good(a, c, R) /\ Kept(s, v)
        BY <1>2, <1>5, <3>1, <3>2, KnownGood
      <3> QED
        BY <3>3 DEF Kept
    <2>2. CASE ~known
      <3>1. r = priv_add_peer_reflexive_pair(x, m.mapped, i) /\ ok = Last(r.list)
        BY <1>3, <1>4, <2>2
      <3>2. r \in Good(a, c, R) /\ r.ctrl = s.ctrl /\ ~ok.nominated
        BY <3>1, PeerReflexiveGood
      <3>3. v = u
        BY <1>6, <3>2
      <3>4. CASE u = r
        BY <3>2, <3>3, <3>4
      <3>5. CASE u = Signal(r, "CONNECTED")
        <4>1. Signal(r, "CONNECTED") \in Good(a, c, R) /\ Kept(r, Signal(r, "CONNECTED"))
          BY <3>2, SignalGood DEF ComponentState
        <4> QED
          BY <3>2, <3>3, <3>5, <4>1 DEF Kept
      <3> QED
        BY <1>5, <3>4, <3>5
    <2> QED
      BY <2>1, <2>2
  <1>9. t \in Good(a, c, R) /\ Unchanging(v, t)
    BY <1>7, <1>8, UpdateForReadyGood
  <1> QED
    BY <1>8, <1>9 DEF Unchanging, Kept

LEMMA MapReplyGood ==
  ASSUME NEW a \in Agent, NEW c \in BOOLEAN, NEW R, NEW s \in Good(a, c, R), net \subseteq Message,
         NEW m \in net, m.to = a, m.kind # "request", m.kind = "conflict" => Lower(a),
         m.kind = "response" /\ Lower(a) => s.ctrl # c,
         NEW t, t = priv_map_reply_to_conn_check_request(s, m)
  PROVE  t \in Good(a, c, R) /\ (s.ctrl # c => t.ctrl # c)
  <1>1. /\ s \in State /\ s.list \in Seq(Pair)
        /\ m.kind \in {"response", "conflict"} /\ m.mapped \in Addr /\ m.tid # 0
    BY DEF Good, State, Message, Positive
  <1>2. PICK n \in Nat : n = Len(s.list) /\ DOMAIN s.list = 1 .. n
    BY <1>1, LenProperties
  <1>3. PICK T : T = {j \in 1 .. n : s.list[j].tid = m.tid}
    OBVIOUS
  <1>4. PICK i : i = IF T # {} THEN Min(T) ELSE 0
    OBVIOUS
  <1>5. i \in 0 .. n /\ (i # 0 => i \in T)
    <2>1. T \in SUBSET Nat /\ T \subseteq 1 .. n
      BY <1>3
    <2> QED
      BY <1>4, <2>1, FirstPairIs
  <1>6. PICK x : x = Ended(s, i)
    OBVIOUS
  <1>7. t = IF i = 0 THEN s
            ELSE IF m.kind = "conflict"
              THEN InState(priv_check_for_role_conflict(x, ~x.list[i].ctrl), i, "WAITING")
            ELSE IF m.from # s.list[i].remote THEN InState(x, i, "FAILED")
            ELSE handle_success(x, m, i)
    BY <1>2, <1>3, <1>4, <1>6
       DEF priv_map_reply_to_conn_check_request, FirstPair, SelectInSeq, Ended, InState
  <1>8. CASE i = 0
    BY <1>7, <1>8
  <1>9. CASE i # 0
    <2>1. i \in DOMAIN s.list /\ s.list[i].tid = m.tid
      BY <1>2, <1>3, <1>5, <1>9
    <2>2. /\ Beside(s, x, i) /\ Alike(x.list[i], s.list[i])
          /\ x.list[i].state = s.list[i].state /\ x.list[i].tid = 0
      BY <1>1, <1>6, <2>1, EndedIs
    <2>3. CASE m.kind = "conflict"
      <3>1. s.list[i].ctrl = c
        <4>1. Conflicting(a, c, m)
          BY <2>3 DEF Conflicting
        <4> QED
          BY <2>1, <4>1 DEF Good, Apart
      <3>2. x.list[i].ctrl = c
        BY <2>2, <3>1 DEF Alike
      <3>3. PICK r : r = priv_check_for_role_conflict(x, ~c)
        OBVIOUS
      <3>4. t = InState(r, i, "WAITING")
        BY <1>7, <1>9, <2>3, <3>2, <3>3
      <3> QED
        BY <1>6, <2>1, <2>3, <3>1, <3>3, <3>4, ConflictGood
    <2>4. CASE m.kind # "conflict" /\ m.from # s.list[i].remote
      <3>1. t = InState(x, i, "FAILED")
        BY <1>7, <1>9, <2>4
      <3>2. x \in State /\ i \in DOMAIN x.list /\ "FAILED" \in CheckState
        BY <2>1, <2>2 DEF Beside, CheckState
      <3>3. /\ Beside(x, t, i) /\ Alike(t.list[i], x.list[i])
            /\ t.list[i].state = "FAILED" /\ t.list[i].tid = x.list[i].tid
        BY <3>1, <3>2, InStateIs
      <3>4. Beside(s, t, i) /\ Alike(t.list[i], s.list[i])
        BY <2>2, <3>3 DEF Beside, Alike, Kept
      <3>5. t \in Good(a, c, R)
        BY <2>1, <2>2, <3>3, <3>4, EndedGood
      <3> QED
        BY <3>4, <3>5 DEF Beside, Kept
    <2>5. CASE m.kind # "conflict" /\ m.from = s.list[i].remote
      <3>1. t = handle_success(x, m, i)
        BY <1>7, <1>9, <2>5
      <3>2. Lower(a) => s.ctrl # c
        BY <1>1, <2>5
      <3>3. t \in Good(a, c, R) /\ t.ctrl = s.ctrl
        BY <1>1, <1>6, <2>1, <3>1, <3>2, SuccessGood
      <3> QED
        BY <3>3
    <2> QED
      BY <2>3, <2>4, <2>5
  <1> QED
    BY <1>8, <1>9

-----------------------------------------------------------------------------
(* The two agents.                                                         *)

(* The replies R of agent a: a conflict for a weaker peer, to a request    *)
(* made in the role to be given up; a response to a weaker peer only when  *)
(* it has given way.                                                       *)
AnswersOK(a, R) == \A n \in R :
  /\ n.kind = "conflict" =>
       /\ Lower(Peer[a])
       /\ \E m \in net : m.kind = "request" /\ m.to = a /\ m.ctrl = Role(a) /\ m.tid = n.tid
  /\ n.kind = "response" /\ Lower(Peer[a]) => ag[Peer[a]].ctrl # Role(a)

LEMMA Peers ==
  ASSUME NEW a \in Agent
  PROVE  /\ Peer[a] \in Agent /\ Peer[a] # a /\ Peer[Peer[a]] = a
         /\ Lower(Peer[a]) <=> ~Lower(a)
         /\ Role(Peer[a]) = Role(a)
  <1>1. Peer[a] \in Agent /\ Peer[a] # a /\ Peer[Peer[a]] = a /\ Tie[a] # Tie[Peer[a]]
    BY AgentsAssumption
  <1>2. Tie[a] \in Nat /\ Tie[Peer[a]] \in Nat
    BY <1>1, AgentsAssumption
  <1>3. Lower(Peer[a]) <=> ~Lower(a)
    BY <1>1, <1>2 DEF Lower
  <1> QED
    BY <1>1, <1>3 DEF Role

(* The next state of an agent that has sent what it had to send.           *)
LEMMA SentIs ==
  ASSUME NEW s \in State, NEW f, f = [s EXCEPT !.out = {}]
  PROVE  /\ f \in State /\ f.ctrl = s.ctrl /\ f.local = s.local /\ f.remote = s.remote
         /\ f.list = s.list /\ f.state = s.state /\ f.sel = s.sel /\ f.out = {}
  BY DEF State

LEMMA BecomeKeeps ==
  ASSUME IInv, NEW a \in Agent, NEW R, NEW s \in Good(a, Role(a), R), NEW rest \in SUBSET net,
         ag[a].ctrl # Role(a) => s.ctrl # Role(a), AnswersOK(a, R),
         Become(a, s, rest)
  PROVE  IInv' /\ (RolesDiffer => RolesDiffer')
  <1>1. PICK f : f = [s EXCEPT !.out = {}]
    OBVIOUS
  <1>2. /\ f \in State /\ f.ctrl = s.ctrl /\ f.local = s.local /\ f.remote = s.remote
        /\ f.list = s.list /\ f.state = s.state /\ f.sel = s.sel /\ f.out = {}
    <2>1. s \in State
      BY DEF Good
    <2> QED
      BY <1>1, <2>1, SentIs
  <1>3. ag' = [ag EXCEPT ![a] = f] /\ net' = rest \cup s.out
    BY <1>1 DEF Become
  <1>4. /\ net \subseteq Message /\ IsFiniteSet(net) /\ ag \in [Agent -> State]
        /\ \A x \in Agent : /\ ag[x] \in Good(x, Role(x), {}) /\ ag[x].out = {}
                            /\ NetOK(x)
    BY DEF IInv
  <1>5. /\ ag' \in [Agent -> State] /\ ag'[a] = f
        /\ \A x \in Agent : x # a => ag'[x] = ag[x]
    BY <1>2, <1>3, <1>4
  <1>6. PICK b : b = Peer[a]
    OBVIOUS
  <1>7. /\ b \in Agent /\ b # a /\ Peer[b] = a /\ (Lower(b) <=> ~Lower(a)) /\ Role(b) = Role(a)
        /\ \A x \in Agent : x # a => Peer[x] # b
    <2>1. \A x \in Agent : Peer[Peer[x]] = x
      BY AgentsAssumption
    <2> QED
      BY <1>6, <2>1, Peers
  <1>8. PICK c : c = Role(a)
    OBVIOUS
  <1>9. ~Lower(a) => ag[a].ctrl = c /\ s.ctrl = c
    BY <1>4, <1>8 DEF Good
  <1>10. ASSUME NEW x \in Agent PROVE Role(x)' = Role(x)
    <2>1. Peer[x] \in Agent /\ Peer[x] # x /\ (Lower(Peer[x]) <=> ~Lower(x)) /\ Peer[Peer[x]] = x
      BY Peers
    <2>2. CASE x = a
      BY <1>2, <1>5, <1>9, <2>1, <2>2 DEF Role, Lower
    <2>3. CASE x # a /\ Peer[x] = a
      BY <1>2, <1>5, <1>9, <2>1, <2>3 DEF Role, Lower
    <2>4. CASE x # a /\ Peer[x] # a
      BY <1>5, <2>1, <2>4 DEF Role, Lower
    <2> QED
      BY <2>2, <2>3, <2>4
  <1>11. /\ IsFiniteSet(s.out) /\ s.out \subseteq Message
         /\ \A m \in s.out : /\ m.to = b
                             /\ IF m.kind = "request" THEN s.ctrl = c => m.ctrl = c ELSE m \in R
    BY <1>6, <1>8 DEF Good, OutOK, State
  <1>12. net' \subseteq Message /\ IsFiniteSet(net')
    <2>1. IsFiniteSet(rest)
      BY <1>4, FS_Subset
    <2>2. IsFiniteSet(rest \cup s.out)
      BY <1>11, <2>1, FS_Union
    <2> QED
      BY <1>3, <1>4, <1>11, <2>2
  <1>13. ASSUME NEW x \in Agent, x # a, NEW m \in s.out, Conflicting(x, Role(x), m)
         PROVE  \E n \in net : Conflicting(x, Role(x), n) /\ n.tid = m.tid
    <2>1. m.to = b /\ Peer[x] # b
      BY <1>7, <1>11, <1>13
    <2>2. m.kind = "conflict" /\ x = b
      BY <1>13, <2>1 DEF Conflicting
    <2>3. m \in R
      BY <1>11, <2>2
    <2>4. PICK n \in net : n.kind = "request" /\ n.to = a /\ n.ctrl = Role(a) /\ n.tid = m.tid
      BY <2>2, <2>3 DEF AnswersOK
    <2>5. Conflicting(x, Role(x), n)
      BY <1>7, <2>2, <2>4 DEF Conflicting
    <2> QED
      BY <2>4, <2>5
  <1>14. ASSUME NEW x \in Agent PROVE (ag[x] \in Good(x, Role(x), {}) /\ ag[x].out = {})'
    <2>1. CASE x = a
      <3>1. \A i \in DOMAIN f.list :
              PairOK(a, c, f.ctrl, ToSet(f.local), ToSet(f.remote), f.sel.prio, f.list[i])
        BY <1>2, <1>8 DEF Good
      <3>2. (~Lower(a) => f.ctrl = c) /\ (f.state = "READY" => f.sel.prio > 0)
        BY <1>2, <1>8 DEF Good
      <3>3. \A i \in DOMAIN f.list : f.list[i].ctrl # c =>
              /\ \A m \in net' \cup f.out : Conflicting(a, c, m) => m.tid # f.list[i].tid
              /\ \A j \in DOMAIN f.list :
                   f.list[j].asCtrl = c /\ f.list[j].tid # 0 => f.list[j].tid # f.list[i].tid
        BY <1>2, <1>3, <1>8 DEF Good, Apart
      <3>4. IsFiniteSet(f.out) /\ \A m \in f.out : FALSE
        BY <1>2, FS_EmptySet
      <3>5. Role(a)' = c
        BY <1>8, <1>10
      <3> QED
        BY <1>2, <1>5, <2>1, <3>1, <3>2, <3>3, <3>4, <3>5 DEF Good, Apart, OutOK, Lower
    <2>2. CASE x # a
      <3>1. PICK d : d = Role(x)
        OBVIOUS
      <3>2. PICK g : g = ag[x]
        OBVIOUS
      <3>3. /\ g \in State /\ g.out = {}
            /\ \A i \in DOMAIN g.list :
                 PairOK(x, d, g.ctrl, ToSet(g.local), ToSet(g.remote), g.sel.prio, g.list[i])
            /\ (~Lower(x) => g.ctrl = d) /\ (g.state = "READY" => g.sel.prio > 0)
        BY <1>4, <3>1, <3>2 DEF Good
      <3>4. \A i \in DOMAIN g.list : g.list[i].ctrl # d =>
              /\ \A m \in net : Conflicting(x, d, m) => m.tid # g.list[i].tid
              /\ \A j \in DOMAIN g.list :
                   g.list[j].asCtrl = d /\ g.list[j].tid # 0 => g.list[j].tid # g.list[i].tid
        BY <1>4, <3>1, <3>2 DEF Good, Apart
      <3>5. \A m \in net' : Conflicting(x, d, m) => \E n \in net : Conflicting(x, d, n) /\ n.tid = m.tid
        BY <1>3, <1>13, <2>2, <3>1
      <3>6. \A i \in DOMAIN g.list : g.list[i].ctrl # d =>
              /\ \A m \in net' \cup g.out : Conflicting(x, d, m) => m.tid # g.list[i].tid
              /\ \A j \in DOMAIN g.list :
                   g.list[j].asCtrl = d /\ g.list[j].tid # 0 => g.list[j].tid # g.list[i].tid
        BY <3>3, <3>4, <3>5
      <3>7. IsFiniteSet(g.out) /\ \A m \in g.out : FALSE
        BY <3>3, FS_EmptySet
      <3>8. Role(x)' = d /\ ag'[x] = g
        BY <1>5, <1>10, <2>2, <3>1, <3>2
      <3> QED
        BY <3>3, <3>6, <3>7, <3>8 DEF Good, Apart, OutOK, Lower
    <2> QED
      BY <2>1, <2>2
  <1>15. ASSUME NEW x \in Agent PROVE NetOK(x)'
    <2>1. Role(x)' = Role(x) /\ Peer[x] \in Agent
      BY <1>10, Peers
    <2>2. ag[x].ctrl # Role(x) => ag'[x].ctrl # Role(x)
      BY <1>2, <1>5
    <2>3. ag[Peer[x]].ctrl # Role(x) => ag'[Peer[x]].ctrl # Role(x)
      <3>1. CASE Peer[x] = a
        <4>1. Role(x) = Role(a)
          BY <3>1, Peers
        <4> QED
          BY <1>2, <1>5, <3>1, <4>1
      <3>2. CASE Peer[x] # a
        BY <1>5, <2>1, <3>2
      <3> QED
        BY <3>1, <3>2
    <2>4. SUFFICES ASSUME NEW m \in net', m.to = x
                   PROVE  /\ m.kind = "request" /\ ag'[Peer[x]].ctrl = Role(x) => m.ctrl = Role(x)
                          /\ m.kind = "conflict" => Lower(x)
                          /\ m.kind = "response" /\ Lower(x) => ag'[x].ctrl # Role(x)
      BY <2>1 DEF NetOK, Lower
    <2>5. CASE m \in net
      <3>1. /\ m.kind = "request" /\ ag[Peer[x]].ctrl = Role(x) => m.ctrl = Role(x)
            /\ m.kind = "conflict" => Lower(x)
            /\ m.kind = "response" /\ Lower(x) => ag[x].ctrl # Role(x)
        BY <1>4, <2>4, <2>5 DEF NetOK
      <3> QED
        BY <2>2, <2>3, <3>1
    <2>6. CASE m \in s.out
      <3>1. x = b /\ Role(x) = c /\ Peer[x] = a
        BY <1>7, <1>8, <1>11, <2>4, <2>6
      <3>2. ag'[Peer[x]].ctrl = s.ctrl /\ ag'[x] = ag[x]
        BY <1>2, <1>5, <1>7, <3>1
      <3>3. IF m.kind = "request" THEN s.ctrl = c => m.ctrl = c ELSE m \in R
        BY <1>11, <2>6
      <3>4. m.kind # "request" =>
              /\ m.kind = "conflict" => Lower(b)
              /\ m.kind = "response" /\ Lower(b) => ag[b].ctrl # c
        BY <1>6, <1>8, <3>3 DEF AnswersOK
      <3> QED
        BY <3>1, <3>2, <3>3, <3>4
    <2> QED
      BY <1>3, <2>5, <2>6
  <1>16. IInv'
    BY <1>5, <1>12, <1>14, <1>15 DEF IInv
  <1>17. ASSUME RolesDiffer PROVE RolesDiffer'
    <2> SUFFICES ASSUME NEW x \in Agent PROVE ag'[x].ctrl # ag'[Peer[x]].ctrl
      BY DEF RolesDiffer
    <2>1. /\ Peer[x] \in Agent /\ Peer[x] # x /\ Peer[Peer[x]] = x
          /\ (Lower(Peer[x]) <=> ~Lower(x)) /\ Role(Peer[x]) = Role(x)
      BY Peers
    <2>2. ag[a].ctrl # ag[b].ctrl
      BY <1>6, <1>17 DEF RolesDiffer
    <2>3. s.ctrl # ag[b].ctrl
      <3>1. CASE Lower(a)
        BY <1>6, <2>2, <3>1 DEF Role
      <3>2. CASE ~Lower(a)
        BY <1>9, <2>2, <3>2
      <3> QED
        BY <3>1, <3>2
    <2>4. ag'[a].ctrl # ag'[b].ctrl
      BY <1>2, <1>5, <1>7, <2>3
    <2>5. CASE x = a
      BY <1>6, <2>4, <2>5
    <2>6. CASE x = b
      BY <1>7, <2>4, <2>6
    <2>7. CASE x # a /\ x # b
      <3>1. Peer[x] # a
        BY <1>6, <2>1, <2>7
      <3>2. ag[x].ctrl # ag[Peer[x]].ctrl
        BY <1>17 DEF RolesDiffer
      <3> QED
        BY <1>5, <2>1, <2>7, <3>1, <3>2
    <2> QED
      BY <2>5, <2>6, <2>7
  <1> QED
    BY <1>16, <1>17

LEMMA InitIInv == Init => IInv
  <1> SUFFICES ASSUME Init PROVE IInv
    OBVIOUS
  <1>1. PICK role \in Roles :
          ag = [a \in Agent |->
                 [ctrl |-> role[a], local |-> Gathered[a], remote |-> <<>>,
                  list |-> <<>>, state |-> "GATHERING", sel |-> NoPair,
                  timer |-> FALSE, early |-> <<>>, out |-> {}]]
    BY DEF Init
  <1>2. net = {}
    BY DEF Init
  <1>3. role \in [Agent -> BOOLEAN] /\ \A a \in Agent : Gathered[a] \in Seq(Addr)
    BY AgentsAssumption, CandidatesAssumption DEF Addr
  <1>4. NoPair \in Selected
    BY DEF NoPair, Selected
  <1>5. ASSUME NEW a \in Agent
        PROVE  ag[a] \in State /\ ag[a].list = <<>> /\ ag[a].out = {} /\ ag[a].state = "GATHERING"
    <2>1. PICK s : s = ag[a]
      OBVIOUS
    <2>2. s = [ctrl |-> role[a], local |-> Gathered[a], remote |-> <<>>,
               list |-> <<>>, state |-> "GATHERING", sel |-> NoPair,
               timer |-> FALSE, early |-> <<>>, out |-> {}]
      BY <1>1, <2>1
    <2>3. /\ role[a] \in BOOLEAN /\ Gathered[a] \in Seq(Addr) /\ <<>> \in Seq(Addr)
          /\ <<>> \in Seq(Pair) /\ <<>> \in Seq(EarlyCheck) /\ {} \in SUBSET Message
          /\ "GATHERING" \in ComponentState
      BY <1>3 DEF ComponentState
    <2>4. s \in State /\ s.list = <<>> /\ s.out = {} /\ s.state = "GATHERING"
      BY <1>4, <2>2, <2>3 DEF State
    <2> QED
      BY <2>1, <2>4
  <1>6. ag \in [Agent -> State]
    <2>1. PICK f : f = ag
      OBVIOUS
    <2>2. f = [a \in Agent |-> f[a]]
      BY <1>1, <2>1
    <2> QED
      BY <1>5, <2>1, <2>2
  <1>7. ASSUME NEW a \in Agent PROVE ag[a] \in Good(a, Role(a), {})
    <2>1. ag[a] \in State /\ ag[a].list = <<>> /\ ag[a].out = {} /\ ag[a].state = "GATHERING"
      BY <1>5
    <2>2. ~Lower(a) => ag[a].ctrl = Role(a)
      BY DEF Role
    <2>3. IsFiniteSet(ag[a].out)
      BY <2>1, FS_EmptySet
    <2>4. DOMAIN ag[a].list = {}
      BY <2>1
    <2> QED
      BY <2>1, <2>2, <2>3, <2>4 DEF Good, Apart, OutOK
  <1>8. net \subseteq Message /\ IsFiniteSet(net)
    BY <1>2, FS_EmptySet
  <1> QED
    BY <1>2, <1>5, <1>6, <1>7, <1>8 DEF IInv, NetOK

LEMMA NoAnswers ==
  ASSUME NEW a
  PROVE  AnswersOK(a, {})
  BY DEF AnswersOK

LEMMA RoleIsARole ==
  ASSUME IInv, NEW a \in Agent
  PROVE  Role(a) \in BOOLEAN
  BY Peers DEF IInv, Role, State

LEMMA SetRemoteCandidatesKeeps ==
  ASSUME IInv, NEW a \in Agent, nice_agent_set_remote_candidates(a)
  PROVE  IInv' /\ (RolesDiffer => RolesDiffer')
  <1>1. /\ net \subseteq Message /\ IsFiniteSet(net) /\ ag[a] \in Good(a, Role(a), {})
    BY DEF IInv
  <1>2. PICK c \in BOOLEAN : c = Role(a)
    BY RoleIsARole
  <1>3. PICK s : s = AddAll(ag[a], Gathered[Peer[a]])
    OBVIOUS
  <1>4. PICK t : t = conn_check_remote_candidates_set(a, s)
    OBVIOUS
  <1>5. PICK u : u = conn_check_schedule_next(a, t)
    OBVIOUS
  <1>6. Become(a, u, net)
    BY <1>3, <1>4, <1>5 DEF nice_agent_set_remote_candidates
  <1>7. Gathered[Peer[a]] \in Seq(Addr)
    BY Peers, CandidatesAssumption DEF Addr
  <1>8. s \in Good(a, c, {}) /\ s.ctrl = ag[a].ctrl
    BY <1>1, <1>2, <1>3, <1>7, AddAllGood
  <1>9. t \in Good(a, c, {}) /\ t.ctrl = s.ctrl
    BY <1>1, <1>4, <1>8, RemoteCandidatesSetGood
  <1>10. u \in Good(a, c, {}) /\ Kept(t, u)
    BY <1>1, <1>5, <1>9, ScheduleNextGood
  <1>11. u \in Good(a, Role(a), {}) /\ (ag[a].ctrl # Role(a) => u.ctrl # Role(a))
    BY <1>2, <1>8, <1>9, <1>10 DEF Kept
  <1> QED
    BY <1>6, <1>11, NoAnswers, BecomeKeeps

LEMMA TickKeeps ==
  ASSUME IInv, NEW a \in Agent, priv_conn_check_tick(a)
  PROVE  IInv' /\ (RolesDiffer => RolesDiffer')
  <1>1. /\ net \subseteq Message /\ IsFiniteSet(net) /\ ag[a] \in Good(a, Role(a), {})
    BY DEF IInv
  <1>2. PICK c \in BOOLEAN : c = Role(a)
    BY RoleIsARole
  <1>3. PICK due \in SUBSET {i \in InProgress(ag[a]) : MayBeDue(a, i)} :
          Become(a, priv_conn_check_tick_unlocked(a, ag[a], due), net)
    BY DEF priv_conn_check_tick
  <1>4. due \in SUBSET InProgress(ag[a])
    BY <1>3
  <1>5. PICK u : u = priv_conn_check_tick_unlocked(a, ag[a], due)
    OBVIOUS
  <1>6. u \in Good(a, c, {}) /\ Kept(ag[a], u)
    BY <1>1, <1>2, <1>4, <1>5, TickGood
  <1>7. u \in Good(a, Role(a), {}) /\ (ag[a].ctrl # Role(a) => u.ctrl # Role(a))
    BY <1>2, <1>6 DEF Kept
  <1>8. Become(a, u, net)
    BY <1>3, <1>5
  <1> QED
    BY <1>7, <1>8, NoAnswers, BecomeKeeps

LEMMA InboundKeeps ==
  ASSUME IInv, NEW a \in Agent, conn_check_handle_inbound_stun(a)
  PROVE  IInv' /\ (RolesDiffer => RolesDiffer')
  <1>1. /\ net \subseteq Message /\ IsFiniteSet(net) /\ ag[a] \in Good(a, Role(a), {}) /\ NetOK(a)
    BY DEF IInv
  <1>2. PICK c \in BOOLEAN : c = Role(a)
    BY RoleIsARole
  <1>3. PICK m \in net :
          /\ m.to = a
          /\ Become(a, IF m.kind = "request" THEN handle_request(a, ag[a], m)
                       ELSE priv_map_reply_to_conn_check_request(ag[a], m), net \ {m})
    BY DEF conn_check_handle_inbound_stun
  <1>4. /\ m.kind = "request" /\ ag[Peer[a]].ctrl = c => m.ctrl = c
        /\ m.kind = "conflict" => Lower(a)
        /\ m.kind = "response" /\ Lower(a) => ag[a].ctrl # c
    BY <1>1, <1>2, <1>3 DEF NetOK
  <1>5. PICK rest \in SUBSET net : rest = net \ {m}
    OBVIOUS
  <1>6. CASE m.kind = "request"
    <2>1. PICK u : u = handle_request(a, ag[a], m)
      OBVIOUS
    <2>2. Become(a, u, rest)
      BY <1>3, <1>5, <1>6, <2>1
    <2>3. Lower(a) => m.ctrl = c
      BY <1>2, <1>4, <1>6 DEF Role
    <2>4. PICK s : s = ag[a]
      OBVIOUS
    <2>5. PICK R : R = Answer(a, s, m)
      OBVIOUS
    <2>6. s \in Good(a, c, {}) /\ m \in Message
      BY <1>1, <1>2, <2>4
    <2>7. u \in Good(a, c, R) /\ u.ctrl = IF GivesWay(a, s, m) THEN ~s.ctrl ELSE s.ctrl
      BY <1>1, <1>6, <2>1, <2>3, <2>4, <2>5, <2>6, HandleRequestGood
    <2>8. s.ctrl # c => u.ctrl # c
      <3>1. GivesWay(a, s, m) => s.ctrl = c
        BY <2>3 DEF GivesWay, Lower
      <3> QED
        BY <2>7, <3>1
    <2>9. AnswersOK(a, R)
      <3>1. (Lower(Peer[a]) <=> ~Lower(a)) /\ Peer[a] \in Agent
        BY Peers
      <3>2. ~Lower(a) => s.ctrl = c
        BY <2>6 DEF Good
      <3>3. CASE m.ctrl = s.ctrl /\ ~GivesWay(a, s, m)
        <4>1. R = Reply(a, m, "conflict")
          BY <2>5, <3>3 DEF Answer
        <4>2. \A n \in R : n.kind = "conflict" /\ n.tid = m.tid
          BY <1>6, <2>6, <4>1, ReplyIs
        <4>3. ~Lower(a)
          BY <3>3 DEF GivesWay, Lower
        <4>4. m.kind = "request" /\ m.to = a /\ m.ctrl = Role(a)
          BY <1>2, <1>3, <1>6, <3>2, <3>3, <4>3
        <4> QED
          BY <3>1, <4>2, <4>3, <4>4 DEF AnswersOK
      <3>4. CASE ~(m.ctrl = s.ctrl /\ ~GivesWay(a, s, m))
        <4>1. R = Reply(a, m, "response")
          BY <2>5, <3>4 DEF Answer
        <4>2. \A n \in R : n.kind = "response"
          BY <1>6, <2>6, <4>1, ReplyIs
        <4>3. Lower(Peer[a]) => m.ctrl # c
          BY <3>1, <3>2, <3>4 DEF GivesWay, Lower
        <4>4. Lower(Peer[a]) => ag[Peer[a]].ctrl # c
          BY <1>4, <1>6, <4>3
        <4> QED
          BY <1>2, <4>2, <4>4 DEF AnswersOK
      <3> QED
        BY <3>3, <3>4
    <2>10. u \in Good(a, Role(a), R) /\ (ag[a].ctrl # Role(a) => u.ctrl # Role(a))
      BY <1>2, <2>4, <2>7, <2>8
    <2> QED
      BY <2>2, <2>9, <2>10, BecomeKeeps
  <1>7. CASE m.kind # "request"
    <2>1. PICK u : u = priv_map_reply_to_conn_check_request(ag[a], m)
      OBVIOUS
    <2>2. Become(a, u, rest)
      BY <1>3, <1>5, <1>7, <2>1
    <2>3. u \in Good(a, c, {}) /\ (ag[a].ctrl # c => u.ctrl # c)
      BY <1>1, <1>2, <1>3, <1>4, <1>7, <2>1, MapReplyGood
    <2>4. u \in Good(a, Role(a), {}) /\ (ag[a].ctrl # Role(a) => u.ctrl # Role(a))
      BY <1>2, <2>3
    <2> QED
      BY <2>2, <2>4, NoAnswers, BecomeKeeps
  <1> QED
    BY <1>6, <1>7

LEMMA LoseKeeps ==
  ASSUME IInv, Lose
  PROVE  IInv' /\ (RolesDiffer => RolesDiffer')
  <1>1. PICK m \in net : net' = net \ {m}
    BY DEF Lose
  <1>2. ag' = ag
    BY DEF Lose
  <1>3. net' \in SUBSET net /\ net' \subseteq Message /\ IsFiniteSet(net')
    <2>1. IsFiniteSet(net) /\ net \subseteq Message
      BY DEF IInv
    <2>2. net \ {m} \in SUBSET net
      OBVIOUS
    <2>3. IsFiniteSet(net \ {m})
      BY <2>1, <2>2, FS_Subset
    <2> QED
      BY <1>1, <2>1, <2>2, <2>3
  <1>4. ASSUME NEW x \in Agent PROVE Role(x)' = Role(x)
    BY <1>2 DEF Role, Lower
  <1>5. ASSUME NEW x \in Agent PROVE (ag[x] \in Good(x, Role(x), {}) /\ ag[x].out = {})'
    <2>1. ag[x] \in Good(x, Role(x), {}) /\ ag[x].out = {}
      BY DEF IInv
    <2>2. ag'[x] = ag[x] /\ Role(x)' = Role(x)
      BY <1>2, <1>4
    <2> QED
      BY <1>3, <2>1, <2>2 DEF Good, Apart, OutOK, Lower
  <1>6. ASSUME NEW x \in Agent PROVE NetOK(x)'
    <2>1. NetOK(x)
      BY DEF IInv
    <2> QED
      BY <1>2, <1>3, <1>4, <2>1 DEF NetOK, Lower
  <1>7. RolesDiffer => RolesDiffer'
    BY <1>2 DEF RolesDiffer
  <1> QED
    BY <1>2, <1>3, <1>5, <1>6, <1>7 DEF IInv

LEMMA NextKeeps == IInv /\ [Next]_vars => IInv' /\ (RolesDiffer => RolesDiffer')
  <1> SUFFICES ASSUME IInv, [Next]_vars PROVE IInv' /\ (RolesDiffer => RolesDiffer')
    OBVIOUS
  <1>1. ASSUME NEW a \in Agent, nice_agent_set_remote_candidates(a)
        PROVE  IInv' /\ (RolesDiffer => RolesDiffer')
    BY <1>1, SetRemoteCandidatesKeeps
  <1>2. ASSUME NEW a \in Agent, priv_conn_check_tick(a)
        PROVE  IInv' /\ (RolesDiffer => RolesDiffer')
    BY <1>2, TickKeeps
  <1>3. ASSUME NEW a \in Agent, conn_check_handle_inbound_stun(a)
        PROVE  IInv' /\ (RolesDiffer => RolesDiffer')
    BY <1>3, InboundKeeps
  <1>4. CASE Lose
    BY <1>4, LoseKeeps
  <1>5. CASE UNCHANGED vars
    <2>1. ag' = ag /\ net' = net
      BY <1>5 DEF vars
    <2> QED
      BY <2>1 DEF IInv, Good, Apart, OutOK, NetOK, Role, Lower, RolesDiffer
  <1> QED
    BY <1>1, <1>2, <1>3, <1>4, <1>5 DEF Next

-----------------------------------------------------------------------------
(* The theorems.                                                           *)

(* The inductive invariant: the pairs know their candidates and their      *)
(* transactions, only the agent with the lower tie breaker ever changes    *)
(* its role and only to the other role than its peer's, and none of its    *)
(* pairs is valid before it has.                                           *)
THEOREM Invariance == Spec => []IInv
  <1>1. Init => IInv
    BY InitIInv
  <1>2. IInv /\ [Next]_vars => IInv'
    BY NextKeeps
  <1> QED
    BY <1>1, <1>2, PTL DEF Spec

(* TypeOK for any agents, candidates, priorities, networks and bounds: in  *)
(* particular no check is sent more than MaxTrans times, and a pair has a  *)
(* transaction exactly while its check is in progress.                     *)
THEOREM TypeCorrect == Spec => []TypeOK
  <1>1. IInv => TypeOK
    <2> SUFFICES ASSUME IInv, NEW a \in Agent
                 PROVE  /\ ag[a].ctrl \in BOOLEAN /\ ag[a].timer \in BOOLEAN /\ ag[a].out = {}
                        /\ ag[a].state \in {"GATHERING", "CONNECTING", "CONNECTED", "READY", "FAILED"}
                        /\ ToSet(ag[a].local) \cup ToSet(ag[a].remote) \subseteq DOMAIN Sock
                        /\ \A p \in ToSet(ag[a].list) :
                             /\ p.state \in CheckState /\ p.nominated \in BOOLEAN /\ p.sent \in 0 .. MaxTrans
                             /\ p.local \in ToSet(ag[a].local) /\ p.remote \in ToSet(ag[a].remote)
                             /\ (p.tid # 0) = (p.state = "IN_PROGRESS")
      BY DEF TypeOK
    <2>1. PICK s : s = ag[a]
      OBVIOUS
    <2>2. s \in Good(a, Role(a), {}) /\ s.out = {} /\ s \in State
      BY <2>1 DEF IInv, Good
    <2>3. /\ s.ctrl \in BOOLEAN /\ s.timer \in BOOLEAN /\ s.state \in ComponentState
          /\ s.local \in Seq(Addr) /\ s.remote \in Seq(Addr) /\ s.list \in Seq(Pair)
      BY <2>2 DEF State
    <2>4. ToSet(s.local) \cup ToSet(s.remote) \subseteq DOMAIN Sock
      BY <2>3 DEF ToSet, Addr
    <2>5. ASSUME NEW p \in ToSet(s.list)
          PROVE  /\ p.state \in CheckState /\ p.nominated \in BOOLEAN /\ p.sent \in 0 .. MaxTrans
                 /\ p.local \in ToSet(s.local) /\ p.remote \in ToSet(s.remote)
                 /\ (p.tid # 0) = (p.state = "IN_PROGRESS")
      <3>1. PICK i \in DOMAIN s.list : p = s.list[i]
        BY DEF ToSet
      <3>2. p \in Pair
        BY <2>3, <3>1
      <3>3. /\ p.local \in ToSet(s.local) /\ p.remote \in ToSet(s.remote)
            /\ (p.tid # 0) = (p.state = "IN_PROGRESS")
        BY <2>2, <3>1 DEF Good, PairOK
      <3> QED
        BY <3>2, <3>3 DEF Pair
    <2> QED
      BY <2>1, <2>2, <2>3, <2>4, <2>5 DEF ComponentState
  <1> QED
    BY <1>1, Invariance, PTL

(* The pair media are sent on is the best of the nominated valid pairs,    *)
(* whatever is lost, late or early and whenever the roles change.          *)
THEOREM BestIsSelected == Spec => []SelectedIsBest
  <1>1. IInv => SelectedIsBest
    <2> SUFFICES ASSUME IInv, NEW a \in Agent
                 PROVE  /\ \A p \in ToSet(ag[a].list) : Valid(p) /\ p.nominated => p.prio <= ag[a].sel.prio
                        /\ ag[a].state = "READY" => ag[a].sel # NoPair
      BY DEF SelectedIsBest
    <2>1. PICK s : s = ag[a]
      OBVIOUS
    <2>2. s \in Good(a, Role(a), {})
      BY <2>1 DEF IInv
    <2>3. \A p \in ToSet(s.list) : Valid(p) /\ p.nominated => p.prio <= s.sel.prio
      BY <2>2 DEF Good, PairOK, ToSet
    <2>4. s.state = "READY" => s.sel.prio > 0
      BY <2>2 DEF Good
    <2>5. NoPair.prio = 0
      BY DEF NoPair
    <2>6. s.state = "READY" => s.sel # NoPair
      BY <2>4, <2>5
    <2> QED
      BY <2>1, <2>3, <2>6
  <1> QED
    BY <1>1, Invariance, PTL

(* Two peers with different roles keep them, whatever requests and errors  *)
(* of an earlier conflict are still under way.                             *)
THEOREM RolesAreKept == Spec => RolesStay
  <1>1. IInv /\ [Next]_vars => (RolesDiffer => RolesDiffer')
    BY NextKeeps
  <1>2. IInv /\ [Next]_vars => [RolesDiffer => RolesDiffer']_vars
    BY <1>1
  <1> QED
    BY <1>2, Invariance, PTL DEF Spec, RolesStay
=============================================================================

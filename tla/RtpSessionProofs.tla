-------------------------- MODULE RtpSessionProofs --------------------------
(* TLAPS proofs about RtpSession, for any identifiers, hosts, multipliers and *)
(* number of packets: its type invariant, and that the counters of the table  *)
(* are what a walk through it counts, activecount no more than that.          *)
EXTENDS RtpSession, Counting

(* The table and its counters, as the operators take them: every operator  *)
(* of the model maps such a record to such a record.                       *)
IsTable(t) == /\ DOMAIN t \subseteq Ssrc /\ IsFiniteSet(DOMAIN t)
              /\ t \in [DOMAIN t -> Entry]

Senders(t) == {q \in DOMAIN t : t[q].sender}
Actives(t) == {q \in DOMAIN t : IsActive(t[q])}

Shape(s) ==
  /\ s = [table |-> s.table, own |-> s.own, total |-> s.total, sender |-> s.sender,
          active |-> s.active, owncollision |-> s.owncollision]
  /\ s.own \in Ssrc /\ s.owncollision \in BOOLEAN

IsSources(s) == Shape(s) /\ IsTable(s.table)

Counted(s) ==
  /\ s.total = Cardinality(DOMAIN s.table)
  /\ s.sender = Cardinality(Senders(s.table))
  /\ s.active \in Int /\ s.active <= Cardinality(Actives(s.table))

OwnStands(s) ==
  /\ s.own \in DOMAIN s.table
  /\ IsActive(s.table[s.own])
  /\ \A p \in Proto : s.table[s.own].addr[p] = Null

Good(s) == IsSources(s) /\ Counted(s) /\ OwnStands(s)

(* Entries other than the peer's and our own come from noise.              *)
Others(s) == DOMAIN s.table \ {Peer, s.own}

IsFcn(f) == f = [x \in DOMAIN f |-> f[x]]

LEMMA TableSets ==
  ASSUME NEW t, IsTable(t)
  PROVE  /\ IsFiniteSet(Senders(t)) /\ IsFiniteSet(Actives(t))
         /\ Cardinality(DOMAIN t) \in Nat /\ Cardinality(Senders(t)) \in Nat /\ Cardinality(Actives(t)) \in Nat
<1>1. Senders(t) \in SUBSET DOMAIN t /\ Actives(t) \in SUBSET DOMAIN t
  BY DEF Senders, Actives
<1>2. IsFiniteSet(DOMAIN t)
  BY DEF IsTable
<1>3. IsFiniteSet(Senders(t)) /\ IsFiniteSet(Actives(t))
  BY <1>1, <1>2, FS_Subset
<1> QED BY <1>2, <1>3, FS_CardinalityType

(* One entry is changed or added ...                                       *)
LEMMA SetEntry ==
  ASSUME NEW t, IsTable(t), NEW u, NEW k \in Ssrc, NEW e \in Entry,
         DOMAIN u = DOMAIN t \cup {k}, u \in [DOMAIN u -> Entry], u[k] = e,
         \A q \in DOMAIN t : q # k => u[q] = t[q]
  PROVE  /\ IsTable(u)
         /\ k \in DOMAIN t => DOMAIN u = DOMAIN t
         /\ k \notin DOMAIN t => Cardinality(DOMAIN u) = Cardinality(DOMAIN t) + 1
         /\ Cardinality(Senders(u)) = Cardinality(Senders(t))
              + (IF e.sender THEN 1 ELSE 0) - (IF k \in Senders(t) THEN 1 ELSE 0)
         /\ Cardinality(Actives(u)) = Cardinality(Actives(t))
              + (IF IsActive(e) THEN 1 ELSE 0) - (IF k \in Actives(t) THEN 1 ELSE 0)
<1>0. IsFiniteSet(DOMAIN t) /\ IsFiniteSet(Senders(t)) /\ IsFiniteSet(Actives(t))
  BY TableSets DEF IsTable
<1>1. \A q : q # k => (q \in DOMAIN u <=> q \in DOMAIN t)
  OBVIOUS
<1>2. \A q : q # k => (q \in Senders(u) <=> q \in Senders(t))
  BY DEF Senders
<1>3. \A q : q # k => (q \in Actives(u) <=> q \in Actives(t))
  BY DEF Actives
<1>4. IsFiniteSet(DOMAIN u) /\ (k \notin DOMAIN t => Cardinality(DOMAIN u) = Cardinality(DOMAIN t) + 1)
  BY <1>0, <1>1, CardPoint
<1>5. k \in Senders(u) <=> e.sender
  BY DEF Senders
<1>6. k \in Actives(u) <=> IsActive(e)
  BY DEF Actives
<1>7. Cardinality(Senders(u)) = Cardinality(Senders(t))
         + (IF e.sender THEN 1 ELSE 0) - (IF k \in Senders(t) THEN 1 ELSE 0)
  <2>1. /\ Cardinality(Senders(t)) \in Nat /\ Cardinality(Senders(u)) \in Nat
        /\ (k \in Senders(t) <=> k \in Senders(u)) => Cardinality(Senders(u)) = Cardinality(Senders(t))
        /\ k \in Senders(t) /\ k \notin Senders(u) => Cardinality(Senders(u)) = Cardinality(Senders(t)) - 1
        /\ k \notin Senders(t) /\ k \in Senders(u) => Cardinality(Senders(u)) = Cardinality(Senders(t)) + 1
    BY <1>0, <1>2, CardPoint
  <2> QED BY <2>1, <1>5
<1>8. Cardinality(Actives(u)) = Cardinality(Actives(t))
         + (IF IsActive(e) THEN 1 ELSE 0) - (IF k \in Actives(t) THEN 1 ELSE 0)
  <2>1. /\ Cardinality(Actives(t)) \in Nat /\ Cardinality(Actives(u)) \in Nat
        /\ (k \in Actives(t) <=> k \in Actives(u)) => Cardinality(Actives(u)) = Cardinality(Actives(t))
        /\ k \in Actives(t) /\ k \notin Actives(u) => Cardinality(Actives(u)) = Cardinality(Actives(t)) - 1
        /\ k \notin Actives(t) /\ k \in Actives(u) => Cardinality(Actives(u)) = Cardinality(Actives(t)) + 1
    BY <1>0, <1>3, CardPoint
  <2> QED BY <2>1, <1>6
<1>9. IsTable(u)
  BY <1>4 DEF IsTable
<1> QED BY <1>4, <1>7, <1>8, <1>9

LEMMA NewType ==
  /\ NewEntry \in Entry /\ ~NewEntry.sender /\ ~IsActive(NewEntry) /\ NewEntry.bye = FALSE
  /\ \A p \in Proto : NewEntry.addr[p] = Unset
BY MultiplierAssumption DEF NewEntry, Entry, IsActive, RTP_PROBATIONCOUNT

(* ... with the counters that say so, the sources stay counted.            *)
Replaces(s, k, u) ==
  /\ DOMAIN u.table = DOMAIN s.table \cup {k} /\ u.table[k] \in Entry
  /\ \A q \in DOMAIN s.table : q # k => u.table[q] = s.table[q]
  /\ u.total = s.total + (IF k \in DOMAIN s.table THEN 0 ELSE 1)
  /\ u.sender = s.sender + (IF u.table[k].sender THEN 1 ELSE 0) - (IF k \in Senders(s.table) THEN 1 ELSE 0)
  /\ u.active <= s.active + (IF IsActive(u.table[k]) THEN 1 ELSE 0) - (IF k \in Actives(s.table) THEN 1 ELSE 0)

LEMMA Replace ==
  ASSUME NEW s, IsSources(s), Counted(s), NEW k \in Ssrc, NEW u,
         Shape(u), u.active \in Int, IsFcn(u.table), Replaces(s, k, u)
  PROVE  IsSources(u) /\ Counted(u)
<1>0. IsTable(s.table) /\ s.table \in [DOMAIN s.table -> Entry]
  BY DEF IsSources, IsTable
<1> DEFINE tab == u.table
           e == u.table[k]
<1>1. /\ DOMAIN tab = DOMAIN s.table \cup {k} /\ e \in Entry /\ tab[k] = e
      /\ \A q \in DOMAIN s.table : q # k => tab[q] = s.table[q]
  BY DEF Replaces
<1>a. tab \in [DOMAIN tab -> Entry]
  BY <1>0, <1>1 DEF IsFcn
<1>b. /\ u.total = s.total + (IF k \in DOMAIN s.table THEN 0 ELSE 1)
      /\ u.sender = s.sender + (IF e.sender THEN 1 ELSE 0) - (IF k \in Senders(s.table) THEN 1 ELSE 0)
      /\ u.active <= s.active + (IF IsActive(e) THEN 1 ELSE 0) - (IF k \in Actives(s.table) THEN 1 ELSE 0)
  BY DEF Replaces
<1> HIDE DEF tab, e
<1>2. /\ IsTable(tab)
      /\ Cardinality(Senders(tab)) = Cardinality(Senders(s.table))
              + (IF e.sender THEN 1 ELSE 0) - (IF k \in Senders(s.table) THEN 1 ELSE 0)
      /\ Cardinality(Actives(tab)) = Cardinality(Actives(s.table))
              + (IF IsActive(e) THEN 1 ELSE 0) - (IF k \in Actives(s.table) THEN 1 ELSE 0)
  BY <1>0, <1>1, <1>a, SetEntry
<1>4. Cardinality(DOMAIN s.table) \in Nat /\ Cardinality(Senders(s.table)) \in Nat
      /\ Cardinality(Actives(s.table)) \in Nat /\ Cardinality(Actives(tab)) \in Nat
  BY <1>0, <1>2, TableSets
<1>5. Cardinality(DOMAIN tab) = Cardinality(DOMAIN s.table) + (IF k \in DOMAIN s.table THEN 0 ELSE 1)
  <2>1. CASE k \in DOMAIN s.table
    <3>1. DOMAIN tab = DOMAIN s.table BY <1>1, <2>1
    <3> QED BY <1>4, <2>1, <3>1
  <2>2. CASE k \notin DOMAIN s.table
    BY <1>0, <1>1, <1>a, <2>2, SetEntry
  <2> QED BY <2>1, <2>2
<1>7. /\ s.total = Cardinality(DOMAIN s.table) /\ s.sender = Cardinality(Senders(s.table))
      /\ s.active \in Int /\ s.active <= Cardinality(Actives(s.table))
  BY DEF Counted
<1>8. u.active <= Cardinality(Actives(tab))
  BY <1>2, <1>4, <1>7, <1>b
<1>9. u.total = Cardinality(DOMAIN tab) /\ u.sender = Cardinality(Senders(tab))
  BY <1>2, <1>5, <1>7, <1>b
<1>10. IsSources(u)
  BY <1>2 DEF IsSources, tab
<1> QED BY <1>8, <1>9, <1>10 DEF Counted, tab

LEMMA ObtainEffect ==
  ASSUME NEW s, IsSources(s), Counted(s), NEW q \in Ssrc, NEW t, t = ObtainSourceDataInstance(s, q)
  PROVE  /\ IsSources(t) /\ Counted(t) /\ DOMAIN t.table = DOMAIN s.table \cup {q}
         /\ \A x \in DOMAIN s.table : t.table[x] = s.table[x]
         /\ q \notin DOMAIN s.table => t.table[q] = NewEntry
         /\ t.own = s.own /\ t.owncollision = s.owncollision
<1>1. CASE q \in DOMAIN s.table
  BY <1>1 DEF ObtainSourceDataInstance
<1>2. CASE q \notin DOMAIN s.table
  <2>0. IsTable(s.table) /\ s.own \in Ssrc /\ s.owncollision \in BOOLEAN
    BY DEF IsSources, Shape, Counted
  <2>1. t = [table |-> Put(s.table, q, NewEntry), own |-> s.own, total |-> s.total + 1, sender |-> s.sender,
             active |-> s.active, owncollision |-> s.owncollision]
    BY <1>2 DEF ObtainSourceDataInstance, IsSources, Shape
  <2>a. /\ Shape(t) /\ t.table = Put(s.table, q, NewEntry) /\ t.own = s.own /\ t.total = s.total + 1
        /\ t.sender = s.sender /\ t.active = s.active
        /\ t.owncollision = s.owncollision
    BY <2>0, <2>1 DEF Shape
  <2>2. /\ DOMAIN t.table = DOMAIN s.table \cup {q} /\ IsFcn(t.table) /\ t.table[q] = NewEntry
        /\ \A x \in DOMAIN s.table : x # q => t.table[x] = s.table[x]
    BY <2>0, <2>a DEF Put, IsTable, IsFcn
  <2>3. q \notin Senders(s.table) /\ q \notin Actives(s.table)
    BY <1>2 DEF Senders, Actives
  <2>4. s.sender \in Int /\ s.active \in Int /\ s.total \in Int
    BY <2>0, TableSets DEF Counted
  <2>5. Replaces(s, q, t)
    BY <1>2, <2>0, <2>a, <2>2, <2>3, <2>4, NewType DEF Replaces
  <2>6. IsSources(t) /\ Counted(t)
    BY <2>0, <2>a, <2>2, <2>4, <2>5, Replace
  <2> QED BY <1>2, <2>2, <2>a, <2>6
<1> QED BY <1>1, <1>2
-----------------------------------------------------------------------------
(* What a packet does to the entry of its source.                          *)
IsPacket(p) == /\ p.kind \in {"rtp", "report", "cname", "bye"} /\ p.ssrc \in Ssrc /\ p.csrc \in SUBSET Ssrc
               /\ p.from \in Host \cup {Null} /\ p.stream \in {"peer", "other"}
               /\ p.gap \in BOOLEAN

LEMMA StatsType ==
  ASSUME NEW e \in Entry, NEW p, IsPacket(p), NEW own, NEW f, f = StatsProcessPacket(e, p, own)
  PROVE  /\ f \in Entry
         /\ f.valid = e.valid /\ f.bye = e.bye /\ f.sender = e.sender /\ f.addr = e.addr
<1> DEFINE applyprobation == ~e.sentdata /\ ~e.valid
           inSequence == e.probation > 0 /\ e.stream = p.stream /\ ~p.gap
           left == IF inSequence THEN e.probation - 1 ELSE RTP_PROBATIONCOUNT
           accept == ~applyprobation \/ left = 0
<1>1. /\ e.probation \in 0..2 /\ e.rtpAge \in 0..(senderMultiplier + 1)
      /\ e.stream \in {"none", "peer", "other"} /\ p.stream \in {"peer", "other"}
  BY DEF Entry, IsPacket, RTP_PROBATIONCOUNT
<1>2. left \in 0..2 /\ accept \in BOOLEAN
  BY <1>1 DEF RTP_PROBATIONCOUNT
<1>3. 0 \in 0..(memberMultiplier + 1) /\ 0 \in 0..(senderMultiplier + 1)
  BY MultiplierAssumption
<1>4. PICK a \in BOOLEAN, r \in 0..(senderMultiplier + 1), l \in 0..2, s \in {"none", "peer", "other"} :
        f = [e EXCEPT !.sentdata = a, !.msgAge = 0, !.rtpAge = r, !.probation = l, !.stream = s]
  <2> DEFINE r0 == IF accept /\ ~own THEN 0 ELSE e.rtpAge
             l0 == IF applyprobation THEN left ELSE e.probation
             s0 == IF applyprobation THEN p.stream ELSE e.stream
  <2>1. f = [e EXCEPT !.sentdata = accept, !.msgAge = 0, !.rtpAge = r0, !.probation = l0, !.stream = s0]
    BY DEF StatsProcessPacket, Entry
  <2>2. accept \in BOOLEAN /\ r0 \in 0..(senderMultiplier + 1) /\ l0 \in 0..2 /\ s0 \in {"none", "peer", "other"}
    BY <1>1, <1>2, <1>3
  <2> HIDE DEF accept, r0, l0, s0
  <2> QED BY <2>1, <2>2, Zenon
<1> QED BY <1>3, <1>4 DEF Entry, RTP_PROBATIONCOUNT

LEMMA SourceType ==
  ASSUME NEW e \in Entry, NEW p, IsPacket(p), NEW own, NEW f, f = SourceProcessPacket(e, p, own)
  PROVE  /\ f \in Entry /\ f.bye = e.bye /\ f.addr = e.addr
         /\ e.valid => f.valid
         /\ e.sender => f.sender
<1> DEFINE g == StatsProcessPacket(e, p, own)
<1>1. g \in Entry /\ g.valid = e.valid /\ g.bye = e.bye /\ g.sender = e.sender /\ g.addr = e.addr
  BY StatsType
<1>2. f = [g EXCEPT !.valid = g.valid \/ g.sentdata, !.sender = g.sender \/ (g.sentdata /\ ~own)]
  BY <1>1 DEF SourceProcessPacket, Entry
<1> HIDE DEF g
<1>3. PICK v \in BOOLEAN, w \in BOOLEAN :
        /\ f = [g EXCEPT !.valid = v, !.sender = w] /\ (g.valid => v) /\ (g.sender => w)
  <2>1. (g.valid \/ g.sentdata) \in BOOLEAN /\ (g.sender \/ (g.sentdata /\ ~own)) \in BOOLEAN
    OBVIOUS
  <2> QED BY <1>2, <2>1
<1> QED BY <1>1, <1>3 DEF Entry
-----------------------------------------------------------------------------
(* What a packet does to the table.                                        *)
LEMMA CollisionNull ==
  ASSUME NEW s, OwnStands(s), NEW from, NEW proto \in Proto
  PROVE  CheckCollision(s, s.own, from, proto) <=> from # Null
<1>1. s.table[s.own].addr[proto] = Null
  BY DEF OwnStands
<1>2. Null # Unset
  BY DEF Null, Unset
<1> QED BY <1>1, <1>2 DEF CheckCollision

LEMMA CollisionEffect ==
  ASSUME NEW s, Good(s), NEW q, NEW from, NEW proto \in Proto, CheckCollision(s, q, from, proto),
         NEW r, r = OnSSRCCollision(s, q)
  PROVE  /\ Good(r) /\ r.table = s.table /\ r.own = s.own
         /\ r.owncollision => s.owncollision \/ from # Null
<1>1. Shape(s) /\ OwnStands(s)
  BY DEF Good, IsSources
<1>2. /\ Shape(r) /\ r.table = s.table /\ r.own = s.own /\ r.total = s.total /\ r.sender = s.sender
      /\ r.active = s.active
      /\ r.owncollision => s.owncollision \/ q = s.own
  BY <1>1 DEF OnSSRCCollision, Shape
<1>3. Good(r)
  BY <1>2 DEF Good, IsSources, Counted, OwnStands
<1> QED BY <1>1, <1>2, <1>3, CollisionNull

(* The own entry after one entry was replaced.                             *)
LEMMA OwnReplaced ==
  ASSUME NEW s, OwnStands(s), NEW k, NEW u, Replaces(s, k, u), u.own = s.own,
         k = s.own => IsActive(u.table[k]) /\ \A p \in Proto : u.table[k].addr[p] = Null
  PROVE  OwnStands(u)
<1>1. CASE k = s.own
  BY <1>1 DEF OwnStands, Replaces
<1>2. CASE k # s.own
  <2>1. u.table[s.own] = s.table[s.own] /\ s.own \in DOMAIN u.table
    BY <1>2 DEF OwnStands, Replaces
  <2> QED BY <2>1 DEF OwnStands
<1> QED BY <1>1, <1>2

LEMMA ObtainGood ==
  ASSUME NEW s, Good(s), NEW q \in Ssrc, NEW t, t = ObtainSourceDataInstance(s, q)
  PROVE  Good(t)
<1>1. /\ IsSources(t) /\ Counted(t) /\ t.own = s.own /\ DOMAIN t.table = DOMAIN s.table \cup {q}
      /\ \A x \in DOMAIN s.table : t.table[x] = s.table[x]
  BY ObtainEffect DEF Good
<1>2. OwnStands(t)
  BY <1>1 DEF Good, OwnStands
<1> QED BY <1>1, <1>2 DEF Good

LEMMA CountsType ==
  ASSUME NEW s, IsSources(s), Counted(s)
  PROVE  s.total \in Nat /\ s.sender \in Nat /\ s.active \in Int
BY TableSets DEF IsSources, Counted

(* A contributing source ...                                               *)
LEMMA CsrcEffect ==
  ASSUME NEW s, Good(s), NEW c \in Ssrc, NEW from \in Host \cup {Null}, NEW r, r = ProcessCSRC(s, c, from)
  PROVE  /\ Good(r) /\ DOMAIN r.table = DOMAIN s.table \cup {c} /\ r.own = s.own
         /\ r.owncollision => s.owncollision \/ from # Null
<1>0. "rtp" \in Proto /\ "rtcp" \in Proto
  BY DEF Proto
<1>1. CASE c \notin DOMAIN s.table
  <2>1. PICK t : t = ObtainSourceDataInstance(s, c)
    OBVIOUS
  <2>2. /\ IsSources(t) /\ Counted(t) /\ DOMAIN t.table = DOMAIN s.table \cup {c} /\ t.table[c] = NewEntry
        /\ t.own = s.own /\ t.owncollision = s.owncollision /\ OwnStands(t)
    BY <1>1, <2>1, ObtainEffect, ObtainGood DEF Good
  <2>3. r = [t EXCEPT !.table[c].valid = TRUE, !.active = t.active + 1]
    BY <1>1, <2>1 DEF ProcessCSRC
  <2>4. Shape(t) /\ IsTable(t.table) /\ c \in DOMAIN t.table
    BY <2>2 DEF IsSources
  <2>5. /\ Shape(r) /\ r.table = [t.table EXCEPT ![c].valid = TRUE] /\ r.own = t.own /\ r.total = t.total
        /\ r.sender = t.sender /\ r.active = t.active + 1
        /\ r.owncollision = t.owncollision
    BY <2>3, <2>4 DEF Shape
  <2>6. /\ DOMAIN r.table = DOMAIN t.table /\ IsFcn(r.table) /\ r.table[c] = [NewEntry EXCEPT !.valid = TRUE]
        /\ \A q \in DOMAIN t.table : q # c => r.table[q] = t.table[q]
    BY <2>2, <2>4, <2>5 DEF IsTable, IsFcn
  <2>7. r.table[c] \in Entry /\ ~r.table[c].sender /\ IsActive(r.table[c])
    <3>1. PICK e : e = [NewEntry EXCEPT !.valid = TRUE]
      OBVIOUS
    <3>2. e \in Entry /\ ~e.sender /\ e.valid /\ e.bye = FALSE
      BY <3>1, NewType DEF Entry
    <3> QED BY <2>6, <3>1, <3>2 DEF IsActive
  <2>8. c \notin Senders(t.table) /\ c \notin Actives(t.table)
    BY <2>2, NewType DEF Senders, Actives
  <2>9. t.total \in Nat /\ t.sender \in Nat /\ t.active \in Int
    BY <2>2, CountsType
  <2>10. Replaces(t, c, r)
    BY <2>4, <2>5, <2>6, <2>7, <2>8, <2>9 DEF Replaces
  <2>11. IsSources(r) /\ Counted(r)
    BY <2>2, <2>5, <2>6, <2>9, <2>10, Replace
  <2>12. c # t.own
    BY <1>1, <2>2 DEF Good, OwnStands
  <2>13. OwnStands(r)
    BY <2>2, <2>5, <2>10, <2>12, OwnReplaced
  <2> QED BY <2>2, <2>5, <2>6, <2>11, <2>13 DEF Good
<1>2. CASE c \in DOMAIN s.table /\ CheckCollision(s, c, from, "rtp")
  <2>1. r = OnSSRCCollision(s, c)
    BY <1>2 DEF ProcessCSRC
  <2> QED BY <1>0, <1>2, <2>1, CollisionEffect
<1>3. CASE c \in DOMAIN s.table /\ ~CheckCollision(s, c, from, "rtp")
  <2>1. r = [s EXCEPT !.table[c].valid = TRUE, !.table[c].addr["rtp"] = from]
    BY <1>3 DEF ProcessCSRC
  <2>2. IsSources(s) /\ Counted(s) /\ Shape(s) /\ IsTable(s.table) /\ OwnStands(s)
    BY DEF Good, IsSources
  <2>3. /\ Shape(r) /\ r.table = [[s.table EXCEPT ![c].valid = TRUE] EXCEPT ![c].addr["rtp"] = from]
        /\ r.own = s.own /\ r.total = s.total /\ r.sender = s.sender /\ r.active = s.active
        /\ r.owncollision = s.owncollision
    BY <2>1, <2>2 DEF Shape
  <2>4. /\ DOMAIN r.table = DOMAIN s.table /\ IsFcn(r.table)
        /\ r.table[c] = [[s.table[c] EXCEPT !.valid = TRUE] EXCEPT !.addr["rtp"] = from]
        /\ \A q \in DOMAIN s.table : q # c => r.table[q] = s.table[q]
    BY <1>3, <2>2, <2>3 DEF IsTable, IsFcn
  <2>5. s.table[c] \in Entry
    BY <1>3, <2>2 DEF IsTable
  <2>6. PICK g : g = [s.table[c] EXCEPT !.valid = TRUE]
    OBVIOUS
  <2>7. g \in Entry /\ g.valid /\ g.bye = s.table[c].bye /\ g.sender = s.table[c].sender /\ g.addr = s.table[c].addr
    BY <2>5, <2>6 DEF Entry
  <2>8. /\ r.table[c] \in Entry /\ r.table[c].valid = g.valid /\ r.table[c].bye = g.bye
        /\ r.table[c].sender = g.sender /\ r.table[c].addr["rtp"] = from /\ r.table[c].addr["rtcp"] = g.addr["rtcp"]
    <3>1. PICK f : f = [g EXCEPT !.addr["rtp"] = from]
      OBVIOUS
    <3>2. /\ f \in Entry /\ f.valid = g.valid /\ f.bye = g.bye /\ f.sender = g.sender
          /\ f.addr["rtp"] = from /\ f.addr["rtcp"] = g.addr["rtcp"]
      BY <1>0, <2>7, <3>1 DEF Entry, Proto
    <3>3. r.table[c] = f
      BY <2>4, <2>6, <3>1
    <3> QED BY <3>2, <3>3
  <2>9. /\ c \in Senders(s.table) <=> r.table[c].sender
        /\ c \in Actives(s.table) <=> s.table[c].valid /\ ~s.table[c].bye
        /\ IsActive(r.table[c]) <=> ~s.table[c].bye
    BY <1>3, <2>7, <2>8 DEF Senders, Actives, IsActive
  <2>10. s.total \in Nat /\ s.sender \in Nat /\ s.active \in Int
    BY <2>2, CountsType
  <2>11. Replaces(s, c, r)
    BY <1>3, <2>3, <2>4, <2>8, <2>9, <2>10 DEF Replaces
  <2>12. IsSources(r) /\ Counted(r)
    BY <2>2, <2>3, <2>4, <2>10, <2>11, Replace
  <2>13. ASSUME c = s.own PROVE IsActive(r.table[c]) /\ \A p \in Proto : r.table[c].addr[p] = Null
    <3>1. from = Null
      BY <1>0, <1>3, <2>2, <2>13, CollisionNull
    <3>2. IsActive(s.table[c]) /\ s.table[c].addr["rtcp"] = Null
      BY <1>0, <2>2, <2>13 DEF OwnStands
    <3> QED BY <2>7, <2>8, <3>1, <3>2 DEF IsActive, Proto
  <2>14. OwnStands(r)
    BY <2>2, <2>3, <2>11, <2>13, OwnReplaced
  <2> QED BY <1>3, <2>3, <2>4, <2>12, <2>14 DEF Good
<1> QED BY <1>1, <1>2, <1>3

(* ... and a whole packet.                                                 *)
Processed(s, p, r) ==
  /\ Good(r) /\ DOMAIN r.table \subseteq DOMAIN s.table \cup {p.ssrc} \cup p.csrc /\ r.own = s.own
  /\ r.owncollision => s.owncollision \/ p.from # Null

LEMMA RtpEffect ==
  ASSUME NEW s, Good(s), NEW p, IsPacket(p), NEW r, r = ProcessRTPPacket(s, p)
  PROVE  Processed(s, p, r)
<1>0. "rtp" \in Proto /\ "rtcp" \in Proto /\ p.ssrc \in Ssrc /\ p.from \in Host \cup {Null}
  BY DEF Proto, IsPacket
<1>1. PICK q : q = p.ssrc
  OBVIOUS
<1>2. PICK t : t = ObtainSourceDataInstance(s, q)
  OBVIOUS
<1>3. /\ Good(t) /\ IsSources(t) /\ Counted(t) /\ OwnStands(t) /\ q \in Ssrc
      /\ DOMAIN t.table = DOMAIN s.table \cup {q} /\ t.own = s.own /\ t.owncollision = s.owncollision
  BY <1>0, <1>1, <1>2, ObtainEffect, ObtainGood DEF Good
<1>4. PICK e : e = t.table[q]
  OBVIOUS
<1>5. PICK g : g = [e EXCEPT !.addr["rtp"] = p.from]
  OBVIOUS
<1>6. PICK f : f = SourceProcessPacket(g, p, q = s.own)
  OBVIOUS
<1>7. PICK u : u = [t EXCEPT !.table[q] = f,
                             !.sender = IF ~e.sender /\ f.sender THEN t.sender + 1 ELSE t.sender,
                             !.active = IF ~IsActive(e) /\ IsActive(f) THEN t.active + 1 ELSE t.active]
  OBVIOUS
<1>8. r = IF CheckCollision(t, q, p.from, "rtp") THEN OnSSRCCollision(t, q)
          ELSE IF f.valid /\ p.csrc # {} THEN ProcessCSRC(u, CHOOSE c \in p.csrc : TRUE, p.from) ELSE u
  BY <1>1, <1>2, <1>4, <1>5, <1>6, <1>7 DEF ProcessRTPPacket
<1>9. CASE CheckCollision(t, q, p.from, "rtp")
  <2>1. /\ Good(r) /\ r.table = t.table /\ r.own = t.own
        /\ r.owncollision => t.owncollision \/ p.from # Null
    BY <1>0, <1>3, <1>8, <1>9, CollisionEffect
  <2> QED BY <1>1, <1>3, <2>1 DEF Processed
<1>10. CASE ~CheckCollision(t, q, p.from, "rtp")
  <2>0. Shape(t) /\ IsTable(t.table) /\ q \in DOMAIN t.table
    BY <1>3 DEF IsSources
  <2>1. e \in Entry
    BY <1>4, <2>0 DEF IsTable
  <2>2. /\ g \in Entry /\ g.valid = e.valid /\ g.bye = e.bye /\ g.sender = e.sender
        /\ g.addr["rtp"] = p.from /\ g.addr["rtcp"] = e.addr["rtcp"]
    BY <1>0, <1>5, <2>1 DEF Entry, Proto
  <2>3. f \in Entry /\ f.bye = g.bye /\ f.addr = g.addr /\ (g.valid => f.valid) /\ (g.sender => f.sender)
    BY <1>6, <2>2, SourceType
  <2>4. /\ Shape(u) /\ u.table = [t.table EXCEPT ![q] = f] /\ u.own = t.own /\ u.total = t.total
        /\ u.sender = (IF ~e.sender /\ f.sender THEN t.sender + 1 ELSE t.sender)
        /\ u.active = (IF ~IsActive(e) /\ IsActive(f) THEN t.active + 1 ELSE t.active)
        /\ u.owncollision = t.owncollision
    BY <1>7, <2>0 DEF Shape
  <2>5. /\ DOMAIN u.table = DOMAIN t.table /\ IsFcn(u.table) /\ u.table[q] = f
        /\ \A x \in DOMAIN t.table : x # q => u.table[x] = t.table[x]
    BY <2>0, <2>4 DEF IsTable, IsFcn
  <2>6. (q \in Senders(t.table) <=> e.sender) /\ (q \in Actives(t.table) <=> IsActive(e))
    BY <1>4, <2>0 DEF Senders, Actives
  <2>7. IsActive(e) => IsActive(f)
    BY <2>2, <2>3 DEF IsActive
  <2>8. t.total \in Nat /\ t.sender \in Nat /\ t.active \in Int
    BY <1>3, CountsType
  <2>9. u.sender = t.sender + (IF f.sender THEN 1 ELSE 0) - (IF q \in Senders(t.table) THEN 1 ELSE 0)
    BY <2>2, <2>3, <2>4, <2>6, <2>8
  <2>10. u.active = t.active + (IF IsActive(f) THEN 1 ELSE 0) - (IF q \in Actives(t.table) THEN 1 ELSE 0)
    BY <2>4, <2>6, <2>7, <2>8
  <2>11. Replaces(t, q, u)
    BY <2>0, <2>3, <2>4, <2>5, <2>8, <2>9, <2>10 DEF Replaces
  <2>12. u.active \in Int
    BY <2>4, <2>8
  <2>13. IsSources(u) /\ Counted(u)
    BY <1>3, <2>4, <2>5, <2>11, <2>12, Replace
  <2>14. ASSUME q = t.own PROVE IsActive(u.table[q]) /\ \A x \in Proto : u.table[q].addr[x] = Null
    <3>1. p.from = Null
      BY <1>0, <1>3, <1>10, <2>14, CollisionNull
    <3>2. IsActive(e) /\ e.addr["rtcp"] = Null
      BY <1>0, <1>3, <1>4, <2>14 DEF OwnStands
    <3> QED BY <2>2, <2>3, <2>5, <2>7, <3>1, <3>2 DEF Proto
  <2>15. Good(u)
    <3>1. OwnStands(u)
      BY <1>3, <2>4, <2>11, <2>14, OwnReplaced
    <3> QED BY <2>13, <3>1 DEF Good
  <2>16. CASE r = u
    BY <1>1, <1>3, <2>4, <2>5, <2>15, <2>16 DEF Processed
  <2>17. CASE p.csrc # {} /\ r = ProcessCSRC(u, CHOOSE c \in p.csrc : TRUE, p.from)
    <3>1. PICK c \in p.csrc : r = ProcessCSRC(u, c, p.from)
      BY <2>17
    <3>2. c \in Ssrc
      BY DEF IsPacket
    <3>3. /\ Good(r) /\ DOMAIN r.table = DOMAIN u.table \cup {c} /\ r.own = u.own
          /\ r.owncollision => u.owncollision \/ p.from # Null
      BY <1>0, <2>15, <3>1, <3>2, CsrcEffect
    <3> QED BY <1>1, <1>3, <2>4, <2>5, <3>3 DEF Processed
  <2> QED BY <1>8, <1>10, <2>16, <2>17
<1> QED BY <1>9, <1>10

LEMMA RtcpEffect ==
  ASSUME NEW s, Good(s), NEW p, IsPacket(p), NEW r, r = ProcessRTCPCompoundPacket(s, p)
  PROVE  Processed(s, p, r)
<1>0. "rtp" \in Proto /\ "rtcp" \in Proto /\ p.ssrc \in Ssrc /\ p.from \in Host \cup {Null}
  BY DEF Proto, IsPacket
<1>1. PICK q : q = p.ssrc
  OBVIOUS
<1>2. PICK t : t = ObtainSourceDataInstance(s, q)
  OBVIOUS
<1>3. /\ Good(t) /\ IsSources(t) /\ Counted(t) /\ OwnStands(t) /\ q \in Ssrc
      /\ DOMAIN t.table = DOMAIN s.table \cup {q} /\ t.own = s.own /\ t.owncollision = s.owncollision
  BY <1>0, <1>1, <1>2, ObtainEffect, ObtainGood DEF Good
<1>4. PICK e : e = t.table[q]
  OBVIOUS
<1>5. PICK g : g = [e EXCEPT !.addr["rtcp"] = p.from, !.msgAge = 0]
  OBVIOUS
<1>6. PICK f : f = CASE p.kind = "cname" -> ProcessSDESItem(g)
                     [] EndsSource(s, p) -> ProcessBYE(g)
                     [] OTHER -> g
  OBVIOUS
<1>7. PICK u : u = [t EXCEPT !.table[q] = f,
                             !.active = IF IsActive(e) /\ ~IsActive(f) THEN t.active - 1
                                        ELSE IF ~IsActive(e) /\ IsActive(f) THEN t.active + 1 ELSE t.active]
  OBVIOUS
<1>8. r = IF CheckCollision(t, q, p.from, "rtcp") THEN OnSSRCCollision(t, q) ELSE u
  BY <1>1, <1>2, <1>4, <1>5, <1>6, <1>7 DEF ProcessRTCPCompoundPacket
<1>9. CASE CheckCollision(t, q, p.from, "rtcp")
  <2>1. /\ Good(r) /\ r.table = t.table /\ r.own = t.own
        /\ r.owncollision => t.owncollision \/ p.from # Null
    BY <1>0, <1>3, <1>8, <1>9, CollisionEffect
  <2> QED BY <1>1, <1>3, <2>1 DEF Processed
<1>10. CASE ~CheckCollision(t, q, p.from, "rtcp")
  <2>0. Shape(t) /\ IsTable(t.table) /\ q \in DOMAIN t.table
    BY <1>3 DEF IsSources
  <2>1. e \in Entry
    BY <1>4, <2>0 DEF IsTable
  <2>2. /\ g \in Entry /\ g.valid = e.valid /\ g.bye = e.bye /\ g.sender = e.sender
        /\ g.addr["rtcp"] = p.from /\ g.addr["rtp"] = e.addr["rtp"]
    <3>1. 0 \in 0..(memberMultiplier + 1)
      BY MultiplierAssumption
    <3> QED BY <1>0, <1>5, <2>1, <3>1 DEF Entry, Proto
  <2>3. /\ f \in Entry /\ f.sender = g.sender /\ f.addr = g.addr /\ (g.valid => f.valid)
        /\ q = s.own => f.bye = g.bye
    <3>1. CASE p.kind = "cname"
      <4>1. f = [g EXCEPT !.valid = TRUE] BY <1>6, <3>1 DEF ProcessSDESItem, EndsSource
      <4> QED BY <2>2, <4>1 DEF Entry
    <3>2. CASE p.kind # "cname" /\ EndsSource(s, p)
      <4>1. f = [g EXCEPT !.bye = TRUE, !.byeAge = 0] BY <1>6, <3>2 DEF ProcessBYE
      <4>2. q # s.own BY <1>1, <3>2 DEF EndsSource
      <4>3. 0 \in 0..(byeMultiplier + 1) BY MultiplierAssumption
      <4> QED BY <2>2, <4>1, <4>2, <4>3 DEF Entry
    <3>3. CASE p.kind # "cname" /\ ~EndsSource(s, p)
      BY <1>6, <2>2, <3>3
    <3> QED BY <3>1, <3>2, <3>3
  <2>4. /\ Shape(u) /\ u.table = [t.table EXCEPT ![q] = f] /\ u.own = t.own /\ u.total = t.total
        /\ u.sender = t.sender
        /\ u.active = (IF IsActive(e) /\ ~IsActive(f) THEN t.active - 1
                       ELSE IF ~IsActive(e) /\ IsActive(f) THEN t.active + 1 ELSE t.active)
        /\ u.owncollision = t.owncollision
    BY <1>7, <2>0 DEF Shape
  <2>5. /\ DOMAIN u.table = DOMAIN t.table /\ IsFcn(u.table) /\ u.table[q] = f
        /\ \A x \in DOMAIN t.table : x # q => u.table[x] = t.table[x]
    BY <2>0, <2>4 DEF IsTable, IsFcn
  <2>6. (q \in Senders(t.table) <=> e.sender) /\ (q \in Actives(t.table) <=> IsActive(e))
    BY <1>4, <2>0 DEF Senders, Actives
  <2>8. t.total \in Nat /\ t.sender \in Nat /\ t.active \in Int
    BY <1>3, CountsType
  <2>9. u.sender = t.sender + (IF f.sender THEN 1 ELSE 0) - (IF q \in Senders(t.table) THEN 1 ELSE 0)
    BY <2>2, <2>3, <2>4, <2>6, <2>8
  <2>10. u.active = t.active + (IF IsActive(f) THEN 1 ELSE 0) - (IF q \in Actives(t.table) THEN 1 ELSE 0)
    BY <2>4, <2>6, <2>8
  <2>11. Replaces(t, q, u)
    BY <2>0, <2>3, <2>4, <2>5, <2>8, <2>9, <2>10 DEF Replaces
  <2>12. u.active \in Int
    BY <2>4, <2>8
  <2>13. IsSources(u) /\ Counted(u)
    BY <1>3, <2>4, <2>5, <2>11, <2>12, Replace
  <2>14. ASSUME q = t.own PROVE IsActive(u.table[q]) /\ \A x \in Proto : u.table[q].addr[x] = Null
    <3>1. p.from = Null
      BY <1>0, <1>3, <1>10, <2>14, CollisionNull
    <3>2. IsActive(e) /\ e.addr["rtp"] = Null
      BY <1>0, <1>3, <1>4, <2>14 DEF OwnStands
    <3>3. IsActive(f)
      BY <1>3, <2>2, <2>3, <2>14, <3>2 DEF IsActive
    <3> QED BY <2>2, <2>3, <2>5, <3>1, <3>2, <3>3 DEF Proto
  <2>15. Good(u)
    <3>1. OwnStands(u)
      BY <1>3, <2>4, <2>11, <2>14, OwnReplaced
    <3> QED BY <2>13, <3>1 DEF Good
  <2> QED BY <1>1, <1>3, <1>8, <1>10, <2>4, <2>5, <2>15 DEF Processed
<1> QED BY <1>9, <1>10

LEMMA RawEffect ==
  ASSUME NEW s, Good(s), NEW p, IsPacket(p), NEW r, r = ProcessRawPacket(s, p)
  PROVE  Processed(s, p, r)
<1>1. CASE p.kind = "rtp"
  BY <1>1, RtpEffect DEF ProcessRawPacket
<1>2. CASE p.kind # "rtp"
  BY <1>2, RtcpEffect DEF ProcessRawPacket
<1> QED BY <1>1, <1>2
-----------------------------------------------------------------------------
(* The session gives up its own SSRC ...                                   *)
LEMMA DeleteEffect ==
  ASSUME NEW s, Good(s), NEW d, d = DeleteOwnSSRC(s)
  PROVE  /\ IsSources(d) /\ Counted(d) /\ DOMAIN d.table = DOMAIN s.table \ {s.own}
         /\ d.owncollision = s.owncollision
<1>0. /\ Shape(s) /\ IsTable(s.table) /\ Counted(s) /\ s.own \in DOMAIN s.table /\ IsActive(s.table[s.own])
  BY DEF Good, IsSources, OwnStands
<1>1. PICK o, t : o = s.own /\ t = [q \in DOMAIN s.table \ {s.own} |-> s.table[q]]
  OBVIOUS
<1>2. /\ Shape(d) /\ d.table = t /\ d.own = s.own /\ d.total = s.total - 1
      /\ d.sender = (IF s.table[o].sender THEN s.sender - 1 ELSE s.sender)
      /\ d.active = s.active - 1 /\ d.owncollision = s.owncollision
  BY <1>0, <1>1 DEF DeleteOwnSSRC, Shape
<1>3. /\ DOMAIN t = DOMAIN s.table \ {o} /\ \A q \in DOMAIN t : t[q] = s.table[q]
      /\ t \in [DOMAIN t -> Entry]
  BY <1>0, <1>1 DEF IsTable
<1>4. IsFiniteSet(DOMAIN s.table) /\ IsFiniteSet(Senders(s.table)) /\ IsFiniteSet(Actives(s.table))
  BY <1>0, TableSets DEF IsTable
<1>5. /\ \A q : q # o => (q \in DOMAIN t <=> q \in DOMAIN s.table)
      /\ o \in DOMAIN s.table /\ o \notin DOMAIN t
  BY <1>0, <1>1, <1>3
<1>6. IsFiniteSet(DOMAIN t) /\ Cardinality(DOMAIN t) = Cardinality(DOMAIN s.table) - 1
  BY <1>4, <1>5, CardPoint
<1>7. /\ \A q : q # o => (q \in Senders(t) <=> q \in Senders(s.table))
      /\ o \notin Senders(t) /\ (o \in Senders(s.table) <=> s.table[o].sender)
  BY <1>3, <1>5 DEF Senders
<1>8. Cardinality(Senders(t)) = (IF s.table[o].sender THEN Cardinality(Senders(s.table)) - 1
                                                      ELSE Cardinality(Senders(s.table)))
  BY <1>4, <1>7, CardPoint
<1>9. /\ \A q : q # o => (q \in Actives(t) <=> q \in Actives(s.table))
      /\ o \notin Actives(t) /\ o \in Actives(s.table)
  BY <1>0, <1>1, <1>3, <1>5 DEF Actives
<1>10. Cardinality(Actives(t)) = Cardinality(Actives(s.table)) - 1 /\ Cardinality(Actives(s.table)) \in Nat
  BY <1>4, <1>9, CardPoint
<1>11. IsSources(d)
  BY <1>0, <1>2, <1>3, <1>6 DEF IsSources, IsTable
<1>12. Counted(d)
  BY <1>0, <1>2, <1>6, <1>8, <1>10 DEF Counted
<1> QED BY <1>1, <1>2, <1>3, <1>11, <1>12

(* ... and takes another one that nobody uses.                             *)
LEMMA CreateEffect ==
  ASSUME NEW d, IsSources(d), Counted(d), NEW q \in Ssrc, q \notin DOMAIN d.table,
         NEW r, r = CreateOwnSSRC(d, q)
  PROVE  /\ Good(r) /\ DOMAIN r.table = DOMAIN d.table \cup {q} /\ r.own = q
         /\ r.owncollision = d.owncollision
<1>0. Shape(d) /\ IsTable(d.table)
  BY DEF IsSources
<1>1. PICK e : e = [NewEntry EXCEPT !.valid = TRUE, !.addr = [p \in Proto |-> Null]]
  OBVIOUS
<1>2. e \in Entry /\ ~e.sender /\ e.valid /\ ~e.bye /\ \A p \in Proto : e.addr[p] = Null
  BY <1>1, NewType DEF Entry
<1>3. /\ Shape(r) /\ r.table = Put(d.table, q, e) /\ r.own = q /\ r.total = d.total + 1
      /\ r.sender = d.sender /\ r.active = d.active + 1
      /\ r.owncollision = d.owncollision
  BY <1>0, <1>1 DEF CreateOwnSSRC, Shape
<1>4. /\ DOMAIN r.table = DOMAIN d.table \cup {q} /\ IsFcn(r.table) /\ r.table[q] = e
      /\ \A x \in DOMAIN d.table : x # q => r.table[x] = d.table[x]
  BY <1>0, <1>3 DEF Put, IsTable, IsFcn
<1>5. q \notin Senders(d.table) /\ q \notin Actives(d.table)
  BY DEF Senders, Actives
<1>6. IsActive(e)
  BY <1>2 DEF IsActive
<1>7. d.total \in Nat /\ d.sender \in Nat /\ d.active \in Int
  BY CountsType
<1>8. Replaces(d, q, r)
  BY <1>2, <1>3, <1>4, <1>5, <1>6, <1>7 DEF Replaces
<1>9. IsSources(r) /\ Counted(r)
  BY <1>3, <1>4, <1>7, <1>8, Replace
<1>10. OwnStands(r)
  BY <1>2, <1>3, <1>4, <1>6 DEF OwnStands
<1> QED BY <1>3, <1>4, <1>9, <1>10 DEF Good

(* There is such an SSRC as long as noise has named few.                   *)
LEMMA OthersFinite ==
  ASSUME NEW s, Good(s)
  PROVE  IsFiniteSet(Others(s)) /\ Cardinality(Others(s)) \in Nat
<1>1. IsFiniteSet(DOMAIN s.table) /\ Others(s) \in SUBSET DOMAIN s.table
  BY DEF Good, IsSources, IsTable, Others
<1> QED BY <1>1, FS_Subset, FS_CardinalityType

LEMMA NewSsrc ==
  ASSUME NEW s, Good(s), Cardinality(Others(s)) <= MaxNoise
  PROVE  CreateNewSSRC(s) \in Ssrc /\ CreateNewSSRC(s) \notin DOMAIN s.table /\ CreateNewSSRC(s) # Peer
<1>1. Unknown(s) # {}
  <2> SUFFICES ASSUME Unknown(s) = {} PROVE FALSE
    OBVIOUS
  <2>1. PICK A, B : A = Others(s) \cup {s.own} /\ B = A \cup {Peer}
    OBVIOUS
  <2>2. IsFiniteSet(Others(s)) /\ Cardinality(Others(s)) \in Nat
    BY OthersFinite
  <2>3. IsFiniteSet(A) /\ Cardinality(A) \in Nat /\ Cardinality(A) <= Cardinality(Others(s)) + 1
    <3>1. s.own \in A /\ \A i : i # s.own => (i \in A <=> i \in Others(s))
      BY <2>1
    <3> QED BY <2>2, <3>1, CardPoint
  <2>4. IsFiniteSet(B) /\ Cardinality(B) \in Nat /\ Cardinality(B) <= Cardinality(A) + 1
    <3>1. Peer \in B /\ \A i : i # Peer => (i \in B <=> i \in A)
      BY <2>1
    <3> QED BY <2>3, <3>1, CardPoint
  <2>5. Ssrc \in SUBSET B
    BY <2>1 DEF Unknown, Others
  <2>6. Cardinality(Ssrc) <= Cardinality(B) /\ Cardinality(Ssrc) \in Nat
    BY <2>4, <2>5, FS_Subset, FS_CardinalityType
  <2> QED BY <2>2, <2>3, <2>4, <2>6, SsrcAssumption, NoiseAssumption
<1>2. CreateNewSSRC(s) \in Unknown(s)
  BY <1>1 DEF CreateNewSSRC
<1> QED BY <1>2 DEF Unknown

LEMMA OwnMoves ==
  ASSUME NEW s, Good(s), Cardinality(Others(s)) <= MaxNoise,
         NEW r, r = CreateOwnSSRC(DeleteOwnSSRC(s), CreateNewSSRC(s))
  PROVE  Good(r) /\ Others(r) = Others(s) /\ r.owncollision = s.owncollision
<1>1. PICK q, d : q = CreateNewSSRC(s) /\ d = DeleteOwnSSRC(s)
  OBVIOUS
<1>2. q \in Ssrc /\ q \notin DOMAIN s.table /\ q # Peer
  BY <1>1, NewSsrc
<1>3. /\ IsSources(d) /\ Counted(d) /\ DOMAIN d.table = DOMAIN s.table \ {s.own}
      /\ d.owncollision = s.owncollision
  BY <1>1, DeleteEffect
<1>4. /\ Good(r) /\ DOMAIN r.table = DOMAIN d.table \cup {q} /\ r.own = q
      /\ r.owncollision = d.owncollision
  BY <1>1, <1>2, <1>3, CreateEffect
<1> QED BY <1>2, <1>3, <1>4 DEF Others
-----------------------------------------------------------------------------
(* What the session does by itself: send, poll and wait.                   *)
LEMMA SendEffect ==
  ASSUME NEW s, Good(s), NEW r,
         r = [s EXCEPT !.table[s.own].sender = TRUE, !.table[s.own].rtpAge = 0,
                       !.table[s.own].msgAge = 0,
                       !.sender = IF s.table[s.own].sender THEN s.sender ELSE s.sender + 1]
  PROVE  /\ Good(r) /\ Others(r) = Others(s) /\ r.owncollision = s.owncollision
<1>0. /\ Shape(s) /\ IsSources(s) /\ IsTable(s.table) /\ Counted(s) /\ OwnStands(s)
      /\ s.own \in DOMAIN s.table /\ s.own \in Ssrc
  BY DEF Good, IsSources, OwnStands, Shape
<1>1. PICK o, e : o = s.own /\ e = s.table[s.own]
  OBVIOUS
<1>2. PICK f : f = [[[e EXCEPT !.sender = TRUE] EXCEPT !.rtpAge = 0] EXCEPT !.msgAge = 0]
  OBVIOUS
<1>3. e \in Entry
  BY <1>0, <1>1 DEF IsTable
<1>4. 0 \in 0..(memberMultiplier + 1) /\ 0 \in 0..(senderMultiplier + 1)
  BY MultiplierAssumption
<1>5. f \in Entry /\ f.sender /\ f.valid = e.valid /\ f.bye = e.bye /\ f.addr = e.addr
  BY <1>2, <1>3, <1>4 DEF Entry
<1>6. /\ Shape(r)
      /\ r.table = [[[s.table EXCEPT ![o].sender = TRUE] EXCEPT ![o].rtpAge = 0] EXCEPT ![o].msgAge = 0]
      /\ r.own = s.own /\ r.total = s.total
      /\ r.sender = (IF e.sender THEN s.sender ELSE s.sender + 1)
      /\ r.active = s.active /\ r.owncollision = s.owncollision
  BY <1>0, <1>1 DEF Shape
<1>7. /\ DOMAIN r.table = DOMAIN s.table /\ IsFcn(r.table) /\ r.table[o] = f
      /\ \A q \in DOMAIN s.table : q # o => r.table[q] = s.table[q]
  BY <1>0, <1>1, <1>2, <1>6 DEF IsTable, IsFcn
<1>8. (o \in Senders(s.table) <=> e.sender) /\ (o \in Actives(s.table) <=> IsActive(e))
  BY <1>0, <1>1 DEF Senders, Actives
<1>9. IsActive(f) <=> IsActive(e)
  BY <1>5 DEF IsActive
<1>10. s.total \in Nat /\ s.sender \in Nat /\ s.active \in Int
  BY <1>0, CountsType
<1>11. Replaces(s, o, r)
  <2>1. r.sender = s.sender + (IF r.table[o].sender THEN 1 ELSE 0) - (IF o \in Senders(s.table) THEN 1 ELSE 0)
    BY <1>5, <1>6, <1>7, <1>8, <1>10
  <2>2. r.active = s.active + (IF IsActive(r.table[o]) THEN 1 ELSE 0) - (IF o \in Actives(s.table) THEN 1 ELSE 0)
    BY <1>6, <1>7, <1>8, <1>9, <1>10
  <2>3. r.total = s.total + (IF o \in DOMAIN s.table THEN 0 ELSE 1) /\ r.table[o] \in Entry
    BY <1>0, <1>1, <1>5, <1>6, <1>7, <1>10
  <2> QED BY <1>0, <1>1, <1>7, <1>10, <2>1, <2>2, <2>3 DEF Replaces
<1>12. IsSources(r) /\ Counted(r)
  BY <1>0, <1>1, <1>6, <1>7, <1>10, <1>11, Replace
<1>13. OwnStands(r)
  BY <1>0, <1>1, <1>5, <1>6, <1>7, <1>9 DEF OwnStands
<1> QED BY <1>6, <1>7, <1>12, <1>13 DEF Good, Others

LEMMA TimeoutEffect ==
  ASSUME NEW s, Good(s), NEW r, r = MultipleTimeouts(s)
  PROVE  Good(r) /\ Others(r) \in SUBSET Others(s) /\ r.owncollision = s.owncollision
<1>0. /\ Shape(s) /\ IsTable(s.table) /\ Counted(s) /\ OwnStands(s) /\ s.own \in DOMAIN s.table
  BY DEF Good, IsSources, OwnStands
<1>1. PICK kept : kept = {q \in DOMAIN s.table : ~TimesOut(s, q)}
  OBVIOUS
<1>2. PICK t : t = [q \in kept |-> [s.table[q] EXCEPT !.sender = StillSender(s.table[q])]]
  OBVIOUS
<1>3. /\ Shape(r) /\ r.table = t /\ r.own = s.own /\ r.total = Cardinality(kept)
      /\ r.sender = Cardinality({q \in kept : StillSender(s.table[q])})
      /\ r.active = Cardinality({q \in kept : IsActive(s.table[q])})
      /\ r.owncollision = s.owncollision
  BY <1>0, <1>1, <1>2 DEF MultipleTimeouts, Shape
<1>4. kept \in SUBSET DOMAIN s.table /\ s.own \in kept /\ IsFiniteSet(DOMAIN s.table)
  BY <1>0, <1>1 DEF TimesOut, IsTable
<1>5. IsFiniteSet(kept)
  BY <1>4, FS_Subset
<1>6. ASSUME NEW q \in kept
      PROVE  /\ t[q] \in Entry /\ (t[q].sender <=> StillSender(s.table[q]))
             /\ (IsActive(t[q]) <=> IsActive(s.table[q])) /\ t[q].addr = s.table[q].addr
  <2>1. PICK e, b : e = s.table[q] /\ b = StillSender(s.table[q])
    OBVIOUS
  <2>2. e \in Entry /\ b \in BOOLEAN
    BY <1>0, <1>4, <2>1 DEF IsTable, StillSender
  <2>3. t[q] = [e EXCEPT !.sender = b]
    BY <1>2, <2>1
  <2>4. t[q] \in Entry /\ t[q].sender = b /\ t[q].valid = e.valid /\ t[q].bye = e.bye /\ t[q].addr = e.addr
    BY <2>2, <2>3 DEF Entry
  <2> QED BY <2>1, <2>4 DEF IsActive
<1>7. DOMAIN t = kept /\ t \in [DOMAIN t -> Entry]
  BY <1>2, <1>6
<1>8. Senders(t) = {q \in kept : StillSender(s.table[q])} /\ Actives(t) = {q \in kept : IsActive(s.table[q])}
  BY <1>6, <1>7 DEF Senders, Actives
<1>9. IsTable(t)
  BY <1>0, <1>4, <1>5, <1>7 DEF IsTable
<1>10. IsSources(r)
  BY <1>3, <1>9 DEF IsSources
<1>11. Counted(r)
  <2>1. Cardinality(Actives(t)) \in Nat
    BY <1>9, TableSets
  <2> QED BY <1>3, <1>7, <1>8, <2>1 DEF Counted
<1>12. OwnStands(r)
  BY <1>0, <1>3, <1>4, <1>6, <1>7 DEF OwnStands
<1> QED BY <1>3, <1>4, <1>7, <1>10, <1>11, <1>12 DEF Good, Others

LEMMA OlderType ==
  ASSUME NEW m \in Nat, NEW a \in 0..(m + 1)
  PROVE  Older(a, m) \in 0..(m + 1)
BY DEF Older

LEMMA TickEffect ==
  ASSUME NEW s, Good(s), NEW r,
         r = [s EXCEPT !.table = [q \in DOMAIN s.table |-> Aged(s.table[q])]]
  PROVE  Good(r) /\ Others(r) = Others(s) /\ r.owncollision = s.owncollision
<1>0. /\ Shape(s) /\ IsTable(s.table) /\ Counted(s) /\ OwnStands(s) /\ s.own \in DOMAIN s.table
  BY DEF Good, IsSources, OwnStands
<1>1. PICK t : t = [q \in DOMAIN s.table |-> Aged(s.table[q])]
  OBVIOUS
<1>2. /\ Shape(r) /\ r.table = t /\ r.own = s.own /\ r.total = s.total /\ r.sender = s.sender
      /\ r.active = s.active /\ r.owncollision = s.owncollision
  BY <1>0, <1>1 DEF Shape
<1>3. ASSUME NEW q \in DOMAIN s.table
      PROVE  /\ t[q] \in Entry /\ t[q].sender = s.table[q].sender
             /\ (IsActive(t[q]) <=> IsActive(s.table[q])) /\ t[q].addr = s.table[q].addr
  <2>1. PICK e : e = s.table[q]
    OBVIOUS
  <2>2. PICK b, m, x : /\ b = Older(e.byeAge, byeMultiplier) /\ m = Older(e.msgAge, memberMultiplier)
                       /\ x = Older(e.rtpAge, senderMultiplier)
    OBVIOUS
  <2>3. e \in Entry
    BY <1>0, <2>1 DEF IsTable
  <2>4. /\ e.byeAge \in 0..(byeMultiplier + 1) /\ e.msgAge \in 0..(memberMultiplier + 1)
        /\ e.rtpAge \in 0..(senderMultiplier + 1)
    BY <2>3 DEF Entry
  <2>5. /\ b \in 0..(byeMultiplier + 1) /\ m \in 0..(memberMultiplier + 1)
        /\ x \in 0..(senderMultiplier + 1)
    BY <2>2, <2>4, OlderType, MultiplierAssumption
  <2>6. t[q] = [e EXCEPT !.byeAge = b, !.msgAge = m, !.rtpAge = x]
    BY <1>1, <2>1, <2>2, <2>3 DEF Aged, Entry
  <2>7. /\ t[q] \in Entry /\ t[q].sender = e.sender /\ t[q].valid = e.valid /\ t[q].bye = e.bye
        /\ t[q].addr = e.addr
    BY <2>3, <2>5, <2>6 DEF Entry
  <2> QED BY <2>1, <2>7 DEF IsActive
<1>4. DOMAIN t = DOMAIN s.table /\ t \in [DOMAIN t -> Entry]
  BY <1>1, <1>3
<1>5. Senders(t) = Senders(s.table) /\ Actives(t) = Actives(s.table)
  BY <1>3, <1>4 DEF Senders, Actives
<1>6. IsSources(r)
  BY <1>0, <1>2, <1>4 DEF IsSources, IsTable
<1>7. Counted(r)
  BY <1>0, <1>2, <1>4, <1>5 DEF Counted
<1>8. OwnStands(r)
  BY <1>0, <1>2, <1>3, <1>4 DEF OwnStands
<1> QED BY <1>2, <1>4, <1>6, <1>7, <1>8 DEF Good, Others
-----------------------------------------------------------------------------
(* The inductive invariant.  Noise names one new identifier a packet, and  *)
(* only such identifiers, the peer's and our own have entries.             *)
ListTyped(l) == /\ DOMAIN l \subseteq Host \X Proto
                /\ \A k \in DOMAIN l : l[k] \in 0..(collisionMultiplier + 1)

RInv ==
  /\ Good(sources) /\ sources.owncollision = FALSE
  /\ noise \in 0..MaxNoise
  /\ Cardinality(Others(sources)) <= noise
  /\ ListTyped(collisionlist)
  /\ since \subseteq {"peer", "loop"}

(* A packet that adds no more than the bound n to the table.               *)
LEMMA ReceiveStep ==
  ASSUME RInv, NEW p, IsPacket(p), ReceivePacket(p), NEW n \in 0..MaxNoise,
         NEW W, IsFiniteSet(W), Cardinality(W) <= n,
         DOMAIN sources.table \cup {p.ssrc} \cup p.csrc \subseteq W \cup {Peer, sources.own}
  PROVE  /\ Good(sources') /\ sources'.owncollision = FALSE
         /\ Cardinality(Others(sources')) <= n /\ ListTyped(collisionlist')
<1>1. PICK r, key, s : /\ r = ProcessRawPacket(sources, p) /\ key = <<p.from, ProtoOf(p)>>
                       /\ s = [r EXCEPT !.owncollision = FALSE]
  OBVIOUS
<1>2. \/ ~r.owncollision /\ sources' = s /\ UNCHANGED collisionlist
      \/ /\ r.owncollision /\ collisionlist' = UpdateAddress(collisionlist, key)
         /\ sources' = IF key \in DOMAIN collisionlist THEN s
                       ELSE CreateOwnSSRC(DeleteOwnSSRC(s), CreateNewSSRC(s))
  BY <1>1 DEF ReceivePacket
<1>3. /\ Good(r) /\ DOMAIN r.table \subseteq DOMAIN sources.table \cup {p.ssrc} \cup p.csrc
      /\ r.own = sources.own /\ (r.owncollision => p.from # Null)
  BY <1>1, RawEffect DEF RInv, Processed
<1>4. Good(s) /\ s.table = r.table /\ s.own = r.own /\ s.owncollision = FALSE
  <2>1. Shape(r)
    BY <1>3 DEF Good, IsSources
  <2>2. /\ Shape(s) /\ s.table = r.table /\ s.own = r.own /\ s.total = r.total /\ s.sender = r.sender
        /\ s.active = r.active /\ s.owncollision = FALSE
    BY <1>1, <2>1 DEF Shape
  <2> QED BY <1>3, <2>2 DEF Good, IsSources, Counted, OwnStands
<1>5. Cardinality(Others(s)) <= n /\ Cardinality(Others(s)) <= MaxNoise
  <2>1. Others(s) \in SUBSET W
    BY <1>3, <1>4 DEF Others
  <2>2. Cardinality(Others(s)) <= Cardinality(W) /\ Cardinality(W) \in Nat /\ Cardinality(Others(s)) \in Nat
    BY <1>4, <2>1, FS_Subset, FS_CardinalityType, OthersFinite
  <2> QED BY <2>2, NoiseAssumption
<1>6. CASE sources' = s /\ UNCHANGED collisionlist
  BY <1>4, <1>5, <1>6 DEF RInv
<1>7. CASE r.owncollision /\ collisionlist' = UpdateAddress(collisionlist, key)
  <2>1. key \in Host \X Proto
    <3>1. p.from \in Host
      BY <1>3, <1>7 DEF IsPacket
    <3>2. ProtoOf(p) \in Proto
      BY DEF ProtoOf, Proto
    <3> QED BY <1>1, <3>1, <3>2
  <2>2. ListTyped(collisionlist')
    <3>1. 0 \in 0..(collisionMultiplier + 1)
      BY MultiplierAssumption
    <3> QED BY <1>7, <2>1, <3>1 DEF UpdateAddress, Put, ListTyped, RInv
  <2>3. CASE sources' = s
    BY <1>4, <1>5, <2>2, <2>3
  <2>4. CASE sources' = CreateOwnSSRC(DeleteOwnSSRC(s), CreateNewSSRC(s))
    BY <1>4, <1>5, <2>2, <2>4, OwnMoves
  <2> QED BY <1>2, <1>7, <2>3, <2>4
<1> QED BY <1>2, <1>6, <1>7

LEMMA NoiseStep ==
  ASSUME RInv, Noise
  PROVE  RInv'
<1>0. /\ Good(sources) /\ noise \in 0..MaxNoise /\ noise < MaxNoise /\ noise' = noise + 1 /\ since' = since
      /\ Cardinality(Others(sources)) <= noise /\ noise' \in 0..MaxNoise
  BY NoiseAssumption DEF RInv, Noise
<1>1. IsFiniteSet(Others(sources)) /\ Cardinality(Others(sources)) \in Nat
  BY <1>0, OthersFinite
<1>2. Cardinality(Others(sources)) <= MaxNoise
  BY <1>0, <1>1, NoiseAssumption
<1>3. PICK x, W : x = CreateNewSSRC(sources) /\ W = Others(sources) \cup {x}
  OBVIOUS
<1>4. x \in Ssrc /\ Nameable \subseteq Ssrc /\ Nameable \subseteq W \cup {Peer, sources.own}
      /\ DOMAIN sources.table \subseteq Nameable
  <2>1. x \in Ssrc
    BY <1>0, <1>2, <1>3, NewSsrc
  <2>2. DOMAIN sources.table \subseteq Ssrc
    BY <1>0 DEF Good, IsSources, IsTable
  <2> QED BY <1>3, <2>1, <2>2, SsrcAssumption DEF Nameable, Others
<1>5. IsFiniteSet(W) /\ Cardinality(W) <= noise'
  <2>1. x \in W /\ \A i : i # x => (i \in W <=> i \in Others(sources))
    BY <1>3
  <2>2. IsFiniteSet(W) /\ Cardinality(W) \in Nat /\ Cardinality(W) <= Cardinality(Others(sources)) + 1
    BY <1>1, <2>1, CardPoint
  <2> QED BY <1>0, <1>1, <2>2
<1>6. PICK p : /\ IsPacket(p) /\ ReceivePacket(p)
               /\ p.ssrc \in Nameable /\ p.csrc \subseteq Nameable
  <2>1. PICK q \in Nameable, host \in Host \cup {Null} :
          \/ \E str \in IF q = Peer THEN {"peer", "other"} ELSE {"other"},
                c \in {{}} \cup {{r} : r \in Nameable} :
               ReceivePacket([RtpFrom(q, host, str) EXCEPT !.csrc = c])
          \/ \E k \in {"report", "cname", "bye"} :
               ReceivePacket([RtpFrom(q, host, "other") EXCEPT !.kind = k])
    BY DEF Noise
  <2>2. CASE \E str \in IF q = Peer THEN {"peer", "other"} ELSE {"other"},
                c \in {{}} \cup {{r} : r \in Nameable} :
               ReceivePacket([RtpFrom(q, host, str) EXCEPT !.csrc = c])
    <3>1. PICK str \in {"peer", "other"}, c \in SUBSET Nameable :
               ReceivePacket([RtpFrom(q, host, str) EXCEPT !.csrc = c])
      BY <2>2
    <3>2. PICK p : p = [RtpFrom(q, host, str) EXCEPT !.csrc = c]
      OBVIOUS
    <3>3. p.kind = "rtp" /\ p.ssrc = q /\ p.from = host /\ p.csrc = c /\ p.stream = str /\ p.gap = FALSE
      BY <3>2 DEF RtpFrom
    <3>4. IsPacket(p)
      BY <1>4, <3>3 DEF IsPacket
    <3> QED BY <3>1, <3>2, <3>3, <3>4
  <2>3. CASE \E k \in {"report", "cname", "bye"} :
               ReceivePacket([RtpFrom(q, host, "other") EXCEPT !.kind = k])
    <3>1. PICK k \in {"report", "cname", "bye"} :
               ReceivePacket([RtpFrom(q, host, "other") EXCEPT !.kind = k])
      BY <2>3
    <3>2. PICK p : p = [RtpFrom(q, host, "other") EXCEPT !.kind = k]
      OBVIOUS
    <3>3. p.kind = k /\ p.ssrc = q /\ p.from = host /\ p.csrc = {} /\ p.stream = "other" /\ p.gap = FALSE
      BY <3>2 DEF RtpFrom
    <3>4. IsPacket(p)
      BY <1>4, <3>3 DEF IsPacket
    <3> QED BY <3>1, <3>2, <3>3, <3>4
  <2> QED BY <2>1, <2>2, <2>3
<1>7. DOMAIN sources.table \cup {p.ssrc} \cup p.csrc \subseteq W \cup {Peer, sources.own}
  BY <1>4, <1>6
<1>8. PICK n \in 0..MaxNoise : n = noise'
  BY <1>0
<1>9. /\ Good(sources') /\ sources'.owncollision = FALSE
      /\ Cardinality(Others(sources')) <= n /\ ListTyped(collisionlist')
  BY <1>5, <1>6, <1>7, <1>8, ReceiveStep
<1> QED BY <1>0, <1>8, <1>9 DEF RInv

(* The peer and the loop name nobody new.                                  *)
LEMMA KnownStep ==
  ASSUME RInv, NEW p, IsPacket(p), p.ssrc \in {Peer, sources.own}, p.csrc = {}, ReceivePacket(p),
         noise' \in 0..MaxNoise, noise <= noise', since' \subseteq {"peer", "loop"}
  PROVE  RInv'
<1>0. Good(sources) /\ noise \in 0..MaxNoise /\ Cardinality(Others(sources)) <= noise
  BY DEF RInv
<1>1. PICK W : W = Others(sources)
  OBVIOUS
<1>2. DOMAIN sources.table \cup {p.ssrc} \cup p.csrc \subseteq W \cup {Peer, sources.own}
  BY <1>1 DEF Others
<1>3. IsFiniteSet(W) /\ Cardinality(W) <= noise
  BY <1>0, <1>1, OthersFinite
<1>4. /\ Good(sources') /\ sources'.owncollision = FALSE
      /\ Cardinality(Others(sources')) <= noise /\ ListTyped(collisionlist')
  BY <1>0, <1>2, <1>3, ReceiveStep
<1>5. Cardinality(Others(sources')) \in Nat
  BY <1>4, OthersFinite
<1>6. Cardinality(Others(sources')) <= noise'
  BY <1>0, <1>4, <1>5, NoiseAssumption
<1> QED BY <1>4, <1>6 DEF RInv

LEMMA RStep ==
  ASSUME RInv, [Next]_vars
  PROVE  RInv'
<1>0. /\ Good(sources) /\ sources.owncollision = FALSE /\ noise \in 0..MaxNoise
      /\ Cardinality(Others(sources)) <= noise /\ ListTyped(collisionlist)
      /\ since \subseteq {"peer", "loop"}
  BY DEF RInv
<1>1. CASE PeerSends
  <2>1. since' \subseteq {"peer", "loop"} /\ Peer \in Ssrc /\ PeerHost \in Host
    BY <1>0, <1>1, SsrcAssumption, HostAssumption DEF PeerSends
  <2>2. CASE ReceivePacket(RtpFrom(Peer, PeerHost, "peer")) /\ noise' = noise
    <3>1. PICK p : p = RtpFrom(Peer, PeerHost, "peer")
      OBVIOUS
    <3>2. IsPacket(p) /\ p.ssrc = Peer /\ p.csrc = {}
      BY <2>1, <3>1 DEF RtpFrom, IsPacket
    <3>3. ReceivePacket(p) /\ noise' \in 0..MaxNoise /\ noise <= noise'
      BY <1>0, <2>2, <3>1
    <3> QED BY <2>1, <3>2, <3>3, KnownStep
  <2>3. CASE /\ noise < MaxNoise /\ noise' = noise + 1
             /\ ReceivePacket([RtpFrom(Peer, PeerHost, "peer") EXCEPT !.gap = TRUE])
    <3>1. PICK p : p = [RtpFrom(Peer, PeerHost, "peer") EXCEPT !.gap = TRUE]
      OBVIOUS
    <3>2. IsPacket(p) /\ p.ssrc = Peer /\ p.csrc = {}
      BY <2>1, <3>1 DEF RtpFrom, IsPacket
    <3>3. ReceivePacket(p)
      BY <2>3, <3>1
    <3>4. noise' \in 0..MaxNoise /\ noise <= noise'
      BY <1>0, <2>3, NoiseAssumption
    <3> QED BY <2>1, <3>2, <3>3, <3>4, KnownStep
  <2> QED BY <1>1, <2>2, <2>3 DEF PeerSends
<1>2. CASE LoopSends
  <2>1. since' \subseteq {"peer", "loop"} /\ LoopHost \in Host /\ sources.own \in Ssrc
    BY <1>0, <1>2, HostAssumption DEF LoopSends, Good, IsSources, Shape
  <2>2. PICK p : p = RtpFrom(sources.own, LoopHost, "other")
    OBVIOUS
  <2>3. IsPacket(p) /\ p.ssrc = sources.own /\ p.csrc = {}
    BY <2>1, <2>2 DEF RtpFrom, IsPacket
  <2>4. ReceivePacket(p) /\ noise' = noise
    BY <1>2, <2>2 DEF LoopSends
  <2>5. noise' \in 0..MaxNoise /\ noise <= noise'
    BY <1>0, <2>4, NoiseAssumption
  <2> QED BY <2>1, <2>3, <2>4, <2>5, KnownStep
<1>3. CASE Noise
  BY <1>3, NoiseStep
<1>4. CASE SendPacket
  <2>1. Good(sources') /\ Others(sources') = Others(sources) /\ sources'.owncollision = FALSE
    BY <1>0, <1>4, SendEffect DEF SendPacket
  <2> QED BY <1>0, <1>4, <2>1 DEF RInv, SendPacket
<1>5. CASE FinishPoll
  <2>1. Good(sources') /\ Others(sources') \in SUBSET Others(sources) /\ sources'.owncollision = FALSE
    BY <1>0, <1>5, TimeoutEffect DEF FinishPoll
  <2>2. /\ Cardinality(Others(sources')) <= Cardinality(Others(sources))
        /\ Cardinality(Others(sources)) \in Nat /\ Cardinality(Others(sources')) \in Nat
    BY <1>0, <2>1, OthersFinite, FS_Subset
  <2>3. ListTyped(collisionlist')
    BY <1>0, <1>5 DEF FinishPoll, CollisionTimeout, ListTyped
  <2>4. Cardinality(Others(sources')) <= noise
    BY <1>0, <2>2
  <2> QED BY <1>0, <1>5, <2>1, <2>3, <2>4 DEF RInv, FinishPoll
<1>6. CASE Tick
  <2>1. Good(sources') /\ Others(sources') = Others(sources) /\ sources'.owncollision = FALSE
    BY <1>0, <1>6, TickEffect DEF Tick
  <2>2. ListTyped(collisionlist')
    BY <1>0, <1>6, OlderType, MultiplierAssumption DEF Tick, ListTyped
  <2> QED BY <1>0, <1>6, <2>1, <2>2 DEF RInv, Tick
<1>7. CASE UNCHANGED vars
  BY <1>7 DEF RInv, vars
<1> QED BY <1>1, <1>2, <1>3, <1>4, <1>5, <1>6, <1>7 DEF Next

LEMMA RBegin ==
  ASSUME Init
  PROVE  RInv
<1>1. PICK q \in {Peer, CHOOSE r \in Ssrc \ {Peer} : TRUE} :
        sources = CreateOwnSSRC([table |-> Empty, own |-> q, total |-> 0, sender |-> 0,
                                 active |-> 0, owncollision |-> FALSE], q)
  BY DEF Init
<1>2. q \in Ssrc
  <2>1. Ssrc \ {Peer} # {}
    <3> SUFFICES ASSUME Ssrc \subseteq {Peer} PROVE FALSE
      OBVIOUS
    <3>1. Ssrc = {Peer}
      BY SsrcAssumption
    <3>2. Cardinality(Ssrc) = 1
      BY <3>1, FS_Singleton
    <3> QED BY <3>2, SsrcAssumption, NoiseAssumption
  <2> QED BY <2>1, SsrcAssumption
<1>3. PICK d : d = [table |-> Empty, own |-> q, total |-> 0, sender |-> 0,
                    active |-> 0, owncollision |-> FALSE]
  OBVIOUS
<1>4. d.table = Empty /\ DOMAIN d.table = {} /\ Senders(d.table) = {} /\ Actives(d.table) = {}
  BY <1>3 DEF Empty, Senders, Actives
<1>5. IsFiniteSet({}) /\ Cardinality({}) = 0
  BY FS_EmptySet
<1>6. IsSources(d)
  <2>1. Shape(d)
    BY <1>2, <1>3 DEF Shape
  <2>2. IsTable(d.table)
    BY <1>4, <1>5 DEF IsTable, Empty
  <2> QED BY <2>1, <2>2 DEF IsSources
<1>7. Counted(d)
  <2>1. d.total = 0 /\ d.sender = 0 /\ d.active = 0
    BY <1>3
  <2> QED BY <1>4, <1>5, <2>1 DEF Counted
<1>8. Good(sources) /\ DOMAIN sources.table = {q} /\ sources.own = q /\ sources.owncollision = FALSE
  <2>1. sources = CreateOwnSSRC(d, q) /\ d.owncollision = FALSE /\ q \notin DOMAIN d.table
    BY <1>1, <1>3, <1>4
  <2>2. /\ Good(sources) /\ DOMAIN sources.table = DOMAIN d.table \cup {q} /\ sources.own = q
        /\ sources.owncollision = d.owncollision
    BY <1>2, <1>6, <1>7, <2>1, CreateEffect
  <2> QED BY <1>4, <2>1, <2>2
<1>9. Others(sources) = {}
  BY <1>8 DEF Others
<1>10. ListTyped(collisionlist)
  BY DEF Init, Empty, ListTyped
<1>11. noise = 0 /\ since = {} /\ 0 \in 0..MaxNoise
  BY NoiseAssumption DEF Init
<1>12. Cardinality(Others(sources)) <= noise
  BY <1>5, <1>9, <1>11
<1> QED BY <1>8, <1>10, <1>11, <1>12 DEF RInv

LEMMA SourcesInv == Spec => []RInv
BY RBegin, RStep, PTL DEF Spec

(* The own SSRC always has an entry, valid, without an address and without *)
(* a BYE, whatever collides with it, and every counter and age stays in    *)
(* its range: RTPSources, RTPInternalSourceData and RTPCollisionList.      *)
THEOREM TypesHold == Spec => []TypeOK
<1>1. RInv => TypeOK
  <2> SUFFICES ASSUME RInv PROVE TypeOK
    OBVIOUS
  <2>1. /\ Good(sources) /\ IsSources(sources) /\ Counted(sources) /\ OwnStands(sources)
        /\ IsTable(sources.table)
    BY DEF RInv, Good, IsSources
  <2>2. sources.total \in Nat /\ sources.sender \in Nat /\ sources.active \in Int
    BY <2>1, CountsType
  <2>3. sources.table[sources.own].addr = [p \in Proto |-> Null]
    <3>1. sources.table[sources.own] \in Entry
      BY <2>1 DEF IsTable, OwnStands
    <3>2. sources.table[sources.own].addr \in [Proto -> Host \cup {Null, Unset}]
      BY <3>1 DEF Entry
    <3> QED BY <2>1, <3>2 DEF OwnStands
  <2> QED BY <2>1, <2>2, <2>3 DEF TypeOK, RInv, ListTyped, IsTable, OwnStands
<1> QED BY <1>1, SourcesInv, PTL

(* totalcount and sendercount, which obtaining, validating, ending,        *)
(* renaming and timing out a source each update on their own, are what a   *)
(* walk through the table counts, and activecount is never more: it only   *)
(* falls behind, where ProcessCSRC validates a source without counting it. *)
THEOREM CountsRight == Spec => []CountsAddUp
<1>1. RInv => CountsAddUp
  BY DEF RInv, Good, Counted, CountsAddUp, Senders, Actives
<1> QED BY <1>1, SourcesInv, PTL
=============================================================================

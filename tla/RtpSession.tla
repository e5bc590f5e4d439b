----------------------------- MODULE RtpSession -----------------------------
(***************************************************************************)
(* The table of sources of an RTPSession (JRTPlib), as TalkManager uses    *)
(* it: own packets accepted, probation with storing, one peer.  The        *)
(* transmitter hands raw packets to ProcessPolledData one at a time; each  *)
(* may create an entry, validate it, collide with it, or end it, and a     *)
(* collision with the session's own SSRC makes it take another one.  When  *)
(* no packet is left the poll removes what was silent for too long.  What  *)
(* the session sends itself, the BYE for an SSRC it gives up included, is  *)
(* no part of the table and left out.                                      *)
(*                                                                         *)
(* Three parties send: the peer; a loop that echoes the session's own      *)
(* packets from another host; and strangers, whose packets are of any kind,*)
(* identifier and origin and stand for late packets of an earlier session  *)
(* and packets out of order too.  Packets of strangers and gaps in the     *)
(* peer's stream are MaxNoise together.                                    *)
(* Addresses are hosts: each host sends RTP from one port and RTCP from    *)
(* another, so IsSameAddress and IsFromSameHost differ only in the list of *)
(* collisions, whose keys are pairs of host and protocol.  Time is counted *)
(* in intervals Td, the unit of all the timeouts.                          *)
(***************************************************************************)
EXTENDS Integers, FiniteSets

CONSTANTS Ssrc,                 \* synchronisation source identifiers
          Peer,                 \* the one the peer uses
          Host,                 \* addresses of other hosts
          PeerHost, LoopHost,
          senderMultiplier, byeMultiplier, memberMultiplier,
          collisionMultiplier,
          MaxNoise              \* bound: packets of anybody else, and gaps

(* The address of the session's own packets, and no address at all.        *)
Null == "NULL"
Unset == "unset"

(* There are more identifiers than noise can name: CreateNewSSRC, which    *)
(* draws until it finds an unused one, does find one.                      *)
ASSUME SsrcAssumption ==
  Peer \in Ssrc /\ IsFiniteSet(Ssrc) /\ Cardinality(Ssrc) > MaxNoise + 2

ASSUME HostAssumption ==
  /\ {PeerHost, LoopHost} \subseteq Host /\ PeerHost # LoopHost
  /\ Host \cap {Null, Unset} = {}

ASSUME NoiseAssumption == MaxNoise \in Nat

ASSUME MultiplierAssumption ==
  {senderMultiplier, byeMultiplier, memberMultiplier, collisionMultiplier} \subseteq Nat \ {0}

VARIABLES
  sources,        \* the table, the own SSRC and the three counters
  collisionlist,  \* [host and protocol that collided with us -> age]
  noise,          \* packets from anybody else, and gaps, so far
  since           \* who was active in the current interval

vars == <<sources, collisionlist, noise, since>>

Proto == {"rtp", "rtcp"}

RTP_PROBATIONCOUNT == 2

Entry == [valid : BOOLEAN, sender : BOOLEAN, bye : BOOLEAN,
          byeAge : 0..(byeMultiplier + 1),
          msgAge : 0..(memberMultiplier + 1),
          rtpAge : 0..(senderMultiplier + 1),
          addr : [Proto -> Host \cup {Null, Unset}],
          sentdata : BOOLEAN,
          probation : 0..RTP_PROBATIONCOUNT,
          stream : {"none", "peer", "other"}]   \* whose packet set prevseqnr

(* All times of a new entry are 0: as old as can be.                       *)
NewEntry == [valid |-> FALSE, sender |-> FALSE, bye |-> FALSE,
             byeAge |-> byeMultiplier + 1,
             msgAge |-> memberMultiplier + 1,
             rtpAge |-> senderMultiplier + 1,
             addr |-> [p \in Proto |-> Unset],
             sentdata |-> FALSE, probation |-> 0, stream |-> "none"]

IsActive(e) == e.valid /\ ~e.bye

(* A raw packet has a kind, an ssrc, an origin from, a set csrc of at most *)
(* one contributing source, and a stream and a gap, which stand for its    *)
(* sequence number: without a gap it is the next after the last packet of  *)
(* its own stream that came, and of no other.                              *)
(* A compound RTCP packet begins with a report; a CNAME or a BYE may       *)
(* follow, and name the kind.                                              *)
RtpFrom(q, host, str) ==
  [kind |-> "rtp", ssrc |-> q, from |-> host, csrc |-> {}, stream |-> str, gap |-> FALSE]

ProtoOf(p) == IF p.kind = "rtp" THEN "rtp" ELSE "rtcp"

(***************************************************************************)
(* The table.  Every operator maps the whole sources record s to the next. *)
(***************************************************************************)
Put(f, x, y) == [z \in DOMAIN f \cup {x} |-> IF z = x THEN y ELSE f[z]]

ObtainSourceDataInstance(s, q) ==
  IF q \in DOMAIN s.table THEN s
  ELSE [s EXCEPT !.table = Put(@, q, NewEntry), !.total = @ + 1]

(* A sender collides with an entry that has an address of another host;    *)
(* the address of the other protocol counts when there is none of this.    *)
CheckCollision(s, q, from, proto) ==
  LET addr == s.table[q].addr
      known == IF addr[proto] # Unset THEN addr[proto]
               ELSE addr[CHOOSE other \in Proto : other # proto]
  IN  known \notin {Unset, from}

(* OnSSRCCollision: only a collision with ourselves has a consequence.     *)
OnSSRCCollision(s, q) == [s EXCEPT !.owncollision = @ \/ q = s.own]

FaultyStats(e, p, own) ==
  LET applyprobation == ~e.sentdata /\ ~e.valid
      inSequence == e.probation > 0 /\ e.stream = p.stream /\ ~p.gap
      left == IF inSequence THEN e.probation - 1 ELSE RTP_PROBATIONCOUNT
      accept == ~applyprobation \/ left = 0
  IN  [e EXCEPT !.sentdata = accept, !.msgAge = 0,
                !.rtpAge = IF accept /\ ~own THEN 0 ELSE @,
                !.probation = IF applyprobation THEN left ELSE @]

(* The statistics of a source, with the probation of a new one: one packet *)
(* starts it, RTP_PROBATIONCOUNT more in sequence end it, and one that is  *)
(* not the next starts it again.  sentdata says that the packet is         *)
(* accepted.                                                               *)
StatsProcessPacket(e, p, own) ==
  LET applyprobation == ~e.sentdata /\ ~e.valid
      inSequence == e.probation > 0 /\ e.stream = p.stream /\ ~p.gap
      left == IF inSequence THEN e.probation - 1 ELSE RTP_PROBATIONCOUNT
      accept == ~applyprobation \/ left = 0
  IN  [e EXCEPT !.sentdata = accept, !.msgAge = 0,
                !.rtpAge = IF accept /\ ~own THEN 0 ELSE @,
                !.probation = IF applyprobation THEN left ELSE @,
                !.stream = IF applyprobation THEN p.stream ELSE @]

(* An accepted packet validates its source and makes it a sender; for our  *)
(* own entry that depends on what we send.                                 *)
SourceProcessPacket(e, p, own) ==
  LET f == StatsProcessPacket(e, p, own)
  IN  [f EXCEPT !.valid = @ \/ f.sentdata, !.sender = @ \/ (f.sentdata /\ ~own)]

(* An existing entry that becomes valid as a contributing source is not    *)
(* added to activecount, a new one is.                                     *)
ProcessCSRC(s, c, from) ==
  IF c \notin DOMAIN s.table
  THEN LET t == ObtainSourceDataInstance(s, c)
       IN  [t EXCEPT !.table[c].valid = TRUE, !.active = @ + 1]
  ELSE IF CheckCollision(s, c, from, "rtp") THEN OnSSRCCollision(s, c)
  ELSE [s EXCEPT !.table[c].valid = TRUE, !.table[c].addr["rtp"] = from]

ProcessRTPPacket(s, p) ==
  LET t == ObtainSourceDataInstance(s, p.ssrc)
      e == t.table[p.ssrc]
      f == SourceProcessPacket([e EXCEPT !.addr["rtp"] = p.from], p, p.ssrc = s.own)
      u == [t EXCEPT !.table[p.ssrc] = f,
                     !.sender = IF ~e.sender /\ f.sender THEN @ + 1 ELSE @,
                     !.active = IF ~IsActive(e) /\ IsActive(f) THEN @ + 1 ELSE @]
  IN  IF CheckCollision(t, p.ssrc, p.from, "rtp") THEN OnSSRCCollision(t, p.ssrc)
      ELSE IF f.valid /\ p.csrc # {}
           THEN ProcessCSRC(u, CHOOSE c \in p.csrc : TRUE, p.from)
           ELSE u

(* What a report, the CNAME and the BYE do to the entry they are about.    *)
ProcessBYE(e) == [e EXCEPT !.bye = TRUE, !.byeAge = 0]
ProcessSDESItem(e) == [e EXCEPT !.valid = TRUE]

FaultyEnds(s, p) == p.kind = "bye"

(* A BYE for the own SSRC is ignored.                                      *)
EndsSource(s, p) == p.kind = "bye" /\ p.ssrc # s.own

ProcessRTCPCompoundPacket(s, p) ==
  LET t == ObtainSourceDataInstance(s, p.ssrc)
      e == t.table[p.ssrc]
      g == [e EXCEPT !.addr["rtcp"] = p.from, !.msgAge = 0]
      f == CASE p.kind = "cname" -> ProcessSDESItem(g)
             [] EndsSource(s, p) -> ProcessBYE(g)
             [] OTHER -> g
  IN  IF CheckCollision(t, p.ssrc, p.from, "rtcp") THEN OnSSRCCollision(t, p.ssrc)
      ELSE [t EXCEPT !.table[p.ssrc] = f,
                     !.active = IF IsActive(e) /\ ~IsActive(f) THEN @ - 1
                                ELSE IF ~IsActive(e) /\ IsActive(f) THEN @ + 1 ELSE @]

ProcessRawPacket(s, p) ==
  IF p.kind = "rtp" THEN ProcessRTPPacket(s, p) ELSE ProcessRTCPCompoundPacket(s, p)

CreateOwnSSRC(s, q) ==
  LET e == [NewEntry EXCEPT !.valid = TRUE, !.addr = [p \in Proto |-> Null]]
  IN  [s EXCEPT !.table = Put(@, q, e), !.total = @ + 1, !.active = @ + 1, !.own = q]

FaultyDeleteOwn(s) ==
  [s EXCEPT !.table = [q \in DOMAIN @ \ {s.own} |-> @[q]],
            !.total = @ - 1, !.active = @ - 1]

DeleteOwnSSRC(s) ==
  [s EXCEPT !.table = [q \in DOMAIN @ \ {s.own} |-> @[q]],
            !.total = @ - 1,
            !.sender = IF s.table[s.own].sender THEN @ - 1 ELSE @,
            !.active = IF IsActive(s.table[s.own]) THEN @ - 1 ELSE @]

(* Timeouts: of a BYE, of a member, and of being a sender; then all three  *)
(* counters are set to what the loop has counted.                          *)
TimesOut(s, q) ==
  /\ q # s.own
  /\ \/ s.table[q].bye /\ s.table[q].byeAge > byeMultiplier
     \/ s.table[q].msgAge > memberMultiplier

StillSender(e) == e.sender /\ e.rtpAge <= senderMultiplier

MultipleTimeouts(s) ==
  LET kept == {q \in DOMAIN s.table : ~TimesOut(s, q)}
  IN  [s EXCEPT !.table = [q \in kept |-> [@[q] EXCEPT !.sender = StillSender(s.table[q])]],
                !.total = Cardinality(kept),
                !.sender = Cardinality({q \in kept : StillSender(s.table[q])}),
                !.active = Cardinality({q \in kept : IsActive(s.table[q])})]

(* Random bits, drawn until there is no entry for them.  Identifiers that  *)
(* have no entry are all alike (but for the peer's, which 32 random bits   *)
(* are assumed to miss), so any one of them stands for the others.         *)
Unknown(s) == Ssrc \ (DOMAIN s.table \cup {Peer})
CreateNewSSRC(s) == CHOOSE q \in Unknown(s) : TRUE

FaultyUpdate(list, key) == IF key \in DOMAIN list THEN Put(list, key, 0) ELSE list

(* RTPCollisionList: an address is refreshed whether it is new or not.     *)
UpdateAddress(list, key) == Put(list, key, 0)

CollisionTimeout(list) ==
  [k \in {x \in DOMAIN list : list[x] <= collisionMultiplier} |-> list[k]]

(***************************************************************************)
(* Actions.                                                                *)
(***************************************************************************)
(* The packet loop of ProcessPolledData, for one packet.  The code clears  *)
(* owncollision before the packet and reads it right after, nowhere else;  *)
(* here it is cleared once read, so that it is FALSE between packets.      *)
ReceivePacket(p) ==
  \E r \in {ProcessRawPacket(sources, p)},
     key \in {<<p.from, ProtoOf(p)>>} :
  \E s \in {[r EXCEPT !.owncollision = FALSE]} :
    \/ /\ ~r.owncollision
       /\ sources' = s
       /\ UNCHANGED collisionlist
    \/ /\ r.owncollision
       /\ collisionlist' = UpdateAddress(collisionlist, key)
       /\ sources' = IF key \in DOMAIN collisionlist THEN s
                     ELSE CreateOwnSSRC(DeleteOwnSSRC(s), CreateNewSSRC(s))

(* The peer's next packet, or one after others that were lost.             *)
PeerSends ==
  /\ since' = since \cup {"peer"}
  /\ \/ ReceivePacket(RtpFrom(Peer, PeerHost, "peer")) /\ UNCHANGED noise
     \/ /\ noise < MaxNoise
        /\ noise' = noise + 1
        /\ ReceivePacket([RtpFrom(Peer, PeerHost, "peer") EXCEPT !.gap = TRUE])

(* An echo of what we just sent, seen from another host.                   *)
LoopSends ==
  /\ ReceivePacket(RtpFrom(sources.own, LoopHost, "other"))
  /\ since' = since \cup {"loop"}
  /\ UNCHANGED noise

(* The identifiers a packet may name: those known, the peer's, and one that*)
(* stands for all the others (a source on probation cannot name another).  *)
Nameable == DOMAIN sources.table \cup {Peer, CreateNewSSRC(sources)}

Noise ==
  /\ noise < MaxNoise
  /\ noise' = noise + 1
  /\ \E q \in Nameable, host \in Host \cup {Null} :
       \/ \E str \in IF q = Peer THEN {"peer", "other"} ELSE {"other"},
             c \in {{}} \cup {{r} : r \in Nameable} :
            ReceivePacket([RtpFrom(q, host, str) EXCEPT !.csrc = c])
       \/ \E k \in {"report", "cname", "bye"} :
            ReceivePacket([RtpFrom(q, host, "other") EXCEPT !.kind = k])
  /\ UNCHANGED since

(* SendPacket, with RTPSources::SentRTPPacket.                             *)
SendPacket ==
  /\ sources' = [sources EXCEPT
                   !.table[sources.own].sender = TRUE,
                   !.table[sources.own].rtpAge = 0,
                   !.table[sources.own].msgAge = 0,
                   !.sender = IF sources.table[sources.own].sender THEN @ ELSE @ + 1]
  /\ UNCHANGED <<collisionlist, noise, since>>

(* The end of ProcessPolledData.  The RTCP packet it sends when it is time *)
(* leaves the table alone.                                                 *)
FinishPoll ==
  /\ sources' = MultipleTimeouts(sources)
  /\ collisionlist' = CollisionTimeout(collisionlist)
  /\ UNCHANGED <<noise, since>>

Older(age, multiplier) == IF age > multiplier THEN age ELSE age + 1

Aged(e) == [e EXCEPT !.byeAge = Older(@, byeMultiplier),
                     !.msgAge = Older(@, memberMultiplier),
                     !.rtpAge = Older(@, senderMultiplier)]

(* An interval Td goes by.  The peer and the loop send in every interval.  *)
Tick ==
  /\ since = {"peer", "loop"}
  /\ since' = {}
  /\ sources' = [sources EXCEPT !.table = [q \in DOMAIN @ |-> Aged(@[q])]]
  /\ collisionlist' = [k \in DOMAIN collisionlist |->
                         Older(collisionlist[k], collisionMultiplier)]
  /\ UNCHANGED noise

Empty == [q \in {} |-> 0]

(* After Create: the own entry alone.  The own SSRC may be the peer's.     *)
Init ==
  /\ \E q \in {Peer, CHOOSE r \in Ssrc \ {Peer} : TRUE} :
       sources = CreateOwnSSRC([table |-> Empty, own |-> q, total |-> 0, sender |-> 0,
                                active |-> 0, owncollision |-> FALSE], q)
  /\ collisionlist = Empty
  /\ noise = 0
  /\ since = {}

Next == PeerSends \/ LoopSends \/ Noise \/ SendPacket \/ FinishPoll \/ Tick

(* Time goes by.  That anybody sends or polls is no part of the session.   *)
Spec == Init /\ [][Next]_vars /\ WF_vars(Tick)

(***************************************************************************)
(* Properties.                                                             *)
(***************************************************************************)
(* Type invariant.  The own SSRC has an entry, valid and without an        *)
(* address, and nobody ends it.                                            *)
TypeOK ==
  /\ DOMAIN sources.table \subseteq Ssrc
  /\ \A q \in DOMAIN sources.table : sources.table[q] \in Entry
  /\ sources.own \in DOMAIN sources.table
  /\ LET e == sources.table[sources.own] IN IsActive(e) /\ e.addr = [p \in Proto |-> Null]
  /\ {sources.total, sources.sender} \subseteq Nat
  /\ sources.active \in Int
  /\ ~sources.owncollision
  /\ DOMAIN collisionlist \subseteq Host \X Proto
  /\ \A k \in DOMAIN collisionlist : collisionlist[k] \in 0..(collisionMultiplier + 1)
  /\ noise \in 0..MaxNoise
  /\ since \subseteq {"peer", "loop"}

(* The counters that GetTotalCount and GetSenderCount return, updated by a *)
(* dozen statements, are what a walk through the table counts; they are    *)
(* set again at each poll "just to play it safe".  GetActiveMemberCount    *)
(* never returns more than there are: it may return less, until the next   *)
(* poll, since ProcessCSRC forgets to count a known source it validates.   *)
CountsAddUp ==
  LET t == sources.table
  IN  /\ sources.total = Cardinality(DOMAIN t)
      /\ sources.sender = Cardinality({q \in DOMAIN t : t[q].sender})
      /\ sources.active <= Cardinality({q \in DOMAIN t : IsActive(t[q])})

(* What the documentation of Poll asks of the application, without the     *)
(* poll thread: packets are handed on and polls end, again and again,      *)
(* while the peer talks and the loop echoes.                               *)
Polling ==
  []<>("peer" \in since) /\ []<>("loop" \in since) /\ WF_vars(FinishPoll)

(* For an application that polls: whatever strangers did with the peer's   *)
(* SSRC, and with ours, in the end the table holds the peer, valid and at  *)
(* its own address, beside us, and nobody else.  Collisions with the       *)
(* peer's entry, a BYE for it, a clash of its SSRC with ours, and packets  *)
(* lost while it was on probation are all passing.                         *)
PeerIsHeard ==
  Polling => <>[](/\ DOMAIN sources.table = {sources.own, Peer}
                  /\ sources.own # Peer
                  /\ sources.table[Peer].addr["rtp"] = PeerHost
                  /\ sources.table[Peer].sender
                  /\ IsActive(sources.table[Peer]))

(* Though the loop never ends, our SSRC does not change for ever: a host   *)
(* that collides again and again stays in the list of collisions.          *)
OwnSettles == <>[][sources'.own = sources.own]_vars
=============================================================================

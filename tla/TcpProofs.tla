------------------------------ MODULE TcpProofs ------------------------------
(***************************************************************************)
(* Proofs about Tcp: what a connection's two ends and the segments in      *)
(* flight between them know of each other, for every number of slots,      *)
(* ports, connections, bytes, retransmissions, losses and link failures.   *)
(* Sequence numbers do not wrap (NoWrap): the code compares them as plain  *)
(* numbers.                                                                *)
(*                                                                         *)
(* Everything but the numbering of connections concerns one port at a      *)
(* time.  The invariant of a port speaks of four sets: the client's and    *)
(* the server's TCBs for the port (at most one each) and the segments for  *)
(* the port in flight to the server and to the client.                     *)
(***************************************************************************)
EXTENDS Tcp, InductionLemmas

(* An application's bytes, a SYN and a FIN fit in the sequence space.      *)
NoWrap == MaxBytes + 2 < SeqMod

-----------------------------------------------------------------------------
(* Segments and TCBs by themselves.                                        *)

Control(a) == a.flags \cap {"SYN", "FIN"} # {}

(* SeqEnd before it is reduced.                                            *)
EndOf(a) == a.seq + a.len + IF Control(a) THEN 1 ELSE 0

IsSyn(a) == "SYN" \in a.flags

SegOk(a) ==
  /\ a.flags \in {{"SYN"}, {"SYN", "ACK"}, {"ACK"}, {"FIN", "ACK"}}
  /\ a.len > 0 => a.flags = {"ACK"}
  /\ a.flags = {"SYN"} => a.seq = 0 /\ a.ack = 0
  /\ a.flags = {"SYN", "ACK"} => a.seq = 0 /\ a.ack = 1
  /\ EndOf(a) <= MaxBytes + 2

Opening(t) == t.state \in {"SYN_SENT", "SYN_RECEIVED"}
FinSent(t) == t.state \in {"FIN_WAIT_1", "FIN_WAIT_2", "LAST_ACK", "TIME_WAIT"}
FinQueued(t) == t.state \in {"FIN_WAIT_1", "LAST_ACK"}

(* The clone in a send queue is all that is unacknowledged.                *)
QueueOk(t) ==
  IF t.q = NoSeg THEN t.una = t.nxt
  ELSE /\ t.q.port = t.port /\ t.q.conn = t.conn /\ SegOk(t.q)
       /\ t.q.seq = t.una /\ EndOf(t.q) = t.nxt /\ t.una < t.nxt
       /\ t.q.ack <= t.rcv
       /\ IsSyn(t.q) <=> Opening(t)
       /\ "FIN" \in t.q.flags <=> FinQueued(t)

TcbOk(t) ==
  /\ QueueOk(t)
  /\ t.state = "SYN_SENT" => t.q # NoSeg /\ t.q.flags = {"SYN"} /\ t.nxt = 1 /\ t.rcv = 0
  /\ t.state = "SYN_RECEIVED" =>
       t.q # NoSeg /\ t.q.flags = {"SYN", "ACK"} /\ t.nxt = 1 /\ t.rcv = 1
  /\ ~Opening(t) => t.una >= 1 /\ t.rcv >= 1
  /\ FinSent(t) => (t.q # NoSeg <=> FinQueued(t))

-----------------------------------------------------------------------------
(* The two ends of a connection.                                           *)

(* x is not beyond what t sent, and not inside the segment in its queue.   *)
InWindow(t, x) == x <= t.una \/ x = t.nxt

(* What the segments that go Out from the TCBs X, those that come In, and  *)
(* the TCBs Y of the other end have to do with the sequence space of X.    *)
Window(X, Y, Out, In) ==
  \A t \in X :
    /\ \A a \in Out : a.conn = t.conn => InWindow(t, EndOf(a)) /\ a.ack <= t.rcv
    /\ \A b \in In : b.conn = t.conn => InWindow(t, b.ack)
    /\ \A y \in Y : y.conn = t.conn =>
         (y.rcv = t.una \/ y.rcv = t.nxt) /\ (y.q # NoSeg => InWindow(t, y.q.ack))

(* The client's TCB has taken nothing but a SYN-ACK from the server.       *)
Young(x) == x.state \in {"SYN_SENT", "ESTABLISHED", "FIN_WAIT_1"}

HasYoung(C, conn) == \E x \in C : x.conn = conn /\ Young(x)

(* What is about one end or one direction only.                            *)
Sorts(C, S, F, B) ==
  /\ \A x \in C : TcbOk(x) /\ x.state # "SYN_RECEIVED"
  /\ \A y \in S : TcbOk(y) /\ y.state # "SYN_SENT"
  /\ \A a \in F : SegOk(a) /\ a.flags # {"SYN", "ACK"}
  /\ \A b \in B : SegOk(b) /\ b.flags # {"SYN"}

(* Old and new connections of a port: the client's TCB is of the latest    *)
(* one, and what is left of older ones cannot be mistaken for it.          *)
Ages(C, S, F, B) ==
  /\ \A x \in C : \A o \in S \cup F \cup B : o.conn <= x.conn
  /\ \A x \in C : x.state # "SYN_SENT" => \A o \in S \cup B : o.conn = x.conn
  /\ \A y \in S : \A b \in B : b.conn <= y.conn
  /\ \A y \in S : \A a \in F : a.conn # y.conn => IsSyn(a)

(* The handshake: no SYN is left of a connection that got past it.         *)
Handshake(C, S, F, B) ==
  /\ \A a \in F : IsSyn(a) =>
       /\ HasYoung(C, a.conn)
       /\ \A y \in S : y.conn = a.conn => y.state = "SYN_RECEIVED"
       /\ \A b \in B : b.conn = a.conn => IsSyn(b)
       /\ \/ \E y \in S : y.conn = a.conn
          \/ \E x \in C : x.conn = a.conn /\ x.state = "SYN_SENT"
  /\ \A b \in B : IsSyn(b) => HasYoung(C, b.conn)
  /\ \A y \in S : y.state = "SYN_RECEIVED" =>
       /\ HasYoung(C, y.conn)
       /\ \A b \in B : b.conn = y.conn => IsSyn(b)
  /\ \A x \in C : x.state = "SYN_SENT" =>
       /\ \A a \in F : a.conn = x.conn => IsSyn(a)
       /\ \A y \in S : y.conn = x.conn => y.state = "SYN_RECEIVED"
       /\ \A b \in B : b.conn = x.conn => \E y \in S : y.conn = x.conn

PortOk(C, S, F, B) ==
  /\ Sorts(C, S, F, B) /\ Ages(C, S, F, B) /\ Handshake(C, S, F, B)
  /\ Window(C, S, F, B) /\ Window(S, C, B, F)

-----------------------------------------------------------------------------
(* The inductive invariant.                                                *)

Flight(q) == {q[k] : k \in 1 .. Len(q)}

TcbsOf(T, h, p) == {t \in {T[h][i] : i \in Slots} : Connected(t) /\ t.port = p}
SegsOf(N, h, p) == {a \in Flight(N[h]) : a.port = p}

PortInv(T, N, p) ==
  PortOk(TcbsOf(T, "client", p), TcbsOf(T, "server", p),
         SegsOf(N, "server", p), SegsOf(N, "client", p))

(* The order of two segments in flight to the same host.                   *)
Before(a, b) ==
  a.port = b.port => a.conn <= b.conn /\ (a.conn = b.conn /\ IsSyn(b) => IsSyn(a))

Ordered(q) == \A k, l \in 1 .. Len(q) : k < l => Before(q[k], q[l])

(* Whatever has a connection's number.                                     *)
Numbered(T, N) ==
  {t \in UNION {{T[h][i] : i \in Slots} : h \in Hosts} : Connected(t)}
    \cup UNION {Flight(N[h]) : h \in Hosts}

(* A connection has one port, and numbers are used up in order.            *)
Numbers(T, N, m) ==
  \A o \in Numbered(T, N) :
    o.conn <= m /\ \A u \in Numbered(T, N) : o.conn = u.conn => o.port = u.port

Bounded ==
  \A h \in Hosts, i \in Slots :
    Connected(tcb[h][i]) =>
      tcb[h][i].nxt <= 1 + written[h] + IF FinSent(tcb[h][i]) THEN 1 ELSE 0

(* What recv_handler was given lies behind rcv_nxt.                        *)
Delivered ==
  /\ \A h \in Hosts, i \in Slots : Connected(tcb[h][i]) =>
       \A n \in 1 .. Len(got[h][tcb[h][i].conn]) :
         got[h][tcb[h][i].conn][n] < tcb[h][i].rcv
  /\ \A i \in Slots : tcb["client"][i].state = "SYN_SENT" =>
       got["server"][tcb["client"][i].conn] = <<>>
  /\ \A h \in Hosts, c \in 1 .. MaxConns : c > conns => got[h][c] = <<>>
  /\ OrderedDelivery

NoClientListener == \A i \in Slots : tcb["client"][i].state # "LISTEN"

(* A TCB in use has a port and a connection, any other an empty queue.     *)
InUse(t) ==
  /\ Connected(t) => t.port \in Ports /\ t.conn \in 1 .. MaxConns
  /\ ~Connected(t) => t.q = NoSeg

SlotInv ==
  /\ TypeOK /\ SlotsOwned /\ NoClientListener
  /\ \A h \in Hosts, i \in Slots : InUse(tcb[h][i])

Inv ==
  /\ SlotInv
  /\ \A p \in Ports : PortInv(tcb, net, p)
  /\ \A h \in Hosts : Ordered(net[h])
  /\ Numbers(tcb, net, conns)
  /\ Bounded
  /\ Delivered

-----------------------------------------------------------------------------
(* Types.                                                                  *)

(* The other host's other host is the host itself.                         *)
LEMMA HostsIs ==
  ASSUME NEW h \in Hosts
  PROVE  Other(h) \in Hosts /\ Other(h) # h /\ Other(Other(h)) = h
BY DEF Hosts, Other

(* Addition of sequence numbers, which wraps only beyond the space.        *)
LEMMA PlusType ==
  ASSUME NEW a \in Nat, NEW n \in Nat
  PROVE  Plus(a, n) \in Seqs /\ (a + n < SeqMod => Plus(a, n) = a + n)
BY SeqAssumption DEF Plus, Seqs

(* The segment that tcp_send_segment builds.                               *)
LEMMA SegType ==
  ASSUME NEW t \in Tcb, Connected(t), InUse(t),
         NEW flags \in SUBSET {"SYN", "ACK", "FIN"}, NEW len \in 0 .. MaxBytes
  PROVE  Seg(t, flags, len) \in Segment
BY DEF Tcb, InUse, Seg, Segment

(* The fields of a segment.                                                *)
LEMMA SegmentFields ==
  ASSUME NEW a \in Segment
  PROVE  /\ a # NoSeg /\ a.port \in Ports /\ a.seq \in Nat /\ a.ack \in Nat
         /\ a.seq \in Seqs /\ a.ack \in Seqs
         /\ a.len \in 0 .. MaxBytes /\ a.conn \in 1 .. MaxConns
         /\ a.flags \in SUBSET {"SYN", "ACK", "FIN"}
<1>1. /\ a.port \in Ports /\ a.seq \in Seqs /\ a.ack \in Seqs
      /\ a.len \in 0 .. MaxBytes /\ a.conn \in 1 .. MaxConns
      /\ a.flags \in SUBSET {"SYN", "ACK", "FIN"}
  BY DEF Segment
<1>2. a.seq \in Nat /\ a.ack \in Nat
  BY <1>1, SeqAssumption DEF Seqs
<1>3. a # NoSeg
  <2>1. "seq" \in DOMAIN a
    BY DEF Segment
  <2>2. "seq" \notin DOMAIN NoSeg
    BY DEF NoSeg
  <2> QED BY <2>1, <2>2
<1> QED BY <1>1, <1>2, <1>3

(* The end of a segment, reduced and not.                                  *)
LEMMA SeqEndType ==
  ASSUME NEW a \in Segment
  PROVE  SeqEnd(a) \in Seqs /\ EndOf(a) \in Nat
         /\ (EndOf(a) < SeqMod => SeqEnd(a) = EndOf(a))
<1> DEFINE n == a.len + IF Control(a) THEN 1 ELSE 0
<1>1. a.seq \in Nat /\ a.len \in Nat
  BY SegmentFields
<1>2. n \in Nat
  BY <1>1
<1>3. SeqEnd(a) = Plus(a.seq, n) /\ EndOf(a) = a.seq + n
  BY <1>1 DEF SeqEnd, EndOf, Control
<1> HIDE DEF n
<1> QED BY <1>1, <1>2, <1>3, PlusType

(* The fields of a TCB.                                                    *)
LEMMA TcbFields ==
  ASSUME NEW t \in Tcb
  PROVE  /\ t = [state |-> t.state, port |-> t.port, una |-> t.una, nxt |-> t.nxt,
                 rcv |-> t.rcv, q |-> t.q, conn |-> t.conn, called |-> t.called]
         /\ t.state \in States /\ t.port \in Ports \cup {0}
         /\ t.una \in Seqs /\ t.nxt \in Seqs /\ t.rcv \in Seqs
         /\ t.una \in Nat /\ t.nxt \in Nat /\ t.rcv \in Nat
         /\ t.q \in Segment \cup {NoSeg} /\ t.conn \in 0 .. MaxConns
         /\ t.called \in BOOLEAN
<1>1. /\ t = [state |-> t.state, port |-> t.port, una |-> t.una, nxt |-> t.nxt,
              rcv |-> t.rcv, q |-> t.q, conn |-> t.conn, called |-> t.called]
      /\ t.state \in States /\ t.port \in Ports \cup {0}
      /\ t.una \in Seqs /\ t.nxt \in Seqs /\ t.rcv \in Seqs
      /\ t.q \in Segment \cup {NoSeg} /\ t.conn \in 0 .. MaxConns
      /\ t.called \in BOOLEAN
  BY DEF Tcb
<1>2. Seqs \subseteq Nat
  BY SeqAssumption DEF Seqs
<1> QED BY <1>1, <1>2

(* A released slot holds a TCB.                                            *)
LEMMA FreeTcbType == FreeTcb \in Tcb /\ FreeTcb.state = "FREE"
BY SeqAssumption, BoundsAssumption DEF FreeTcb, Tcb, States, Seqs

(* The TCBs that the operators on TCBs return.                             *)
LEMMA SendqAckType ==
  ASSUME NEW t \in Tcb, NEW ack \in Seqs
  PROVE  /\ SendqAck(t, ack) \in Tcb
         /\ SendqAck(t, ack).state = t.state /\ SendqAck(t, ack).port = t.port
         /\ SendqAck(t, ack).nxt = t.nxt /\ SendqAck(t, ack).rcv = t.rcv
         /\ SendqAck(t, ack).conn = t.conn /\ SendqAck(t, ack).called = t.called
         /\ SendqAck(t, ack).una = ack
         /\ SendqAck(t, ack).q =
              IF t.q # NoSeg /\ ack >= SeqEnd(t.q) THEN NoSeg ELSE t.q
<1> DEFINE q == IF t.q # NoSeg /\ ack >= SeqEnd(t.q) THEN NoSeg ELSE t.q
<1>1. SendqAck(t, ack) = [t EXCEPT !.una = ack, !.q = q]
  BY DEF SendqAck
<1>2. q \in Segment \cup {NoSeg}
  BY TcbFields
<1> HIDE DEF q
<1>3. SendqAck(t, ack) = [state |-> t.state, port |-> t.port, una |-> ack, nxt |-> t.nxt,
          rcv |-> t.rcv, q |-> q, conn |-> t.conn, called |-> t.called]
  <2>1. t = [state |-> t.state, port |-> t.port, una |-> t.una, nxt |-> t.nxt,
             rcv |-> t.rcv, q |-> t.q, conn |-> t.conn, called |-> t.called]
    BY TcbFields
  <2> QED BY <1>1, <2>1
<1>4. SendqAck(t, ack) \in Tcb
  BY <1>2, <1>3, TcbFields DEF Tcb
<1> QED BY <1>3, <1>4 DEF q

(* The TCB after tcp_sendq_track.                                          *)
LEMMA TrackType ==
  ASSUME NEW t \in Tcb, NEW a \in Segment
  PROVE  /\ Track(t, a) \in Tcb
         /\ Track(t, a).state = t.state /\ Track(t, a).port = t.port
         /\ Track(t, a).una = t.una /\ Track(t, a).rcv = t.rcv
         /\ Track(t, a).conn = t.conn /\ Track(t, a).called = t.called
         /\ Track(t, a).nxt = SeqEnd(a) /\ Track(t, a).q = a
<1> DEFINE e == SeqEnd(a)
<1>1. Track(t, a) = [t EXCEPT !.q = a, !.nxt = e] /\ e \in Seqs
  BY SeqEndType DEF Track
<1> HIDE DEF e
<1>2. Track(t, a) = [state |-> t.state, port |-> t.port, una |-> t.una, nxt |-> e,
          rcv |-> t.rcv, q |-> a, conn |-> t.conn, called |-> t.called]
  BY <1>1, TcbFields
<1>3. Track(t, a) \in Tcb
  BY <1>1, <1>2, TcbFields DEF Tcb
<1> QED BY <1>2, <1>3 DEF e

-----------------------------------------------------------------------------
(* What the branches of tcp_receive do to the TCB that a segment matches.  *)

(* The TCB that differs from t in these fields (and perhaps in called).    *)
Is(u, t, state, una, rcv, q) ==
  /\ u \in Tcb /\ u.state = state /\ u.una = una /\ u.rcv = rcv /\ u.q = q
  /\ u.nxt = t.nxt /\ u.port = t.port /\ u.conn = t.conn

(* The send queue after an acknowledgement.                                *)
AckedQueue(t, ack) == IF t.q # NoSeg /\ ack >= SeqEnd(t.q) THEN NoSeg ELSE t.q

(* Segment a, met in state t with the link as in up, leaves u.             *)
OpenedBy(t, a, u) ==
  /\ t.state = "SYN_SENT" /\ {"SYN", "ACK"} \subseteq a.flags /\ a.ack = t.nxt
  /\ Is(u, t, "ESTABLISHED", a.ack, Plus(a.seq, 1), AckedQueue(t, a.ack))

AcceptedBy(t, a, u) ==
  /\ t.state = "SYN_RECEIVED" /\ "ACK" \in a.flags /\ a.ack = t.nxt
  /\ Is(u, t, "ESTABLISHED", a.ack, t.rcv, AckedQueue(t, a.ack))

(* The acknowledgement part of the ESTABLISHED branch.                     *)
AckedBy(t, a, u) ==
  \/ u.una = t.una /\ u.q = t.q
  \/ "ACK" \in a.flags /\ a.ack > t.una /\ a.ack <= t.nxt
     /\ u.una = a.ack /\ u.q = AckedQueue(t, a.ack)

DataBy(t, a, u) ==
  /\ t.state = "ESTABLISHED" /\ a.len > 0 /\ AckedBy(t, a, u)
  /\ Is(u, t, "ESTABLISHED", u.una, IF a.seq = t.rcv THEN Plus(t.rcv, a.len) ELSE t.rcv, u.q)

EmptyBy(t, a, u, up) ==
  LET fin == "FIN" \in a.flags /\ a.seq = t.rcv
  IN  /\ t.state = "ESTABLISHED" /\ a.len = 0 /\ AckedBy(t, a, u)
      /\ Is(u, t, IF fin /\ up THEN "CLOSE_WAIT" ELSE "ESTABLISHED", u.una,
            IF fin THEN Plus(t.rcv, 1) ELSE t.rcv, u.q)

FinAckedBy(t, a, u) ==
  /\ FinQueued(t) /\ "ACK" \in a.flags /\ a.ack > t.una
  /\ LET q == AckedQueue(t, a.ack)
         open == q # NoSeg /\ "FIN" \in q.flags
     IN  IF open THEN Is(u, t, t.state, a.ack, t.rcv, q)
         ELSE IF t.state = "FIN_WAIT_1" THEN Is(u, t, "FIN_WAIT_2", a.ack, t.rcv, q)
         ELSE u = FreeTcb

FinBy(t, a, u, up) ==
  /\ t.state = "FIN_WAIT_2" /\ "FIN" \in a.flags /\ a.seq = t.rcv
  /\ Is(u, t, IF up THEN "TIME_WAIT" ELSE "FIN_WAIT_2", t.una, Plus(t.rcv, 1), t.q)

MovedBy(t, a, u, up) ==
  \/ u = t /\ t.state # "ESTABLISHED"
  \/ OpenedBy(t, a, u)
  \/ AcceptedBy(t, a, u)
  \/ DataBy(t, a, u)
  \/ EmptyBy(t, a, u, up)
  \/ FinAckedBy(t, a, u)
  \/ FinBy(t, a, u, up)

(* An established TCB takes a segment with bytes as data.                  *)
LEMMA MovedData ==
  ASSUME NEW t, NEW a, NEW u, NEW up, MovedBy(t, a, u, up), t.state = "ESTABLISHED", a.len > 0
  PROVE  DataBy(t, a, u)
<1>1. ~OpenedBy(t, a, u) /\ ~AcceptedBy(t, a, u)
  BY DEF OpenedBy, AcceptedBy
<1>2. ~EmptyBy(t, a, u, up)
  BY DEF EmptyBy
<1>3. ~FinAckedBy(t, a, u) /\ ~FinBy(t, a, u, up)
  BY DEF FinAckedBy, FinBy, FinQueued
<1> QED BY <1>1, <1>2, <1>3 DEF MovedBy

(* The answer: nothing, or an ACK from a TCB that is past the handshake.   *)
AnswerOf(u, O) ==
  \/ O = <<>>
  \/ Connected(u) /\ ~Opening(u) /\ O = <<Seg(u, {"ACK"}, 0)>>

(* One end of a step of tcp_receive.                                       *)
Handles(h, i, u, O) ==
  /\ u \in Tcb /\ MovedBy(tcb[h][i], Arrived(h), u, linkUp) /\ AnswerOf(u, O)
  /\ tcb' = [tcb EXCEPT ![h][i] = u]
  /\ Consume(h, O)

(* recv_handler gets the bytes of a segment in order while the link is up. *)
Bytes(a) == [n \in 1 .. a.len |-> Plus(a.seq, n - 1)]

Gets(h, i) ==
  LET t == tcb[h][i]
      a == Arrived(h)
  IN  got' = IF t.state = "ESTABLISHED" /\ a.len > 0 /\ a.seq = t.rcv /\ linkUp
             THEN [got EXCEPT ![h][t.conn] = @ \o Bytes(a)] ELSE got

(* The TIME_WAIT timer starts with the state.                              *)
Times(h, i) ==
  tw' = IF tcb[h][i].state # "TIME_WAIT" /\ tcb'[h][i].state = "TIME_WAIT"
        THEN [tw EXCEPT ![h][i] = @ + 1] ELSE tw

MatchedStep(h, i, u, O) ==
  /\ Matched(h, i, tcb[h][i].state)
  /\ Handles(h, i, u, O) /\ Gets(h, i) /\ Times(h, i)
  /\ UNCHANGED <<rtx, linkUp, budget>>

(* What is in a slot.                                                      *)
LEMMA TcbAt ==
  ASSUME SlotInv, NEW h \in Hosts, NEW i \in Slots
  PROVE  tcb[h][i] \in Tcb /\ InUse(tcb[h][i])
BY DEF SlotInv, TypeOK

(* What has arrived is a segment.                                          *)
LEMMA ArrivedType ==
  ASSUME SlotInv, NEW h \in Hosts, net[h] # <<>>
  PROVE  Arrived(h) \in Segment
BY DEF SlotInv, TypeOK, Arrived

(* Writing to a slot what it holds changes nothing.                        *)
LEMMA SameTcb ==
  ASSUME SlotInv, NEW h \in Hosts, NEW i \in Slots
  PROVE  tcb = [tcb EXCEPT ![h][i] = tcb[h][i]]
BY DEF SlotInv, TypeOK

(* Writing to a slot changes no other.                                     *)
LEMMA WroteTcb ==
  ASSUME SlotInv, NEW h \in Hosts, NEW i \in Slots, NEW u \in Tcb,
         tcb' = [tcb EXCEPT ![h][i] = u]
  PROVE  /\ tcb' \in [Hosts -> [Slots -> Tcb]] /\ tcb'[h][i] = u
         /\ \A g \in Hosts, j \in Slots : ~(g = h /\ j = i) => tcb'[g][j] = tcb[g][j]
BY DEF SlotInv, TypeOK

(* A segment that changes nothing of the TCB it matches.                   *)
LEMMA QuietStep ==
  ASSUME SlotInv, NEW h \in Hosts, NEW i \in Slots, net[h] # <<>>,
         Matched(h, i, tcb[h][i].state), tcb' = tcb, Consume(h, <<>>),
         got' = got, tw' = tw, UNCHANGED <<rtx, linkUp, budget>>,
         tcb[h][i].state # "ESTABLISHED"
  PROVE  MatchedStep(h, i, tcb[h][i], <<>>)
<1>1. tcb[h][i] \in Tcb
  BY TcbAt
<1>2. tcb' = [tcb EXCEPT ![h][i] = tcb[h][i]]
  BY SameTcb
<1>3. tcb'[h][i] = tcb[h][i]
  OBVIOUS
<1> QED BY <1>1, <1>2, <1>3 DEF MatchedStep, Handles, MovedBy, AnswerOf, Gets, Times

(* The forms of records that the branches build.                           *)
LEMMA ExceptRcv ==
  ASSUME NEW t \in Tcb, NEW rcv \in Seqs, NEW state \in States
  PROVE  LET u == [t EXCEPT !.rcv = rcv, !.state = state]
         IN  Is(u, t, state, t.una, rcv, t.q) /\ u.called = t.called
<1> DEFINE u == [t EXCEPT !.rcv = rcv, !.state = state]
<1>0. u = [t EXCEPT !.rcv = rcv, !.state = state]
  OBVIOUS
<1> HIDE DEF u
<1>1. u = [state |-> state, port |-> t.port, una |-> t.una, nxt |-> t.nxt,
           rcv |-> rcv, q |-> t.q, conn |-> t.conn, called |-> t.called]
  BY <1>0 DEF Tcb
<1>2. u \in Tcb
  BY <1>1, TcbFields DEF Tcb
<1>3. Is(u, t, state, t.una, rcv, t.q) /\ u.called = t.called
  BY <1>1, <1>2 DEF Is
<1> QED BY <1>3 DEF u

(* SYN_SENT: a SYN-ACK opens the connection.                               *)
LEMMA SynSentStep ==
  ASSUME SlotInv, NEW h \in Hosts, NEW i \in Slots, net[h] # <<>>, ReceiveSynSent(h, i)
  PROVE  \E u, O : MatchedStep(h, i, u, O)
<1> DEFINE a == Arrived(h)
           t == tcb[h][i]
           ok == {"SYN", "ACK"} \subseteq a.flags /\ a.ack = t.nxt
           s == SendqAck(t, a.ack)
           r == Plus(a.seq, 1)
           u == [s EXCEPT !.rcv = r, !.state = "ESTABLISHED", !.called = linkUp]
<1>1. /\ Matched(h, i, "SYN_SENT")
      /\ tcb' = IF ok THEN [tcb EXCEPT ![h][i] = u] ELSE tcb
      /\ Consume(h, IF ok THEN FinalAck(u) ELSE <<>>)
      /\ UNCHANGED <<rtx, tw, linkUp, got, budget>>
  BY DEF ReceiveSynSent
<1>2. t \in Tcb /\ a \in Segment /\ t.state = "SYN_SENT"
  BY <1>1, TcbAt, ArrivedType DEF Matched
<1>3. CASE ~ok
  <2>1. MatchedStep(h, i, t, <<>>)
    BY <1>1, <1>2, <1>3, QuietStep
  <2> QED BY <2>1
<1>4. CASE ok
  <2>1. a.ack \in Seqs /\ a.seq \in Nat
    BY <1>2, SegmentFields
  <2>2. r \in Seqs
    BY <2>1, PlusType
  <2>3. /\ s \in Tcb /\ s.port = t.port /\ s.nxt = t.nxt /\ s.conn = t.conn
        /\ s.una = a.ack /\ s.q = AckedQueue(t, a.ack)
    BY <1>2, <2>1, SendqAckType DEF AckedQueue
  <2>4. linkUp \in BOOLEAN
    BY DEF SlotInv, TypeOK
  <2> HIDE DEF s, r
  <2>0. u = [s EXCEPT !.rcv = r, !.state = "ESTABLISHED", !.called = linkUp]
    OBVIOUS
  <2> HIDE DEF u
  <2>5. u = [state |-> "ESTABLISHED", port |-> s.port, una |-> s.una, nxt |-> s.nxt,
             rcv |-> r, q |-> s.q, conn |-> s.conn, called |-> linkUp]
    BY <2>0, <2>3 DEF Tcb
  <2>6. tcb' = [tcb EXCEPT ![h][i] = u] /\ Consume(h, FinalAck(u))
    BY <1>1, <1>4 DEF s, r, u
  <2> HIDE DEF t, ok
  <2>7. u \in Tcb
    BY <2>2, <2>3, <2>4, <2>5, TcbFields DEF Tcb, States
  <2>8. OpenedBy(t, a, u)
    BY <1>2, <1>4, <2>3, <2>5, <2>7 DEF OpenedBy, Is, ok, r
  <2>9. AnswerOf(u, FinalAck(u)) /\ u.state = "ESTABLISHED"
    BY <2>5 DEF AnswerOf, FinalAck, Ack, Connected, Opening
  <2>10. tcb'[h][i] = u
    BY <2>6, <2>7, WroteTcb
  <2>11. MatchedStep(h, i, u, FinalAck(u))
    BY <1>1, <1>2, <2>6, <2>7, <2>8, <2>9, <2>10
    DEF MatchedStep, Handles, MovedBy, Gets, Times, t
  <2> QED BY <2>11
<1> QED BY <1>3, <1>4

(* SYN_RECEIVED: the final ACK.                                            *)
LEMMA SynReceivedStep ==
  ASSUME SlotInv, NEW h \in Hosts, NEW i \in Slots, net[h] # <<>>, ReceiveSynReceived(h, i)
  PROVE  \E u, O : MatchedStep(h, i, u, O)
<1> DEFINE a == Arrived(h)
           t == tcb[h][i]
           ok == "ACK" \in a.flags /\ a.ack = t.nxt
           s == SendqAck(t, a.ack)
           u == [s EXCEPT !.state = "ESTABLISHED", !.called = TRUE]
<1>1. /\ Matched(h, i, "SYN_RECEIVED")
      /\ tcb' = IF ok THEN [tcb EXCEPT ![h][i] = u] ELSE tcb
      /\ Consume(h, <<>>)
      /\ UNCHANGED <<rtx, tw, linkUp, got, budget>>
  BY DEF ReceiveSynReceived, EstablishedByAck
<1>2. t \in Tcb /\ a \in Segment /\ t.state = "SYN_RECEIVED"
  BY <1>1, TcbAt, ArrivedType DEF Matched
<1>3. CASE ~ok
  <2>1. MatchedStep(h, i, t, <<>>)
    BY <1>1, <1>2, <1>3, QuietStep
  <2> QED BY <2>1
<1>4. CASE ok
  <2>1. a.ack \in Seqs
    BY <1>2, SegmentFields
  <2>2. /\ s \in Tcb /\ s.port = t.port /\ s.nxt = t.nxt /\ s.conn = t.conn
        /\ s.una = a.ack /\ s.q = AckedQueue(t, a.ack) /\ s.rcv = t.rcv
    BY <1>2, <2>1, SendqAckType DEF AckedQueue
  <2>3. tcb' = [tcb EXCEPT ![h][i] = u]
    BY <1>1, <1>4
  <2> HIDE DEF s
  <2>4. u = [s EXCEPT !.state = "ESTABLISHED", !.called = TRUE]
    OBVIOUS
  <2> HIDE DEF u, t, ok
  <2>5. u = [state |-> "ESTABLISHED", port |-> s.port, una |-> s.una, nxt |-> s.nxt,
             rcv |-> s.rcv, q |-> s.q, conn |-> s.conn, called |-> TRUE]
    BY <2>2, <2>4 DEF Tcb
  <2>6. u \in Tcb
    BY <2>2, <2>5, TcbFields DEF Tcb, States
  <2>7. AcceptedBy(t, a, u)
    BY <1>2, <1>4, <2>2, <2>5, <2>6 DEF AcceptedBy, Is, ok
  <2>8. tcb'[h][i] = u /\ u.state = "ESTABLISHED"
    <3>1. tcb'[h][i] = u
      BY <2>3, <2>6, WroteTcb
    <3>2. u.state = "ESTABLISHED"
      BY <2>5
    <3> QED BY <3>1, <3>2
  <2>9. MatchedStep(h, i, u, <<>>)
    BY <1>1, <1>2, <2>3, <2>6, <2>7, <2>8
    DEF MatchedStep, Handles, MovedBy, AnswerOf, Gets, Times, t
  <2> QED BY <2>9
<1> QED BY <1>3, <1>4

(* The acknowledgement part of the ESTABLISHED branch.                     *)
LEMMA AckEstablishedIs ==
  ASSUME NEW t \in Tcb, NEW a \in Segment
  PROVE  LET s == AckEstablished(t, a)
         IN  /\ AckedBy(t, a, s) /\ Is(s, t, t.state, s.una, t.rcv, s.q)
             /\ s.called = t.called
<1> DEFINE s == AckEstablished(t, a)
<1>1. a.ack \in Seqs
  BY SegmentFields
<1>2. CASE "ACK" \in a.flags /\ a.ack > t.una /\ a.ack <= t.nxt
  <2>1. s = SendqAck(t, a.ack)
    BY <1>2 DEF AckEstablished
  <2> QED BY <1>1, <1>2, <2>1, SendqAckType DEF AckedBy, Is, AckedQueue
<1>3. CASE ~("ACK" \in a.flags /\ a.ack > t.una /\ a.ack <= t.nxt)
  <2>1. s = t
    BY <1>3 DEF AckEstablished
  <2> QED BY <2>1 DEF AckedBy, Is
<1> QED BY <1>2, <1>3

(* ESTABLISHED: a segment with data.                                       *)
LEMMA DataStep ==
  ASSUME SlotInv, NEW h \in Hosts, NEW i \in Slots, net[h] # <<>>, ReceiveData(h, i)
  PROVE  \E u, O : MatchedStep(h, i, u, O)
<1> DEFINE a == Arrived(h)
           t == tcb[h][i]
           s == AckEstablished(t, a)
           u == AfterData(s, a)
<1>1. /\ Matched(h, i, "ESTABLISHED") /\ a.len > 0
      /\ tcb' = [tcb EXCEPT ![h][i] = u]
      /\ got' = IF a.seq = s.rcv /\ linkUp
                THEN [got EXCEPT ![h][s.conn] = @ \o Bytes(a)] ELSE got
      /\ Consume(h, <<Seg(u, {"ACK"}, 0)>>)
      /\ UNCHANGED <<rtx, tw, linkUp, budget>>
  BY DEF ReceiveData, InOrder, DataAck, Ack, Bytes
<1>2. t \in Tcb /\ a \in Segment /\ t.state = "ESTABLISHED"
  BY <1>1, TcbAt, ArrivedType DEF Matched
<1>3. AckedBy(t, a, s) /\ Is(s, t, "ESTABLISHED", s.una, t.rcv, s.q) /\ s.called = t.called
  BY <1>2, AckEstablishedIs
<1>4. s \in Tcb /\ s.rcv = t.rcv /\ s.conn = t.conn /\ s.state = "ESTABLISHED"
  BY <1>3 DEF Is
<1>5. u = IF a.seq = s.rcv THEN [s EXCEPT !.rcv = Plus(s.rcv, a.len)] ELSE s
  BY DEF AfterData, InOrder
<1> HIDE DEF s, u
<1> DEFINE r == Plus(t.rcv, a.len)
<1>6. r \in Seqs
  BY <1>2, TcbFields, SegmentFields, PlusType
<1>7. Is(u, t, "ESTABLISHED", s.una, IF a.seq = t.rcv THEN r ELSE t.rcv, s.q)
      /\ u.called = t.called
  <2> HIDE DEF r
  <2>1. CASE a.seq = t.rcv
    <3>1. u = [s EXCEPT !.rcv = r]
      BY <1>4, <1>5, <2>1 DEF r
    <3>2. u = [state |-> s.state, port |-> s.port, una |-> s.una, nxt |-> s.nxt,
               rcv |-> r, q |-> s.q, conn |-> s.conn, called |-> s.called]
      BY <1>4, <3>1 DEF Tcb
    <3>3. u \in Tcb
      BY <1>4, <1>6, <3>2, TcbFields DEF Tcb
    <3> QED BY <1>3, <2>1, <3>2, <3>3 DEF Is
  <2>2. CASE a.seq # t.rcv
    BY <1>3, <1>4, <1>5, <2>2
  <2> QED BY <2>1, <2>2
<1>8. u \in Tcb /\ u.una = s.una /\ u.q = s.q /\ u.state = "ESTABLISHED"
  BY <1>2, <1>7 DEF Is
<1>9. DataBy(t, a, u)
  BY <1>1, <1>2, <1>3, <1>7, <1>8 DEF DataBy, AckedBy
<1>10. AnswerOf(u, <<Seg(u, {"ACK"}, 0)>>)
  BY <1>8 DEF AnswerOf, Connected, Opening
<1>11. tcb'[h][i] = u
  BY <1>1, <1>8, WroteTcb
<1>12. Gets(h, i)
  BY <1>1, <1>2, <1>4 DEF Gets
<1>13. MatchedStep(h, i, u, <<Seg(u, {"ACK"}, 0)>>)
  BY <1>1, <1>2, <1>8, <1>9, <1>10, <1>11, <1>12
  DEF MatchedStep, Handles, MovedBy, Times
<1> QED BY <1>13

(* ESTABLISHED: a segment without data.                                    *)
LEMMA EmptyStep ==
  ASSUME SlotInv, NEW h \in Hosts, NEW i \in Slots, net[h] # <<>>, ReceiveEmpty(h, i)
  PROVE  \E u, O : MatchedStep(h, i, u, O)
<1> DEFINE a == Arrived(h)
           t == tcb[h][i]
           s == AckEstablished(t, a)
           fin == "FIN" \in a.flags /\ a.seq = s.rcv
           state == IF linkUp THEN "CLOSE_WAIT" ELSE s.state
           u == IF fin THEN [s EXCEPT !.rcv = Plus(s.rcv, 1), !.state = state] ELSE s
           O == IF fin THEN <<Seg(u, {"ACK"}, 0)>> ELSE <<>>
<1>1. /\ Matched(h, i, "ESTABLISHED") /\ a.len = 0
      /\ tcb' = [tcb EXCEPT ![h][i] = u]
      /\ Consume(h, O)
      /\ UNCHANGED <<rtx, tw, linkUp, got, budget>>
  BY DEF ReceiveEmpty, Ack
<1>2. t \in Tcb /\ a \in Segment /\ t.state = "ESTABLISHED"
  BY <1>1, TcbAt, ArrivedType DEF Matched
<1>3. AckedBy(t, a, s) /\ Is(s, t, "ESTABLISHED", s.una, t.rcv, s.q) /\ s.called = t.called
  BY <1>2, AckEstablishedIs
<1>4. s \in Tcb /\ s.rcv = t.rcv /\ s.conn = t.conn /\ s.state = "ESTABLISHED"
  BY <1>3 DEF Is
<1> HIDE DEF s
<1> DEFINE r == Plus(s.rcv, 1)
<1>5. r \in Seqs
  BY <1>4, TcbFields, PlusType
<1>6. u = IF fin THEN [s EXCEPT !.rcv = r, !.state = state] ELSE s
  OBVIOUS
<1> HIDE DEF u, r
<1>7. Is(u, t, IF fin /\ linkUp THEN "CLOSE_WAIT" ELSE "ESTABLISHED", s.una,
         IF fin THEN r ELSE t.rcv, s.q)
      /\ u.called = t.called
  <2>1. CASE fin
    <3>1. state = (IF linkUp THEN "CLOSE_WAIT" ELSE "ESTABLISHED") /\ state \in States
      BY <1>4 DEF States
    <3> HIDE DEF state
    <3>2. u = [s EXCEPT !.rcv = r, !.state = state]
      BY <1>6, <2>1
    <3>3. Is(u, s, state, s.una, r, s.q) /\ u.called = s.called
      BY <1>4, <1>5, <3>1, <3>2, ExceptRcv
    <3> HIDE DEF fin
    <3> QED BY <1>3, <2>1, <3>1, <3>3 DEF Is
  <2>2. CASE ~fin
    BY <1>3, <1>6, <2>2
  <2> QED BY <2>1, <2>2
<1>8. u \in Tcb /\ u.una = s.una /\ u.q = s.q /\ u.state \in {"ESTABLISHED", "CLOSE_WAIT"}
  BY <1>2, <1>7 DEF Is
<1>9. EmptyBy(t, a, u, linkUp)
  BY <1>1, <1>2, <1>3, <1>4, <1>7, <1>8 DEF EmptyBy, AckedBy, r
<1>10. AnswerOf(u, O)
  BY <1>8 DEF AnswerOf, Connected, Opening
<1> HIDE DEF O, fin, state
<1>11. tcb'[h][i] = u
  BY <1>1, <1>8, WroteTcb
<1>12. MatchedStep(h, i, u, O)
  BY <1>1, <1>2, <1>8, <1>9, <1>10, <1>11
  DEF MatchedStep, Handles, MovedBy, Gets, Times
<1> QED BY <1>12

(* FIN_WAIT_1: the acknowledgement of the FIN.                             *)
LEMMA FinWait1Step ==
  ASSUME SlotInv, NEW h \in Hosts, NEW i \in Slots, net[h] # <<>>, ReceiveFinWait1(h, i)
  PROVE  \E u, O : MatchedStep(h, i, u, O)
<1> DEFINE a == Arrived(h)
           t == tcb[h][i]
           ok == "ACK" \in a.flags /\ a.ack > t.una
           s == SendqAck(t, a.ack)
           u == IF FinUnacked(s) THEN s ELSE [s EXCEPT !.state = "FIN_WAIT_2"]
<1>1. /\ Matched(h, i, "FIN_WAIT_1")
      /\ tcb' = IF ok THEN [tcb EXCEPT ![h][i] = u] ELSE tcb
      /\ Consume(h, <<>>)
      /\ UNCHANGED <<rtx, tw, linkUp, got, budget>>
  BY DEF ReceiveFinWait1
<1>2. t \in Tcb /\ a \in Segment /\ t.state = "FIN_WAIT_1"
  BY <1>1, TcbAt, ArrivedType DEF Matched
<1>3. CASE ~ok
  <2>1. MatchedStep(h, i, t, <<>>)
    BY <1>1, <1>2, <1>3, QuietStep
  <2> QED BY <2>1
<1>4. CASE ok
  <2>1. a.ack \in Seqs
    BY <1>2, SegmentFields
  <2>2. Is(s, t, "FIN_WAIT_1", a.ack, t.rcv, AckedQueue(t, a.ack))
    BY <1>2, <2>1, SendqAckType DEF AckedQueue, Is
  <2>3. tcb' = [tcb EXCEPT ![h][i] = u]
    BY <1>1, <1>4
  <2> HIDE DEF s
  <2>4. u = IF FinUnacked(s) THEN s ELSE [s EXCEPT !.state = "FIN_WAIT_2"]
    OBVIOUS
  <2> HIDE DEF u, t, ok
  <2>5. s \in Tcb /\ s.q = AckedQueue(t, a.ack)
    BY <2>2 DEF Is
  <2>6. FinAckedBy(t, a, u) /\ u \in Tcb /\ u.state \in {"FIN_WAIT_1", "FIN_WAIT_2"}
    <3>1. CASE FinUnacked(s)
      <4>1. u = s
        BY <2>4, <3>1
      <4> QED BY <1>2, <1>4, <2>2, <2>5, <3>1, <4>1
              DEF FinAckedBy, FinUnacked, FinQueued, Is, ok
    <3>2. CASE ~FinUnacked(s)
      <4>1. u = [s EXCEPT !.state = "FIN_WAIT_2"]
        BY <2>4, <3>2
      <4>2. u = [state |-> "FIN_WAIT_2", port |-> s.port, una |-> s.una, nxt |-> s.nxt,
                 rcv |-> s.rcv, q |-> s.q, conn |-> s.conn, called |-> s.called]
        BY <2>5, <4>1 DEF Tcb
      <4>3. u \in Tcb
        BY <2>5, <4>2, TcbFields DEF Tcb, States
      <4>4. Is(u, t, "FIN_WAIT_2", a.ack, t.rcv, AckedQueue(t, a.ack))
        BY <2>2, <4>2, <4>3 DEF Is
      <4> QED BY <1>2, <1>4, <2>5, <3>2, <4>3, <4>4
              DEF FinAckedBy, FinUnacked, FinQueued, Is, ok
    <3> QED BY <3>1, <3>2
  <2>7. tcb'[h][i] = u
    BY <2>3, <2>6, WroteTcb
  <2>8. MatchedStep(h, i, u, <<>>)
    BY <1>1, <1>2, <2>3, <2>6, <2>7
    DEF MatchedStep, Handles, MovedBy, AnswerOf, Gets, Times, t
  <2> QED BY <2>8
<1> QED BY <1>3, <1>4

(* LAST_ACK: the acknowledgement of the FIN releases the TCB.              *)
LEMMA LastAckStep ==
  ASSUME SlotInv, NEW h \in Hosts, NEW i \in Slots, net[h] # <<>>, ReceiveLastAck(h, i)
  PROVE  \E u, O : MatchedStep(h, i, u, O)
<1> DEFINE a == Arrived(h)
           t == tcb[h][i]
           ok == "ACK" \in a.flags /\ a.ack > t.una
           s == SendqAck(t, a.ack)
           u == IF FinUnacked(s) THEN s ELSE FreeTcb
<1>1. /\ Matched(h, i, "LAST_ACK")
      /\ tcb' = IF ok THEN [tcb EXCEPT ![h][i] = u] ELSE tcb
      /\ Consume(h, <<>>)
      /\ UNCHANGED <<rtx, tw, linkUp, got, budget>>
  BY DEF ReceiveLastAck
<1>2. t \in Tcb /\ a \in Segment /\ t.state = "LAST_ACK"
  BY <1>1, TcbAt, ArrivedType DEF Matched
<1>3. CASE ~ok
  <2>1. MatchedStep(h, i, t, <<>>)
    BY <1>1, <1>2, <1>3, QuietStep
  <2> QED BY <2>1
<1>4. CASE ok
  <2>1. a.ack \in Seqs
    BY <1>2, SegmentFields
  <2>2. Is(s, t, "LAST_ACK", a.ack, t.rcv, AckedQueue(t, a.ack))
    BY <1>2, <2>1, SendqAckType DEF AckedQueue, Is
  <2>3. tcb' = [tcb EXCEPT ![h][i] = u]
    BY <1>1, <1>4
  <2> HIDE DEF s
  <2>4. u = IF FinUnacked(s) THEN s ELSE FreeTcb
    OBVIOUS
  <2> HIDE DEF u, t, ok
  <2>5. s \in Tcb /\ s.q = AckedQueue(t, a.ack)
    BY <2>2 DEF Is
  <2>6. FinAckedBy(t, a, u) /\ u \in Tcb /\ u.state \in {"LAST_ACK", "FREE"}
    <3>1. CASE FinUnacked(s)
      <4>1. u = s
        BY <2>4, <3>1
      <4> QED BY <1>2, <1>4, <2>2, <2>5, <3>1, <4>1
              DEF FinAckedBy, FinUnacked, FinQueued, Is, ok
    <3>2. CASE ~FinUnacked(s)
      <4>1. u = FreeTcb
        BY <2>4, <3>2
      <4> QED BY <1>2, <1>4, <2>5, <3>2, <4>1, FreeTcbType
              DEF FinAckedBy, FinUnacked, FinQueued, ok
    <3> QED BY <3>1, <3>2
  <2>7. tcb'[h][i] = u
    BY <2>3, <2>6, WroteTcb
  <2>8. MatchedStep(h, i, u, <<>>)
    BY <1>1, <1>2, <2>3, <2>6, <2>7
    DEF MatchedStep, Handles, MovedBy, AnswerOf, Gets, Times, t
  <2> QED BY <2>8
<1> QED BY <1>3, <1>4

(* FIN_WAIT_2: the peer's FIN.                                             *)
LEMMA FinWait2Step ==
  ASSUME SlotInv, NEW h \in Hosts, NEW i \in Slots, net[h] # <<>>, ReceiveFinWait2(h, i)
  PROVE  \E u, O : MatchedStep(h, i, u, O)
<1> DEFINE a == Arrived(h)
           t == tcb[h][i]
           ok == "FIN" \in a.flags /\ a.seq = t.rcv
           state == IF linkUp THEN "TIME_WAIT" ELSE t.state
           u == [t EXCEPT !.rcv = Plus(t.rcv, 1), !.state = state]
<1>1. /\ Matched(h, i, "FIN_WAIT_2")
      /\ tcb' = IF ok THEN [tcb EXCEPT ![h][i] = u] ELSE tcb
      /\ tw' = IF ok /\ linkUp THEN [tw EXCEPT ![h][i] = @ + 1] ELSE tw
      /\ Consume(h, IF ok THEN <<Seg(u, {"ACK"}, 0)>> ELSE <<>>)
      /\ UNCHANGED <<rtx, linkUp, got, budget>>
  BY DEF ReceiveFinWait2, TimeWaitScheduled, Ack
<1>2. t \in Tcb /\ a \in Segment /\ t.state = "FIN_WAIT_2"
  BY <1>1, TcbAt, ArrivedType DEF Matched
<1>3. CASE ~ok
  <2>1. MatchedStep(h, i, t, <<>>)
    BY <1>1, <1>2, <1>3, QuietStep
  <2> QED BY <2>1
<1>4. CASE ok
  <2> DEFINE r == Plus(t.rcv, 1)
  <2>1. r \in Seqs
    BY <1>2, TcbFields, PlusType
  <2>2. state = (IF linkUp THEN "TIME_WAIT" ELSE "FIN_WAIT_2") /\ state \in States
    BY <1>2 DEF States
  <2>3. u = [t EXCEPT !.rcv = r, !.state = state]
    OBVIOUS
  <2>4. tcb' = [tcb EXCEPT ![h][i] = u] /\ Consume(h, <<Seg(u, {"ACK"}, 0)>>)
        /\ tw' = IF linkUp THEN [tw EXCEPT ![h][i] = @ + 1] ELSE tw
    BY <1>1, <1>4
  <2> HIDE DEF state, u, r
  <2>5. Is(u, t, state, t.una, r, t.q)
    BY <1>2, <2>1, <2>2, <2>3, ExceptRcv
  <2>6. u \in Tcb /\ u.state = IF linkUp THEN "TIME_WAIT" ELSE "FIN_WAIT_2"
    BY <2>2, <2>5 DEF Is
  <2>7. FinBy(t, a, u, linkUp)
    BY <1>2, <1>4, <2>2, <2>5 DEF FinBy, r
  <2>8. AnswerOf(u, <<Seg(u, {"ACK"}, 0)>>)
    BY <2>6 DEF AnswerOf, Connected, Opening
  <2>9. tcb'[h][i] = u
    BY <2>4, <2>6, WroteTcb
  <2>10. Times(h, i)
    BY <1>2, <2>4, <2>6, <2>9 DEF Times
  <2>11. MatchedStep(h, i, u, <<Seg(u, {"ACK"}, 0)>>)
    BY <1>1, <1>2, <2>4, <2>6, <2>7, <2>8, <2>10
    DEF MatchedStep, Handles, MovedBy, Gets
  <2> QED BY <2>11
<1> QED BY <1>3, <1>4

(* TIME_WAIT and CLOSE_WAIT take no notice.                                *)
LEMMA IgnoredStep ==
  ASSUME SlotInv, NEW h \in Hosts, NEW i \in Slots, net[h] # <<>>, ReceiveIgnored(h, i)
  PROVE  \E u, O : MatchedStep(h, i, u, O)
<1>1. /\ Matched(h, i, tcb[h][i].state) /\ tcb[h][i].state # "ESTABLISHED"
      /\ Consume(h, <<>>)
      /\ UNCHANGED <<tcb, rtx, tw, linkUp, got, budget>>
  BY DEF ReceiveIgnored, Matched
<1>2. MatchedStep(h, i, tcb[h][i], <<>>)
  BY <1>1, QuietStep
<1> QED BY <1>2

(* A segment arrives: it opens a connection, is dropped, or moves the TCB  *)
(* that it matches.                                                        *)
LEMMA ReceiveCases ==
  ASSUME SlotInv, NEW h \in Hosts, Receive(h)
  PROVE  /\ net[h] # <<>>
         /\ \/ ReceiveListen(h)
            \/ ReceiveNone(h)
            \/ \E i \in Slots : \E u, O : MatchedStep(h, i, u, O)
<1>1. net[h] # <<>>
  BY DEF Receive
<1>2. ASSUME NEW i \in Slots,
             \/ ReceiveSynSent(h, i) \/ ReceiveSynReceived(h, i) \/ ReceiveData(h, i)
             \/ ReceiveEmpty(h, i) \/ ReceiveFinWait1(h, i) \/ ReceiveFinWait2(h, i)
             \/ ReceiveLastAck(h, i) \/ ReceiveIgnored(h, i)
      PROVE  \E u, O : MatchedStep(h, i, u, O)
  BY <1>1, <1>2, SynSentStep, SynReceivedStep, DataStep, EmptyStep, FinWait1Step,
     FinWait2Step, LastAckStep, IgnoredStep
<1> QED BY <1>1, <1>2 DEF Receive

-----------------------------------------------------------------------------
(* Slots: every step leaves each four-tuple with one TCB and each timer    *)
(* with its TIME_WAIT.                                                     *)

(* The part of SlotInv that concerns the TCBs alone.                       *)
Tables ==
  /\ tcb \in [Hosts -> [Slots -> Tcb]]
  /\ UniqueTuple /\ NoClientListener
  /\ \A h \in Hosts, i \in Slots : InUse(tcb[h][i])

(* One slot is written: a fresh four-tuple, or the one the slot had.       *)
LEMMA WrittenTables ==
  ASSUME SlotInv, NEW h \in Hosts, NEW i \in Slots, NEW u \in Tcb,
         tcb' = [tcb EXCEPT ![h][i] = u], InUse(u),
         h = "client" => u.state # "LISTEN",
         Connected(u) => \A j \in Slots : j # i /\ Connected(tcb[h][j])
                                            => tcb[h][j].port # u.port
  PROVE  Tables'
<1>1. /\ tcb' \in [Hosts -> [Slots -> Tcb]] /\ tcb'[h][i] = u
      /\ \A g \in Hosts, j \in Slots : ~(g = h /\ j = i) => tcb'[g][j] = tcb[g][j]
  BY DEF SlotInv, TypeOK
<1>2. UniqueTuple'
  <2> SUFFICES ASSUME NEW g \in Hosts, NEW j \in Slots, NEW k \in Slots,
                      Connected(tcb'[g][j]), Connected(tcb'[g][k]),
                      tcb'[g][j].port = tcb'[g][k].port
               PROVE  j = k
    BY DEF UniqueTuple, Connected
  <2>1. g # h \/ (j # i /\ k # i) => tcb'[g][j] = tcb[g][j] /\ tcb'[g][k] = tcb[g][k]
    BY <1>1
  <2>2. CASE g # h \/ (j # i /\ k # i)
    BY <2>1, <2>2 DEF SlotInv, SlotsOwned, UniqueTuple
  <2>3. CASE g = h /\ j = i /\ k # i
    BY <1>1, <2>3
  <2>4. CASE g = h /\ k = i /\ j # i
    BY <1>1, <2>4
  <2> QED BY <2>2, <2>3, <2>4
<1>3. NoClientListener'
  BY <1>1 DEF SlotInv, NoClientListener, Hosts
<1>4. \A g \in Hosts, j \in Slots : InUse(tcb'[g][j])
  BY <1>1 DEF SlotInv
<1> QED BY <1>1, <1>2, <1>3, <1>4 DEF Tables

(* The slot keeps its port, or is released.                                *)
LEMMA MovedTables ==
  ASSUME SlotInv, NEW h \in Hosts, NEW i \in Slots, NEW u \in Tcb,
         tcb' = [tcb EXCEPT ![h][i] = u],
         Connected(tcb[h][i]), u.state # "LISTEN",
         Connected(u) => u.port = tcb[h][i].port /\ u.conn = tcb[h][i].conn,
         ~Connected(u) => u = FreeTcb
  PROVE  Tables'
<1>1. InUse(tcb[h][i]) /\ InUse(u)
  <2>1. FreeTcb.q = NoSeg
    BY DEF FreeTcb
  <2> QED BY <2>1, TcbAt DEF InUse
<1>2. Connected(u) => \A j \in Slots : j # i /\ Connected(tcb[h][j])
                                         => tcb[h][j].port # u.port
  BY DEF SlotInv, SlotsOwned, UniqueTuple
<1> QED BY <1>1, <1>2, WrittenTables

(* No slot is written.                                                     *)
LEMMA SameTables ==
  ASSUME SlotInv, tcb' = tcb
  PROVE  Tables'
BY DEF SlotInv, SlotsOwned, TypeOK, Tables, UniqueTuple, NoClientListener

(* The timers agree when the slot written is not in TIME_WAIT before or    *)
(* after.                                                                  *)
LEMMA UntimedStep ==
  ASSUME SlotInv, NEW h \in Hosts, NEW i \in Slots, NEW u \in Tcb,
         tcb' = [tcb EXCEPT ![h][i] = u], tw' = tw,
         tcb[h][i].state = "TIME_WAIT" <=> u.state = "TIME_WAIT"
  PROVE  TimeWaitTimed'
<1>1. /\ tcb' \in [Hosts -> [Slots -> Tcb]] /\ tcb'[h][i] = u
      /\ \A g \in Hosts, j \in Slots : ~(g = h /\ j = i) => tcb'[g][j] = tcb[g][j]
  BY DEF SlotInv, TypeOK
<1> SUFFICES ASSUME NEW g \in Hosts, NEW j \in Slots
             PROVE  tw[g][j] = IF tcb'[g][j].state = "TIME_WAIT" THEN 1 ELSE 0
  BY DEF TimeWaitTimed
<1>2. tw[g][j] = IF tcb[g][j].state = "TIME_WAIT" THEN 1 ELSE 0
  BY DEF SlotInv, SlotsOwned, TimeWaitTimed
<1>3. tcb'[g][j].state = "TIME_WAIT" <=> tcb[g][j].state = "TIME_WAIT"
  BY <1>1
<1> QED BY <1>2, <1>3

(* Segments in flight.                                                     *)
LEMMA ConsumeIs ==
  ASSUME SlotInv, NEW h \in Hosts, net[h] # <<>>, NEW O \in Seq(Segment), Consume(h, O)
  PROVE  /\ net' \in [Hosts -> Seq(Segment)]
         /\ net'[h] = Tail(net[h])
         /\ net'[Other(h)] = net[Other(h)] \o IF linkUp THEN O ELSE <<>>
<1> DEFINE P == IF linkUp THEN O ELSE <<>>
<1>1. P \in Seq(Segment) /\ Tail(net[h]) \in Seq(Segment)
      /\ net \in [Hosts -> Seq(Segment)]
  BY DEF SlotInv, TypeOK
<1>2. net' = [net EXCEPT ![h] = Tail(net[h]), ![Other(h)] = net[Other(h)] \o P]
  BY HostsIs DEF Consume
<1>3. net[Other(h)] \o P \in Seq(Segment)
  BY <1>1, HostsIs
<1> HIDE DEF P
<1>4. net' \in [Hosts -> Seq(Segment)] /\ net'[h] = Tail(net[h])
      /\ net'[Other(h)] = net[Other(h)] \o P
  BY <1>1, <1>2, <1>3, HostsIs
<1> QED BY <1>4 DEF P

(* A segment is appended.                                                  *)
LEMMA SentType ==
  ASSUME SlotInv, NEW h \in Hosts, NEW a \in Segment,
         net' = [net EXCEPT ![Other(h)] = Append(@, a)]
  PROVE  /\ net' \in [Hosts -> Seq(Segment)]
         /\ net'[h] = net[h] /\ net'[Other(h)] = Append(net[Other(h)], a)
BY HostsIs DEF SlotInv, TypeOK

(* The new slot that tcp_alloc_tcb finds.                                  *)
LEMMA FirstFreeIs ==
  ASSUME NEW h \in Hosts, FreeSlots(h) # {}
  PROVE  FirstFree(h) \in Slots /\ tcb[h][FirstFree(h)].state = "FREE"
<1>1. FreeSlots(h) \in SUBSET Nat
  BY SlotsAssumption DEF FreeSlots, Slots
<1>2. \E i \in FreeSlots(h) : \A j \in FreeSlots(h) : i <= j
  BY <1>1, NatMin
<1>3. FirstFree(h) \in FreeSlots(h)
  BY <1>2 DEF FirstFree
<1> QED BY <1>3 DEF FreeSlots

(* SlotInv in the parts that the lemmas above establish.                   *)
LEMMA SlotInvIs ==
  ASSUME Tables', TimeWaitTimed',
         net' \in [Hosts -> Seq(Segment)],
         rtx' \in [Hosts -> [Slots -> Nat]], tw' \in [Hosts -> [Slots -> Nat]],
         linkUp' \in BOOLEAN,
         got' \in [Hosts -> [1 .. MaxConns -> Seq(Seqs)]],
         conns' \in 0 .. MaxConns, written' \in [Hosts -> 0 .. MaxBytes],
         losses' \in 0 .. MaxLosses, flaps' \in 0 .. MaxFlaps
  PROVE  SlotInv'
BY DEF SlotInv, SlotsOwned, TypeOK, Tables

(* tcp_listen takes a slot.                                                *)
LEMMA ListenSlots ==
  ASSUME SlotInv, NEW h \in Hosts, Listen(h)
  PROVE  SlotInv'
<1> DEFINE i == FirstFree(h)
           u == [FreeTcb EXCEPT !.state = "LISTEN"]
<1>1. i \in Slots /\ tcb[h][i].state = "FREE"
  BY FirstFreeIs DEF Listen
<1>2. u \in Tcb /\ u.state = "LISTEN" /\ u.q = NoSeg
  BY FreeTcbType DEF FreeTcb, Tcb, States
<1>3. tcb' = [tcb EXCEPT ![h][i] = u] /\ h = "server"
      /\ UNCHANGED <<net, rtx, tw, linkUp, got, budget>>
  BY DEF Listen
<1> HIDE DEF i, u
<1>4. InUse(u) /\ ~Connected(u)
  BY <1>2 DEF InUse, Connected
<1>5. Tables'
  BY <1>1, <1>2, <1>3, <1>4, WrittenTables
<1>6. TimeWaitTimed'
  BY <1>1, <1>2, <1>3, UntimedStep
<1> QED BY <1>3, <1>5, <1>6, SlotInvIs DEF SlotInv, TypeOK, budget

(* The TCB of a new connection and its first segment.                      *)
LEMMA NewTcb ==
  ASSUME NEW state \in States, NEW port \in Ports, NEW rcv \in Seqs,
         NEW conn \in 1 .. MaxConns, NEW flags \in SUBSET {"SYN", "ACK", "FIN"},
         state \notin {"FREE", "LISTEN"}
  PROVE  LET t == [FreeTcb EXCEPT !.state = state, !.port = port, !.rcv = rcv, !.conn = conn]
             a == Seg(t, flags, 0)
             u == Track(t, a)
         IN  /\ a \in Segment /\ a.seq = 0 /\ a.ack = rcv /\ a.flags = flags
             /\ a.port = port /\ a.conn = conn /\ a.len = 0
             /\ u \in Tcb /\ u.state = state /\ u.port = port /\ u.conn = conn
             /\ u.una = 0 /\ u.rcv = rcv /\ u.q = a /\ u.nxt = SeqEnd(a)
             /\ Connected(u) /\ InUse(u)
<1> DEFINE t == [FreeTcb EXCEPT !.state = state, !.port = port, !.rcv = rcv, !.conn = conn]
           a == Seg(t, flags, 0)
           u == Track(t, a)
<1>0. t = [FreeTcb EXCEPT !.state = state, !.port = port, !.rcv = rcv, !.conn = conn]
  OBVIOUS
<1> HIDE DEF t
<1>1. t = [state |-> state, port |-> port, una |-> 0, nxt |-> 0, rcv |-> rcv,
           q |-> NoSeg, conn |-> conn, called |-> FALSE]
  <2>1. t = [state |-> state, port |-> port, una |-> FreeTcb.una, nxt |-> FreeTcb.nxt,
             rcv |-> rcv, q |-> FreeTcb.q, conn |-> conn, called |-> FreeTcb.called]
    BY <1>0, FreeTcbType DEF Tcb
  <2>2. /\ FreeTcb.una = 0 /\ FreeTcb.nxt = 0 /\ FreeTcb.q = NoSeg
        /\ FreeTcb.called = FALSE
    BY DEF FreeTcb
  <2> QED BY <2>1, <2>2
<1>2. 0 \in Seqs /\ 0 \in 0 .. MaxBytes
  BY SeqAssumption, BoundsAssumption DEF Seqs
<1>3. t \in Tcb
  BY <1>1, <1>2 DEF Tcb
<1>4. Connected(t) /\ InUse(t)
  BY <1>1 DEF Connected, InUse
<1>5. a \in Segment
  BY <1>2, <1>3, <1>4, SegType
<1>6. /\ a.seq = 0 /\ a.ack = rcv /\ a.flags = flags
      /\ a.port = port /\ a.conn = conn /\ a.len = 0
  BY <1>1 DEF Seg
<1> HIDE DEF a
<1>7. /\ u \in Tcb /\ u.state = state /\ u.port = port /\ u.conn = conn
      /\ u.una = 0 /\ u.rcv = rcv /\ u.q = a /\ u.nxt = SeqEnd(a)
  BY <1>1, <1>3, <1>5, TrackType
<1> HIDE DEF u
<1>8. Connected(u) /\ InUse(u)
  BY <1>7 DEF Connected, InUse
<1> QED BY <1>5, <1>6, <1>7, <1>8 DEF t, a, u

(* u and a are a new TCB and the segment it sends.                         *)
Fresh(u, a, state, port, rcv, conn, flags) ==
  /\ a \in Segment /\ a.seq = 0 /\ a.ack = rcv /\ a.flags = flags
  /\ a.port = port /\ a.conn = conn /\ a.len = 0
  /\ u \in Tcb /\ u.state = state /\ u.port = port /\ u.conn = conn
  /\ u.una = 0 /\ u.rcv = rcv /\ u.q = a /\ u.nxt = SeqEnd(a)
  /\ Connected(u) /\ InUse(u)

(* Slot i of h gets the TCB u of a new connection, which sends a.          *)
OpensSlot(h, i, u, a, state, rcv, conn, flags) ==
  /\ Fresh(u, a, state, a.port, rcv, conn, flags)
  /\ tcb[h][i].state = "FREE" /\ FindExact(h, a.port) = {} /\ linkUp
  /\ tcb' = [tcb EXCEPT ![h][i] = u]

(* tcp_connect.                                                            *)
ConnectStep(i, u, a) ==
  /\ OpensSlot("client", i, u, a, "SYN_SENT", 0, conns + 1, {"SYN"})
  /\ conns + 1 \in 1 .. MaxConns
  /\ net' = [net EXCEPT !["server"] = Append(@, a)]
  /\ rtx' = [rtx EXCEPT !["client"][i] = @ + 1]
  /\ conns' = conns + 1
  /\ UNCHANGED <<tw, linkUp, got, written, losses, flaps>>

(* tcp_connect opens a slot that no slot has the four-tuple of.            *)
LEMMA ConnectIs ==
  ASSUME SlotInv, NEW port \in Ports, Connect(port)
  PROVE  \E i \in Slots : \E u, a : ConnectStep(i, u, a)
<1> DEFINE h == "client"
           i == FirstFree(h)
           s == [FreeTcb EXCEPT !.state = "SYN_SENT", !.port = port, !.conn = conns + 1]
           t == [FreeTcb EXCEPT !.state = "SYN_SENT", !.port = port, !.rcv = 0,
                                !.conn = conns + 1]
           a == Seg(t, {"SYN"}, 0)
           u == Track(t, a)
<1>1. s = t
  <2>1. s = [FreeTcb EXCEPT !.state = "SYN_SENT", !.port = port, !.conn = conns + 1]
        /\ t = [FreeTcb EXCEPT !.state = "SYN_SENT", !.port = port, !.rcv = 0,
                               !.conn = conns + 1]
    OBVIOUS
  <2> HIDE DEF s, t
  <2>2. s = [state |-> "SYN_SENT", port |-> port, una |-> FreeTcb.una, nxt |-> FreeTcb.nxt,
             rcv |-> FreeTcb.rcv, q |-> FreeTcb.q, conn |-> conns + 1,
             called |-> FreeTcb.called]
    BY <2>1, FreeTcbType DEF Tcb
  <2>3. t = [state |-> "SYN_SENT", port |-> port, una |-> FreeTcb.una, nxt |-> FreeTcb.nxt,
             rcv |-> 0, q |-> FreeTcb.q, conn |-> conns + 1, called |-> FreeTcb.called]
    BY <2>1, FreeTcbType DEF Tcb
  <2>4. FreeTcb.rcv = 0
    BY DEF FreeTcb
  <2> QED BY <2>2, <2>3, <2>4
<1>2. /\ conns < MaxConns /\ FindExact(h, port) = {} /\ FreeSlots(h) # {} /\ linkUp
      /\ tcb' = [tcb EXCEPT ![h][i] = u]
      /\ net' = [net EXCEPT !["server"] = Append(@, a)]
      /\ rtx' = [rtx EXCEPT ![h][i] = @ + 1]
      /\ conns' = conns + 1
      /\ UNCHANGED <<tw, linkUp, got, written, losses, flaps>>
  <2> HIDE DEF t
  <2> QED BY <1>1 DEF Connect, Other
<1>3. h \in Hosts /\ conns + 1 \in 1 .. MaxConns /\ 0 \in Seqs /\ "SYN_SENT" \in States
  <2>1. h \in Hosts /\ "SYN_SENT" \in States
    BY DEF Hosts, States
  <2>2. 0 \in Seqs
    BY SeqAssumption DEF Seqs
  <2>3. conns \in 0 .. MaxConns /\ conns < MaxConns
    BY <1>2 DEF SlotInv, TypeOK
  <2>4. conns + 1 \in 1 .. MaxConns
    BY <2>3, BoundsAssumption
  <2> QED BY <2>1, <2>2, <2>4
<1>4. i \in Slots /\ tcb[h][i].state = "FREE"
  BY <1>2, <1>3, FirstFreeIs
<1>5. Fresh(u, a, "SYN_SENT", port, 0, conns + 1, {"SYN"})
  BY <1>3, NewTcb DEF Fresh
<1> HIDE DEF t, a, u
<1>6. a.port = port
  BY <1>5 DEF Fresh
<1>7. ConnectStep(i, u, a)
  BY <1>2, <1>3, <1>4, <1>5, <1>6 DEF ConnectStep, OpensSlot
<1> QED BY <1>4, <1>7

(* A SYN opens a connection.                                               *)
AcceptStep(h, i, u, a) ==
  LET b == Arrived(h)
  IN  /\ b.flags = {"SYN"} /\ FindListener(h) # {} /\ a.port = b.port
      /\ OpensSlot(h, i, u, a, "SYN_RECEIVED", Plus(b.seq, 1), b.conn, {"SYN", "ACK"})
      /\ Consume(h, <<a>>)
      /\ UNCHANGED <<rtx, tw, linkUp, got, budget>>

(* A segment finds no TCB and leaves nothing behind.                       *)
DropStep(h) ==
  /\ FindExact(h, Arrived(h).port) = {} /\ Consume(h, <<>>)
  /\ UNCHANGED <<tcb, rtx, tw, linkUp, got, budget>>

(* A SYN for a listener opens a slot, or is dropped.                       *)
LEMMA ListenIs ==
  ASSUME SlotInv, NEW h \in Hosts, net[h] # <<>>, ReceiveListen(h)
  PROVE  DropStep(h) \/ \E i \in Slots : \E u, a : AcceptStep(h, i, u, a)
<1> DEFINE b == Arrived(h)
           i == FirstFree(h)
           r == Plus(b.seq, 1)
           t == [FreeTcb EXCEPT !.state = "SYN_RECEIVED", !.port = b.port,
                                !.rcv = r, !.conn = b.conn]
           a == Seg(t, {"SYN", "ACK"}, 0)
           u == Track(t, a)
           opens == FreeSlots(h) # {} /\ linkUp
<1>1. /\ FindExact(h, b.port) = {} /\ b.flags = {"SYN"} /\ FindListener(h) # {}
      /\ tcb' = IF opens THEN [tcb EXCEPT ![h][i] = u] ELSE tcb
      /\ Consume(h, IF opens THEN <<a>> ELSE <<>>)
      /\ UNCHANGED <<rtx, tw, linkUp, got, budget>>
  BY DEF ReceiveListen
<1>2. CASE ~opens
  BY <1>1, <1>2 DEF DropStep
<1>3. CASE opens
  <2>1. b \in Segment
    BY ArrivedType
  <2>2. b.seq \in Nat /\ b.port \in Ports /\ b.conn \in 1 .. MaxConns
    BY <2>1, SegmentFields
  <2>3. r \in Seqs /\ "SYN_RECEIVED" \in States
    BY <2>2, PlusType DEF States
  <2>4. i \in Slots /\ tcb[h][i].state = "FREE"
    BY <1>3, FirstFreeIs
  <2> HIDE DEF b, r
  <2>5. Fresh(u, a, "SYN_RECEIVED", b.port, r, b.conn, {"SYN", "ACK"})
    BY <2>2, <2>3, NewTcb DEF Fresh
  <2> HIDE DEF t, a, u
  <2>6. a.port = b.port
    BY <2>5 DEF Fresh
  <2>7. AcceptStep(h, i, u, a)
    BY <1>1, <1>3, <2>4, <2>5, <2>6 DEF AcceptStep, OpensSlot, b, r
  <2> QED BY <2>4, <2>7
<1> QED BY <1>2, <1>3

(* tcp_send and tcp_close: slot i of h sends a, to be retransmitted.       *)
TrackedStep(h, i, u, a) ==
  LET t == tcb[h][i]
  IN  /\ t.q = NoSeg /\ Connected(t) /\ linkUp
      /\ a \in Segment /\ a.seq = t.nxt /\ a.ack = t.rcv
      /\ a.port = t.port /\ a.conn = t.conn
      /\ u \in Tcb /\ u.una = t.una /\ u.rcv = t.rcv /\ u.q = a /\ u.nxt = SeqEnd(a)
      /\ u.port = t.port /\ u.conn = t.conn /\ u.called = t.called
      /\ \/ /\ a.flags = {"ACK"} /\ a.len > 0
            /\ t.state = "ESTABLISHED" /\ u.state = "ESTABLISHED"
            /\ written[h] + a.len <= MaxBytes
            /\ written' = [written EXCEPT ![h] = @ + a.len]
         \/ /\ a.flags = {"FIN", "ACK"} /\ a.len = 0
            /\ \/ t.state = "ESTABLISHED" /\ u.state = "FIN_WAIT_1"
               \/ t.state = "CLOSE_WAIT" /\ u.state = "LAST_ACK"
            /\ written' = written
      /\ tcb' = [tcb EXCEPT ![h][i] = u]
      /\ net' = [net EXCEPT ![Other(h)] = Append(@, a)]
      /\ rtx' = [rtx EXCEPT ![h][i] = @ + 1]
      /\ UNCHANGED <<tw, linkUp, got, conns, losses, flaps>>

(* tcp_send keeps a clone of what it sends.                                *)
LEMMA SendIs ==
  ASSUME SlotInv, NEW h \in Hosts, NEW i \in Slots, NEW len \in 1 .. MaxBytes,
         Send(h, i, len)
  PROVE  \E u, a : TrackedStep(h, i, u, a)
<1> DEFINE t == tcb[h][i]
           a == Seg(t, {"ACK"}, len)
           u == Track(t, a)
<1>1. /\ t.state = "ESTABLISHED" /\ t.q = NoSeg /\ linkUp
      /\ written[h] + len <= MaxBytes
      /\ tcb' = [tcb EXCEPT ![h][i] = u]
      /\ net' = [net EXCEPT ![Other(h)] = Append(@, a)]
      /\ rtx' = [rtx EXCEPT ![h][i] = @ + 1]
      /\ written' = [written EXCEPT ![h] = @ + len]
      /\ UNCHANGED <<tw, linkUp, got, conns, losses, flaps>>
  BY DEF Send, SendTracked, Unacked
<1>2. t \in Tcb /\ InUse(t) /\ Connected(t)
  BY <1>1, TcbAt DEF Connected
<1>3. len \in 0 .. MaxBytes /\ len > 0
  BY BoundsAssumption
<1> HIDE DEF t
<1>4. a \in Segment
  BY <1>2, <1>3, SegType
<1>5. /\ a.seq = t.nxt /\ a.ack = t.rcv /\ a.port = t.port /\ a.conn = t.conn
      /\ a.flags = {"ACK"} /\ a.len = len
  BY DEF Seg
<1> HIDE DEF a
<1>6. /\ u \in Tcb /\ u.una = t.una /\ u.rcv = t.rcv /\ u.q = a /\ u.nxt = SeqEnd(a)
      /\ u.port = t.port /\ u.conn = t.conn /\ u.called = t.called /\ u.state = t.state
  BY <1>2, <1>4, TrackType
<1> HIDE DEF u
<1>7. TrackedStep(h, i, u, a)
  BY <1>1, <1>2, <1>3, <1>4, <1>5, <1>6 DEF TrackedStep, t
<1> QED BY <1>7

(* tcp_close keeps a clone of its FIN.                                     *)
LEMMA CloseIs ==
  ASSUME SlotInv, NEW h \in Hosts, NEW i \in Slots, Close(h, i)
  PROVE  \E u, a : TrackedStep(h, i, u, a)
<1> DEFINE t == tcb[h][i]
           next == StateAfterClose(t.state)
           s == [t EXCEPT !.state = next]
           a == Seg(t, {"FIN", "ACK"}, 0)
           u == Track(s, a)
<1>1. /\ t.state \in {"ESTABLISHED", "CLOSE_WAIT"} /\ t.q = NoSeg /\ linkUp
      /\ tcb' = [tcb EXCEPT ![h][i] = u]
      /\ net' = [net EXCEPT ![Other(h)] = Append(@, a)]
      /\ rtx' = [rtx EXCEPT ![h][i] = @ + 1]
      /\ UNCHANGED <<tw, linkUp, got, conns, written, losses, flaps>>
  BY DEF Close, SendTracked, Unacked, budget
<1>2. t \in Tcb /\ InUse(t) /\ Connected(t)
  BY <1>1, TcbAt DEF Connected
<1>3. 0 \in 0 .. MaxBytes
  BY BoundsAssumption
<1>4. /\ next \in {"FIN_WAIT_1", "LAST_ACK"}
      /\ next = IF t.state = "ESTABLISHED" THEN "FIN_WAIT_1" ELSE "LAST_ACK"
  BY <1>1 DEF StateAfterClose
<1> HIDE DEF t, next
<1>5. a \in Segment
  BY <1>2, <1>3, SegType
<1>6. /\ a.seq = t.nxt /\ a.ack = t.rcv /\ a.port = t.port /\ a.conn = t.conn
      /\ a.flags = {"FIN", "ACK"} /\ a.len = 0
  BY DEF Seg
<1> HIDE DEF a
<1>7. s = [t EXCEPT !.state = next]
  OBVIOUS
<1> HIDE DEF s
<1>8. s = [state |-> next, port |-> t.port, una |-> t.una, nxt |-> t.nxt,
           rcv |-> t.rcv, q |-> t.q, conn |-> t.conn, called |-> t.called]
  BY <1>2, <1>7 DEF Tcb
<1>9. s \in Tcb
  BY <1>2, <1>4, <1>8, TcbFields DEF Tcb, States
<1>10. /\ u \in Tcb /\ u.una = t.una /\ u.rcv = t.rcv /\ u.q = a /\ u.nxt = SeqEnd(a)
       /\ u.port = t.port /\ u.conn = t.conn /\ u.called = t.called /\ u.state = next
  BY <1>5, <1>8, <1>9, TrackType
<1> HIDE DEF u
<1>11. TrackedStep(h, i, u, a)
  BY <1>1, <1>2, <1>4, <1>5, <1>6, <1>10 DEF TrackedStep, t
<1> QED BY <1>11

(* The TCB that opens has the only one of its four-tuple.                  *)
LEMMA OpensTables ==
  ASSUME SlotInv, NEW h \in Hosts, NEW i \in Slots, NEW u, NEW a,
         NEW state, NEW rcv, NEW conn, NEW flags,
         state \notin {"FREE", "LISTEN", "TIME_WAIT"},
         OpensSlot(h, i, u, a, state, rcv, conn, flags), tw' = tw
  PROVE  Tables' /\ TimeWaitTimed'
<1>1. /\ u \in Tcb /\ u.state = state /\ u.port = a.port /\ InUse(u)
      /\ tcb[h][i].state = "FREE" /\ FindExact(h, a.port) = {}
      /\ tcb' = [tcb EXCEPT ![h][i] = u]
  BY DEF OpensSlot, Fresh
<1>2. \A j \in Slots : Connected(tcb[h][j]) => tcb[h][j].port # u.port
  BY <1>1 DEF FindExact, Connected
<1>3. Tables'
  BY <1>1, <1>2, WrittenTables
<1>4. TimeWaitTimed'
  BY <1>1, UntimedStep
<1> QED BY <1>3, <1>4

(* tcp_connect keeps the slots in order.                                   *)
LEMMA ConnectSlots ==
  ASSUME SlotInv, NEW i \in Slots, NEW u, NEW a, ConnectStep(i, u, a)
  PROVE  SlotInv'
<1>1. "client" \in Hosts /\ Other("client") = "server"
  BY DEF Hosts, Other
<1>2. /\ OpensSlot("client", i, u, a, "SYN_SENT", 0, conns + 1, {"SYN"})
      /\ net' = [net EXCEPT ![Other("client")] = Append(@, a)]
      /\ rtx' = [rtx EXCEPT !["client"][i] = @ + 1]
      /\ conns' = conns + 1 /\ conns + 1 \in 1 .. MaxConns
      /\ UNCHANGED <<tw, linkUp, got, written, losses, flaps>>
  BY <1>1 DEF ConnectStep
<1>3. Tables' /\ TimeWaitTimed'
  BY <1>1, <1>2, OpensTables
<1>4. a \in Segment
  BY <1>2 DEF OpensSlot, Fresh
<1>5. net' \in [Hosts -> Seq(Segment)]
  BY <1>1, <1>2, <1>4, SentType
<1>6. rtx' \in [Hosts -> [Slots -> Nat]] /\ conns' \in 0 .. MaxConns
  BY <1>1, <1>2 DEF SlotInv, TypeOK
<1> QED BY <1>2, <1>3, <1>5, <1>6, SlotInvIs DEF SlotInv, TypeOK

(* A SYN that opens a slot keeps the slots in order.                       *)
LEMMA AcceptSlots ==
  ASSUME SlotInv, NEW h \in Hosts, net[h] # <<>>, NEW i \in Slots, NEW u, NEW a,
         AcceptStep(h, i, u, a)
  PROVE  SlotInv'
<1> DEFINE b == Arrived(h)
<1>1. /\ OpensSlot(h, i, u, a, "SYN_RECEIVED", Plus(b.seq, 1), b.conn, {"SYN", "ACK"})
      /\ Consume(h, <<a>>)
      /\ UNCHANGED <<rtx, tw, linkUp, got, budget>>
  BY DEF AcceptStep
<1> HIDE DEF b
<1>2. Tables' /\ TimeWaitTimed'
  BY <1>1, OpensTables
<1>3. <<a>> \in Seq(Segment)
  BY <1>1 DEF OpensSlot, Fresh
<1>4. net' \in [Hosts -> Seq(Segment)]
  BY <1>1, <1>3, ConsumeIs
<1> QED BY <1>1, <1>2, <1>4, SlotInvIs DEF SlotInv, TypeOK, budget

(* So does a segment that finds no TCB.                                    *)
LEMMA DropSlots ==
  ASSUME SlotInv, NEW h \in Hosts, net[h] # <<>>, DropStep(h)
  PROVE  SlotInv'
<1>1. /\ Consume(h, <<>>) /\ tcb' = tcb
      /\ UNCHANGED <<rtx, tw, linkUp, got, budget>>
  BY DEF DropStep
<1>2. Tables'
  BY <1>1, SameTables
<1>3. TimeWaitTimed'
  BY <1>1 DEF SlotInv, SlotsOwned, TimeWaitTimed
<1>4. <<>> \in Seq(Segment)
  OBVIOUS
<1>5. net' \in [Hosts -> Seq(Segment)]
  BY <1>1, <1>4, ConsumeIs
<1> QED BY <1>1, <1>2, <1>3, <1>5, SlotInvIs DEF SlotInv, TypeOK, budget

(* So do tcp_send and tcp_close.                                           *)
LEMMA TrackedSlots ==
  ASSUME SlotInv, NEW h \in Hosts, NEW i \in Slots, NEW u, NEW a,
         TrackedStep(h, i, u, a)
  PROVE  SlotInv'
<1> DEFINE t == tcb[h][i]
<1>1. /\ Connected(t) /\ a \in Segment /\ u \in Tcb
      /\ u.port = t.port /\ u.conn = t.conn
      /\ tcb' = [tcb EXCEPT ![h][i] = u]
      /\ net' = [net EXCEPT ![Other(h)] = Append(@, a)]
      /\ rtx' = [rtx EXCEPT ![h][i] = @ + 1]
      /\ UNCHANGED <<tw, linkUp, got, conns, losses, flaps>>
  BY DEF TrackedStep
<1>2. /\ u.state # "LISTEN" /\ (t.state = "TIME_WAIT" <=> u.state = "TIME_WAIT")
      /\ \/ written' = written
         \/ written[h] + a.len <= MaxBytes /\ written' = [written EXCEPT ![h] = @ + a.len]
  BY DEF TrackedStep
<1>3. Tables'
  <2>1. Connected(u)
    BY DEF TrackedStep, Connected
  <2> QED BY <1>1, <1>2, <2>1, MovedTables
<1>4. TimeWaitTimed'
  BY <1>1, <1>2, UntimedStep
<1>5. net' \in [Hosts -> Seq(Segment)]
  BY <1>1, SentType
<1>6. rtx' \in [Hosts -> [Slots -> Nat]]
  BY <1>1 DEF SlotInv, TypeOK
<1>7. written' \in [Hosts -> 0 .. MaxBytes]
  BY <1>1, <1>2, SegmentFields, BoundsAssumption DEF SlotInv, TypeOK
<1> QED BY <1>1, <1>3, <1>4, <1>5, <1>6, <1>7, SlotInvIs DEF SlotInv, TypeOK

(* What every branch of tcp_receive leaves of a TCB.                       *)
LEMMA MovedFacts ==
  ASSUME NEW t \in Tcb, NEW a, NEW u \in Tcb, NEW up, Connected(t), MovedBy(t, a, u, up)
  PROVE  /\ u.state # "LISTEN"
         /\ Connected(u) => u.port = t.port /\ u.conn = t.conn /\ u.nxt = t.nxt
         /\ t.state = "TIME_WAIT" => u.state = "TIME_WAIT"
         /\ ~Connected(u) => u = FreeTcb
<1>1. CASE u = t
  BY <1>1 DEF Connected
<1>2. CASE OpenedBy(t, a, u)
  BY <1>2 DEF OpenedBy, Is, Connected
<1>3. CASE AcceptedBy(t, a, u)
  BY <1>3 DEF AcceptedBy, Is, Connected
<1>4. CASE DataBy(t, a, u)
  BY <1>4 DEF DataBy, Is, Connected
<1>5. CASE EmptyBy(t, a, u, up)
  <2>1. u.state \in {"ESTABLISHED", "CLOSE_WAIT"} /\ t.state = "ESTABLISHED"
    BY <1>5 DEF EmptyBy, Is
  <2>2. u.port = t.port /\ u.conn = t.conn /\ u.nxt = t.nxt
    BY <1>5 DEF EmptyBy, Is
  <2> QED BY <2>1, <2>2 DEF Connected
<1>6. CASE FinAckedBy(t, a, u)
  <2>1. t.state \in {"FIN_WAIT_1", "LAST_ACK"}
    BY <1>6 DEF FinAckedBy, FinQueued
  <2>2. \/ u = FreeTcb
        \/ u.state \in {"FIN_WAIT_1", "LAST_ACK", "FIN_WAIT_2"}
           /\ u.port = t.port /\ u.conn = t.conn /\ u.nxt = t.nxt
    BY <1>6, <2>1 DEF FinAckedBy, Is
  <2> QED BY <2>1, <2>2, FreeTcbType DEF Connected
<1>7. CASE FinBy(t, a, u, up)
  <2>1. u.state \in {"FIN_WAIT_2", "TIME_WAIT"} /\ t.state = "FIN_WAIT_2"
    BY <1>7 DEF FinBy, Is
  <2>2. u.port = t.port /\ u.conn = t.conn /\ u.nxt = t.nxt
    BY <1>7 DEF FinBy, Is
  <2> QED BY <2>1, <2>2 DEF Connected
<1> QED BY <1>1, <1>2, <1>3, <1>4, <1>5, <1>6, <1>7 DEF MovedBy

(* An answer is a sequence of at most one segment.                         *)
LEMMA AnswerType ==
  ASSUME NEW u \in Tcb, InUse(u), NEW O, AnswerOf(u, O)
  PROVE  O \in Seq(Segment)
<1>1. 0 \in 0 .. MaxBytes
  BY BoundsAssumption
<1>2. Connected(u) => Seg(u, {"ACK"}, 0) \in Segment
  BY <1>1, SegType
<1>3. CASE O = <<>>
  BY <1>3
<1>4. CASE Connected(u) /\ O = <<Seg(u, {"ACK"}, 0)>>
  <2> DEFINE a == Seg(u, {"ACK"}, 0)
  <2>1. a \in Segment /\ O = <<a>>
    BY <1>2, <1>4
  <2> HIDE DEF a
  <2> QED BY <2>1
<1> QED BY <1>3, <1>4 DEF AnswerOf

(* The bytes that a segment carries.                                       *)
LEMMA BytesType ==
  ASSUME NEW a \in Segment
  PROVE  /\ Bytes(a) \in Seq(Seqs) /\ Len(Bytes(a)) = a.len
         /\ \A n \in 1 .. a.len : Bytes(a)[n] = Plus(a.seq, n - 1)
<1>1. a.seq \in Nat /\ a.len \in Nat
  BY SegmentFields
<1>2. \A n \in 1 .. a.len : Plus(a.seq, n - 1) \in Seqs
  <2> SUFFICES ASSUME NEW n \in 1 .. a.len PROVE Plus(a.seq, n - 1) \in Seqs
    OBVIOUS
  <2>1. n - 1 \in Nat
    BY <1>1
  <2> QED BY <1>1, <2>1, PlusType
<1> QED BY <1>1, <1>2 DEF Bytes

(* Every branch of tcp_receive keeps the slots and their timers in order.  *)
LEMMA MatchedSlots ==
  ASSUME SlotInv, NEW h \in Hosts, net[h] # <<>>, NEW i \in Slots, NEW u, NEW O,
         MatchedStep(h, i, u, O)
  PROVE  SlotInv'
<1> DEFINE t == tcb[h][i]
           a == Arrived(h)
<1>1. /\ u \in Tcb /\ MovedBy(t, a, u, linkUp) /\ AnswerOf(u, O) /\ Connected(t)
      /\ tcb' = [tcb EXCEPT ![h][i] = u] /\ Consume(h, O)
      /\ UNCHANGED <<rtx, linkUp, budget>>
  BY DEF MatchedStep, Handles, Matched, FindExact, Connected
<1>2. t \in Tcb /\ InUse(t) /\ a \in Segment
  BY TcbAt, ArrivedType
<1>3. /\ u.state # "LISTEN"
      /\ Connected(u) => u.port = t.port /\ u.conn = t.conn
      /\ t.state = "TIME_WAIT" => u.state = "TIME_WAIT"
      /\ ~Connected(u) => u = FreeTcb
  BY <1>1, <1>2, MovedFacts
<1>4. Tables'
  BY <1>1, <1>3, MovedTables
<1>5. InUse(u)
  BY <1>2, <1>1, <1>3 DEF InUse, FreeTcb
<1>6. O \in Seq(Segment)
  BY <1>1, <1>5, AnswerType
<1>7. net' \in [Hosts -> Seq(Segment)]
  BY <1>1, <1>6, ConsumeIs
<1>8. got' \in [Hosts -> [1 .. MaxConns -> Seq(Seqs)]]
  <2>1. t.conn \in 1 .. MaxConns
    BY <1>1, <1>2 DEF InUse
  <2>2. Bytes(a) \in Seq(Seqs)
    BY <1>2, BytesType
  <2>3. got[h][t.conn] \in Seq(Seqs)
    <3>1. got \in [Hosts -> [1 .. MaxConns -> Seq(Seqs)]]
      BY DEF SlotInv, TypeOK
    <3> QED BY <2>1, <3>1
  <2>4. got[h][t.conn] \o Bytes(a) \in Seq(Seqs)
    BY <2>2, <2>3
  <2>5. got' = got \/ got' = [got EXCEPT ![h][t.conn] = got[h][t.conn] \o Bytes(a)]
    BY DEF MatchedStep, Gets
  <2>6. got \in [Hosts -> [1 .. MaxConns -> Seq(Seqs)]]
    BY DEF SlotInv, TypeOK
  <2> DEFINE c == t.conn
             w == got[h][c] \o Bytes(a)
  <2>7. c \in 1 .. MaxConns /\ w \in Seq(Seqs)
        /\ (got' = got \/ got' = [got EXCEPT ![h][c] = w])
    BY <2>1, <2>4, <2>5
  <2> HIDE DEF c, w
  <2>8. ASSUME got' = [got EXCEPT ![h][c] = w]
        PROVE  got' \in [Hosts -> [1 .. MaxConns -> Seq(Seqs)]]
    <3>1. [got[h] EXCEPT ![c] = w] \in [1 .. MaxConns -> Seq(Seqs)]
      BY <2>6, <2>7
    <3> QED BY <2>6, <2>8, <3>1
  <2> QED BY <2>6, <2>7, <2>8
<1>9. tw' \in [Hosts -> [Slots -> Nat]] /\ TimeWaitTimed'
  <2>1. tcb'[h][i] = u
    BY <1>1, WroteTcb
  <2>2. CASE t.state # "TIME_WAIT" /\ u.state = "TIME_WAIT"
    <3>1. tw' = [tw EXCEPT ![h][i] = @ + 1]
      BY <2>1, <2>2 DEF MatchedStep, Times
    <3>2. tw \in [Hosts -> [Slots -> Nat]]
          /\ \A g \in Hosts, j \in Slots :
               tw[g][j] = IF tcb[g][j].state = "TIME_WAIT" THEN 1 ELSE 0
      BY DEF SlotInv, TypeOK, SlotsOwned, TimeWaitTimed
    <3>3. tw'[h][i] = 1 /\ tw' \in [Hosts -> [Slots -> Nat]]
          /\ \A g \in Hosts, j \in Slots : ~(g = h /\ j = i) => tw'[g][j] = tw[g][j]
      BY <2>2, <3>1, <3>2
    <3>4. \A g \in Hosts, j \in Slots : ~(g = h /\ j = i) => tcb'[g][j] = tcb[g][j]
      BY <1>1, WroteTcb
    <3>5. ASSUME NEW g \in Hosts, NEW j \in Slots
          PROVE  tw'[g][j] = IF tcb'[g][j].state = "TIME_WAIT" THEN 1 ELSE 0
      <4>1. CASE g = h /\ j = i
        BY <2>1, <2>2, <3>3, <4>1
      <4>2. CASE ~(g = h /\ j = i)
        <5>1. tw'[g][j] = tw[g][j]
          BY <3>3, <4>2
        <5>2. tcb'[g][j] = tcb[g][j]
          BY <3>4, <4>2
        <5>3. tw[g][j] = IF tcb[g][j].state = "TIME_WAIT" THEN 1 ELSE 0
          BY <3>2
        <5> QED BY <5>1, <5>2, <5>3
      <4> QED BY <4>1, <4>2
    <3> QED BY <3>3, <3>5 DEF TimeWaitTimed
  <2>3. CASE t.state = "TIME_WAIT" <=> u.state = "TIME_WAIT"
    <3>1. tw' = tw
      BY <2>1, <2>3 DEF MatchedStep, Times
    <3>2. TimeWaitTimed'
      BY <1>1, <2>3, <3>1, UntimedStep
    <3> QED BY <3>1, <3>2 DEF SlotInv, TypeOK
  <2> QED BY <1>3, <2>2, <2>3
<1> QED BY <1>1, <1>4, <1>7, <1>8, <1>9, SlotInvIs DEF SlotInv, TypeOK, budget

(* So does the retransmission timer, whoever owns the slot.                *)
LEMMA RetransmitSlots ==
  ASSUME SlotInv, NEW h \in Hosts, NEW i \in Slots, Retransmit(h, i)
  PROVE  SlotInv'
<1> DEFINE t == tcb[h][i]
           again == Unacked(t) /\ linkUp
<1>1. /\ rtx[h][i] > 0
      /\ net' = IF again THEN [net EXCEPT ![Other(h)] = Append(@, t.q)] ELSE net
      /\ rtx' = IF again THEN rtx ELSE [rtx EXCEPT ![h][i] = @ - 1]
      /\ UNCHANGED <<tcb, tw, linkUp, got, budget>>
  BY DEF Retransmit
<1>2. again => t.q \in Segment
  <2>1. t.q \in Segment \cup {NoSeg}
    BY TcbAt, TcbFields
  <2> QED BY <2>1 DEF Unacked
<1>3. Tables'
  BY <1>1, SameTables
<1>4. TimeWaitTimed'
  BY <1>1 DEF SlotInv, SlotsOwned, TimeWaitTimed
<1>5. net' \in [Hosts -> Seq(Segment)]
  <2>1. CASE again
    BY <1>1, <1>2, <2>1, SentType
  <2>2. CASE ~again
    BY <1>1, <2>2 DEF SlotInv, TypeOK
  <2> QED BY <2>1, <2>2
<1>6. rtx' \in [Hosts -> [Slots -> Nat]]
  BY <1>1 DEF SlotInv, TypeOK
<1> QED BY <1>1, <1>3, <1>4, <1>5, <1>6, SlotInvIs DEF SlotInv, TypeOK, budget

(* The TIME_WAIT timer finds the slot in TIME_WAIT and releases it.        *)
LEMMA TimeWaitExpiresSlots ==
  ASSUME SlotInv, NEW h \in Hosts, NEW i \in Slots, TimeWaitExpires(h, i)
  PROVE  /\ SlotInv' /\ tcb[h][i].state = "TIME_WAIT"
         /\ tcb' = [tcb EXCEPT ![h][i] = FreeTcb]
         /\ UNCHANGED <<net, linkUp, got, budget>>
<1>1. /\ tw[h][i] > 0 /\ tw' = [tw EXCEPT ![h][i] = @ - 1]
      /\ tcb' = IF tcb[h][i].state = "TIME_WAIT"
                THEN [tcb EXCEPT ![h][i] = FreeTcb] ELSE tcb
      /\ UNCHANGED <<net, rtx, linkUp, got, budget>>
  BY DEF TimeWaitExpires
<1>2. tw \in [Hosts -> [Slots -> Nat]]
      /\ \A g \in Hosts, j \in Slots :
           tw[g][j] = IF tcb[g][j].state = "TIME_WAIT" THEN 1 ELSE 0
  BY DEF SlotInv, TypeOK, SlotsOwned, TimeWaitTimed
<1>3. tcb[h][i].state = "TIME_WAIT" /\ tw[h][i] = 1
  BY <1>1, <1>2
<1>4. tcb' = [tcb EXCEPT ![h][i] = FreeTcb]
  BY <1>1, <1>3
<1>5. ~Connected(FreeTcb) /\ FreeTcb \in Tcb /\ FreeTcb.state = "FREE"
  BY FreeTcbType DEF Connected
<1>6. Connected(tcb[h][i])
  BY <1>3 DEF Connected
<1>7. Tables'
  BY <1>4, <1>5, <1>6, MovedTables
<1>8. tw' \in [Hosts -> [Slots -> Nat]] /\ TimeWaitTimed'
  <2>1. tw'[h][i] = 0 /\ tw' \in [Hosts -> [Slots -> Nat]]
        /\ \A g \in Hosts, j \in Slots : ~(g = h /\ j = i) => tw'[g][j] = tw[g][j]
    BY <1>1, <1>2, <1>3
  <2>2. tcb'[h][i] = FreeTcb
        /\ \A g \in Hosts, j \in Slots : ~(g = h /\ j = i) => tcb'[g][j] = tcb[g][j]
    BY <1>4, <1>5 DEF SlotInv, TypeOK
  <2>3. ASSUME NEW g \in Hosts, NEW j \in Slots
        PROVE  tw'[g][j] = IF tcb'[g][j].state = "TIME_WAIT" THEN 1 ELSE 0
    BY <1>2, <1>5, <2>1, <2>2
  <2> QED BY <2>1, <2>3 DEF TimeWaitTimed
<1>9. SlotInv'
  BY <1>1, <1>7, <1>8, SlotInvIs DEF SlotInv, TypeOK, budget
<1> QED BY <1>1, <1>3, <1>4, <1>9 DEF budget

(* Losses and link changes touch no slot.                                  *)
LEMMA LinkSlots ==
  ASSUME SlotInv, Flap \/ \E h \in Hosts : Lose(h)
  PROVE  SlotInv'
<1>1. UNCHANGED <<tcb, rtx, tw, got, conns, written>>
  BY DEF Flap, Lose
<1>2. Tables'
  BY <1>1, SameTables
<1>3. TimeWaitTimed'
  BY <1>1 DEF SlotInv, SlotsOwned, TimeWaitTimed
<1>4. CASE Flap
  <2>1. /\ net' = net /\ linkUp' \in BOOLEAN /\ flaps' \in 0 .. MaxFlaps
        /\ losses' = losses
    BY <1>4, BoundsAssumption DEF Flap, SlotInv, TypeOK
  <2> QED BY <1>1, <1>2, <1>3, <2>1, SlotInvIs DEF SlotInv, TypeOK
<1>5. ASSUME NEW h \in Hosts, Lose(h)
      PROVE  SlotInv'
  <2>1. /\ net' \in [Hosts -> Seq(Segment)] /\ losses' \in 0 .. MaxLosses
        /\ linkUp' = linkUp /\ flaps' = flaps
    BY <1>5, BoundsAssumption DEF Lose, SlotInv, TypeOK
  <2> QED BY <1>1, <1>2, <1>3, <2>1, SlotInvIs DEF SlotInv, TypeOK
<1> QED BY <1>4, <1>5

(* tcp_init leaves empty slots.                                            *)
LEMMA InitSlots ==
  ASSUME Init
  PROVE  SlotInv
<1>1. \A h \in Hosts, i \in Slots : tcb[h][i] = FreeTcb
  BY DEF Init
<1>2. FreeTcb \in Tcb /\ ~Connected(FreeTcb) /\ FreeTcb.state = "FREE"
  BY FreeTcbType DEF Connected
<1>3. "client" \in Hosts
  BY DEF Hosts
<1>4. SlotsOwned /\ NoClientListener /\ \A h \in Hosts, i \in Slots : InUse(tcb[h][i])
  <2>1. UniqueTuple
    BY <1>1, <1>2 DEF UniqueTuple
  <2>2. TimeWaitTimed
    BY <1>1, <1>2 DEF TimeWaitTimed, Init
  <2>3. NoClientListener /\ \A h \in Hosts, i \in Slots : InUse(tcb[h][i])
    <3>1. FreeTcb.q = NoSeg
      BY DEF FreeTcb
    <3> QED BY <1>1, <1>2, <1>3, <3>1 DEF NoClientListener, InUse
  <2> QED BY <2>1, <2>2, <2>3 DEF SlotsOwned
<1>5. TypeOK
  <2>1. tcb \in [Hosts -> [Slots -> Tcb]]
    BY <1>2 DEF Init
  <2>2. net \in [Hosts -> Seq(Segment)]
    BY DEF Init
  <2>3. got \in [Hosts -> [1 .. MaxConns -> Seq(Seqs)]]
    BY DEF Init
  <2>4. rtx \in [Hosts -> [Slots -> Nat]] /\ tw \in [Hosts -> [Slots -> Nat]]
    BY DEF Init
  <2>5. /\ linkUp \in BOOLEAN /\ conns \in 0 .. MaxConns
        /\ written \in [Hosts -> 0 .. MaxBytes]
        /\ losses \in 0 .. MaxLosses /\ flaps \in 0 .. MaxFlaps
    BY BoundsAssumption DEF Init
  <2> QED BY <2>1, <2>2, <2>3, <2>4, <2>5 DEF TypeOK
<1> QED BY <1>4, <1>5 DEF SlotInv

(* The steps of Next, in the form that the lemmas about them take.         *)
Steps ==
  \/ \E h \in Hosts : Listen(h)
  \/ \E i \in Slots : \E u, a : ConnectStep(i, u, a)
  \/ \E h \in Hosts, i \in Slots : \E u, a : TrackedStep(h, i, u, a)
  \/ \E h \in Hosts : net[h] # <<>> /\ DropStep(h)
  \/ \E h \in Hosts, i \in Slots : \E u, a : net[h] # <<>> /\ AcceptStep(h, i, u, a)
  \/ \E h \in Hosts, i \in Slots : \E u, O : net[h] # <<>> /\ MatchedStep(h, i, u, O)
  \/ \E h \in Hosts, i \in Slots : Retransmit(h, i)
  \/ \E h \in Hosts, i \in Slots : TimeWaitExpires(h, i)
  \/ \E h \in Hosts : Lose(h)
  \/ Flap

(* Next in that form.                                                      *)
LEMMA NextIs ==
  ASSUME SlotInv, Next
  PROVE  Steps
<1>1. ASSUME Application PROVE Steps
  <2>1. ASSUME NEW h \in Hosts, Listen(h) PROVE Steps
    BY <2>1 DEF Steps
  <2>2. ASSUME NEW port \in Ports, Connect(port) PROVE Steps
    BY <2>2, ConnectIs DEF Steps
  <2>3. ASSUME NEW h \in Hosts, NEW i \in Slots, NEW len \in 1 .. MaxBytes,
               Send(h, i, len)
        PROVE  Steps
    BY <2>3, SendIs DEF Steps
  <2>4. ASSUME NEW h \in Hosts, NEW i \in Slots, Close(h, i) PROVE Steps
    BY <2>4, CloseIs DEF Steps
  <2> QED BY <1>1, <2>1, <2>2, <2>3, <2>4 DEF Application
<1>2. ASSUME NEW h \in Hosts, Receive(h) PROVE Steps
  <2>1. /\ net[h] # <<>>
        /\ \/ ReceiveListen(h)
           \/ ReceiveNone(h)
           \/ \E i \in Slots : \E u, O : MatchedStep(h, i, u, O)
    BY <1>2, ReceiveCases
  <2>2. ASSUME ReceiveListen(h) PROVE Steps
    <3>1. DropStep(h) \/ \E i \in Slots : \E u, a : AcceptStep(h, i, u, a)
      BY <2>1, <2>2, ListenIs
    <3> QED BY <2>1, <3>1 DEF Steps
  <2>3. ASSUME ReceiveNone(h) PROVE Steps
    <3>1. DropStep(h)
      BY <2>3 DEF ReceiveNone, DropStep
    <3> QED BY <2>1, <3>1 DEF Steps
  <2>4. ASSUME NEW i \in Slots, NEW u, NEW O, MatchedStep(h, i, u, O) PROVE Steps
    BY <2>1, <2>4 DEF Steps
  <2> QED BY <2>1, <2>2, <2>3, <2>4
<1>3. ASSUME NEW h \in Hosts, NEW i \in Slots, Retransmit(h, i) \/ TimeWaitExpires(h, i)
      PROVE  Steps
  BY <1>3 DEF Steps
<1>4. ASSUME Flap \/ \E h \in Hosts : Lose(h) PROVE Steps
  BY <1>4 DEF Steps
<1> QED BY <1>1, <1>2, <1>3, <1>4 DEF Next

(* Every step keeps the slots in order.                                    *)
LEMMA NextSlots ==
  ASSUME SlotInv, [Next]_vars
  PROVE  SlotInv'
<1>1. CASE UNCHANGED vars
  BY <1>1 DEF vars, budget, SlotInv, SlotsOwned, TypeOK, UniqueTuple, TimeWaitTimed,
     NoClientListener
<1>2. CASE Next
  <2>1. Steps
    BY <1>2, NextIs
  <2> QED BY <2>1, ListenSlots, ConnectSlots, TrackedSlots, DropSlots, AcceptSlots,
          MatchedSlots, RetransmitSlots, TimeWaitExpiresSlots, LinkSlots DEF Steps
<1> QED BY <1>1, <1>2

(* A slot belongs to one connection at a time: retransmitted SYNs,         *)
(* reconnects, losses and link failures never make a second TCB for a      *)
(* four-tuple, and no TIME_WAIT timer outlives or lacks its TIME_WAIT.     *)
THEOREM SlotsKept == Spec => []SlotsOwned
<1>1. Init => SlotInv
  BY InitSlots
<1>2. SlotInv /\ [Next]_vars => SlotInv'
  BY NextSlots
<1>3. SlotInv => SlotsOwned
  BY DEF SlotInv
<1> QED BY <1>1, <1>2, <1>3, PTL DEF Spec

-----------------------------------------------------------------------------
(* One port: what a segment that is taken does to the TCB that takes it,   *)
(* given what TCB and segment know of each other.                          *)

(* Acknowledged is nothing new, or everything.                             *)
AckAdvances(t, b, u) ==
  \/ u.una = t.una /\ u.q = t.q
  \/ b.conn = t.conn /\ b.ack = t.nxt /\ t.una < t.nxt /\ u.una = t.nxt /\ u.q = NoSeg

(* Received is nothing new, or what the segment occupies.                  *)
RcvAdvances(t, b, u) ==
  \/ u.rcv = t.rcv
  \/ b.conn = t.conn /\ b.seq = t.rcv /\ EndOf(b) > b.seq /\ u.rcv = EndOf(b)

(* The state moves, for segments of the TCB's own connection.              *)
StateAdvances(t, b, u) ==
  \/ /\ u.state = t.state /\ (Opening(t) => u.rcv = t.rcv)
     /\ Opening(t) \/ FinQueued(t) => u.una = t.una
  \/ /\ b.conn = t.conn
     /\ \/ /\ t.state = "SYN_SENT" /\ u.state = "ESTABLISHED"
           /\ b.flags = {"SYN", "ACK"} /\ u.una = t.nxt /\ u.rcv = 1
        \/ /\ t.state = "SYN_RECEIVED" /\ u.state = "ESTABLISHED"
           /\ b.flags # {"SYN"} /\ u.una = t.nxt /\ u.rcv = t.rcv
        \/ t.state = "ESTABLISHED" /\ u.state = "CLOSE_WAIT" /\ ~IsSyn(b)
        \/ t.state = "FIN_WAIT_1" /\ u.state = "FIN_WAIT_2" /\ ~IsSyn(b) /\ u.una = t.nxt
        \/ t.state = "FIN_WAIT_2" /\ u.state = "TIME_WAIT"

Advances(t, b, u) ==
  /\ u.nxt = t.nxt /\ u.port = t.port /\ u.conn = t.conn
  /\ AckAdvances(t, b, u) /\ RcvAdvances(t, b, u) /\ StateAdvances(t, b, u)

(* A segment of another connection of the port is a new SYN for a passive  *)
(* TCB, or something old for a TCB that expects a SYN-ACK.                 *)
Foreign(t, b) ==
  \/ b.flags = {"SYN"} /\ t.state # "SYN_SENT"
  \/ ~IsSyn(b) /\ t.state = "SYN_SENT"

(* The numbers of a sound TCB and their order.                             *)
LEMMA TcbOrder ==
  ASSUME NEW t \in Tcb, TcbOk(t)
  PROVE  t.una \in Nat /\ t.nxt \in Nat /\ t.rcv \in Nat /\ t.una <= t.nxt
<1>1. t.una \in Nat /\ t.nxt \in Nat /\ t.rcv \in Nat
  BY TcbFields
<1> QED BY <1>1 DEF TcbOk, QueueOk

(* An acknowledgement that moves snd_una empties the send queue.           *)
LEMMA AckEmpties ==
  ASSUME NoWrap, NEW t \in Tcb, TcbOk(t), NEW b \in Segment,
         b.ack > t.una, InWindow(t, b.ack)
  PROVE  b.ack = t.nxt /\ t.una < t.nxt /\ t.q # NoSeg /\ AckedQueue(t, b.ack) = NoSeg
<1>1. t.una \in Nat /\ t.nxt \in Nat /\ t.una <= t.nxt
  BY TcbOrder
<1>2. b.ack \in Nat
  BY SegmentFields
<1>3. b.ack = t.nxt /\ t.una < t.nxt
  BY <1>1, <1>2 DEF InWindow
<1>4. t.q # NoSeg /\ EndOf(t.q) = t.nxt /\ SegOk(t.q)
  BY <1>1, <1>3 DEF TcbOk, QueueOk
<1>5. t.q \in Segment
  BY <1>4, TcbFields
<1>6. EndOf(t.q) \in Nat /\ EndOf(t.q) < SeqMod
  BY <1>4, <1>5, SeqEndType, SeqAssumption, BoundsAssumption DEF SegOk, NoWrap
<1>7. SeqEnd(t.q) = t.nxt
  BY <1>4, <1>5, <1>6, SeqEndType
<1> QED BY <1>1, <1>3, <1>4, <1>7 DEF AckedQueue

(* What a segment occupies, as rcv_nxt moves over it.                      *)
LEMMA RcvMoves ==
  ASSUME NoWrap, NEW b \in Segment, SegOk(b)
  PROVE  /\ b.len > 0 => Plus(b.seq, b.len) = EndOf(b) /\ EndOf(b) > b.seq
         /\ Control(b) => Plus(b.seq, 1) = EndOf(b) /\ EndOf(b) > b.seq
         /\ "FIN" \in b.flags \/ "SYN" \in b.flags => Control(b)
         /\ "FIN" \in b.flags => ~IsSyn(b)
<1>1. b.seq \in Nat /\ b.len \in Nat
  BY SegmentFields
<1>2. EndOf(b) <= MaxBytes + 2 /\ (b.len > 0 => ~Control(b)) /\ (Control(b) => b.len = 0)
  BY <1>1 DEF SegOk, Control
<1>3. b.seq + b.len <= EndOf(b) /\ (Control(b) => b.seq + 1 = EndOf(b))
      /\ (b.len > 0 => b.seq + b.len = EndOf(b))
  BY <1>1, <1>2 DEF EndOf
<1>4. EndOf(b) < SeqMod /\ EndOf(b) \in Nat
  BY <1>1, <1>2, SeqEndType, SeqAssumption, BoundsAssumption DEF NoWrap
<1>5. (b.len > 0 => Plus(b.seq, b.len) = EndOf(b)) /\ (Control(b) => Plus(b.seq, 1) = EndOf(b))
  BY <1>1, <1>3, <1>4, PlusType
<1>6. "FIN" \in b.flags => ~IsSyn(b)
  BY DEF SegOk, IsSyn
<1>7. "FIN" \in b.flags \/ "SYN" \in b.flags => Control(b)
  BY DEF Control
<1> QED BY <1>1, <1>2, <1>3, <1>5, <1>6, <1>7

(* What a TCB and a segment it takes know of each other.                   *)
Fits(t, b) ==
  /\ TcbOk(t) /\ SegOk(b) /\ Connected(t)
  /\ b.conn # t.conn => Foreign(t, b)
  /\ b.conn = t.conn => InWindow(t, b.ack)

(* A SYN-ACK advances a TCB in SYN_SENT.                                   *)
LEMMA OpenedAdvances ==
  ASSUME NoWrap, NEW t \in Tcb, NEW b \in Segment, NEW u \in Tcb, Fits(t, b),
         OpenedBy(t, b, u)
  PROVE  Advances(t, b, u)
<1>1. /\ t.state = "SYN_SENT" /\ {"SYN", "ACK"} \subseteq b.flags /\ b.ack = t.nxt
      /\ Is(u, t, "ESTABLISHED", b.ack, Plus(b.seq, 1), AckedQueue(t, b.ack))
  BY DEF OpenedBy
<1>2. b.flags = {"SYN", "ACK"} /\ IsSyn(b) /\ b.seq = 0
  BY <1>1 DEF Fits, SegOk, IsSyn
<1>3. b.conn = t.conn
  BY <1>1, <1>2 DEF Fits, Foreign
<1>4. t.una \in Nat /\ t.nxt = 1 /\ t.rcv = 0 /\ t.una < t.nxt
  BY <1>1, TcbFields DEF Fits, TcbOk, QueueOk
<1>5. b.ack > t.una
  BY <1>1, <1>4
<1>6. AckedQueue(t, b.ack) = NoSeg
  BY <1>3, <1>5, AckEmpties DEF Fits
<1>7. Control(b) /\ Plus(b.seq, 1) = EndOf(b) /\ EndOf(b) > b.seq
  BY <1>2, RcvMoves DEF Fits
<1>8. EndOf(b) = 1
  <2>1. b.len = 0
    BY <1>2, SegmentFields DEF Fits, SegOk
  <2> QED BY <1>2, <1>7, <2>1 DEF EndOf
<1>9. AckAdvances(t, b, u)
  BY <1>1, <1>3, <1>4, <1>6 DEF AckAdvances, Is
<1>10. RcvAdvances(t, b, u)
  BY <1>1, <1>2, <1>3, <1>4, <1>7 DEF RcvAdvances, Is
<1>11. StateAdvances(t, b, u)
  BY <1>1, <1>2, <1>3, <1>7, <1>8 DEF StateAdvances, Is
<1> QED BY <1>1, <1>9, <1>10, <1>11 DEF Advances, Is

(* An ACK advances a TCB in SYN_RECEIVED.                                  *)
LEMMA AcceptedAdvances ==
  ASSUME NoWrap, NEW t \in Tcb, NEW b \in Segment, NEW u \in Tcb, Fits(t, b),
         AcceptedBy(t, b, u)
  PROVE  Advances(t, b, u)
<1>1. /\ t.state = "SYN_RECEIVED" /\ "ACK" \in b.flags /\ b.ack = t.nxt
      /\ Is(u, t, "ESTABLISHED", b.ack, t.rcv, AckedQueue(t, b.ack))
  BY DEF AcceptedBy
<1>2. b.flags # {"SYN"}
  BY <1>1
<1>3. b.conn = t.conn
  BY <1>1, <1>2 DEF Fits, Foreign
<1>4. t.una \in Nat /\ t.nxt = 1 /\ t.una < t.nxt
  BY <1>1, TcbFields DEF Fits, TcbOk, QueueOk
<1>5. b.ack > t.una
  BY <1>1, <1>4
<1>6. AckedQueue(t, b.ack) = NoSeg
  BY <1>3, <1>5, AckEmpties DEF Fits
<1>7. AckAdvances(t, b, u) /\ RcvAdvances(t, b, u)
  BY <1>1, <1>3, <1>4, <1>6 DEF AckAdvances, RcvAdvances, Is
<1>8. StateAdvances(t, b, u)
  BY <1>1, <1>2, <1>3 DEF StateAdvances, Is
<1> QED BY <1>1, <1>7, <1>8 DEF Advances, Is

(* An acknowledgement of an established TCB is nothing new, or of all.     *)
LEMMA AckedAdvances ==
  ASSUME NoWrap, NEW t \in Tcb, NEW b \in Segment, NEW u, Fits(t, b),
         t.state = "ESTABLISHED", AckedBy(t, b, u)
  PROVE  AckAdvances(t, b, u)
<1>1. CASE u.una = t.una /\ u.q = t.q
  BY <1>1 DEF AckAdvances
<1>2. CASE "ACK" \in b.flags /\ b.ack > t.una /\ u.una = b.ack /\ u.q = AckedQueue(t, b.ack)
  <2>1. b.conn = t.conn
    BY <1>2 DEF Fits, Foreign
  <2>2. b.ack = t.nxt /\ t.una < t.nxt /\ AckedQueue(t, b.ack) = NoSeg
    BY <1>2, <2>1, AckEmpties DEF Fits
  <2> QED BY <1>2, <2>1, <2>2 DEF AckAdvances
<1> QED BY <1>1, <1>2 DEF AckedBy

(* Data advances an established TCB.                                       *)
LEMMA DataAdvances ==
  ASSUME NoWrap, NEW t \in Tcb, NEW b \in Segment, NEW u \in Tcb, Fits(t, b),
         DataBy(t, b, u)
  PROVE  Advances(t, b, u)
<1>1. /\ t.state = "ESTABLISHED" /\ b.len > 0 /\ AckedBy(t, b, u)
      /\ Is(u, t, "ESTABLISHED", u.una,
            IF b.seq = t.rcv THEN Plus(t.rcv, b.len) ELSE t.rcv, u.q)
  BY DEF DataBy
<1>2. AckAdvances(t, b, u)
  BY <1>1, AckedAdvances
<1>3. b.conn = t.conn
  BY <1>1 DEF Fits, Foreign, SegOk
<1>4. Plus(b.seq, b.len) = EndOf(b) /\ EndOf(b) > b.seq
  BY <1>1, RcvMoves DEF Fits
<1>5. RcvAdvances(t, b, u)
  BY <1>1, <1>3, <1>4 DEF RcvAdvances, Is
<1>6. StateAdvances(t, b, u)
  BY <1>1 DEF StateAdvances, Is, Opening, FinQueued
<1> QED BY <1>1, <1>2, <1>5, <1>6 DEF Advances, Is

(* A segment without data advances an established TCB.                     *)
LEMMA EmptyAdvances ==
  ASSUME NoWrap, NEW t \in Tcb, NEW b \in Segment, NEW u \in Tcb, NEW up, Fits(t, b),
         EmptyBy(t, b, u, up)
  PROVE  Advances(t, b, u)
<1> DEFINE fin == "FIN" \in b.flags /\ b.seq = t.rcv
<1>1. /\ t.state = "ESTABLISHED" /\ AckedBy(t, b, u)
      /\ Is(u, t, IF fin /\ up THEN "CLOSE_WAIT" ELSE "ESTABLISHED", u.una,
            IF fin THEN Plus(t.rcv, 1) ELSE t.rcv, u.q)
  BY DEF EmptyBy
<1>2. AckAdvances(t, b, u)
  BY <1>1, AckedAdvances
<1>3. fin => b.conn = t.conn /\ ~IsSyn(b) /\ Plus(b.seq, 1) = EndOf(b) /\ EndOf(b) > b.seq
  <2>1. ASSUME fin
        PROVE  b.conn = t.conn
    BY <1>1, <2>1 DEF Fits, Foreign
  <2>2. ASSUME fin
        PROVE  ~IsSyn(b) /\ Plus(b.seq, 1) = EndOf(b) /\ EndOf(b) > b.seq
    BY <2>2, RcvMoves DEF Fits
  <2> QED BY <2>1, <2>2
<1>4. RcvAdvances(t, b, u)
  BY <1>1, <1>3 DEF RcvAdvances, Is
<1>5. StateAdvances(t, b, u)
  BY <1>1, <1>3 DEF StateAdvances, Is, Opening, FinQueued
<1> QED BY <1>1, <1>2, <1>4, <1>5 DEF Advances, Is

(* An acknowledgement of the FIN advances or releases the TCB.             *)
LEMMA FinAckedAdvances ==
  ASSUME NoWrap, NEW t \in Tcb, NEW b \in Segment, NEW u \in Tcb, Fits(t, b),
         FinAckedBy(t, b, u)
  PROVE  Advances(t, b, u) \/ (u = FreeTcb /\ t.state = "LAST_ACK")
<1> DEFINE q == AckedQueue(t, b.ack)
           open == q # NoSeg /\ "FIN" \in q.flags
<1>1. /\ t.state \in {"FIN_WAIT_1", "LAST_ACK"} /\ "ACK" \in b.flags /\ b.ack > t.una
      /\ IF open THEN Is(u, t, t.state, b.ack, t.rcv, q)
         ELSE IF t.state = "FIN_WAIT_1" THEN Is(u, t, "FIN_WAIT_2", b.ack, t.rcv, q)
         ELSE u = FreeTcb
  BY DEF FinAckedBy, FinQueued
<1>2. b.conn = t.conn
  BY <1>1 DEF Fits, Foreign
<1>3. b.ack = t.nxt /\ t.una < t.nxt /\ q = NoSeg
  BY <1>1, <1>2, AckEmpties DEF Fits
<1>4. ~IsSyn(b)
  <2>1. t.una >= 1 /\ t.una \in Nat
    BY <1>1, TcbFields DEF Fits, TcbOk, Opening
  <2>2. IsSyn(b) => b.ack <= 1
    BY <1>1 DEF Fits, SegOk, IsSyn
  <2> QED BY <1>1, <2>1, <2>2, SegmentFields
<1> HIDE DEF q
<1>5. CASE t.state = "LAST_ACK"
  BY <1>1, <1>3, <1>5
<1>6. CASE t.state = "FIN_WAIT_1"
  <2>1. Is(u, t, "FIN_WAIT_2", b.ack, t.rcv, NoSeg)
    BY <1>1, <1>3, <1>6
  <2>2. AckAdvances(t, b, u) /\ RcvAdvances(t, b, u)
    BY <1>2, <1>3, <2>1 DEF AckAdvances, RcvAdvances, Is
  <2>3. StateAdvances(t, b, u)
    BY <1>2, <1>3, <1>4, <1>6, <2>1 DEF StateAdvances, Is
  <2> QED BY <2>1, <2>2, <2>3 DEF Advances, Is
<1> QED BY <1>1, <1>5, <1>6

(* The peer's FIN advances a TCB in FIN_WAIT_2.                            *)
LEMMA FinAdvances ==
  ASSUME NoWrap, NEW t \in Tcb, NEW b \in Segment, NEW u \in Tcb, NEW up, Fits(t, b),
         FinBy(t, b, u, up)
  PROVE  Advances(t, b, u)
<1>1. /\ t.state = "FIN_WAIT_2" /\ "FIN" \in b.flags /\ b.seq = t.rcv
      /\ Is(u, t, IF up THEN "TIME_WAIT" ELSE "FIN_WAIT_2", t.una, Plus(t.rcv, 1), t.q)
  BY DEF FinBy
<1>2. b.conn = t.conn
  BY <1>1 DEF Fits, Foreign
<1>3. Plus(b.seq, 1) = EndOf(b) /\ EndOf(b) > b.seq
  BY <1>1, RcvMoves DEF Fits
<1>4. AckAdvances(t, b, u) /\ RcvAdvances(t, b, u)
  BY <1>1, <1>2, <1>3 DEF AckAdvances, RcvAdvances, Is
<1>5. StateAdvances(t, b, u)
  BY <1>1, <1>2 DEF StateAdvances, Is, Opening, FinQueued
<1> QED BY <1>1, <1>4, <1>5 DEF Advances, Is

(* Every branch of tcp_receive advances the TCB, or releases it.           *)
LEMMA MovedAdvances ==
  ASSUME NoWrap, NEW t \in Tcb, NEW b \in Segment, NEW u \in Tcb, NEW up, Fits(t, b),
         MovedBy(t, b, u, up)
  PROVE  Advances(t, b, u) \/ (u = FreeTcb /\ t.state = "LAST_ACK")
<1>1. CASE u = t
  BY <1>1 DEF Advances, AckAdvances, RcvAdvances, StateAdvances
<1> QED BY <1>1, OpenedAdvances, AcceptedAdvances, DataAdvances, EmptyAdvances,
        FinAckedAdvances, FinAdvances DEF MovedBy

(* The TCB stays sound.                                                    *)
LEMMA AdvancesOk ==
  ASSUME NEW t \in Tcb, NEW b \in Segment, NEW u \in Tcb, TcbOk(t), Connected(t),
         Advances(t, b, u)
  PROVE  /\ TcbOk(u) /\ Connected(u) /\ t.rcv <= u.rcv
         /\ u.state = "SYN_RECEIVED" => t.state = "SYN_RECEIVED"
         /\ u.state = "SYN_SENT" => t.state = "SYN_SENT"
<1>1. /\ t.una \in Nat /\ t.nxt \in Nat /\ t.rcv \in Nat /\ t.una <= t.nxt
      /\ u.una \in Nat /\ u.nxt \in Nat /\ u.rcv \in Nat
  BY TcbOrder, TcbFields
<1>2. b.seq \in Nat /\ EndOf(b) \in Nat
  BY SegmentFields, SeqEndType
<1>3. u.nxt = t.nxt /\ u.port = t.port /\ u.conn = t.conn
  BY DEF Advances
<1>4. t.rcv <= u.rcv
  BY <1>1, <1>2 DEF Advances, RcvAdvances
<1>5. (u.una = t.una /\ u.q = t.q) \/ (u.una = t.nxt /\ u.q = NoSeg)
  BY DEF Advances, AckAdvances
<1>6. /\ Connected(u)
      /\ u.state = "SYN_RECEIVED" => t.state = "SYN_RECEIVED"
      /\ u.state = "SYN_SENT" => t.state = "SYN_SENT"
      /\ Opening(u) => u.state = t.state /\ u.una = t.una /\ u.rcv = t.rcv
      /\ Opening(t) /\ ~Opening(u) => u.una = t.nxt /\ u.rcv >= 1
      /\ FinQueued(u) => u.state = t.state
      /\ FinQueued(t) /\ ~FinQueued(u) => u.una = t.nxt
      /\ FinSent(t) <=> FinSent(u)
  <2>1. CASE u.state = t.state
    BY <1>1, <2>1 DEF Advances, StateAdvances, Connected, Opening, FinQueued, FinSent
  <2>2. CASE u.state # t.state
    <3>1. t.state = "SYN_RECEIVED" => t.rcv = 1
      BY DEF TcbOk
    <3> QED BY <1>1, <2>2, <3>1
            DEF Advances, StateAdvances, Connected, Opening, FinQueued, FinSent
  <2> QED BY <2>1, <2>2
<1>7. t.q = NoSeg => t.una = t.nxt
  BY DEF TcbOk, QueueOk
<1>8. QueueOk(u)
  <2>1. CASE u.q = NoSeg
    BY <1>3, <1>5, <1>7, <2>1 DEF QueueOk
  <2>2. CASE u.q # NoSeg
    <3>1. u.una = t.una /\ u.q = t.q /\ t.q # NoSeg
      BY <1>5, <2>2
    <3>2. /\ t.q.port = t.port /\ t.q.conn = t.conn /\ SegOk(t.q)
          /\ t.q.seq = t.una /\ EndOf(t.q) = t.nxt /\ t.una < t.nxt
          /\ t.q.ack <= t.rcv
          /\ IsSyn(t.q) <=> Opening(t)
          /\ "FIN" \in t.q.flags <=> FinQueued(t)
      BY <3>1 DEF TcbOk, QueueOk
    <3>3. Opening(t) <=> Opening(u)
      BY <1>1, <1>6, <3>1, <3>2 DEF Opening
    <3>4. FinQueued(t) <=> FinQueued(u)
      BY <1>1, <1>6, <3>1, <3>2 DEF FinQueued
    <3>5. u.q.ack <= u.rcv
      BY <1>1, <1>4, <3>1, <3>2, TcbFields, SegmentFields
    <3> QED BY <1>3, <2>2, <3>1, <3>2, <3>3, <3>4, <3>5 DEF QueueOk
  <2> QED BY <2>1, <2>2
<1>9. Opening(u) => u.q = t.q
  <2>1. Opening(t) => t.una < t.nxt
    BY DEF TcbOk, QueueOk, Opening
  <2> QED BY <1>1, <1>5, <1>6, <2>1 DEF Opening
<1>10. /\ u.state = "SYN_SENT" => u.q # NoSeg /\ u.q.flags = {"SYN"} /\ u.nxt = 1 /\ u.rcv = 0
       /\ u.state = "SYN_RECEIVED" =>
            u.q # NoSeg /\ u.q.flags = {"SYN", "ACK"} /\ u.nxt = 1 /\ u.rcv = 1
  BY <1>3, <1>6, <1>9 DEF TcbOk, Opening
<1>11. ~Opening(u) => u.una >= 1 /\ u.rcv >= 1
  <2>1. CASE Opening(t)
    BY <1>1, <1>6, <2>1 DEF TcbOk, Opening
  <2>2. CASE ~Opening(t)
    BY <1>1, <1>4, <1>5, <2>2 DEF TcbOk
  <2> QED BY <2>1, <2>2
<1>12. FinSent(u) => (u.q # NoSeg <=> FinQueued(u))
  <2> HAVE FinSent(u)
  <2>1. t.q # NoSeg <=> FinQueued(t)
    BY <1>6 DEF TcbOk
  <2>2. FinQueued(u) => FinQueued(t) /\ t.una < t.nxt
    BY <1>6, <2>1 DEF FinQueued, TcbOk, QueueOk
  <2>3. CASE FinQueued(u)
    <3>1. u.q # NoSeg
      <4>1. t.q # NoSeg
        BY <2>1, <2>2, <2>3
      <4>2. u.una = t.una
        BY <1>6, <2>2, <2>3 DEF Advances, StateAdvances, FinQueued
      <4>3. u.q = t.q
        BY <1>1, <1>5, <2>2, <2>3, <4>2
      <4> QED BY <4>1, <4>3
    <3> QED BY <2>3, <3>1
  <2>4. CASE ~FinQueued(u)
    <3>1. u.q = NoSeg
      <4>1. CASE FinQueued(t)
        <5>1. t.una < t.nxt
          BY <2>1, <4>1 DEF TcbOk, QueueOk
        <5> QED BY <1>1, <1>5, <1>6, <2>4, <4>1, <5>1
      <4>2. CASE ~FinQueued(t)
        BY <1>5, <2>1, <4>2
      <4> QED BY <4>1, <4>2
    <3> QED BY <2>4, <3>1
  <2> QED BY <2>3, <2>4
<1> QED BY <1>4, <1>6, <1>8, <1>10, <1>11, <1>12 DEF TcbOk

(* The sequence spaces of the two ends still agree.                        *)
LEMMA AdvancesWindow ==
  ASSUME NEW t \in Tcb, NEW u \in Tcb, NEW Y \in SUBSET Tcb,
         NEW Out \in SUBSET Segment, NEW In \in SUBSET Segment, NEW b \in In,
         NEW Rest \in SUBSET In,
         TcbOk(t), \A y \in Y : TcbOk(y), Connected(t), Advances(t, b, u),
         Window({t}, Y, Out, In), Window(Y, {t}, In, Out)
  PROVE  Window({u}, Y, Out, Rest) /\ Window(Y, {u}, Rest, Out)
<1>1. /\ t.una \in Nat /\ t.nxt \in Nat /\ t.rcv \in Nat /\ t.una <= t.nxt
      /\ u.una \in Nat /\ u.nxt \in Nat /\ u.rcv \in Nat
  BY TcbOrder, TcbFields
<1>2. /\ u.nxt = t.nxt /\ u.conn = t.conn /\ t.rcv <= u.rcv
      /\ AckAdvances(t, b, u) /\ RcvAdvances(t, b, u)
  BY AdvancesOk DEF Advances
<1>3. (u.una = t.una \/ u.una = t.nxt) /\ (u.q = t.q \/ u.q = NoSeg)
  BY <1>2 DEF AckAdvances
<1>4. \A y \in Y : y.una \in Nat /\ y.nxt \in Nat /\ y.rcv \in Nat /\ y.una <= y.nxt
  BY TcbOrder
<1>5. \A a \in In \cup Out : a.ack \in Nat /\ a.seq \in Nat /\ EndOf(a) \in Nat
  BY SegmentFields, SeqEndType
<1>6. \A x \in Nat : InWindow(t, x) => InWindow(u, x)
  BY <1>1, <1>2, <1>3 DEF InWindow
<1>7. ASSUME NEW a \in Out, a.conn = u.conn
      PROVE  InWindow(u, EndOf(a)) /\ a.ack <= u.rcv
  <2>1. InWindow(t, EndOf(a)) /\ a.ack <= t.rcv
    BY <1>2, <1>7 DEF Window
  <2> QED BY <1>1, <1>2, <1>5, <1>6, <2>1
<1>8. ASSUME NEW a \in Rest, a.conn = u.conn
      PROVE  InWindow(u, a.ack)
  <2>1. InWindow(t, a.ack)
    BY <1>2, <1>8 DEF Window
  <2> QED BY <1>5, <1>6, <2>1
<1>9. ASSUME NEW y \in Y, y.conn = u.conn
      PROVE  /\ y.rcv = u.una \/ y.rcv = u.nxt
             /\ y.q # NoSeg => InWindow(u, y.q.ack)
             /\ u.rcv = y.una \/ u.rcv = y.nxt
             /\ u.q # NoSeg => InWindow(y, u.q.ack)
  <2>1. /\ y.rcv = t.una \/ y.rcv = t.nxt
        /\ y.q # NoSeg => InWindow(t, y.q.ack)
    BY <1>2, <1>9 DEF Window
  <2>2. /\ t.rcv = y.una \/ t.rcv = y.nxt
        /\ t.q # NoSeg => InWindow(y, t.q.ack)
    BY <1>2, <1>9 DEF Window
  <2>3. b.conn = y.conn => InWindow(y, EndOf(b)) /\ b.ack <= y.rcv
    BY DEF Window
  <2>4. y.rcv = u.una \/ y.rcv = u.nxt
    BY <1>1, <1>2, <1>4, <1>5, <1>9, <2>1, <2>3 DEF AckAdvances
  <2>5. y.q # NoSeg => InWindow(u, y.q.ack)
    <3> HAVE y.q # NoSeg
    <3>1. y.q \in Segment
      BY TcbFields
    <3> QED BY <1>6, <2>1, <3>1, SegmentFields
  <2>6. u.rcv = y.una \/ u.rcv = y.nxt
    BY <1>1, <1>2, <1>4, <1>5, <1>9, <2>2, <2>3 DEF RcvAdvances, InWindow
  <2> QED BY <1>3, <2>2, <2>4, <2>5, <2>6
<1>10. Window({u}, Y, Out, Rest)
  BY <1>7, <1>8, <1>9 DEF Window
<1>11. Window(Y, {u}, Rest, Out)
  <2> SUFFICES ASSUME NEW y \in Y
               PROVE  /\ \A a \in Rest : a.conn = y.conn => InWindow(y, EndOf(a)) /\ a.ack <= y.rcv
                      /\ \A a \in Out : a.conn = y.conn => InWindow(y, a.ack)
                      /\ u.conn = y.conn =>
                           (u.rcv = y.una \/ u.rcv = y.nxt) /\ (u.q # NoSeg => InWindow(y, u.q.ack))
    BY DEF Window
  <2> QED BY <1>9 DEF Window
<1> QED BY <1>10, <1>11

-----------------------------------------------------------------------------
(* One port: the invariant in the steps that concern it.                   *)

PortType(C, S, F, B) ==
  /\ C \in SUBSET Tcb /\ S \in SUBSET Tcb
  /\ F \in SUBSET Segment /\ B \in SUBSET Segment
  /\ \A x, y \in C : x = y
  /\ \A x, y \in S : x = y
  /\ \A t \in C \cup S : Connected(t)

(* What is in flight may be lost.                                          *)
LEMMA PortShrinks ==
  ASSUME NEW C, NEW S, NEW F, NEW B, NEW F1 \in SUBSET F, NEW B1 \in SUBSET B,
         PortOk(C, S, F, B)
  PROVE  PortOk(C, S, F1, B1)
<1>1. Sorts(C, S, F1, B1)
  BY DEF PortOk, Sorts
<1>2. Ages(C, S, F1, B1)
  BY DEF PortOk, Ages
<1>3. Handshake(C, S, F1, B1)
  BY DEF PortOk, Handshake
<1>4. Window(C, S, F1, B1) /\ Window(S, C, B1, F1)
  BY DEF PortOk, Window
<1> QED BY <1>1, <1>2, <1>3, <1>4 DEF PortOk

(* What a segment in flight to the client and its TCB know of each other.  *)
LEMMA ClientFits ==
  ASSUME NEW t, NEW S, NEW F, NEW B, PortType({t}, S, F, B), PortOk({t}, S, F, B),
         NEW b \in B
  PROVE  Fits(t, b)
<1>1. TcbOk(t) /\ SegOk(b) /\ Connected(t)
  BY DEF PortOk, Sorts, PortType
<1>2. b.conn = t.conn => InWindow(t, b.ack)
  BY DEF PortOk, Window
<1>3. b.conn # t.conn => t.state = "SYN_SENT" /\ ~IsSyn(b)
  BY DEF PortOk, Ages, Handshake, HasYoung
<1> QED BY <1>1, <1>2, <1>3 DEF Fits, Foreign

(* What a segment in flight to the server and its TCB know of each other.  *)
LEMMA ServerFits ==
  ASSUME NEW t, NEW C, NEW F, NEW B, PortType(C, {t}, F, B), PortOk(C, {t}, F, B),
         NEW b \in F
  PROVE  Fits(t, b) /\ (b.conn # t.conn => IsSyn(b)) /\ (IsSyn(b) => b.flags = {"SYN"})
<1>1. TcbOk(t) /\ SegOk(b) /\ Connected(t) /\ t.state # "SYN_SENT" /\ b.flags # {"SYN", "ACK"}
  BY DEF PortOk, Sorts, PortType
<1>2. b.conn = t.conn => InWindow(t, b.ack)
  BY DEF PortOk, Window
<1>3. b.conn # t.conn => IsSyn(b)
  BY DEF PortOk, Ages
<1>4. IsSyn(b) => b.flags = {"SYN"}
  BY <1>1 DEF SegOk, IsSyn
<1> QED BY <1>1, <1>2, <1>3, <1>4 DEF Fits, Foreign

(* The client's TCB takes a segment.                                       *)
LEMMA ClientAdvances ==
  ASSUME NEW t, NEW S, NEW F, NEW B, PortType({t}, S, F, B), PortOk({t}, S, F, B),
         NEW b \in B, NEW Rest \in SUBSET B,
         \A a \in Rest : b.conn <= a.conn /\ (b.conn = a.conn /\ IsSyn(a) => IsSyn(b)),
         NEW u \in Tcb, Advances(t, b, u)
  PROVE  PortOk({u}, S, F, Rest)
<1>1. /\ t \in Tcb /\ S \in SUBSET Tcb /\ F \in SUBSET Segment /\ B \in SUBSET Segment
      /\ \A x, y \in S : x = y
      /\ Connected(t) /\ TcbOk(t) /\ \A y \in S : TcbOk(y)
  BY DEF PortType, PortOk, Sorts
<1>2. /\ TcbOk(u) /\ Connected(u) /\ u.conn = t.conn
      /\ u.state = "SYN_RECEIVED" => t.state = "SYN_RECEIVED"
      /\ u.state = "SYN_SENT" => t.state = "SYN_SENT"
  BY <1>1, AdvancesOk DEF Advances
<1>3. Window({u}, S, F, Rest) /\ Window(S, {u}, Rest, F)
  BY <1>1, AdvancesWindow DEF PortOk
<1>4. Sorts({u}, S, F, Rest)
  BY <1>2 DEF PortOk, Sorts
<1>5. \A a \in B : a.conn \in Nat
  BY <1>1, SegmentFields
<1>6. t.conn \in Nat
  BY <1>1, TcbFields
<1>7. u.state # "SYN_SENT" => \A o \in S \cup Rest : o.conn = t.conn
  <2>1. CASE t.state # "SYN_SENT"
    BY <2>1 DEF PortOk, Ages
  <2>2. CASE t.state = "SYN_SENT" /\ u.state # "SYN_SENT"
    <3>1. b.conn = t.conn
      BY <2>2 DEF Advances, StateAdvances
    <3>2. \E y \in S : y.conn = t.conn
      BY <2>2, <3>1 DEF PortOk, Handshake
    <3>3. \A y \in S : y.conn = t.conn
      BY <1>1, <3>2
    <3>4. \A a \in Rest : a.conn <= t.conn /\ t.conn <= a.conn
      BY <3>1 DEF PortOk, Ages
    <3> QED BY <1>5, <1>6, <3>3, <3>4
  <2> QED BY <2>1, <2>2
<1>8. Ages({u}, S, F, Rest)
  BY <1>2, <1>7 DEF PortOk, Ages
<1>9. CASE Young(t) => Young(u)
  <2>1. \A c : HasYoung({t}, c) => HasYoung({u}, c)
    BY <1>2, <1>9 DEF HasYoung
  <2>2. \A a \in F : IsSyn(a) => \/ \E y \in S : y.conn = a.conn
                                 \/ \E x \in {u} : x.conn = a.conn /\ x.state = "SYN_SENT"
    <3> SUFFICES ASSUME NEW a \in F, IsSyn(a), ~\E y \in S : y.conn = a.conn
                 PROVE  u.conn = a.conn /\ u.state = "SYN_SENT"
      OBVIOUS
    <3>1. t.conn = a.conn /\ t.state = "SYN_SENT"
      BY DEF PortOk, Handshake
    <3>2. b.conn # t.conn
      BY <3>1 DEF PortOk, Handshake
    <3> QED BY <1>2, <3>1, <3>2 DEF Advances, StateAdvances
  <2>3. Handshake({u}, S, F, Rest)
    BY <1>2, <2>1, <2>2 DEF PortOk, Handshake
  <2> QED BY <1>3, <1>4, <1>8, <2>3 DEF PortOk
<1>10. CASE Young(t) /\ ~Young(u)
  <2>1. b.conn = t.conn /\ ~IsSyn(b) /\ t.state # "SYN_SENT"
    BY <1>10 DEF Advances, StateAdvances, Young
  <2>2. ASSUME NEW a \in F, IsSyn(a) PROVE FALSE
    <3>1. a.conn = t.conn
      BY <2>2 DEF PortOk, Handshake, HasYoung
    <3> QED BY <2>1, <2>2, <3>1 DEF PortOk, Handshake
  <2>3. ASSUME NEW y \in S, y.state = "SYN_RECEIVED" PROVE FALSE
    <3>1. y.conn = t.conn
      BY <2>1 DEF PortOk, Ages
    <3> QED BY <2>1, <2>3, <3>1 DEF PortOk, Handshake
  <2>4. ASSUME NEW a \in Rest, IsSyn(a) PROVE FALSE
    <3>1. a.conn = t.conn
      BY <2>1 DEF PortOk, Ages
    <3> QED BY <2>1, <2>4, <3>1
  <2>5. u.state # "SYN_SENT"
    BY <1>10 DEF Young
  <2>6. Handshake({u}, S, F, Rest)
    BY <2>2, <2>3, <2>4, <2>5 DEF Handshake
  <2> QED BY <1>3, <1>4, <1>8, <2>6 DEF PortOk
<1> QED BY <1>9, <1>10

(* The server's TCB takes a segment.                                       *)
LEMMA ServerAdvances ==
  ASSUME NEW t, NEW C, NEW F, NEW B, PortType(C, {t}, F, B), PortOk(C, {t}, F, B),
         NEW b \in F, NEW Rest \in SUBSET F,
         \A a \in Rest : b.conn <= a.conn /\ (b.conn = a.conn /\ IsSyn(a) => IsSyn(b)),
         NEW u \in Tcb, Advances(t, b, u)
  PROVE  PortOk(C, {u}, Rest, B)
<1>1. /\ t \in Tcb /\ C \in SUBSET Tcb /\ F \in SUBSET Segment /\ B \in SUBSET Segment
      /\ Connected(t) /\ TcbOk(t) /\ \A x \in C : TcbOk(x)
  BY DEF PortType, PortOk, Sorts
<1>2. /\ TcbOk(u) /\ Connected(u) /\ u.conn = t.conn
      /\ u.state = "SYN_RECEIVED" => t.state = "SYN_RECEIVED"
      /\ u.state = "SYN_SENT" => t.state = "SYN_SENT"
  BY <1>1, AdvancesOk DEF Advances
<1>3. Window({u}, C, B, Rest) /\ Window(C, {u}, Rest, B)
  BY <1>1, AdvancesWindow DEF PortOk
<1>4. Sorts(C, {u}, Rest, B)
  BY <1>2 DEF PortOk, Sorts
<1>5. Ages(C, {u}, Rest, B)
  BY <1>2 DEF PortOk, Ages
<1>6. CASE t.state = "SYN_RECEIVED" <=> u.state = "SYN_RECEIVED"
  <2>1. Handshake(C, {u}, Rest, B)
    BY <1>2, <1>6 DEF PortOk, Handshake
  <2> QED BY <1>3, <1>4, <1>5, <2>1 DEF PortOk
<1>7. CASE t.state = "SYN_RECEIVED" /\ u.state # "SYN_RECEIVED"
  <2>1. b.conn = t.conn /\ ~IsSyn(b)
    <3>1. b.conn = t.conn /\ b.flags # {"SYN"}
      BY <1>7 DEF Advances, StateAdvances
    <3> QED BY <3>1, ServerFits
  <2>2. ASSUME NEW a \in Rest, IsSyn(a) PROVE a.conn # u.conn
    BY <1>2, <2>1, <2>2
  <2>3. ASSUME NEW x \in C, x.state = "SYN_SENT" PROVE x.conn # u.conn
    BY <1>2, <2>1, <2>3 DEF PortOk, Handshake
  <2>4. Handshake(C, {u}, Rest, B)
    BY <1>2, <1>7, <2>2, <2>3 DEF PortOk, Handshake
  <2> QED BY <1>3, <1>4, <1>5, <2>4 DEF PortOk
<1> QED BY <1>2, <1>6, <1>7

(* A TCB is released.                                                      *)
LEMMA ClientReleases ==
  ASSUME NEW t, NEW S, NEW F, NEW B, PortOk({t}, S, F, B),
         t.state \in {"LAST_ACK", "TIME_WAIT"}
  PROVE  PortOk({}, S, F, B)
<1>1. \A c : ~HasYoung({t}, c)
  BY DEF HasYoung, Young
<1>2. Sorts({}, S, F, B) /\ Ages({}, S, F, B)
  BY DEF PortOk, Sorts, Ages
<1>3. Window({}, S, F, B) /\ Window(S, {}, B, F)
  BY DEF PortOk, Window
<1>4. Handshake({}, S, F, B)
  BY <1>1 DEF PortOk, Handshake
<1> QED BY <1>2, <1>3, <1>4 DEF PortOk

(* The same at the server.                                                 *)
LEMMA ServerReleases ==
  ASSUME NEW t, NEW C, NEW F, NEW B, PortOk(C, {t}, F, B),
         t.state \in {"LAST_ACK", "TIME_WAIT"}
  PROVE  PortOk(C, {}, F, B)
<1>1. Sorts(C, {}, F, B) /\ Ages(C, {}, F, B)
  BY DEF PortOk, Sorts, Ages
<1>2. Window(C, {}, F, B) /\ Window({}, C, B, F)
  BY DEF PortOk, Window
<1>3. Handshake(C, {}, F, B)
  BY DEF PortOk, Handshake
<1> QED BY <1>1, <1>2, <1>3 DEF PortOk

(* A TCB is new: the client's has a number that nothing has yet.           *)
LEMMA ClientOpens ==
  ASSUME NEW u \in Tcb, NEW S, NEW F, NEW B, PortType({}, S, F, B), PortOk({}, S, F, B),
         u.state = "SYN_SENT", TcbOk(u),
         \A o \in S \cup F \cup B : o.conn < u.conn
  PROVE  PortOk({u}, S, F, B)
<1>1. \A o \in S \cup F \cup B : o.conn \in Nat
  BY SegmentFields, TcbFields DEF PortType
<1>2. u.conn \in Nat
  BY TcbFields
<1>3. \A o \in S \cup F \cup B : o.conn <= u.conn /\ o.conn # u.conn
  BY <1>1, <1>2
<1>4. \A c : ~HasYoung({}, c)
  BY DEF HasYoung
<1>5. Sorts({u}, S, F, B)
  BY DEF PortOk, Sorts
<1>6. Ages({u}, S, F, B)
  BY <1>3 DEF PortOk, Ages
<1>7. Handshake({u}, S, F, B)
  BY <1>3, <1>4 DEF PortOk, Handshake
<1>8. Window({u}, S, F, B) /\ Window(S, {u}, B, F)
  BY <1>3 DEF PortOk, Window
<1> QED BY <1>5, <1>6, <1>7, <1>8 DEF PortOk

(* The server's answers a SYN, which only a client in SYN_SENT has sent.   *)
LEMMA ServerOpens ==
  ASSUME NEW u \in Tcb, NEW C, NEW F, NEW B, PortType(C, {}, F, B), PortOk(C, {}, F, B),
         NEW b \in F, IsSyn(b), NEW Rest \in SUBSET F, \A a \in Rest : b.conn <= a.conn,
         u.state = "SYN_RECEIVED", TcbOk(u), u.una = 0, u.conn = b.conn
  PROVE  PortOk(C, {u}, Rest, B)
<1>1. PICK x \in C : x.conn = b.conn /\ x.state = "SYN_SENT"
  BY DEF PortOk, Handshake
<1>2. C = {x}
  BY DEF PortType
<1>3. x \in Tcb /\ TcbOk(x) /\ x.conn \in Nat
  BY TcbFields DEF PortOk, Sorts, PortType
<1>4. /\ x.q # NoSeg /\ x.q.flags = {"SYN"} /\ x.nxt = 1 /\ x.rcv = 0
      /\ x.q.ack = 0
  BY <1>1, <1>3 DEF TcbOk, QueueOk, SegOk
<1>5. /\ u.q # NoSeg /\ u.q.flags = {"SYN", "ACK"} /\ u.nxt = 1 /\ u.rcv = 1
      /\ u.q.ack = 1
  BY DEF TcbOk, QueueOk, SegOk
<1>6. \A a \in F : a.conn \in Nat /\ a.conn <= x.conn
  BY SegmentFields DEF PortType, PortOk, Ages
<1>7. \A a \in Rest : a.conn = x.conn /\ IsSyn(a) /\ a.ack = 0
  <2> TAKE a \in Rest
  <2>1. a.conn = x.conn
    BY <1>1, <1>3, <1>6
  <2>2. IsSyn(a)
    BY <1>1, <2>1 DEF PortOk, Handshake
  <2>3. SegOk(a) /\ a.flags # {"SYN", "ACK"}
    BY DEF PortOk, Sorts
  <2>4. a.ack = 0
    BY <2>2, <2>3 DEF SegOk, IsSyn
  <2> QED BY <2>1, <2>2, <2>4
<1>8. \A a \in B : a.conn <= x.conn /\ a.conn # x.conn
  BY <1>1 DEF PortOk, Ages, Handshake
<1>9. HasYoung(C, x.conn)
  BY <1>1 DEF HasYoung, Young
<1>10. Sorts(C, {u}, Rest, B)
  BY DEF PortOk, Sorts
<1>11. Ages(C, {u}, Rest, B)
  <2>1. x.conn <= x.conn
    BY <1>3
  <2> QED BY <1>1, <1>2, <1>7, <1>8, <2>1 DEF PortOk, Ages
<1>12. Handshake(C, {u}, Rest, B)
  BY <1>1, <1>2, <1>7, <1>8, <1>9 DEF PortOk, Handshake
<1>13. Window({u}, C, B, Rest)
  <2>1. InWindow(u, 0)
    BY DEF InWindow
  <2> QED BY <1>1, <1>2, <1>4, <1>7, <1>8, <2>1 DEF Window
<1>14. Window(C, {u}, Rest, B)
  <2>1. InWindow(x, 1)
    BY <1>4 DEF InWindow
  <2> QED BY <1>2, <1>4, <1>5, <2>1 DEF PortOk, Window
<1> QED BY <1>10, <1>11, <1>12, <1>13, <1>14 DEF PortOk

(* A TCB with an empty send queue sends and keeps a segment.               *)
Tracks(t, u) ==
  /\ u.una = t.nxt /\ t.una = t.nxt /\ u.rcv = t.rcv /\ u.conn = t.conn
  /\ u.q # NoSeg /\ u.q.ack = u.rcv
  /\ ~Opening(t) /\ ~Opening(u) /\ (Young(t) <=> Young(u))

(* Sending moves snd_nxt only, so the sequence spaces still agree.         *)
LEMMA TracksWindow ==
  ASSUME NEW t, NEW u, NEW Y, NEW Out, NEW In, Tracks(t, u),
         t.nxt \in Nat, \A a \in Out : EndOf(a) \in Nat, \A a \in In : a.ack \in Nat,
         \A y \in Y : y.una \in Nat /\ (y.q # NoSeg => y.q.ack \in Nat),
         Window({t}, Y, Out, In), Window(Y, {t}, In, Out)
  PROVE  Window({u}, Y, Out, In) /\ Window(Y, {u}, In, Out)
<1>1. \A n \in Nat : InWindow(t, n) => InWindow(u, n)
  BY DEF Tracks, InWindow
<1>2. Window({u}, Y, Out, In)
  BY <1>1 DEF Window, Tracks
<1>3. \A y \in Y : u.rcv = y.una \/ u.rcv = y.nxt => InWindow(y, u.q.ack)
  <2> SUFFICES ASSUME NEW y \in Y, u.rcv = y.una \/ u.rcv = y.nxt
               PROVE  InWindow(y, u.q.ack)
    OBVIOUS
  <2> QED BY DEF InWindow, Tracks
<1>4. Window(Y, {u}, In, Out)
  BY <1>3 DEF Window, Tracks
<1> QED BY <1>2, <1>4

(* The numbers in a port's sets.                                           *)
LEMMA PortNumbers ==
  ASSUME NEW C, NEW S, NEW F, NEW B, PortType(C, S, F, B)
  PROVE  /\ \A t \in C \cup S : /\ t.una \in Nat /\ t.nxt \in Nat /\ t.rcv \in Nat
                                /\ t.conn \in Nat
                                /\ t.q # NoSeg => t.q \in Segment /\ t.q.ack \in Nat
         /\ \A a \in F \cup B : EndOf(a) \in Nat /\ a.ack \in Nat /\ a.conn \in Nat
<1>1. \A a \in Segment : EndOf(a) \in Nat /\ a.ack \in Nat /\ a.conn \in Nat
  BY SegmentFields, SeqEndType
<1>2. \A t \in Tcb : /\ t.una \in Nat /\ t.nxt \in Nat /\ t.rcv \in Nat /\ t.conn \in Nat
                     /\ t.q # NoSeg => t.q \in Segment
  BY TcbFields
<1> QED BY <1>1, <1>2 DEF PortType

(* The client's TCB sends and keeps a segment.                             *)
LEMMA ClientTracks ==
  ASSUME NEW t, NEW S, NEW F, NEW B, PortType({t}, S, F, B), PortOk({t}, S, F, B),
         NEW u \in Tcb, TcbOk(u), Tracks(t, u)
  PROVE  PortOk({u}, S, F, B)
<1>1. Window({u}, S, F, B) /\ Window(S, {u}, B, F)
  BY PortNumbers, TracksWindow DEF PortOk
<1>2. u.conn = t.conn /\ (Young(t) <=> Young(u))
      /\ t.state \notin {"SYN_SENT", "SYN_RECEIVED"}
      /\ u.state \notin {"SYN_SENT", "SYN_RECEIVED"}
  BY DEF Tracks, Opening
<1>3. Sorts({u}, S, F, B)
  BY <1>2 DEF PortOk, Sorts
<1>4. Ages({u}, S, F, B)
  BY <1>2 DEF PortOk, Ages
<1>5. \A c : HasYoung({t}, c) => HasYoung({u}, c)
  BY <1>2 DEF HasYoung
<1>6. Handshake({u}, S, F, B)
  BY <1>2, <1>5 DEF PortOk, Handshake
<1> QED BY <1>1, <1>3, <1>4, <1>6 DEF PortOk

(* The server's TCB sends and keeps a segment.                             *)
LEMMA ServerTracks ==
  ASSUME NEW t, NEW C, NEW F, NEW B, PortType(C, {t}, F, B), PortOk(C, {t}, F, B),
         NEW u \in Tcb, TcbOk(u), Tracks(t, u)
  PROVE  PortOk(C, {u}, F, B)
<1>1. Window({u}, C, B, F) /\ Window(C, {u}, F, B)
  BY PortNumbers, TracksWindow DEF PortOk
<1>2. u.conn = t.conn
      /\ t.state \notin {"SYN_SENT", "SYN_RECEIVED"}
      /\ u.state \notin {"SYN_SENT", "SYN_RECEIVED"}
  BY DEF Tracks, Opening
<1>3. Sorts(C, {u}, F, B)
  BY <1>2 DEF PortOk, Sorts
<1>4. Ages(C, {u}, F, B)
  BY <1>2 DEF PortOk, Ages
<1>5. Handshake(C, {u}, F, B)
  BY <1>2 DEF PortOk, Handshake
<1> QED BY <1>1, <1>3, <1>4, <1>5 DEF PortOk

(* A TCB sends a segment that its peer, if it has one, can place.          *)
Emits(u, a, Y) ==
  /\ a \in Segment /\ SegOk(a) /\ a.conn = u.conn
  /\ EndOf(a) = u.nxt /\ a.ack <= u.rcv
  /\ IsSyn(a) <=> Opening(u)
  /\ \A y \in Y : y.conn = u.conn => InWindow(y, a.ack)

(* The sequence spaces agree with the segment in flight too.               *)
LEMMA EmitsWindow ==
  ASSUME NEW u, NEW a, NEW Y, NEW Out, NEW In, Emits(u, a, Y),
         Window({u}, Y, Out, In), Window(Y, {u}, In, Out)
  PROVE  Window({u}, Y, Out \cup {a}, In) /\ Window(Y, {u}, In, Out \cup {a})
<1>1. InWindow(u, EndOf(a))
  BY DEF Emits, InWindow
<1>2. Window({u}, Y, Out \cup {a}, In)
  BY <1>1 DEF Window, Emits
<1>3. Window(Y, {u}, In, Out \cup {a})
  BY DEF Window, Emits
<1> QED BY <1>2, <1>3

(* The client's segment goes into flight.                                  *)
LEMMA ClientEmits ==
  ASSUME NEW u, NEW S, NEW F, NEW B, PortType({u}, S, F, B), PortOk({u}, S, F, B),
         NEW a, Emits(u, a, S), a.flags # {"SYN", "ACK"}
  PROVE  PortOk({u}, S, F \cup {a}, B)
<1>1. Window({u}, S, F \cup {a}, B) /\ Window(S, {u}, B, F \cup {a})
  BY EmitsWindow DEF PortOk
<1>2. a.conn = u.conn /\ u.conn \in Nat /\ SegOk(a) /\ (IsSyn(a) <=> u.state = "SYN_SENT")
  BY TcbFields DEF Emits, Opening, PortOk, Sorts, PortType
<1>3. Sorts({u}, S, F \cup {a}, B)
  BY <1>2 DEF PortOk, Sorts
<1>4. Ages({u}, S, F \cup {a}, B)
  BY <1>2 DEF PortOk, Ages
<1>5. IsSyn(a) =>
       /\ HasYoung({u}, a.conn)
       /\ \A y \in S : y.conn = a.conn => y.state = "SYN_RECEIVED"
       /\ \A b \in B : b.conn = a.conn => IsSyn(b)
  BY <1>2 DEF PortOk, Handshake, HasYoung, Young
<1>6. Handshake({u}, S, F \cup {a}, B)
  BY <1>2, <1>5 DEF PortOk, Handshake
<1> QED BY <1>1, <1>3, <1>4, <1>6 DEF PortOk

(* The server's segment goes into flight.                                  *)
LEMMA ServerEmits ==
  ASSUME NEW u, NEW C, NEW F, NEW B, PortType(C, {u}, F, B), PortOk(C, {u}, F, B),
         NEW a, Emits(u, a, C), a.flags # {"SYN"}
  PROVE  PortOk(C, {u}, F, B \cup {a})
<1>1. Window({u}, C, B \cup {a}, F) /\ Window(C, {u}, F, B \cup {a})
  BY EmitsWindow DEF PortOk
<1>2. a.conn = u.conn /\ u.conn \in Nat /\ SegOk(a) /\ (IsSyn(a) <=> u.state = "SYN_RECEIVED")
  BY TcbFields DEF Emits, Opening, PortOk, Sorts, PortType
<1>3. Sorts(C, {u}, F, B \cup {a})
  BY <1>2 DEF PortOk, Sorts
<1>4. Ages(C, {u}, F, B \cup {a})
  BY <1>2 DEF PortOk, Ages
<1>5. Handshake(C, {u}, F, B \cup {a})
  BY <1>2 DEF PortOk, Handshake
<1> QED BY <1>1, <1>3, <1>4, <1>5 DEF PortOk

(* An ACK without data can always be placed.                               *)
LEMMA AckEmits ==
  ASSUME NEW u \in Tcb, NEW Y \in SUBSET Tcb, Connected(u), InUse(u), ~Opening(u),
         u.nxt <= MaxBytes + 2,
         NEW Out, NEW In, Window(Y, {u}, In, Out)
  PROVE  LET a == Seg(u, {"ACK"}, 0) IN Emits(u, a, Y) /\ a.flags = {"ACK"} /\ a.port = u.port
<1> DEFINE a == Seg(u, {"ACK"}, 0)
<1>1. 0 \in 0 .. MaxBytes
  BY BoundsAssumption
<1>2. a \in Segment
  BY <1>1, SegType
<1>3. /\ a.port = u.port /\ a.conn = u.conn /\ a.seq = u.nxt /\ a.ack = u.rcv
      /\ a.flags = {"ACK"} /\ a.len = 0
  BY DEF Seg
<1> HIDE DEF a
<1>4. u.nxt \in Nat /\ u.rcv \in Nat /\ \A y \in Y : y.una \in Nat
  BY TcbFields
<1>5. ~Control(a) /\ ~IsSyn(a)
  BY <1>3 DEF Control, IsSyn
<1>6. EndOf(a) = u.nxt
  BY <1>3, <1>4, <1>5 DEF EndOf
<1>7. SegOk(a)
  BY <1>3, <1>6 DEF SegOk
<1>8. \A y \in Y : y.conn = u.conn => InWindow(y, a.ack)
  <2> SUFFICES ASSUME NEW y \in Y, y.conn = u.conn PROVE InWindow(y, u.rcv)
    BY <1>3
  <2>1. u.rcv = y.una \/ u.rcv = y.nxt
    BY DEF Window
  <2> QED BY <1>4, <2>1 DEF InWindow
<1>9. Emits(u, a, Y)
  BY <1>2, <1>3, <1>4, <1>5, <1>6, <1>7, <1>8 DEF Emits
<1> QED BY <1>3, <1>9 DEF a

(* The same from the point of view of host h, with its TCBs X and its      *)
(* peer's Y for the port, and the segments that go Out from it and come In.*)
HostPort(h, X, Y, Out, In) ==
  IF h = "client" THEN PortOk(X, Y, Out, In) ELSE PortOk(Y, X, In, Out)

(* The types of a port's sets do not depend on the host they are seen      *)
(* from.                                                                   *)
LEMMA PortTypeSwaps ==
  ASSUME NEW C, NEW S, NEW F, NEW B, PortType(C, S, F, B)
  PROVE  PortType(S, C, B, F)
BY DEF PortType

(* What is in flight may be lost.                                          *)
LEMMA HostShrinks ==
  ASSUME NEW h, NEW X, NEW Y, NEW Out, NEW In, NEW Out1 \in SUBSET Out,
         NEW In1 \in SUBSET In, HostPort(h, X, Y, Out, In)
  PROVE  HostPort(h, X, Y, Out1, In1)
BY PortShrinks DEF HostPort

(* What both points of view have in common.                                *)
LEMMA HostFacts ==
  ASSUME NEW h, NEW X, NEW Y, NEW Out, NEW In, HostPort(h, X, Y, Out, In)
  PROVE  /\ \A t \in X \cup Y : TcbOk(t)
         /\ Window(X, Y, Out, In) /\ Window(Y, X, In, Out)
BY DEF HostPort, PortOk, Sorts

(* What a segment and the TCB that takes it know of each other.            *)
LEMMA HostFits ==
  ASSUME NEW h, NEW t, NEW Y, NEW Out, NEW In, PortType({t}, Y, Out, In),
         HostPort(h, {t}, Y, Out, In), NEW b \in In
  PROVE  Fits(t, b)
<1>1. CASE h = "client"
  BY <1>1, ClientFits DEF HostPort
<1>2. CASE h # "client"
  BY <1>2, PortTypeSwaps, ServerFits DEF HostPort
<1> QED BY <1>1, <1>2

(* A TCB advances by a segment.                                            *)
LEMMA HostAdvances ==
  ASSUME NEW h, NEW t, NEW Y, NEW Out, NEW In, PortType({t}, Y, Out, In),
         HostPort(h, {t}, Y, Out, In), NEW b \in In, NEW Rest \in SUBSET In,
         \A a \in Rest : b.conn <= a.conn /\ (b.conn = a.conn /\ IsSyn(a) => IsSyn(b)),
         NEW u \in Tcb, Advances(t, b, u)
  PROVE  HostPort(h, {u}, Y, Out, Rest)
<1>1. CASE h = "client"
  BY <1>1, ClientAdvances DEF HostPort
<1>2. CASE h # "client"
  <2>1. PortType(Y, {t}, In, Out)
    BY PortTypeSwaps
  <2> QED BY <1>2, <2>1, ServerAdvances DEF HostPort
<1> QED BY <1>1, <1>2

(* A TCB is released.                                                      *)
LEMMA HostReleases ==
  ASSUME NEW h, NEW t, NEW Y, NEW Out, NEW In, HostPort(h, {t}, Y, Out, In),
         t.state \in {"LAST_ACK", "TIME_WAIT"}
  PROVE  HostPort(h, {}, Y, Out, In)
<1>1. CASE h = "client"
  BY <1>1, ClientReleases DEF HostPort
<1>2. CASE h # "client"
  BY <1>2, ServerReleases DEF HostPort
<1> QED BY <1>1, <1>2

(* A TCB sends and keeps a segment.                                        *)
LEMMA HostTracks ==
  ASSUME NEW h, NEW t, NEW Y, NEW Out, NEW In, PortType({t}, Y, Out, In),
         HostPort(h, {t}, Y, Out, In), NEW u \in Tcb, TcbOk(u), Tracks(t, u)
  PROVE  HostPort(h, {u}, Y, Out, In)
<1>1. CASE h = "client"
  BY <1>1, ClientTracks DEF HostPort
<1>2. CASE h # "client"
  <2>1. PortType(Y, {t}, In, Out)
    BY PortTypeSwaps
  <2> QED BY <1>2, <2>1, ServerTracks DEF HostPort
<1> QED BY <1>1, <1>2

(* A segment goes into flight.                                             *)
LEMMA HostEmits ==
  ASSUME NEW h, NEW u, NEW Y, NEW Out, NEW In, PortType({u}, Y, Out, In),
         HostPort(h, {u}, Y, Out, In), NEW a, Emits(u, a, Y),
         h = "client" => a.flags # {"SYN", "ACK"}, h # "client" => a.flags # {"SYN"}
  PROVE  HostPort(h, {u}, Y, Out \cup {a}, In)
<1>1. CASE h = "client"
  BY <1>1, ClientEmits DEF HostPort
<1>2. CASE h # "client"
  <2>1. PortType(Y, {u}, In, Out)
    BY PortTypeSwaps
  <2> QED BY <1>2, <2>1, ServerEmits DEF HostPort
<1> QED BY <1>1, <1>2

(* A segment moves the TCB it matches, and may be answered.                *)
LEMMA HostReceives ==
  ASSUME NoWrap, NEW h, NEW t, NEW Y, NEW Out, NEW In, PortType({t}, Y, Out, In),
         HostPort(h, {t}, Y, Out, In), NEW b \in In, NEW Rest \in SUBSET In,
         \A a \in Rest : b.conn <= a.conn /\ (b.conn = a.conn /\ IsSyn(a) => IsSyn(b)),
         NEW u \in Tcb, InUse(u), NEW up, MovedBy(t, b, u, up), t.nxt <= MaxBytes + 2,
         NEW A, \/ A = {}
                \/ Connected(u) /\ ~Opening(u) /\ A = {Seg(u, {"ACK"}, 0)}
  PROVE  HostPort(h, {x \in {u} : Connected(x)}, Y, Out \cup A, Rest)
<1>1. t \in Tcb /\ b \in Segment /\ Fits(t, b) /\ Y \in SUBSET Tcb
      /\ Connected(t) /\ TcbOk(t)
  BY HostFits DEF PortType, Fits
<1>2. Advances(t, b, u) \/ (u = FreeTcb /\ t.state = "LAST_ACK")
  BY <1>1, MovedAdvances
<1>3. CASE Advances(t, b, u)
  <2>1. HostPort(h, {u}, Y, Out, Rest)
    BY <1>3, HostAdvances
  <2>2. Connected(u) /\ u.nxt = t.nxt
    BY <1>1, <1>3, AdvancesOk DEF Advances
  <2>3. {x \in {u} : Connected(x)} = {u}
    BY <2>2
  <2>4. PortType({u}, Y, Out, Rest)
    BY <2>2 DEF PortType
  <2>5. CASE A = {}
    <3>1. Out \cup A = Out
      BY <2>5
    <3> QED BY <2>1, <2>3, <3>1
  <2>6. CASE ~Opening(u) /\ A = {Seg(u, {"ACK"}, 0)}
    <3> DEFINE a == Seg(u, {"ACK"}, 0)
    <3>0. Window(Y, {u}, Rest, Out) /\ u.nxt <= MaxBytes + 2
      BY <2>1, <2>2, HostFacts
    <3>1. Emits(u, a, Y) /\ a.flags = {"ACK"}
      BY <1>1, <2>2, <2>6, <3>0, AckEmits
    <3> HIDE DEF a
    <3>3. a.flags # {"SYN", "ACK"} /\ a.flags # {"SYN"}
      BY <3>1
    <3>2. HostPort(h, {u}, Y, Out \cup {a}, Rest)
      BY <2>1, <2>4, <3>1, <3>3, HostEmits
    <3> QED BY <2>3, <2>6, <3>2 DEF a
  <2> QED BY <2>5, <2>6
<1>4. CASE u = FreeTcb /\ t.state = "LAST_ACK"
  <2>1. ~Connected(u)
    BY <1>4, FreeTcbType DEF Connected
  <2>2. {x \in {u} : Connected(x)} = {} /\ Out \cup A = Out
    BY <2>1
  <2>3. HostPort(h, {}, Y, Out, In)
    BY <1>4, HostReleases
  <2>4. HostPort(h, {}, Y, Out, Rest)
    BY <2>3, HostShrinks
  <2> QED BY <2>2, <2>4
<1> QED BY <1>2, <1>3, <1>4

(* tcp_send and tcp_close: the TCB t becomes u and sends a.                *)
TrackedBy(t, u, a) ==
  /\ t.q = NoSeg /\ a \in Segment /\ a.seq = t.nxt /\ a.ack = t.rcv
  /\ a.port = t.port /\ a.conn = t.conn
  /\ u \in Tcb /\ u.una = t.una /\ u.rcv = t.rcv /\ u.q = a /\ u.nxt = SeqEnd(a)
  /\ u.port = t.port /\ u.conn = t.conn
  /\ \/ /\ a.flags = {"ACK"} /\ a.len > 0
        /\ t.state = "ESTABLISHED" /\ u.state = "ESTABLISHED"
     \/ /\ a.flags = {"FIN", "ACK"} /\ a.len = 0
        /\ \/ t.state = "ESTABLISHED" /\ u.state = "FIN_WAIT_1"
           \/ t.state = "CLOSE_WAIT" /\ u.state = "LAST_ACK"

(* The TCB that has sent and kept a segment is sound.                      *)
LEMMA TrackedOk ==
  ASSUME NoWrap, NEW t \in Tcb, TcbOk(t), NEW u, NEW a, TrackedBy(t, u, a),
         EndOf(a) <= MaxBytes + 2
  PROVE  /\ TcbOk(u) /\ Tracks(t, u) /\ SegOk(a) /\ EndOf(a) = u.nxt
         /\ Connected(u) /\ ~IsSyn(a) /\ ~Opening(u)
         /\ t.rcv \in Nat /\ u.rcv = t.rcv
<1>1. /\ t.una \in Nat /\ t.nxt \in Nat /\ t.rcv \in Nat
  BY TcbFields
<1>2. t.una = t.nxt /\ t.state \in {"ESTABLISHED", "CLOSE_WAIT"}
  BY DEF TcbOk, QueueOk, TrackedBy
<1>3. t.una >= 1 /\ t.rcv >= 1
  BY <1>2 DEF TcbOk, Opening
<1>4. /\ a \in Segment /\ a # NoSeg /\ a.len \in Nat /\ EndOf(a) \in Nat
  BY SegmentFields, SeqEndType DEF TrackedBy
<1>5. Control(a) <=> a.flags = {"FIN", "ACK"}
  BY DEF TrackedBy, Control
<1>6. EndOf(a) > t.nxt
  BY <1>1, <1>4, <1>5 DEF EndOf, TrackedBy
<1>7. SegOk(a) /\ ~IsSyn(a)
  BY <1>4 DEF SegOk, IsSyn, TrackedBy
<1>8. EndOf(a) = u.nxt
  <2>1. EndOf(a) < SeqMod
    BY <1>4, SeqAssumption, BoundsAssumption DEF NoWrap
  <2> QED BY <1>4, <2>1, SeqEndType DEF TrackedBy
<1>9. /\ Connected(u) /\ ~Opening(u) /\ ~Opening(t)
      /\ "FIN" \in a.flags <=> FinQueued(u)
      /\ FinSent(u) => FinQueued(u)
      /\ Young(t) <=> Young(u)
  BY DEF TrackedBy, Connected, Opening, FinQueued, FinSent, Young
<1>10. QueueOk(u)
  <2>1. u.q = a /\ u.q # NoSeg
    BY <1>4 DEF TrackedBy
  <2>2. u.q.port = u.port /\ u.q.conn = u.conn /\ SegOk(u.q) /\ u.q.seq = u.una
        /\ EndOf(u.q) = u.nxt /\ u.una < u.nxt
    BY <1>1, <1>2, <1>4, <1>6, <1>7, <1>8, <2>1 DEF TrackedBy
  <2>3. u.q.ack <= u.rcv
    BY <1>1, <2>1 DEF TrackedBy
  <2>4. (IsSyn(u.q) <=> Opening(u)) /\ ("FIN" \in u.q.flags <=> FinQueued(u))
    BY <1>7, <1>9, <2>1
  <2> QED BY <2>1, <2>2, <2>3, <2>4 DEF QueueOk
<1>11. TcbOk(u)
  <2>1. u.una >= 1 /\ u.rcv >= 1 /\ u.q # NoSeg
    BY <1>3, <1>4 DEF TrackedBy
  <2>2. u.state \notin {"SYN_SENT", "SYN_RECEIVED"}
    BY <1>9 DEF Opening
  <2> QED BY <1>9, <1>10, <2>1, <2>2 DEF TcbOk
<1>12. Tracks(t, u)
  BY <1>2, <1>4, <1>9 DEF Tracks, TrackedBy
<1> QED BY <1>1, <1>7, <1>8, <1>9, <1>11, <1>12 DEF TrackedBy

(* The port after tcp_send or tcp_close.                                   *)
LEMMA HostSends ==
  ASSUME NoWrap, NEW h, NEW t, NEW Y, NEW Out, NEW In, PortType({t}, Y, Out, In),
         HostPort(h, {t}, Y, Out, In), NEW u, NEW a, TrackedBy(t, u, a),
         EndOf(a) <= MaxBytes + 2
  PROVE  HostPort(h, {u}, Y, Out \cup {a}, In)
<1>1. t \in Tcb /\ TcbOk(t) /\ u \in Tcb /\ Y \in SUBSET Tcb
  BY HostFacts DEF PortType, TrackedBy
<1>2. /\ TcbOk(u) /\ Tracks(t, u) /\ SegOk(a) /\ EndOf(a) = u.nxt
      /\ Connected(u) /\ ~IsSyn(a) /\ ~Opening(u)
      /\ t.rcv \in Nat /\ u.rcv = t.rcv
  BY <1>1, TrackedOk
<1>3. HostPort(h, {u}, Y, Out, In)
  BY <1>1, <1>2, HostTracks
<1>4. PortType({u}, Y, Out, In)
  BY <1>1, <1>2 DEF PortType
<1>5. a \in Segment /\ a.conn = u.conn /\ a.ack = u.rcv /\ a.ack <= u.rcv
  BY <1>2 DEF TrackedBy
<1>6. \A y \in Y : y.conn = u.conn => InWindow(y, a.ack)
  <2> SUFFICES ASSUME NEW y \in Y, y.conn = u.conn PROVE InWindow(y, u.rcv)
    BY <1>5
  <2>1. Window(Y, {u}, In, Out)
    BY <1>3, HostFacts
  <2>2. u.rcv = y.una \/ u.rcv = y.nxt
    BY <2>1 DEF Window
  <2>3. y.una \in Nat
    BY <1>1, TcbFields
  <2> QED BY <2>2, <2>3 DEF InWindow
<1>7. Emits(u, a, Y)
  BY <1>2, <1>5, <1>6 DEF Emits
<1>8. a.flags # {"SYN", "ACK"} /\ a.flags # {"SYN"}
  BY <1>2 DEF IsSyn
<1> QED BY <1>3, <1>4, <1>7, <1>8, HostEmits

(* tcp_retransmit_handler sends the clone again.                           *)
LEMMA HostRepeats ==
  ASSUME NEW h, NEW t, NEW Y, NEW Out, NEW In, PortType({t}, Y, Out, In),
         HostPort(h, {t}, Y, Out, In), t.q # NoSeg
  PROVE  HostPort(h, {t}, Y, Out \cup {t.q}, In)
<1> DEFINE a == t.q
<1>1. t \in Tcb /\ TcbOk(t) /\ Window(Y, {t}, In, Out)
  BY HostFacts DEF PortType
<1>2. a \in Segment
  BY <1>1, TcbFields
<1>3. /\ a.conn = t.conn /\ SegOk(a) /\ EndOf(a) = t.nxt /\ a.ack <= t.rcv
      /\ IsSyn(a) <=> Opening(t)
  BY <1>1 DEF TcbOk, QueueOk
<1>4. \A y \in Y : y.conn = t.conn => InWindow(y, a.ack)
  BY <1>1 DEF Window
<1>5. Emits(t, a, Y)
  BY <1>2, <1>3, <1>4 DEF Emits
<1>6. IsSyn(a) => IF h = "client" THEN a.flags = {"SYN"} ELSE a.flags = {"SYN", "ACK"}
  BY <1>1, <1>3 DEF HostPort, PortOk, Sorts, Opening, TcbOk
<1>7. /\ h = "client" => a.flags # {"SYN", "ACK"}
      /\ h # "client" => a.flags # {"SYN"}
  <2>1. "SYN" \in a.flags <=> IsSyn(a)
    BY DEF IsSyn
  <2> QED BY <1>6, <2>1
<1> HIDE DEF a
<1>8. HostPort(h, {t}, Y, Out \cup {a}, In)
  BY <1>5, <1>7, HostEmits
<1> QED BY <1>8 DEF a

(* The TCB that is new and the segment it sends.                           *)
LEMMA FreshOk ==
  ASSUME NoWrap, NEW u, NEW a, NEW port, NEW conn, NEW state, NEW rcv, NEW flags,
         Fresh(u, a, state, port, rcv, conn, flags),
         \/ state = "SYN_SENT" /\ rcv = 0 /\ flags = {"SYN"}
         \/ state = "SYN_RECEIVED" /\ rcv = 1 /\ flags = {"SYN", "ACK"}
  PROVE  /\ TcbOk(u) /\ u \in Tcb /\ Opening(u) /\ u.una = 0 /\ u.nxt = 1 /\ u.rcv = rcv
         /\ a \in Segment /\ SegOk(a) /\ IsSyn(a) /\ EndOf(a) = 1 /\ a.ack = rcv
         /\ a.conn = conn /\ u.conn = conn /\ Connected(u) /\ u.state = state
<1>1. /\ a \in Segment /\ a.seq = 0 /\ a.ack = rcv /\ a.flags = flags
      /\ a.port = port /\ a.conn = conn /\ a.len = 0
      /\ u \in Tcb /\ u.state = state /\ u.port = port /\ u.conn = conn
      /\ u.una = 0 /\ u.rcv = rcv /\ u.q = a /\ u.nxt = SeqEnd(a)
      /\ Connected(u)
  BY DEF Fresh
<1>2. Control(a) /\ IsSyn(a) /\ "FIN" \notin a.flags /\ a # NoSeg
  BY <1>1, SegmentFields DEF Control, IsSyn
<1>3. EndOf(a) = 1
  BY <1>1, <1>2 DEF EndOf
<1>4. SegOk(a)
  BY <1>1, <1>3, BoundsAssumption DEF SegOk
<1>5. u.nxt = 1
  BY <1>1, <1>3, SeqEndType, SeqAssumption
<1>6. Opening(u) /\ ~FinQueued(u) /\ ~FinSent(u)
  BY <1>1 DEF Opening, FinQueued, FinSent
<1>7. QueueOk(u)
  BY <1>1, <1>2, <1>3, <1>4, <1>5, <1>6 DEF QueueOk
<1>8. TcbOk(u)
  BY <1>1, <1>2, <1>5, <1>6, <1>7 DEF TcbOk
<1> QED BY <1>1, <1>2, <1>3, <1>4, <1>5, <1>6, <1>8

(* The port after tcp_connect.                                             *)
LEMMA ClientConnects ==
  ASSUME NoWrap, NEW S, NEW F, NEW B, PortType({}, S, F, B), PortOk({}, S, F, B),
         NEW u, NEW a, NEW port, NEW conn,
         Fresh(u, a, "SYN_SENT", port, 0, conn, {"SYN"}),
         \A o \in S \cup F \cup B : o.conn < conn
  PROVE  PortOk({u}, S, F \cup {a}, B)
<1>1. /\ TcbOk(u) /\ u \in Tcb /\ Opening(u) /\ u.una = 0 /\ u.nxt = 1 /\ u.rcv = 0
      /\ a \in Segment /\ SegOk(a) /\ IsSyn(a) /\ EndOf(a) = 1 /\ a.ack = 0
      /\ a.conn = conn /\ u.conn = conn /\ Connected(u) /\ u.state = "SYN_SENT"
  BY FreshOk
<1>2. PortOk({u}, S, F, B)
  BY <1>1, ClientOpens
<1>3. PortType({u}, S, F, B)
  BY <1>1 DEF PortType
<1>4. \A y \in S : y.conn # u.conn
  BY <1>1, PortNumbers
<1>5. Emits(u, a, S)
  BY <1>1, <1>4 DEF Emits
<1>6. a.flags # {"SYN", "ACK"}
  BY DEF Fresh
<1> QED BY <1>2, <1>3, <1>5, <1>6, ClientEmits

(* The port after a SYN has opened a TCB.                                  *)
LEMMA ServerAccepts ==
  ASSUME NoWrap, NEW C, NEW F, NEW B, PortType(C, {}, F, B), PortOk(C, {}, F, B),
         NEW b \in F, b.flags = {"SYN"}, NEW Rest \in SUBSET F,
         \A a \in Rest : b.conn <= a.conn,
         NEW u, NEW a, NEW port,
         Fresh(u, a, "SYN_RECEIVED", port, Plus(b.seq, 1), b.conn, {"SYN", "ACK"})
  PROVE  PortOk(C, {u}, Rest, B \cup {a})
<1>0. IsSyn(b) /\ b.seq = 0 /\ Plus(b.seq, 1) = 1
  <2>1. IsSyn(b) /\ b.seq = 0
    BY DEF PortOk, Sorts, SegOk, IsSyn
  <2> QED BY <2>1, PlusType, SeqAssumption
<1>1. /\ TcbOk(u) /\ u \in Tcb /\ Opening(u) /\ u.una = 0 /\ u.nxt = 1 /\ u.rcv = 1
      /\ a \in Segment /\ SegOk(a) /\ IsSyn(a) /\ EndOf(a) = 1 /\ a.ack = 1
      /\ a.conn = b.conn /\ u.conn = b.conn /\ Connected(u) /\ u.state = "SYN_RECEIVED"
  BY <1>0, FreshOk
<1>2. PortOk(C, {u}, Rest, B)
  BY <1>0, <1>1, ServerOpens
<1>3. PortType(C, {u}, Rest, B)
  BY <1>1 DEF PortType
<1>4. \A x \in C : x.conn = u.conn => InWindow(x, a.ack)
  <2> SUFFICES ASSUME NEW x \in C, x.conn = u.conn PROVE InWindow(x, 1)
    BY <1>1
  <2>1. 1 = x.una \/ 1 = x.nxt
    BY <1>1, <1>2 DEF PortOk, Window
  <2>2. x.una \in Nat
    BY <1>3, PortNumbers
  <2> QED BY <2>1, <2>2 DEF InWindow
<1>5. Emits(u, a, C)
  BY <1>1, <1>4 DEF Emits
<1>6. a.flags # {"SYN"}
  BY DEF Fresh
<1> QED BY <1>2, <1>3, <1>5, <1>6, ServerEmits

(* A TCB sends in order: what it sent before is not newer, and no SYN      *)
(* follows anything but a SYN.                                             *)
LEMMA HostOrder ==
  ASSUME NEW h, NEW u, NEW Y, NEW Out, NEW In, HostPort(h, {u}, Y, Out, In),
         NEW a, a.conn = u.conn, IsSyn(a) <=> Opening(u)
  PROVE  \A b \in Out : b.conn <= a.conn /\ (b.conn = a.conn /\ IsSyn(a) => IsSyn(b))
<1>1. CASE h = "client"
  <2>1. PortOk({u}, Y, Out, In)
    BY <1>1 DEF HostPort
  <2>2. IsSyn(a) => u.state = "SYN_SENT"
    BY <2>1 DEF PortOk, Sorts, Opening
  <2> QED BY <2>1, <2>2 DEF PortOk, Ages, Handshake
<1>2. CASE h # "client"
  <2>1. PortOk(Y, {u}, In, Out)
    BY <1>2 DEF HostPort
  <2>2. IsSyn(a) => u.state = "SYN_RECEIVED"
    BY <2>1 DEF PortOk, Sorts, Opening
  <2> QED BY <2>1, <2>2 DEF PortOk, Ages, Handshake
<1> QED BY <1>1, <1>2

-----------------------------------------------------------------------------
(* Segments in flight.                                                     *)

(* What is in flight when the oldest segment is gone.                      *)
LEMMA FlightTail ==
  ASSUME NEW q \in Seq(Segment), q # <<>>
  PROVE  /\ Flight(Tail(q)) \subseteq Flight(q) /\ Head(q) \in Flight(q)
         /\ Ordered(q) => /\ Ordered(Tail(q))
                          /\ \A a \in Flight(Tail(q)) : Before(Head(q), a)
<1>1. /\ Len(q) \in Nat /\ Len(q) >= 1 /\ Len(Tail(q)) = Len(q) - 1
      /\ \A k \in 1 .. Len(q) - 1 : Tail(q)[k] = q[k + 1]
      /\ Head(q) = q[1]
  OBVIOUS
<1>2. \A k \in 1 .. Len(q) - 1 : k + 1 \in 1 .. Len(q) /\ 1 < k + 1
  BY <1>1
<1>3. Flight(Tail(q)) \subseteq Flight(q) /\ Head(q) \in Flight(q)
  BY <1>1, <1>2 DEF Flight
<1>4. ASSUME Ordered(q)
      PROVE  Ordered(Tail(q)) /\ \A a \in Flight(Tail(q)) : Before(Head(q), a)
  <2>1. ASSUME NEW k \in 1 .. Len(q) - 1, NEW l \in 1 .. Len(q) - 1, k < l
        PROVE  Before(Tail(q)[k], Tail(q)[l])
    <3>1. k + 1 \in 1 .. Len(q) /\ l + 1 \in 1 .. Len(q) /\ k + 1 < l + 1
      BY <1>1, <2>1
    <3> QED BY <1>1, <1>4, <3>1 DEF Ordered
  <2>2. Ordered(Tail(q))
    BY <1>1, <2>1 DEF Ordered
  <2>3. ASSUME NEW k \in 1 .. Len(q) - 1
        PROVE  Before(Head(q), Tail(q)[k])
    <3>1. 1 \in 1 .. Len(q)
      BY <1>1
    <3> QED BY <1>1, <1>2, <1>4, <3>1 DEF Ordered
  <2> QED BY <1>1, <2>2, <2>3 DEF Flight
<1> QED BY <1>3, <1>4

(* What is in flight when a segment is sent.                               *)
LEMMA FlightAppend ==
  ASSUME NEW q \in Seq(Segment), NEW a \in Segment
  PROVE  /\ Flight(Append(q, a)) = Flight(q) \cup {a}
         /\ q \o <<a>> = Append(q, a) /\ q \o <<>> = q
         /\ Ordered(q) /\ (\A b \in Flight(q) : Before(b, a)) => Ordered(Append(q, a))
<1>1. /\ Len(q) \in Nat /\ Len(Append(q, a)) = Len(q) + 1
      /\ \A k \in 1 .. Len(q) : Append(q, a)[k] = q[k]
      /\ Append(q, a)[Len(q) + 1] = a
  OBVIOUS
<1>2. \A k \in 1 .. Len(q) + 1 : k \in 1 .. Len(q) \/ k = Len(q) + 1
  BY <1>1
<1>3. \A k \in 1 .. Len(q) : k \in 1 .. Len(q) + 1
  BY <1>1
<1>4. Len(q) + 1 \in 1 .. Len(q) + 1
  BY <1>1
<1>5. Flight(Append(q, a)) \subseteq Flight(q) \cup {a}
  BY <1>1, <1>2 DEF Flight
<1>6. Flight(q) \cup {a} \subseteq Flight(Append(q, a))
  BY <1>1, <1>3, <1>4 DEF Flight
<1>7. q \o <<a>> = Append(q, a) /\ q \o <<>> = q
  OBVIOUS
<1>8. ASSUME Ordered(q), \A b \in Flight(q) : Before(b, a)
      PROVE  Ordered(Append(q, a))
  <2> SUFFICES ASSUME NEW k \in 1 .. Len(q) + 1, NEW l \in 1 .. Len(q) + 1, k < l
               PROVE  Before(Append(q, a)[k], Append(q, a)[l])
    BY <1>1 DEF Ordered
  <2>1. k \in 1 .. Len(q)
    BY <1>1, <1>2
  <2>2. CASE l \in 1 .. Len(q)
    BY <1>1, <1>8, <2>1, <2>2 DEF Ordered
  <2>3. CASE l = Len(q) + 1
    BY <1>1, <1>8, <2>1, <2>3 DEF Flight
  <2> QED BY <1>2, <2>2, <2>3
<1> QED BY <1>5, <1>6, <1>7, <1>8

(* Nothing or one segment is sent.                                         *)
LEMMA FlightOf ==
  /\ Flight(<<>>) = {}
  /\ \A a : Flight(<<a>>) = {a}
<1>1. Flight(<<>>) = {}
  BY DEF Flight
<1>2. ASSUME NEW a PROVE Flight(<<a>>) = {a}
  <2>1. Len(<<a>>) = 1 /\ <<a>>[1] = a
    OBVIOUS
  <2>2. \A k \in 1 .. Len(<<a>>) : k = 1
    BY <2>1
  <2>3. 1 \in 1 .. Len(<<a>>)
    BY <2>1
  <2> QED BY <2>1, <2>2, <2>3 DEF Flight
<1> QED BY <1>1, <1>2

-----------------------------------------------------------------------------
(* Every port and both queues, in every step.                              *)

Core ==
  /\ SlotInv
  /\ \A p \in Ports : PortInv(tcb, net, p)
  /\ \A h \in Hosts : Ordered(net[h])

(* The invariant of a port, seen from either host.                         *)
LEMMA PortInvIs ==
  ASSUME NEW h \in Hosts, NEW T, NEW N, NEW p
  PROVE  PortInv(T, N, p) <=>
           HostPort(h, TcbsOf(T, h, p), TcbsOf(T, Other(h), p),
                    SegsOf(N, Other(h), p), SegsOf(N, h, p))
BY DEF PortInv, HostPort, Hosts, Other

(* A port's segments are segments.                                         *)
LEMMA SegsType ==
  ASSUME SlotInv, NEW h \in Hosts, NEW p
  PROVE  SegsOf(net, h, p) \in SUBSET Segment
<1>1. net[h] \in Seq(Segment)
  BY DEF SlotInv, TypeOK
<1>2. \A k \in 1 .. Len(net[h]) : net[h][k] \in Segment
  BY <1>1
<1> QED BY <1>2 DEF SegsOf, Flight

(* A host has at most one TCB of a port.                                   *)
LEMMA TcbsType ==
  ASSUME SlotInv, NEW h \in Hosts, NEW p
  PROVE  /\ TcbsOf(tcb, h, p) \in SUBSET Tcb
         /\ \A x, y \in TcbsOf(tcb, h, p) : x = y
         /\ \A x \in TcbsOf(tcb, h, p) : Connected(x)
<1>1. \A i \in Slots : tcb[h][i] \in Tcb
  BY TcbAt
<1>2. \A i, j \in Slots : Connected(tcb[h][i]) /\ Connected(tcb[h][j])
                            /\ tcb[h][i].port = tcb[h][j].port => i = j
  BY DEF SlotInv, SlotsOwned, UniqueTuple
<1> QED BY <1>1, <1>2 DEF TcbsOf

(* The four sets of a port have their types.                               *)
LEMMA PortTypeAt ==
  ASSUME SlotInv, NEW h \in Hosts, NEW p
  PROVE  PortType(TcbsOf(tcb, h, p), TcbsOf(tcb, Other(h), p),
                  SegsOf(net, Other(h), p), SegsOf(net, h, p))
<1>1. Other(h) \in Hosts
  BY HostsIs
<1> QED BY <1>1, SegsType, TcbsType DEF PortType

(* Slot i of h gets u, and p is the only port that is concerned.           *)
Concerns(h, i, u, p) ==
  /\ u \in Tcb /\ tcb' = [tcb EXCEPT ![h][i] = u]
  /\ Connected(tcb[h][i]) => tcb[h][i].port = p
  /\ Connected(u) => u.port = p
  /\ \A j \in Slots : j # i /\ Connected(tcb[h][j]) => tcb[h][j].port # p

(* The sets of a port when a slot is written.                              *)
LEMMA SlotSets ==
  ASSUME SlotInv, NEW h \in Hosts, NEW i \in Slots, NEW u, NEW p, Concerns(h, i, u, p)
  PROVE  /\ TcbsOf(tcb, h, p) = {x \in {tcb[h][i]} : Connected(x)}
         /\ TcbsOf(tcb', h, p) = {x \in {u} : Connected(x)}
         /\ \A q : q # p => TcbsOf(tcb', h, q) = TcbsOf(tcb, h, q)
         /\ \A q : TcbsOf(tcb', Other(h), q) = TcbsOf(tcb, Other(h), q)
<1>0. /\ u \in Tcb /\ tcb' = [tcb EXCEPT ![h][i] = u]
      /\ Connected(tcb[h][i]) => tcb[h][i].port = p
      /\ Connected(u) => u.port = p
      /\ \A j \in Slots : j # i /\ Connected(tcb[h][j]) => tcb[h][j].port # p
  BY DEF Concerns
<1>1. /\ tcb' \in [Hosts -> [Slots -> Tcb]] /\ tcb'[h][i] = u
      /\ \A g \in Hosts, j \in Slots : ~(g = h /\ j = i) => tcb'[g][j] = tcb[g][j]
  <2>1. tcb \in [Hosts -> [Slots -> Tcb]]
    BY DEF SlotInv, TypeOK
  <2> QED BY <1>0, <2>1
<1>2. Other(h) \in Hosts /\ Other(h) # h
  BY HostsIs
<1>3. TcbsOf(tcb, h, p) = {x \in {tcb[h][i]} : Connected(x)}
  <2>1. TcbsOf(tcb, h, p) \subseteq {x \in {tcb[h][i]} : Connected(x)}
    BY <1>0 DEF TcbsOf
  <2>2. {x \in {tcb[h][i]} : Connected(x)} \subseteq TcbsOf(tcb, h, p)
    BY <1>0 DEF TcbsOf
  <2> QED BY <2>1, <2>2
<1>4. TcbsOf(tcb', h, p) = {x \in {u} : Connected(x)}
  <2>1. \A j \in Slots : j = i \/ tcb'[h][j] = tcb[h][j]
    BY <1>1
  <2>2. TcbsOf(tcb', h, p) \subseteq {x \in {u} : Connected(x)}
    BY <1>0, <1>1, <2>1 DEF TcbsOf
  <2>3. {x \in {u} : Connected(x)} \subseteq TcbsOf(tcb', h, p)
    BY <1>0, <1>1 DEF TcbsOf
  <2> QED BY <2>2, <2>3
<1>5. ASSUME NEW q, q # p PROVE TcbsOf(tcb', h, q) = TcbsOf(tcb, h, q)
  <2>1. \A j \in Slots : j = i \/ tcb'[h][j] = tcb[h][j]
    BY <1>1
  <2>2. TcbsOf(tcb', h, q) \subseteq TcbsOf(tcb, h, q)
    BY <1>0, <1>1, <1>5, <2>1 DEF TcbsOf
  <2>3. TcbsOf(tcb, h, q) \subseteq TcbsOf(tcb', h, q)
    BY <1>0, <1>1, <1>5, <2>1 DEF TcbsOf
  <2> QED BY <2>2, <2>3
<1>6. ASSUME NEW q PROVE TcbsOf(tcb', Other(h), q) = TcbsOf(tcb, Other(h), q)
  <2>1. \A j \in Slots : tcb'[Other(h)][j] = tcb[Other(h)][j]
    BY <1>1, <1>2
  <2> QED BY <2>1 DEF TcbsOf
<1> QED BY <1>3, <1>4, <1>5, <1>6

(* The ports that a step does not concern.                                 *)
LEMMA OtherPorts ==
  ASSUME Core, NEW h \in Hosts, NEW p,
         \A q : q # p => TcbsOf(tcb', h, q) = TcbsOf(tcb, h, q),
         \A q : TcbsOf(tcb', Other(h), q) = TcbsOf(tcb, Other(h), q),
         \A g \in Hosts : \A q : q # p => SegsOf(net', g, q) \subseteq SegsOf(net, g, q)
  PROVE  \A q \in Ports : q # p => PortInv(tcb', net', q)
<1> SUFFICES ASSUME NEW q \in Ports, q # p PROVE PortInv(tcb', net', q)
  OBVIOUS
<1> DEFINE X == TcbsOf(tcb, h, q)
           Y == TcbsOf(tcb, Other(h), q)
           Out == SegsOf(net, Other(h), q)
           In == SegsOf(net, h, q)
           Out1 == SegsOf(net', Other(h), q)
           In1 == SegsOf(net', h, q)
<1>1. HostPort(h, X, Y, Out, In)
  BY PortInvIs DEF Core
<1>2. Out1 \in SUBSET Out /\ In1 \in SUBSET In
  BY HostsIs
<1>3. TcbsOf(tcb', h, q) = X /\ TcbsOf(tcb', Other(h), q) = Y
  OBVIOUS
<1> HIDE DEF X, Y, Out, In, Out1, In1
<1>4. HostPort(h, X, Y, Out1, In1)
  BY <1>1, <1>2, HostShrinks
<1> QED BY <1>3, <1>4, PortInvIs DEF Out1, In1

(* What Consume leaves in flight.                                          *)
LEMMA ConsumeSets ==
  ASSUME Core, NEW h \in Hosts, net[h] # <<>>, NEW O, NEW p, NEW b,
         b = Arrived(h), b.port = p,
         O = <<>> \/ \E a \in Segment : O = <<a>> /\ a.port = p,
         Consume(h, O)
  PROVE  /\ \A g \in Hosts : \A q : q # p => SegsOf(net', g, q) \subseteq SegsOf(net, g, q)
         /\ SegsOf(net', h, p) \subseteq SegsOf(net, h, p)
         /\ b \in SegsOf(net, h, p)
         /\ \A a \in SegsOf(net', h, p) :
              b.conn <= a.conn /\ (b.conn = a.conn /\ IsSyn(a) => IsSyn(b))
         /\ SegsOf(net', Other(h), p) \subseteq SegsOf(net, Other(h), p) \cup Flight(O)
         /\ Ordered(net'[h])
<1>1. net[h] \in Seq(Segment) /\ net[Other(h)] \in Seq(Segment) /\ Ordered(net[h])
      /\ Other(h) \in Hosts /\ Other(h) # h
      /\ \A g \in Hosts : g = h \/ g = Other(h)
  BY HostsIs DEF Core, SlotInv, TypeOK, Hosts, Other
<1>2. O \in Seq(Segment)
  <2>1. <<>> \in Seq(Segment) /\ \A a \in Segment : <<a>> \in Seq(Segment)
    OBVIOUS
  <2> QED BY <2>1
<1>3. /\ net'[h] = Tail(net[h])
      /\ net'[Other(h)] = net[Other(h)] \o IF linkUp THEN O ELSE <<>>
  BY <1>2, ConsumeIs DEF Core
<1>4. /\ Flight(net'[h]) \subseteq Flight(net[h]) /\ b \in Flight(net[h])
      /\ Ordered(net'[h]) /\ \A a \in Flight(net'[h]) : Before(b, a)
  BY <1>1, <1>3, FlightTail DEF Arrived
<1>5. /\ Flight(net'[Other(h)]) \subseteq Flight(net[Other(h)]) \cup Flight(O)
      /\ \A a \in Flight(O) : a.port = p
  <2>1. CASE O = <<>>
    <3>1. net'[Other(h)] = net[Other(h)]
      BY <1>1, <1>3, <2>1
    <3> QED BY <2>1, <3>1, FlightOf
  <2>2. ASSUME NEW a \in Segment, O = <<a>>, a.port = p
        PROVE  /\ Flight(net'[Other(h)]) \subseteq Flight(net[Other(h)]) \cup Flight(O)
               /\ \A c \in Flight(O) : c.port = p
    <3>1. Flight(O) = {a}
      BY <2>2, FlightOf
    <3>2. net'[Other(h)] = Append(net[Other(h)], a) \/ net'[Other(h)] = net[Other(h)]
      BY <1>1, <1>3, <2>2, FlightAppend
    <3>3. Flight(Append(net[Other(h)], a)) = Flight(net[Other(h)]) \cup {a}
      BY <1>1, FlightAppend
    <3> QED BY <2>2, <3>1, <3>2, <3>3
  <2> QED BY <2>1, <2>2
<1>6. \A q : SegsOf(net', h, q) \subseteq SegsOf(net, h, q)
  BY <1>4 DEF SegsOf
<1>7. \A q : q # p => SegsOf(net', Other(h), q) \subseteq SegsOf(net, Other(h), q)
  BY <1>5 DEF SegsOf
<1>8. SegsOf(net', Other(h), p) \subseteq SegsOf(net, Other(h), p) \cup Flight(O)
  BY <1>5 DEF SegsOf
<1>9. /\ b \in SegsOf(net, h, p)
      /\ \A a \in SegsOf(net', h, p) :
           b.conn <= a.conn /\ (b.conn = a.conn /\ IsSyn(a) => IsSyn(b))
  BY <1>4 DEF SegsOf, Before
<1> QED BY <1>1, <1>4, <1>6, <1>7, <1>8, <1>9

(* What sending one segment leaves in flight.                              *)
LEMMA SendSets ==
  ASSUME Core, NEW h \in Hosts, NEW a \in Segment, NEW p, a.port = p,
         net' = [net EXCEPT ![Other(h)] = Append(@, a)]
  PROVE  /\ \A g \in Hosts : \A q : q # p => SegsOf(net', g, q) \subseteq SegsOf(net, g, q)
         /\ SegsOf(net', h, p) \subseteq SegsOf(net, h, p)
         /\ SegsOf(net', Other(h), p) \subseteq SegsOf(net, Other(h), p) \cup {a}
         /\ Ordered(net'[h])
<1>1. net[Other(h)] \in Seq(Segment) /\ Ordered(net[h])
      /\ \A g \in Hosts : g = h \/ g = Other(h)
  BY HostsIs DEF Core, SlotInv, TypeOK, Hosts, Other
<1>2. net'[h] = net[h] /\ net'[Other(h)] = Append(net[Other(h)], a)
  BY SentType DEF Core
<1>3. Flight(net'[Other(h)]) = Flight(net[Other(h)]) \cup {a}
  BY <1>1, <1>2, FlightAppend
<1>4. \A q : SegsOf(net', h, q) \subseteq SegsOf(net, h, q)
  BY <1>2 DEF SegsOf
<1>5. \A q : q # p => SegsOf(net', Other(h), q) \subseteq SegsOf(net, Other(h), q)
  BY <1>3 DEF SegsOf
<1>6. SegsOf(net', Other(h), p) \subseteq SegsOf(net, Other(h), p) \cup {a}
  BY <1>3 DEF SegsOf
<1> QED BY <1>1, <1>2, <1>4, <1>5, <1>6

(* The queue to the peer stays in order when a TCB that holds its port     *)
(* sends to it.                                                            *)
LEMMA SentOrdered ==
  ASSUME Core, NEW h \in Hosts, NEW p, NEW u, NEW a \in Segment,
         PortInv(tcb', net', p), TcbsOf(tcb', h, p) = {u},
         a.port = p, a.conn = u.conn, IsSyn(a) <=> Opening(u),
         \/ net'[Other(h)] = net[Other(h)]
         \/ net'[Other(h)] = Append(net[Other(h)], a)
  PROVE  Ordered(net'[Other(h)])
<1>1. net[Other(h)] \in Seq(Segment) /\ Ordered(net[Other(h)])
  BY HostsIs DEF Core, SlotInv, TypeOK
<1>2. CASE net'[Other(h)] = net[Other(h)]
  BY <1>1, <1>2
<1>3. CASE net'[Other(h)] = Append(net[Other(h)], a)
  <2> DEFINE Y == TcbsOf(tcb', Other(h), p)
             Out == SegsOf(net', Other(h), p)
             In == SegsOf(net', h, p)
  <2>1. HostPort(h, {u}, Y, Out, In)
    BY PortInvIs
  <2>2. Flight(net'[Other(h)]) = Flight(net[Other(h)]) \cup {a}
    BY <1>1, <1>3, FlightAppend
  <2>3. \A b \in Flight(net[Other(h)]) : b.port = p => b \in Out
    BY <2>2 DEF SegsOf
  <2> HIDE DEF Y, Out, In
  <2>4. \A b \in Out : b.conn <= a.conn /\ (b.conn = a.conn /\ IsSyn(a) => IsSyn(b))
    BY <2>1, HostOrder
  <2>5. \A b \in Flight(net[Other(h)]) : Before(b, a)
    BY <2>3, <2>4 DEF Before
  <2> QED BY <1>1, <1>3, <2>5, FlightAppend
<1> QED BY <1>2, <1>3

(* Core from its parts after a step that concerns one port.                *)
LEMMA CoreIs ==
  ASSUME SlotInv', NEW h \in Hosts, NEW p, PortInv(tcb', net', p),
         \A q \in Ports : q # p => PortInv(tcb', net', q),
         Ordered(net'[h]), Ordered(net'[Other(h)])
  PROVE  Core'
<1>1. \A g \in Hosts : g = h \/ g = Other(h)
  BY DEF Hosts, Other
<1> QED BY <1>1 DEF Core

(* A segment moves the TCB that it matches.                                *)
LEMMA MatchedCore ==
  ASSUME NoWrap, Core, NEW h \in Hosts, net[h] # <<>>, NEW i \in Slots, NEW u, NEW O,
         MatchedStep(h, i, u, O), tcb[h][i].nxt <= MaxBytes + 2
  PROVE  Core'
<1> DEFINE t == tcb[h][i]
           b == Arrived(h)
           p == b.port
<1>0. SlotInv /\ SlotInv'
  BY MatchedSlots DEF Core
<1>1. /\ u \in Tcb /\ MovedBy(t, b, u, linkUp) /\ AnswerOf(u, O)
      /\ Connected(t) /\ t.port = p
      /\ tcb' = [tcb EXCEPT ![h][i] = u] /\ Consume(h, O)
  BY DEF MatchedStep, Handles, Matched, FindExact, Connected
<1>2. t \in Tcb /\ InUse(t) /\ b \in Segment /\ p \in Ports
  BY <1>0, TcbAt, ArrivedType, SegmentFields
<1>3. (Connected(u) => u.port = p /\ u.conn = t.conn) /\ (~Connected(u) => u = FreeTcb)
  BY <1>1, <1>2, MovedFacts
<1>4. InUse(u)
  BY <1>1, <1>2, <1>3 DEF InUse, FreeTcb
<1>5. O = <<>> \/ \E a \in Segment : O = <<a>> /\ a.port = p
  <2>1. CASE O = <<>>
    BY <2>1
  <2>2. CASE Connected(u) /\ O = <<Seg(u, {"ACK"}, 0)>>
    <3>1. 0 \in 0 .. MaxBytes
      BY BoundsAssumption
    <3>2. Seg(u, {"ACK"}, 0) \in Segment
      BY <1>1, <1>4, <2>2, <3>1, SegType
    <3>3. Seg(u, {"ACK"}, 0).port = u.port
      BY DEF Seg
    <3> QED BY <1>3, <2>2, <3>2, <3>3
  <2> QED BY <1>1, <2>1, <2>2 DEF AnswerOf
<1>6. \A j \in Slots : j # i /\ Connected(tcb[h][j]) => tcb[h][j].port # p
  BY <1>0, <1>1 DEF SlotInv, SlotsOwned, UniqueTuple
<1> HIDE DEF t, b, p
<1>7. /\ \A g \in Hosts : \A q : q # p => SegsOf(net', g, q) \subseteq SegsOf(net, g, q)
      /\ SegsOf(net', h, p) \subseteq SegsOf(net, h, p)
      /\ b \in SegsOf(net, h, p)
      /\ \A a \in SegsOf(net', h, p) :
           b.conn <= a.conn /\ (b.conn = a.conn /\ IsSyn(a) => IsSyn(b))
      /\ SegsOf(net', Other(h), p) \subseteq SegsOf(net, Other(h), p) \cup Flight(O)
      /\ Ordered(net'[h])
  BY <1>1, <1>5, ConsumeSets DEF b, p
<1>8. /\ TcbsOf(tcb, h, p) = {x \in {t} : Connected(x)}
      /\ TcbsOf(tcb', h, p) = {x \in {u} : Connected(x)}
      /\ \A q : q # p => TcbsOf(tcb', h, q) = TcbsOf(tcb, h, q)
      /\ \A q : TcbsOf(tcb', Other(h), q) = TcbsOf(tcb, Other(h), q)
  <2>1. Concerns(h, i, u, p)
    BY <1>1, <1>3, <1>6 DEF Concerns, t
  <2> QED BY <1>0, <2>1, SlotSets DEF t
<1>9. \A q \in Ports : q # p => PortInv(tcb', net', q)
  BY <1>7, <1>8, OtherPorts
<1> DEFINE Y == TcbsOf(tcb, Other(h), p)
           Out == SegsOf(net, Other(h), p)
           In == SegsOf(net, h, p)
           Rest == SegsOf(net', h, p)
           Sent == SegsOf(net', Other(h), p)
           A == Flight(O)
<1>10. PortInv(tcb', net', p)
  <2>1. TcbsOf(tcb, h, p) = {t}
    BY <1>1, <1>8
  <2>2. HostPort(h, {t}, Y, Out, In) /\ PortType({t}, Y, Out, In)
    BY <1>0, <1>2, <2>1, PortInvIs, PortTypeAt DEF Core
  <2>3. \/ A = {}
        \/ Connected(u) /\ ~Opening(u) /\ A = {Seg(u, {"ACK"}, 0)}
    BY <1>1, FlightOf DEF AnswerOf
  <2>4. t.nxt <= MaxBytes + 2 /\ Rest \in SUBSET In /\ Sent \in SUBSET (Out \cup A)
        /\ b \in In
        /\ \A a \in Rest : b.conn <= a.conn /\ (b.conn = a.conn /\ IsSyn(a) => IsSyn(b))
    BY <1>7 DEF t
  <2>5. TcbsOf(tcb', Other(h), p) = Y
    BY <1>8
  <2> HIDE DEF Y, Out, In, Rest, Sent, A
  <2>6. HostPort(h, {x \in {u} : Connected(x)}, Y, Out \cup A, Rest)
    BY <1>1, <1>4, <2>2, <2>3, <2>4, HostReceives
  <2>7. HostPort(h, {x \in {u} : Connected(x)}, Y, Sent, Rest)
    BY <2>4, <2>6, HostShrinks
  <2> QED BY <1>8, <2>5, <2>7, PortInvIs DEF Rest, Sent
<1>11. Ordered(net'[Other(h)])
  <2>1. net[Other(h)] \in Seq(Segment) /\ Ordered(net[Other(h)])
    BY HostsIs DEF Core, SlotInv, TypeOK
  <2>2. O \in Seq(Segment)
    BY <1>1, <1>4, AnswerType
  <2>3. net'[Other(h)] = net[Other(h)] \o IF linkUp THEN O ELSE <<>>
    BY <1>0, <1>1, <2>2, ConsumeIs
  <2>4. CASE O = <<>>
    BY <2>1, <2>3, <2>4
  <2>5. CASE Connected(u) /\ ~Opening(u) /\ O = <<Seg(u, {"ACK"}, 0)>>
    <3> DEFINE a == Seg(u, {"ACK"}, 0)
    <3>1. 0 \in 0 .. MaxBytes
      BY BoundsAssumption
    <3>2. a \in Segment
      BY <1>1, <1>4, <2>5, <3>1, SegType
    <3>3. a.port = u.port /\ a.conn = u.conn /\ ~IsSyn(a)
      BY DEF Seg, IsSyn
    <3>4. O = <<a>>
      BY <2>5
    <3> HIDE DEF a
    <3>5. \/ net'[Other(h)] = net[Other(h)]
          \/ net'[Other(h)] = Append(net[Other(h)], a)
      BY <2>1, <2>3, <3>2, <3>4, FlightAppend
    <3>6. TcbsOf(tcb', h, p) = {u}
      BY <1>8, <2>5
    <3> QED BY <1>3, <1>10, <2>5, <3>2, <3>3, <3>5, <3>6, SentOrdered
  <2> QED BY <1>1, <2>4, <2>5 DEF AnswerOf
<1> QED BY <1>0, <1>7, <1>9, <1>10, <1>11, CoreIs

(* A segment finds no TCB, or is lost.                                     *)
LEMMA ShrunkCore ==
  ASSUME Core, SlotInv', tcb' = tcb, NEW h \in Hosts, net[h] # <<>>,
         net'[h] = Tail(net[h]), net'[Other(h)] = net[Other(h)]
  PROVE  Core'
<1>1. net[h] \in Seq(Segment) /\ Ordered(net[h]) /\ Ordered(net[Other(h)])
      /\ \A g \in Hosts : g = h \/ g = Other(h)
  BY HostsIs DEF Core, SlotInv, TypeOK, Hosts, Other
<1>2. Flight(net'[h]) \subseteq Flight(net[h]) /\ Ordered(net'[h])
  BY <1>1, FlightTail
<1>3. ASSUME NEW q \in Ports PROVE PortInv(tcb', net', q)
  <2> DEFINE X == TcbsOf(tcb, h, q)
             Y == TcbsOf(tcb, Other(h), q)
             Out == SegsOf(net, Other(h), q)
             In == SegsOf(net, h, q)
             In1 == SegsOf(net', h, q)
  <2>1. HostPort(h, X, Y, Out, In)
    BY PortInvIs DEF Core
  <2>2. In1 \in SUBSET In /\ SegsOf(net', Other(h), q) = Out
    BY <1>2 DEF SegsOf
  <2> HIDE DEF X, Y, Out, In, In1
  <2>3. HostPort(h, X, Y, Out, In1)
    BY <2>1, <2>2, HostShrinks
  <2>4. HostPort(h, TcbsOf(tcb', h, q), TcbsOf(tcb', Other(h), q),
                 SegsOf(net', Other(h), q), SegsOf(net', h, q))
    BY <2>2, <2>3 DEF X, Y, In1
  <2> QED BY <2>4, PortInvIs
<1> QED BY <1>1, <1>2, <1>3 DEF Core

(* A segment that finds no TCB.                                            *)
LEMMA DropCore ==
  ASSUME Core, NEW h \in Hosts, net[h] # <<>>, DropStep(h)
  PROVE  Core'
<1>1. SlotInv /\ SlotInv'
  BY DropSlots DEF Core
<1>2. tcb' = tcb /\ Consume(h, <<>>)
  BY DEF DropStep
<1>3. <<>> \in Seq(Segment) /\ net[Other(h)] \in Seq(Segment)
  BY HostsIs DEF Core, SlotInv, TypeOK
<1>4. net'[h] = Tail(net[h]) /\ net'[Other(h)] = net[Other(h)] \o IF linkUp THEN <<>> ELSE <<>>
  BY <1>1, <1>2, <1>3, ConsumeIs
<1>5. net'[Other(h)] = net[Other(h)]
  BY <1>3, <1>4
<1> QED BY <1>1, <1>2, <1>4, <1>5, ShrunkCore

(* A segment that is lost.                                                 *)
LEMMA LoseCore ==
  ASSUME Core, NEW h \in Hosts, Lose(h)
  PROVE  Core'
<1>1. SlotInv /\ SlotInv'
  BY LinkSlots DEF Core
<1>2. net[h] # <<>> /\ tcb' = tcb /\ net' = [net EXCEPT ![h] = Tail(@)]
  BY DEF Lose
<1>3. net'[h] = Tail(net[h]) /\ net'[Other(h)] = net[Other(h)]
  BY <1>1, <1>2, HostsIs DEF SlotInv, TypeOK
<1> QED BY <1>1, <1>2, <1>3, ShrunkCore

(* tcp_send and tcp_close.                                                 *)
LEMMA TrackedCore ==
  ASSUME NoWrap, Core, NEW h \in Hosts, NEW i \in Slots, NEW u, NEW a,
         TrackedStep(h, i, u, a), EndOf(a) <= MaxBytes + 2
  PROVE  Core'
<1> DEFINE t == tcb[h][i]
           p == t.port
<1>0. SlotInv /\ SlotInv'
  BY TrackedSlots DEF Core
<1>1. /\ TrackedBy(t, u, a) /\ Connected(t) /\ a \in Segment /\ a.port = p
      /\ u \in Tcb /\ u.port = p /\ a.conn = u.conn
      /\ tcb' = [tcb EXCEPT ![h][i] = u]
      /\ net' = [net EXCEPT ![Other(h)] = Append(@, a)]
  BY DEF TrackedStep, TrackedBy
<1>2. t \in Tcb /\ p \in Ports
  BY <1>0, <1>1, TcbAt DEF InUse
<1>3. \A j \in Slots : j # i /\ Connected(tcb[h][j]) => tcb[h][j].port # p
  BY <1>0, <1>1 DEF SlotInv, SlotsOwned, UniqueTuple
<1>4. Concerns(h, i, u, p)
  BY <1>1, <1>3 DEF Concerns
<1>5. /\ TcbsOf(tcb, h, p) = {x \in {t} : Connected(x)}
      /\ TcbsOf(tcb', h, p) = {x \in {u} : Connected(x)}
      /\ \A q : q # p => TcbsOf(tcb', h, q) = TcbsOf(tcb, h, q)
      /\ \A q : TcbsOf(tcb', Other(h), q) = TcbsOf(tcb, Other(h), q)
  BY <1>0, <1>4, SlotSets
<1> HIDE DEF t, p
<1>6. /\ \A g \in Hosts : \A q : q # p => SegsOf(net', g, q) \subseteq SegsOf(net, g, q)
      /\ SegsOf(net', h, p) \subseteq SegsOf(net, h, p)
      /\ SegsOf(net', Other(h), p) \subseteq SegsOf(net, Other(h), p) \cup {a}
      /\ Ordered(net'[h])
  BY <1>1, SendSets
<1>7. \A q \in Ports : q # p => PortInv(tcb', net', q)
  BY <1>5, <1>6, OtherPorts
<1> DEFINE Y == TcbsOf(tcb, Other(h), p)
           Out == SegsOf(net, Other(h), p)
           In == SegsOf(net, h, p)
           Rest == SegsOf(net', h, p)
           Sent == SegsOf(net', Other(h), p)
<1>8. TcbsOf(tcb, h, p) = {t}
  BY <1>1, <1>5
<1>9. HostPort(h, {t}, Y, Out, In) /\ PortType({t}, Y, Out, In)
  BY <1>0, <1>2, <1>8, PortInvIs, PortTypeAt DEF Core
<1>10. Rest \in SUBSET In /\ Sent \in SUBSET (Out \cup {a})
       /\ TcbsOf(tcb', Other(h), p) = Y
  BY <1>5, <1>6
<1>11. Connected(u) /\ ~IsSyn(a) /\ ~Opening(u)
  <2>1. TcbOk(t)
    BY <1>9, HostFacts
  <2> QED BY <1>1, <1>2, <2>1, TrackedOk
<1>12. TcbsOf(tcb', h, p) = {u}
  BY <1>5, <1>11
<1>13. PortInv(tcb', net', p)
  <2> HIDE DEF Y, Out, In, Rest, Sent
  <2>1. HostPort(h, {u}, Y, Out \cup {a}, In)
    BY <1>1, <1>9, HostSends
  <2>2. HostPort(h, {u}, Y, Sent, Rest)
    BY <1>10, <2>1, HostShrinks
  <2>3. HostPort(h, TcbsOf(tcb', h, p), TcbsOf(tcb', Other(h), p),
                 SegsOf(net', Other(h), p), SegsOf(net', h, p))
    BY <1>10, <1>12, <2>2 DEF Sent, Rest
  <2> QED BY <2>3, PortInvIs
<1>14. net'[Other(h)] = Append(net[Other(h)], a)
  BY <1>0, <1>1, SentType
<1>15. Ordered(net'[Other(h)])
  BY <1>1, <1>11, <1>12, <1>13, <1>14, SentOrdered
<1> QED BY <1>0, <1>6, <1>7, <1>13, <1>15, CoreIs

(* tcp_retransmit_handler.                                                 *)
LEMMA RetransmitCore ==
  ASSUME Core, NEW h \in Hosts, NEW i \in Slots, Retransmit(h, i)
  PROVE  Core'
<1> DEFINE t == tcb[h][i]
           a == t.q
           p == t.port
<1>0. SlotInv /\ SlotInv' /\ tcb' = tcb
  BY RetransmitSlots DEF Core, Retransmit
<1>1. CASE net' = net
  BY <1>0, <1>1 DEF Core
<1>2. CASE Unacked(t) /\ net' = [net EXCEPT ![Other(h)] = Append(@, a)]
  <2>1. t \in Tcb /\ Connected(t) /\ p \in Ports /\ a \in Segment
    <3>1. t \in Tcb /\ InUse(t)
      BY <1>0, TcbAt
    <3> QED BY <1>2, <3>1, TcbFields DEF Unacked, InUse
  <2>2. TcbsOf(tcb, h, p) = {t}
    <3>1. t \in TcbsOf(tcb, h, p)
      BY <2>1 DEF TcbsOf
    <3> QED BY <1>0, <3>1, TcbsType
  <2> DEFINE Y == TcbsOf(tcb, Other(h), p)
             Out == SegsOf(net, Other(h), p)
             In == SegsOf(net, h, p)
             Rest == SegsOf(net', h, p)
             Sent == SegsOf(net', Other(h), p)
  <2>3. HostPort(h, {t}, Y, Out, In) /\ PortType({t}, Y, Out, In)
    BY <1>0, <2>1, <2>2, PortInvIs, PortTypeAt DEF Core
  <2>4. TcbOk(t) /\ a # NoSeg
    BY <1>2, <2>3, HostFacts DEF Unacked
  <2>5. a.port = p /\ a.conn = t.conn /\ (IsSyn(a) <=> Opening(t))
    BY <2>4 DEF TcbOk, QueueOk
  <2>6. net' = [net EXCEPT ![Other(h)] = Append(@, a)]
    BY <1>2
  <2> HIDE DEF t, a, p, Y, Out, In, Rest, Sent
  <2>7. /\ \A g \in Hosts : \A q : q # p => SegsOf(net', g, q) \subseteq SegsOf(net, g, q)
        /\ SegsOf(net', h, p) \subseteq SegsOf(net, h, p)
        /\ SegsOf(net', Other(h), p) \subseteq SegsOf(net, Other(h), p) \cup {a}
        /\ Ordered(net'[h])
    BY <2>1, <2>5, <2>6, SendSets
  <2>8. \A q \in Ports : q # p => PortInv(tcb', net', q)
    <3>1. \A q : TcbsOf(tcb', h, q) = TcbsOf(tcb, h, q)
                 /\ TcbsOf(tcb', Other(h), q) = TcbsOf(tcb, Other(h), q)
      BY <1>0
    <3> QED BY <2>7, <3>1, OtherPorts
  <2>9. Rest \in SUBSET In /\ Sent \in SUBSET (Out \cup {a})
    BY <2>7 DEF Rest, Sent, In, Out
  <2>10. TcbsOf(tcb', h, p) = {t} /\ TcbsOf(tcb', Other(h), p) = Y
    BY <1>0, <2>2 DEF Y
  <2>11. PortInv(tcb', net', p)
    <3>1. HostPort(h, {t}, Y, Out \cup {a}, In)
      BY <2>3, <2>4, HostRepeats DEF a
    <3>2. HostPort(h, {t}, Y, Sent, Rest)
      BY <2>9, <3>1, HostShrinks
    <3>3. HostPort(h, TcbsOf(tcb', h, p), TcbsOf(tcb', Other(h), p),
                   SegsOf(net', Other(h), p), SegsOf(net', h, p))
      BY <2>10, <3>2 DEF Sent, Rest
    <3> QED BY <3>3, PortInvIs
  <2>12. net'[Other(h)] = Append(net[Other(h)], a)
    BY <1>0, <2>1, <2>6, SentType
  <2>13. Ordered(net'[Other(h)])
    BY <2>1, <2>5, <2>10, <2>11, <2>12, SentOrdered
  <2> QED BY <1>0, <2>7, <2>8, <2>11, <2>13, CoreIs
<1> QED BY <1>1, <1>2 DEF Retransmit
(* A slot is written without a segment being sent, and the port p it is    *)
(* concerned with is still sound.                                          *)
LEMMA QuietCore ==
  ASSUME Core, SlotInv', NEW h \in Hosts, NEW i \in Slots, NEW u, NEW p,
         Concerns(h, i, u, p), net' = net, PortInv(tcb', net', p)
  PROVE  Core'
<1>1. SlotInv
  BY DEF Core
<1>2. /\ \A q : q # p => TcbsOf(tcb', h, q) = TcbsOf(tcb, h, q)
      /\ \A q : TcbsOf(tcb', Other(h), q) = TcbsOf(tcb, Other(h), q)
  BY <1>1, SlotSets
<1>3. \A g \in Hosts : \A q : q # p => SegsOf(net', g, q) \subseteq SegsOf(net, g, q)
  OBVIOUS
<1>4. \A q \in Ports : q # p => PortInv(tcb', net', q)
  BY <1>2, <1>3, OtherPorts
<1>5. Ordered(net'[h]) /\ Ordered(net'[Other(h)])
  BY HostsIs DEF Core
<1> QED BY <1>4, <1>5, CoreIs

(* tcp_time_wait_handler.                                                  *)
LEMMA TimeWaitExpiresCore ==
  ASSUME Core, NEW h \in Hosts, NEW i \in Slots, TimeWaitExpires(h, i)
  PROVE  Core'
<1> DEFINE t == tcb[h][i]
           p == t.port
           Y == TcbsOf(tcb, Other(h), p)
           Out == SegsOf(net, Other(h), p)
           In == SegsOf(net, h, p)
<1>0. SlotInv
  BY DEF Core
<1>1. /\ SlotInv' /\ t.state = "TIME_WAIT" /\ net' = net
      /\ tcb' = [tcb EXCEPT ![h][i] = FreeTcb]
  BY <1>0, TimeWaitExpiresSlots
<1>2. t \in Tcb /\ Connected(t) /\ p \in Ports
  <2>1. t \in Tcb /\ InUse(t)
    BY <1>0, TcbAt
  <2> QED BY <1>1, <2>1 DEF InUse, Connected
<1>3. Concerns(h, i, FreeTcb, p)
  <2>1. \A j \in Slots : j # i /\ Connected(tcb[h][j]) => tcb[h][j].port # p
    BY <1>0, <1>2 DEF SlotInv, SlotsOwned, UniqueTuple
  <2>2. FreeTcb \in Tcb /\ ~Connected(FreeTcb)
    BY FreeTcbType DEF Connected
  <2> QED BY <1>1, <2>1, <2>2 DEF Concerns
<1>4. /\ TcbsOf(tcb, h, p) = {t} /\ TcbsOf(tcb', h, p) = {}
      /\ TcbsOf(tcb', Other(h), p) = Y
  <2>1. /\ TcbsOf(tcb, h, p) = {x \in {t} : Connected(x)}
        /\ TcbsOf(tcb', h, p) = {x \in {FreeTcb} : Connected(x)}
        /\ \A q : q # p => TcbsOf(tcb', h, q) = TcbsOf(tcb, h, q)
        /\ \A q : TcbsOf(tcb', Other(h), q) = TcbsOf(tcb, Other(h), q)
    BY <1>0, <1>3, SlotSets
  <2>2. ~Connected(FreeTcb)
    BY FreeTcbType DEF Connected
  <2> QED BY <1>2, <2>1, <2>2
<1>5. HostPort(h, {t}, Y, Out, In)
  BY <1>2, <1>4, PortInvIs DEF Core
<1> HIDE DEF t, p
<1>6. HostPort(h, {}, Y, Out, In)
  <2> HIDE DEF Y, Out, In
  <2> QED BY <1>1, <1>5, HostReleases
<1>7. PortInv(tcb', net', p)
  <2>1. HostPort(h, TcbsOf(tcb', h, p), TcbsOf(tcb', Other(h), p),
                 SegsOf(net', Other(h), p), SegsOf(net', h, p))
    BY <1>1, <1>4, <1>6
  <2> QED BY <2>1, PortInvIs
<1> QED BY <1>1, <1>3, <1>7, QuietCore

(* tcp_listen.                                                             *)
LEMMA ListenCore ==
  ASSUME Core, NEW h \in Hosts, Listen(h)
  PROVE  Core'
<1> DEFINE i == FirstFree(h)
           u == [FreeTcb EXCEPT !.state = "LISTEN"]
<1>0. SlotInv /\ SlotInv'
  BY ListenSlots DEF Core
<1>1. tcb' = [tcb EXCEPT ![h][i] = u] /\ net' = net /\ i \in Slots /\ tcb[h][i].state = "FREE"
  BY FirstFreeIs DEF Listen
<1>2. u \in Tcb /\ u.state = "LISTEN"
  BY FreeTcbType DEF FreeTcb, Tcb, States
<1> HIDE DEF i, u
<1>3. ~Connected(u) /\ ~Connected(tcb[h][i])
  BY <1>1, <1>2 DEF Connected
<1>4. \A g \in Hosts : \A q : TcbsOf(tcb', g, q) = TcbsOf(tcb, g, q)
  <2> SUFFICES ASSUME NEW g \in Hosts, NEW q
               PROVE  TcbsOf(tcb', g, q) = TcbsOf(tcb, g, q)
    OBVIOUS
  <2>1. \A j \in Slots : tcb'[g][j] = IF g = h /\ j = i THEN u ELSE tcb[g][j]
    BY <1>0, <1>1 DEF SlotInv, TypeOK
  <2>2. \A j \in Slots : \/ tcb'[g][j] = tcb[g][j]
                         \/ ~Connected(tcb'[g][j]) /\ ~Connected(tcb[g][j])
    BY <1>1, <1>3, <2>1
  <2> QED BY <2>2 DEF TcbsOf
<1>5. \A q \in Ports : PortInv(tcb', net', q)
  <2> SUFFICES ASSUME NEW q \in Ports PROVE PortInv(tcb', net', q)
    OBVIOUS
  <2>1. /\ TcbsOf(tcb', "client", q) = TcbsOf(tcb, "client", q)
        /\ TcbsOf(tcb', "server", q) = TcbsOf(tcb, "server", q)
    BY <1>4 DEF Hosts
  <2>2. PortInv(tcb, net, q)
    BY DEF Core
  <2> QED BY <1>1, <2>1, <2>2 DEF PortInv
<1> QED BY <1>0, <1>1, <1>5 DEF Core

(* Both kinds of opening write a slot of the port that no slot has.        *)
Opened(h, i, u, p) ==
  /\ u \in Tcb /\ u.port = p /\ Connected(u)
  /\ tcb[h][i].state = "FREE" /\ FindExact(h, p) = {}
  /\ tcb' = [tcb EXCEPT ![h][i] = u]

(* A slot that opens concerns its own port only.                           *)
LEMMA OpensConcerns ==
  ASSUME SlotInv, NEW h \in Hosts, NEW i \in Slots, NEW u, NEW p, Opened(h, i, u, p)
  PROVE  /\ Concerns(h, i, u, p)
         /\ TcbsOf(tcb, h, p) = {} /\ TcbsOf(tcb', h, p) = {u}
         /\ \A q : q # p => TcbsOf(tcb', h, q) = TcbsOf(tcb, h, q)
         /\ \A q : TcbsOf(tcb', Other(h), q) = TcbsOf(tcb, Other(h), q)
<1>1. \A j \in Slots : Connected(tcb[h][j]) => tcb[h][j].port # p
  BY DEF Opened, FindExact, Connected
<1>2. ~Connected(tcb[h][i])
  BY DEF Opened, Connected
<1>3. Concerns(h, i, u, p)
  BY <1>1, <1>2 DEF Concerns, Opened
<1>4. /\ TcbsOf(tcb, h, p) = {x \in {tcb[h][i]} : Connected(x)}
      /\ TcbsOf(tcb', h, p) = {x \in {u} : Connected(x)}
      /\ \A q : q # p => TcbsOf(tcb', h, q) = TcbsOf(tcb, h, q)
      /\ \A q : TcbsOf(tcb', Other(h), q) = TcbsOf(tcb, Other(h), q)
  BY <1>3, SlotSets
<1> QED BY <1>2, <1>3, <1>4 DEF Opened

(* A port of which h has no TCB.                                           *)
LEMMA FreePort ==
  ASSUME Core, NEW h \in Hosts, NEW p \in Ports, TcbsOf(tcb, h, p) = {}
  PROVE  /\ HostPort(h, {}, TcbsOf(tcb, Other(h), p), SegsOf(net, Other(h), p),
                     SegsOf(net, h, p))
         /\ PortType({}, TcbsOf(tcb, Other(h), p), SegsOf(net, Other(h), p),
                     SegsOf(net, h, p))
<1>1. SlotInv /\ PortInv(tcb, net, p)
  BY DEF Core
<1>2. HostPort(h, TcbsOf(tcb, h, p), TcbsOf(tcb, Other(h), p), SegsOf(net, Other(h), p),
               SegsOf(net, h, p))
  BY <1>1, PortInvIs
<1>3. PortType(TcbsOf(tcb, h, p), TcbsOf(tcb, Other(h), p), SegsOf(net, Other(h), p),
               SegsOf(net, h, p))
  BY <1>1, PortTypeAt
<1> QED BY <1>2, <1>3

(* tcp_connect.                                                            *)
LEMMA ConnectCore ==
  ASSUME NoWrap, Core, Numbers(tcb, net, conns), NEW i \in Slots, NEW u, NEW a,
         ConnectStep(i, u, a)
  PROVE  Core'
<1> DEFINE h == "client"
           p == a.port
<1>0. SlotInv /\ SlotInv' /\ h \in Hosts /\ Other(h) \in Hosts
  BY ConnectSlots DEF Core, Hosts, Other
<1>1. /\ OpensSlot(h, i, u, a, "SYN_SENT", 0, conns + 1, {"SYN"})
      /\ Fresh(u, a, "SYN_SENT", p, 0, conns + 1, {"SYN"})
      /\ net' = [net EXCEPT ![Other(h)] = Append(@, a)]
  BY DEF ConnectStep, OpensSlot, Other
<1>2. a \in Segment /\ p \in Ports /\ a.port = p /\ a.conn = u.conn
  <2>1. a \in Segment /\ a.conn = u.conn
    BY <1>1 DEF Fresh
  <2> QED BY <2>1, SegmentFields
<1>3. IsSyn(a) /\ Opening(u)
  BY <1>1 DEF Fresh, IsSyn, Opening
<1>4. Opened(h, i, u, p)
  BY <1>1 DEF OpensSlot, Fresh, Opened
<1> HIDE DEF h, p
<1>5. /\ Concerns(h, i, u, p)
      /\ TcbsOf(tcb, h, p) = {} /\ TcbsOf(tcb', h, p) = {u}
      /\ \A q : q # p => TcbsOf(tcb', h, q) = TcbsOf(tcb, h, q)
      /\ \A q : TcbsOf(tcb', Other(h), q) = TcbsOf(tcb, Other(h), q)
  BY <1>0, <1>4, OpensConcerns
<1>6. /\ \A g \in Hosts : \A q : q # p => SegsOf(net', g, q) \subseteq SegsOf(net, g, q)
      /\ SegsOf(net', h, p) \subseteq SegsOf(net, h, p)
      /\ SegsOf(net', Other(h), p) \subseteq SegsOf(net, Other(h), p) \cup {a}
      /\ Ordered(net'[h])
  <2>1. h \in Hosts /\ a \in Segment /\ a.port = p
        /\ net' = [net EXCEPT ![Other(h)] = Append(@, a)]
    BY <1>0, <1>1, <1>2
  <2> QED BY <2>1, SendSets
<1>7. \A q \in Ports : q # p => PortInv(tcb', net', q)
  BY <1>0, <1>5, <1>6, OtherPorts
<1> DEFINE Y == TcbsOf(tcb, Other(h), p)
           Out == SegsOf(net, Other(h), p)
           In == SegsOf(net, h, p)
           Rest == SegsOf(net', h, p)
           Sent == SegsOf(net', Other(h), p)
           m == conns + 1
<1>8. PortOk({}, Y, Out, In) /\ PortType({}, Y, Out, In)
  <2>1. HostPort(h, {}, Y, Out, In) /\ PortType({}, Y, Out, In)
    BY <1>0, <1>2, <1>5, FreePort
  <2> QED BY <2>1 DEF HostPort, h
<1>9. \A o \in Y \cup Out \cup In : o.conn < m
  <2>1. Y \cup Out \cup In \subseteq Numbered(tcb, net)
    <3>1. Y \subseteq Numbered(tcb, net)
      BY <1>0 DEF TcbsOf, Numbered
    <3>2. Out \subseteq Numbered(tcb, net) /\ In \subseteq Numbered(tcb, net)
      BY <1>0 DEF SegsOf, Numbered
    <3> QED BY <3>1, <3>2
  <2>2. \A o \in Y \cup Out \cup In : o.conn <= conns
    BY <2>1 DEF Numbers
  <2>3. \A o \in Y \cup Out \cup In : o.conn \in Nat
    BY <1>8, TcbFields, SegmentFields DEF PortType
  <2>4. conns \in Nat
    BY <1>0 DEF SlotInv, TypeOK
  <2> QED BY <2>2, <2>3, <2>4
<1>10. Rest \in SUBSET In /\ Sent \in SUBSET (Out \cup {a})
       /\ TcbsOf(tcb', Other(h), p) = Y /\ Fresh(u, a, "SYN_SENT", p, 0, m, {"SYN"})
  BY <1>1, <1>5, <1>6
<1>11. PortInv(tcb', net', p)
  <2> HIDE DEF Y, Out, In, Rest, Sent, m
  <2>1. PortOk({u}, Y, Out \cup {a}, In)
    BY <1>8, <1>9, <1>10, ClientConnects
  <2>2. PortOk({u}, Y, Sent, Rest)
    BY <1>10, <2>1, PortShrinks
  <2>3. HostPort(h, TcbsOf(tcb', h, p), TcbsOf(tcb', Other(h), p),
                 SegsOf(net', Other(h), p), SegsOf(net', h, p))
    BY <1>5, <1>10, <2>2 DEF Sent, Rest, HostPort, h
  <2> QED BY <1>0, <2>3, PortInvIs
<1>12. net'[Other(h)] = Append(net[Other(h)], a)
  BY <1>0, <1>1, <1>2, SentType
<1>13. Ordered(net'[Other(h)])
  BY <1>0, <1>2, <1>3, <1>5, <1>11, <1>12, SentOrdered
<1> QED BY <1>0, <1>6, <1>7, <1>11, <1>13, CoreIs

(* A SYN that opens a TCB.                                                 *)
LEMMA AcceptCore ==
  ASSUME NoWrap, Core, NEW h \in Hosts, net[h] # <<>>, NEW i \in Slots, NEW u, NEW a,
         AcceptStep(h, i, u, a)
  PROVE  Core'
<1> DEFINE b == Arrived(h)
           p == a.port
           r == Plus(b.seq, 1)
<1>0. SlotInv /\ SlotInv' /\ Other(h) \in Hosts
  BY AcceptSlots, HostsIs DEF Core
<1>14. h # "client"
  <2>1. FindListener(h) # {}
    BY DEF AcceptStep
  <2> QED BY <1>0, <2>1 DEF FindListener, SlotInv, NoClientListener
<1>1. /\ OpensSlot(h, i, u, a, "SYN_RECEIVED", r, b.conn, {"SYN", "ACK"})
      /\ Fresh(u, a, "SYN_RECEIVED", p, r, b.conn, {"SYN", "ACK"})
      /\ b.flags = {"SYN"} /\ b.port = p /\ linkUp /\ Consume(h, <<a>>)
  BY DEF AcceptStep, OpensSlot
<1>2. a \in Segment /\ p \in Ports /\ a.port = p /\ a.conn = u.conn
  <2>1. a \in Segment /\ a.conn = u.conn
    BY <1>1 DEF Fresh
  <2> QED BY <2>1, SegmentFields
<1>3. IsSyn(a) /\ Opening(u)
  BY <1>1 DEF Fresh, IsSyn, Opening
<1>4. Opened(h, i, u, p)
  BY <1>1 DEF OpensSlot, Fresh, Opened
<1> HIDE DEF p, r
<1>5. /\ Concerns(h, i, u, p)
      /\ TcbsOf(tcb, h, p) = {} /\ TcbsOf(tcb', h, p) = {u}
      /\ \A q : q # p => TcbsOf(tcb', h, q) = TcbsOf(tcb, h, q)
      /\ \A q : TcbsOf(tcb', Other(h), q) = TcbsOf(tcb, Other(h), q)
  BY <1>0, <1>4, OpensConcerns
<1> DEFINE O == <<a>>
<1>6. /\ O = <<>> \/ \E x \in Segment : O = <<x>> /\ x.port = p
      /\ Consume(h, O) /\ Flight(O) = {a}
  BY <1>1, <1>2, FlightOf
<1> HIDE DEF O
<1>7. /\ \A g \in Hosts : \A q : q # p => SegsOf(net', g, q) \subseteq SegsOf(net, g, q)
      /\ SegsOf(net', h, p) \subseteq SegsOf(net, h, p)
      /\ b \in SegsOf(net, h, p)
      /\ \A x \in SegsOf(net', h, p) :
           b.conn <= x.conn /\ (b.conn = x.conn /\ IsSyn(x) => IsSyn(b))
      /\ SegsOf(net', Other(h), p) \subseteq SegsOf(net, Other(h), p) \cup Flight(O)
      /\ Ordered(net'[h])
  BY <1>1, <1>6, ConsumeSets
<1> HIDE DEF b
<1>8. \A q \in Ports : q # p => PortInv(tcb', net', q)
  BY <1>0, <1>5, <1>7, OtherPorts
<1> DEFINE C == TcbsOf(tcb, Other(h), p)
           Out == SegsOf(net, Other(h), p)
           In == SegsOf(net, h, p)
           Rest == SegsOf(net', h, p)
           Sent == SegsOf(net', Other(h), p)
<1>9. PortOk(C, {}, In, Out) /\ PortType(C, {}, In, Out)
  <2>1. HostPort(h, {}, C, Out, In) /\ PortType({}, C, Out, In)
    BY <1>0, <1>2, <1>5, FreePort
  <2> QED BY <1>14, <2>1, PortTypeSwaps DEF HostPort
<1>10. /\ Rest \in SUBSET In /\ Sent \in SUBSET (Out \cup {a}) /\ b \in In
       /\ TcbsOf(tcb', Other(h), p) = C /\ \A x \in Rest : b.conn <= x.conn
  BY <1>5, <1>6, <1>7
<1>11. PortInv(tcb', net', p)
  <2> HIDE DEF C, Out, In, Rest, Sent
  <2>1. PortOk(C, {u}, Rest, Out \cup {a})
    BY <1>1, <1>9, <1>10, ServerAccepts DEF r
  <2>2. PortOk(C, {u}, Rest, Sent)
    BY <1>10, <2>1, PortShrinks
  <2>3. HostPort(h, TcbsOf(tcb', h, p), TcbsOf(tcb', Other(h), p),
                 SegsOf(net', Other(h), p), SegsOf(net', h, p))
    BY <1>5, <1>10, <1>14, <2>2 DEF Sent, Rest, HostPort
  <2> QED BY <2>3, PortInvIs
<1>12. net'[Other(h)] = Append(net[Other(h)], a)
  <2>1. net[Other(h)] \in Seq(Segment)
    BY <1>0 DEF SlotInv, TypeOK
  <2>2. O \in Seq(Segment)
    BY <1>2 DEF O
  <2>3. net'[Other(h)] = net[Other(h)] \o IF linkUp THEN O ELSE <<>>
    BY <1>0, <1>6, <2>2, ConsumeIs
  <2> QED BY <1>1, <1>2, <2>1, <2>3, FlightAppend DEF O
<1>13. Ordered(net'[Other(h)])
  BY <1>0, <1>2, <1>3, <1>5, <1>11, <1>12, SentOrdered
<1> QED BY <1>0, <1>7, <1>8, <1>11, <1>13, CoreIs
-----------------------------------------------------------------------------
(* Sequence numbers stay within what the applications wrote.               *)

(* The bound, slot by slot.                                                *)
LEMMA BoundedIs ==
  ASSUME SlotInv, Bounded, NEW h \in Hosts, NEW i \in Slots, Connected(tcb[h][i])
  PROVE  /\ tcb[h][i].nxt \in Nat /\ written[h] \in 0 .. MaxBytes
         /\ tcb[h][i].nxt <= MaxBytes + 2
         /\ ~FinSent(tcb[h][i]) => tcb[h][i].nxt <= 1 + written[h]
         /\ tcb[h][i].nxt <= 2 + written[h]
<1>1. tcb[h][i].nxt \in Nat
  BY TcbAt, TcbFields
<1>2. written[h] \in 0 .. MaxBytes
  BY DEF SlotInv, TypeOK
<1>3. tcb[h][i].nxt <= 1 + written[h] + IF FinSent(tcb[h][i]) THEN 1 ELSE 0
  BY DEF Bounded
<1> QED BY <1>1, <1>2, <1>3, BoundsAssumption

(* A slot is written with a TCB that respects the bound.                   *)
LEMMA WrittenBounded ==
  ASSUME SlotInv, SlotInv', Bounded, NEW h \in Hosts, NEW i \in Slots, NEW u \in Tcb,
         tcb' = [tcb EXCEPT ![h][i] = u],
         Connected(u) => u.nxt <= 1 + written'[h] + IF FinSent(u) THEN 1 ELSE 0,
         \A g \in Hosts : written[g] <= written'[g]
  PROVE  Bounded'
<1> SUFFICES ASSUME NEW g \in Hosts, NEW j \in Slots, Connected(tcb'[g][j])
             PROVE  tcb'[g][j].nxt <= 1 + written'[g] + IF FinSent(tcb'[g][j]) THEN 1 ELSE 0
  BY DEF Bounded
<1>1. CASE g = h /\ j = i
  <2>1. tcb'[g][j] = u
    BY <1>1, WroteTcb
  <2> QED BY <1>1, <2>1
<1>2. CASE ~(g = h /\ j = i)
  <2> DEFINE t == tcb[g][j]
             e == IF FinSent(t) THEN 1 ELSE 0
  <2>1. tcb'[g][j] = t
    BY <1>2, WroteTcb
  <2>2. t.nxt <= 1 + written[g] + e
    BY <2>1 DEF Bounded
  <2>3. t.nxt \in Nat /\ e \in Nat
    BY TcbAt, TcbFields
  <2>4. written[g] \in Nat /\ written'[g] \in Nat /\ written[g] <= written'[g]
    BY DEF SlotInv, TypeOK
  <2> HIDE DEF t, e
  <2>5. t.nxt <= 1 + written'[g] + e
    BY <2>2, <2>3, <2>4
  <2> QED BY <2>1, <2>5 DEF e
<1> QED BY <1>1, <1>2

(* Nothing that the bound speaks of changes.                               *)
LEMMA SameBounded ==
  ASSUME Bounded, tcb' = tcb, written' = written
  PROVE  Bounded'
BY DEF Bounded

(* A TCB whose FIN is out does not forget it.                              *)
LEMMA MovedFin ==
  ASSUME NEW t \in Tcb, NEW a, NEW u \in Tcb, NEW up, MovedBy(t, a, u, up),
         Connected(u), FinSent(t)
  PROVE  FinSent(u)
<1>1. CASE u = t
  BY <1>1
<1>2. t.state \notin {"SYN_SENT", "SYN_RECEIVED", "ESTABLISHED"}
  BY DEF FinSent
<1>3. CASE FinAckedBy(t, a, u)
  <2>1. t.state \in {"FIN_WAIT_1", "LAST_ACK"}
    BY <1>3 DEF FinAckedBy, FinQueued
  <2>2. u = FreeTcb \/ u.state \in {"FIN_WAIT_1", "LAST_ACK", "FIN_WAIT_2"}
    BY <1>3, <2>1 DEF FinAckedBy, Is
  <2> QED BY <2>2, FreeTcbType DEF Connected, FinSent
<1>4. CASE FinBy(t, a, u, up)
  <2>1. u.state \in {"FIN_WAIT_2", "TIME_WAIT"}
    BY <1>4 DEF FinBy, Is
  <2> QED BY <2>1 DEF FinSent
<1> QED BY <1>1, <1>2, <1>3, <1>4
        DEF MovedBy, OpenedBy, AcceptedBy, DataBy, EmptyBy

(* A segment received moves no snd_nxt.                                    *)
LEMMA MatchedBounded ==
  ASSUME SlotInv, Bounded, NEW h \in Hosts, net[h] # <<>>, NEW i \in Slots, NEW u, NEW O,
         MatchedStep(h, i, u, O)
  PROVE  Bounded'
<1> DEFINE t == tcb[h][i]
           a == Arrived(h)
<1>1. SlotInv'
  BY MatchedSlots
<1>2. /\ u \in Tcb /\ MovedBy(t, a, u, linkUp) /\ Connected(t) /\ written' = written
      /\ tcb' = [tcb EXCEPT ![h][i] = u]
  BY DEF MatchedStep, Handles, Matched, FindExact, Connected, budget
<1>3. t \in Tcb /\ t.nxt \in Nat
  BY TcbAt, TcbFields
<1>4. Connected(u) => u.nxt <= 1 + written'[h] + IF FinSent(u) THEN 1 ELSE 0
  <2> HAVE Connected(u)
  <2>1. u.nxt = t.nxt /\ (FinSent(t) => FinSent(u))
    BY <1>2, <1>3, MovedFacts, MovedFin
  <2>2. t.nxt <= 1 + written[h] + IF FinSent(t) THEN 1 ELSE 0
    BY <1>2 DEF Bounded
  <2>3. written[h] \in Nat
    BY DEF SlotInv, TypeOK
  <2> QED BY <1>2, <1>3, <2>1, <2>2, <2>3
<1>5. \A g \in Hosts : written[g] <= written'[g]
  BY <1>2 DEF SlotInv, TypeOK
<1> QED BY <1>1, <1>2, <1>4, <1>5, WrittenBounded

(* What is sent was written by the application, or is the FIN.             *)
LEMMA TrackedBounded ==
  ASSUME NoWrap, SlotInv, Bounded, NEW h \in Hosts, NEW i \in Slots, NEW u, NEW a,
         TrackedStep(h, i, u, a)
  PROVE  Bounded' /\ EndOf(a) <= MaxBytes + 2
<1> DEFINE t == tcb[h][i]
<1>1. SlotInv'
  BY TrackedSlots
<1>2. /\ Connected(t) /\ a \in Segment /\ a.seq = t.nxt
      /\ u \in Tcb /\ u.nxt = SeqEnd(a) /\ tcb' = [tcb EXCEPT ![h][i] = u]
  BY DEF TrackedStep
<1>3. \/ /\ a.flags = {"ACK"} /\ a.len > 0 /\ t.state = "ESTABLISHED"
         /\ written[h] + a.len <= MaxBytes
         /\ written' = [written EXCEPT ![h] = @ + a.len]
      \/ /\ a.flags = {"FIN", "ACK"} /\ a.len = 0 /\ t.state \in {"ESTABLISHED", "CLOSE_WAIT"}
         /\ u.state \in {"FIN_WAIT_1", "LAST_ACK"} /\ written' = written
  BY DEF TrackedStep
<1>4. ~FinSent(t)
  BY <1>3 DEF FinSent
<1>5. t.nxt \in Nat /\ written[h] \in 0 .. MaxBytes /\ t.nxt <= 1 + written[h]
  BY <1>2, <1>4, BoundedIs
<1>6. a.len \in Nat /\ EndOf(a) = a.seq + a.len + IF Control(a) THEN 1 ELSE 0
  BY <1>2, SegmentFields DEF EndOf
<1>7. written'[h] = written[h] + a.len /\ \A g \in Hosts : written[g] <= written'[g]
  <2>1. written \in [Hosts -> Nat]
    BY BoundsAssumption DEF SlotInv, TypeOK
  <2>2. (written' = written /\ a.len = 0) \/ written' = [written EXCEPT ![h] = @ + a.len]
    BY <1>3
  <2> QED BY <1>6, <2>1, <2>2
<1>8. EndOf(a) <= MaxBytes + 2
      /\ EndOf(a) <= 1 + written'[h] + IF FinSent(u) THEN 1 ELSE 0
  <2>1. CASE a.flags = {"ACK"}
    <3>1. ~Control(a) /\ written[h] + a.len <= MaxBytes
      BY <1>3, <2>1 DEF Control
    <3> QED BY <1>2, <1>5, <1>6, <1>7, <3>1, BoundsAssumption
  <2>2. CASE a.flags = {"FIN", "ACK"}
    <3>1. a.len = 0 /\ FinSent(u)
      BY <1>3, <2>2 DEF FinSent
    <3> QED BY <1>2, <1>5, <1>6, <1>7, <3>1, BoundsAssumption
  <2> QED BY <1>3, <2>1, <2>2
<1>9. u.nxt = EndOf(a)
  <2>1. EndOf(a) \in Nat /\ EndOf(a) < SeqMod
    BY <1>2, <1>8, SeqEndType, SeqAssumption, BoundsAssumption DEF NoWrap
  <2> QED BY <1>2, <2>1, SeqEndType
<1>10. Bounded'
  BY <1>1, <1>2, <1>7, <1>8, <1>9, WrittenBounded
<1> QED BY <1>8, <1>10

(* A new TCB has sent its SYN only.                                        *)
LEMMA OpenedBounded ==
  ASSUME NoWrap, SlotInv, SlotInv', Bounded, NEW h \in Hosts, NEW i \in Slots, NEW u, NEW a,
         u \in Tcb, a \in Segment, a.seq = 0, a.len = 0, u.nxt = SeqEnd(a),
         tcb' = [tcb EXCEPT ![h][i] = u], written' = written
  PROVE  Bounded'
<1>1. EndOf(a) <= 1 /\ EndOf(a) \in Nat
  BY SeqEndType DEF EndOf
<1>2. u.nxt = EndOf(a)
  BY <1>1, SeqEndType, SeqAssumption
<1>3. \A g \in Hosts : written[g] \in Nat /\ written[g] <= written'[g]
  BY DEF SlotInv, TypeOK
<1>4. u.nxt <= 1 + written'[h] + IF FinSent(u) THEN 1 ELSE 0
  BY <1>1, <1>2, <1>3
<1> QED BY <1>3, <1>4, WrittenBounded

(* tcp_connect.                                                            *)
LEMMA ConnectBounded ==
  ASSUME NoWrap, SlotInv, Bounded, NEW i \in Slots, NEW u, NEW a, ConnectStep(i, u, a)
  PROVE  Bounded'
<1>1. SlotInv' /\ "client" \in Hosts
  BY ConnectSlots DEF Hosts
<1>2. /\ u \in Tcb /\ a \in Segment /\ a.seq = 0 /\ a.len = 0 /\ u.nxt = SeqEnd(a)
      /\ tcb' = [tcb EXCEPT !["client"][i] = u] /\ written' = written
  BY DEF ConnectStep, OpensSlot, Fresh
<1> QED BY <1>1, <1>2, OpenedBounded

(* A SYN that opens a TCB.                                                 *)
LEMMA AcceptBounded ==
  ASSUME NoWrap, SlotInv, Bounded, NEW h \in Hosts, net[h] # <<>>, NEW i \in Slots,
         NEW u, NEW a, AcceptStep(h, i, u, a)
  PROVE  Bounded'
<1>1. SlotInv'
  BY AcceptSlots
<1>2. /\ u \in Tcb /\ a \in Segment /\ a.seq = 0 /\ a.len = 0 /\ u.nxt = SeqEnd(a)
      /\ tcb' = [tcb EXCEPT ![h][i] = u] /\ written' = written
  BY DEF AcceptStep, OpensSlot, Fresh, budget
<1> QED BY <1>1, <1>2, OpenedBounded

(* A slot is written with a TCB that is not connected.                     *)
LEMMA ClosedBounded ==
  ASSUME SlotInv, SlotInv', Bounded, NEW h \in Hosts, NEW i \in Slots, NEW u \in Tcb,
         ~Connected(u), tcb' = [tcb EXCEPT ![h][i] = u], written' = written
  PROVE  Bounded'
<1>1. \A g \in Hosts : written[g] <= written'[g]
  BY DEF SlotInv, TypeOK
<1> QED BY <1>1, WrittenBounded

(* tcp_listen writes a slot that is not connected, and leaves it so.       *)
LEMMA ListenWrites ==
  ASSUME SlotInv, NEW h \in Hosts, Listen(h)
  PROVE  \E i \in Slots : \E u \in Tcb :
           /\ ~Connected(u) /\ ~Connected(tcb[h][i]) /\ tcb' = [tcb EXCEPT ![h][i] = u]
           /\ UNCHANGED <<net, got, budget>>
<1> DEFINE i == FirstFree(h)
           u == [FreeTcb EXCEPT !.state = "LISTEN"]
<1>1. tcb' = [tcb EXCEPT ![h][i] = u] /\ i \in Slots /\ tcb[h][i].state = "FREE"
      /\ UNCHANGED <<net, got, budget>>
  BY FirstFreeIs DEF Listen
<1>2. u \in Tcb /\ u.state = "LISTEN"
  BY FreeTcbType DEF FreeTcb, Tcb, States
<1> HIDE DEF i, u
<1>3. ~Connected(u) /\ ~Connected(tcb[h][i])
  BY <1>1, <1>2 DEF Connected
<1> QED BY <1>1, <1>2, <1>3

(* Every step keeps sequence numbers within the bound.                     *)
LEMMA NextBounded ==
  ASSUME NoWrap, SlotInv, Bounded, Steps
  PROVE  Bounded'
<1>1. ASSUME NEW h \in Hosts, Listen(h) PROVE Bounded'
  <2>1. SlotInv'
    BY <1>1, ListenSlots
  <2>2. PICK i \in Slots : \E u \in Tcb :
           /\ ~Connected(u) /\ ~Connected(tcb[h][i]) /\ tcb' = [tcb EXCEPT ![h][i] = u]
           /\ UNCHANGED <<net, got, budget>>
    BY <1>1, ListenWrites
  <2> QED BY <2>1, <2>2, ClosedBounded DEF budget
<1>2. ASSUME NEW h \in Hosts, NEW i \in Slots, TimeWaitExpires(h, i) PROVE Bounded'
  <2>1. SlotInv' /\ tcb' = [tcb EXCEPT ![h][i] = FreeTcb] /\ written' = written
    BY <1>2, TimeWaitExpiresSlots DEF budget
  <2>2. FreeTcb \in Tcb /\ ~Connected(FreeTcb)
    BY FreeTcbType DEF Connected
  <2> QED BY <2>1, <2>2, ClosedBounded
<1>3. ASSUME tcb' = tcb, written' = written PROVE Bounded'
  BY <1>3, SameBounded
<1>4. ASSUME NEW h \in Hosts, NEW i \in Slots, Retransmit(h, i) PROVE Bounded'
  BY <1>3, <1>4 DEF Retransmit, budget
<1>5. ASSUME NEW h \in Hosts, DropStep(h) \/ Lose(h) PROVE Bounded'
  BY <1>3, <1>5 DEF DropStep, Lose, budget
<1>6. ASSUME Flap PROVE Bounded'
  BY <1>3, <1>6 DEF Flap
<1>7. ASSUME NEW i \in Slots, NEW u, NEW a, ConnectStep(i, u, a) PROVE Bounded'
  BY <1>7, ConnectBounded
<1>8. ASSUME NEW h \in Hosts, NEW i \in Slots, NEW u, NEW a, TrackedStep(h, i, u, a)
      PROVE  Bounded'
  BY <1>8, TrackedBounded
<1>9. ASSUME NEW h \in Hosts, NEW i \in Slots, NEW u, NEW a, net[h] # <<>>,
             AcceptStep(h, i, u, a)
      PROVE  Bounded'
  BY <1>9, AcceptBounded
<1>10. ASSUME NEW h \in Hosts, NEW i \in Slots, NEW u, NEW O, net[h] # <<>>,
              MatchedStep(h, i, u, O)
       PROVE  Bounded'
  BY <1>10, MatchedBounded
<1> QED BY <1>1, <1>2, <1>4, <1>5, <1>6, <1>7, <1>8, <1>9, <1>10 DEF Steps
-----------------------------------------------------------------------------
(* Connections and their numbers.                                          *)

(* What has a number is a TCB or a segment in flight.                      *)
LEMMA NumberedIs ==
  ASSUME NEW T, NEW N, NEW o
  PROVE  o \in Numbered(T, N) <=>
           \/ \E h \in Hosts, i \in Slots : o = T[h][i] /\ Connected(o)
           \/ \E h \in Hosts : o \in Flight(N[h])
BY DEF Numbered

(* A step that writes u to a slot and adds A to what is in flight.         *)
LEMMA NumberedStep ==
  ASSUME SlotInv, NEW h \in Hosts, NEW i \in Slots, NEW u \in Tcb, NEW A,
         tcb' = [tcb EXCEPT ![h][i] = u],
         \A g \in Hosts : Flight(net'[g]) \subseteq Flight(net[g]) \cup A
  PROVE  \A o \in Numbered(tcb', net') :
           o \in Numbered(tcb, net) \/ o \in A \/ (o = u /\ Connected(u))
<1> SUFFICES ASSUME NEW o \in Numbered(tcb', net')
             PROVE  o \in Numbered(tcb, net) \/ o \in A \/ (o = u /\ Connected(u))
  OBVIOUS
<1>1. ASSUME NEW g \in Hosts, NEW j \in Slots, o = tcb'[g][j], Connected(o)
      PROVE  o \in Numbered(tcb, net) \/ (o = u /\ Connected(u))
  <2>1. CASE g = h /\ j = i
    <3>1. o = u
      BY <1>1, <2>1, WroteTcb
    <3> QED BY <1>1, <3>1
  <2>2. CASE ~(g = h /\ j = i)
    <3>1. o = tcb[g][j]
      BY <1>1, <2>2, WroteTcb
    <3> QED BY <1>1, <3>1, NumberedIs
  <2> QED BY <2>1, <2>2
<1>2. ASSUME NEW g \in Hosts, o \in Flight(net'[g])
      PROVE  o \in Numbered(tcb, net) \/ o \in A
  <2>1. o \in Flight(net[g]) \/ o \in A
    BY <1>2
  <2> QED BY <2>1, NumberedIs
<1> QED BY <1>1, <1>2, NumberedIs

(* What is new has the number and the port of something that was there.    *)
SameNumbers(M, M1) ==
  \A o \in M1 : o \in M \/ \E t \in M : o.conn = t.conn /\ o.port = t.port

(* Nothing new, or new things with numbers in use, keep ports and numbers  *)
(* apart.                                                                  *)
LEMMA NumbersKept ==
  ASSUME Numbers(tcb, net, conns), conns' = conns,
         SameNumbers(Numbered(tcb, net), Numbered(tcb', net'))
  PROVE  Numbers(tcb', net', conns')
<1> DEFINE M == Numbered(tcb, net)
           M1 == Numbered(tcb', net')
<1>1. \A o \in M1 : \E t \in M : o.conn = t.conn /\ o.port = t.port
  BY DEF SameNumbers
<1>2. \A o \in M : o.conn <= conns /\ \A u \in M : o.conn = u.conn => o.port = u.port
  BY DEF Numbers
<1>3. \A o \in M1 : o.conn <= conns' /\ \A u \in M1 : o.conn = u.conn => o.port = u.port
  <2> HIDE DEF M, M1
  <2> QED BY <1>1, <1>2
<1> QED BY <1>3 DEF Numbers

(* What is in flight after Consume and after sending.                      *)
LEMMA ConsumeFlight ==
  ASSUME SlotInv, NEW h \in Hosts, net[h] # <<>>, NEW O, Consume(h, O),
         O = <<>> \/ \E a \in Segment : O = <<a>>
  PROVE  /\ \A g \in Hosts : Flight(net'[g]) \subseteq Flight(net[g]) \cup Flight(O)
         /\ Flight(net'[h]) \subseteq Flight(net[h])
<1>1. net[h] \in Seq(Segment) /\ net[Other(h)] \in Seq(Segment)
  BY HostsIs DEF SlotInv, TypeOK
<1>2. O \in Seq(Segment)
  <2>1. CASE O = <<>>
    BY <2>1
  <2>2. ASSUME NEW a \in Segment, O = <<a>> PROVE O \in Seq(Segment)
    BY <2>2
  <2> QED BY <2>1, <2>2
<1>3. net'[h] = Tail(net[h]) /\ net'[Other(h)] = net[Other(h)] \o IF linkUp THEN O ELSE <<>>
  BY <1>2, ConsumeIs
<1>4. Flight(net'[h]) \subseteq Flight(net[h])
  BY <1>1, <1>3, FlightTail
<1>5. Flight(net'[Other(h)]) \subseteq Flight(net[Other(h)]) \cup Flight(O)
  <2>1. CASE net'[Other(h)] = net[Other(h)]
    BY <2>1
  <2>2. ASSUME NEW a \in Segment, O = <<a>>, net'[Other(h)] = net[Other(h)] \o O
        PROVE  Flight(net'[Other(h)]) \subseteq Flight(net[Other(h)]) \cup Flight(O)
    <3>1. Flight(Append(net[Other(h)], a)) = Flight(net[Other(h)]) \cup {a}
          /\ net[Other(h)] \o <<a>> = Append(net[Other(h)], a)
      BY <1>1, FlightAppend
    <3>2. Flight(O) = {a}
      BY <2>2, FlightOf
    <3> QED BY <2>2, <3>1, <3>2
  <2>3. CASE O = <<>> \/ ~linkUp
    <3>1. net'[Other(h)] = net[Other(h)] \o <<>>
      BY <1>3, <2>3
    <3> QED BY <1>1, <2>1, <3>1
  <2> QED BY <1>3, <2>2, <2>3
<1>6. Hosts = {h, Other(h)}
  BY DEF Hosts, Other
<1> QED BY <1>4, <1>5, <1>6

(* What is in flight after sending.                                        *)
LEMMA SendFlight ==
  ASSUME SlotInv, NEW h \in Hosts, NEW a \in Segment,
         net' = [net EXCEPT ![h] = Append(@, a)]
  PROVE  /\ \A g \in Hosts : Flight(net'[g]) \subseteq Flight(net[g]) \cup {a}
         /\ \A g \in Hosts : g # h => net'[g] = net[g]
<1>1. \A g \in Hosts : net[g] \in Seq(Segment)
  BY DEF SlotInv, TypeOK
<1>2. net'[h] = Append(net[h], a) /\ \A g \in Hosts : g # h => net'[g] = net[g]
  BY DEF SlotInv, TypeOK
<1>3. Flight(net'[h]) = Flight(net[h]) \cup {a}
  BY <1>1, <1>2, FlightAppend
<1> QED BY <1>2, <1>3

(* An answer has the number of its TCB.                                    *)
LEMMA MatchedNumbers ==
  ASSUME SlotInv, Numbers(tcb, net, conns), NEW h \in Hosts, net[h] # <<>>,
         NEW i \in Slots, NEW u, NEW O, MatchedStep(h, i, u, O)
  PROVE  Numbers(tcb', net', conns')
<1> DEFINE t == tcb[h][i]
           a == Arrived(h)
<1>1. /\ u \in Tcb /\ MovedBy(t, a, u, linkUp) /\ AnswerOf(u, O) /\ Connected(t)
      /\ tcb' = [tcb EXCEPT ![h][i] = u] /\ Consume(h, O) /\ conns' = conns
  BY DEF MatchedStep, Handles, Matched, FindExact, Connected, budget
<1>2. t \in Tcb /\ InUse(t)
  BY TcbAt
<1>3. (Connected(u) => u.port = t.port /\ u.conn = t.conn) /\ (~Connected(u) => u = FreeTcb)
  BY <1>1, <1>2, MovedFacts
<1>4. InUse(u)
  BY <1>1, <1>2, <1>3 DEF InUse, FreeTcb
<1>5. /\ O = <<>> \/ \E x \in Segment : O = <<x>>
      /\ \A o \in Flight(O) : o.conn = t.conn /\ o.port = t.port
  <2>1. CASE O = <<>>
    BY <2>1, FlightOf
  <2>2. CASE Connected(u) /\ O = <<Seg(u, {"ACK"}, 0)>>
    <3> DEFINE x == Seg(u, {"ACK"}, 0)
    <3>1. 0 \in 0 .. MaxBytes
      BY BoundsAssumption
    <3>2. x \in Segment
      BY <1>1, <1>4, <2>2, <3>1, SegType
    <3>3. x.port = u.port /\ x.conn = u.conn
      BY DEF Seg
    <3>4. O = <<x>>
      BY <2>2
    <3> HIDE DEF x
    <3>5. Flight(O) = {x}
      BY <3>4, FlightOf
    <3> QED BY <1>3, <2>2, <3>2, <3>3, <3>4, <3>5
  <2> QED BY <1>1, <2>1, <2>2 DEF AnswerOf
<1>6. \A g \in Hosts : Flight(net'[g]) \subseteq Flight(net[g]) \cup Flight(O)
  BY <1>1, <1>5, ConsumeFlight
<1>7. t \in Numbered(tcb, net)
  BY <1>1, NumberedIs
<1>8. \A o \in Numbered(tcb', net') :
        o \in Numbered(tcb, net) \/ o \in Flight(O) \/ (o = u /\ Connected(u))
  BY <1>1, <1>6, NumberedStep
<1> HIDE DEF t, a
<1>9. SameNumbers(Numbered(tcb, net), Numbered(tcb', net'))
  BY <1>3, <1>5, <1>7, <1>8 DEF SameNumbers
<1> QED BY <1>1, <1>9, NumbersKept

(* What is sent has the number of its TCB.                                 *)
LEMMA TrackedNumbers ==
  ASSUME SlotInv, Numbers(tcb, net, conns), NEW h \in Hosts,
         NEW i \in Slots, NEW u, NEW a, TrackedStep(h, i, u, a)
  PROVE  Numbers(tcb', net', conns')
<1> DEFINE t == tcb[h][i]
<1>1. /\ u \in Tcb /\ Connected(t) /\ a \in Segment /\ conns' = conns
      /\ u.port = t.port /\ u.conn = t.conn /\ a.port = t.port /\ a.conn = t.conn
      /\ tcb' = [tcb EXCEPT ![h][i] = u]
      /\ net' = [net EXCEPT ![Other(h)] = Append(@, a)]
  BY DEF TrackedStep
<1>2. \A g \in Hosts : Flight(net'[g]) \subseteq Flight(net[g]) \cup {a}
  BY <1>1, HostsIs, SendFlight
<1>3. t \in Numbered(tcb, net)
  BY <1>1, NumberedIs
<1>4. \A o \in Numbered(tcb', net') :
        o \in Numbered(tcb, net) \/ o \in {a} \/ (o = u /\ Connected(u))
  BY <1>1, <1>2, NumberedStep
<1> HIDE DEF t
<1>5. SameNumbers(Numbered(tcb, net), Numbered(tcb', net'))
  BY <1>1, <1>3, <1>4 DEF SameNumbers
<1> QED BY <1>1, <1>5, NumbersKept

(* A TCB opened by a SYN has the number of the SYN.                        *)
LEMMA AcceptNumbers ==
  ASSUME SlotInv, Numbers(tcb, net, conns), NEW h \in Hosts, net[h] # <<>>,
         NEW i \in Slots, NEW u, NEW a, AcceptStep(h, i, u, a)
  PROVE  Numbers(tcb', net', conns')
<1> DEFINE b == Arrived(h)
           O == <<a>>
<1>1. /\ u \in Tcb /\ a \in Segment /\ conns' = conns /\ Consume(h, O)
      /\ u.port = b.port /\ u.conn = b.conn /\ a.port = b.port /\ a.conn = b.conn
      /\ tcb' = [tcb EXCEPT ![h][i] = u]
  BY DEF AcceptStep, OpensSlot, Fresh, budget
<1>2. Flight(O) = {a} /\ \E x \in Segment : O = <<x>>
  BY <1>1, FlightOf
<1>3. b \in Numbered(tcb, net)
  <2>1. net[h] \in Seq(Segment)
    BY DEF SlotInv, TypeOK
  <2>2. b \in Flight(net[h])
    BY <2>1, FlightTail DEF Arrived
  <2> QED BY <2>2, NumberedIs
<1> HIDE DEF b, O
<1>4. \A g \in Hosts : Flight(net'[g]) \subseteq Flight(net[g]) \cup Flight(O)
  BY <1>1, <1>2, ConsumeFlight
<1>5. \A o \in Numbered(tcb', net') :
        o \in Numbered(tcb, net) \/ o \in Flight(O) \/ (o = u /\ Connected(u))
  BY <1>1, <1>4, NumberedStep
<1>6. SameNumbers(Numbered(tcb, net), Numbered(tcb', net'))
  BY <1>1, <1>2, <1>3, <1>5 DEF SameNumbers
<1> QED BY <1>1, <1>6, NumbersKept

(* Numbers are those of connections.                                       *)
LEMMA NumberedType ==
  ASSUME SlotInv, NEW o \in Numbered(tcb, net)
  PROVE  o.conn \in 1 .. MaxConns
<1>1. ASSUME NEW h \in Hosts, NEW i \in Slots, o = tcb[h][i], Connected(o)
      PROVE  o.conn \in 1 .. MaxConns
  <2>1. InUse(o)
    BY <1>1, TcbAt
  <2> QED BY <1>1, <2>1 DEF InUse
<1>2. ASSUME NEW h \in Hosts, o \in Flight(net[h]) PROVE o.conn \in 1 .. MaxConns
  <2>1. o \in Segment
    BY <1>2 DEF SlotInv, TypeOK, Flight
  <2> QED BY <2>1, SegmentFields
<1> QED BY <1>1, <1>2, NumberedIs

(* tcp_connect takes the next number.                                      *)
LEMMA ConnectNumbers ==
  ASSUME SlotInv, Numbers(tcb, net, conns), NEW i \in Slots, NEW u, NEW a,
         ConnectStep(i, u, a)
  PROVE  Numbers(tcb', net', conns')
<1> DEFINE M == Numbered(tcb, net)
           M1 == Numbered(tcb', net')
<1>1. /\ u \in Tcb /\ a \in Segment /\ conns' = conns + 1
      /\ u.port = a.port /\ u.conn = conns + 1 /\ a.conn = conns + 1
      /\ tcb' = [tcb EXCEPT !["client"][i] = u]
      /\ net' = [net EXCEPT !["server"] = Append(@, a)]
  BY DEF ConnectStep, OpensSlot, Fresh
<1>2. "client" \in Hosts /\ "server" \in Hosts
  BY DEF Hosts
<1>3. \A g \in Hosts : Flight(net'[g]) \subseteq Flight(net[g]) \cup {a}
  BY <1>1, <1>2, SendFlight
<1>4. \A o \in M1 : o \in M \/ o \in {a} \/ (o = u /\ Connected(u))
  BY <1>1, <1>2, <1>3, NumberedStep
<1>5. \A o \in M : o.conn \in Nat /\ o.conn <= conns
  BY NumberedType DEF Numbers
<1>6. \A o, v \in M : o.conn = v.conn => o.port = v.port
  BY DEF Numbers
<1>7. conns \in Nat
  BY DEF SlotInv, TypeOK
<1>8. \A o \in M1 : o.conn <= conns' /\ \A v \in M1 : o.conn = v.conn => o.port = v.port
  <2> HIDE DEF M, M1
  <2> QED BY <1>1, <1>4, <1>5, <1>6, <1>7
<1> QED BY <1>8 DEF Numbers

(* A segment that a TCB still holds in its queue is sent again.            *)
LEMMA RetransmitNumbers ==
  ASSUME Core, Numbers(tcb, net, conns), NEW h \in Hosts, NEW i \in Slots, Retransmit(h, i)
  PROVE  Numbers(tcb', net', conns')
<1> DEFINE t == tcb[h][i]
           a == t.q
<1>0. SlotInv /\ tcb' = tcb /\ conns' = conns
  BY DEF Core, Retransmit, budget
<1>1. CASE net' = net
  BY <1>0, <1>1
<1>2. CASE Unacked(t) /\ net' = [net EXCEPT ![Other(h)] = Append(@, a)]
  <2>1. t \in Tcb /\ Connected(t) /\ a \in Segment /\ t.port \in Ports
    <3>1. t \in Tcb /\ InUse(t)
      BY <1>0, TcbAt
    <3> QED BY <1>2, <3>1, TcbFields DEF Unacked, InUse
  <2>2. TcbOk(t)
    <3>1. t \in TcbsOf(tcb, h, t.port)
      BY <2>1 DEF TcbsOf
    <3>2. PortInv(tcb, net, t.port)
      BY <2>1 DEF Core
    <3> QED BY <3>1, <3>2 DEF PortInv, PortOk, Sorts, Hosts
  <2>3. a.port = t.port /\ a.conn = t.conn
    BY <1>2, <2>2 DEF TcbOk, QueueOk, Unacked
  <2>4. \A g \in Hosts : Flight(net'[g]) \subseteq Flight(net[g]) \cup {a}
    BY <1>0, <1>2, <2>1, HostsIs, SendFlight
  <2>5. t \in Numbered(tcb, net)
    BY <2>1, NumberedIs
  <2>6. \A o \in Numbered(tcb', net') :
          o \in Numbered(tcb, net) \/ o \in {a}
    BY <1>0, <2>4 DEF Numbered
  <2> HIDE DEF t, a
  <2>7. SameNumbers(Numbered(tcb, net), Numbered(tcb', net'))
    BY <2>3, <2>5, <2>6 DEF SameNumbers
  <2> QED BY <1>0, <2>7, NumbersKept
<1> QED BY <1>1, <1>2 DEF Retransmit

(* Nothing is new.                                                         *)
LEMMA FewerNumbers ==
  ASSUME SlotInv, Numbers(tcb, net, conns), conns' = conns,
         tcb' = tcb \/ \E h \in Hosts, i \in Slots : \E u \in Tcb :
                         ~Connected(u) /\ tcb' = [tcb EXCEPT ![h][i] = u],
         \A g \in Hosts : Flight(net'[g]) \subseteq Flight(net[g])
  PROVE  Numbers(tcb', net', conns')
<1>1. CASE tcb' = tcb
  <2>1. Numbered(tcb', net') \subseteq Numbered(tcb, net)
    BY <1>1 DEF Numbered
  <2>2. SameNumbers(Numbered(tcb, net), Numbered(tcb', net'))
    BY <2>1 DEF SameNumbers
  <2> QED BY <2>2, NumbersKept
<1>2. ASSUME NEW h \in Hosts, NEW i \in Slots, NEW u \in Tcb, ~Connected(u),
             tcb' = [tcb EXCEPT ![h][i] = u]
      PROVE  Numbers(tcb', net', conns')
  <2>1. \A g \in Hosts : Flight(net'[g]) \subseteq Flight(net[g]) \cup {}
    OBVIOUS
  <2>2. \A o \in Numbered(tcb', net') :
          o \in Numbered(tcb, net) \/ o \in {} \/ (o = u /\ Connected(u))
    BY <1>2, <2>1, NumberedStep
  <2>3. SameNumbers(Numbered(tcb, net), Numbered(tcb', net'))
    BY <1>2, <2>2 DEF SameNumbers
  <2> QED BY <2>3, NumbersKept
<1> QED BY <1>1, <1>2

(* Every step keeps the numbers of connections.                            *)
LEMMA NextNumbers ==
  ASSUME Core, Numbers(tcb, net, conns), Steps
  PROVE  Numbers(tcb', net', conns')
<1> DEFINE Good == Numbers(tcb', net', conns')
<1>0. SlotInv
  BY DEF Core
<1>1. ASSUME NEW h \in Hosts, Listen(h) PROVE Good
  <2>1. PICK i \in Slots : \E u \in Tcb :
           /\ ~Connected(u) /\ ~Connected(tcb[h][i]) /\ tcb' = [tcb EXCEPT ![h][i] = u]
           /\ UNCHANGED <<net, got, budget>>
    BY <1>0, <1>1, ListenWrites
  <2>2. \A g \in Hosts : Flight(net'[g]) \subseteq Flight(net[g])
    BY <2>1
  <2> QED BY <1>0, <2>1, <2>2, FewerNumbers DEF budget
<1>2. ASSUME NEW h \in Hosts, NEW i \in Slots, TimeWaitExpires(h, i) PROVE Good
  <2>1. tcb' = [tcb EXCEPT ![h][i] = FreeTcb] /\ conns' = conns /\ net' = net
    BY <1>0, <1>2, TimeWaitExpiresSlots DEF budget
  <2>2. FreeTcb \in Tcb /\ ~Connected(FreeTcb)
    BY FreeTcbType DEF Connected
  <2>3. \A g \in Hosts : Flight(net'[g]) \subseteq Flight(net[g])
    BY <2>1
  <2> QED BY <1>0, <2>1, <2>2, <2>3, FewerNumbers
<1>3. ASSUME NEW h \in Hosts, net[h] # <<>>, DropStep(h) PROVE Good
  <2>1. tcb' = tcb /\ conns' = conns /\ Consume(h, <<>>)
    BY <1>3 DEF DropStep, budget
  <2> DEFINE O == <<>>
  <2>2. Consume(h, O) /\ Flight(O) = {} /\ O = <<>>
    BY <2>1, FlightOf
  <2> HIDE DEF O
  <2>3. \A g \in Hosts : Flight(net'[g]) \subseteq Flight(net[g]) \cup Flight(O)
    BY <1>0, <1>3, <2>2, ConsumeFlight
  <2>4. \A g \in Hosts : Flight(net'[g]) \subseteq Flight(net[g])
    BY <2>2, <2>3
  <2> QED BY <1>0, <2>1, <2>4, FewerNumbers
<1>4. ASSUME NEW h \in Hosts, Lose(h) PROVE Good
  <2>1. /\ tcb' = tcb /\ conns' = conns /\ net[h] # <<>>
        /\ net' = [net EXCEPT ![h] = Tail(@)]
    BY <1>4 DEF Lose
  <2>2. \A g \in Hosts : net[g] \in Seq(Segment)
    BY <1>0 DEF SlotInv, TypeOK
  <2>3. \A g \in Hosts : net'[g] = net[g] \/ (g = h /\ net'[g] = Tail(net[g]))
    BY <1>0, <2>1 DEF SlotInv, TypeOK
  <2>4. \A g \in Hosts : Flight(net'[g]) \subseteq Flight(net[g])
    BY <2>1, <2>2, <2>3, FlightTail
  <2> QED BY <1>0, <2>1, <2>4, FewerNumbers
<1>5. ASSUME Flap PROVE Good
  BY <1>5 DEF Flap
<1>6. ASSUME NEW h \in Hosts, NEW i \in Slots, Retransmit(h, i) PROVE Good
  BY <1>6, RetransmitNumbers
<1>7. ASSUME NEW i \in Slots, NEW u, NEW a, ConnectStep(i, u, a) PROVE Good
  BY <1>0, <1>7, ConnectNumbers
<1>8. ASSUME NEW h \in Hosts, NEW i \in Slots, NEW u, NEW a, TrackedStep(h, i, u, a)
      PROVE  Good
  BY <1>0, <1>8, TrackedNumbers
<1>9. ASSUME NEW h \in Hosts, NEW i \in Slots, NEW u, NEW a, net[h] # <<>>,
             AcceptStep(h, i, u, a)
      PROVE  Good
  BY <1>0, <1>9, AcceptNumbers
<1>10. ASSUME NEW h \in Hosts, NEW i \in Slots, NEW u, NEW O, net[h] # <<>>,
              MatchedStep(h, i, u, O)
       PROVE  Good
  BY <1>0, <1>10, MatchedNumbers
<1> HIDE DEF Good
<1>11. Good
  BY <1>1, <1>2, <1>3, <1>4, <1>5, <1>6, <1>7, <1>8, <1>9, <1>10 DEF Steps
<1> QED BY <1>11 DEF Good

(* Every step keeps every port and both queues in order.                   *)
LEMMA NextCore ==
  ASSUME NoWrap, Core, Numbers(tcb, net, conns), Bounded, Steps
  PROVE  Core'
<1>0. SlotInv
  BY DEF Core
<1>1. ASSUME NEW h \in Hosts, NEW i \in Slots, NEW u, NEW a, TrackedStep(h, i, u, a)
      PROVE  Core'
  BY <1>0, <1>1, TrackedBounded, TrackedCore
<1>2. ASSUME NEW h \in Hosts, NEW i \in Slots, NEW u, NEW O, net[h] # <<>>,
             MatchedStep(h, i, u, O)
      PROVE  Core'
  <2>1. Connected(tcb[h][i])
    BY <1>2 DEF MatchedStep, Matched, FindExact, Connected
  <2>2. tcb[h][i].nxt <= MaxBytes + 2
    BY <1>0, <2>1, BoundedIs
  <2> QED BY <1>2, <2>2, MatchedCore
<1>3. ASSUME NEW h \in Hosts, Listen(h) PROVE Core'
  BY <1>3, ListenCore
<1>4. ASSUME NEW h \in Hosts, NEW i \in Slots, TimeWaitExpires(h, i) PROVE Core'
  BY <1>4, TimeWaitExpiresCore
<1>5. ASSUME NEW h \in Hosts, NEW i \in Slots, Retransmit(h, i) PROVE Core'
  BY <1>5, RetransmitCore
<1>6. ASSUME NEW h \in Hosts, net[h] # <<>>, DropStep(h) PROVE Core'
  BY <1>6, DropCore
<1>7. ASSUME NEW h \in Hosts, Lose(h) PROVE Core'
  BY <1>7, LoseCore
<1>8. ASSUME Flap PROVE Core'
  <2>1. SlotInv' /\ tcb' = tcb /\ net' = net
    BY <1>0, <1>8, LinkSlots DEF Flap
  <2> QED BY <2>1 DEF Core
<1>9. ASSUME NEW i \in Slots, NEW u, NEW a, ConnectStep(i, u, a) PROVE Core'
  BY <1>9, ConnectCore
<1>10. ASSUME NEW h \in Hosts, NEW i \in Slots, NEW u, NEW a, net[h] # <<>>,
              AcceptStep(h, i, u, a)
       PROVE  Core'
  BY <1>10, AcceptCore
<1> QED BY <1>1, <1>2, <1>3, <1>4, <1>5, <1>6, <1>7, <1>8, <1>9, <1>10 DEF Steps
-----------------------------------------------------------------------------
(* Send queues and sequence spaces, in every reachable state.              *)

(* The initial state satisfies the first part of the invariant.            *)
LEMMA InitCore ==
  ASSUME Init
  PROVE  Core /\ Numbers(tcb, net, conns) /\ Bounded
<1>1. SlotInv
  BY InitSlots
<1>2. \A h \in Hosts, i \in Slots : tcb[h][i] = FreeTcb
  BY DEF Init
<1>3. ~Connected(FreeTcb)
  BY FreeTcbType DEF Connected
<1>4. \A h \in Hosts : net[h] = <<>> /\ Flight(net[h]) = {}
  BY FlightOf DEF Init
<1>5. \A h \in Hosts : \A p : TcbsOf(tcb, h, p) = {} /\ SegsOf(net, h, p) = {}
  BY <1>2, <1>3, <1>4 DEF TcbsOf, SegsOf
<1>6. ASSUME NEW p \in Ports PROVE PortInv(tcb, net, p)
  <2>1. /\ TcbsOf(tcb, "client", p) = {} /\ TcbsOf(tcb, "server", p) = {}
        /\ SegsOf(net, "client", p) = {} /\ SegsOf(net, "server", p) = {}
    BY <1>5 DEF Hosts
  <2>2. PortOk({}, {}, {}, {})
    BY DEF PortOk, Sorts, Ages, Handshake, Window
  <2> QED BY <2>1, <2>2 DEF PortInv
<1>7. ASSUME NEW h \in Hosts PROVE Ordered(net[h])
  BY <1>4 DEF Ordered
<1>8. Numbered(tcb, net) = {}
  BY <1>2, <1>3, <1>4 DEF Numbered
<1>9. Numbers(tcb, net, conns)
  BY <1>8 DEF Numbers
<1>10. Bounded
  BY <1>2, <1>3 DEF Bounded
<1> QED BY <1>1, <1>6, <1>7, <1>9, <1>10 DEF Core

Base == Core /\ Numbers(tcb, net, conns) /\ Bounded

(* Every step keeps the first part of the invariant.                       *)
LEMMA NextBase ==
  ASSUME NoWrap, Base, [Next]_vars
  PROVE  Base'
<1>0. SlotInv
  BY DEF Base, Core
<1>1. CASE Next
  <2>1. Steps
    BY <1>0, <1>1, NextIs
  <2>2. Core' /\ Bounded'
    BY <1>0, <2>1, NextCore, NextBounded DEF Base
  <2>3. Numbers(tcb', net', conns')
    BY <2>1, NextNumbers DEF Base
  <2> QED BY <2>2, <2>3 DEF Base
<1>2. CASE UNCHANGED vars
  <2>1. SlotInv'
    BY <1>0, <1>2, NextSlots
  <2>2. tcb' = tcb /\ net' = net /\ conns' = conns /\ written' = written
    BY <1>2 DEF vars, budget
  <2>3. Core'
    BY <2>1, <2>2 DEF Base, Core
  <2>4. Bounded'
    BY <2>2, SameBounded DEF Base
  <2> QED BY <2>2, <2>3, <2>4 DEF Base
<1> QED BY <1>1, <1>2

(* What Core says of one TCB in use.                                       *)
LEMMA CoreTcb ==
  ASSUME Core, NEW h \in Hosts, NEW i \in Slots, Connected(tcb[h][i])
  PROVE  /\ tcb[h][i] \in Tcb /\ tcb[h][i].port \in Ports
         /\ tcb[h][i] \in TcbsOf(tcb, h, tcb[h][i].port) /\ TcbOk(tcb[h][i])
<1> DEFINE t == tcb[h][i]
<1>1. t \in Tcb /\ t.port \in Ports
  BY TcbAt DEF Core, InUse
<1>2. t \in TcbsOf(tcb, h, t.port)
  BY DEF TcbsOf
<1>3. PortInv(tcb, net, t.port)
  BY <1>1 DEF Core
<1>4. TcbOk(t)
  BY <1>2, <1>3 DEF PortInv, PortOk, Sorts, Hosts
<1> QED BY <1>1, <1>2, <1>4

(* The invariant gives TcbInv.                                             *)
LEMMA BaseQueues ==
  ASSUME NoWrap, Base
  PROVE  TcbInv
<1>1. Core /\ TypeOK
  BY DEF Base, Core, SlotInv
<1>2. ASSUME NEW h \in Hosts, NEW i \in Slots, Connected(tcb[h][i])
      PROVE  LET t == tcb[h][i]
             IN  IF Unacked(t) THEN t.q.seq = t.una /\ SeqEnd(t.q) = t.nxt
                 ELSE t.una = t.nxt
  <2> DEFINE t == tcb[h][i]
  <2>1. t \in Tcb /\ TcbOk(t)
    BY <1>1, <1>2, CoreTcb
  <2>2. CASE t.q = NoSeg
    BY <2>1, <2>2 DEF TcbOk, QueueOk, Unacked
  <2>3. CASE t.q # NoSeg
    <3>1. t.q \in Segment
      BY <2>1, <2>3, TcbFields
    <3>2. t.q.seq = t.una /\ EndOf(t.q) = t.nxt /\ EndOf(t.q) <= MaxBytes + 2
      BY <2>1, <2>3 DEF TcbOk, QueueOk, SegOk
    <3>3. EndOf(t.q) \in Nat /\ EndOf(t.q) < SeqMod
      BY <3>1, <3>2, SeqEndType, SeqAssumption, BoundsAssumption DEF NoWrap
    <3>4. SeqEnd(t.q) = t.nxt
      BY <3>1, <3>2, <3>3, SeqEndType
    <3> QED BY <2>3, <3>2, <3>4 DEF Unacked
  <2> QED BY <2>2, <2>3
<1> QED BY <1>1, <1>2 DEF TcbInv, SendqExact

(* The invariant gives SeqSpaceAgrees.                                     *)
LEMMA BaseAgrees ==
  ASSUME Base
  PROVE  SeqSpaceAgrees
<1>1. Core /\ Numbers(tcb, net, conns)
  BY DEF Base
<1> SUFFICES ASSUME NEW h \in Hosts, NEW i \in Slots, NEW j \in Slots, Ends(h, i, j)
             PROVE  /\ tcb[h][i].una <= tcb[Other(h)][j].rcv
                    /\ tcb[Other(h)][j].rcv <= tcb[h][i].nxt
  BY DEF SeqSpaceAgrees
<1> DEFINE t == tcb[h][i]
           y == tcb[Other(h)][j]
           p == t.port
<1>2. Connected(t) /\ Connected(y) /\ t.conn = y.conn /\ Other(h) \in Hosts
  BY HostsIs DEF Ends
<1>3. t \in Tcb /\ p \in Ports /\ t \in TcbsOf(tcb, h, p) /\ TcbOk(t)
  BY <1>1, <1>2, CoreTcb
<1>4. y \in Tcb /\ y \in TcbsOf(tcb, Other(h), y.port)
  BY <1>1, <1>2, CoreTcb
<1>5. y.port = p
  <2>1. t \in Numbered(tcb, net) /\ y \in Numbered(tcb, net)
    BY <1>2, NumberedIs
  <2> QED BY <1>1, <1>2, <2>1 DEF Numbers
<1>6. HostPort(h, TcbsOf(tcb, h, p), TcbsOf(tcb, Other(h), p), SegsOf(net, Other(h), p),
               SegsOf(net, h, p))
  BY <1>1, <1>3, PortInvIs DEF Core
<1>7. Window(TcbsOf(tcb, h, p), TcbsOf(tcb, Other(h), p), SegsOf(net, Other(h), p),
             SegsOf(net, h, p))
  BY <1>6, HostFacts
<1>8. y.rcv = t.una \/ y.rcv = t.nxt
  <2> HIDE DEF t, y, p
  <2> QED BY <1>2, <1>3, <1>4, <1>5, <1>7 DEF Window
<1>9. t.una \in Nat /\ t.nxt \in Nat /\ t.una <= t.nxt
  BY <1>3, TcbOrder
<1> QED BY <1>8, <1>9

(* Every TCB keeps the stop-and-wait bookkeeping: a clone for              *)
(* retransmission exactly while something is unacknowledged, and the clone *)
(* is that something (tcp_sendq_ack, tcp_send, tcp_close), for every       *)
(* number of slots, connections, losses, retransmissions and link changes. *)
THEOREM QueuesExact ==
  ASSUME NoWrap
  PROVE  Spec => []TcbInv
<1>1. Init => Base
  BY InitCore DEF Base
<1>2. Base /\ [Next]_vars => Base'
  BY NextBase
<1>3. Base => TcbInv
  BY BaseQueues
<1> QED BY <1>1, <1>2, <1>3, PTL DEF Spec

(* The two ends of a connection agree on the sequence space: what one end  *)
(* takes as acknowledged the other has received, and what one end has      *)
(* received the other has sent, also when old segments of an earlier       *)
(* connection of the port are still in flight.                             *)
THEOREM SpacesAgree ==
  ASSUME NoWrap
  PROVE  Spec => []SeqSpaceAgrees
<1>1. Init => Base
  BY InitCore DEF Base
<1>2. Base /\ [Next]_vars => Base'
  BY NextBase
<1>3. Base => SeqSpaceAgrees
  BY BaseAgrees
<1> QED BY <1>1, <1>2, <1>3, PTL DEF Spec
-----------------------------------------------------------------------------
(* Delivery in order and at most once.                                     *)

Rising(s) == \A m, n \in 1 .. Len(s) : m < n => s[m] < s[n]
Below(s, x) == \A n \in 1 .. Len(s) : s[n] < x

(* Delivered, stream by stream.                                            *)
LEMMA DeliveredIs ==
  Delivered <=>
    /\ \A h \in Hosts, i \in Slots :
         Connected(tcb[h][i]) => Below(got[h][tcb[h][i].conn], tcb[h][i].rcv)
    /\ \A i \in Slots : tcb["client"][i].state = "SYN_SENT" =>
         got["server"][tcb["client"][i].conn] = <<>>
    /\ \A h \in Hosts, c \in 1 .. MaxConns : c > conns => got[h][c] = <<>>
    /\ \A h \in Hosts, c \in 1 .. MaxConns : Rising(got[h][c])
BY DEF Delivered, OrderedDelivery, Rising, Below

(* What lies below a number lies below a greater one.                      *)
LEMMA BelowMore ==
  ASSUME NEW s \in Seq(Seqs), NEW x \in Nat, NEW y \in Nat, x <= y, Below(s, x)
  PROVE  Below(s, y)
<1>1. \A n \in 1 .. Len(s) : s[n] \in Nat
  BY SeqAssumption DEF Seqs
<1> QED BY <1>1 DEF Below

(* The empty stream.                                                       *)
LEMMA NothingBelow ==
  ASSUME NEW s, s = <<>>, NEW x
  PROVE  Below(s, x) /\ Rising(s)
BY DEF Below, Rising

(* The bytes of a segment follow what was delivered below its number.      *)
LEMMA BytesRise ==
  ASSUME NEW s \in Seq(Seqs), NEW a \in Segment, a.seq + a.len < SeqMod,
         Below(s, a.seq), Rising(s)
  PROVE  Below(s \o Bytes(a), a.seq + a.len) /\ Rising(s \o Bytes(a))
<1> DEFINE r == s \o Bytes(a)
           k == Len(s)
<1>1. a.seq \in Nat /\ a.len \in Nat /\ k \in Nat /\ SeqMod \in Nat
  BY SegmentFields, SeqAssumption
<1>2. Bytes(a) \in Seq(Seqs) /\ Len(Bytes(a)) = a.len
      /\ \A n \in 1 .. a.len : Bytes(a)[n] = Plus(a.seq, n - 1)
  BY BytesType
<1>3. \A n \in 1 .. a.len : Bytes(a)[n] = a.seq + n - 1
  <2> SUFFICES ASSUME NEW n \in 1 .. a.len PROVE Bytes(a)[n] = a.seq + n - 1
    OBVIOUS
  <2>1. n - 1 \in Nat /\ a.seq + (n - 1) < SeqMod
    BY <1>1
  <2>2. Plus(a.seq, n - 1) = a.seq + (n - 1)
    BY <1>1, <2>1, PlusType
  <2> QED BY <1>1, <1>2, <2>2
<1>4. Len(r) = k + a.len
  <2>1. s \in Seq(Seqs) /\ Bytes(a) \in Seq(Seqs)
    BY <1>2
  <2>2. Len(s \o Bytes(a)) = Len(s) + Len(Bytes(a))
    BY <2>1
  <2> QED BY <1>2, <2>2
<1>5. \A n \in 1 .. k : r[n] = s[n] /\ s[n] \in Nat /\ s[n] < a.seq
  BY <1>2, SeqAssumption DEF Below, Seqs
<1>6. \A n \in k + 1 .. k + a.len : r[n] = a.seq + (n - k) - 1
  <2> SUFFICES ASSUME NEW n \in k + 1 .. k + a.len PROVE r[n] = a.seq + (n - k) - 1
    OBVIOUS
  <2>1. n - k \in 1 .. a.len
    BY <1>1
  <2>2. r[n] = Bytes(a)[n - k]
    BY <1>1, <1>2, <2>1
  <2> QED BY <1>3, <2>1, <2>2
<1> HIDE DEF r, k
<1>7. Below(r, a.seq + a.len)
  <2> SUFFICES ASSUME NEW n \in 1 .. k + a.len PROVE r[n] < a.seq + a.len
    BY <1>4 DEF Below
  <2>1. CASE n \in 1 .. k
    BY <1>1, <1>5, <2>1
  <2>2. CASE n \in k + 1 .. k + a.len
    BY <1>1, <1>6, <2>2
  <2> QED BY <1>1, <2>1, <2>2
<1>8. Rising(r)
  <2> SUFFICES ASSUME NEW m \in 1 .. k + a.len, NEW n \in 1 .. k + a.len, m < n
               PROVE  r[m] < r[n]
    BY <1>4 DEF Rising
  <2>1. CASE n \in 1 .. k
    <3>1. m \in 1 .. k
      BY <1>1, <2>1
    <3> QED BY <1>5, <2>1, <3>1 DEF Rising, k
  <2>2. CASE n \in k + 1 .. k + a.len /\ m \in 1 .. k
    <3>1. r[m] < a.seq /\ r[m] \in Nat
      BY <1>5, <2>2
    <3>2. r[n] = a.seq + (n - k - 1) /\ n - k - 1 \in Nat
      BY <1>1, <1>6, <2>2
    <3> QED BY <1>1, <3>1, <3>2
  <2>3. CASE n \in k + 1 .. k + a.len /\ m \in k + 1 .. k + a.len
    BY <1>1, <1>6, <2>3
  <2> QED BY <1>1, <2>1, <2>2, <2>3
<1> QED BY <1>7, <1>8 DEF r

(* A slot is written and nothing is delivered.                             *)
LEMMA WrittenDelivered ==
  ASSUME SlotInv, Delivered, NEW h \in Hosts, NEW i \in Slots, NEW u \in Tcb, NEW t,
         t = tcb[h][i], tcb' = [tcb EXCEPT ![h][i] = u], got' = got,
         conns' \in Nat, conns <= conns',
         Connected(u) => \/ Connected(t) /\ u.conn = t.conn /\ t.rcv <= u.rcv
                         \/ got[h][u.conn] = <<>>,
         h = "client" /\ u.state = "SYN_SENT" =>
           \/ t.state = "SYN_SENT" /\ u.conn = t.conn
           \/ got["server"][u.conn] = <<>>
  PROVE  Delivered'
<1>1. /\ \A g \in Hosts, j \in Slots :
           Connected(tcb[g][j]) => Below(got[g][tcb[g][j].conn], tcb[g][j].rcv)
      /\ \A j \in Slots : tcb["client"][j].state = "SYN_SENT" =>
           got["server"][tcb["client"][j].conn] = <<>>
      /\ \A g \in Hosts, c \in 1 .. MaxConns : c > conns => got[g][c] = <<>>
      /\ \A g \in Hosts, c \in 1 .. MaxConns : Rising(got[g][c])
  BY DeliveredIs
<1>2. t \in Tcb /\ InUse(t) /\ t.rcv \in Nat /\ u.rcv \in Nat
  BY TcbAt, TcbFields
<1>3. /\ tcb'[h][i] = u
      /\ \A g \in Hosts, j \in Slots : ~(g = h /\ j = i) => tcb'[g][j] = tcb[g][j]
  BY DEF SlotInv, TypeOK
<1>4. ASSUME NEW g \in Hosts, NEW j \in Slots, Connected(tcb'[g][j])
      PROVE  Below(got'[g][tcb'[g][j].conn], tcb'[g][j].rcv)
  <2>1. CASE ~(g = h /\ j = i)
    BY <1>1, <1>3, <1>4, <2>1
  <2>2. CASE g = h /\ j = i
    <3>1. tcb'[g][j] = u /\ Connected(u)
      BY <1>3, <1>4, <2>2
    <3>2. CASE got[h][u.conn] = <<>>
      BY <2>2, <3>1, <3>2, NothingBelow
    <3>3. CASE Connected(t) /\ u.conn = t.conn /\ t.rcv <= u.rcv
      <4>1. Below(got[h][t.conn], t.rcv)
        BY <1>1, <3>3
      <4>2. got[h][t.conn] \in Seq(Seqs)
        BY <1>2, <3>3 DEF SlotInv, TypeOK, InUse
      <4>3. Below(got[h][t.conn], u.rcv)
        BY <1>2, <3>3, <4>1, <4>2, BelowMore
      <4> QED BY <2>2, <3>1, <3>3, <4>3
    <3> QED BY <3>1, <3>2, <3>3
  <2> QED BY <2>1, <2>2
<1>5. ASSUME NEW j \in Slots, tcb'["client"][j].state = "SYN_SENT"
      PROVE  got'["server"][tcb'["client"][j].conn] = <<>>
  <2>0. "client" \in Hosts
    BY DEF Hosts
  <2>1. CASE ~("client" = h /\ j = i)
    BY <1>1, <1>3, <1>5, <2>0, <2>1
  <2>2. CASE "client" = h /\ j = i
    <3>1. tcb'["client"][j] = u /\ tcb["client"][j] = t
      BY <1>3, <2>2
    <3> QED BY <1>1, <1>5, <2>2, <3>1
  <2> QED BY <2>1, <2>2
<1>6. ASSUME NEW g \in Hosts, NEW c \in 1 .. MaxConns, c > conns' PROVE got'[g][c] = <<>>
  <2>1. c > conns
    BY <1>6 DEF SlotInv, TypeOK
  <2> QED BY <1>1, <2>1
<1>7. \A g \in Hosts, c \in 1 .. MaxConns : Rising(got'[g][c])
  BY <1>1
<1> QED BY <1>4, <1>5, <1>6, <1>7 DEF Delivered, OrderedDelivery, Rising, Below
(* A matched segment fits the TCB, and rcv_nxt does not go back.           *)
LEMMA MatchedFits ==
  ASSUME NoWrap, Core, NEW h \in Hosts, net[h] # <<>>, NEW i \in Slots, NEW u, NEW O,
         MatchedStep(h, i, u, O)
  PROVE  /\ Fits(tcb[h][i], Arrived(h)) /\ Arrived(h) \in Segment
         /\ Connected(u) => Advances(tcb[h][i], Arrived(h), u) /\ tcb[h][i].rcv <= u.rcv
<1> DEFINE t == tcb[h][i]
           b == Arrived(h)
           p == b.port
<1>1. SlotInv
  BY DEF Core
<1>2. u \in Tcb /\ MovedBy(t, b, u, linkUp) /\ Connected(t) /\ t.port = p
  BY DEF MatchedStep, Handles, Matched, FindExact, Connected
<1>3. t \in Tcb /\ b \in Segment /\ p \in Ports
  BY <1>1, TcbAt, ArrivedType, SegmentFields
<1>4. TcbsOf(tcb, h, p) = {t}
  <2>1. t \in TcbsOf(tcb, h, p)
    BY <1>2 DEF TcbsOf
  <2> QED BY <1>1, <2>1, TcbsType
<1>5. b \in SegsOf(net, h, p)
  <2>1. net[h] \in Seq(Segment)
    BY <1>1 DEF SlotInv, TypeOK
  <2>2. b \in Flight(net[h])
    BY <2>1, FlightTail DEF Arrived
  <2> QED BY <2>2 DEF SegsOf
<1> DEFINE Y == TcbsOf(tcb, Other(h), p)
           Out == SegsOf(net, Other(h), p)
           In == SegsOf(net, h, p)
<1>6. HostPort(h, {t}, Y, Out, In) /\ PortType({t}, Y, Out, In) /\ b \in In
  BY <1>1, <1>3, <1>4, <1>5, PortInvIs, PortTypeAt DEF Core
<1> HIDE DEF t, b, p, Y, Out, In
<1>7. Fits(t, b)
  BY <1>6, HostFits
<1>8. Advances(t, b, u) \/ (u = FreeTcb /\ t.state = "LAST_ACK")
  BY <1>2, <1>3, <1>7, MovedAdvances
<1>9. ~Connected(FreeTcb)
  BY FreeTcbType DEF Connected
<1>10. Connected(u) => Advances(t, b, u) /\ t.rcv <= u.rcv
  BY <1>2, <1>3, <1>7, <1>8, <1>9, AdvancesOk DEF Fits
<1> QED BY <1>3, <1>7, <1>10 DEF t, b

(* A segment whose bytes recv_handler gets.                                *)
LEMMA DataDelivered ==
  ASSUME NoWrap, Base, Delivered, NEW h \in Hosts, net[h] # <<>>, NEW i \in Slots,
         NEW u, NEW O, MatchedStep(h, i, u, O), NEW t, NEW a, t = tcb[h][i], a = Arrived(h),
         t.state = "ESTABLISHED", a.len > 0, a.seq = t.rcv, linkUp
  PROVE  Delivered'
<1>0. Core /\ SlotInv /\ Numbers(tcb, net, conns)
  BY DEF Base, Core
<1>1. /\ u \in Tcb /\ MovedBy(t, a, u, linkUp) /\ conns' = conns /\ Connected(t)
      /\ tcb' = [tcb EXCEPT ![h][i] = u]
      /\ got' = [got EXCEPT ![h][t.conn] = @ \o Bytes(a)]
  BY DEF MatchedStep, Handles, Gets, budget, Connected
<1>2. t \in Tcb /\ t.conn \in 1 .. MaxConns
  BY <1>0, <1>1, TcbAt DEF InUse
<1>3. a \in Segment /\ SegOk(a) /\ a.len \in Nat /\ a.seq \in Nat
  BY <1>0, MatchedFits, SegmentFields DEF Fits
<1>4. DataBy(t, a, u)
  BY <1>1, MovedData
<1>5. /\ u.state = "ESTABLISHED" /\ u.conn = t.conn /\ u.rcv = Plus(a.seq, a.len)
  BY <1>4 DEF DataBy, Is
<1>6. Plus(a.seq, a.len) = a.seq + a.len /\ a.seq + a.len < SeqMod
  <2>1. a.flags = {"ACK"} /\ EndOf(a) <= MaxBytes + 2
    BY <1>3 DEF SegOk
  <2>2. ~Control(a)
    BY <2>1 DEF Control
  <2>3. a.seq + a.len <= MaxBytes + 2
    BY <1>3, <2>1, <2>2 DEF EndOf
  <2>4. a.seq + a.len < SeqMod
    BY <1>3, <2>3, SeqAssumption, BoundsAssumption DEF NoWrap
  <2> QED BY <1>3, <2>4, PlusType
<1>7. /\ \A g \in Hosts, j \in Slots :
           Connected(tcb[g][j]) => Below(got[g][tcb[g][j].conn], tcb[g][j].rcv)
      /\ \A j \in Slots : tcb["client"][j].state = "SYN_SENT" =>
           got["server"][tcb["client"][j].conn] = <<>>
      /\ \A g \in Hosts, c \in 1 .. MaxConns : c > conns => got[g][c] = <<>>
      /\ \A g \in Hosts, c \in 1 .. MaxConns : Rising(got[g][c])
  BY DeliveredIs
<1> DEFINE s == got[h][t.conn]
<1>8. s \in Seq(Seqs) /\ Below(s, a.seq) /\ Rising(s)
  BY <1>0, <1>1, <1>2, <1>7 DEF SlotInv, TypeOK
<1>9. Below(s \o Bytes(a), a.seq + a.len) /\ Rising(s \o Bytes(a))
  BY <1>3, <1>6, <1>8, BytesRise
<1>10. /\ got'[h][t.conn] = s \o Bytes(a)
       /\ \A g \in Hosts, c \in 1 .. MaxConns :
            ~(g = h /\ c = t.conn) => got'[g][c] = got[g][c]
  BY <1>0, <1>1, <1>2 DEF SlotInv, TypeOK
<1>11. /\ tcb'[h][i] = u
       /\ \A g \in Hosts, j \in Slots : ~(g = h /\ j = i) => tcb'[g][j] = tcb[g][j]
  BY <1>0, <1>1 DEF SlotInv, TypeOK
<1> HIDE DEF s
<1>12. ASSUME NEW g \in Hosts, NEW j \in Slots, Connected(tcb[g][j])
       PROVE  /\ tcb[g][j].conn \in 1 .. MaxConns
              /\ tcb[g][j].conn = t.conn => tcb[g][j].port = t.port
              /\ g = h /\ tcb[g][j].conn = t.conn => j = i
  <2>1. tcb[g][j].conn \in 1 .. MaxConns
    BY <1>0, <1>12, TcbAt DEF InUse
  <2>2. tcb[g][j] \in Numbered(tcb, net) /\ t \in Numbered(tcb, net)
    BY <1>1, <1>12, NumberedIs
  <2>3. tcb[g][j].conn = t.conn => tcb[g][j].port = t.port
    BY <1>0, <2>2 DEF Numbers
  <2>4. g = h /\ tcb[g][j].conn = t.conn => j = i
    BY <1>0, <1>1, <1>12, <2>3 DEF SlotInv, SlotsOwned, UniqueTuple
  <2> QED BY <2>1, <2>3, <2>4
<1>13. ASSUME NEW g \in Hosts, NEW j \in Slots, Connected(tcb'[g][j])
       PROVE  Below(got'[g][tcb'[g][j].conn], tcb'[g][j].rcv)
  <2>1. CASE g = h /\ j = i
    BY <1>5, <1>6, <1>9, <1>10, <1>11, <2>1
  <2>2. CASE ~(g = h /\ j = i)
    <3>1. tcb'[g][j] = tcb[g][j]
      BY <1>11, <2>2
    <3>2. got'[g][tcb[g][j].conn] = got[g][tcb[g][j].conn]
      BY <1>10, <1>12, <1>13, <2>2, <3>1
    <3> QED BY <1>7, <1>13, <3>1, <3>2
  <2> QED BY <2>1, <2>2
<1>14. ASSUME NEW j \in Slots, tcb'["client"][j].state = "SYN_SENT"
       PROVE  got'["server"][tcb'["client"][j].conn] = <<>>
  <2> DEFINE x == tcb["client"][j]
             p == t.port
  <2>1. "client" \in Hosts /\ "server" \in Hosts
    BY DEF Hosts
  <2>2. tcb'["client"][j] = x /\ x.state = "SYN_SENT" /\ Connected(x)
    BY <1>5, <1>11, <1>14, <2>1 DEF Connected
  <2>3. x.conn \in 1 .. MaxConns /\ (x.conn = t.conn => x.port = p)
    BY <1>12, <2>1, <2>2
  <2>4. got["server"][x.conn] = <<>>
    BY <1>7, <2>2
  <2>5. ~("server" = h /\ x.conn = t.conn)
    <3> SUFFICES ASSUME "server" = h, x.conn = t.conn PROVE FALSE
      OBVIOUS
    <3>1. x \in TcbsOf(tcb, "client", p)
      BY <2>2, <2>3 DEF TcbsOf
    <3>2. t \in TcbsOf(tcb, "server", p)
      BY <1>1 DEF TcbsOf
    <3>3. p \in Ports
      BY <1>0, <1>1, TcbAt DEF InUse
    <3>4. PortInv(tcb, net, p)
      BY <1>0, <3>3 DEF Core
    <3> HIDE DEF x, p
    <3>5. t.state = "SYN_RECEIVED"
      BY <2>2, <3>1, <3>2, <3>4 DEF PortInv, PortOk, Handshake
    <3> QED BY <3>5
  <2> QED BY <1>10, <2>1, <2>2, <2>3, <2>4, <2>5
<1>15. ASSUME NEW g \in Hosts, NEW c \in 1 .. MaxConns, c > conns' PROVE got'[g][c] = <<>>
  <2>1. t \in Numbered(tcb, net)
    BY <1>1, NumberedIs
  <2>2. t.conn <= conns
    BY <1>0, <2>1 DEF Numbers
  <2>3. c # t.conn /\ c > conns
    BY <1>0, <1>1, <1>2, <1>15, <2>2 DEF SlotInv, TypeOK
  <2> QED BY <1>7, <1>10, <2>3
<1>16. ASSUME NEW g \in Hosts, NEW c \in 1 .. MaxConns PROVE Rising(got'[g][c])
  BY <1>7, <1>9, <1>10
<1> QED BY <1>13, <1>14, <1>15, <1>16 DEF Delivered, OrderedDelivery, Rising, Below

(* A segment moves a TCB and its bytes are delivered, or not.              *)
LEMMA MatchedDelivered ==
  ASSUME NoWrap, Base, Delivered, NEW h \in Hosts, net[h] # <<>>, NEW i \in Slots,
         NEW u, NEW O, MatchedStep(h, i, u, O)
  PROVE  Delivered'
<1> DEFINE t == tcb[h][i]
           a == Arrived(h)
<1>0. Core /\ SlotInv
  BY DEF Base, Core
<1>1. CASE t.state = "ESTABLISHED" /\ a.len > 0 /\ a.seq = t.rcv /\ linkUp
  BY <1>1, DataDelivered
<1>2. CASE got' = got
  <2>1. /\ u \in Tcb /\ MovedBy(t, a, u, linkUp) /\ conns' = conns /\ Connected(t)
        /\ tcb' = [tcb EXCEPT ![h][i] = u]
    BY DEF MatchedStep, Handles, Matched, FindExact, Connected, budget
  <2>2. t \in Tcb
    BY <1>0, TcbAt
  <2>3. conns' \in Nat /\ conns <= conns'
    BY <1>0, <2>1 DEF SlotInv, TypeOK
  <2>4. Connected(u) => Connected(t) /\ u.conn = t.conn /\ t.rcv <= u.rcv
    BY <1>0, <2>1, <2>2, MatchedFits, MovedFacts
  <2>5. u.state = "SYN_SENT" => t.state = "SYN_SENT" /\ u.conn = t.conn
    <3>1. u.state = "SYN_SENT" => Connected(u)
      BY DEF Connected
    <3>2. u.state = "SYN_SENT" => t.state = "SYN_SENT"
      <4>1. Connected(u) => StateAdvances(t, a, u)
        BY <1>0, MatchedFits DEF Advances
      <4> QED BY <3>1, <4>1 DEF StateAdvances
    <3> QED BY <2>4, <3>1, <3>2
  <2> HIDE DEF a
  <2> QED BY <1>0, <1>2, <2>1, <2>3, <2>4, <2>5, WrittenDelivered
<1> QED BY <1>1, <1>2 DEF MatchedStep, Gets

(* tcp_send and tcp_close deliver nothing.                                 *)
LEMMA TrackedDelivered ==
  ASSUME SlotInv, Delivered, NEW h \in Hosts, NEW i \in Slots, NEW u, NEW a,
         TrackedStep(h, i, u, a)
  PROVE  Delivered'
<1> DEFINE t == tcb[h][i]
<1>1. /\ u \in Tcb /\ Connected(t) /\ u.conn = t.conn /\ u.rcv = t.rcv
      /\ u.state # "SYN_SENT" /\ got' = got /\ conns' = conns
      /\ tcb' = [tcb EXCEPT ![h][i] = u]
  BY DEF TrackedStep
<1>2. t.rcv <= u.rcv
  BY <1>1, TcbFields
<1>3. conns' \in Nat /\ conns <= conns'
  BY <1>1 DEF SlotInv, TypeOK
<1> QED BY <1>1, <1>2, <1>3, WrittenDelivered

(* tcp_connect uses a number that nothing has.                             *)
LEMMA ConnectDelivered ==
  ASSUME SlotInv, Delivered, NEW i \in Slots, NEW u, NEW a, ConnectStep(i, u, a)
  PROVE  Delivered'
<1> DEFINE h == "client"
           t == tcb[h][i]
<1>1. h \in Hosts /\ "server" \in Hosts
  BY DEF Hosts
<1>2. /\ u \in Tcb /\ u.conn = conns + 1 /\ conns + 1 \in 1 .. MaxConns
      /\ got' = got /\ conns' = conns + 1 /\ tcb' = [tcb EXCEPT ![h][i] = u]
  BY DEF ConnectStep, OpensSlot, Fresh
<1>3. conns' \in Nat /\ conns <= conns' /\ u.conn > conns /\ u.conn \in 1 .. MaxConns
  BY <1>2 DEF SlotInv, TypeOK
<1>4. \A g \in Hosts : got[g][u.conn] = <<>>
  BY <1>3 DEF Delivered
<1>5. got[h][u.conn] = <<>> /\ got["server"][u.conn] = <<>>
  BY <1>1, <1>4
<1> QED BY <1>1, <1>2, <1>3, <1>5, WrittenDelivered

(* A SYN that opens a TCB is of a client that is in SYN_SENT still.        *)
LEMMA AcceptDelivered ==
  ASSUME Core, Delivered, NEW h \in Hosts, net[h] # <<>>, NEW i \in Slots, NEW u, NEW a,
         AcceptStep(h, i, u, a)
  PROVE  Delivered'
<1> DEFINE b == Arrived(h)
           p == b.port
           t == tcb[h][i]
<1>0. SlotInv
  BY DEF Core
<1>1. /\ u \in Tcb /\ u.conn = b.conn /\ u.state = "SYN_RECEIVED" /\ b.flags = {"SYN"}
      /\ FindExact(h, p) = {} /\ FindListener(h) # {}
      /\ got' = got /\ conns' = conns /\ tcb' = [tcb EXCEPT ![h][i] = u]
  BY DEF AcceptStep, OpensSlot, Fresh, budget
<1>2. h = "server"
  BY <1>0, <1>1 DEF FindListener, SlotInv, NoClientListener, Hosts
<1>3. b \in Segment /\ p \in Ports
  BY <1>0, ArrivedType, SegmentFields
<1>4. b \in SegsOf(net, "server", p)
  <2>1. net[h] \in Seq(Segment)
    BY <1>0 DEF SlotInv, TypeOK
  <2>2. b \in Flight(net[h])
    BY <2>1, FlightTail DEF Arrived
  <2> QED BY <1>2, <2>2 DEF SegsOf
<1>5. TcbsOf(tcb, "server", p) = {}
  BY <1>1, <1>2 DEF TcbsOf, FindExact, Connected
<1>6. PortInv(tcb, net, p)
  BY <1>3 DEF Core
<1>7. IsSyn(b)
  BY <1>1 DEF IsSyn
<1>8. \E x \in TcbsOf(tcb, "client", p) : x.conn = b.conn /\ x.state = "SYN_SENT"
  <2> HIDE DEF b, p
  <2> QED BY <1>4, <1>5, <1>6, <1>7 DEF PortInv, PortOk, Handshake
<1>9. PICK j \in Slots : tcb["client"][j].conn = b.conn /\ tcb["client"][j].state = "SYN_SENT"
  BY <1>8 DEF TcbsOf
<1>10. got[h][u.conn] = <<>>
  BY <1>1, <1>2, <1>9 DEF Delivered
<1>11. conns' \in Nat /\ conns <= conns'
  BY <1>0, <1>1 DEF SlotInv, TypeOK
<1> HIDE DEF b, p
<1> QED BY <1>0, <1>1, <1>10, <1>11, WrittenDelivered

(* A slot is released, or taken by a listener.                             *)
LEMMA ClosedDelivered ==
  ASSUME SlotInv, Delivered, NEW h \in Hosts, NEW i \in Slots, NEW u \in Tcb,
         ~Connected(u), tcb' = [tcb EXCEPT ![h][i] = u], got' = got, conns' = conns
  PROVE  Delivered'
<1>1. u.state # "SYN_SENT"
  BY DEF Connected
<1>2. conns' \in Nat /\ conns <= conns'
  BY DEF SlotInv, TypeOK
<1> QED BY <1>1, <1>2, WrittenDelivered

(* Nothing that Delivered speaks of changes.                               *)
LEMMA SameDelivered ==
  ASSUME Delivered, tcb' = tcb, got' = got, conns' = conns
  PROVE  Delivered'
BY DEF Delivered, OrderedDelivery

(* Every step keeps what was delivered behind rcv_nxt.                     *)
LEMMA NextDelivered ==
  ASSUME NoWrap, Base, Delivered, Steps
  PROVE  Delivered'
<1>0. Core /\ SlotInv
  BY DEF Base, Core
<1>1. ASSUME NEW h \in Hosts, Listen(h) PROVE Delivered'
  <2>1. PICK i \in Slots : \E u \in Tcb :
           /\ ~Connected(u) /\ ~Connected(tcb[h][i]) /\ tcb' = [tcb EXCEPT ![h][i] = u]
           /\ UNCHANGED <<net, got, budget>>
    BY <1>0, <1>1, ListenWrites
  <2> QED BY <1>0, <2>1, ClosedDelivered DEF budget
<1>2. ASSUME NEW h \in Hosts, NEW i \in Slots, TimeWaitExpires(h, i) PROVE Delivered'
  <2>1. tcb' = [tcb EXCEPT ![h][i] = FreeTcb] /\ conns' = conns /\ got' = got
    BY <1>0, <1>2, TimeWaitExpiresSlots DEF budget
  <2>2. FreeTcb \in Tcb /\ ~Connected(FreeTcb)
    BY FreeTcbType DEF Connected
  <2> QED BY <1>0, <2>1, <2>2, ClosedDelivered
<1>3. ASSUME NEW h \in Hosts, NEW i \in Slots, Retransmit(h, i) PROVE Delivered'
  BY <1>3, SameDelivered DEF Retransmit, budget
<1>4. ASSUME NEW h \in Hosts, DropStep(h) \/ Lose(h) PROVE Delivered'
  BY <1>4, SameDelivered DEF DropStep, Lose, budget
<1>5. ASSUME Flap PROVE Delivered'
  BY <1>5, SameDelivered DEF Flap
<1>6. ASSUME NEW i \in Slots, NEW u, NEW a, ConnectStep(i, u, a) PROVE Delivered'
  BY <1>0, <1>6, ConnectDelivered
<1>7. ASSUME NEW h \in Hosts, NEW i \in Slots, NEW u, NEW a, TrackedStep(h, i, u, a)
      PROVE  Delivered'
  BY <1>0, <1>7, TrackedDelivered
<1>8. ASSUME NEW h \in Hosts, NEW i \in Slots, NEW u, NEW a, net[h] # <<>>,
             AcceptStep(h, i, u, a)
      PROVE  Delivered'
  BY <1>0, <1>8, AcceptDelivered
<1>9. ASSUME NEW h \in Hosts, NEW i \in Slots, NEW u, NEW O, net[h] # <<>>,
             MatchedStep(h, i, u, O)
      PROVE  Delivered'
  BY <1>9, MatchedDelivered
<1> QED BY <1>1, <1>2, <1>3, <1>4, <1>5, <1>6, <1>7, <1>8, <1>9 DEF Steps

(* The whole inductive invariant.                                          *)
LEMMA NextInv ==
  ASSUME NoWrap, Inv, [Next]_vars
  PROVE  Inv'
<1>0. Base /\ Delivered
  BY DEF Inv, Base, Core
<1>1. Base'
  BY <1>0, NextBase
<1>2. Delivered'
  <2>1. CASE UNCHANGED vars
    BY <1>0, <2>1, SameDelivered DEF vars, budget
  <2>2. CASE Next
    <3>1. SlotInv
      BY DEF Inv
    <3>2. Steps
      BY <2>2, <3>1, NextIs
    <3> QED BY <1>0, <3>2, NextDelivered
  <2> QED BY <2>1, <2>2
<1> QED BY <1>1, <1>2 DEF Inv, Base, Core

(* The initial state satisfies the invariant.                              *)
LEMMA InitInv ==
  ASSUME Init
  PROVE  Inv
<1>1. Base
  BY InitCore DEF Base
<1>2. Delivered
  <2>1. \A h \in Hosts, i \in Slots : tcb[h][i] = FreeTcb
    BY DEF Init
  <2>2. ~Connected(FreeTcb) /\ FreeTcb.state # "SYN_SENT" /\ "client" \in Hosts
    BY FreeTcbType DEF Connected, Hosts
  <2>3. \A h \in Hosts, c \in 1 .. MaxConns : got[h][c] = <<>>
    BY DEF Init
  <2>4. OrderedDelivery
    BY <2>3 DEF OrderedDelivery
  <2> QED BY <2>1, <2>2, <2>3, <2>4 DEF Delivered
<1> QED BY <1>1, <1>2 DEF Inv, Base, Core

(* recv_handler gets bytes in order and at most once, whatever is          *)
(* retransmitted too early, lost, or refused by a link that is down.       *)
THEOREM DeliveryOrdered ==
  ASSUME NoWrap
  PROVE  Spec => []OrderedDelivery
<1>1. Init => Inv
  BY InitInv
<1>2. Inv /\ [Next]_vars => Inv'
  BY NextInv
<1>3. Inv => OrderedDelivery
  BY DEF Inv, Delivered
<1> QED BY <1>1, <1>2, <1>3, PTL DEF Spec
-----------------------------------------------------------------------------
(* The stream, while the link stays up.                                    *)

Whole(s) == \A n \in 1 .. Len(s) : s[n] = n

(* An established TCB has delivered all that it acknowledged.              *)
Counted ==
  \A h \in Hosts, i \in Slots :
    tcb[h][i].state = "ESTABLISHED" =>
      tcb[h][i].rcv = Len(got[h][tcb[h][i].conn]) + 1

StreamInv == StreamIntact /\ Counted /\ linkUp

(* The bytes of the next segment in order leave no gap.                    *)
LEMMA BytesWhole ==
  ASSUME NEW s \in Seq(Seqs), NEW a \in Segment, a.seq + a.len < SeqMod,
         Whole(s), a.seq = Len(s) + 1
  PROVE  Whole(s \o Bytes(a)) /\ Len(s \o Bytes(a)) + 1 = a.seq + a.len
<1> DEFINE r == s \o Bytes(a)
           k == Len(s)
<1>1. a.seq \in Nat /\ a.len \in Nat /\ k \in Nat /\ SeqMod \in Nat
  BY SegmentFields, SeqAssumption
<1>2. Bytes(a) \in Seq(Seqs) /\ Len(Bytes(a)) = a.len
      /\ \A n \in 1 .. a.len : Bytes(a)[n] = Plus(a.seq, n - 1)
  BY BytesType
<1>3. \A n \in 1 .. a.len : Bytes(a)[n] = a.seq + n - 1
  <2> SUFFICES ASSUME NEW n \in 1 .. a.len PROVE Bytes(a)[n] = a.seq + n - 1
    OBVIOUS
  <2>1. n - 1 \in Nat /\ a.seq + (n - 1) < SeqMod
    BY <1>1
  <2>2. Plus(a.seq, n - 1) = a.seq + (n - 1)
    BY <1>1, <2>1, PlusType
  <2> QED BY <1>1, <1>2, <2>2
<1>4. Len(r) = k + a.len
  <2>1. \A b \in Seq(Seqs) : Len(s \o b) = Len(s) + Len(b)
    OBVIOUS
  <2>2. Len(s \o Bytes(a)) = Len(s) + Len(Bytes(a))
    BY <1>2, <2>1, Zenon
  <2> QED BY <1>2, <2>2
<1>5. \A n \in 1 .. k : r[n] = n
  BY <1>2 DEF Whole
<1>6. \A n \in k + 1 .. k + a.len : r[n] = n
  <2> SUFFICES ASSUME NEW n \in k + 1 .. k + a.len PROVE r[n] = n
    OBVIOUS
  <2>1. n - k \in 1 .. a.len
    BY <1>1
  <2>2. r[n] = Bytes(a)[n - k]
    BY <1>1, <1>2, <2>1
  <2>3. r[n] = a.seq + (n - k) - 1
    BY <1>3, <2>1, <2>2
  <2> QED BY <1>1, <2>3
<1> HIDE DEF r
<1>7. Whole(r)
  <2> SUFFICES ASSUME NEW n \in 1 .. k + a.len PROVE r[n] = n
    BY <1>4 DEF Whole
  <2>1. n \in 1 .. k \/ n \in k + 1 .. k + a.len
    BY <1>1
  <2> QED BY <1>5, <1>6, <2>1
<1> QED BY <1>1, <1>4, <1>7 DEF r

(* The TCB of a connection on a host is the only one.                      *)
LEMMA OneEnd ==
  ASSUME Base, NEW h \in Hosts, NEW i \in Slots, NEW j \in Slots,
         Connected(tcb[h][i]), Connected(tcb[h][j]), tcb[h][i].conn = tcb[h][j].conn
  PROVE  i = j
<1>1. tcb[h][i] \in Numbered(tcb, net) /\ tcb[h][j] \in Numbered(tcb, net)
  BY NumberedIs
<1>2. tcb[h][i].port = tcb[h][j].port
  BY <1>1 DEF Base, Numbers
<1> QED BY <1>2 DEF Base, Core, SlotInv, SlotsOwned, UniqueTuple

(* A slot is written and nothing is delivered.                             *)
LEMMA WrittenStream ==
  ASSUME SlotInv, StreamIntact, Counted, NEW h \in Hosts, NEW i \in Slots, NEW u \in Tcb,
         tcb' = [tcb EXCEPT ![h][i] = u], got' = got,
         u.state = "ESTABLISHED" => u.rcv = Len(got[h][u.conn]) + 1
  PROVE  StreamIntact' /\ Counted'
<1>1. /\ tcb'[h][i] = u
      /\ \A g \in Hosts, j \in Slots : ~(g = h /\ j = i) => tcb'[g][j] = tcb[g][j]
  BY DEF SlotInv, TypeOK
<1>2. StreamIntact'
  BY DEF StreamIntact
<1>3. ASSUME NEW g \in Hosts, NEW j \in Slots, tcb'[g][j].state = "ESTABLISHED"
      PROVE  tcb'[g][j].rcv = Len(got'[g][tcb'[g][j].conn]) + 1
  <2>1. CASE g = h /\ j = i
    BY <1>1, <1>3, <2>1
  <2>2. CASE ~(g = h /\ j = i)
    <3>1. tcb'[g][j] = tcb[g][j]
      BY <1>1, <2>2
    <3> QED BY <1>3, <3>1 DEF Counted
  <2> QED BY <2>1, <2>2
<1> QED BY <1>2, <1>3 DEF Counted

(* A segment whose bytes are delivered.                                    *)
LEMMA DataStream ==
  ASSUME NoWrap, Base, StreamInv, NEW h \in Hosts, net[h] # <<>>, NEW i \in Slots,
         NEW u, NEW O, MatchedStep(h, i, u, O), NEW t, NEW a, t = tcb[h][i], a = Arrived(h),
         t.state = "ESTABLISHED", a.len > 0, a.seq = t.rcv
  PROVE  StreamIntact' /\ Counted'
<1>0. Core /\ SlotInv /\ linkUp
  BY DEF Base, Core, StreamInv
<1>1. /\ u \in Tcb /\ MovedBy(t, a, u, linkUp) /\ Connected(t)
      /\ tcb' = [tcb EXCEPT ![h][i] = u]
      /\ got' = [got EXCEPT ![h][t.conn] = @ \o Bytes(a)]
  BY <1>0 DEF MatchedStep, Handles, Gets, Connected
<1>2. t \in Tcb /\ t.conn \in 1 .. MaxConns
  BY <1>0, <1>1, TcbAt DEF InUse
<1>3. a \in Segment /\ SegOk(a) /\ a.len \in Nat /\ a.seq \in Nat
  BY <1>0, MatchedFits, SegmentFields DEF Fits
<1>4. DataBy(t, a, u)
  BY <1>1, MovedData
<1>5. u.state = "ESTABLISHED" /\ u.conn = t.conn /\ u.rcv = Plus(a.seq, a.len)
  BY <1>4 DEF DataBy, Is
<1>6. Plus(a.seq, a.len) = a.seq + a.len /\ a.seq + a.len < SeqMod
  <2>1. a.flags = {"ACK"} /\ EndOf(a) <= MaxBytes + 2
    BY <1>3 DEF SegOk
  <2>2. ~Control(a)
    BY <2>1 DEF Control
  <2>3. a.seq + a.len <= MaxBytes + 2
    BY <1>3, <2>1, <2>2 DEF EndOf
  <2>4. a.seq + a.len < SeqMod
    BY <1>3, <2>3, SeqAssumption, BoundsAssumption DEF NoWrap
  <2> QED BY <1>3, <2>4, PlusType
<1> DEFINE s == got[h][t.conn]
<1>7. s \in Seq(Seqs) /\ Whole(s) /\ a.seq = Len(s) + 1
  BY <1>0, <1>2 DEF SlotInv, TypeOK, StreamInv, StreamIntact, Counted, Whole
<1>8. Whole(s \o Bytes(a)) /\ Len(s \o Bytes(a)) + 1 = a.seq + a.len
  BY <1>3, <1>6, <1>7, BytesWhole
<1>9. /\ got'[h][t.conn] = s \o Bytes(a)
      /\ \A g \in Hosts, c \in 1 .. MaxConns :
           ~(g = h /\ c = t.conn) => got'[g][c] = got[g][c]
  BY <1>0, <1>1, <1>2 DEF SlotInv, TypeOK
<1>10. /\ tcb'[h][i] = u
       /\ \A g \in Hosts, j \in Slots : ~(g = h /\ j = i) => tcb'[g][j] = tcb[g][j]
  BY <1>0, <1>1 DEF SlotInv, TypeOK
<1> HIDE DEF s
<1>11. ASSUME NEW g \in Hosts, NEW c \in 1 .. MaxConns PROVE Whole(got'[g][c])
  <2>1. Whole(got[g][c])
    BY DEF StreamInv, StreamIntact, Whole
  <2> QED BY <1>8, <1>9, <2>1
<1>12. ASSUME NEW g \in Hosts, NEW j \in Slots, tcb'[g][j].state = "ESTABLISHED"
       PROVE  tcb'[g][j].rcv = Len(got'[g][tcb'[g][j].conn]) + 1
  <2>1. CASE g = h /\ j = i
    BY <1>5, <1>6, <1>8, <1>9, <1>10, <2>1
  <2>2. CASE ~(g = h /\ j = i)
    <3> DEFINE x == tcb[g][j]
    <3>1. tcb'[g][j] = x /\ x.state = "ESTABLISHED" /\ Connected(x)
      BY <1>10, <1>12, <2>2 DEF Connected
    <3>2. x.conn \in 1 .. MaxConns
      BY <1>0, <3>1, TcbAt DEF InUse
    <3>3. ~(g = h /\ x.conn = t.conn)
      BY <1>1, <2>2, <3>1, OneEnd
    <3>4. x.rcv = Len(got[g][x.conn]) + 1
      BY <3>1 DEF StreamInv, Counted
    <3> QED BY <1>9, <3>1, <3>2, <3>3, <3>4
  <2> QED BY <2>1, <2>2
<1> QED BY <1>11, <1>12 DEF StreamIntact, Counted, Whole

(* A segment moves the TCB that it matches.                                *)
LEMMA MatchedStream ==
  ASSUME NoWrap, Base, Delivered, StreamInv, NEW h \in Hosts, net[h] # <<>>, NEW i \in Slots,
         NEW u, NEW O, MatchedStep(h, i, u, O)
  PROVE  StreamIntact' /\ Counted'
<1> DEFINE t == tcb[h][i]
           a == Arrived(h)
           s == got[h][t.conn]
<1>0. Core /\ SlotInv /\ linkUp /\ StreamIntact /\ Counted
  BY DEF Base, Core, StreamInv
<1>1. CASE t.state = "ESTABLISHED" /\ a.len > 0 /\ a.seq = t.rcv
  BY <1>1, DataStream
<1>2. CASE ~(t.state = "ESTABLISHED" /\ a.len > 0 /\ a.seq = t.rcv)
  <2>1. /\ u \in Tcb /\ MovedBy(t, a, u, linkUp) /\ Connected(t)
        /\ tcb' = [tcb EXCEPT ![h][i] = u] /\ got' = got
    BY <1>2 DEF MatchedStep, Handles, Matched, FindExact, Connected, Gets
  <2>2. t \in Tcb /\ InUse(t) /\ u.rcv \in Nat
    BY <1>0, <2>1, TcbAt, TcbFields
  <2>3. s \in Seq(Seqs) /\ Whole(s) /\ Below(s, t.rcv) /\ TcbOk(t)
    <3>1. t.conn \in 1 .. MaxConns
      BY <2>1, <2>2 DEF InUse
    <3>2. s \in Seq(Seqs)
      <4>1. got \in [Hosts -> [1 .. MaxConns -> Seq(Seqs)]]
        BY <1>0 DEF SlotInv, TypeOK
      <4> QED BY <3>1, <4>1
    <3>3. Whole(s)
      BY <1>0, <3>1 DEF StreamIntact, Whole
    <3>4. Below(s, t.rcv)
      BY <2>1, DeliveredIs
    <3>5. TcbOk(t)
      BY <1>0, <2>1, CoreTcb
    <3> QED BY <3>2, <3>3, <3>4, <3>5
  <2>4. ASSUME u.state = "ESTABLISHED" PROVE u.rcv = Len(got[h][u.conn]) + 1
    <3>1. Connected(u)
      BY <2>4 DEF Connected
    <3>2. StateAdvances(t, a, u) /\ u.conn = t.conn
      BY <1>0, <3>1, MatchedFits DEF Advances
    <3>3. CASE t.state = "ESTABLISHED"
      <4>1. DataBy(t, a, u) \/ EmptyBy(t, a, u, linkUp)
        BY <2>1, <3>3 DEF MovedBy, OpenedBy, AcceptedBy, FinAckedBy, FinQueued, FinBy
      <4>2. CASE DataBy(t, a, u)
        <5>1. u.rcv = t.rcv
          BY <1>2, <3>3, <4>2 DEF DataBy, Is
        <5> QED BY <1>0, <3>2, <3>3, <5>1 DEF Counted
      <4>3. CASE EmptyBy(t, a, u, linkUp)
        <5>1. u.rcv = t.rcv
          BY <1>0, <2>4, <4>3 DEF EmptyBy, Is
        <5> QED BY <1>0, <3>2, <3>3, <5>1 DEF Counted
      <4> QED BY <4>1, <4>2, <4>3
    <3>4. CASE t.state # "ESTABLISHED"
      <4>1. (t.state = "SYN_SENT" \/ t.state = "SYN_RECEIVED") /\ u.rcv = 1
        BY <2>3, <2>4, <3>2, <3>4 DEF StateAdvances, TcbOk
      <4>2. t.rcv <= 1 /\ t.rcv \in Nat
        BY <2>2, <2>3, <4>1, TcbFields DEF TcbOk
      <4> HIDE DEF s
      <4>3. Len(s) = 0
        <5> SUFFICES ASSUME Len(s) # 0 PROVE FALSE
          OBVIOUS
        <5>1. 1 \in 1 .. Len(s)
          BY <2>3
        <5>2. s[1] = 1 /\ s[1] < t.rcv
          BY <2>3, <5>1 DEF Whole, Below
        <5> QED BY <4>2, <5>2
      <4> QED BY <3>2, <4>1, <4>3 DEF s
    <3> QED BY <3>3, <3>4
  <2> QED BY <1>0, <2>1, <2>4, WrittenStream
<1> QED BY <1>1, <1>2

(* Every step on a link that is up keeps the streams whole.                *)
LEMMA NextStream ==
  ASSUME MaxFlaps = 0, NoWrap, Inv, StreamInv, [Next]_vars
  PROVE  StreamInv'
<1>0. SlotInv /\ Base /\ Delivered /\ StreamIntact /\ Counted /\ linkUp
  BY DEF Inv, Base, Core, StreamInv
<1>1. ASSUME tcb' = tcb, got' = got PROVE StreamIntact' /\ Counted'
  BY <1>0, <1>1 DEF StreamIntact, Counted
<1>2. CASE UNCHANGED vars
  BY <1>0, <1>1, <1>2 DEF vars, StreamInv
<1>3. CASE Next
  <2>1. ASSUME NEW h \in Hosts, NEW i \in Slots, NEW u \in Tcb, u.state # "ESTABLISHED",
               tcb' = [tcb EXCEPT ![h][i] = u], got' = got
        PROVE  StreamIntact' /\ Counted'
    BY <1>0, <2>1, WrittenStream
  <2>2. ASSUME NEW h \in Hosts, Listen(h) PROVE StreamInv'
    <3>1. PICK i \in Slots : \E u \in Tcb :
             /\ ~Connected(u) /\ ~Connected(tcb[h][i]) /\ tcb' = [tcb EXCEPT ![h][i] = u]
             /\ UNCHANGED <<net, got, budget>>
      BY <1>0, <2>2, ListenWrites
    <3>2. StreamIntact' /\ Counted'
      BY <2>1, <3>1 DEF Connected
    <3> QED BY <1>0, <2>2, <3>2 DEF Listen, StreamInv
  <2>3. ASSUME NEW i \in Slots, NEW u, NEW a, ConnectStep(i, u, a) PROVE StreamInv'
    <3>1. /\ u \in Tcb /\ u.state = "SYN_SENT" /\ tcb' = [tcb EXCEPT !["client"][i] = u]
          /\ linkUp' = linkUp /\ got' = got /\ "client" \in Hosts
      BY <2>3 DEF ConnectStep, OpensSlot, Fresh, Hosts
    <3> QED BY <1>0, <2>1, <3>1 DEF StreamInv
  <2>4. ASSUME NEW h \in Hosts, NEW i \in Slots, NEW u, NEW a, TrackedStep(h, i, u, a)
        PROVE  StreamInv'
    <3>1. /\ u \in Tcb /\ u.rcv = tcb[h][i].rcv /\ u.conn = tcb[h][i].conn
          /\ u.state = "ESTABLISHED" => tcb[h][i].state = "ESTABLISHED"
          /\ tcb' = [tcb EXCEPT ![h][i] = u] /\ linkUp' = linkUp /\ got' = got
      BY <2>4 DEF TrackedStep
    <3>2. u.state = "ESTABLISHED" => u.rcv = Len(got[h][u.conn]) + 1
      BY <1>0, <3>1 DEF Counted
    <3>3. StreamIntact' /\ Counted'
      BY <1>0, <3>1, <3>2, WrittenStream
    <3> QED BY <1>0, <3>1, <3>3 DEF StreamInv
  <2>5. ASSUME NEW h \in Hosts, DropStep(h) \/ Lose(h) PROVE StreamInv'
    BY <1>0, <1>1, <2>5 DEF DropStep, Lose, StreamInv
  <2>6. ASSUME NEW h \in Hosts, NEW i \in Slots, NEW u, NEW a, AcceptStep(h, i, u, a)
        PROVE  StreamInv'
    <3>1. /\ u \in Tcb /\ u.state = "SYN_RECEIVED" /\ tcb' = [tcb EXCEPT ![h][i] = u]
          /\ linkUp' = linkUp /\ got' = got
      BY <2>6 DEF AcceptStep, OpensSlot, Fresh
    <3> QED BY <1>0, <2>1, <3>1 DEF StreamInv
  <2>7. ASSUME NEW h \in Hosts, NEW i \in Slots, NEW u, NEW O, net[h] # <<>>,
               MatchedStep(h, i, u, O)
        PROVE  StreamInv'
    <3>1. StreamIntact' /\ Counted'
      BY <1>0, <2>7, MatchedStream
    <3>2. linkUp' = linkUp
      BY <2>7 DEF MatchedStep
    <3> QED BY <1>0, <3>1, <3>2 DEF StreamInv
  <2>8. ASSUME NEW h \in Hosts, NEW i \in Slots, Retransmit(h, i) PROVE StreamInv'
    BY <1>0, <1>1, <2>8 DEF Retransmit, StreamInv
  <2>9. ASSUME NEW h \in Hosts, NEW i \in Slots, TimeWaitExpires(h, i) PROVE StreamInv'
    <3>1. tcb' = [tcb EXCEPT ![h][i] = FreeTcb] /\ linkUp' = linkUp /\ got' = got
      BY <1>0, <2>9, TimeWaitExpiresSlots
    <3>2. FreeTcb \in Tcb /\ FreeTcb.state # "ESTABLISHED"
      BY FreeTcbType
    <3> QED BY <1>0, <2>1, <3>1, <3>2 DEF StreamInv
  <2>10. ~Flap
    BY <1>0 DEF Flap, SlotInv, TypeOK
  <2>11. Steps
    BY <1>0, <1>3, NextIs
  <2> QED BY <2>2, <2>3, <2>4, <2>5, <2>6, <2>7, <2>8, <2>9, <2>10, <2>11 DEF Steps
<1> QED BY <1>2, <1>3

(* While the link stays up, what recv_handler was given is an initial part *)
(* of what the peer sent, without gaps, however segments are lost,         *)
(* retransmitted early or left over from an earlier connection.            *)
THEOREM StreamKept ==
  ASSUME NoWrap, MaxFlaps = 0
  PROVE  Spec => []StreamIntact
<1>1. Init => Inv /\ StreamInv
  <2>1. ASSUME Init PROVE StreamInv
    <3>1. \A h \in Hosts, i \in Slots : tcb[h][i] = FreeTcb
      BY <2>1 DEF Init
    <3>2. \A h \in Hosts, c \in 1 .. MaxConns : got[h][c] = <<>>
      BY <2>1 DEF Init
    <3> QED BY <2>1, <3>1, <3>2, FreeTcbType DEF Init, StreamInv, StreamIntact, Counted
  <2> QED BY <2>1, InitInv
<1>2. Inv /\ StreamInv /\ [Next]_vars => (Inv /\ StreamInv)'
  BY NextInv, NextStream
<1>3. StreamInv => StreamIntact
  BY DEF StreamInv
<1> QED BY <1>1, <1>2, <1>3, PTL DEF Spec
-----------------------------------------------------------------------------
(* Closing: who has sent a FIN and who has taken it, while the link stays  *)
(* up.                                                                     *)

FinTaken(t) == t.state \in {"CLOSE_WAIT", "LAST_ACK", "TIME_WAIT"}

(* The last sequence number of a TCB that has sent a FIN is the FIN's.     *)
FinSeg(t, a) ==
  IF FinSent(t) THEN EndOf(a) = t.nxt /\ EndOf(a) > a.seq => "FIN" \in a.flags
  ELSE "FIN" \notin a.flags

(* y has taken the FIN of t when it has received all that t sent.          *)
FinEnds(t, y) == FinTaken(y) <=> FinSent(t) /\ y.rcv = t.nxt

Fins ==
  \A h \in Hosts, i \in Slots : Connected(tcb[h][i]) =>
    /\ \A a \in Flight(net[Other(h)]) : a.conn = tcb[h][i].conn => FinSeg(tcb[h][i], a)
    /\ \A j \in Slots : Ends(h, i, j) => FinEnds(tcb[h][i], tcb[Other(h)][j])

PeerInv == Fins /\ NoHalfOpen /\ linkUp

(* What a segment does to a TCB, seen from the FIN: nothing is taken, or   *)
(* the segment's end, which is a FIN exactly when the TCB takes it for one.*)
FinMoves(t, b, u) ==
  /\ FinSent(u) <=> FinSent(t)
  /\ \/ t.state = "SYN_SENT" /\ u.state = "ESTABLISHED"
     \/ u.rcv = t.rcv /\ (FinTaken(u) <=> FinTaken(t))
     \/ /\ b.seq = t.rcv /\ EndOf(b) > b.seq /\ u.rcv = EndOf(b) /\ ~FinTaken(t)
        /\ FinTaken(u) <=> "FIN" \in b.flags

(* Every branch of tcp_receive that keeps the TCB moves it so.             *)
LEMMA MovedFins ==
  ASSUME NoWrap, NEW t \in Tcb, NEW b \in Segment, NEW u \in Tcb, Fits(t, b),
         MovedBy(t, b, u, TRUE), Connected(u)
  PROVE  FinMoves(t, b, u)
<1>1. SegOk(b) /\ ~Connected(FreeTcb)
  BY FreeTcbType DEF Fits, Connected
<1>2. b.seq \in Nat /\ b.len \in Nat
  BY SegmentFields
<1>3. /\ b.len > 0 => Plus(b.seq, b.len) = EndOf(b) /\ EndOf(b) > b.seq
      /\ "FIN" \in b.flags => Plus(b.seq, 1) = EndOf(b) /\ EndOf(b) > b.seq
  BY <1>1, RcvMoves
<1>4. b.len > 0 => "FIN" \notin b.flags
  BY <1>1 DEF SegOk
<1>5. CASE u = t
  BY <1>5 DEF FinMoves
<1>6. CASE OpenedBy(t, b, u)
  BY <1>6 DEF OpenedBy, Is, FinMoves, FinSent
<1>7. CASE AcceptedBy(t, b, u)
  BY <1>7 DEF AcceptedBy, Is, FinMoves, FinSent, FinTaken
<1>8. CASE DataBy(t, b, u)
  <2>1. CASE b.seq = t.rcv
    BY <1>3, <1>4, <1>8, <2>1 DEF DataBy, Is, FinMoves, FinSent, FinTaken
  <2>2. CASE b.seq # t.rcv
    BY <1>8, <2>2 DEF DataBy, Is, FinMoves, FinSent, FinTaken
  <2> QED BY <2>1, <2>2
<1>9. CASE EmptyBy(t, b, u, TRUE)
  <2>1. CASE "FIN" \in b.flags /\ b.seq = t.rcv
    BY <1>3, <1>9, <2>1 DEF EmptyBy, Is, FinMoves, FinSent, FinTaken
  <2>2. CASE ~("FIN" \in b.flags /\ b.seq = t.rcv)
    BY <1>9, <2>2 DEF EmptyBy, Is, FinMoves, FinSent, FinTaken
  <2> QED BY <2>1, <2>2
<1>10. CASE FinAckedBy(t, b, u)
  BY <1>1, <1>10 DEF FinAckedBy, FinQueued, Is, FinMoves, FinSent, FinTaken
<1>11. CASE FinBy(t, b, u, TRUE)
  BY <1>3, <1>11 DEF FinBy, Is, FinMoves, FinSent, FinTaken
<1> QED BY <1>5, <1>6, <1>7, <1>8, <1>9, <1>10, <1>11 DEF MovedBy

(* What two ends of a connection know of each other.                       *)
LEMMA EndFacts ==
  ASSUME Base, NEW h \in Hosts, NEW i \in Slots, NEW j \in Slots, Ends(h, i, j)
  PROVE  LET t == tcb[h][i]
             y == tcb[Other(h)][j]
         IN  /\ t \in Tcb /\ y \in Tcb /\ TcbOk(t) /\ TcbOk(y)
             /\ (y.rcv = t.una \/ y.rcv = t.nxt) /\ (t.rcv = y.una \/ t.rcv = y.nxt)
             /\ t.state = "SYN_SENT" => y.state = "SYN_RECEIVED"
<1> DEFINE t == tcb[h][i]
           y == tcb[Other(h)][j]
           p == t.port
           X == TcbsOf(tcb, h, p)
           Y == TcbsOf(tcb, Other(h), p)
           Out == SegsOf(net, Other(h), p)
           In == SegsOf(net, h, p)
<1>1. Core /\ Numbers(tcb, net, conns)
  BY DEF Base
<1>2. Connected(t) /\ Connected(y) /\ t.conn = y.conn /\ Other(h) \in Hosts
  BY HostsIs DEF Ends
<1>3. t \in Tcb /\ p \in Ports /\ t \in X /\ TcbOk(t)
  BY <1>1, <1>2, CoreTcb
<1>4. y \in Tcb /\ y \in TcbsOf(tcb, Other(h), y.port) /\ TcbOk(y)
  BY <1>1, <1>2, CoreTcb
<1>5. y.port = p
  <2>1. t \in Numbered(tcb, net) /\ y \in Numbered(tcb, net)
    BY <1>2, NumberedIs
  <2> QED BY <1>1, <1>2, <2>1 DEF Numbers
<1>6. HostPort(h, X, Y, Out, In)
  BY <1>1, <1>3, PortInvIs DEF Core
<1>7. y \in Y
  BY <1>4, <1>5
<1> HIDE DEF t, y, p, X, Y, Out, In
<1>8. Window(X, Y, Out, In) /\ Window(Y, X, In, Out)
  BY <1>6, HostFacts
<1>9. (y.rcv = t.una \/ y.rcv = t.nxt) /\ (t.rcv = y.una \/ t.rcv = y.nxt)
  BY <1>2, <1>3, <1>7, <1>8 DEF Window
<1>10. t.state = "SYN_SENT" => y.state = "SYN_RECEIVED"
  BY <1>2, <1>3, <1>6, <1>7 DEF HostPort, PortOk, Sorts, Handshake
<1> QED BY <1>3, <1>4, <1>9, <1>10 DEF t, y

(* What a TCB and a segment it has sent know of each other.                *)
LEMMA SentFacts ==
  ASSUME Base, NEW h \in Hosts, NEW i \in Slots, Connected(tcb[h][i]),
         NEW a \in Flight(net[Other(h)]), a.conn = tcb[h][i].conn
  PROVE  /\ a \in Segment /\ SegOk(a)
         /\ InWindow(tcb[h][i], EndOf(a)) /\ a.ack <= tcb[h][i].rcv
<1> DEFINE t == tcb[h][i]
           p == t.port
           X == TcbsOf(tcb, h, p)
           Y == TcbsOf(tcb, Other(h), p)
           Out == SegsOf(net, Other(h), p)
           In == SegsOf(net, h, p)
<1>1. Core /\ Numbers(tcb, net, conns) /\ SlotInv /\ Other(h) \in Hosts
  BY HostsIs DEF Base, Core
<1>2. t \in Tcb /\ p \in Ports /\ t \in X
  BY <1>1, CoreTcb
<1>3. a.port = p
  <2>1. t \in Numbered(tcb, net) /\ a \in Numbered(tcb, net)
    BY <1>1, NumberedIs
  <2> QED BY <1>1, <2>1 DEF Numbers
<1>4. a \in Out /\ Out \in SUBSET Segment
  BY <1>1, <1>3, SegsType DEF SegsOf
<1>5. HostPort(h, X, Y, Out, In)
  BY <1>1, <1>2, PortInvIs DEF Core
<1>6. a.conn = t.conn
  OBVIOUS
<1> HIDE DEF t, p, X, Y, Out, In
<1>7. Window(X, Y, Out, In)
  BY <1>5, HostFacts
<1>8. SegOk(a)
  BY <1>4, <1>5 DEF HostPort, PortOk, Sorts
<1>9. InWindow(t, EndOf(a)) /\ a.ack <= t.rcv
  BY <1>2, <1>4, <1>6, <1>7 DEF Window
<1> QED BY <1>4, <1>8, <1>9 DEF t

(* What u, put in slot i of h, must know of what is sent and of its peer.  *)
FinsHold(h, i, u, A) ==
  Connected(u) =>
    /\ \A a \in Flight(net[Other(h)]) \cup A : a.conn = u.conn => FinSeg(u, a)
    /\ \A j \in Slots :
         Connected(tcb[Other(h)][j]) /\ tcb[Other(h)][j].conn = u.conn =>
           FinEnds(u, tcb[Other(h)][j]) /\ FinEnds(tcb[Other(h)][j], u)

(* What slot i of h sends is of no other slot's connection.                *)
Sole(h, i, A) ==
  \A j \in Slots : j # i /\ Connected(tcb[h][j]) => \A a \in A : a.conn # tcb[h][j].conn

(* Slot i of h gets u, which sends A.                                      *)
LEMMA WrittenFins ==
  ASSUME SlotInv, Fins, NEW h \in Hosts, NEW i \in Slots, NEW u \in Tcb, NEW A,
         tcb' = [tcb EXCEPT ![h][i] = u],
         Flight(net'[h]) \subseteq Flight(net[h]),
         Flight(net'[Other(h)]) \subseteq Flight(net[Other(h)]) \cup A,
         Sole(h, i, A), FinsHold(h, i, u, A)
  PROVE  Fins'
<1>1. /\ tcb'[h][i] = u
      /\ \A g \in Hosts, j \in Slots : ~(g = h /\ j = i) => tcb'[g][j] = tcb[g][j]
  BY DEF SlotInv, TypeOK
<1>2. Other(h) \in Hosts /\ Other(h) # h /\ Other(Other(h)) = h
  BY HostsIs
<1>3. \A j \in Slots : tcb'[Other(h)][j] = tcb[Other(h)][j]
  BY <1>1, <1>2
<1> SUFFICES ASSUME NEW g \in Hosts, NEW k \in Slots, Connected(tcb'[g][k])
             PROVE  /\ \A a \in Flight(net'[Other(g)]) :
                         a.conn = tcb'[g][k].conn => FinSeg(tcb'[g][k], a)
                    /\ \A j \in Slots : Ends(g, k, j)' =>
                         FinEnds(tcb'[g][k], tcb'[Other(g)][j])
  BY DEF Fins
<1>4. CASE g = h /\ k = i
  <2>1. tcb'[g][k] = u /\ Connected(u)
    BY <1>1, <1>4
  <2>2. \A a \in Flight(net'[Other(g)]) : a.conn = u.conn => FinSeg(u, a)
    BY <1>4, <2>1 DEF FinsHold
  <2>3. \A j \in Slots : Ends(g, k, j)' => FinEnds(u, tcb'[Other(g)][j])
    BY <1>3, <1>4, <2>1 DEF FinsHold, Ends
  <2> QED BY <2>1, <2>2, <2>3
<1>5. CASE g = h /\ k # i
  <2>1. tcb'[g][k] = tcb[g][k] /\ Connected(tcb[g][k])
    BY <1>1, <1>5
  <2>2. \A a \in Flight(net'[Other(g)]) : a.conn = tcb[g][k].conn => FinSeg(tcb[g][k], a)
    BY <1>5, <2>1 DEF Fins, Sole
  <2>3. \A j \in Slots : Ends(g, k, j)' => FinEnds(tcb[g][k], tcb'[Other(g)][j])
    BY <1>3, <1>5, <2>1 DEF Fins, Ends
  <2> QED BY <2>1, <2>2, <2>3
<1>6. CASE g = Other(h)
  <2>1. tcb'[g][k] = tcb[g][k] /\ Connected(tcb[g][k]) /\ Other(g) = h
    BY <1>2, <1>3, <1>6
  <2>2. \A a \in Flight(net'[Other(g)]) : a.conn = tcb[g][k].conn => FinSeg(tcb[g][k], a)
    BY <2>1 DEF Fins
  <2>3. ASSUME NEW j \in Slots, Ends(g, k, j)' PROVE FinEnds(tcb[g][k], tcb'[Other(g)][j])
    <3>1. CASE j = i
      BY <1>1, <1>6, <2>1, <2>3, <3>1 DEF FinsHold, Ends
    <3>2. CASE j # i
      <4>1. tcb'[h][j] = tcb[h][j]
        BY <1>1, <3>2
      <4>2. Ends(g, k, j)
        BY <2>1, <2>3, <4>1 DEF Ends
      <4> QED BY <2>1, <4>1, <4>2 DEF Fins
    <3> QED BY <3>1, <3>2
  <2> QED BY <2>1, <2>2, <2>3
<1>7. g = h \/ g = Other(h)
  BY DEF Hosts, Other
<1> QED BY <1>4, <1>5, <1>6, <1>7

(* The states in which a client may be without a peer.                     *)
Alone(t) == t.state \in {"FREE", "SYN_SENT", "TIME_WAIT", "LAST_ACK"}

(* What u, put in slot i of h, leaves of the pairs.                        *)
Peers(h, i, u) ==
  /\ h = "client" /\ ~Alone(u) =>
       /\ Connected(u)
       /\ \E j \in Slots : Connected(tcb["server"][j]) /\ tcb["server"][j].conn = u.conn
  /\ h = "server" =>
       \A k \in Slots : Ends("client", k, i) /\ ~Alone(tcb["client"][k]) =>
         Connected(u) /\ u.conn = tcb["server"][i].conn

(* Slot i of h gets u, and no client that needs a peer is left without.    *)
LEMMA WrittenPeers ==
  ASSUME SlotInv, NoHalfOpen, NEW h \in Hosts, NEW i \in Slots, NEW u \in Tcb,
         tcb' = [tcb EXCEPT ![h][i] = u], Peers(h, i, u)
  PROVE  NoHalfOpen'
<1>1. /\ tcb'[h][i] = u
      /\ \A g \in Hosts, j \in Slots : ~(g = h /\ j = i) => tcb'[g][j] = tcb[g][j]
  BY DEF SlotInv, TypeOK
<1>2. "client" \in Hosts /\ "server" \in Hosts /\ Other("client") = "server"
      /\ (h = "client" \/ h = "server")
  BY DEF Hosts, Other
<1> SUFFICES ASSUME NEW k \in Slots, ~Alone(tcb'["client"][k])
             PROVE  \E j \in Slots : Ends("client", k, j)'
  BY DEF NoHalfOpen, Alone
<1>3. CASE h = "client" /\ k = i
  <2>1. tcb'["client"][k] = u
    BY <1>1, <1>3
  <2>2. PICK j \in Slots : Connected(tcb["server"][j]) /\ tcb["server"][j].conn = u.conn
    BY <1>3, <2>1 DEF Peers
  <2>3. tcb'["server"][j] = tcb["server"][j]
    BY <1>1, <1>2, <1>3
  <2>4. Connected(u)
    BY <1>3, <2>1 DEF Peers
  <2> QED BY <1>2, <2>1, <2>2, <2>3, <2>4 DEF Ends
<1>4. CASE ~(h = "client" /\ k = i)
  <2>1. tcb'["client"][k] = tcb["client"][k]
    BY <1>1, <1>2, <1>4
  <2>2. PICK j \in Slots : Ends("client", k, j)
    BY <2>1 DEF NoHalfOpen, Alone
  <2>3. CASE h = "server" /\ j = i
    <3>1. Connected(u) /\ u.conn = tcb["server"][i].conn
      BY <2>1, <2>2, <2>3 DEF Peers
    <3>2. tcb'["server"][j] = u
      BY <1>1, <2>3
    <3> QED BY <1>2, <2>1, <2>2, <2>3, <3>1, <3>2 DEF Ends
  <2>4. CASE ~(h = "server" /\ j = i)
    <3>1. tcb'["server"][j] = tcb["server"][j]
      BY <1>1, <1>2, <2>4
    <3> QED BY <1>2, <2>1, <2>2, <3>1 DEF Ends
  <2> QED BY <2>3, <2>4
<1> QED BY <1>3, <1>4

(* Nothing is written, and a segment is sent, lost or taken by nobody.     *)
LEMMA SameFins ==
  ASSUME SlotInv, Fins, NoHalfOpen, tcb' = tcb,
         \A g \in Hosts : Flight(net'[g]) \subseteq Flight(net[g])
  PROVE  Fins' /\ NoHalfOpen'
<1>1. Fins'
  BY HostsIs DEF Fins, Ends
<1>2. NoHalfOpen'
  BY DEF NoHalfOpen, Ends
<1> QED BY <1>1, <1>2

(* The two ends after one of them, t, has moved to u by segment b.         *)
LEMMA MovesEnds ==
  ASSUME NEW t \in Tcb, NEW u \in Tcb, NEW y \in Tcb, NEW b \in Segment,
         TcbOk(y), FinMoves(t, b, u), Advances(t, b, u), t.conn = y.conn,
         t.rcv = y.una \/ t.rcv = y.nxt, t.state = "SYN_SENT" => y.state = "SYN_RECEIVED",
         b.conn = y.conn => FinSeg(y, b) /\ InWindow(y, EndOf(b)),
         FinEnds(t, y), FinEnds(y, t)
  PROVE  FinEnds(u, y) /\ FinEnds(y, u)
<1>1. u.nxt = t.nxt
  BY DEF Advances
<1>2. FinEnds(u, y)
  BY <1>1 DEF FinMoves, FinEnds
<1>3. CASE t.state = "SYN_SENT" /\ u.state = "ESTABLISHED"
  BY <1>2, <1>3 DEF FinEnds, FinTaken, FinSent
<1>4. CASE u.rcv = t.rcv /\ (FinTaken(u) <=> FinTaken(t))
  BY <1>2, <1>4 DEF FinEnds
<1>5. CASE /\ b.seq = t.rcv /\ EndOf(b) > b.seq /\ u.rcv = EndOf(b) /\ ~FinTaken(t)
           /\ FinTaken(u) <=> "FIN" \in b.flags
  <2>1. /\ t.rcv \in Nat /\ u.rcv \in Nat /\ y.una \in Nat /\ y.nxt \in Nat /\ y.una <= y.nxt
        /\ EndOf(b) \in Nat /\ b.seq \in Nat
    BY TcbFields, TcbOrder, SegmentFields, SeqEndType
  <2>2. b.conn = t.conn
    BY <1>5, <2>1 DEF Advances, RcvAdvances
  <2>3. EndOf(b) = y.nxt
    BY <1>5, <2>1, <2>2 DEF InWindow
  <2>4. FinSent(y) <=> "FIN" \in b.flags
    BY <1>5, <2>2, <2>3 DEF FinSeg
  <2> QED BY <1>2, <1>5, <2>3, <2>4 DEF FinEnds
<1> QED BY <1>3, <1>4, <1>5 DEF FinMoves

(* A segment moves the TCB that it matches.                                *)
LEMMA MatchedFins ==
  ASSUME NoWrap, Base, PeerInv, NEW h \in Hosts, net[h] # <<>>, NEW i \in Slots,
         NEW u, NEW O, MatchedStep(h, i, u, O)
  PROVE  Fins'
<1> DEFINE t == tcb[h][i]
           a == Arrived(h)
<1>0. Core /\ SlotInv /\ linkUp = TRUE /\ Fins
  BY DEF Base, Core, PeerInv, SlotInv, TypeOK
<1>1. /\ u \in Tcb /\ MovedBy(t, a, u, TRUE) /\ AnswerOf(u, O) /\ Connected(t)
      /\ tcb' = [tcb EXCEPT ![h][i] = u] /\ Consume(h, O)
  BY <1>0 DEF MatchedStep, Handles, Matched, FindExact, Connected
<1>2. /\ t \in Tcb /\ InUse(t) /\ a \in Segment /\ Fits(t, a)
      /\ Connected(u) => Advances(t, a, u)
  BY <1>0, TcbAt, MatchedFits
<1>3. (Connected(u) => u.port = t.port /\ u.conn = t.conn) /\ (~Connected(u) => u = FreeTcb)
  BY <1>1, <1>2, MovedFacts
<1>4. InUse(u)
  BY <1>1, <1>2, <1>3 DEF InUse, FreeTcb
<1>5. /\ O = <<>> \/ \E x \in Segment : O = <<x>>
      /\ \A o \in Flight(O) : o.conn = t.conn /\ FinSeg(u, o)
  <2>1. CASE O = <<>>
    BY <2>1, FlightOf
  <2>2. CASE Connected(u) /\ O = <<Seg(u, {"ACK"}, 0)>>
    <3> DEFINE x == Seg(u, {"ACK"}, 0)
    <3>1. 0 \in 0 .. MaxBytes
      BY BoundsAssumption
    <3>2. x \in Segment
      BY <1>1, <1>4, <2>2, <3>1, SegType
    <3>3. x.conn = u.conn /\ x.flags = {"ACK"} /\ x.len = 0
      BY DEF Seg
    <3>4. O = <<x>>
      BY <2>2
    <3> HIDE DEF x
    <3>5. Flight(O) = {x}
      BY <3>4, FlightOf
    <3>6. ~(EndOf(x) > x.seq)
      BY <3>2, <3>3, SegmentFields DEF EndOf, Control
    <3>7. FinSeg(u, x)
      BY <3>3, <3>6 DEF FinSeg
    <3> QED BY <1>3, <2>2, <3>2, <3>3, <3>4, <3>5, <3>7
  <2> QED BY <1>1, <2>1, <2>2 DEF AnswerOf
<1>6. /\ Flight(net'[h]) \subseteq Flight(net[h])
      /\ Flight(net'[Other(h)]) \subseteq Flight(net[Other(h)]) \cup Flight(O)
  BY <1>0, <1>1, <1>5, ConsumeFlight, HostsIs
<1>7. Sole(h, i, Flight(O))
  BY <1>1, <1>5, OneEnd DEF Sole
<1>8. FinsHold(h, i, u, Flight(O))
  <2> SUFFICES ASSUME Connected(u)
               PROVE  /\ \A x \in Flight(net[Other(h)]) \cup Flight(O) :
                           x.conn = u.conn => FinSeg(u, x)
                      /\ \A j \in Slots :
                           Connected(tcb[Other(h)][j]) /\ tcb[Other(h)][j].conn = u.conn =>
                             FinEnds(u, tcb[Other(h)][j]) /\ FinEnds(tcb[Other(h)][j], u)
    BY DEF FinsHold
  <2>1. Advances(t, a, u) /\ FinMoves(t, a, u) /\ u.conn = t.conn /\ u.nxt = t.nxt
    BY <1>1, <1>2, <1>3, MovedFins DEF Advances
  <2>2. ASSUME NEW x \in Flight(net[Other(h)]), x.conn = u.conn PROVE FinSeg(u, x)
    <3>1. FinSeg(t, x)
      BY <1>0, <1>1, <2>1, <2>2 DEF Fins
    <3> QED BY <2>1, <3>1 DEF FinSeg, FinMoves
  <2>3. ASSUME NEW j \in Slots, Connected(tcb[Other(h)][j]), tcb[Other(h)][j].conn = u.conn
        PROVE  FinEnds(u, tcb[Other(h)][j]) /\ FinEnds(tcb[Other(h)][j], u)
    <3> DEFINE y == tcb[Other(h)][j]
    <3>1. Other(h) \in Hosts /\ Other(Other(h)) = h
      BY HostsIs
    <3>2. Ends(h, i, j) /\ Ends(Other(h), j, i)
      BY <1>1, <2>1, <2>3, <3>1 DEF Ends
    <3>3. /\ y \in Tcb /\ TcbOk(y) /\ (t.rcv = y.una \/ t.rcv = y.nxt)
          /\ t.state = "SYN_SENT" => y.state = "SYN_RECEIVED"
      BY <3>2, EndFacts
    <3>4. FinEnds(t, y) /\ FinEnds(y, t)
      BY <1>0, <1>1, <2>3, <3>1, <3>2 DEF Fins
    <3>5. a \in Flight(net[h])
      BY <1>0, FlightTail DEF SlotInv, TypeOK, Arrived
    <3>6. a.conn = y.conn => FinSeg(y, a) /\ InWindow(y, EndOf(a))
      BY <1>0, <2>3, <3>1, <3>5, SentFacts DEF Fins
    <3>7. t.conn = y.conn
      BY <2>1, <2>3
    <3> HIDE DEF t, a, y
    <3>8. FinEnds(u, y) /\ FinEnds(y, u)
      BY <1>1, <1>2, <2>1, <3>3, <3>4, <3>6, <3>7, MovesEnds
    <3> QED BY <3>8 DEF y
  <2>4. \A x \in Flight(O) : FinSeg(u, x)
    BY <1>5
  <2> QED BY <2>2, <2>3, <2>4
<1> QED BY <1>0, <1>1, <1>6, <1>7, <1>8, WrittenFins

(* A server's TCB that has sent a FIN and taken one, and whose FIN has     *)
(* arrived, has a peer that needs it no longer.                            *)
LEMMA PeerDone ==
  ASSUME Fins, NEW k \in Slots, NEW i \in Slots, Ends("client", k, i),
         tcb["server"][i].state \in {"LAST_ACK", "TIME_WAIT"},
         tcb["client"][k].rcv = tcb["server"][i].nxt
  PROVE  Alone(tcb["client"][k])
<1> DEFINE x == tcb["client"][k]
           t == tcb["server"][i]
<1>1. /\ "client" \in Hosts /\ "server" \in Hosts
      /\ Other("client") = "server" /\ Other("server") = "client"
  BY DEF Hosts, Other
<1>2. Connected(x) /\ Connected(t) /\ Ends("server", i, k)
  BY <1>1 DEF Ends
<1>3. FinEnds(t, x) /\ FinEnds(x, t)
  BY <1>1, <1>2 DEF Fins
<1>4. FinTaken(x)
  BY <1>3 DEF FinEnds, FinSent
<1>5. FinSent(x)
  BY <1>3 DEF FinEnds, FinTaken
<1> QED BY <1>4, <1>5 DEF FinSent, FinTaken, Alone

(* A client that a SYN-ACK of its own connection reaches has a peer.       *)
LEMMA SynAckPeer ==
  ASSUME Core, NEW i \in Slots, tcb["client"][i].state = "SYN_SENT",
         NEW a \in Flight(net["client"]),
         a.conn = tcb["client"][i].conn, a.port = tcb["client"][i].port
  PROVE  \E j \in Slots : /\ Connected(tcb["server"][j])
                          /\ tcb["server"][j].conn = tcb["client"][i].conn
<1> DEFINE t == tcb["client"][i]
           p == t.port
<1>1. "client" \in Hosts /\ Connected(t)
  BY DEF Hosts, Connected
<1>2. t \in TcbsOf(tcb, "client", p) /\ p \in Ports
  BY <1>1, CoreTcb
<1>3. a \in SegsOf(net, "client", p)
  BY DEF SegsOf
<1>4. PortInv(tcb, net, p)
  BY <1>2 DEF Core
<1>5. t.state = "SYN_SENT" /\ a.conn = t.conn
  OBVIOUS
<1> HIDE DEF t, p
<1>6. \E y \in TcbsOf(tcb, "server", p) : y.conn = t.conn
  BY <1>2, <1>3, <1>4, <1>5 DEF PortInv, PortOk, Handshake
<1> QED BY <1>6 DEF TcbsOf, t

(* A segment moves or releases a TCB, and nobody who needs it is left      *)
(* alone.                                                                  *)
LEMMA MatchedPeers ==
  ASSUME NoWrap, Base, PeerInv, NEW h \in Hosts, net[h] # <<>>, NEW i \in Slots,
         NEW u, NEW O, MatchedStep(h, i, u, O)
  PROVE  NoHalfOpen'
<1> DEFINE t == tcb[h][i]
           a == Arrived(h)
<1>0. Core /\ SlotInv /\ Fins /\ NoHalfOpen
  BY DEF Base, Core, PeerInv
<1>1. /\ u \in Tcb /\ MovedBy(t, a, u, linkUp) /\ Connected(t) /\ t.port = a.port
      /\ tcb' = [tcb EXCEPT ![h][i] = u]
  BY DEF MatchedStep, Handles, Matched, FindExact, Connected
<1>2. /\ t \in Tcb /\ a \in Segment /\ Fits(t, a)
      /\ Connected(u) => Advances(t, a, u)
  BY <1>0, TcbAt, MatchedFits
<1>3. /\ u.state # "LISTEN" /\ (t.state = "TIME_WAIT" => u.state = "TIME_WAIT")
      /\ (Connected(u) => u.conn = t.conn) /\ (~Connected(u) => u = FreeTcb)
  BY <1>1, <1>2, MovedFacts
<1>4. a \in Flight(net[h])
  BY <1>0, FlightTail DEF SlotInv, TypeOK, Arrived
<1>5. /\ "client" \in Hosts /\ "server" \in Hosts
      /\ Other("client") = "server" /\ Other("server") = "client"
  BY DEF Hosts, Other
<1>6. ASSUME h = "client", ~Alone(u)
      PROVE  /\ Connected(u)
             /\ \E j \in Slots : Connected(tcb["server"][j]) /\ tcb["server"][j].conn = u.conn
  <2>1. Connected(u)
    BY <1>3, <1>6 DEF Alone, Connected
  <2>2. StateAdvances(t, a, u) /\ u.conn = t.conn
    BY <1>2, <2>1 DEF Advances
  <2>3. CASE t.state = "SYN_SENT"
    <3>1. a.conn = t.conn
      BY <1>6, <2>2, <2>3 DEF StateAdvances, Alone
    <3> QED BY <1>0, <1>1, <1>4, <1>6, <2>1, <2>2, <2>3, <3>1, SynAckPeer
  <2>4. CASE t.state # "SYN_SENT"
    <3>1. ~Alone(t)
      BY <1>1, <1>3, <1>6, <2>2, <2>4 DEF StateAdvances, Alone, Connected
    <3>2. \E j \in Slots : Ends("client", i, j)
      BY <1>0, <1>6, <3>1 DEF NoHalfOpen, Alone
    <3> QED BY <1>5, <1>6, <2>1, <2>2, <3>2 DEF Ends
  <2> QED BY <2>3, <2>4
<1>7. ASSUME h = "server", NEW k \in Slots, Ends("client", k, i), ~Alone(tcb["client"][k])
      PROVE  Connected(u) /\ u.conn = tcb["server"][i].conn
  <2>1. CASE Connected(u)
    BY <1>3, <1>7, <2>1
  <2>2. CASE ~Connected(u)
    <3> DEFINE x == tcb["client"][k]
    <3>1. FinAckedBy(t, a, u) /\ t.state = "LAST_ACK"
      BY <1>1, <2>2 DEF MovedBy, OpenedBy, AcceptedBy, DataBy, EmptyBy, FinAckedBy, FinBy,
                        FinQueued, Is, Connected
    <3>2. "ACK" \in a.flags /\ a.ack > t.una
      BY <3>1 DEF FinAckedBy
    <3>3. a.conn = t.conn
      BY <1>2, <3>1, <3>2 DEF Fits, Foreign
    <3>4. TcbOk(t) /\ InWindow(t, a.ack)
      BY <1>2, <3>3 DEF Fits
    <3>5. a.ack = t.nxt
      BY <1>2, <3>2, <3>4, AckEmpties
    <3>6. x.conn = t.conn /\ Connected(x)
      BY <1>5, <1>7 DEF Ends
    <3>7. a.ack <= x.rcv
      BY <1>4, <1>5, <1>7, <3>3, <3>6, SentFacts
    <3>8. x \in Tcb /\ (x.rcv = t.una \/ x.rcv = t.nxt)
      BY <1>5, <1>7, EndFacts
    <3>9. x.rcv \in Nat /\ t.una \in Nat /\ t.nxt \in Nat /\ a.ack \in Nat
      BY <1>2, <3>8, TcbFields, SegmentFields
    <3>10. x.rcv = t.nxt
      BY <3>2, <3>5, <3>7, <3>8, <3>9
    <3>11. Alone(x)
      BY <1>0, <1>7, <3>1, <3>10, PeerDone
    <3> QED BY <1>7, <3>11
  <2> QED BY <2>1, <2>2
<1>8. Peers(h, i, u)
  BY <1>6, <1>7 DEF Peers
<1> QED BY <1>0, <1>1, <1>8, WrittenPeers

(* tcp_send and tcp_close.                                                 *)
LEMMA TrackedFins ==
  ASSUME NoWrap, Base, PeerInv, NEW h \in Hosts, NEW i \in Slots, NEW u, NEW a,
         TrackedStep(h, i, u, a)
  PROVE  Fins' /\ NoHalfOpen'
<1> DEFINE t == tcb[h][i]
           A == {a}
<1>0. Core /\ SlotInv /\ Fins /\ NoHalfOpen /\ Bounded
  BY DEF Base, Core, PeerInv
<1>1. /\ Connected(t) /\ u \in Tcb /\ a \in Segment /\ a.conn = t.conn /\ u.conn = t.conn
      /\ u.rcv = t.rcv /\ tcb' = [tcb EXCEPT ![h][i] = u]
      /\ net' = [net EXCEPT ![Other(h)] = Append(@, a)]
      /\ TrackedBy(t, u, a) /\ linkUp
  BY DEF TrackedStep, TrackedBy
<1>2. t \in Tcb /\ TcbOk(t)
  BY <1>0, <1>1, CoreTcb
<1>3. EndOf(a) <= MaxBytes + 2
  BY <1>0, TrackedBounded
<1>4. u.nxt = EndOf(a) /\ Connected(u)
  BY <1>1, <1>2, <1>3, TrackedOk
<1>5. /\ ~FinSent(t) /\ (FinTaken(u) <=> FinTaken(t))
      /\ FinSent(u) <=> "FIN" \in a.flags
      /\ u.state = "ESTABLISHED" \/ FinSent(u)
      /\ ~Alone(u) => ~Alone(t)
  BY <1>1 DEF TrackedBy, FinSent, FinTaken, Alone
<1>6. t.nxt \in Nat /\ u.nxt \in Nat /\ t.nxt < u.nxt /\ t.una <= t.nxt /\ t.una \in Nat
  <2>1. a.seq = t.nxt /\ (a.len > 0 \/ "FIN" \in a.flags)
    BY <1>1 DEF TrackedBy
  <2>2. EndOf(a) > a.seq
    BY <1>1, <2>1, SegmentFields DEF EndOf, Control
  <2> QED BY <1>1, <1>2, <1>4, <2>1, <2>2, TcbOrder, SeqEndType
<1>7. Other(h) \in Hosts /\ Other(Other(h)) = h /\ Other(h) # h
  BY HostsIs
<1>8. /\ Flight(net'[h]) \subseteq Flight(net[h])
      /\ Flight(net'[Other(h)]) \subseteq Flight(net[Other(h)]) \cup A
  BY <1>0, <1>1, <1>7, SendFlight
<1>9. Sole(h, i, A)
  BY <1>1, OneEnd DEF Sole
<1>10. \A x \in Flight(net[Other(h)]) \cup A : x.conn = u.conn => FinSeg(u, x)
  <2>1. FinSeg(u, a)
    BY <1>5 DEF FinSeg
  <2>2. ASSUME NEW x \in Flight(net[Other(h)]), x.conn = u.conn PROVE FinSeg(u, x)
    <3>1. x \in Segment /\ InWindow(t, EndOf(x))
      BY <1>1, <2>2, SentFacts
    <3>2. EndOf(x) # u.nxt
      BY <1>6, <3>1, SeqEndType DEF InWindow
    <3>3. FinSeg(t, x)
      BY <1>0, <1>1, <2>2 DEF Fins
    <3> QED BY <1>5, <3>2, <3>3 DEF FinSeg
  <2> QED BY <2>1, <2>2
<1>11. ASSUME NEW j \in Slots, Connected(tcb[Other(h)][j]), tcb[Other(h)][j].conn = u.conn
       PROVE  FinEnds(u, tcb[Other(h)][j]) /\ FinEnds(tcb[Other(h)][j], u)
  <2> DEFINE y == tcb[Other(h)][j]
  <2>1. Ends(h, i, j) /\ Ends(Other(h), j, i)
    BY <1>1, <1>7, <1>11 DEF Ends
  <2>2. y.rcv = t.una \/ y.rcv = t.nxt
    BY <2>1, EndFacts
  <2>3. FinEnds(t, y) /\ FinEnds(y, t)
    BY <1>0, <1>1, <1>7, <1>11, <2>1 DEF Fins
  <2>4. y.rcv # u.nxt
    BY <1>6, <2>2
  <2> HIDE DEF t, y
  <2>5. FinEnds(u, y) /\ FinEnds(y, u)
    BY <1>1, <1>5, <2>3, <2>4 DEF FinEnds
  <2> QED BY <2>5 DEF y
<1>12. FinsHold(h, i, u, A)
  BY <1>10, <1>11 DEF FinsHold
<1>13. Fins'
  BY <1>0, <1>1, <1>8, <1>9, <1>12, WrittenFins
<1>14. Peers(h, i, u)
  <2>1. ASSUME h = "client", ~Alone(u)
        PROVE  \E j \in Slots : Connected(tcb["server"][j]) /\ tcb["server"][j].conn = u.conn
    <3>1. \E j \in Slots : Ends("client", i, j)
      BY <1>0, <1>5, <2>1 DEF NoHalfOpen, Alone
    <3> QED BY <1>1, <2>1, <3>1 DEF Ends, Other
  <2> QED BY <1>1, <1>4, <2>1 DEF Peers
<1>15. NoHalfOpen'
  BY <1>0, <1>1, <1>14, WrittenPeers
<1> QED BY <1>13, <1>15

(* tcp_retransmit_handler sends the clone again.                           *)
LEMMA RetransmitFins ==
  ASSUME Base, PeerInv, NEW h \in Hosts, NEW i \in Slots, Retransmit(h, i)
  PROVE  Fins' /\ NoHalfOpen'
<1> DEFINE t == tcb[h][i]
           a == t.q
           A == {a}
<1>0. Core /\ SlotInv /\ Fins /\ NoHalfOpen /\ tcb' = tcb
  BY DEF Base, Core, PeerInv, Retransmit
<1>1. CASE net' = net
  BY <1>0, <1>1, SameFins
<1>2. CASE Unacked(t) /\ net' = [net EXCEPT ![Other(h)] = Append(@, a)]
  <2>1. t \in Tcb /\ Connected(t) /\ a \in Segment
    <3>1. t \in Tcb /\ InUse(t)
      BY <1>0, TcbAt
    <3> QED BY <1>2, <3>1, TcbFields DEF Unacked, InUse
  <2>2. TcbOk(t)
    BY <1>0, <2>1, CoreTcb
  <2>3. a.conn = t.conn /\ FinSeg(t, a)
    BY <1>2, <2>2 DEF TcbOk, QueueOk, Unacked, FinSeg, FinSent, FinQueued
  <2>4. Other(h) \in Hosts /\ Other(Other(h)) = h /\ Other(h) # h
    BY HostsIs
  <2>5. /\ Flight(net'[h]) \subseteq Flight(net[h])
        /\ Flight(net'[Other(h)]) \subseteq Flight(net[Other(h)]) \cup A
    <3>1. a \in Segment /\ net' = [net EXCEPT ![Other(h)] = Append(@, a)]
      BY <1>2, <2>1
    <3> HIDE DEF a, t
    <3>2. /\ \A g \in Hosts : Flight(net'[g]) \subseteq Flight(net[g]) \cup {a}
          /\ \A g \in Hosts : g # Other(h) => net'[g] = net[g]
      BY <1>0, <2>4, <3>1, SendFlight
    <3> QED BY <2>4, <3>2
  <2>6. Sole(h, i, A)
    BY <2>1, <2>3, OneEnd DEF Sole
  <2>7. FinsHold(h, i, t, A)
    <3>1. \A x \in Flight(net[Other(h)]) : x.conn = t.conn => FinSeg(t, x)
      BY <1>0, <2>1 DEF Fins
    <3>2. ASSUME NEW j \in Slots, Connected(tcb[Other(h)][j]), tcb[Other(h)][j].conn = t.conn
          PROVE  FinEnds(t, tcb[Other(h)][j]) /\ FinEnds(tcb[Other(h)][j], t)
      <4>1. Ends(h, i, j) /\ Ends(Other(h), j, i)
        BY <2>1, <2>4, <3>2 DEF Ends
      <4> QED BY <1>0, <2>1, <2>4, <3>2, <4>1 DEF Fins
    <3> QED BY <2>3, <3>1, <3>2 DEF FinsHold
  <2>8. tcb' = [tcb EXCEPT ![h][i] = t]
    BY <1>0, SameTcb
  <2> HIDE DEF t, A
  <2>9. Fins'
    BY <1>0, <2>1, <2>5, <2>6, <2>7, <2>8, WrittenFins
  <2>10. NoHalfOpen'
    BY <1>0 DEF NoHalfOpen, Ends
  <2> QED BY <2>9, <2>10
<1> QED BY <1>1, <1>2 DEF Retransmit

(* tcp_connect uses a number that nothing has.                             *)
LEMMA ConnectFins ==
  ASSUME Base, PeerInv, NEW i \in Slots, NEW u, NEW a, ConnectStep(i, u, a)
  PROVE  Fins' /\ NoHalfOpen'
<1> DEFINE h == "client"
           A == {a}
<1>0. Core /\ SlotInv /\ Fins /\ NoHalfOpen /\ Numbers(tcb, net, conns)
  BY DEF Base, Core, PeerInv
<1>1. /\ u \in Tcb /\ a \in Segment /\ a.flags = {"SYN"} /\ u.state = "SYN_SENT"
      /\ u.conn = conns + 1 /\ a.conn = conns + 1
      /\ tcb' = [tcb EXCEPT ![h][i] = u]
      /\ net' = [net EXCEPT !["server"] = Append(@, a)]
  BY DEF ConnectStep, OpensSlot, Fresh
<1>2. h \in Hosts /\ Other(h) = "server" /\ "server" \in Hosts /\ h # "server"
  BY DEF Hosts, Other
<1>3. \A o \in Numbered(tcb, net) : o.conn # conns + 1
  <2>1. \A o \in Numbered(tcb, net) : o.conn \in Nat /\ o.conn <= conns
    BY <1>0, NumberedType DEF Numbers
  <2>2. conns \in Nat
    BY <1>0 DEF SlotInv, TypeOK
  <2> QED BY <2>1, <2>2
<1>4. /\ Flight(net'[h]) \subseteq Flight(net[h])
      /\ Flight(net'[Other(h)]) \subseteq Flight(net[Other(h)]) \cup A
  BY <1>0, <1>1, <1>2, SendFlight
<1>5. \A g \in Hosts, j \in Slots : Connected(tcb[g][j]) => tcb[g][j].conn # conns + 1
  BY <1>3, NumberedIs
<1>6. \A x \in Flight(net[Other(h)]) : x.conn # conns + 1
  BY <1>2, <1>3, NumberedIs
<1>7. Sole(h, i, A)
  BY <1>1, <1>2, <1>5 DEF Sole
<1>8. FinSeg(u, a)
  BY <1>1 DEF FinSeg, FinSent
<1>9. FinsHold(h, i, u, A)
  BY <1>1, <1>2, <1>5, <1>6, <1>8 DEF FinsHold
<1>10. Alone(u)
  BY <1>1 DEF Alone
<1>11. Peers(h, i, u)
  BY <1>10 DEF Peers
<1> HIDE DEF h, A
<1> QED BY <1>0, <1>1, <1>2, <1>4, <1>7, <1>9, <1>11, WrittenFins, WrittenPeers

(* A SYN opens a TCB for a client that is in SYN_SENT still.               *)
LEMMA AcceptFins ==
  ASSUME Base, PeerInv, NEW h \in Hosts, net[h] # <<>>, NEW i \in Slots, NEW u, NEW a,
         AcceptStep(h, i, u, a)
  PROVE  Fins' /\ NoHalfOpen'
<1> DEFINE b == Arrived(h)
           p == b.port
           O == <<a>>
           t == tcb[h][i]
<1>0. Core /\ SlotInv /\ Fins /\ NoHalfOpen /\ Numbers(tcb, net, conns)
  BY DEF Base, Core, PeerInv
<1>1. /\ u \in Tcb /\ u.conn = b.conn /\ u.state = "SYN_RECEIVED" /\ b.flags = {"SYN"}
      /\ FindExact(h, p) = {} /\ FindListener(h) # {} /\ t.state = "FREE"
      /\ a \in Segment /\ a.conn = b.conn /\ a.flags = {"SYN", "ACK"}
      /\ tcb' = [tcb EXCEPT ![h][i] = u] /\ Consume(h, O)
  BY DEF AcceptStep, OpensSlot, Fresh
<1>2. h = "server" /\ Other(h) = "client" /\ "client" \in Hosts
  BY <1>0, <1>1 DEF FindListener, SlotInv, NoClientListener, Hosts, Other
<1>3. b \in Segment /\ p \in Ports /\ b \in Flight(net[h])
  BY <1>0, ArrivedType, SegmentFields, FlightTail DEF SlotInv, TypeOK, Arrived
<1>4. b \in SegsOf(net, "server", p)
  BY <1>2, <1>3 DEF SegsOf
<1>5. TcbsOf(tcb, "server", p) = {} /\ PortInv(tcb, net, p) /\ IsSyn(b)
  BY <1>0, <1>1, <1>2, <1>3 DEF TcbsOf, FindExact, Connected, Core, IsSyn
<1>6. \A j \in Slots : Connected(tcb[h][j]) => tcb[h][j].conn # b.conn
  <2> SUFFICES ASSUME NEW j \in Slots, Connected(tcb[h][j]), tcb[h][j].conn = b.conn
               PROVE  FALSE
    OBVIOUS
  <2>1. tcb[h][j] \in Numbered(tcb, net) /\ b \in Numbered(tcb, net)
    BY <1>3, NumberedIs
  <2>2. tcb[h][j].port = p
    BY <1>0, <2>1 DEF Numbers
  <2> QED BY <1>1, <2>2 DEF FindExact, Connected
<1>7. ASSUME NEW x \in Flight(net["client"]), x.conn = b.conn PROVE "FIN" \notin x.flags
  <2>1. x \in Numbered(tcb, net) /\ b \in Numbered(tcb, net)
    BY <1>2, <1>3, <1>7, NumberedIs
  <2>2. x.port = p
    BY <1>0, <1>7, <2>1 DEF Numbers
  <2>3. x \in SegsOf(net, "client", p)
    BY <2>2 DEF SegsOf
  <2> HIDE DEF b, p
  <2>4. IsSyn(x) /\ SegOk(x)
    BY <1>4, <1>5, <1>7, <2>3 DEF PortInv, PortOk, Sorts, Handshake
  <2> QED BY <2>4 DEF IsSyn, SegOk
<1>8. ASSUME NEW j \in Slots, Connected(tcb["client"][j]), tcb["client"][j].conn = b.conn
      PROVE  tcb["client"][j].state = "SYN_SENT"
  <2> DEFINE y == tcb["client"][j]
  <2>1. y \in Numbered(tcb, net) /\ b \in Numbered(tcb, net)
    BY <1>2, <1>3, <1>8, NumberedIs
  <2>2. y.port = p
    BY <1>0, <1>8, <2>1 DEF Numbers
  <2>3. y \in TcbsOf(tcb, "client", p)
    BY <1>8, <2>2 DEF TcbsOf
  <2> HIDE DEF b, p, y
  <2>4. \E x \in TcbsOf(tcb, "client", p) : x.conn = b.conn /\ x.state = "SYN_SENT"
    BY <1>4, <1>5 DEF PortInv, PortOk, Handshake
  <2>5. y.state = "SYN_SENT"
    BY <1>0, <1>2, <2>3, <2>4, TcbsType
  <2> QED BY <2>5 DEF y
<1>9. Flight(O) = {a} /\ \E x \in Segment : O = <<x>>
  BY <1>1, FlightOf
<1> HIDE DEF O
<1>10. /\ Flight(net'[h]) \subseteq Flight(net[h])
       /\ Flight(net'[Other(h)]) \subseteq Flight(net[Other(h)]) \cup Flight(O)
  BY <1>0, <1>1, <1>2, <1>9, ConsumeFlight
<1>11. Sole(h, i, Flight(O))
  BY <1>1, <1>6, <1>9 DEF Sole
<1>12. FinsHold(h, i, u, Flight(O))
  <2>1. ~FinSent(u) /\ ~FinTaken(u)
    BY <1>1 DEF FinSent, FinTaken
  <2>2. \A x \in Flight(net[Other(h)]) \cup Flight(O) : x.conn = u.conn => FinSeg(u, x)
    BY <1>1, <1>2, <1>7, <1>9, <2>1 DEF FinSeg
  <2>3. \A j \in Slots : Connected(tcb[Other(h)][j]) /\ tcb[Other(h)][j].conn = u.conn =>
          FinEnds(u, tcb[Other(h)][j]) /\ FinEnds(tcb[Other(h)][j], u)
    BY <1>1, <1>2, <1>8, <2>1 DEF FinEnds, FinSent, FinTaken
  <2> QED BY <2>2, <2>3 DEF FinsHold
<1>13. Peers(h, i, u)
  <2>1. ~Connected(tcb["server"][i]) /\ Other("client") = "server"
    BY <1>1, <1>2 DEF Connected, Other
  <2>2. \A k \in Slots : ~Ends("client", k, i)
    BY <2>1 DEF Ends
  <2> QED BY <1>2, <2>2 DEF Peers
<1> HIDE DEF b, p, t
<1> QED BY <1>0, <1>1, <1>10, <1>11, <1>12, <1>13, WrittenFins, WrittenPeers

(* A slot that is not connected is written with a TCB that is not either,  *)
(* or one is released whose peer needs it no longer.                       *)
LEMMA ClosedFins ==
  ASSUME Base, PeerInv, NEW h \in Hosts, NEW i \in Slots, NEW u \in Tcb,
         ~Connected(u), h = "client" => u.state = "FREE",
         tcb' = [tcb EXCEPT ![h][i] = u], net' = net,
         ~Connected(tcb[h][i]) \/ tcb[h][i].state = "TIME_WAIT"
  PROVE  Fins' /\ NoHalfOpen'
<1> DEFINE t == tcb[h][i]
<1>0. Core /\ SlotInv /\ Fins /\ NoHalfOpen
  BY DEF Base, Core, PeerInv
<1>1. Sole(h, i, {}) /\ FinsHold(h, i, u, {})
  BY DEF Sole, FinsHold
<1>2. Fins'
  BY <1>0, <1>1, WrittenFins
<1>3. ASSUME h = "server", NEW k \in Slots, Ends("client", k, i), ~Alone(tcb["client"][k])
      PROVE  FALSE
  <2>1. "client" \in Hosts /\ Other("client") = "server"
    BY DEF Hosts, Other
  <2>2. Connected(t) /\ t.state = "TIME_WAIT"
    BY <1>3, <2>1 DEF Ends
  <2>3. /\ TcbOk(t) /\ t \in Tcb
        /\ tcb["client"][k].rcv = t.una \/ tcb["client"][k].rcv = t.nxt
    BY <1>3, <2>1, EndFacts
  <2>4. t.una = t.nxt
    BY <2>2, <2>3 DEF TcbOk, QueueOk, FinSent, FinQueued
  <2> QED BY <1>0, <1>3, <2>2, <2>3, <2>4, PeerDone
<1>4. Peers(h, i, u)
  BY <1>3 DEF Peers, Alone
<1>5. NoHalfOpen'
  BY <1>0, <1>4, WrittenPeers
<1> QED BY <1>2, <1>5

(* The pairs of the two ends, in every step.                               *)
LEMMA NextPeers ==
  ASSUME MaxFlaps = 0, NoWrap, Base, PeerInv, [Next]_vars
  PROVE  PeerInv'
<1>0. Core /\ SlotInv /\ Fins /\ NoHalfOpen /\ linkUp
  BY DEF Base, Core, PeerInv
<1>1. CASE UNCHANGED vars
  <2>1. tcb' = tcb /\ net' = net /\ linkUp' = linkUp
    BY <1>1 DEF vars
  <2>2. Fins' /\ NoHalfOpen'
    BY <1>0, <2>1, SameFins
  <2> QED BY <1>0, <2>1, <2>2 DEF PeerInv
<1>2. CASE Next
  <2>1. ASSUME NEW h \in Hosts, Listen(h) PROVE Fins' /\ NoHalfOpen' /\ linkUp' = linkUp
    <3>1. PICK i \in Slots, u \in Tcb :
             /\ ~Connected(u) /\ ~Connected(tcb[h][i]) /\ tcb' = [tcb EXCEPT ![h][i] = u]
             /\ UNCHANGED <<net, got, budget>>
      BY <1>0, <2>1, ListenWrites
    <3>2. h # "client" /\ linkUp' = linkUp /\ net' = net
      BY <2>1, <3>1 DEF Listen
    <3> QED BY <3>1, <3>2, ClosedFins
  <2>2. ASSUME NEW i \in Slots, NEW u, NEW a, ConnectStep(i, u, a)
        PROVE  Fins' /\ NoHalfOpen' /\ linkUp' = linkUp
    <3>1. linkUp' = linkUp
      BY <2>2 DEF ConnectStep
    <3> QED BY <2>2, <3>1, ConnectFins
  <2>3. ASSUME NEW h \in Hosts, NEW i \in Slots, NEW u, NEW a, TrackedStep(h, i, u, a)
        PROVE  Fins' /\ NoHalfOpen' /\ linkUp' = linkUp
    <3>1. linkUp' = linkUp
      BY <2>3 DEF TrackedStep
    <3> QED BY <2>3, <3>1, TrackedFins
  <2>4. ASSUME NEW h \in Hosts, (net[h] # <<>> /\ DropStep(h)) \/ Lose(h)
        PROVE  Fins' /\ NoHalfOpen' /\ linkUp' = linkUp
    <3>1. tcb' = tcb /\ linkUp' = linkUp
      BY <2>4 DEF DropStep, Lose
    <3>2. \A g \in Hosts : Flight(net'[g]) \subseteq Flight(net[g])
      <4>1. CASE net[h] # <<>> /\ DropStep(h)
        <5>1. Consume(h, <<>>)
          BY <4>1 DEF DropStep
        <5>2. \A g \in Hosts : Flight(net'[g]) \subseteq Flight(net[g]) \cup Flight(<<>>)
          BY <1>0, <4>1, <5>1, ConsumeFlight
        <5> QED BY <5>2, FlightOf
      <4>2. CASE Lose(h)
        <5>1. net[h] # <<>> /\ net[h] \in Seq(Segment)
          BY <1>0, <4>2 DEF Lose, SlotInv, TypeOK
        <5>2. net'[h] = Tail(net[h]) /\ \A g \in Hosts : g # h => net'[g] = net[g]
          BY <1>0, <4>2 DEF Lose, SlotInv, TypeOK
        <5> QED BY <5>1, <5>2, FlightTail
      <4> QED BY <2>4, <4>1, <4>2
    <3> QED BY <1>0, <3>1, <3>2, SameFins
  <2>5. ASSUME NEW h \in Hosts, NEW i \in Slots, NEW u, NEW a, net[h] # <<>>,
               AcceptStep(h, i, u, a)
        PROVE  Fins' /\ NoHalfOpen' /\ linkUp' = linkUp
    <3>1. linkUp' = linkUp
      BY <2>5 DEF AcceptStep
    <3> QED BY <2>5, <3>1, AcceptFins
  <2>6. ASSUME NEW h \in Hosts, NEW i \in Slots, NEW u, NEW O, net[h] # <<>>,
               MatchedStep(h, i, u, O)
        PROVE  Fins' /\ NoHalfOpen' /\ linkUp' = linkUp
    <3>1. linkUp' = linkUp
      BY <2>6 DEF MatchedStep
    <3> QED BY <2>6, <3>1, MatchedFins, MatchedPeers
  <2>7. ASSUME NEW h \in Hosts, NEW i \in Slots, Retransmit(h, i)
        PROVE  Fins' /\ NoHalfOpen' /\ linkUp' = linkUp
    <3>1. linkUp' = linkUp
      BY <2>7 DEF Retransmit
    <3> QED BY <2>7, <3>1, RetransmitFins
  <2>8. ASSUME NEW h \in Hosts, NEW i \in Slots, TimeWaitExpires(h, i)
        PROVE  Fins' /\ NoHalfOpen' /\ linkUp' = linkUp
    <3>1. /\ tcb[h][i].state = "TIME_WAIT" /\ tcb' = [tcb EXCEPT ![h][i] = FreeTcb]
          /\ net' = net /\ linkUp' = linkUp
      BY <1>0, <2>8, TimeWaitExpiresSlots
    <3>2. FreeTcb \in Tcb /\ FreeTcb.state = "FREE" /\ ~Connected(FreeTcb)
      BY FreeTcbType DEF Connected
    <3> QED BY <3>1, <3>2, ClosedFins
  <2>9. ~Flap
    BY <1>0 DEF Flap, SlotInv, TypeOK
  <2>10. Steps
    BY <1>0, <1>2, NextIs
  <2>11. Fins' /\ NoHalfOpen' /\ linkUp' = linkUp
    BY <2>1, <2>2, <2>3, <2>4, <2>5, <2>6, <2>7, <2>8, <2>9, <2>10 DEF Steps
  <2> QED BY <1>0, <2>11 DEF PeerInv
<1> QED BY <1>1, <1>2

(* While the link stays up, no end is left alone: a client past SYN_SENT   *)
(* and not yet in TIME_WAIT or LAST_ACK has a TCB of its connection at the *)
(* server, whatever is lost or retransmitted.  A server's TCB is released  *)
(* only when its FIN and the client's have both been taken.                *)
THEOREM NoEndAlone ==
  ASSUME NoWrap, MaxFlaps = 0
  PROVE  Spec => []NoHalfOpen
<1>1. Init => Base /\ PeerInv
  <2>1. ASSUME Init PROVE PeerInv
    <3>1. \A h \in Hosts, i \in Slots : tcb[h][i] = FreeTcb
      BY <2>1 DEF Init
    <3>2. ~Connected(FreeTcb) /\ "client" \in Hosts
      BY FreeTcbType DEF Connected, Hosts
    <3>3. Fins
      BY <3>1, <3>2 DEF Fins
    <3>4. NoHalfOpen
      BY <3>1, <3>2, FreeTcbType DEF NoHalfOpen
    <3> QED BY <2>1, <3>3, <3>4 DEF Init, PeerInv
  <2> QED BY <2>1, InitCore DEF Base
<1>2. Base /\ PeerInv /\ [Next]_vars => (Base /\ PeerInv)'
  BY NextBase, NextPeers
<1>3. PeerInv => NoHalfOpen
  BY DEF PeerInv
<1> QED BY <1>1, <1>2, <1>3, PTL DEF Spec

=============================================================================

-------------------------------- MODULE Tcp ---------------------------------
(***************************************************************************)
(* The stop-and-wait TCP of src/src/protocols/tcp.c: two hosts, each with  *)
(* a table of TCBs, joined by one link.                                    *)
(*                                                                         *)
(* ip_output refuses a destination outside the interface's subnet, so a    *)
(* TCP connection crosses a single link: segments to a host arrive in the  *)
(* order sent (net), since the link's delay is fixed and the scheduler is  *)
(* first-in first-out among equal timestamps (module Engine).  A segment   *)
(* is lost when the receiving interface is disabled at its arrival (Lose); *)
(* while the link is down ip_output fails and the code's error paths run.  *)
(* Time is abstract: a pending timer may expire at any moment, before or   *)
(* after the answer it waits for, as it does for the link delays a         *)
(* topology may choose.                                                    *)
(*                                                                         *)
(* The client's port stands for the four-tuple; the server's port and both *)
(* addresses are fixed.  Initial sequence numbers are 0, so byte n of a    *)
(* stream has sequence number n.                                           *)
(***************************************************************************)
EXTENDS Naturals, Sequences, FiniteSets

CONSTANTS
  NSlots,    \* TCP_MAX_CONNS
  SeqMod,    \* sequence numbers are unsigned: 2^32 in the code
  Ports,     \* the client's ports
  Writers,   \* hosts whose application sends data
  Closers,   \* hosts whose application closes an established connection
  MaxConns,  \* bound: successful calls of tcp_connect
  MaxBytes,  \* bound: bytes each application writes, and the MSS
  MaxFlight, \* bound: segments in flight when a segment is retransmitted
  MaxLosses, \* bound: segments lost
  MaxFlaps   \* bound: changes of the link's state

Hosts == {"client", "server"}
Slots == 1 .. NSlots
Seqs  == 0 .. SeqMod - 1

ASSUME SlotsAssumption  == NSlots \in Nat \ {0}
ASSUME SeqAssumption    == SeqMod \in Nat /\ SeqMod > 2
ASSUME PortsAssumption  == 0 \notin Ports
ASSUME PolicyAssumption == Writers \subseteq Hosts /\ Closers \subseteq Hosts
ASSUME BoundsAssumption ==
  /\ MaxConns \in Nat /\ MaxBytes \in Nat /\ MaxFlight \in Nat
  /\ MaxLosses \in Nat /\ MaxFlaps \in Nat

Other(h) == IF h = "client" THEN "server" ELSE "client"

Plus(a, n) == (a + n) % SeqMod

(* A TCP segment; conn (history) numbers the connection it was sent for.   *)
Segment ==
  [port: Ports, seq: Seqs, ack: Seqs, flags: SUBSET {"SYN", "ACK", "FIN"},
   len: 0 .. MaxBytes, conn: 1 .. MaxConns]

(* The one entry of a TCB's send queue: the clone kept for retransmission, *)
(* or nothing.                                                             *)
NoSeg == [len |-> 0]

(* Released slots have valid = 0, here the state FREE.  TCP_CLOSING is     *)
(* absent: no statement of tcp.c enters it.                                *)
States ==
  {"FREE", "LISTEN", "SYN_SENT", "SYN_RECEIVED", "ESTABLISHED", "FIN_WAIT_1",
   "FIN_WAIT_2", "CLOSE_WAIT", "LAST_ACK", "TIME_WAIT"}

(* A TCB; conn and called (connect_handler has run) are history.           *)
Tcb ==
  [state: States, port: Ports \cup {0}, una: Seqs, nxt: Seqs, rcv: Seqs,
   q: Segment \cup {NoSeg}, conn: 0 .. MaxConns, called: BOOLEAN]

FreeTcb ==
  [state |-> "FREE", port |-> 0, una |-> 0, nxt |-> 0, rcv |-> 0,
   q |-> NoSeg, conn |-> 0, called |-> FALSE]

VARIABLES
  tcb,    \* TcpTable.tcbs of each host
  net,    \* the segments in flight to each host, oldest first
  rtx,    \* pending EVT_TCP_RETRANSMIT events for each TCB slot
  tw,     \* pending TIME_WAIT timers for each TCB slot
  linkUp, \* Link.up
  got,    \* history: the bytes handed to recv_handler, by host and connection
  conns, written, losses, flaps  \* what has been used of each bound

budget == <<conns, written, losses, flaps>>
vars   == <<tcb, net, rtx, tw, linkUp, got, budget>>

TypeOK ==
  /\ tcb \in [Hosts -> [Slots -> Tcb]]
  /\ net \in [Hosts -> Seq(Segment)]
  /\ rtx \in [Hosts -> [Slots -> Nat]]
  /\ tw \in [Hosts -> [Slots -> Nat]]
  /\ linkUp \in BOOLEAN
  /\ got \in [Hosts -> [1 .. MaxConns -> Seq(Seqs)]]
  /\ conns \in 0 .. MaxConns
  /\ written \in [Hosts -> 0 .. MaxBytes]
  /\ losses \in 0 .. MaxLosses /\ flaps \in 0 .. MaxFlaps

(* tcp_init for both tables; nothing in flight.                            *)
Init ==
  /\ tcb = [h \in Hosts |-> [i \in Slots |-> FreeTcb]]
  /\ net = [h \in Hosts |-> <<>>]
  /\ rtx = [h \in Hosts |-> [i \in Slots |-> 0]]
  /\ tw = [h \in Hosts |-> [i \in Slots |-> 0]]
  /\ linkUp = TRUE
  /\ got = [h \in Hosts |-> [c \in 1 .. MaxConns |-> <<>>]]
  /\ conns = 0 /\ written = [h \in Hosts |-> 0] /\ losses = 0 /\ flaps = 0

-----------------------------------------------------------------------------
(* Tables and send queues.                                                 *)

(* tcp_alloc_tcb takes the first slot that is not valid.                   *)
FreeSlots(h) == {i \in Slots : tcb[h][i].state = "FREE"}
FirstFree(h) == CHOOSE i \in FreeSlots(h) : \A j \in FreeSlots(h) : i <= j

(* tcp_find_exact and tcp_find_listener.                                   *)
FindExact(h, port) ==
  {i \in Slots : tcb[h][i].state \notin {"FREE", "LISTEN"} /\ tcb[h][i].port = port}
FindListener(h) == {i \in Slots : tcb[h][i].state = "LISTEN"}

(* tcp_sendq_has_unacked.                                                  *)
Unacked(t) == t.q # NoSeg

(* TcpSegment.seq_end: SYN and FIN take one sequence number.               *)
SeqEnd(seg) ==
  Plus(seg.seq, seg.len + IF seg.flags \cap {"SYN", "FIN"} # {} THEN 1 ELSE 0)

(* Mutant: the comparison with the end of the segment is off by one.       *)
SendqAckLate(t, ack) ==
  [t EXCEPT !.una = ack,
            !.q = IF t.q # NoSeg /\ ack > SeqEnd(t.q) THEN NoSeg ELSE t.q]

(* tcp_sendq_ack: the entry goes when ack reaches its end, compared as     *)
(* plain unsigned numbers.                                                 *)
SendqAck(t, ack) ==
  [t EXCEPT !.una = ack,
            !.q = IF t.q # NoSeg /\ ack >= SeqEnd(t.q) THEN NoSeg ELSE t.q]

(* Is a FIN still in the send queue?                                       *)
FinUnacked(t) == t.q # NoSeg /\ "FIN" \in t.q.flags

(* The segment tcp_send_segment builds for a TCB.                          *)
Seg(t, flags, len) ==
  [port |-> t.port, seq |-> t.nxt, ack |-> t.rcv, flags |-> flags,
   len |-> len, conn |-> t.conn]

(* tcp_send_segment with a clone: the segment goes out, tcp_sendq_track    *)
(* keeps the clone, snd_nxt moves past it.                                 *)
Track(t, seg) == [t EXCEPT !.q = seg, !.nxt = SeqEnd(seg)]

-----------------------------------------------------------------------------
(* Calls of the application.  Refused calls change nothing and are left    *)
(* out.                                                                    *)

(* tcp_listen.                                                             *)
Listen(h) ==
  /\ h = "server"
  /\ FindListener(h) = {}
  /\ FreeSlots(h) # {}
  /\ tcb' = [tcb EXCEPT ![h][FirstFree(h)] = [FreeTcb EXCEPT !.state = "LISTEN"]]
  /\ UNCHANGED <<net, rtx, tw, linkUp, got, budget>>

(* Mutant: tcp_connect does not look for the four-tuple.                   *)
ConnectAgain(port) ==
  LET h == "client"
      i == FirstFree(h)
      t == [FreeTcb EXCEPT !.state = "SYN_SENT", !.port = port, !.conn = conns + 1]
      syn == Seg(t, {"SYN"}, 0)
  IN  /\ conns < MaxConns
      /\ FreeSlots(h) # {}
      /\ linkUp
      /\ tcb' = [tcb EXCEPT ![h][i] = Track(t, syn)]
      /\ net' = [net EXCEPT ![Other(h)] = Append(@, syn)]
      /\ rtx' = [rtx EXCEPT ![h][i] = @ + 1]
      /\ conns' = conns + 1
      /\ UNCHANGED <<tw, linkUp, got, written, losses, flaps>>

(* tcp_connect: the SYN is sent, its clone queued and a retransmission     *)
(* scheduled; when ip_output fails the TCB is released again.              *)
Connect(port) ==
  LET h == "client"
      i == FirstFree(h)
      t == [FreeTcb EXCEPT !.state = "SYN_SENT", !.port = port, !.conn = conns + 1]
      syn == Seg(t, {"SYN"}, 0)
  IN  /\ conns < MaxConns
      /\ FindExact(h, port) = {}
      /\ FreeSlots(h) # {}
      /\ linkUp
      /\ tcb' = [tcb EXCEPT ![h][i] = Track(t, syn)]
      /\ net' = [net EXCEPT ![Other(h)] = Append(@, syn)]
      /\ rtx' = [rtx EXCEPT ![h][i] = @ + 1]
      /\ conns' = conns + 1
      /\ UNCHANGED <<tw, linkUp, got, written, losses, flaps>>

(* tcp_send and tcp_close share their tail: send with a clone, track it,   *)
(* advance snd_nxt, schedule a retransmission.                             *)
SendTracked(h, i, t, seg) ==
  /\ linkUp
  /\ tcb' = [tcb EXCEPT ![h][i] = Track(t, seg)]
  /\ net' = [net EXCEPT ![Other(h)] = Append(@, seg)]
  /\ rtx' = [rtx EXCEPT ![h][i] = @ + 1]

(* tcp_send of len bytes; longer requests are cut to the MSS.              *)
Send(h, i, len) ==
  LET t == tcb[h][i]
  IN  /\ h \in Writers
      /\ t.state = "ESTABLISHED"
      /\ ~Unacked(t)
      /\ written[h] + len <= MaxBytes
      /\ SendTracked(h, i, t, Seg(t, {"ACK"}, len))
      /\ written' = [written EXCEPT ![h] = @ + len]
      /\ UNCHANGED <<tw, linkUp, got, conns, losses, flaps>>

StateAfterClose(state) == IF state = "ESTABLISHED" THEN "FIN_WAIT_1" ELSE "LAST_ACK"

(* tcp_close.                                                              *)
Close(h, i) ==
  LET t == tcb[h][i]
      next == StateAfterClose(t.state)
  IN  /\ \/ t.state = "ESTABLISHED" /\ h \in Closers
         \/ t.state = "CLOSE_WAIT"
      /\ ~Unacked(t)
      /\ SendTracked(h, i, [t EXCEPT !.state = next], Seg(t, {"FIN", "ACK"}, 0))
      /\ UNCHANGED <<tw, linkUp, got, budget>>

-----------------------------------------------------------------------------
(* tcp_receive, one action per branch.  Each consumes the oldest segment   *)
(* in flight to the host and sends at most one answer; the answer is not   *)
(* sent, and the branch's error path taken, when the link is down.         *)

Arrived(h) == Head(net[h])

Consume(h, answer) ==
  net' = [net EXCEPT ![h] = Tail(@),
                     ![Other(h)] = @ \o IF linkUp THEN answer ELSE <<>>]

Ack(t) == <<Seg(t, {"ACK"}, 0)>>

(* LISTEN receives SYN: a child TCB is allocated, the SYN-ACK is sent and  *)
(* its clone queued, and no retransmission is scheduled.  Without a free   *)
(* slot, or when the send fails (the child is released), nothing remains.  *)
ReceiveListen(h) ==
  LET seg == Arrived(h)
      i   == FirstFree(h)
      t   == [FreeTcb EXCEPT !.state = "SYN_RECEIVED", !.port = seg.port,
                             !.rcv = Plus(seg.seq, 1), !.conn = seg.conn]
      synAck == Seg(t, {"SYN", "ACK"}, 0)
      opens  == FreeSlots(h) # {} /\ linkUp
  IN  /\ FindExact(h, seg.port) = {} /\ seg.flags = {"SYN"} /\ FindListener(h) # {}
      /\ tcb' = IF opens THEN [tcb EXCEPT ![h][i] = Track(t, synAck)] ELSE tcb
      /\ Consume(h, IF opens THEN <<synAck>> ELSE <<>>)
      /\ UNCHANGED <<rtx, tw, linkUp, got, budget>>

(* No TCB and no listener: dropped.                                        *)
ReceiveNone(h) ==
  LET seg == Arrived(h)
  IN  /\ FindExact(h, seg.port) = {}
      /\ seg.flags # {"SYN"} \/ FindListener(h) = {}
      /\ Consume(h, <<>>)
      /\ UNCHANGED <<tcb, rtx, tw, linkUp, got, budget>>

(* The branches below are for the TCB of the segment's four-tuple.         *)
Matched(h, i, state) ==
  i \in FindExact(h, Arrived(h).port) /\ tcb[h][i].state = state

(* Mutant: the answer to the SYN-ACK is forgotten.                         *)
FinalAckForgotten(t) == <<>>

(* The ACK that ends the handshake.                                        *)
FinalAck(t) == Ack(t)

(* SYN_SENT receives SYN-ACK: established before the ACK is sent; when the *)
(* send fails the connect handler is not called.                           *)
ReceiveSynSent(h, i) ==
  LET seg == Arrived(h)
      t   == tcb[h][i]
      ok  == {"SYN", "ACK"} \subseteq seg.flags /\ seg.ack = t.nxt
      t2  == [SendqAck(t, seg.ack) EXCEPT !.rcv = Plus(seg.seq, 1),
                !.state = "ESTABLISHED", !.called = linkUp]
  IN  /\ Matched(h, i, "SYN_SENT")
      /\ tcb' = IF ok THEN [tcb EXCEPT ![h][i] = t2] ELSE tcb
      /\ Consume(h, IF ok THEN FinalAck(t2) ELSE <<>>)
      /\ UNCHANGED <<rtx, tw, linkUp, got, budget>>

(* The passive end becomes established and calls connect_handler.          *)
EstablishedByAck(t, ack) ==
  [SendqAck(t, ack) EXCEPT !.state = "ESTABLISHED", !.called = TRUE]

(* SYN_RECEIVED receives the final ACK; a payload it carries is dropped.   *)
ReceiveSynReceived(h, i) ==
  LET seg == Arrived(h)
      t   == tcb[h][i]
      ok  == "ACK" \in seg.flags /\ seg.ack = t.nxt
      t2  == EstablishedByAck(t, seg.ack)
  IN  /\ Matched(h, i, "SYN_RECEIVED")
      /\ tcb' = IF ok THEN [tcb EXCEPT ![h][i] = t2] ELSE tcb
      /\ Consume(h, <<>>)
      /\ UNCHANGED <<rtx, tw, linkUp, got, budget>>

(* The acknowledgement part of the ESTABLISHED branch.                     *)
AckEstablished(t, seg) ==
  IF "ACK" \in seg.flags /\ seg.ack > t.una /\ seg.ack <= t.nxt
  THEN SendqAck(t, seg.ack) ELSE t

(* Mutant: data that was received before counts as in order.               *)
InOrderOrOld(t, seg) == seg.seq <= t.rcv

InOrder(t, seg) == seg.seq = t.rcv

(* Mutant: rcv_nxt moves for data out of order too.                        *)
AfterDataAlways(t, seg) == [t EXCEPT !.rcv = Plus(@, seg.len)]

AfterData(t, seg) ==
  IF InOrder(t, seg) THEN [t EXCEPT !.rcv = Plus(@, seg.len)] ELSE t

(* Mutant: data out of order is dropped without a duplicate ACK.           *)
DataAckedOnce(t, seg) == IF InOrder(t, seg) THEN Ack(AfterData(t, seg)) ELSE <<>>

DataAck(t, seg) == Ack(AfterData(t, seg))

(* ESTABLISHED receives data: in order, it is acknowledged and then given  *)
(* to the application (rcv_nxt has moved even when the ACK cannot be sent, *)
(* and then the data is freed); out of order, it is answered by a          *)
(* duplicate ACK.                                                          *)
ReceiveData(h, i) ==
  LET seg == Arrived(h)
      t   == AckEstablished(tcb[h][i], seg)
      bytes == [n \in 1 .. seg.len |-> Plus(seg.seq, n - 1)]
  IN  /\ Matched(h, i, "ESTABLISHED") /\ seg.len > 0
      /\ tcb' = [tcb EXCEPT ![h][i] = AfterData(t, seg)]
      /\ got' = IF InOrder(t, seg) /\ linkUp
                THEN [got EXCEPT ![h][t.conn] = @ \o bytes] ELSE got
      /\ Consume(h, DataAck(t, seg))
      /\ UNCHANGED <<rtx, tw, linkUp, budget>>

(* ESTABLISHED receives a segment without data: the expected FIN is        *)
(* acknowledged and moves the TCB to CLOSE_WAIT, unless the ACK cannot be  *)
(* sent; anything else is done with after its acknowledgement part.        *)
ReceiveEmpty(h, i) ==
  LET seg == Arrived(h)
      t   == AckEstablished(tcb[h][i], seg)
      fin == "FIN" \in seg.flags /\ seg.seq = t.rcv
      t2  == IF fin THEN [t EXCEPT !.rcv = Plus(@, 1),
                            !.state = IF linkUp THEN "CLOSE_WAIT" ELSE @]
             ELSE t
  IN  /\ Matched(h, i, "ESTABLISHED") /\ seg.len = 0
      /\ tcb' = [tcb EXCEPT ![h][i] = t2]
      /\ Consume(h, IF fin THEN Ack(t2) ELSE <<>>)
      /\ UNCHANGED <<rtx, tw, linkUp, got, budget>>

(* FIN_WAIT_1 looks at the acknowledgement only.                           *)
ReceiveFinWait1(h, i) ==
  LET seg == Arrived(h)
      t   == tcb[h][i]
      ok  == "ACK" \in seg.flags /\ seg.ack > t.una
      t2  == SendqAck(t, seg.ack)
  IN  /\ Matched(h, i, "FIN_WAIT_1")
      /\ tcb' = IF ok THEN [tcb EXCEPT ![h][i] =
                  IF FinUnacked(t2) THEN t2 ELSE [t2 EXCEPT !.state = "FIN_WAIT_2"]]
                ELSE tcb
      /\ Consume(h, <<>>)
      /\ UNCHANGED <<rtx, tw, linkUp, got, budget>>

(* Mutant: TIME_WAIT is entered without its timer.                         *)
TimeWaitUntimed(h, i) == tw

(* The TIME_WAIT timer is scheduled for the slot.                          *)
TimeWaitScheduled(h, i) == [tw EXCEPT ![h][i] = @ + 1]

(* FIN_WAIT_2 receives FIN: acknowledged, and TIME_WAIT with its timer,    *)
(* unless the ACK cannot be sent.  Anything else is consumed.              *)
ReceiveFinWait2(h, i) ==
  LET seg == Arrived(h)
      t   == tcb[h][i]
      ok  == "FIN" \in seg.flags /\ seg.seq = t.rcv
      t2  == [t EXCEPT !.rcv = Plus(@, 1), !.state = IF linkUp THEN "TIME_WAIT" ELSE @]
  IN  /\ Matched(h, i, "FIN_WAIT_2")
      /\ tcb' = IF ok THEN [tcb EXCEPT ![h][i] = t2] ELSE tcb
      /\ tw' = IF ok /\ linkUp THEN TimeWaitScheduled(h, i) ELSE tw
      /\ Consume(h, IF ok THEN Ack(t2) ELSE <<>>)
      /\ UNCHANGED <<rtx, linkUp, got, budget>>

(* Mutant: any ACK releases the TCB.                                       *)
ReceiveLastAckAny(h, i) ==
  /\ Matched(h, i, "LAST_ACK")
  /\ tcb' = IF "ACK" \in Arrived(h).flags THEN [tcb EXCEPT ![h][i] = FreeTcb] ELSE tcb
  /\ Consume(h, <<>>)
  /\ UNCHANGED <<rtx, tw, linkUp, got, budget>>

(* LAST_ACK releases the TCB when its FIN is acknowledged.                 *)
ReceiveLastAck(h, i) ==
  LET seg == Arrived(h)
      t   == tcb[h][i]
      ok  == "ACK" \in seg.flags /\ seg.ack > t.una
      t2  == SendqAck(t, seg.ack)
  IN  /\ Matched(h, i, "LAST_ACK")
      /\ tcb' = IF ok THEN [tcb EXCEPT ![h][i] = IF FinUnacked(t2) THEN t2 ELSE FreeTcb]
                ELSE tcb
      /\ Consume(h, <<>>)
      /\ UNCHANGED <<rtx, tw, linkUp, got, budget>>

(* TIME_WAIT consumes everything, and CLOSE_WAIT, which has no branch of   *)
(* its own, drops everything.                                              *)
ReceiveIgnored(h, i) ==
  /\ Matched(h, i, "TIME_WAIT") \/ Matched(h, i, "CLOSE_WAIT")
  /\ Consume(h, <<>>)
  /\ UNCHANGED <<tcb, rtx, tw, linkUp, got, budget>>

Receive(h) ==
  /\ net[h] # <<>>
  /\ \/ ReceiveListen(h)
     \/ ReceiveNone(h)
     \/ \E i \in Slots :
          \/ ReceiveSynSent(h, i)
          \/ ReceiveSynReceived(h, i)
          \/ ReceiveData(h, i)
          \/ ReceiveEmpty(h, i)
          \/ ReceiveFinWait1(h, i)
          \/ ReceiveFinWait2(h, i)
          \/ ReceiveLastAck(h, i)
          \/ ReceiveIgnored(h, i)

-----------------------------------------------------------------------------
(* Timers and the link.                                                    *)

(* tcp_retransmit_handler for the event's TCB slot, whoever owns the slot  *)
(* by then: a queued segment is sent again as it was and the timer         *)
(* rescheduled; when ip_output fails the timer is not.  The first event of *)
(* a segment carries no handler: the application is taken to have          *)
(* registered this one for EVT_TCP_RETRANSMIT.                             *)
Retransmit(h, i) ==
  LET t == tcb[h][i]
      again == Unacked(t) /\ linkUp
  IN  /\ rtx[h][i] > 0
      /\ Len(net[h]) + Len(net[Other(h)]) < MaxFlight
      /\ net' = IF again THEN [net EXCEPT ![Other(h)] = Append(@, t.q)] ELSE net
      /\ rtx' = IF again THEN rtx ELSE [rtx EXCEPT ![h][i] = @ - 1]
      /\ UNCHANGED <<tcb, tw, linkUp, got, budget>>

(* tcp_time_wait_handler: releases the slot if it is in TIME_WAIT.         *)
TimeWaitExpires(h, i) ==
  /\ tw[h][i] > 0
  /\ tw' = [tw EXCEPT ![h][i] = @ - 1]
  /\ tcb' = IF tcb[h][i].state = "TIME_WAIT"
            THEN [tcb EXCEPT ![h][i] = FreeTcb] ELSE tcb
  /\ UNCHANGED <<net, rtx, linkUp, got, budget>>

(* The receiving interface is disabled when the segment arrives.           *)
Lose(h) ==
  /\ net[h] # <<>> /\ losses < MaxLosses
  /\ net' = [net EXCEPT ![h] = Tail(@)]
  /\ losses' = losses + 1
  /\ UNCHANGED <<tcb, rtx, tw, linkUp, got, conns, written, flaps>>

(* link_set_up: the link goes down or comes back.                          *)
Flap ==
  /\ flaps < MaxFlaps
  /\ linkUp' = ~linkUp
  /\ flaps' = flaps + 1
  /\ UNCHANGED <<tcb, net, rtx, tw, got, conns, written, losses>>

-----------------------------------------------------------------------------

Application ==
  \/ \E h \in Hosts : Listen(h)
  \/ \E port \in Ports : Connect(port)
  \/ \E h \in Hosts, i \in Slots : \E len \in 1 .. MaxBytes : Send(h, i, len)
  \/ \E h \in Hosts, i \in Slots : Close(h, i)

Next ==
  \/ Application
  \/ \E h \in Hosts : Receive(h)
  \/ \E h \in Hosts, i \in Slots : Retransmit(h, i) \/ TimeWaitExpires(h, i)
  \/ \E h \in Hosts : Lose(h)
  \/ Flap

(* The scheduler dispatches every event that it holds: segments arrive and *)
(* timers expire.  The bound MaxFlight may disable a timer again and       *)
(* again, hence SF for it.                                                 *)
Fairness ==
  /\ \A h \in Hosts : WF_vars(Receive(h))
  /\ \A h \in Hosts, i \in Slots : SF_vars(Retransmit(h, i))
  /\ \A h \in Hosts, i \in Slots : WF_vars(TimeWaitExpires(h, i))

Spec == Init /\ [][Next]_vars /\ Fairness

(* The same with applications that close a connection their peer closed.   *)
ClosingSpec ==
  Spec /\ \A h \in Hosts, i \in Slots :
            WF_vars(tcb[h][i].state = "CLOSE_WAIT" /\ Close(h, i))

-----------------------------------------------------------------------------
(* Properties.                                                             *)

Connected(t) == t.state \notin {"FREE", "LISTEN"}

(* The two ends of one connection.                                         *)
Ends(h, i, j) ==
  /\ Connected(tcb[h][i]) /\ Connected(tcb[Other(h)][j])
  /\ tcb[h][i].conn = tcb[Other(h)][j].conn

(* Stop-and-wait bookkeeping: a TCB holds a clone for retransmission       *)
(* exactly while something it sent is unacknowledged, and the clone is     *)
(* that something.  No acknowledgement, however late or repeated, leaves   *)
(* an unacknowledged byte without a clone or an acknowledged one with it.  *)
SendqExact ==
  \A h \in Hosts, i \in Slots :
    LET t == tcb[h][i]
    IN  Connected(t) =>
          IF Unacked(t) THEN t.q.seq = t.una /\ SeqEnd(t.q) = t.nxt
          ELSE t.una = t.nxt

(* Each TCB by itself is sound, in every state its handlers leave it in.   *)
TcbInv == TypeOK /\ SendqExact

(* What one end takes as acknowledged the other has received, and what one *)
(* end has received the other has sent; also across lost segments, early   *)
(* retransmissions and sends that fail.                                    *)
SeqSpaceAgrees ==
  \A h \in Hosts, i, j \in Slots :
    Ends(h, i, j) =>
      /\ tcb[h][i].una <= tcb[Other(h)][j].rcv
      /\ tcb[Other(h)][j].rcv <= tcb[h][i].nxt

(* tcp_find_exact has at most one TCB to find: retransmitted SYNs and      *)
(* reconnects never make a second TCB for a four-tuple.                    *)
UniqueTuple ==
  \A h \in Hosts, i, j \in Slots :
    Connected(tcb[h][i]) /\ Connected(tcb[h][j]) /\ tcb[h][i].port = tcb[h][j].port
      => i = j

(* A TIME_WAIT timer is pending for a slot exactly while the slot is in    *)
(* TIME_WAIT: no slot stays in TIME_WAIT for ever, and no timer is left to *)
(* release the connection that takes the slot next.                        *)
TimeWaitTimed ==
  \A h \in Hosts, i \in Slots :
    tw[h][i] = IF tcb[h][i].state = "TIME_WAIT" THEN 1 ELSE 0

(* A slot belongs to one connection: no second slot has its four-tuple, and *)
(* no timer of an earlier owner will release it.                           *)
SlotsOwned == UniqueTuple /\ TimeWaitTimed

(* A client that is past SYN_SENT and not yet in TIME_WAIT has a peer: the *)
(* server holds a TCB of the same connection.                              *)
NoHalfOpen ==
  \A i \in Slots :
    tcb["client"][i].state \notin {"FREE", "SYN_SENT", "TIME_WAIT", "LAST_ACK"} =>
      \E j \in Slots : Ends("client", i, j)

(* Bytes are delivered in order and at most once, also when segments are   *)
(* retransmitted too early or after the data has been received.            *)
OrderedDelivery ==
  \A h \in Hosts, c \in 1 .. MaxConns : \A m, n \in 1 .. Len(got[h][c]) :
    m < n => got[h][c][m] < got[h][c][n]

(* 18_tcp.md: TCP presents bytes as an ordered stream, so what has been    *)
(* delivered is an initial part of what was sent, without gaps.            *)
StreamIntact ==
  \A h \in Hosts, c \in 1 .. MaxConns : \A n \in 1 .. Len(got[h][c]) :
    got[h][c][n] = n

(* 18_tcp.md on TcpConnectHandler: it is called when a TCB becomes         *)
(* established.  So an application that waits for the call learns of every *)
(* connection it may use, also of one that came up while the link failed.  *)
ConnectHandlerCalled ==
  \A h \in Hosts, i \in Slots :
    tcb[h][i].state = "ESTABLISHED" => tcb[h][i].called

BothEstablished(h, i) ==
  /\ tcb[h][i].state = "ESTABLISHED"
  /\ \E j \in Slots : Ends(h, i, j) /\ tcb[Other(h)][j].state = "ESTABLISHED"

(* While both ends stay established, data in the send queue is eventually  *)
(* acknowledged, however many copies or acknowledgements are lost.         *)
DataAcknowledged ==
  \A h \in Hosts, i \in Slots :
    (BothEstablished(h, i) /\ Unacked(tcb[h][i]))
      ~> (~BothEstablished(h, i) \/ ~Unacked(tcb[h][i]))

(* A close of one side, answered by a close of the other, releases both    *)
(* TCBs, unless a segment is lost.                                         *)
CloseCompletes ==
  \A h \in Hosts, i \in Slots :
    (tcb[h][i].state = "FIN_WAIT_1") ~>
      (losses > 0 \/ \A g \in Hosts, j \in Slots : ~Connected(tcb[g][j]))

(* A passive end that has sent its SYN-ACK becomes established, unless a   *)
(* segment is lost, whatever copies of the SYN it meets on the way.        *)
HandshakeCompletes ==
  \A j \in Slots :
    (tcb["server"][j].state = "SYN_RECEIVED")
      ~> (losses > 0 \/ tcb["server"][j].state = "ESTABLISHED")

(* 18_tcp.md on TcpSegment: a queued control segment is retransmitted if   *)
(* the peer does not acknowledge it in time, so neither the SYN-ACK nor    *)
(* the last FIN keeps a TCB in its state although one segment is lost.     *)
ControlRepaired ==
  \A h \in Hosts, i \in Slots : \A state \in {"SYN_RECEIVED", "LAST_ACK"} :
    (tcb[h][i].state = state) ~> (tcb[h][i].state # state)

=============================================================================

------------------------------ MODULE TcpInput ------------------------------
(***************************************************************************)
(* What lwIP does with a segment that arrives (tcp_in.c), built without    *)
(* the queue of out-of-order segments (TCP_QUEUE_OOSEQ is 0).              *)
(*                                                                         *)
(* A segment is handled on a record r: the pcb p it is for and what the    *)
(* handler keeps in the static variables of tcp_in.c - recv, the data and  *)
(* FIN accepted from this segment, and flags, TF_RESET or TF_CLOSED.       *)
(***************************************************************************)
EXTENDS TcpPcb

Handling(p) == [p |-> p, recv |-> NoData, flags |-> {}]

-----------------------------------------------------------------------------
(***************************************************************************)
(* tcp_receive: window update, acknowledgement, data.                      *)
(***************************************************************************)
WindowNews(p, s) ==
    \/ TCP_SEQ_LT(p.snd_wl1, s.seq)
    \/ p.snd_wl1 = s.seq /\ TCP_SEQ_LT(p.snd_wl2, s.ack)
    \/ p.snd_wl2 = s.ack /\ s.wnd > p.snd_wnd


\* The persist timer runs while the window that was last heard of is closed.
UpdateWindow(p, s) ==
    IF ~WindowNews(p, s) THEN p
    ELSE [p EXCEPT !.snd_wnd = s.wnd, !.snd_wnd_max = Max({@, s.wnd}),
                   !.snd_wl1 = s.seq, !.snd_wl2 = s.ack,
                   !.persist = s.wnd = 0]

\* old is the pcb before UpdateWindow: its right edge decides on a duplicate.
DuplicateAck(old, p, s) ==
    /\ s.ack = p.lastack /\ TCP_TCPLEN(s) = 0 /\ p.rtime
    /\ Num(p.snd_wl2 + p.snd_wnd) = Num(old.snd_wl2 + old.snd_wnd)

\* More than three are not told apart.
CountDuplicate(p) ==
    LET q == [p EXCEPT !.dupacks = Min({@ + 1, 4})]
    IN  CASE p.dupacks >= 3 -> [q EXCEPT !.cwnd = Min({@ + p.opt.mss, MaxCwnd})]
          [] p.dupacks = 2 -> tcp_rexmit_fast(q)
          [] OTHER -> q

\* The congestion window after an acknowledgement of new data
Opened(p) ==
    LET w == IF p.infr THEN p.ssthresh ELSE p.cwnd
    IN  Min({w + (IF w < p.ssthresh THEN p.opt.mss
                  ELSE (p.opt.mss * p.opt.mss) \div w), MaxCwnd})

Unacknowledged(segs, ack) ==
    LET acked == {i \in 1..Len(segs) : TCP_SEQ_LEQ(EndOf(segs[i]), ack)}
    IN  SubSeq(segs, Leading(segs, acked) + 1, Len(segs))

AckNew(p, s) ==
    LET left == Unacknowledged(p.unacked, s.ack)
    IN  [p EXCEPT !.infr = FALSE, !.nrtx = 0, !.dupacks = 0, !.cwnd = Opened(p),
                  !.snd_buf = @ + Num(s.ack - p.lastack), !.lastack = s.ack,
                  !.unacked = left, !.rtime = left # <<>>]

\* Segments waiting for their retransmission may be acknowledged as well.
AckUnsent(p, s) ==
    LET acked == {i \in 1..Len(p.unsent) :
                      TCP_SEQ_BETWEEN(s.ack, EndOf(p.unsent[i]), p.snd_nxt)}
    IN  [p EXCEPT !.unsent = SubSeq(@, Leading(@, acked) + 1, Len(@))]

Acknowledge(old, p, s) ==
    AckUnsent(CASE DuplicateAck(old, p, s) -> CountDuplicate(p)
                [] TCP_SEQ_LEQ(s.ack, p.lastack) /\ ~DuplicateAck(old, p, s) ->
                       [p EXCEPT !.dupacks = 0]
                [] /\ ~TCP_SEQ_LEQ(s.ack, p.lastack)
                   /\ TCP_SEQ_BETWEEN(s.ack, p.lastack + 1, p.snd_nxt) -> AckNew(p, s)
                [] OTHER -> p, s)

\* Mutant: only the sequence number is moved up, the data is not.
TrimFront_Keep(p, s) ==
    IF TCP_SEQ_BETWEEN(p.rcv_nxt, s.seq + 1, s.seq + TCP_TCPLEN(s) - 1)
    THEN [s EXCEPT !.seq = p.rcv_nxt] ELSE s

\* The part of a segment that was received before is cut off...
TrimFront(p, s) ==
    IF TCP_SEQ_BETWEEN(p.rcv_nxt, s.seq + 1, s.seq + TCP_TCPLEN(s) - 1)
    THEN [s EXCEPT !.seq = p.rcv_nxt,
                   !.data = SubSeq(@, Num(p.rcv_nxt - s.seq) + 1, Len(@))]
    ELSE s

\* ... and what exceeds the window, the FIN with it.
TrimBack(p, s) ==
    IF TCP_TCPLEN(s) > p.rcv_wnd
    THEN [s EXCEPT !.fin = FALSE, !.data = SubSeq(@, 1, Min({p.rcv_wnd, Len(@)}))]
    ELSE s

InOrder(r, s) ==
    LET t == TrimBack(r.p, s)
        q == [r.p EXCEPT !.rcv_nxt = EndOf(t), !.rcv_wnd = @ - TCP_TCPLEN(t)]
    IN  [r EXCEPT !.p = tcp_ack(tcp_update_rcv_ann_wnd(q)),
                  !.recv = [data |-> t.data, fin |-> t.fin]]

InWindow(p, seq) == TCP_SEQ_BETWEEN(seq, p.rcv_nxt, p.rcv_nxt + p.rcv_wnd - 1)

\* A segment out of order is only acknowledged.
TakeData(r, s0) ==
    LET s == TrimFront(r.p, s0)
        q == IF TCP_SEQ_LT(s.seq, r.p.rcv_nxt) THEN tcp_ack_now(r.p) ELSE r.p
    IN  IF InWindow(q, s.seq) /\ s.seq = q.rcv_nxt THEN InOrder([r EXCEPT !.p = q], s)
        ELSE [r EXCEPT !.p = tcp_send_empty_ack(q)]

BeforeCloseWait == {"ESTABLISHED", "FIN_WAIT_1", "FIN_WAIT_2"}

\* Mutant: every segment is acknowledged, an acknowledgement as well.
tcp_receive_AckAll(r, s) ==
    LET q == IF s.isack THEN Acknowledge(r.p, UpdateWindow(r.p, s), s) ELSE r.p
    IN  IF TCP_TCPLEN(s) > 0 /\ q.state \in BeforeCloseWait
        THEN TakeData([r EXCEPT !.p = q], s)
        ELSE [r EXCEPT !.p = tcp_ack_now(q)]

tcp_receive(r, s) ==
    LET q == IF s.isack THEN Acknowledge(r.p, UpdateWindow(r.p, s), s) ELSE r.p
    IN  IF TCP_TCPLEN(s) > 0 /\ q.state \in BeforeCloseWait
        THEN TakeData([r EXCEPT !.p = q], s)
        ELSE [r EXCEPT !.p = IF InWindow(q, s.seq) THEN q ELSE tcp_ack_now(q)]

-----------------------------------------------------------------------------
(***************************************************************************)
(* tcp_process: the state machine.                                         *)
(***************************************************************************)
Reply(r, s) == [r EXCEPT !.p = tcp_rst(@, s.ack, Num(s.seq + TCP_TCPLEN(s)))]

ResetAcceptable(p, s) ==
    IF p.state = "SYN_SENT" THEN s.ack = p.snd_nxt
    ELSE TCP_SEQ_BETWEEN(s.seq, p.rcv_nxt, p.rcv_nxt + p.rcv_wnd)

InitialCwnd(p, old) == IF old = 1 THEN 2 * p.opt.mss ELSE p.opt.mss

SynSent(r, s) ==
    LET p == r.p
    IN  CASE s.isack /\ s.syn /\ s.ack = Num(p.unacked[1].seq + 1) ->
                 [r EXCEPT !.p = tcp_ack_now(
                    [p EXCEPT !.snd_buf = @ + 1, !.rcv_nxt = Num(s.seq + 1),
                              !.edge = Num(s.seq + 1), !.lastack = s.ack,
                              !.snd_wnd = s.wnd, !.snd_wnd_max = s.wnd,
                              !.snd_wl1 = Num(s.seq - 1), !.state = "ESTABLISHED",
                              !.ssthresh = 10 * p.opt.mss,
                              !.cwnd = InitialCwnd(p, p.cwnd),
                              !.unacked = Tail(@), !.rtime = Len(p.unacked) > 1,
                              !.nrtx = IF Len(p.unacked) > 1 THEN 0 ELSE @])]
          [] s.isack /\ ~(s.syn /\ s.ack = Num(p.unacked[1].seq + 1)) -> Reply(r, s)
          [] OTHER -> r

GotFin(r) == r.recv.fin

CloseWaitOnFin(r) ==
    IF GotFin(r) THEN [r EXCEPT !.p = [tcp_ack_now(@) EXCEPT !.state = "CLOSE_WAIT"]]
    ELSE r

SynRcvd(r, s) ==
    LET q == tcp_receive([r EXCEPT !.p.state = "ESTABLISHED"], s)
    IN  CASE s.isack /\ TCP_SEQ_BETWEEN(s.ack, r.p.lastack + 1, r.p.snd_nxt) ->
                 CloseWaitOnFin([q EXCEPT !.p.cwnd = InitialCwnd(r.p, r.p.cwnd)])
          [] s.isack /\ ~TCP_SEQ_BETWEEN(s.ack, r.p.lastack + 1, r.p.snd_nxt) ->
                 Reply(r, s)
          [] ~s.isack /\ s.syn /\ s.seq = Num(r.p.rcv_nxt - 1) ->
                 [r EXCEPT !.p = tcp_rexmit(@)]
          [] OTHER -> r

TimeWait(r) == [r EXCEPT !.p = [tcp_pcb_purge(@) EXCEPT !.state = "TIME_WAIT"]]


\* The acknowledgement is of everything that was sent.
AcksAll(r, s) == s.isack /\ s.ack = r.p.snd_nxt

FinWait1(r, s) ==
    CASE GotFin(r) /\ AcksAll(r, s) -> TimeWait([r EXCEPT !.p = tcp_ack_now(@)])
      [] GotFin(r) /\ ~AcksAll(r, s) ->
             [r EXCEPT !.p = [tcp_ack_now(@) EXCEPT !.state = "CLOSING"]]
      [] ~GotFin(r) /\ AcksAll(r, s) -> [r EXCEPT !.p.state = "FIN_WAIT_2"]
      [] OTHER -> r


\* In the states that receive, first tcp_receive, then the transition.
Transition(state, r, s) ==
    CASE state \in {"ESTABLISHED", "CLOSE_WAIT"} -> CloseWaitOnFin(r)
      [] state = "FIN_WAIT_1" -> FinWait1(r, s)
      [] state = "FIN_WAIT_2" /\ GotFin(r) -> TimeWait([r EXCEPT !.p = tcp_ack_now(@)])
      [] state = "CLOSING" /\ AcksAll(r, s) -> TimeWait(r)
      [] state = "LAST_ACK" /\ AcksAll(r, s) -> [r EXCEPT !.flags = {"CLOSED"}]
      [] OTHER -> r

tcp_process(r, s) ==
    CASE s.rst -> IF ResetAcceptable(r.p, s) THEN [r EXCEPT !.flags = {"RESET"}] ELSE r
      [] ~s.rst /\ s.syn /\ r.p.state \notin {"SYN_SENT", "SYN_RCVD"} ->
             [r EXCEPT !.p = tcp_ack_now(@)]
      [] ~s.rst /\ r.p.state = "SYN_SENT" -> SynSent(r, s)
      [] ~s.rst /\ r.p.state = "SYN_RCVD" -> SynRcvd(r, s)
      [] OTHER -> Transition(r.p.state, tcp_receive(r, s), s)

-----------------------------------------------------------------------------
(***************************************************************************)
(* Segments for a connection in TIME_WAIT, for a listener and for nobody.  *)
(***************************************************************************)
tcp_timewait_input(p, s) ==
    CASE s.rst -> p
      [] ~s.rst /\ s.syn /\ TCP_SEQ_BETWEEN(s.seq, p.rcv_nxt, p.rcv_nxt + p.rcv_wnd) ->
             tcp_rst(p, s.ack, Num(s.seq + TCP_TCPLEN(s)))
      [] OTHER -> IF TCP_TCPLEN(s) > 0 THEN tcp_output(tcp_ack_now(p)) ELSE p

NoPcbInput(p, s) ==
    IF s.rst THEN p ELSE tcp_rst(p, s.ack, Num(s.seq + TCP_TCPLEN(s)))

tcp_listen_input(p, s, iss) ==
    CASE s.rst -> p
      [] ~s.rst /\ s.isack -> tcp_rst(p, s.ack, Num(s.seq + TCP_TCPLEN(s)))
      [] ~s.rst /\ ~s.isack /\ s.syn ->
             tcp_output(tcp_enqueue_flags(
                [tcp_alloc(p.opt, iss) EXCEPT
                     !.state = "SYN_RCVD", !.rcv_nxt = Num(s.seq + 1),
                     !.edge = Num(s.seq + 1), !.snd_wnd = s.wnd,
                     !.snd_wnd_max = s.wnd, !.ssthresh = s.wnd,
                     !.snd_wl1 = Num(s.seq - 1)], TRUE, FALSE))
      [] OTHER -> p
=============================================================================

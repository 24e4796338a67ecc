------------------------------- MODULE TcpPcb -------------------------------
(***************************************************************************)
(* A TCP protocol control block of lwIP and the functions of tcp.c and     *)
(* tcp_out.c that queue, send and retransmit segments, as operators on a   *)
(* record p.  The field out collects the segments handed to IP.            *)
(*                                                                         *)
(* Sequence numbers are counted modulo SeqSpace, as u32_t is modulo 2^32.  *)
(* The payload of a segment is a sequence of units; p.opt holds the build  *)
(* options mss, wnd and buf (TCP_MSS, TCP_WND and TCP_SND_BUF) in units.   *)
(* The retransmission and the persist timer are known by whether they run  *)
(* (rtime, persist), not by how long they have run.  The queue length is   *)
(* counted in segments, and out of memory is only the queue's limit.       *)
(***************************************************************************)
EXTENDS Integers, Sequences, FiniteSetsExt, SequencesExt

CONSTANTS SeqSpace,         \* the number of sequence numbers
          MaxCwnd,          \* where the congestion window saturates
          TCP_SND_QUEUELEN, \* segments on the two queues of a pcb
          RtxSpace          \* what nrtx counts modulo, as u8_t is modulo 256

ASSUME TcpPcbAssumption ==
    /\ SeqSpace \in Nat /\ SeqSpace > 1 /\ SeqSpace % 2 = 0
    /\ {MaxCwnd, TCP_SND_QUEUELEN, RtxSpace} \subseteq Nat \ {0}

-----------------------------------------------------------------------------
(***************************************************************************)
(* The comparisons take the signed difference of two sequence numbers.     *)
(***************************************************************************)
Num(x) == x % SeqSpace
TCP_SEQ_LT(x, y) == Num(x - y) >= SeqSpace \div 2
TCP_SEQ_LEQ(x, y) == TCP_SEQ_LT(x, y) \/ Num(x) = Num(y)
TCP_SEQ_GEQ(x, y) == ~TCP_SEQ_LT(x, y)
TCP_SEQ_BETWEEN(x, y, z) == TCP_SEQ_GEQ(x, y) /\ TCP_SEQ_LEQ(x, z)

\* A segment is [seq, data, syn, fin]; on the wire it also carries ack,
\* isack, rst and wnd.
TCP_TCPLEN(s) == Len(s.data) + (IF s.syn \/ s.fin THEN 1 ELSE 0)
EndOf(s) == Num(s.seq + TCP_TCPLEN(s))

\* How many places of a list come before the first that is not in good: where
\* a walk along the list stops.
Leading(list, good) == Max({n \in 0..Len(list) : 1..n \subseteq good})

\* A segment is put before the first one that does not precede it...
Insert(segs, t) ==
    LET before == {i \in 1..Len(segs) : TCP_SEQ_LT(segs[i].seq, t.seq)}
    IN  InsertAt(segs, Leading(segs, before) + 1, t)

\* ... or, once it is sent, behind the last one if it can go there.
File(segs, t) ==
    IF segs # <<>> /\ TCP_SEQ_LT(t.seq, Last(segs).seq) THEN Insert(segs, t)
    ELSE Append(segs, t)

FileAll(segs, new) ==
    LET filed[i \in 0..Len(new)] ==
            IF i = 0 THEN segs ELSE File(filed[i - 1], new[i])
    IN  filed[Len(new)]

NoData == [data |-> <<>>, fin |-> FALSE]

\* tcp_alloc
tcp_alloc(opt, iss) ==
    [state |-> "CLOSED", opt |-> opt,
     rxclosed |-> FALSE, ack |-> {}, infr |-> FALSE, finq |-> FALSE,
     memerr |-> FALSE,
     rcv_nxt |-> 0, rcv_wnd |-> opt.wnd, rcv_ann_wnd |-> opt.wnd, edge |-> 0,
     snd_nxt |-> iss, lastack |-> iss, snd_lbb |-> iss, snd_buf |-> opt.buf,
     snd_wnd |-> 0, snd_wnd_max |-> 0, snd_wl1 |-> 0, snd_wl2 |-> iss,
     cwnd |-> 1, ssthresh |-> 0, dupacks |-> 0,
     nrtx |-> 0, rtime |-> FALSE, persist |-> FALSE,
     unsent |-> <<>>, unacked |-> <<>>, refused |-> NoData,
     out |-> <<>>]

\* No control block: what is left after memp_free.
Gone(p) == [tcp_alloc(p.opt, 0) EXCEPT !.out = p.out]

tcp_pcb_purge(p) ==
    IF p.state \in {"CLOSED", "TIME_WAIT", "LISTEN"} THEN p
    ELSE [p EXCEPT !.refused = NoData, !.rtime = FALSE,
                   !.unsent = <<>>, !.unacked = <<>>]

-----------------------------------------------------------------------------
(***************************************************************************)
(* Sending.                                                                *)
(***************************************************************************)
Wire(p, seq, data, syn, fin, isack) ==
    [seq |-> seq, data |-> data, syn |-> syn, fin |-> fin, isack |-> isack,
     rst |-> FALSE, ack |-> p.rcv_nxt, wnd |-> p.rcv_ann_wnd]

\* tcp_output_alloc_header and the ip_output that follows
Emit(p, segs) ==
    [p EXCEPT !.out = @ \o segs, !.edge = Num(p.rcv_nxt + p.rcv_ann_wnd)]

tcp_rst(p, seq, ack) ==
    [p EXCEPT !.out = Append(@, [seq |-> seq, data |-> <<>>, syn |-> FALSE,
                                 fin |-> FALSE, isack |-> TRUE, rst |-> TRUE,
                                 ack |-> ack, wnd |-> p.opt.wnd])]

tcp_send_empty_ack(p) ==
    Emit([p EXCEPT !.ack = {}],
         <<Wire(p, p.snd_nxt, <<>>, FALSE, FALSE, TRUE)>>)

tcp_ack_now(p) == [p EXCEPT !.ack = @ \cup {"now"}]
tcp_ack(p) == [p EXCEPT !.ack = IF "delay" \in @ THEN {"now"}
                                 ELSE @ \cup {"delay"}]

QueueLen(p) == Len(p.unsent) + Len(p.unacked)

\* tcp_do_output_nagle for the i-th unsent segment, the ones before it sent
NagleAllows(p, i) ==
    \/ p.unacked = <<>> /\ i = 1
    \/ p.infr
    \/ i < Len(p.unsent) \/ Len(p.unsent[i].data) >= p.opt.mss
    \/ p.snd_buf = 0 \/ QueueLen(p) >= TCP_SND_QUEUELEN

\* Segments that tcp_output sends: the longest prefix of the unsent ones.
Sends(p) ==
    LET wnd == Min({p.snd_wnd, p.cwnd})
        Goes(i) == /\ Num(p.unsent[i].seq - p.lastack + Len(p.unsent[i].data)) <= wnd
                   /\ NagleAllows(p, i) \/ p.memerr \/ p.finq
    IN  Leading(p.unsent, {i \in 1..Len(p.unsent) : Goes(i)})

\* tcp_output does nothing but acknowledge when the first segment does not fit.
OnlyAck(p) ==
    /\ "now" \in p.ack
    /\ \/ p.unsent = <<>>
       \/ Num(p.unsent[1].seq - p.lastack + Len(p.unsent[1].data))
            > Min({p.snd_wnd, p.cwnd})

tcp_output(p) ==
    IF OnlyAck(p) THEN tcp_send_empty_ack(p)
    ELSE LET n == Sends(p)
             sent == SubSeq(p.unsent, 1, n)
             synced == p.state # "SYN_SENT"
             wire == [i \in 1..n |-> Wire(p, sent[i].seq, sent[i].data, sent[i].syn,
                                          sent[i].fin, synced)]
             last == EndOf(sent[n])
         IN  IF n = 0 THEN [p EXCEPT !.memerr = FALSE]
             ELSE [Emit(p, wire) EXCEPT
                       !.unsent = SubSeq(@, n + 1, Len(@)),
                       !.unacked = FileAll(@, sent),
                       !.snd_nxt = IF TCP_SEQ_LT(@, last) THEN last ELSE @,
                       !.ack = IF synced THEN {} ELSE @,
                       !.rtime = TRUE, !.memerr = FALSE]

\* tcp_enqueue_flags: the segment is refused when the buffer or the queue is full.
CanEnqueue(p) == QueueLen(p) < TCP_SND_QUEUELEN /\ p.snd_buf > 0

tcp_enqueue_flags(p, syn, fin) ==
    [p EXCEPT !.unsent = Append(@, [seq |-> p.snd_lbb, data |-> <<>>,
                                    syn |-> syn, fin |-> fin]),
              !.snd_lbb = Num(@ + 1), !.snd_buf = @ - 1,
              !.finq = @ \/ fin]

\* The FIN goes on the last unsent segment if that one carries data.
Piggybacks(p) ==
    p.unsent # <<>> /\ ~Last(p.unsent).syn /\ ~Last(p.unsent).fin

tcp_send_fin(p) ==
    IF Piggybacks(p)
    THEN [p EXCEPT !.unsent = ReplaceAt(@, Len(@), [Last(@) EXCEPT !.fin = TRUE]),
                   !.finq = TRUE]
    ELSE tcp_enqueue_flags(p, FALSE, TRUE)

\* tcp_write of data that fits the send buffer: it fills up the last unsent
\* segment and queues the rest in segments of at most mss_local units.
mss_local(p) == Min({p.opt.mss, p.snd_wnd_max \div 2})

tcp_write(p, data) ==
    LET m == mss_local(p)
        open == p.unsent # <<>> /\ Last(p.unsent).data # <<>>
        pos == IF open THEN Min({m - Len(Last(p.unsent).data), Len(data)}) ELSE 0
        filled == IF pos = 0 THEN p.unsent
                  ELSE ReplaceAt(p.unsent, Len(p.unsent),
                                 [Last(p.unsent) EXCEPT !.data = @ \o SubSeq(data, 1, pos)])
        segs == (Len(data) - pos + m - 1) \div m
        Seg(i) == LET from == pos + (i - 1) * m
                  IN  [seq |-> Num(p.snd_lbb + from), syn |-> FALSE, fin |-> FALSE,
                       data |-> SubSeq(data, from + 1, Min({from + m, Len(data)}))]
    IN  [p EXCEPT !.unsent = filled \o [i \in 1..segs |-> Seg(i)],
                  !.snd_lbb = Num(@ + Len(data)), !.snd_buf = @ - Len(data)]

\* do_writemore: what fits is written, and output is tried in any case.
Fitting(p, data) == SubSeq(data, 1, Min({p.snd_buf, Len(data)}))

Queued(p, data) == tcp_write(p, Fitting(p, data))

\* Segments of no units would fill the queue before the data is written.
HasRoom(p, data) ==
    /\ mss_local(p) > 0
    /\ p.snd_buf > 0 /\ QueueLen(p) < TCP_SND_QUEUELEN
    /\ QueueLen(Queued(p, data)) <= TCP_SND_QUEUELEN

do_writemore(p, data) ==
    tcp_output(IF HasRoom(p, data) THEN Queued(p, data)
               ELSE [p EXCEPT !.memerr = @ \/ p.snd_buf > 0])

-----------------------------------------------------------------------------
(***************************************************************************)
(* Retransmitting.                                                         *)
(***************************************************************************)
tcp_rexmit_rto(p) ==
    IF p.unacked = <<>> THEN p
    ELSE tcp_output([p EXCEPT !.unsent = p.unacked \o @, !.unacked = <<>>,
                              !.nrtx = (@ + 1) % RtxSpace])

tcp_rexmit(p) ==
    IF p.unacked = <<>> THEN p
    ELSE [p EXCEPT !.unsent = Insert(@, p.unacked[1]), !.unacked = Tail(@),
                   !.nrtx = (@ + 1) % RtxSpace]

Half(p, w) == Max({w \div 2, 2 * p.opt.mss})

tcp_rexmit_fast(p) ==
    IF p.unacked = <<>> \/ p.infr THEN p
    ELSE LET threshold == Half(p, Min({p.cwnd, p.snd_wnd}))
         IN  [tcp_rexmit(p) EXCEPT !.ssthresh = threshold, !.infr = TRUE,
                  !.cwnd = Min({threshold + 3 * p.opt.mss, MaxCwnd})]

\* The retransmission timer of tcp_slowtmr has expired.
RexmitTimeout(p) ==
    tcp_rexmit_rto([p EXCEPT !.ssthresh = Half(p, Min({p.cwnd, p.snd_wnd})),
                             !.cwnd = p.opt.mss])

\* One unit of the first segment, or its FIN.  (Of a SYN, which has none, the
\* code sends a unit that nobody wrote.)
tcp_zero_window_probe(p) ==
    LET queue == p.unacked \o p.unsent
        s == queue[1]
        isfin == s.fin /\ s.data = <<>>
    IN  IF queue = <<>> THEN p
        ELSE Emit(p, <<Wire(p, s.seq, IF isfin THEN <<>> ELSE SubSeq(s.data \o <<0>>, 1, 1),
                            FALSE, isfin, TRUE)>>)

-----------------------------------------------------------------------------
(***************************************************************************)
(* The receive window, opening and closing.                                *)
(***************************************************************************)
\* The right edge moves only by half a window or a segment.
Inflates(p) ==
    TCP_SEQ_GEQ(p.rcv_nxt + p.rcv_wnd, p.edge + Min({p.opt.wnd \div 2, p.opt.mss}))

\* Mutant: a window that cannot be inflated is closed.
tcp_update_rcv_ann_wnd_Close(p) ==
    [p EXCEPT !.rcv_ann_wnd = IF Inflates(p) THEN p.rcv_wnd ELSE 0]

tcp_update_rcv_ann_wnd(p) ==
    [p EXCEPT !.rcv_ann_wnd = IF Inflates(p) THEN p.rcv_wnd
                              ELSE IF TCP_SEQ_LT(p.edge, p.rcv_nxt) THEN 0
                              ELSE Num(p.edge - p.rcv_nxt)]

tcp_recved(p, len) ==
    LET q == [p EXCEPT !.rcv_wnd = Min({@ + len, p.opt.wnd})]
        inflation == IF Inflates(q) THEN Num(q.rcv_nxt + q.rcv_wnd - q.edge) ELSE 0
        r == tcp_update_rcv_ann_wnd(q)
    IN  IF inflation >= p.opt.wnd \div 4 THEN tcp_output(tcp_ack_now(r)) ELSE r

tcp_connect(p, iss) ==
    tcp_output([tcp_enqueue_flags([p EXCEPT !.snd_nxt = iss,
                                            !.lastack = Num(iss - 1),
                                            !.snd_lbb = Num(iss - 1),
                                            !.snd_wnd = p.opt.wnd,
                                            !.ssthresh = 10 * p.opt.mss], TRUE, FALSE)
                EXCEPT !.state = "SYN_SENT"])

\* tcp_close_shutdown.  The pcb is gone, or it is in a closing state and its
\* FIN is queued; with no room for the FIN nothing happens.
tcp_close_shutdown(p, rst_on_unacked_data) ==
    LET next == CASE p.state \in {"SYN_RCVD", "ESTABLISHED"} -> "FIN_WAIT_1"
                  [] p.state = "CLOSE_WAIT" -> "LAST_ACK"
                  [] OTHER -> p.state
        unread == /\ rst_on_unacked_data /\ p.state \in {"ESTABLISHED", "CLOSE_WAIT"}
                  /\ p.refused # NoData \/ p.rcv_wnd # p.opt.wnd
        reset == tcp_pcb_purge(tcp_rst(p, p.snd_nxt, p.rcv_nxt))
    IN  IF unread THEN IF p.state = "CLOSE_WAIT" THEN Gone(reset)
                       ELSE [reset EXCEPT !.state = "TIME_WAIT"]
        ELSE IF p.state \in {"CLOSED", "SYN_SENT"} THEN Gone(p)
        ELSE IF next = p.state THEN p
        ELSE IF ~Piggybacks(p) /\ ~CanEnqueue(p)
             THEN [p EXCEPT !.memerr = @ \/ QueueLen(p) >= TCP_SND_QUEUELEN]
             ELSE tcp_output([tcp_send_fin(p) EXCEPT !.state = next])

tcp_close(p) == tcp_close_shutdown([p EXCEPT !.rxclosed = TRUE], TRUE)

\* tcp_shutdown of the sending side only
tcp_shutdown(p) == tcp_close_shutdown(p, FALSE)
=============================================================================

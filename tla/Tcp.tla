-------------------------------- MODULE Tcp ---------------------------------
(***************************************************************************)
(* A TCP connection between two hosts that run lwIP: the client connects,  *)
(* the server listens.  Both write, read, shut down and close through the  *)
(* sequential API while the network loses, repeats, delays and reorders    *)
(* segments and the server may restart.                                    *)
(*                                                                         *)
(* Everything here runs in tcpip_thread, one handler after the other, so   *)
(* an action is a whole call, a whole tcp_input or a timer's work on the   *)
(* one connection.  Time is left out: a timer may run out early (as often  *)
(* as sc.early says) and must run out once the network is empty.           *)
(***************************************************************************)
EXTENDS TcpInput

CONSTANTS
    Scenarios,      \* what the two hosts and the network do
    ClientIss,      \* the client's initial sequence number
    ServerIss,      \* the server's, for the first connection it accepts
    IssStep,        \* and the step to the one for the next (tcp_next_iss)
    Capacity,       \* segments under way to a host; the network drops the others
    TCP_MAXRTX,     \* retransmissions before a connection is given up
    TCP_SYNMAXRTX,  \* and before an attempt to connect is
    CloseDrained    \* whether the applications close only when the FIN can go out

ASSUME TcpAssumption ==
    /\ Scenarios \subseteq
          [opt : [mss : Nat \ {0}, wnd : Nat \ {0}, buf : Nat \ {0}],
           units : [{"client", "server"} -> Nat], chunk : SUBSET (Nat \ {0}),
           mbox : Nat \ {0}, loss : Nat, dup : Nat, late : Nat, early : Nat,
           restart : Nat, close : SUBSET {"close", "shutdown"},
           accepted : {0}, restarted : {FALSE}]
    /\ {ClientIss, ServerIss, IssStep} \subseteq 0..SeqSpace - 1
    /\ CloseDrained \in BOOLEAN
    /\ Capacity \in Nat \ {0} /\ TCP_MAXRTX \in Nat \ {0} /\ TCP_SYNMAXRTX \in Nat \ {0}

VARIABLES
    pcb,    \* the control block of each host
    app,    \* what each host's application has done and seen
    net,    \* the segments under way to each host
    sc      \* the scenario, how much of its trouble is left, and how many
            \* connections the server has accepted and whether it restarted

tcpVars == <<pcb, app, net, sc>>

Host == {"client", "server"}
Peer(h) == IF h = "client" THEN "server" ELSE "client"

\* The k-th unit of a stream is the number k.
Units(n) == [k \in 1..n |-> k]

\* sent: units tcp_write has accepted; got: those passed to the recv
\* callback; mbox: the lengths of the pieces not read yet; eof, err: what the
\* callbacks reported; open: "open", "half" after a shutdown, "closed", or
\* "reset" if data that was not read made the close a reset.
NewApp == [sent |-> 0, got |-> <<>>, mbox |-> <<>>, eof |-> FALSE, err |-> FALSE,
           open |-> "open"]

\* The application of another connection; sent counts what the host ever wrote.
Renewed(a) == [NewApp EXCEPT !.sent = a.sent]

NoPcb(h) == pcb[h].state \in {"CLOSED", "LISTEN"}
Nobody(h, opt) ==
    [tcp_alloc(opt, 0) EXCEPT !.state = IF h = "client" THEN "CLOSED" ELSE "LISTEN"]

TcpInit ==
    /\ sc \in Scenarios
    /\ pcb = [h \in Host |-> Nobody(h, sc.opt)]
    /\ app = [h \in Host |-> NewApp]
    /\ net = [h \in Host |-> <<>>]

-----------------------------------------------------------------------------
(***************************************************************************)
(* What a handler leaves behind: the pcb, or nobody; the application's     *)
(* record; and the segments it sent.                                       *)
(***************************************************************************)
Carry(under, segs) ==
    LET all == under \o segs IN SubSeq(all, 1, Min({Capacity, Len(all)}))

Quiet == \A h \in Host : net[h] = <<>>

Done(h, p, a, under) ==
    /\ pcb' = [pcb EXCEPT ![h] = IF p.state = "CLOSED" THEN Nobody(h, p.opt)
                                 ELSE [p EXCEPT !.out = <<>>]]
    /\ app' = [app EXCEPT ![h] = a]
    /\ net' = [under EXCEPT ![Peer(h)] = Carry(@, p.out)]

\* netconn_connect
Connect ==
    LET h == "client" IN
    /\ NoPcb(h) /\ app[h] = NewApp
    /\ Done(h, tcp_connect(pcb[h], ClientIss), app[h], net)
    /\ UNCHANGED sc

\* netconn_write, as far as the send buffer takes the data
Write(h, n) ==
    LET data == SubSeq(Units(sc.units[h]), app[h].sent + 1, app[h].sent + n) IN
    /\ app[h].open = "open" /\ ~app[h].err
    /\ pcb[h].state \in {"ESTABLISHED", "CLOSE_WAIT"}
    /\ app[h].sent + n <= sc.units[h]
    /\ LET k == IF HasRoom(pcb[h], data) THEN Len(Fitting(pcb[h], data)) ELSE 0
       IN  Done(h, do_writemore(pcb[h], data), [app[h] EXCEPT !.sent = @ + k], net)
    /\ UNCHANGED sc

\* netconn_recv: a piece is taken and the window opened by its length
CanRead(h) == app[h].mbox # <<>> /\ app[h].open \in {"open", "half"}

Read(h) ==
    /\ CanRead(h)
    /\ LET a == [app[h] EXCEPT !.mbox = Tail(@)]
       IN  Done(h, IF NoPcb(h) THEN pcb[h]
                   ELSE tcp_recved(pcb[h], Head(app[h].mbox)), a, net)
    /\ UNCHANGED sc

\* Neither tcp_close nor tcp_shutdown has an effect without room for a FIN.
Refused(p) ==
    /\ p.state \in {"SYN_RCVD", "ESTABLISHED", "CLOSE_WAIT"}
    /\ ~Piggybacks(p) /\ ~CanEnqueue(p)

\* The rule for the applications: the call leaves nothing behind on unsent.
Allowed(p) == CloseDrained => p.unsent = <<>>

\* netconn_delete: what was not read is dropped
Close(h) ==
    LET p == tcp_close(pcb[h])
        outcome == CASE \E i \in 1..Len(p.out) : p.out[i].rst -> "reset"
                     [] Refused(pcb[h]) /\ p.state = pcb[h].state -> app[h].open
                     [] OTHER -> "closed"
    IN
    /\ "close" \in sc.close
    /\ app[h].open \in {"open", "half"} /\ ~NoPcb(h) /\ Allowed(p)
    /\ Done(h, p, [app[h] EXCEPT !.mbox = <<>>, !.open = outcome], net)
    /\ UNCHANGED sc

\* netconn_shutdown of the sending side
Shutdown(h) ==
    /\ "shutdown" \in sc.close
    /\ app[h].open = "open" /\ pcb[h].state \in {"ESTABLISHED", "CLOSE_WAIT"}
    /\ Allowed(tcp_shutdown(pcb[h]))
    /\ Done(h, tcp_shutdown(pcb[h]),
            [app[h] EXCEPT !.open = IF Refused(pcb[h]) THEN @ ELSE "half"], net)
    /\ UNCHANGED sc

-----------------------------------------------------------------------------
(***************************************************************************)
(* tcp_input.  The recv callback takes a piece if the mailbox has room and *)
(* refuses it otherwise; it is told of the FIN after the last piece.       *)
(***************************************************************************)
Room(a) == Len(a.mbox) < sc.mbox

Deliver(a, data) ==
    IF data = <<>> THEN a
    ELSE [a EXCEPT !.got = @ \o data, !.mbox = Append(@, Len(data))]

\* Mutant: what the FIN took of the window is not given back.
FinSeen_Keep(p) == p

\* The FIN was counted as a unit of the window.
FinSeen(p) == IF p.rcv_wnd # p.opt.wnd THEN [p EXCEPT !.rcv_wnd = @ + 1] ELSE p

\* tcp_process_refused_data
Presented(p, a) ==
    IF p.refused = NoData \/ ~Room(a) THEN [p |-> p, a |-> a]
    ELSE LET q == [p EXCEPT !.refused = NoData]
         IN  [p |-> IF p.refused.fin THEN FinSeen(q) ELSE q,
              a |-> [Deliver(a, p.refused.data) EXCEPT !.eof = @ \/ p.refused.fin]]

\* What follows tcp_process: the callbacks, then tcp_output.
Callbacks(r, a) ==
    LET p == r.p
        taken == r.recv.data = <<>> \/ Room(a)
        told == r.recv.fin /\ taken
        q == IF ~taken THEN [p EXCEPT !.refused = r.recv]
             ELSE IF r.recv.fin THEN FinSeen(p) ELSE p
    IN  CASE r.flags # {} -> [p |-> Gone(p), a |-> [a EXCEPT !.err =
                                @ \/ "RESET" \in r.flags \/ ~p.rxclosed]]
          [] r.flags = {} /\ r.recv.data # <<>> /\ p.rxclosed ->
                 [p |-> Gone(tcp_rst(p, p.snd_nxt, p.rcv_nxt)), a |-> [a EXCEPT !.err = TRUE]]
          [] OTHER ->
                 [p |-> tcp_output(q),
                  a |-> [(IF taken THEN Deliver(a, r.recv.data) ELSE a)
                         EXCEPT !.eof = @ \/ told]]

\* A segment for a connection on the active list
ActiveInput(p, a, s) ==
    LET first == Presented(p, a)
    IN  IF first.p.refused # NoData /\ TCP_TCPLEN(s) > 0 THEN first
        ELSE Callbacks(tcp_process(Handling(first.p), s), first.a)

tcp_next_iss == Num(ServerIss + sc.accepted * IssStep)

tcp_input(h, s, under) ==
    LET p == pcb[h]
        fresh == p.state = "LISTEN" /\ s.syn /\ ~s.isack /\ ~s.rst
        result == IF p.state \in {"CLOSED", "LISTEN", "TIME_WAIT"}
                  THEN [p |-> CASE p.state = "TIME_WAIT" -> tcp_timewait_input(p, s)
                                [] p.state = "CLOSED" -> NoPcbInput(p, s)
                                [] p.state = "LISTEN" ->
                                     tcp_listen_input(p, s, tcp_next_iss),
                        a |-> IF fresh THEN Renewed(app[h]) ELSE app[h]]
                  ELSE ActiveInput(p, app[h], s)
    IN  Done(h, result.p, result.a, under)

\* A segment arrives: the next one, or one that overtakes it; a copy of it
\* may stay behind.
Arrives(h, i, copy) ==
    LET left == IF copy THEN net ELSE [net EXCEPT ![h] = RemoveAt(@, i)] IN
    /\ i > 1 => sc.late > 0
    /\ copy => sc.dup > 0
    /\ tcp_input(h, net[h][i], left)
    /\ sc' = [sc EXCEPT !.late = IF i > 1 THEN @ - 1 ELSE @,
                        !.dup = IF copy THEN @ - 1 ELSE @,
                        !.accepted = IF pcb[h].state = "LISTEN"
                                        /\ pcb'[h].state = "SYN_RCVD"
                                     THEN @ + 1 ELSE @]

Receive(h) == \E i \in 1..Len(net[h]), copy \in BOOLEAN : Arrives(h, i, copy)

Lose(h) ==
    /\ sc.loss > 0
    /\ \E i \in 1..Len(net[h]) : net' = [net EXCEPT ![h] = RemoveAt(@, i)]
    /\ sc' = [sc EXCEPT !.loss = @ - 1]
    /\ UNCHANGED <<pcb, app>>

\* The server loses everything; its application listens again.
Restart ==
    /\ sc.restart > 0
    /\ sc' = [sc EXCEPT !.restart = @ - 1, !.restarted = TRUE]
    /\ pcb' = [pcb EXCEPT !["server"] = Nobody("server", sc.opt)]
    /\ app' = [app EXCEPT !["server"] = Renewed(@)]
    /\ UNCHANGED net

-----------------------------------------------------------------------------
(***************************************************************************)
(* The timers.                                                             *)
(***************************************************************************)
Active(h) == pcb[h].state \notin {"CLOSED", "LISTEN", "TIME_WAIT"}

\* A timer expires in time, or early.
Expires ==
    \/ Quiet /\ UNCHANGED sc
    \/ ~Quiet /\ sc.early > 0 /\ sc' = [sc EXCEPT !.early = @ - 1]

Exhausted(p) ==
    \/ p.nrtx = TCP_MAXRTX
    \/ p.state = "SYN_SENT" /\ p.nrtx = TCP_SYNMAXRTX

Pending(h) ==
    /\ Active(h) /\ ~Exhausted(pcb[h])
    /\ \/ pcb[h].persist /\ pcb[h].unacked \o pcb[h].unsent # <<>>
       \/ ~pcb[h].persist /\ pcb[h].rtime /\ pcb[h].unacked # <<>>

\* The part of tcp_slowtmr that sends again: the probe or the segments
Retransmit(h) ==
    /\ Pending(h)
    /\ Expires
    /\ Done(h, IF pcb[h].persist THEN tcp_zero_window_probe(pcb[h])
               ELSE RexmitTimeout(pcb[h]), app[h], net)

\* The part that removes a connection: after too many retransmissions, or
\* after a time long enough for segments to have been sent twice at least.
Overdue(h) ==
    /\ Active(h)
    /\ \/ Exhausted(pcb[h])
       \/ /\ \/ pcb[h].state = "FIN_WAIT_2" /\ pcb[h].rxclosed
             \/ pcb[h].state \in {"SYN_RCVD", "LAST_ACK"}
          /\ pcb[h].unacked # <<>> => pcb[h].nrtx > 1

GiveUp(h) ==
    /\ Overdue(h) /\ Quiet
    /\ Done(h, Gone(pcb[h]), [app[h] EXCEPT !.err = TRUE], net)
    /\ UNCHANGED sc

\* The part that polls, and tries to send what was held back.  (What the poll
\* callback tries again are Write and Close.)
Poll(h) ==
    /\ Active(h)
    /\ Done(h, tcp_output(pcb[h]), app[h], net)
    /\ UNCHANGED sc

\* Twice the lifetime of a segment later nothing is under way any more.
TimeWaitOver(h) ==
    /\ pcb[h].state = "TIME_WAIT" /\ Quiet
    /\ Done(h, Gone(pcb[h]), app[h], net)
    /\ UNCHANGED sc

FastWork(h) ==
    /\ Active(h)
    /\ "delay" \in pcb[h].ack \/ (pcb[h].refused # NoData /\ Room(app[h]))

\* tcp_fasttmr: the delayed acknowledgement, and the data that was refused
tcp_fasttmr(h) ==
    LET acked == IF "delay" \in pcb[h].ack
                 THEN [tcp_output(tcp_ack_now(pcb[h])) EXCEPT !.ack = {}]
                 ELSE pcb[h]
        r == Presented(acked, app[h])
    IN
    /\ FastWork(h)
    /\ Done(h, r.p, r.a, net)
    /\ UNCHANGED sc

-----------------------------------------------------------------------------
TcpNext ==
    \/ Connect
    \/ \E h \in Host :
          \/ \E n \in sc.chunk : Write(h, n)
          \/ Read(h) \/ Close(h) \/ Shutdown(h)
          \/ Receive(h) \/ Lose(h)
          \/ Retransmit(h) \/ GiveUp(h) \/ Poll(h) \/ TimeWaitOver(h) \/ tcp_fasttmr(h)
    \/ Restart

(***************************************************************************)
(* tcpip_thread serves the network and the timers, and the applications    *)
(* read.  The conditions are weak fairness with the guards written out,    *)
(* for ENABLED of actions made of so many operators takes TLC too long;    *)
(* the guards are equivalent to it, as every such step changes the state.  *)
(* A timer need not run out while segments are under way, which demands    *)
(* less of the timers than they do.                                        *)
(***************************************************************************)
Timer(h) == Retransmit(h) \/ GiveUp(h) \/ TimeWaitOver(h) \/ tcp_fasttmr(h)

TimerDue(h) ==
    \/ Quiet /\ Pending(h)
    \/ Quiet /\ Overdue(h)
    \/ Quiet /\ pcb[h].state = "TIME_WAIT"
    \/ FastWork(h)

TcpFairness ==
    /\ <>[](\E h \in Host : net[h] # <<>>) => []<><<\E h \in Host : Receive(h)>>_tcpVars
    /\ <>[](\E h \in Host : TimerDue(h)) => []<><<\E h \in Host : Timer(h)>>_tcpVars
    /\ \A h \in Host : <>[](CanRead(h)) => []<><<Read(h)>>_tcpVars

TcpSpec == TcpInit /\ [][TcpNext]_tcpVars /\ TcpFairness

-----------------------------------------------------------------------------
\* The number of units in pieces of these lengths
UnitsIn(lens) == Cardinality(UNION {{i} \X (1..lens[i]) : i \in DOMAIN lens})

\* What an application is given is what the other one wrote, from the first
\* unit on, each unit once and in order, and the end of the stream is
\* reported only after all of it: no loss, repetition, reordering, overlap of
\* a retransmitted segment that has grown (tcp_out.c:467), refused data or
\* restart of the server shows through tcp_receive and the callbacks.
StreamIsPrefix ==
    \A h \in Host :
        /\ IsPrefix(app[h].got, Units(app[Peer(h)].sent))
        /\ app[h].eof => app[h].got = Units(app[Peer(h)].sent)

\* The segments on unsent and unacked, which tcp_output, tcp_rexmit_rto and
\* tcp_rexmit move back and forth, overlap nowhere, leave no gap, and hold
\* exactly the units from the first unacknowledged one to the last one
\* written, however the acknowledgements cut into them (tcp_receive).
QueuesContiguous ==
    \A h \in Host :
        LET p == pcb[h]
            q == FileAll(p.unacked, p.unsent)
        IN  Active(h) =>
              /\ \A i \in 1..Len(q) - 1 : EndOf(q[i]) = q[i + 1].seq
              /\ q # <<>> => /\ TCP_SEQ_BETWEEN(p.lastack, q[1].seq, EndOf(q[1]))
                             /\ p.lastack # EndOf(q[1])
              /\ IsSuffix(FlattenSeq([i \in 1..Len(q) |-> q[i].data]), Units(app[h].sent))
              /\ \E k \in {0, 1} : Num(p.snd_lbb + k)
                     = IF q = <<>> THEN p.lastack ELSE EndOf(q[Len(q)])

\* Both ends of the stream: what has been given to the reader, and what the
\* writer's host still keeps so that it can be sent again.
StreamKept == StreamIsPrefix /\ QueuesContiguous

\* The receive window is what the buffers leave: TCP_WND less the pieces the
\* application has not read and the data it has refused.  tcp_receive takes
\* from it, tcp_recved and the report of the FIN give back, each once.
WindowAccounted ==
    \A h \in Host :
        LET p == pcb[h]
        IN  Active(h) /\ ~p.rxclosed =>
              p.rcv_wnd + UnitsIn(app[h].mbox) + Len(p.refused.data)
                + (IF p.refused.fin THEN 1 ELSE 0) = p.opt.wnd

\* Nobody reset the connection, gave it up or restarted.
Orderly ==
    ~sc.restarted /\ \A h \in Host : ~app[h].err /\ app[h].open # "reset"

Received(h) == Len(app[h].got) + Len(pcb[h].refused.data)

\* When the control block of a host that closed or shut down is gone or in
\* TIME_WAIT, and nothing went wrong, all it wrote is at the other host:
\* tcp_process must not take the acknowledgement of data for that of the FIN.
ClosedIsDelivered ==
    \A h \in Host :
        Orderly /\ app[h].open # "open" /\ ~Active(h)
            => Received(Peer(h)) = app[h].sent

\* The right edge of the window a host has advertised never moves back, for
\* the peer may have filled the window already (tcp_update_rcv_ann_wnd).
WindowNeverShrinks ==
    [][\A h \in Host :
         Active(h) /\ pcb'[h].state \in {"ESTABLISHED", "FIN_WAIT_1", "FIN_WAIT_2"}
           /\ pcb[h].state \notin {"SYN_SENT", "SYN_RCVD"}
         => TCP_SEQ_LEQ(pcb[h].edge, pcb'[h].edge)]_tcpVars



\* Two hosts never answer each other's acknowledgements for ever, as they
\* might while both windows are closed (tcp_in.c:1527).
FallsQuiet == []<>Quiet

\* Never is data left to send with nothing under way, no timer running and
\* nothing to read: the persist timer, says tcp_out.c:1406, keeps "a
\* connection active when a window update is lost".
NeverStuck ==
    Quiet /\ (\A h \in Host : ~TimerDue(h) /\ ~CanRead(h))
        => \A h \in Host : pcb[h].unsent = <<>>
=============================================================================

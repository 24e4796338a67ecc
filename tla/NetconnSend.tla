---------------------------- MODULE NetconnSend ----------------------------
(***************************************************************************)
(* Connecting, writing and closing through the sequential API:             *)
(* netconn_connect, netconn_write_partly and netconn_delete (api_lib.c),   *)
(* tcpip_apimsg (tcpip.c), and do_connect, do_write, do_delconn and the    *)
(* callbacks that finish them later (api_msg.c).                           *)
(*                                                                         *)
(* data_thread posts a message to tcpip_thread and waits on the semaphore  *)
(* op_completed of the connection, without a timeout.  tcpip_thread        *)
(* answers at once or keeps the message (current_msg) until a callback of  *)
(* the pcb can: do_connected, sent_tcp, poll_tcp or err_tcp.  The calls    *)
(* block, as all calls of this program do, and one task uses the socket.   *)
(* What the pcb does is the business of module Tcp; here it connects, has  *)
(* data acknowledged, or is removed.  A handler of tcpip_thread is one     *)
(* step; it maps one state record to the next.                             *)
(***************************************************************************)
EXTENDS Integers, Sequences, FiniteSetsExt

CONSTANTS
    TcpipMbox,     \* TCPIP_MBOX_SIZE
    InPkts,        \* MEMP_NUM_TCPIP_MSG_INPKT
    TCP_SND_BUF,   \* send buffer of a pcb, in bytes
    MaxChunk,      \* what one tcp_write can take: 0xffff
    WriteLens,     \* lengths the task writes
    MaxWrites,     \* bound: writes per socket
    MaxShortages,  \* bound: times there is no memory for a segment
    MaxSockets     \* bound: sockets, one after the other

ASSUME SendAssumption ==
    /\ TcpipMbox \in Nat \ {0} /\ InPkts \in Nat
    /\ TCP_SND_BUF \in Nat \ {0} /\ MaxChunk \in Nat \ {0}
    /\ WriteLens \subseteq Nat \ {0}
    /\ MaxWrites \in Nat /\ MaxShortages \in Nat /\ MaxSockets \in Nat

VARIABLE nc

sendVars == <<nc>>

NoPcb == [st |-> "gone", arg |-> 0, sent |-> 0, poll |-> 0, err |-> 0, queued |-> 0]
NoCall == [op |-> "none", len |-> 0, err |-> "ok"]
FreeConn == [made |-> 0, state |-> "none", cur |-> 0, off |-> 0, last_err |-> "ok", pcb |-> 0]

(* conn: the netconn.  tp: the pcb it owns, with its callbacks.  call: the *)
(* message of the running call.  box: the mailbox of tcpip_thread.  enq:   *)
(* the bytes given to tcp_write, base: how many before this call; stray: a *)
(* pcb outlived its netconn with callbacks that point to it.               *)
SendInit ==
    nc = [conn |-> FreeConn, tp |-> NoPcb, call |-> NoCall, sem |-> 0, box |-> <<>>,
          enq |-> <<>>, base |-> 0, stray |-> FALSE,
          writes |-> 0, shortages |-> 0, sockets |-> 0]

-----------------------------------------------------------------------------
(* Errors.                                                                 *)

ERR_IS_FATAL(e) == e \in {"abrt", "rst", "clsd", "conn"}

SetSafeErr(s, e) ==
    [s EXCEPT !.conn.last_err = IF ERR_IS_FATAL(@) THEN @ ELSE e]

(* TCPIP_APIMSG_ACK                                                        *)
Ack(s, e) == [s EXCEPT !.call.err = e, !.sem = @ + 1]

(* The message kept in current_msg is finished and the task woken.         *)
Answer(s, e) == Ack([s EXCEPT !.conn = [@ EXCEPT !.cur = 0, !.state = "none"]], e)

(* Memory for a segment: r says whether it can be had now.                 *)
Results(s) == {"ok"} \cup (IF s.shortages < MaxShortages THEN {"mem"} ELSE {})
Counting(s, r) == IF r = "mem" THEN [s EXCEPT !.shortages = @ + 1] ELSE s

-----------------------------------------------------------------------------
(* tcpip_thread: the parts of a handler.                                   *)

setup_tcp(s) == [s EXCEPT !.tp = [@ EXCEPT !.arg = 1, !.sent = 1, !.poll = 1, !.err = 1]]

Writable == {"syn_sent", "established"}

(* tcp_write: the error, after tcp_write_checks.                           *)
tcp_write(s, len, r) ==
    IF s.tp.st \notin Writable THEN "conn" ELSE IF len = 0 THEN "ok" ELSE r

(* Mutant: the offset is not counted.                                      *)
do_writemore_NoOffset(s, r) ==
    LET len == Min({MaxChunk, s.call.len - s.conn.off, TCP_SND_BUF - s.tp.queued})
        err == tcp_write(s, len, r)
        at == s.base + s.conn.off
        put == [s EXCEPT !.tp.queued = @ + len,
                         !.enq = @ \o [i \in 1 .. len |-> at + i],
                         !.conn.off = len]
    IN  IF err = "ok" THEN IF put.conn.off = s.call.len
                           THEN Answer([put EXCEPT !.conn.off = 0], "ok") ELSE put
        ELSE IF err = "mem" THEN s
        ELSE Answer([s EXCEPT !.call.len = 0], err)

(* As much as the send buffer takes.  The message is finished when all of  *)
(* it is queued, or on an error that is not a shortage of memory.          *)
do_writemore(s, r) ==
    LET len == Min({MaxChunk, s.call.len - s.conn.off, TCP_SND_BUF - s.tp.queued})
        err == tcp_write(s, len, r)
        at == s.base + s.conn.off
        put == [s EXCEPT !.tp.queued = @ + len,
                         !.enq = @ \o [i \in 1 .. len |-> at + i],
                         !.conn.off = @ + len]
    IN  IF err = "ok" THEN IF put.conn.off = s.call.len
                           THEN Answer([put EXCEPT !.conn.off = 0], "ok") ELSE put
        ELSE IF err = "mem" THEN s
        ELSE Answer([s EXCEPT !.call.len = 0], err)

(* tcp_close: a pcb that is not connected is freed, a FIN needs memory.    *)
tcp_close(s, r) == IF s.tp.st = "established" THEN r ELSE "ok"

Attached(tp) == tp.arg = 1 \/ tp.sent = 1 \/ tp.poll = 1 \/ tp.err = 1

(* Mutant: after a failure the callbacks are not set again.                *)
do_close_internal_NoRestore(s, r) ==
    LET bare == [s EXCEPT !.tp = [@ EXCEPT !.arg = 0, !.sent = 0, !.poll = 0, !.err = 0]]
    IN  IF tcp_close(s, r) = "ok"
        THEN Answer([bare EXCEPT !.conn.pcb = 0, !.tp = NoPcb,
                                 !.stray = @ \/ Attached(bare.tp)], "ok")
        ELSE bare

(* The callbacks are taken away, and set again if tcp_close fails: then    *)
(* poll_tcp or sent_tcp tries again.  The pcb closed lives on without its  *)
(* netconn.                                                                *)
do_close_internal(s, r) ==
    LET bare == [s EXCEPT !.tp = [@ EXCEPT !.arg = 0, !.sent = 0, !.poll = 0, !.err = 0]]
    IN  IF tcp_close(s, r) = "ok"
        THEN Answer([bare EXCEPT !.conn.pcb = 0, !.tp = NoPcb,
                                 !.stray = @ \/ Attached(bare.tp)], "ok")
        ELSE [bare EXCEPT !.tp = [@ EXCEPT !.arg = 1, !.sent = 1, !.poll = 1, !.err = 1]]

(* poll_tcp and, but for the length, sent_tcp.                             *)
poll_tcp(s, r) ==
    CASE s.conn.state = "write" -> do_writemore(s, r)
      [] s.conn.state = "close" -> do_close_internal(s, r)
      [] OTHER -> s

sent_tcp(s, r) == IF s.tp.sent = 1 THEN poll_tcp(s, r) ELSE s

do_connected(s) == Answer(setup_tcp([s EXCEPT !.tp.st = "established"]), "ok")

(* The pcb is gone.  write_offset is left as it is.                        *)
err_tcp(s, e) ==
    LET gone == [s EXCEPT !.tp = NoPcb, !.conn = [@ EXCEPT !.pcb = 0, !.last_err = e]]
    IN  IF s.conn.state \in {"write", "close", "connect"} THEN Answer(gone, e)
        ELSE gone

-----------------------------------------------------------------------------
(* tcpip_thread: the messages of the task.                                 *)

(* tcp_connect fails, leaving the pcb as it is, unless the pcb is unused   *)
(* and there is memory for the SYN.                                        *)
do_connect(s, r) ==
    IF s.conn.pcb = 0 THEN Ack(s, "clsd")
    ELSE IF s.conn.state # "none" THEN Ack(s, "isconn")
    ELSE IF s.tp.st # "closed" THEN Ack(setup_tcp(s), "isconn")
    ELSE IF r = "mem" THEN Ack(setup_tcp(s), "mem")
    ELSE [setup_tcp(s) EXCEPT !.tp.st = "syn_sent",
                              !.conn = [@ EXCEPT !.state = "connect", !.cur = 1]]

do_write(s, r) ==
    IF ERR_IS_FATAL(s.conn.last_err) THEN Ack(s, s.conn.last_err)
    ELSE IF s.conn.state # "none" THEN Ack(s, "inprogress")
    ELSE IF s.conn.pcb = 0 THEN Ack(s, "conn")
    ELSE do_writemore([s EXCEPT !.conn = [@ EXCEPT !.state = "write", !.cur = 1, !.off = 0]], r)

do_delconn(s, r) ==
    IF s.conn.state # "none" THEN Ack(s, "inprogress")
    ELSE IF s.conn.pcb = 0 THEN Ack(s, "ok")
    ELSE do_close_internal([s EXCEPT !.conn = [@ EXCEPT !.state = "close", !.cur = 1]], r)

(* tcpip_thread takes the message of the task.                             *)
HandleApi ==
    /\ nc.box # <<>> /\ Head(nc.box) = "api"
    /\ \E r \in Results(nc) :
         LET s == Counting([nc EXCEPT !.box = Tail(@)], r)
         IN  nc' = CASE s.call.op = "connect" -> do_connect(s, r)
                     [] s.call.op = "write" -> do_write(s, r)
                     [] s.call.op = "delete" -> do_delconn(s, r)

(* A packet: what it does to this connection.                              *)
HandlePacket ==
    /\ nc.box # <<>> /\ Head(nc.box) = "pkt"
    /\ LET s == [nc EXCEPT !.box = Tail(@)]
       IN  \/ s.tp.st = "syn_sent" /\ nc' = do_connected(s)
           \/ s.tp.st \in Writable /\ nc' = err_tcp(s, "rst")
           \/ /\ s.tp.st = "established"
              /\ \E n \in 1 .. s.tp.queued, r \in Results(s) :
                   nc' = sent_tcp(Counting([s EXCEPT !.tp.queued = @ - n], r), r)

(* A packet for somebody else.                                             *)
OtherPacket ==
    /\ nc.box # <<>> /\ Head(nc.box) = "pkt"
    /\ nc' = [nc EXCEPT !.box = Tail(@)]

(* tcpip_input, from the Ethernet interrupt.                               *)
tcpip_input ==
    /\ Len(nc.box) < TcpipMbox
    /\ Cardinality({i \in DOMAIN nc.box : nc.box[i] = "pkt"}) < InPkts
    /\ nc' = [nc EXCEPT !.box = Append(@, "pkt")]

(* tcp_slowtmr polls; after too many retransmissions it removes the pcb.   *)
Poll ==
    /\ nc.tp.st \in Writable /\ nc.tp.poll = 1
    /\ \E r \in Results(nc) : nc' = poll_tcp(Counting(nc, r), r)

GiveUp ==
    /\ nc.tp.st \in Writable
    /\ nc' = IF nc.tp.err = 1 THEN err_tcp(nc, "abrt") ELSE [nc EXCEPT !.tp = NoPcb]

-----------------------------------------------------------------------------
(* data_thread.                                                            *)

netconn_new ==
    /\ nc.conn.made = 0 /\ nc.sockets < MaxSockets
    /\ nc' = [nc EXCEPT !.conn = [FreeConn EXCEPT !.made = 1, !.pcb = 1],
                        !.tp = [NoPcb EXCEPT !.st = "closed"],
                        !.enq = <<>>, !.base = 0, !.writes = 0, !.sockets = @ + 1]

(* netconn_free: whatever the state of the connection.                     *)
netconn_free(s) ==
    [s EXCEPT !.conn = FreeConn, !.stray = @ \/ s.conn.pcb = 1, !.tp = NoPcb]

(* After the call: its error is kept, or the netconn is freed.             *)
Finish(s) ==
    LET t == [s EXCEPT !.call = NoCall, !.base = Len(s.enq)]
    IN  IF s.call.op = "delete" THEN netconn_free(t) ELSE SetSafeErr(t, s.call.err)

(* tcpip_apimsg.  The port takes a full mailbox for an invalid one: then   *)
(* nothing is done and the call returns ERR_VAL.                           *)
tcpip_apimsg(op, len) ==
    /\ nc.conn.made = 1 /\ nc.call.op = "none"
    /\ LET s == [nc EXCEPT !.call = [op |-> op, len |-> len, err |-> "val"]]
       IN  IF Len(s.box) < TcpipMbox
           THEN nc' = [s EXCEPT !.box = Append(@, "api"),
                                !.writes = IF op = "write" THEN @ + 1 ELSE @]
           ELSE nc' = Finish(s)

netconn_connect == tcpip_apimsg("connect", 0)
netconn_write == nc.writes < MaxWrites /\ \E len \in WriteLens : tcpip_apimsg("write", len)
netconn_delete == tcpip_apimsg("delete", 0)

(* sys_arch_sem_wait returns.                                              *)
Return ==
    /\ nc.sem > 0 /\ nc.call.op # "none"
    /\ nc' = Finish([nc EXCEPT !.sem = @ - 1])

SendNext ==
    \/ HandleApi \/ HandlePacket \/ OtherPacket \/ tcpip_input \/ Poll \/ GiveUp
    \/ netconn_new \/ netconn_connect \/ netconn_write \/ netconn_delete \/ Return

SendSpec == SendInit /\ [][SendNext]_sendVars

-----------------------------------------------------------------------------
SendTypeOK ==
    /\ nc.conn.made \in 0 .. 1 /\ nc.conn.cur \in 0 .. 1 /\ nc.conn.pcb \in 0 .. 1
    /\ nc.conn.state \in {"none", "connect", "write", "close"}
    /\ nc.tp.queued \in 0 .. TCP_SND_BUF
    /\ Len(nc.box) <= TcpipMbox

Posted == \E i \in DOMAIN nc.box : nc.box[i] = "api"

StateOf(op) == IF op = "delete" THEN "close" ELSE op

(* A message that tcpip_thread keeps is one that somebody will finish: the *)
(* pcb is alive, its callbacks lead to this netconn, and the one that      *)
(* tries again is installed.                                               *)
Kept ==
    /\ nc.conn.cur = 1 /\ nc.conn.state = StateOf(nc.call.op)
    /\ nc.conn.pcb = 1 /\ nc.tp.st \in Writable
    /\ nc.tp.arg = 1 /\ nc.tp.err = 1
    /\ nc.call.op \in {"write", "delete"} => nc.tp.poll = 1

(* A call is at each moment in exactly one place: in the mailbox, kept by  *)
(* tcpip_thread with a live pcb to finish it, or answered, with one count  *)
(* in the semaphore.  Without a call the semaphore is at zero, whatever    *)
(* callbacks ran meanwhile: no answer is lost and none is left over for    *)
(* the next call.                                                          *)
AnsweredOnce ==
    LET places == <<Posted, Kept, nc.sem = 1>>
    IN  IF nc.call.op = "none" THEN nc.sem = 0 /\ nc.conn.cur = 0 /\ ~Posted
        ELSE \E i \in 1 .. 3 : places[i] /\ \A j \in 1 .. 3 \ {i} : ~places[j]

(* The bytes queued are those the task wrote, each once and in order,      *)
(* through all interruptions of do_writemore; a write that succeeded has   *)
(* all of its bytes queued.                                                *)
WritesExact ==
    /\ nc.enq = [i \in 1 .. Len(nc.enq) |-> i]
    /\ nc.conn.state = "write" => Len(nc.enq) = nc.base + nc.conn.off
    /\ nc.call.op = "write" /\ nc.sem = 1 /\ nc.call.err = "ok" =>
           Len(nc.enq) = nc.base + nc.call.len

(* api_msg.c:659: the pcb is gone when the netconn is freed, and no pcb    *)
(* has a callback that would use it afterwards.  netconn_delete does not   *)
(* look at the result of its message, so this depends on the mailbox       *)
(* having more slots than there are packets in flight.                     *)
NoStrayPcb == ~nc.stray /\ (nc.conn.made = 0 => nc.tp = NoPcb)

(* The send side answers, writes and frees exactly.                        *)
SendExact == SendTypeOK /\ AnsweredOnce /\ WritesExact /\ NoStrayPcb

(* Every call returns.  tcpip_thread takes its messages, packets keep      *)
(* coming and in the end one concerns this connection, tcp_slowtmr polls,  *)
(* and the shortages of memory come to an end.                             *)
CallsReturn == nc.call.op # "none" ~> nc.call.op = "none"
=============================================================================

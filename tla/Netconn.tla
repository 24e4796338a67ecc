------------------------------ MODULE Netconn ------------------------------
(***************************************************************************)
(* Receiving on a TCP socket: recv_tcp, err_tcp, do_recv and netconn_drain *)
(* (lwip-1.4.1/src/api/api_msg.c), netconn_recv_data (api_lib.c),          *)
(* lwip_recvfrom and lwip_close (sockets.c), on the mailbox functions of   *)
(* the port (LWIP/arch/sys_arch.c).                                        *)
(*                                                                         *)
(* data_thread (priority 6) calls recv; tcpip_thread (priority 5) takes    *)
(* segments from the driver and preempts it between any two of its steps,  *)
(* but never the other way round: a handler of tcpip_thread is one step.   *)
(* The mailbox is the queue of module MsgQueue: a message posted while the *)
(* reader waits goes to the reader and not into the queue.                 *)
(*                                                                         *)
(* tcpip_thread's own mailbox never fills here (at most                    *)
(* MEMP_NUM_TCPIP_MSG_INPKT = 8 packets and one API call in 20 slots), so  *)
(* an API call is carried out: one step of the caller.                     *)
(***************************************************************************)
EXTENDS Integers, Sequences, FiniteSets

CONSTANTS
    MboxSize,    \* MAX_QUEUE_ENTRIES
    PoolSize,    \* PBUF_POOL_SIZE: pbufs for received frames
    SegLen,      \* bytes in each segment
    TCP_WND,     \* receive window in bytes
    MaxSegs,     \* bound: segments the peer sends per connection
    MaxQueues,   \* OS_MAX_QS, less the queue of tcpip_thread
    MaxConns     \* bound: connections

ASSUME NetconnAssumption ==
    /\ MboxSize \in Nat \ {0} /\ PoolSize \in Nat \ {0} /\ SegLen \in Nat \ {0}
    /\ TCP_WND \in Nat /\ MaxSegs \in Nat /\ MaxQueues \in Nat \ {0} /\ MaxConns \in Nat

VARIABLES
    mbox,       \* conn->recvmbox: open (0 or 1), its queue q, whether the
                \* reader waits (0 or 1), and the message handed to it
    last_err, pcb, rcvevent,
    rcv_wnd,
    arrived,    \* segments 1 .. arrived have been received and acknowledged
    fin,        \* 1: the peer has sent FIN
    pc,         \* where data_thread is
    off,        \* bytes copied by the running recv
    lastdata, lastoffset,
    free,       \* free pbufs
    queues,     \* free OS_Q control blocks
    conns,
    got,        \* history: the bytes recv delivered on this connection
    wasFull,    \* history: 1 if the mailbox of this connection was full
    lostPbufs, lostBoxes   \* history: never released after a close

tcp == <<rcv_wnd, pcb, arrived, fin>>
sock == <<lastdata, lastoffset, off, got>>
shared == <<free, queues, conns, lostPbufs, lostBoxes>>
vars == <<mbox, last_err, rcvevent, tcp, pc, sock, shared, wasFull>>

EOF == 0
NewMbox == [open |-> 1, q |-> <<>>, wait |-> 0, hand |-> <<>>]

Fatal(e) == e \in {"clsd", "rst"}

(* NETCONN_SET_SAFE_ERR                                                    *)
SafeErr(e) == IF Fatal(last_err) THEN last_err ELSE e

Min(a, b) == IF a < b THEN a ELSE b

Init ==
    /\ mbox = NewMbox
    /\ last_err = "ok" /\ pcb = 1 /\ rcvevent = 0
    /\ rcv_wnd = TCP_WND
    /\ arrived = 0 /\ fin = 0
    /\ pc = "idle" /\ off = 0 /\ lastdata = EOF /\ lastoffset = 0
    /\ free = PoolSize /\ queues = MaxQueues - 1 /\ conns = 1
    /\ got = <<>> /\ wasFull = 0 /\ lostPbufs = 0 /\ lostBoxes = 0

-----------------------------------------------------------------------------
(* The port.                                                               *)

(* Mutant: one slot fewer.                                                 *)
sys_mbox_valid_OffByOne(mb) == mb.open = 1 /\ Len(mb.q) + 1 < MboxSize

(* A mailbox that is full counts as invalid (sys_arch.c:171).              *)
sys_mbox_valid(mb) == mb.open = 1 /\ Len(mb.q) < MboxSize

(* To a mailbox that sys_mbox_valid has accepted in the same handler; a    *)
(* null message is encoded and decoded by the port and arrives as EOF.     *)
sys_mbox_trypost(mb, m) ==
    IF mb.wait = 1
    THEN [mb EXCEPT !.wait = 0, !.hand = <<m>>]
    ELSE [mb EXCEPT !.q = Append(@, m)]

Full(mb) == Len(mb.q) = MboxSize

-----------------------------------------------------------------------------
(* tcpip_thread.                                                           *)

recv_tcp(mb, m) == IF sys_mbox_valid(mb) THEN sys_mbox_trypost(mb, m) ELSE mb

Counted(mb) == IF sys_mbox_valid(mb) THEN 1 ELSE 0

(* A segment that fits the window, perhaps with FIN.  If the mailbox is    *)
(* taken for deleted the data is acknowledged, the window reopened and the *)
(* pbuf freed.  Without a free pbuf low_level_input drops the frame.       *)
tcp_input(f) ==
    LET m == arrived + 1
        mb == recv_tcp(mbox, m)
    IN  /\ pcb = 1 /\ fin = 0
        /\ arrived < MaxSegs /\ free > 0 /\ rcv_wnd >= SegLen
        /\ arrived' = m
        /\ fin' = f
        /\ mbox' = IF f = 1 THEN recv_tcp(mb, EOF) ELSE mb
        /\ rcvevent' = rcvevent + Counted(mbox) + (IF f = 1 THEN Counted(mb) ELSE 0)
        /\ rcv_wnd' = IF sys_mbox_valid(mbox) THEN rcv_wnd - SegLen ELSE rcv_wnd
        /\ free' = IF sys_mbox_valid(mbox) THEN free - 1 ELSE free
        /\ last_err' = IF sys_mbox_valid(mbox) THEN SafeErr("ok") ELSE last_err
        /\ wasFull' = IF Full(mbox') THEN 1 ELSE wasFull
        /\ UNCHANGED <<pcb, pc, sock, queues, conns, lostPbufs, lostBoxes>>

(* Mutant: the null message is forgotten.                                  *)
err_tcp_NoWake ==
    /\ pcb = 1
    /\ pcb' = 0
    /\ last_err' = "rst"
    /\ rcvevent' = rcvevent + 1
    /\ UNCHANGED <<mbox, rcv_wnd, arrived, fin, pc, sock, shared, wasFull>>

(* The peer resets the connection: a null message wakes the reader.        *)
err_tcp ==
    /\ pcb = 1
    /\ pcb' = 0
    /\ last_err' = "rst"
    /\ rcvevent' = rcvevent + 1
    /\ mbox' = recv_tcp(mbox, EOF)
    /\ wasFull' = IF Full(mbox') THEN 1 ELSE wasFull
    /\ UNCHANGED <<rcv_wnd, arrived, fin, pc, sock, shared>>

(* do_recv, called through netconn_recved: the window grows by n.          *)
do_recv(n) == rcv_wnd' = IF pcb = 1 THEN Min(rcv_wnd + n, TCP_WND) ELSE rcv_wnd

-----------------------------------------------------------------------------
(* data_thread, in lwip_recvfrom on a blocking socket.                     *)

lwip_recvfrom ==
    /\ pc = "idle"
    /\ pc' = "top"
    /\ off' = 0
    /\ UNCHANGED <<mbox, last_err, rcvevent, tcp, lastdata, lastoffset, got,
                   shared, wasFull>>

(* netconn_recv_data failed: what was copied so far is returned.           *)
Fail == pc' = IF off > 0 THEN "recved" ELSE "idle"

(* The loop's top: data left from the last call, or netconn_recv_data,     *)
(* whose first test is sys_mbox_valid.                                     *)
Top ==
    /\ pc = "top"
    /\ \/ lastdata # EOF /\ pc' = "copy"
       \/ lastdata = EOF /\ sys_mbox_valid(mbox) /\ pc' = "test"
       \/ lastdata = EOF /\ ~sys_mbox_valid(mbox) /\ Fail
    /\ UNCHANGED <<mbox, last_err, rcvevent, tcp, sock, shared, wasFull>>

TestErr ==
    /\ pc = "test"
    /\ \/ ~Fatal(last_err) /\ pc' = "fetch"
       \/ Fatal(last_err) /\ Fail
    /\ UNCHANGED <<mbox, last_err, rcvevent, tcp, sock, shared, wasFull>>

(* Mutant: the queue is not looked at before waiting.                      *)
sys_arch_mbox_fetch_AlwaysWait ==
    /\ pc = "fetch"
    /\ mbox' = [mbox EXCEPT !.wait = 1]
    /\ pc' = "wait"
    /\ UNCHANGED <<last_err, rcvevent, tcp, sock, shared, wasFull>>

sys_arch_mbox_fetch ==
    /\ pc = "fetch"
    /\ \/ /\ mbox.q # <<>>
          /\ mbox' = [mbox EXCEPT !.q = Tail(@), !.hand = <<Head(mbox.q)>>]
       \/ /\ mbox.q = <<>>
          /\ mbox' = [mbox EXCEPT !.wait = 1]
    /\ pc' = "wait"
    /\ UNCHANGED <<last_err, rcvevent, tcp, sock, shared, wasFull>>

Timeout ==
    /\ pc = "wait" /\ mbox.wait = 1
    /\ mbox' = [mbox EXCEPT !.wait = 0]
    /\ last_err' = SafeErr("timeout")
    /\ Fail
    /\ UNCHANGED <<rcvevent, tcp, sock, shared, wasFull>>

(* The rest of netconn_recv_data.                                          *)
Fetched ==
    /\ pc = "wait" /\ mbox.hand # <<>>
    /\ mbox' = [mbox EXCEPT !.hand = <<>>]
    /\ rcvevent' = rcvevent - 1
    /\ \/ /\ Head(mbox.hand) = EOF
          /\ do_recv(1)
          /\ last_err' = SafeErr("clsd")
          /\ Fail
          /\ UNCHANGED lastdata
       \/ /\ Head(mbox.hand) # EOF
          /\ lastdata' = Head(mbox.hand)
          /\ pc' = "copy"
          /\ UNCHANGED <<rcv_wnd, last_err>>
    /\ UNCHANGED <<pcb, arrived, fin, off, lastoffset, got, shared, wasFull>>

ByteNo(seg, i) == (seg - 1) * SegLen + i

Copied(n) == got \o [i \in 1 .. n |-> ByteNo(lastdata, lastoffset + i)]

(* The pbuf is used up.  recv goes on unless its buffer is full, the       *)
(* segment was pushed or no further event is counted.                      *)
CopyAll ==
    /\ pc = "copy"
    /\ got' = Copied(SegLen - lastoffset)
    /\ off' = off + SegLen - lastoffset
    /\ lastdata' = EOF
    /\ lastoffset' = 0
    /\ free' = free + 1
    /\ pc' \in IF rcvevent > 0 THEN {"top", "recved"} ELSE {"recved"}
    /\ UNCHANGED <<mbox, last_err, rcvevent, tcp, queues, conns, lostPbufs,
                   lostBoxes, wasFull>>

(* The caller's buffer is full before the pbuf is used up.                 *)
CopyPart ==
    /\ pc = "copy"
    /\ \E n \in 1 .. SegLen - lastoffset - 1 :
          /\ got' = Copied(n)
          /\ off' = off + n
          /\ lastoffset' = lastoffset + n
    /\ pc' = "recved"
    /\ UNCHANGED <<mbox, last_err, rcvevent, tcp, lastdata, shared, wasFull>>

netconn_recved ==
    /\ pc = "recved"
    /\ do_recv(off)
    /\ pc' = "idle"
    /\ off' = 0
    /\ UNCHANGED <<mbox, last_err, rcvevent, pcb, arrived, fin, lastdata,
                   lastoffset, got, shared, wasFull>>

(* The messages of s that are pbufs.                                       *)
Pbufs(s) == Cardinality({i \in DOMAIN s : s[i] # EOF})

(* What is queued is freed and the mailbox deleted, if sys_mbox_valid      *)
(* accepts it; rest pbufs are freed elsewhere in the same step.            *)
netconn_drain(rest) ==
    LET n == Pbufs(mbox.q)
    IN  \/ /\ sys_mbox_valid(mbox)
           /\ free' = free + rest + n
           /\ queues' = queues + 1
           /\ UNCHANGED <<lostPbufs, lostBoxes>>
        \/ /\ ~sys_mbox_valid(mbox)
           /\ free' = free + rest
           /\ lostPbufs' = lostPbufs + n
           /\ lostBoxes' = lostBoxes + 1
           /\ UNCHANGED queues

(* do_delconn: the mailbox, then the pcb.                                  *)
do_delconn(rest) ==
    /\ netconn_drain(rest)
    /\ mbox' = [NewMbox EXCEPT !.open = 0]
    /\ pcb' = 0
    /\ UNCHANGED <<last_err, rcvevent, rcv_wnd, arrived, fin, conns>>

(* lwip_close: free_socket frees the pbuf recv has not used up.            *)
lwip_close ==
    /\ pc = "idle"
    /\ do_delconn(IF lastdata = EOF THEN 0 ELSE 1)
    /\ lastdata' = EOF /\ lastoffset' = 0
    /\ pc' = "closed"
    /\ UNCHANGED <<off, got, wasFull>>

(* socket and connect; netconn_new needs a free queue control block.       *)
lwip_connect ==
    /\ pc = "closed"
    /\ conns < MaxConns /\ queues > 0
    /\ conns' = conns + 1
    /\ queues' = queues - 1
    /\ mbox' = NewMbox
    /\ last_err' = "ok" /\ pcb' = 1 /\ rcvevent' = 0
    /\ rcv_wnd' = TCP_WND /\ arrived' = 0 /\ fin' = 0
    /\ pc' = "idle" /\ got' = <<>> /\ wasFull' = 0
    /\ UNCHANGED <<off, lastdata, lastoffset, free, lostPbufs, lostBoxes>>

Reading ==
    \/ lwip_recvfrom \/ Top \/ TestErr \/ sys_arch_mbox_fetch \/ Fetched
    \/ CopyAll \/ CopyPart \/ netconn_recved

Next ==
    \/ \E f \in 0 .. 1 : tcp_input(f)
    \/ err_tcp
    \/ Reading
    \/ Timeout
    \/ lwip_close
    \/ lwip_connect

Spec == Init /\ [][Next]_vars

(* data_thread calls recv again and again and is not starved: tcpip_thread *)
(* blocks when its mailbox is empty.                                       *)
FairSpec == Spec /\ WF_vars(Reading)

-----------------------------------------------------------------------------
(* The variables keep their ranges; the queue is never overfilled.         *)
TypeOK ==
    /\ mbox.open \in 0 .. 1 /\ mbox.wait \in 0 .. 1
    /\ Len(mbox.q) <= MboxSize /\ Len(mbox.hand) <= 1
    /\ last_err \in {"ok", "timeout", "clsd", "rst"}
    /\ pcb \in 0 .. 1 /\ fin \in 0 .. 1 /\ wasFull \in 0 .. 1
    /\ rcv_wnd \in 0 .. TCP_WND
    /\ arrived \in 0 .. MaxSegs
    /\ pc \in {"idle", "top", "test", "fetch", "wait", "copy", "recved", "closed"}
    /\ lastdata \in 0 .. MaxSegs /\ lastoffset \in 0 .. SegLen - 1
    /\ free \in 0 .. PoolSize /\ queues \in 0 .. MaxQueues

(* What was received and recv has not used up, oldest first.               *)
Pending == (IF lastdata = EOF THEN <<>> ELSE <<lastdata>>) \o mbox.hand \o mbox.q

(* What recv delivers and what is still to be read together are exactly    *)
(* the acknowledged bytes, in order, and no end of file overtakes data:    *)
(* recv_tcp never takes the path that acknowledges and frees data.  This   *)
(* depends on PBUF_POOL_SIZE being at most MAX_QUEUE_ENTRIES (both are     *)
(* 20): the mailbox can only be full when no pbuf is left to receive       *)
(* another segment into.                                                   *)
StreamIntact ==
    pc # "closed" =>
        LET n == arrived - Pbufs(Pending)
        IN  /\ \A i \in DOMAIN Pending :
                  Pending[i] = IF n + i <= arrived THEN n + i ELSE EOF
            /\ got = [i \in 1 .. n * SegLen + lastoffset |-> i]

(* The receive window is what is not waiting to be read: it neither leaks  *)
(* nor grows beyond the buffers behind it.                                 *)
WindowExact ==
    pcb = 1 /\ fin = 0 =>
        rcv_wnd + off + SegLen * Pbufs(Pending) - lastoffset = TCP_WND

(* recv never blocks while it holds bytes for its caller: rcvevent counts  *)
(* no event that has no message, also when the connection is reset.        *)
NeverBlocksWithData == mbox.wait = 1 => off = 0

(* A reader that waits, perhaps without a timeout, waits on a live         *)
(* connection: a reset between its tests and its wait leaves it a message. *)
NeverWaitsOnDeadConn == mbox.wait = 1 => pcb = 1 /\ ~Fatal(last_err)

(* Every pbuf of the pool is free or on a connection, except those left in *)
(* mailboxes that were full when their connection was closed; so is every  *)
(* queue control block.                                                    *)
BuffersAccounted ==
    /\ TypeOK
    /\ free + Pbufs(Pending) + lostPbufs = PoolSize
    /\ lostPbufs <= lostBoxes * MboxSize
    /\ queues + mbox.open + lostBoxes = MaxQueues

(* recv, tcpip_thread and the close path account for every byte of the     *)
(* stream and of the window and for every buffer, on success and on error. *)
StreamExact == StreamIntact /\ WindowExact /\ BuffersAccounted

(* recv waits only if it has nothing and only on a connection that lives.  *)
NeverWaitsInVain == NeverBlocksWithData /\ NeverWaitsOnDeadConn

(* A segment that was acknowledged is read if recv is called often enough, *)
(* unless the mailbox was full or the connection ended.                    *)
ReadUnlessFull ==
    \A s \in 1 .. MaxSegs :
        arrived >= s ~> \/ Len(got) >= s * SegLen
                        \/ wasFull = 1 \/ pcb = 0 \/ fin = 1

(* sys_arch.c:159 has sys_mbox_valid test whether a mailbox is valid, and  *)
(* api_lib.c:338 has netconn_recv_data return ERR_OK if data was received: *)
(* what was acknowledged on a live connection is read by a task that calls *)
(* recv again and again.                                                   *)
ReadEventually ==
    \A s \in 1 .. MaxSegs :
        arrived >= s ~> \/ Len(got) >= s * SegLen
                        \/ pcb = 0 \/ fin = 1

(* api_msg.c:691: netconn_drain deletes and drains the mailbox, and        *)
(* api_msg.c:660 demands that it is gone before the netconn is freed.      *)
CloseReleasesAll == pc = "closed" => lostPbufs = 0 /\ lostBoxes = 0
=============================================================================

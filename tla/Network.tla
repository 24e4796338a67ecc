------------------------------ MODULE Network ------------------------------
(***************************************************************************)
(* The network interface the SDK is given (USER/DatahubNetwork.c), used    *)
(* together with a timer: the SDK sets the timer for an operation and      *)
(* passes what left_ms says to ucos_read as its timeout.                   *)
(*                                                                         *)
(* recv is what module Netconn shows of it: it blocks until a byte is      *)
(* there, the peer has gone or the time given with SO_RCVTIMEO has passed, *)
(* and delivers the next bytes of the stream, one or more.  The SDK is a   *)
(* library outside this repository; here it calls the functions in any     *)
(* order, except that it connects only when it is not connected and reads  *)
(* and writes only when it is.                                             *)
(***************************************************************************)
EXTENDS DatahubTimer, Sequences, FiniteSets

CONSTANTS
    NUM_SOCKETS,
    MEMP_NUM_NETDB,
    PendMax,     \* 2^16: OSQPend takes its timeout as u16
    Lens,        \* lengths the SDK reads
    MaxBytes,    \* bound: bytes the peer sends on a connection
    BlockCap     \* bound: the count of blocked ticks stops here

ASSUME NetworkAssumption ==
    /\ NUM_SOCKETS \in Nat \ {0} /\ MEMP_NUM_NETDB \in Nat \ {0}
    /\ PendMax \in Nat \ {0} /\ Lens \subseteq Nat \ {0}
    /\ MaxBytes \in Nat /\ BlockCap \in Nat

VARIABLES
    socket,      \* self->socket
    open,        \* sockets in use (sockets[i].conn != NULL)
    netdb,       \* free addrinfo structures
    connected,   \* 1: ConnectNetwork has succeeded and disconnect not been called
    peer,        \* "up", "closed", "reset"
    sent,        \* bytes 1 .. sent have arrived on this connection
    taken,       \* recv has delivered bytes 1 .. taken
    pc,          \* where data_thread is
    len, bytes, buffer,   \* of ucos_read
    wait,        \* ticks recv may block, 0: forever
    dly,         \* what is left of wait
    blocked,     \* history: ticks the running ucos_read has been blocked
    given,       \* history: what ucos_read has returned on this connection
    longFailed   \* history: 1 once a read of more than one byte has failed

sockVars == <<socket, open, netdb, connected>>
streamVars == <<peer, sent>>
readVars == <<len, bytes, buffer, wait, dly, blocked>>
histVars == <<taken, given, longFailed>>
vars == <<timerVars, sockVars, streamVars, readVars, histVars, pc>>

Init ==
    /\ TimerInit
    /\ socket = 0 - 1 /\ open = {} /\ netdb = MEMP_NUM_NETDB /\ connected = 0
    /\ peer = "closed" /\ sent = 0 /\ taken = 0
    /\ pc = "idle" /\ len = 0 /\ bytes = 0 /\ buffer = <<>>
    /\ wait = 0 /\ dly = 0 /\ blocked = 0 /\ given = <<>> /\ longFailed = 0

-----------------------------------------------------------------------------
(* ConnectNetwork.                                                         *)

(* getaddrinfo: resolves the name and takes an addrinfo.                   *)
Resolve ==
    /\ pc = "idle" /\ connected = 0
    /\ \/ netdb > 0 /\ netdb' = netdb - 1 /\ pc' = "socket"
       \/ UNCHANGED <<netdb, pc>>
    /\ UNCHANGED <<timerVars, socket, open, connected, streamVars, readVars, histVars>>

alloc_socket == CHOOSE i \in (0 .. (NUM_SOCKETS - 1)) \ open : \A j \in (0 .. (i - 1)) : j \in open

(* Mutant: returns without freeaddrinfo.                                   *)
Socket_NoFree ==
    /\ pc = "socket"
    /\ \/ /\ open # 0 .. (NUM_SOCKETS - 1)
          /\ socket' = alloc_socket /\ open' = open \cup {alloc_socket} /\ pc' = "connect"
       \/ socket' = 0 - 1 /\ pc' = "idle" /\ UNCHANGED open
    /\ UNCHANGED <<timerVars, netdb, connected, streamVars, readVars, histVars>>

(* freeaddrinfo, then socket, which fails without a free socket, netconn   *)
(* or queue.                                                               *)
Socket ==
    /\ pc = "socket"
    /\ netdb' = netdb + 1
    /\ \/ /\ open # 0 .. (NUM_SOCKETS - 1)
          /\ socket' = alloc_socket /\ open' = open \cup {alloc_socket} /\ pc' = "connect"
       \/ socket' = 0 - 1 /\ pc' = "idle" /\ UNCHANGED open
    /\ UNCHANGED <<timerVars, connected, streamVars, readVars, histVars>>

(* A failed connect closes the socket; self->socket keeps its number.      *)
ConnectFails ==
    /\ pc = "connect"
    /\ open' = open \ {socket} /\ pc' = "idle"
    /\ UNCHANGED <<timerVars, socket, netdb, connected, streamVars, readVars, histVars>>

Connected ==
    /\ pc = "connect"
    /\ connected' = 1 /\ peer' = "up" /\ sent' = 0 /\ taken' = 0
    /\ given' = <<>> /\ longFailed' = 0 /\ pc' = "idle"
    /\ UNCHANGED <<timerVars, socket, open, netdb, readVars>>

(* ucos_disconnect: the number of a socket that is closed already, or -1,  *)
(* is refused by get_socket.                                               *)
ucos_disconnect ==
    /\ pc = "idle"
    /\ open' = open \ {socket} /\ connected' = 0
    /\ peer' = "closed" /\ sent' = 0 /\ taken' = 0 /\ given' = <<>> /\ longFailed' = 0
    /\ UNCHANGED <<timerVars, socket, netdb, readVars, pc>>

-----------------------------------------------------------------------------
(* ucos_read.                                                              *)

(* Mutant: rounds up to the next tick.                                     *)
PendTicks_Up(ms) ==
    LET w == Word(ms)
    IN  IF w = 0 THEN 0 ELSE (Word(w * OS_TICKS_PER_SEC) \div MsPerSec + 1) % PendMax

(* The ticks sys_arch_mbox_fetch makes of the timeout: 0 blocks forever.   *)
PendTicks(ms) ==
    LET w == Word(ms)
        c == Word(w * OS_TICKS_PER_SEC) \div MsPerSec
    IN  IF w = 0 THEN 0 ELSE (IF c = 0 THEN 1 ELSE c) % PendMax

(* setsockopt(SO_RCVTIMEO), then the first recv.                           *)
ucos_read(n) ==
    /\ pc = "idle" /\ connected = 1 /\ set = 1
    /\ len' = n /\ bytes' = 0 /\ buffer' = <<>> /\ blocked' = 0
    /\ wait' = PendTicks(left_ms) /\ dly' = wait'
    /\ pc' = "recv"
    /\ UNCHANGED <<timerVars, sockVars, streamVars, histVars>>

Return ==
    /\ pc' = "idle" /\ len' = 0 /\ bytes' = 0 /\ buffer' = <<>>
    /\ wait' = 0 /\ dly' = 0 /\ blocked' = 0

ReturnData(buf) == Return /\ given' = given \o buf /\ UNCHANGED longFailed

(* Returns -1; the bytes read so far stay in the caller's buffer, which it *)
(* has no way to know of.                                                  *)
ReturnFailed ==
    /\ Return
    /\ longFailed' = IF len > 1 THEN 1 ELSE longFailed
    /\ UNCHANGED given

(* recv put n bytes at &buffer[bytes]: the loop ends at len, or the next   *)
(* recv has the whole time again.                                          *)
Received(n) ==
    LET buf == buffer \o [i \in 1 .. n |-> taken + i]
    IN  IF bytes + n = len THEN ReturnData(buf)
        ELSE /\ bytes' = bytes + n /\ buffer' = buf /\ dly' = wait
             /\ UNCHANGED <<len, wait, blocked, given, longFailed, pc>>

RecvData(n) ==
    /\ pc = "recv" /\ n <= sent - taken /\ n <= len - bytes
    /\ taken' = taken + n
    /\ Received(n)
    /\ UNCHANGED <<timerVars, sockVars, streamVars>>

(* Mutant: takes EAGAIN as a reason to try again.                          *)
RecvFails_Again ==
    \/ /\ pc = "recv" /\ (peer = "reset" \/ (peer = "closed" /\ sent = taken))
       /\ ReturnFailed
       /\ UNCHANGED <<timerVars, sockVars, streamVars, taken>>
    \/ /\ pc = "timeout"
       /\ pc' = "recv" /\ dly' = wait
       /\ UNCHANGED <<timerVars, sockVars, streamVars, histVars, len, bytes, buffer, wait, blocked>>

(* recv returned 0 (all read and the peer has closed) or -1 (a reset, or   *)
(* the time has passed).                                                   *)
RecvFails ==
    /\ \/ pc = "recv" /\ (peer = "reset" \/ (peer = "closed" /\ sent = taken))
       \/ pc = "timeout"
    /\ ReturnFailed
    /\ UNCHANGED <<timerVars, sockVars, streamVars, taken>>

(* ucos_write: SO_SNDTIMEO is not compiled in, so write has no timeout and *)
(* returns when the peer has taken the data or has gone.                   *)
ucos_write ==
    /\ \/ pc = "idle" /\ connected = 1 /\ pc' = "write"
       \/ pc = "write" /\ pc' = "idle"
    /\ UNCHANGED <<timerVars, sockVars, streamVars, readVars, histVars>>

data_thread ==
    \/ Resolve \/ Socket \/ ConnectFails \/ Connected \/ ucos_disconnect
    \/ \E n \in Lens : ucos_read(n)
    \/ \E n \in Lens : RecvData(n)
    \/ RecvFails
    \/ ucos_write
    \/ pc = "idle" /\ TimerCall /\ UNCHANGED <<sockVars, streamVars, readVars, histVars, pc>>

-----------------------------------------------------------------------------
(* The peer, seen through tcpip_thread.                                    *)
Peer ==
    /\ connected = 1 /\ peer = "up"
    /\ \/ sent < MaxBytes /\ sent' = sent + 1 /\ UNCHANGED peer
       \/ peer' \in {"closed", "reset"} /\ UNCHANGED sent
    /\ UNCHANGED <<timerVars, sockVars, readVars, histVars, pc>>

Blocked == pc = "recv" /\ peer = "up" /\ sent = taken

(* A tick, and OSTimeTick's part in the pend of a blocked recv.            *)
Clock ==
    /\ Tick
    /\ IF Blocked
       THEN /\ blocked' = IF blocked < BlockCap THEN blocked + 1 ELSE blocked
            /\ dly' = IF dly > 0 THEN dly - 1 ELSE dly
            /\ pc' = IF dly = 1 THEN "timeout" ELSE pc
       ELSE UNCHANGED <<blocked, dly, pc>>
    /\ UNCHANGED <<sockVars, streamVars, histVars, len, bytes, buffer, wait>>

Next == data_thread \/ Peer \/ Clock

(* Ticks go on for ever, and data_thread runs when it can: of the parts of *)
(* ucos_read only those are meant that follow the first recv.              *)
Fairness ==
    /\ WF_vars(Clock)
    /\ WF_vars((\E n \in Lens : RecvData(n)) \/ RecvFails)

Spec == Init /\ [][Next]_vars /\ Fairness

-----------------------------------------------------------------------------
(* The variables keep their ranges.                                        *)
TypeOK ==
    /\ TimerTypeOK
    /\ socket \in (0 - 1) .. (NUM_SOCKETS - 1)
    /\ open \subseteq 0 .. (NUM_SOCKETS - 1)
    /\ netdb \in 0 .. MEMP_NUM_NETDB /\ connected \in {0, 1}
    /\ peer \in {"up", "closed", "reset"}
    /\ sent \in 0 .. MaxBytes /\ taken \in 0 .. sent
    /\ pc \in {"idle", "socket", "connect", "recv", "timeout", "write"}
    /\ len \in Lens \cup {0} /\ bytes \in 0 .. len /\ Len(buffer) = bytes
    /\ wait \in 0 .. (PendMax - 1) /\ dly \in 0 .. wait
    /\ blocked \in 0 .. BlockCap /\ longFailed \in {0, 1}

(* ConnectNetwork keeps no resource when it fails, wherever it fails, and  *)
(* one socket when it succeeds; ucos_disconnect, called any number of      *)
(* times, gives that one back and no other.                                *)
SocketsAccounted ==
    /\ TypeOK
    /\ pc = "idle" =>
        /\ netdb = MEMP_NUM_NETDB
        /\ open = IF connected = 1 THEN {socket} ELSE {}

(* As long as no read of several bytes has failed, what the reads returned *)
(* is the stream with nothing missing and nothing twice: a read of one     *)
(* byte that times out has taken nothing.                                  *)
StreamInStep ==
    longFailed = 0 =>
        /\ given \o buffer = [i \in 1 .. taken |-> i]
        /\ pc = "recv" => bytes < len

(* While ucos_read waits for its first byte, the time recv may still block *)
(* ends no later than the timer whose left_ms it was given, unless that    *)
(* timer expired H ticks ago: the conversions from ticks to ms and back    *)
(* never add time.                                                         *)
FirstByteByDeadline ==
    Blocked /\ bytes = 0 /\ wait > 0 /\ due > 0 - H => dly <= due

(* ucos_read starts the time anew for each recv, so it is blocked for at   *)
(* most its timeout once per byte it asks for.                             *)
BlockBounded == wait > 0 => blocked <= (bytes + 1) * wait

(* What ucos_read gives and how long it blocks: the stream in step, its    *)
(* first byte by the deadline, and each later one within a timeout again.  *)
ReadsExact == StreamInStep /\ FirstByteByDeadline /\ BlockBounded

(* A read that has a timeout returns, whatever the peer does.              *)
ReadReturns == pc = "recv" /\ wait > 0 ~> pc = "idle"

(* include/DatahubNetwork.h says of ucos_read that timeout_ms is the       *)
(* longest time the read blocks.                                           *)
BlockedAtMostTimeout == pc \in {"recv", "timeout"} => blocked <= wait
=============================================================================

--------------------------- MODULE ReceiveProofs ---------------------------
(***************************************************************************)
(* The two ways in, for every size of their buffers.  The USART handler    *)
(* stores inside USART_RX_BUF, and a completed line is the input that      *)
(* preceded CR LF.  The receive side of a TCP socket delivers every byte   *)
(* that was acknowledged, once and in order, or still holds it, and recv   *)
(* never waits with bytes in hand or on a connection that has ended.       *)
(***************************************************************************)
EXTENDS Usart, Netconn, SequenceTheorems, FiniteSetTheorems, TLAPS

(* The inductive invariant: the types and the position of the stored bytes *)
(* in the input.                                                           *)
LineInv == UsartTypeOK /\ LineIsSuffix /\ CompleteLineIsWhatArrived

(* Initially nothing is stored and nothing has arrived.                    *)
LEMMA InitLine == UsartInit => LineInv
<1>1. UsartInit => UsartTypeOK
  BY UsartAssumption DEF UsartInit, UsartTypeOK, NoByte
<1>2. UsartInit => LineIsSuffix
  BY DEF UsartInit, LineIsSuffix, LineEndsAt
<1>3. UsartInit => CompleteLineIsWhatArrived
  BY DEF UsartInit, CompleteLineIsWhatArrived
<1> QED BY <1>1, <1>2, <1>3 DEF LineInv

(* One interrupt preserves the invariant, whatever byte it delivers.       *)
LEMMA HandlerInv ==
    ASSUME LineInv, NEW b \in Byte, USART1_IRQHandler(b)
    PROVE  LineInv'
<1> USE UsartAssumption
<1>1. CASE IgnoreByte(b)
  BY <1>1 DEF LineInv, IgnoreByte, usartVars, UsartTypeOK, LineIsSuffix, LineEndsAt,
              CompleteLineIsWhatArrived
<1>2. CASE AfterCR(b)
  <2>1. UsartTypeOK'
    BY <1>2 DEF LineInv, AfterCR, UsartTypeOK
  <2>2. /\ hist' = Append(hist, b)
        /\ Len(hist') = Len(hist) + 1
        /\ hist'[Len(hist) + 1] = b
        /\ \A i \in 1 .. Len(hist) : hist'[i] = hist[i]
    BY <1>2 DEF LineInv, AfterCR, UsartTypeOK
  <2>3. LineIsSuffix'
    BY <1>2, <2>1, <2>2 DEF LineInv, AfterCR, UsartTypeOK, LineIsSuffix, LineEndsAt
  <2>4. CompleteLineIsWhatArrived'
    BY <1>2, <2>1, <2>2
       DEF LineInv, AfterCR, UsartTypeOK, LineIsSuffix, LineEndsAt,
           CompleteLineIsWhatArrived
  <2> QED BY <2>1, <2>3, <2>4 DEF LineInv
<1>3. CASE InLine(b)
  <2>1. UsartTypeOK'
    BY <1>3 DEF LineInv, InLine, UsartTypeOK
  <2>2. /\ hist' = Append(hist, b)
        /\ Len(hist') = Len(hist) + 1
        /\ hist'[Len(hist) + 1] = b
        /\ \A i \in 1 .. Len(hist) : hist'[i] = hist[i]
    BY <1>3 DEF LineInv, InLine, UsartTypeOK
  <2>3. LineIsSuffix'
    <3>1. CASE b = CR
      BY <1>3, <2>1, <2>2, <3>1
         DEF LineInv, InLine, UsartTypeOK, LineIsSuffix, LineEndsAt
    <3>2. CASE b # CR /\ count + 1 > USART_REC_LEN - 1
      <4>1. phase' = "line" /\ count' = 0
        BY <1>3, <3>2 DEF LineInv, InLine, UsartTypeOK
      <4> QED BY <2>2, <4>1 DEF LineInv, UsartTypeOK, LineIsSuffix, LineEndsAt
    <3>3. CASE b # CR /\ ~(count + 1 > USART_REC_LEN - 1)
      <4>1. phase = "line" /\ phase' = "line" /\ count' = count + 1
        BY <1>3, <3>3 DEF LineInv, InLine, UsartTypeOK
      <4>2. count \in Nat /\ Len(hist) \in Nat /\ Len(hist) >= count
        BY <4>1 DEF LineInv, UsartTypeOK, LineIsSuffix, LineEndsAt
      <4>3. USART_RX_BUF'[count] = b /\ \A i \in 0 .. count - 1 : USART_RX_BUF'[i] = USART_RX_BUF[i]
        BY <1>3, <3>3 DEF LineInv, InLine, UsartTypeOK
      <4>4. ASSUME NEW i \in 0 .. count
            PROVE  USART_RX_BUF'[i] = hist'[Len(hist) - count + 1 + i] /\ USART_RX_BUF'[i] # CR
        <5>1. CASE i = count
          BY <2>2, <3>3, <4>2, <4>3, <5>1
        <5>2. CASE i \in 0 .. count - 1
          <6>1. USART_RX_BUF[i] = hist[Len(hist) - count + 1 + i] /\ USART_RX_BUF[i] # CR
            BY <4>1, <5>2 DEF LineInv, LineIsSuffix, LineEndsAt
          <6>2. Len(hist) - count + 1 + i \in 1 .. Len(hist)
            BY <4>2, <5>2
          <6> QED BY <2>2, <4>3, <5>2, <6>1, <6>2
        <5> QED BY <4>2, <5>1, <5>2
      <4>5. ASSUME NEW i \in 0 .. count' - 1
            PROVE  USART_RX_BUF'[i] = hist'[Len(hist') - count' + 1 + i] /\ USART_RX_BUF'[i] # CR
        <5>1. i \in 0 .. count /\ Len(hist') - count' + 1 + i = Len(hist) - count + 1 + i
          BY <2>2, <4>1, <4>2
        <5> QED BY <4>4, <5>1
      <4>6. Len(hist') >= count'
        BY <2>2, <4>1, <4>2
      <4> QED BY <4>1, <4>5, <4>6 DEF LineIsSuffix, LineEndsAt
    <3> QED BY <3>1, <3>2, <3>3
  <2>4. phase' # "done"
    BY <1>3 DEF LineInv, InLine, UsartTypeOK
  <2> QED BY <2>1, <2>3, <2>4 DEF LineInv, CompleteLineIsWhatArrived
<1> QED BY <1>1, <1>2, <1>3 DEF USART1_IRQHandler

(* Every step, an interrupt or a stutter, preserves the invariant.         *)
LEMMA NextLine == LineInv /\ [UsartNext]_usartVars => LineInv'
<1> SUFFICES ASSUME LineInv, [UsartNext]_usartVars PROVE LineInv'
  OBVIOUS
<1>1. CASE UsartNext
  BY <1>1, HandlerInv DEF UsartNext
<1>2. CASE UNCHANGED usartVars
  BY <1>2 DEF usartVars, LineInv, UsartTypeOK, LineIsSuffix, LineEndsAt,
              CompleteLineIsWhatArrived
<1> QED BY <1>1, <1>2

(* USART1_IRQHandler never stores outside USART_RX_BUF.                    *)
THEOREM TypeCorrect == UsartSpec => []UsartTypeOK
<1>1. LineInv => UsartTypeOK
  BY DEF LineInv
<1> QED BY <1>1, InitLine, NextLine, PTL DEF UsartSpec

(* A line that USART_RX_STA reports complete is the input before CR LF.    *)
THEOREM LineCorrect == UsartSpec => []CompleteLineIsWhatArrived
<1>1. LineInv => CompleteLineIsWhatArrived
  BY DEF LineInv
<1> QED BY <1>1, InitLine, NextLine, PTL DEF UsartSpec

-----------------------------------------------------------------------------
(* A message of recvmbox: the number of a segment, or EOF.                 *)
Message == 0 .. MaxSegs

(* The types of the socket's receive side.                                 *)
ReceiveTypes ==
    /\ mbox \in [open : 0 .. 1, q : Seq(Message), wait : 0 .. 1, hand : Seq(Message)]
    /\ Len(mbox.q) <= MboxSize /\ Len(mbox.hand) <= 1
    /\ last_err \in {"ok", "timeout", "clsd", "rst"}
    /\ pcb \in 0 .. 1 /\ fin \in 0 .. 1 /\ wasFull \in 0 .. 1
    /\ rcvevent \in Int /\ rcv_wnd \in 0 .. TCP_WND
    /\ arrived \in Message /\ lastdata \in Message
    /\ pc \in {"idle", "top", "test", "fetch", "wait", "copy", "recved", "closed"}
    /\ off \in Nat /\ lastoffset \in 0 .. SegLen - 1
    /\ free \in Nat /\ queues \in Nat /\ conns \in Nat
    /\ lostPbufs \in Nat /\ lostBoxes \in Nat

(* Where data_thread is says what it holds: a message or a place in the    *)
(* mailbox's wait list only while it waits, a pbuf to copy from only when  *)
(* it copies or between two calls, nothing after the close.                *)
ReaderHolds ==
    /\ pc = "wait" => (mbox.wait = 1 <=> mbox.hand = <<>>)
    /\ pc # "wait" => mbox.wait = 0 /\ mbox.hand = <<>>
    /\ mbox.wait = 1 => mbox.q = <<>>
    /\ pc \in {"test", "fetch", "wait"} => lastdata = EOF
    /\ pc = "copy" => lastdata # EOF
    /\ lastdata = EOF => lastoffset = 0
    /\ pc \in {"idle", "closed"} => off = 0
    /\ pc = "closed" => pcb = 0 /\ mbox.q = <<>> /\ lastdata = EOF
    /\ mbox.open = IF pc = "closed" THEN 0 ELSE 1

(* rcvevent counts the messages as long as no error has ended the          *)
(* connection, and whoever goes to the mailbox again with bytes for its    *)
(* caller, or after the error, finds a message there.                      *)
EventsCounted ==
    /\ pc # "closed" /\ pcb = 0 => Fatal(last_err)
    /\ pc # "closed" /\ ~Fatal(last_err) => rcvevent = Len(mbox.q) + Len(mbox.hand)
    /\ pc \in {"top", "test"} /\ off > 0 => rcvevent > 0
    /\ pc = "fetch" /\ (off > 0 \/ Fatal(last_err)) => mbox.q # <<>>
    /\ mbox.wait = 1 => off = 0 /\ ~Fatal(last_err)

ReaderInv == ReceiveTypes /\ ReaderHolds /\ EventsCounted

(* Messages out of the queue and not used up: d in recv's hands, or the    *)
(* one handed over.                                                        *)
Taken(mb, d) == (IF d = EOF THEN 0 ELSE 1) + Len(mb.hand)

(* Of n segments the last p are waiting, in order: with the reader, handed *)
(* over, in the queue; ends of file come after them.                       *)
Ordered(mb, d, n, p) ==
    /\ p \in 0 .. n
    /\ d # EOF => p >= 1 /\ d = n - p + 1
    /\ mb.hand # <<>> => mb.hand[1] = IF p >= 1 THEN n - p + 1 ELSE EOF
    /\ \A i \in 1 .. Len(mb.q) :
          mb.q[i] = IF Taken(mb, d) + i <= p THEN n - p + Taken(mb, d) + i ELSE EOF
    /\ p <= Taken(mb, d) + Len(mb.q)

(* Those before are delivered, and no end of file is in the mailbox of a   *)
(* connection that has not ended.                                          *)
InOrder(p) ==
    /\ Ordered(mbox, lastdata, arrived, p)
    /\ pcb = 1 /\ fin = 0 => p = Taken(mbox, lastdata) + Len(mbox.q)
    /\ pc # "closed" =>
          got = [i \in 1 .. (arrived - p) * SegLen + lastoffset |-> i]

(* The window and the pool, p segments waiting.                            *)
Balanced(p) ==
    /\ pcb = 1 /\ fin = 0 => rcv_wnd + off + SegLen * p - lastoffset = TCP_WND
    /\ free + p + lostPbufs = PoolSize
    /\ lostPbufs <= lostBoxes * MboxSize
    /\ queues + mbox.open + lostBoxes = MaxQueues

Stream(p) == InOrder(p) /\ Balanced(p)

(* The inductive invariant.                                                *)
StreamInv == ReaderInv /\ \E p \in Nat : Stream(p)

(* What tcpip_thread may rely on in a mailbox it posts to.                 *)
MboxOK(mb) ==
    /\ mb \in [open : 0 .. 1, q : Seq(Message), wait : 0 .. 1, hand : Seq(Message)]
    /\ Len(mb.q) <= MboxSize /\ Len(mb.hand) <= 1
    /\ mb.wait = 1 => mb.q = <<>> /\ mb.hand = <<>>

(* What a post does: the waiting reader gets the message, else the queue   *)
(* does, else nobody.                                                      *)
PostedTo(mb, m, mb2) ==
    /\ MboxOK(mb2) /\ mb2.open = mb.open
    /\ sys_mbox_valid(mb) => mb2.wait = 0
    /\ sys_mbox_valid(mb) /\ mb.wait = 1 => mb2.q = mb.q /\ mb2.hand = <<m>>
    /\ sys_mbox_valid(mb) /\ mb.wait = 0 =>
          mb2.q = Append(mb.q, m) /\ mb2.hand = mb.hand
    /\ ~sys_mbox_valid(mb) => mb2 = mb

(* recv_tcp's post, and err_tcp's, does that.                              *)
LEMMA Posted ==
    ASSUME NEW mb, MboxOK(mb), NEW m \in Message
    PROVE  PostedTo(mb, m, recv_tcp(mb, m))
<1> USE NetconnAssumption DEF MboxOK
<1>1. CASE ~sys_mbox_valid(mb)
  BY <1>1 DEF recv_tcp, PostedTo
<1>2. CASE sys_mbox_valid(mb) /\ mb.wait = 1
  <2>1. recv_tcp(mb, m) = [mb EXCEPT !.wait = 0, !.hand = <<m>>]
    BY <1>2 DEF recv_tcp, sys_mbox_trypost
  <2>2. <<m>> \in Seq(Message) /\ Len(<<m>>) = 1 /\ 0 \in 0 .. 1
    OBVIOUS
  <2> DEFINE r == [mb EXCEPT !.wait = 0, !.hand = <<m>>]
  <2>3. r \in [open : 0 .. 1, q : Seq(Message), wait : 0 .. 1, hand : Seq(Message)]
    BY <2>2
  <2>4. r.open = mb.open /\ r.q = mb.q /\ r.wait = 0 /\ r.hand = <<m>>
    OBVIOUS
  <2> HIDE DEF r
  <2>5. recv_tcp(mb, m) = r
    BY <2>1 DEF r
  <2>6. MboxOK(r)
    <3>1. Len(r.hand) = 1 /\ r.wait # 1
      BY <2>2, <2>4
    <3>2. Len(r.hand) <= 1
      BY <3>1
    <3>3. Len(r.q) <= MboxSize
      BY <2>4
    <3> QED BY <2>3, <3>1, <3>2, <3>3, Zenon DEF MboxOK
  <2>7. mb.wait # 0
    BY <1>2
  <2> QED BY <1>2, <2>4, <2>5, <2>6, <2>7, Zenon DEF PostedTo
<1>3. CASE sys_mbox_valid(mb) /\ mb.wait = 0
  <2>1. recv_tcp(mb, m) = [mb EXCEPT !.q = Append(mb.q, m)]
    BY <1>3 DEF recv_tcp, sys_mbox_trypost
  <2>2. /\ Append(mb.q, m) \in Seq(Message)
        /\ Len(Append(mb.q, m)) = Len(mb.q) + 1
    OBVIOUS
  <2>3. Len(mb.q) < MboxSize
    BY <1>3 DEF sys_mbox_valid
  <2> DEFINE r == [mb EXCEPT !.q = Append(mb.q, m)]
  <2>4. r \in [open : 0 .. 1, q : Seq(Message), wait : 0 .. 1, hand : Seq(Message)]
    BY <2>2
  <2>5. r.open = mb.open /\ r.q = Append(mb.q, m) /\ r.wait = mb.wait /\ r.hand = mb.hand
    OBVIOUS
  <2> HIDE DEF r
  <2>6. recv_tcp(mb, m) = r
    BY <2>1 DEF r
  <2>7. MboxOK(r)
    BY <1>3, <2>2, <2>3, <2>4, <2>5
  <2> QED BY <1>3, <2>5, <2>6, <2>7 DEF PostedTo
<1>4. mb.wait \in 0 .. 1
  OBVIOUS
<1> QED BY <1>1, <1>2, <1>3, <1>4

(* The first n numbers followed by the next k are the first n + k.         *)
LEMMA Counting ==
    ASSUME NEW n \in Nat, NEW k \in Nat
    PROVE  [i \in 1 .. n |-> i] \o [i \in 1 .. k |-> n + i] = [i \in 1 .. n + k |-> i]
<1> DEFINE s == [i \in 1 .. n |-> i]
           t == [i \in 1 .. k |-> n + i]
<1>1. s \in Seq(Nat) /\ Len(s) = n /\ t \in Seq(Nat) /\ Len(t) = k
  OBVIOUS
<1>2. s \o t \in Seq(Nat) /\ Len(s \o t) = n + k
  BY <1>1
<1>3. ASSUME NEW i \in 1 .. n + k PROVE (s \o t)[i] = i
  <2>1. CASE i <= n  BY <1>1, <2>1
  <2>2. CASE i > n
    <3>1. (s \o t)[i] = t[i - n]  BY <1>1, <2>2
    <3>2. i - n \in 1 .. k  BY <2>2
    <3> QED BY <3>1, <3>2
  <2> QED BY <2>1, <2>2
<1>4. s \o t = [i \in 1 .. n + k |-> (s \o t)[i]]
  BY <1>2
<1> QED BY <1>3, <1>4

LEMMA ZeroOrOne ==
    ASSUME NEW n \in Nat, n <= 1
    PROVE  n \in 0 .. 1 /\ (n = 0 \/ n = 1)
OBVIOUS

(* At most one message.                                                    *)
LEMMA AtMostOne ==
    ASSUME NEW S, NEW s \in Seq(S), Len(s) <= 1
    PROVE  /\ Len(s) \in 0 .. 1
           /\ s = <<>> <=> Len(s) = 0
           /\ s # <<>> => Len(s) = 1 /\ s[1] \in S
<1>1. Len(s) \in Nat
  OBVIOUS
<1>2. s = <<>> <=> Len(s) = 0
  BY EmptySeq
<1>3. Len(s) \in 0 .. 1 /\ (Len(s) = 0 \/ Len(s) = 1)
  BY <1>1, ZeroOrOne, Zenon
<1>4. Len(s) = 1 => s[1] \in S
  BY ElementOfSeq
<1> QED BY <1>2, <1>3, <1>4, Zenon

(* Where the elements of a concatenation are.                              *)
LEMMA Joined ==
    ASSUME NEW S, NEW s \in Seq(S), NEW t \in Seq(S)
    PROVE  /\ s \o t \in Seq(S) /\ Len(s \o t) = Len(s) + Len(t)
           /\ \A i \in 1 .. Len(s) : (s \o t)[i] = s[i]
           /\ \A i \in 1 .. Len(t) : (s \o t)[Len(s) + i] = t[i]
OBVIOUS

(* The messages taken out of the queue, then those in it.                  *)
LEMMA PendingParts ==
    ASSUME ReceiveTypes, ReaderHolds
    PROVE  /\ Pending \in Seq(Message)
           /\ Taken(mbox, lastdata) \in 0 .. 1
           /\ Len(Pending) = Taken(mbox, lastdata) + Len(mbox.q)
           /\ lastdata # EOF => Taken(mbox, lastdata) = 1 /\ Pending[1] = lastdata
           /\ mbox.hand # <<>> => Taken(mbox, lastdata) = 1 /\ Pending[1] = mbox.hand[1]
           /\ Taken(mbox, lastdata) = 1 => lastdata # EOF \/ mbox.hand # <<>>
           /\ \A i \in 1 .. Len(mbox.q) : Pending[Taken(mbox, lastdata) + i] = mbox.q[i]
<1>1. /\ mbox.q \in Seq(Message) /\ mbox.hand \in Seq(Message)
      /\ lastdata \in Message /\ Len(mbox.hand) <= 1
  BY DEF ReceiveTypes
<1>2. mbox.hand # <<>> => lastdata = EOF
  BY DEF ReceiveTypes, ReaderHolds
<1>3. /\ Len(mbox.hand) \in 0 .. 1
      /\ mbox.hand = <<>> <=> Len(mbox.hand) = 0
      /\ mbox.hand # <<>> => Len(mbox.hand) = 1
  BY <1>1, AtMostOne
<1>4. CASE lastdata = EOF
  <2>1. Pending = (<<>> \o mbox.hand) \o mbox.q
    BY <1>4 DEF Pending
  <2>2. <<>> \o mbox.hand = mbox.hand
    BY <1>1, ConcatEmptySeq
  <2>3. Pending = mbox.hand \o mbox.q
    BY <2>1, <2>2
  <2>4. Taken(mbox, lastdata) = Len(mbox.hand)
    BY <1>3, <1>4 DEF Taken
  <2>5. /\ Pending \in Seq(Message) /\ Len(Pending) = Len(mbox.hand) + Len(mbox.q)
        /\ \A i \in 1 .. Len(mbox.hand) : Pending[i] = mbox.hand[i]
        /\ \A i \in 1 .. Len(mbox.q) : Pending[Len(mbox.hand) + i] = mbox.q[i]
    <3>1. /\ mbox.hand \o mbox.q \in Seq(Message)
          /\ Len(mbox.hand \o mbox.q) = Len(mbox.hand) + Len(mbox.q)
          /\ \A i \in 1 .. Len(mbox.hand) : (mbox.hand \o mbox.q)[i] = mbox.hand[i]
          /\ \A i \in 1 .. Len(mbox.q) :
                (mbox.hand \o mbox.q)[Len(mbox.hand) + i] = mbox.q[i]
      <4> DEFINE h == mbox.hand
                 t == mbox.q
      <4>1. h \in Seq(Message) /\ t \in Seq(Message)
        BY <1>1
      <4> HIDE DEF h, t
      <4>2. /\ h \o t \in Seq(Message) /\ Len(h \o t) = Len(h) + Len(t)
            /\ \A i \in 1 .. Len(h) : (h \o t)[i] = h[i]
            /\ \A i \in 1 .. Len(t) : (h \o t)[Len(h) + i] = t[i]
        BY <4>1, Joined
      <4> QED BY <4>2 DEF h, t
    <3> QED BY <2>3, <3>1, Zenon
  <2>6. mbox.hand # <<>> => Pending[1] = mbox.hand[1]
    <3>1. mbox.hand # <<>> => 1 \in 1 .. Len(mbox.hand)
      BY <1>3
    <3> QED BY <2>5, <3>1, Zenon
  <2>7. Taken(mbox, lastdata) = 1 => mbox.hand # <<>>
    BY <1>3, <2>4
  <2> QED BY <1>3, <1>4, <2>4, <2>5, <2>6, <2>7, Zenon
<1>5. CASE lastdata # EOF
  <2>1. mbox.hand = <<>>
    BY <1>2, <1>5
  <2>2. Pending = (<<lastdata>> \o <<>>) \o mbox.q
    BY <1>5, <2>1 DEF Pending
  <2>3. <<lastdata>> \o <<>> = <<lastdata>> /\ <<lastdata>> \in Seq(Message)
        /\ Len(<<lastdata>>) = 1 /\ <<lastdata>>[1] = lastdata
    BY <1>1, ConcatEmptySeq
  <2>4. Pending = <<lastdata>> \o mbox.q
    BY <2>2, <2>3
  <2>5. Taken(mbox, lastdata) = 1
    BY <1>3, <1>5, <2>1 DEF Taken
  <2>6. /\ Pending \in Seq(Message) /\ Len(Pending) = 1 + Len(mbox.q)
        /\ Pending[1] = lastdata
        /\ \A i \in 1 .. Len(mbox.q) : Pending[1 + i] = mbox.q[i]
    BY <1>1, <2>3, <2>4, Joined
  <2> QED BY <1>5, <2>1, <2>5, <2>6
<1> QED BY <1>4, <1>5

-----------------------------------------------------------------------------
(* What any number of posts does to a mailbox, k of them accepted.         *)
Grown(mb, mb2, k) ==
    /\ MboxOK(mb2) /\ mb2.open = mb.open
    /\ Len(mb2.q) + Len(mb2.hand) = Len(mb.q) + Len(mb.hand) + k
    /\ mb.q # <<>> => mb2.q # <<>>
    /\ mb.wait = 0 => mb2.wait = 0 /\ mb2.hand = mb.hand
    /\ mb.wait = 1 => mb2 = mb \/ (mb2.wait = 0 /\ mb2.hand # <<>>)

(* One post.                                                               *)
LEMMA PostGrows ==
    ASSUME NEW mb, MboxOK(mb), NEW m \in Message
    PROVE  Grown(mb, recv_tcp(mb, m), Counted(mb))
<1> DEFINE mb2 == recv_tcp(mb, m)
<1>1. PostedTo(mb, m, mb2)
  BY Posted
<1> SUFFICES Grown(mb, mb2, Counted(mb))
  OBVIOUS
<1> HIDE DEF mb2
<1>2. /\ mb.q \in Seq(Message) /\ mb.hand \in Seq(Message) /\ mb.wait \in 0 .. 1
      /\ mb.wait = 1 => mb.q = <<>> /\ mb.hand = <<>>
  BY DEF MboxOK
<1>3. Len(mb.q) \in Nat /\ Len(mb.hand) \in Nat
  BY <1>2
<1>4. CASE ~sys_mbox_valid(mb)
  <2>1. mb2 = mb /\ Counted(mb) = 0
    BY <1>1, <1>4 DEF PostedTo, Counted
  <2>2. Len(mb.q) + Len(mb.hand) = Len(mb.q) + Len(mb.hand) + Counted(mb)
    BY <1>3, <2>1
  <2>3. mb.wait = 1 => mb.wait # 0
    OBVIOUS
  <2> QED BY <2>1, <2>2, <2>3, Zenon DEF Grown
<1>5. CASE sys_mbox_valid(mb) /\ mb.wait = 1
  <2>1. /\ mb2.q = mb.q /\ mb2.hand = <<m>> /\ mb2.wait = 0
        /\ MboxOK(mb2) /\ mb2.open = mb.open
    BY <1>1, <1>5 DEF PostedTo
  <2>2. Counted(mb) = 1
    BY <1>5 DEF Counted
  <2>3. Len(mb2.hand) = 1 /\ Len(mb.hand) = 0 /\ mb2.hand # <<>>
    BY <1>2, <1>5, <2>1
  <2>4. Len(mb2.q) + Len(mb2.hand) = Len(mb.q) + Len(mb.hand) + Counted(mb)
    BY <1>3, <2>1, <2>2, <2>3
  <2>5. mb.q = <<>> /\ mb.wait # 0
    BY <1>2, <1>5
  <2> QED BY <2>1, <2>3, <2>4, <2>5, Zenon DEF Grown
<1>6. CASE sys_mbox_valid(mb) /\ mb.wait = 0
  <2>1. /\ mb2.q = Append(mb.q, m) /\ mb2.hand = mb.hand /\ mb2.wait = 0
        /\ MboxOK(mb2) /\ mb2.open = mb.open
    BY <1>1, <1>6 DEF PostedTo
  <2>2. Counted(mb) = 1
    BY <1>6 DEF Counted
  <2>3. Len(mb2.q) = Len(mb.q) + 1 /\ mb2.q # <<>>
    BY <1>2, <2>1
  <2>4. Len(mb2.q) + Len(mb2.hand) = Len(mb.q) + Len(mb.hand) + Counted(mb)
    <3>1. Len(mb2.hand) = Len(mb.hand)
      BY <2>1
    <3> DEFINE x == Len(mb.q)
               y == Len(mb.hand)
    <3>2. x \in Nat /\ y \in Nat
      BY <1>3
    <3>3. Len(mb2.q) = x + 1 /\ Len(mb2.hand) = y
      BY <2>3, <3>1
    <3> HIDE DEF x, y
    <3>4. Len(mb2.q) + Len(mb2.hand) = x + y + Counted(mb)
      BY <2>2, <3>2, <3>3
    <3> QED BY <3>4 DEF x, y
  <2>5. mb.wait # 1
    BY <1>6
  <2> QED BY <2>1, <2>3, <2>4, <2>5, Zenon DEF Grown
<1>7. mb.wait = 0 \/ mb.wait = 1
  BY <1>2
<1> QED BY <1>4, <1>5, <1>6, <1>7

(* Sums are natural numbers.                                               *)
LEMMA SumOfNats ==
    ASSUME NEW i \in Nat, NEW j \in Nat
    PROVE  i + j \in Nat
OBVIOUS

(* Two posts.                                                              *)
LEMMA GrowsTwice ==
    ASSUME NEW a, NEW b, NEW c, NEW k \in Nat, NEW l \in Nat,
           MboxOK(a), Grown(a, b, k), Grown(b, c, l)
    PROVE  Grown(a, c, k + l)
<1>1. /\ Len(a.q) \in Nat /\ Len(a.hand) \in Nat /\ Len(b.q) \in Nat /\ Len(b.hand) \in Nat
      /\ Len(c.q) \in Nat /\ Len(c.hand) \in Nat
  <2>1. /\ a.q \in Seq(Message) /\ a.hand \in Seq(Message) /\ b.q \in Seq(Message)
        /\ b.hand \in Seq(Message) /\ c.q \in Seq(Message) /\ c.hand \in Seq(Message)
    BY DEF Grown, MboxOK
  <2> QED BY <2>1
<1>2. Len(c.q) + Len(c.hand) = Len(a.q) + Len(a.hand) + (k + l)
  <2>1. /\ Len(b.q) + Len(b.hand) = Len(a.q) + Len(a.hand) + k
        /\ Len(c.q) + Len(c.hand) = Len(b.q) + Len(b.hand) + l
    BY Zenon DEF Grown
  <2> DEFINE x == Len(a.q) + Len(a.hand)
             y == Len(b.q) + Len(b.hand)
             z == Len(c.q) + Len(c.hand)
  <2>2. x \in Nat /\ y \in Nat /\ z \in Nat
    BY <1>1, SumOfNats, Zenon
  <2>3. y = x + k /\ z = y + l
    BY <2>1
  <2> HIDE DEF x, y, z
  <2>4. z = x + (k + l)
    BY <2>2, <2>3
  <2> QED BY <2>4 DEF x, y, z
<1> QED BY <1>2, Zenon DEF Grown

(* An error that ended the connection stays.                               *)
LEMMA ErrorsStay ==
    ASSUME last_err \in {"ok", "timeout", "clsd", "rst"},
           NEW e \in {"ok", "timeout", "clsd", "rst"}
    PROVE  /\ SafeErr(e) \in {"ok", "timeout", "clsd", "rst"}
           /\ Fatal(last_err) => Fatal(SafeErr(e))
           /\ ~Fatal(e) => (Fatal(SafeErr(e)) <=> Fatal(last_err))
           /\ Fatal(e) => Fatal(SafeErr(e))
BY DEF SafeErr, Fatal

(* The mailbox of the socket is one tcpip_thread may post to.              *)
LEMMA SocketMbox ==
    ASSUME ReceiveTypes, ReaderHolds
    PROVE  /\ MboxOK(mbox)
           /\ mbox.q \in Seq(Message) /\ mbox.hand \in Seq(Message)
           /\ mbox.wait \in 0 .. 1 /\ mbox.open \in 0 .. 1
           /\ Len(mbox.q) \in Nat /\ Len(mbox.hand) \in Nat
<1>1. /\ mbox \in [open : 0 .. 1, q : Seq(Message), wait : 0 .. 1, hand : Seq(Message)]
      /\ Len(mbox.q) <= MboxSize /\ Len(mbox.hand) <= 1
  BY DEF ReceiveTypes
<1>2. /\ mbox.q \in Seq(Message) /\ mbox.hand \in Seq(Message)
      /\ mbox.wait \in 0 .. 1 /\ mbox.open \in 0 .. 1
  BY <1>1
<1>3. Len(mbox.q) \in Nat /\ Len(mbox.hand) \in Nat
  BY <1>2
<1>4. mbox.wait = 1 => mbox.q = <<>> /\ mbox.hand = <<>>
  BY Zenon DEF ReaderHolds
<1> QED BY <1>1, <1>2, <1>3, <1>4, Zenon DEF MboxOK

(* The sockets' first state.                                               *)
LEMMA InitReader == Init => ReaderInv
<1> SUFFICES ASSUME Init PROVE ReaderInv  OBVIOUS
<1> USE NetconnAssumption
<1>1. /\ mbox = [open |-> 1, q |-> <<>>, wait |-> 0, hand |-> <<>>]
      /\ pc = "idle" /\ lastdata = EOF /\ lastoffset = 0 /\ off = 0 /\ pcb = 1
      /\ rcvevent = 0 /\ last_err = "ok"
  BY DEF Init, NewMbox
<1>2. /\ mbox \in [open : 0 .. 1, q : Seq(Message), wait : 0 .. 1, hand : Seq(Message)]
      /\ mbox.q = <<>> /\ mbox.hand = <<>> /\ mbox.wait = 0 /\ mbox.open = 1
      /\ Len(mbox.q) = 0 /\ Len(mbox.hand) = 0
  BY <1>1
<1>3. ReceiveTypes
  BY <1>2 DEF Init, ReceiveTypes, Message, EOF
<1>4. ReaderHolds
  BY <1>1, <1>2 DEF ReaderHolds
<1>5. EventsCounted
  BY <1>1, <1>2 DEF EventsCounted, Fatal
<1> QED BY <1>3, <1>4, <1>5 DEF ReaderInv

(* A segment that arrives.                                                 *)
LEMMA ReaderTcpInput ==
    ASSUME ReaderInv, NEW f \in 0 .. 1, tcp_input(f)
    PROVE  ReaderInv'
<1>1. ReceiveTypes /\ ReaderHolds /\ EventsCounted
  BY DEF ReaderInv
<1> DEFINE m == arrived + 1
           mb == recv_tcp(mbox, m)
           k == Counted(mbox)
           l == IF f = 1 THEN Counted(mb) ELSE 0
<1>2. m \in Message /\ EOF \in Message /\ k \in Nat /\ l \in Nat
  BY <1>1, NetconnAssumption DEF tcp_input, ReceiveTypes, Message, EOF, Counted
<1>3. MboxOK(mbox)
  BY <1>1, SocketMbox
<1>4. Grown(mbox, mb, k)
  BY <1>2, <1>3, PostGrows
<1>5. MboxOK(mb)
  BY <1>4 DEF Grown
<1>6. mbox' = (IF f = 1 THEN recv_tcp(mb, EOF) ELSE mb) /\ rcvevent' = rcvevent + k + l
  BY DEF tcp_input
<1> HIDE DEF m, mb, k
<1>7. Grown(mbox, mbox', k + l)
  <2>1. CASE f = 1
    <3>1. Grown(mb, mbox', l)
      BY <1>2, <1>5, <1>6, <2>1, PostGrows
    <3> QED BY <1>2, <1>3, <1>4, <3>1, GrowsTwice
  <2>2. CASE f # 1
    BY <1>2, <1>4, <1>6, <2>2
  <2> QED BY <2>1, <2>2
<1> DEFINE n == k + l
<1>8. n \in Nat /\ rcvevent' = rcvevent + n
  BY <1>1, <1>2, <1>6 DEF ReceiveTypes
<1>9. Grown(mbox, mbox', n)
  BY <1>7
<1> HIDE DEF n
<1>10. /\ pcb = 1 /\ pcb' = 1 /\ pc' = pc /\ lastdata' = lastdata /\ off' = off
       /\ lastoffset' = lastoffset
       /\ last_err' = last_err \/ last_err' = SafeErr("ok")
  BY DEF tcp_input, sock
<1>11. pc # "closed"
  BY <1>1, <1>10 DEF ReaderHolds
<1>12. MboxOK(mbox') /\ mbox'.open = mbox.open
  BY <1>9 DEF Grown
<1>13. last_err' \in {"ok", "timeout", "clsd", "rst"} /\ (Fatal(last_err') <=> Fatal(last_err))
  <2>1. "ok" \in {"ok", "timeout", "clsd", "rst"} /\ ~Fatal("ok")
    BY DEF Fatal
  <2>2. last_err \in {"ok", "timeout", "clsd", "rst"}
    BY <1>1 DEF ReceiveTypes
  <2> QED BY <1>10, <2>1, <2>2, ErrorsStay, Zenon
<1>14. ReceiveTypes'
  <2>1. /\ wasFull' \in 0 .. 1 /\ fin' \in 0 .. 1 /\ arrived' \in Message
        /\ rcv_wnd' \in 0 .. TCP_WND /\ free' \in Nat
    <3>1. /\ wasFull \in 0 .. 1 /\ rcv_wnd \in 0 .. TCP_WND /\ free \in Nat
          /\ SegLen \in Nat /\ TCP_WND \in Nat
      BY <1>1, NetconnAssumption DEF ReceiveTypes
    <3>2. /\ wasFull' = 1 \/ wasFull' = wasFull
          /\ fin' = f /\ arrived' = m /\ rcv_wnd >= SegLen /\ free > 0
          /\ rcv_wnd' = rcv_wnd - SegLen \/ rcv_wnd' = rcv_wnd
          /\ free' = free - 1 \/ free' = free
      BY DEF tcp_input, m
    <3> QED BY <1>2, <3>1, <3>2
  <2>2. UNCHANGED <<queues, conns, lostPbufs, lostBoxes>>
    BY DEF tcp_input
  <2>3. rcvevent' \in Int
    BY <1>1, <1>8 DEF ReceiveTypes
  <2> QED BY <1>1, <1>10, <1>12, <1>13, <2>1, <2>2, <2>3 DEF ReceiveTypes, MboxOK
<1>15. ReaderHolds'
  <2>1. /\ mbox.wait = 0 => mbox'.wait = 0 /\ mbox'.hand = mbox.hand
        /\ mbox.wait = 1 => mbox' = mbox \/ (mbox'.wait = 0 /\ mbox'.hand # <<>>)
        /\ mbox.wait = 0 \/ mbox.wait = 1
    BY <1>1, <1>9, SocketMbox DEF Grown
  <2>2. pc = "wait" => (mbox'.wait = 1 <=> mbox'.hand = <<>>)
    BY <1>1, <2>1 DEF ReaderHolds
  <2>3. pc # "wait" => mbox'.wait = 0 /\ mbox'.hand = <<>>
    BY <1>1, <2>1 DEF ReaderHolds
  <2>4. mbox'.wait = 1 => mbox'.q = <<>>
    BY <1>12, Zenon DEF MboxOK
  <2> QED BY <1>1, <1>10, <1>11, <1>12, <2>2, <2>3, <2>4, Zenon DEF ReaderHolds
<1>16. EventsCounted'
  <2>1. ~Fatal(last_err') => rcvevent' = Len(mbox'.q) + Len(mbox'.hand)
    BY <1>1, <1>8, <1>9, <1>11, <1>13, SocketMbox DEF EventsCounted, Grown, ReceiveTypes
  <2>2. rcvevent > 0 => rcvevent' > 0
    BY <1>1, <1>8 DEF ReceiveTypes
  <2>3. mbox'.wait = 1 => mbox.wait = 1
    BY <1>1, <1>9, SocketMbox DEF Grown
  <2>4. pc = "fetch" /\ mbox.q # <<>> => mbox'.q # <<>>
    BY <1>9 DEF Grown
  <2> QED BY <1>1, <1>10, <1>11, <1>13, <2>1, <2>2, <2>3, <2>4 DEF EventsCounted
<1> QED BY <1>14, <1>15, <1>16 DEF ReaderInv

(* A reset.                                                                *)
LEMMA ReaderErrTcp ==
    ASSUME ReaderInv, err_tcp
    PROVE  ReaderInv'
<1>1. ReceiveTypes /\ ReaderHolds /\ EventsCounted
  BY DEF ReaderInv
<1>2. EOF \in Message
  BY NetconnAssumption DEF Message, EOF
<1>3. MboxOK(mbox) /\ mbox.q \in Seq(Message) /\ mbox.wait \in 0 .. 1
  BY <1>1, SocketMbox
<1>4. /\ pcb = 1 /\ pcb' = 0 /\ last_err' = "rst" /\ rcvevent' = rcvevent + 1
      /\ mbox' = recv_tcp(mbox, EOF)
      /\ UNCHANGED <<rcv_wnd, arrived, fin, pc, lastdata, lastoffset, off, queues, conns,
                     lostPbufs, lostBoxes, free>>
      /\ wasFull' = 1 \/ wasFull' = wasFull
  BY DEF err_tcp, sock, shared
<1>5. Grown(mbox, mbox', Counted(mbox)) /\ PostedTo(mbox, EOF, mbox')
  BY <1>2, <1>3, <1>4, PostGrows, Posted
<1>6. MboxOK(mbox') /\ mbox'.open = mbox.open
  BY <1>5 DEF Grown
<1>7. pc # "closed" /\ mbox.open = 1
  BY <1>1, <1>4 DEF ReaderHolds
<1>8. ReceiveTypes'
  <2>1. wasFull' \in 0 .. 1 /\ rcvevent' \in Int /\ pcb' \in 0 .. 1
    BY <1>1, <1>4 DEF ReceiveTypes
  <2> QED BY <1>1, <1>4, <1>6, <2>1 DEF ReceiveTypes, MboxOK
<1>9. ReaderHolds'
  <2>1. /\ mbox.wait = 0 => mbox'.wait = 0 /\ mbox'.hand = mbox.hand
        /\ mbox.wait = 1 => mbox' = mbox \/ (mbox'.wait = 0 /\ mbox'.hand # <<>>)
        /\ mbox.wait = 0 \/ mbox.wait = 1
    BY <1>1, <1>5, SocketMbox DEF Grown
  <2>2. pc = "wait" => (mbox'.wait = 1 <=> mbox'.hand = <<>>)
    BY <1>1, <2>1 DEF ReaderHolds
  <2>3. pc # "wait" => mbox'.wait = 0 /\ mbox'.hand = <<>>
    BY <1>1, <2>1 DEF ReaderHolds
  <2>4. mbox'.wait = 1 => mbox'.q = <<>>
    BY <1>6, Zenon DEF MboxOK
  <2> QED BY <1>1, <1>4, <1>6, <1>7, <2>2, <2>3, <2>4, Zenon DEF ReaderHolds
<1>10. mbox'.wait # 1
  <2>1. CASE mbox.wait = 1
    <3>1. mbox.q = <<>>
      BY <1>1, <2>1 DEF ReaderHolds
    <3>2. sys_mbox_valid(mbox)
      BY <1>7, <3>1, NetconnAssumption DEF sys_mbox_valid
    <3> QED BY <1>5, <3>2 DEF PostedTo
  <2>2. CASE mbox.wait = 0
    BY <1>5, <2>2 DEF Grown
  <2> QED BY <1>3, <2>1, <2>2
<1>11. pc = "fetch" => mbox'.q # <<>>
  <2> SUFFICES ASSUME pc = "fetch" PROVE mbox'.q # <<>>
    OBVIOUS
  <2>1. mbox.wait = 0
    BY <1>1 DEF ReaderHolds
  <2>2. CASE sys_mbox_valid(mbox)
    <3>1. mbox'.q = Append(mbox.q, EOF)
      BY <1>5, <2>1, <2>2 DEF PostedTo
    <3> QED BY <1>2, <1>3, <3>1
  <2>3. CASE ~sys_mbox_valid(mbox)
    <3>1. mbox' = mbox
      BY <1>5, <2>3 DEF PostedTo
    <3>2. mbox.q # <<>>
      BY <1>7, <2>3, NetconnAssumption DEF sys_mbox_valid
    <3> QED BY <3>1, <3>2
  <2> QED BY <2>2, <2>3
<1>12. EventsCounted'
  <2>1. Fatal(last_err')
    BY <1>4 DEF Fatal
  <2>2. rcvevent > 0 => rcvevent' > 0
    BY <1>1, <1>4 DEF ReceiveTypes
  <2> QED BY <1>1, <1>4, <1>10, <1>11, <2>1, <2>2 DEF EventsCounted
<1> QED BY <1>8, <1>9, <1>12 DEF ReaderInv

(* recv is called.                                                         *)
LEMMA ReaderCalls ==
    ASSUME ReaderInv, lwip_recvfrom
    PROVE  ReaderInv'
<1>1. ReceiveTypes'
  BY DEF ReaderInv, lwip_recvfrom, ReceiveTypes, tcp, shared
<1>2. ReaderHolds'
  BY DEF ReaderInv, lwip_recvfrom, ReceiveTypes, ReaderHolds, tcp
<1>3. EventsCounted'
  BY DEF ReaderInv, lwip_recvfrom, ReceiveTypes, ReaderHolds, EventsCounted, tcp
<1> QED BY <1>1, <1>2, <1>3 DEF ReaderInv

(* recv decides what to do next.                                           *)
LEMMA ReaderTop ==
    ASSUME ReaderInv, Top
    PROVE  ReaderInv'
<1>1. pc = "top" /\ pc' \in {"copy", "test", "recved", "idle"}
      /\ (pc' = "copy" => lastdata # EOF) /\ (pc' = "test" => lastdata = EOF)
      /\ (pc' = "idle" => ~(off > 0))
      /\ UNCHANGED <<mbox, last_err, rcvevent, rcv_wnd, pcb, arrived, fin, lastdata,
                     lastoffset, off, free, queues, conns, lostPbufs, lostBoxes, wasFull>>
  BY DEF Top, Fail, tcp, sock, shared
<1>2. ReceiveTypes'
  BY <1>1 DEF ReaderInv, ReceiveTypes
<1>3. ReaderHolds'
  BY <1>1 DEF ReaderInv, ReceiveTypes, ReaderHolds
<1>4. EventsCounted'
  BY <1>1 DEF ReaderInv, ReaderHolds, EventsCounted
<1> QED BY <1>2, <1>3, <1>4 DEF ReaderInv

(* recv looks at the error.                                                *)
LEMMA ReaderTestErr ==
    ASSUME ReaderInv, TestErr
    PROVE  ReaderInv'
<1>1. pc = "test" /\ pc' \in {"fetch", "recved", "idle"}
      /\ (pc' = "fetch" => ~Fatal(last_err))
      /\ (pc' = "idle" => ~(off > 0))
      /\ UNCHANGED <<mbox, last_err, rcvevent, rcv_wnd, pcb, arrived, fin, lastdata,
                     lastoffset, off, free, queues, conns, lostPbufs, lostBoxes, wasFull>>
  BY DEF TestErr, Fail, tcp, sock, shared
<1>2. ReceiveTypes'
  BY <1>1 DEF ReaderInv, ReceiveTypes
<1>3. ReaderHolds'
  BY <1>1 DEF ReaderInv, ReceiveTypes, ReaderHolds
<1>4. pc' = "fetch" /\ off > 0 => mbox.q # <<>>
  <2> SUFFICES ASSUME pc' = "fetch", off > 0 PROVE mbox.q # <<>>
    OBVIOUS
  <2>1. rcvevent = Len(mbox.q) + Len(mbox.hand) /\ rcvevent > 0 /\ mbox.hand = <<>>
    BY <1>1 DEF ReaderInv, ReaderHolds, EventsCounted
  <2> QED BY <2>1
<1>5. EventsCounted'
  BY <1>1, <1>4 DEF ReaderInv, ReaderHolds, EventsCounted
<1> QED BY <1>2, <1>3, <1>5 DEF ReaderInv

(* recv goes to the mailbox: it takes a message or waits.                  *)
LEMMA ReaderFetch ==
    ASSUME ReaderInv, sys_arch_mbox_fetch
    PROVE  ReaderInv'
<1>1. ReceiveTypes /\ ReaderHolds /\ EventsCounted
  BY DEF ReaderInv
<1>2. /\ pc = "fetch" /\ pc' = "wait" /\ lastdata = EOF /\ mbox.wait = 0 /\ mbox.hand = <<>>
      /\ UNCHANGED <<last_err, rcvevent, rcv_wnd, pcb, arrived, fin, lastdata, lastoffset,
                     off, free, queues, conns, lostPbufs, lostBoxes, wasFull>>
  BY <1>1 DEF ReaderHolds, sys_arch_mbox_fetch, tcp, sock, shared
<1>3. /\ mbox \in [open : 0 .. 1, q : Seq(Message), wait : 0 .. 1, hand : Seq(Message)]
      /\ mbox.q \in Seq(Message) /\ Len(mbox.q) <= MboxSize
  BY <1>1 DEF ReceiveTypes
<1>4. CASE mbox.q # <<>>
  <2>1. mbox' = [mbox EXCEPT !.q = Tail(mbox.q), !.hand = <<Head(mbox.q)>>]
    BY <1>4 DEF sys_arch_mbox_fetch
  <2>2. /\ Tail(mbox.q) \in Seq(Message) /\ Len(Tail(mbox.q)) = Len(mbox.q) - 1
        /\ Len(mbox.q) \in Nat
        /\ <<Head(mbox.q)>> \in Seq(Message) /\ Len(<<Head(mbox.q)>>) = 1
        /\ <<Head(mbox.q)>> # <<>>
    BY <1>3, <1>4
  <2>3. /\ mbox' \in [open : 0 .. 1, q : Seq(Message), wait : 0 .. 1, hand : Seq(Message)]
        /\ mbox'.open = mbox.open /\ mbox'.wait = mbox.wait
        /\ mbox'.q = Tail(mbox.q) /\ mbox'.hand = <<Head(mbox.q)>>
    BY <1>3, <2>1, <2>2
  <2>4. Len(mbox'.q) = Len(mbox.q) - 1 /\ Len(mbox'.hand) = 1 /\ mbox'.hand # <<>>
    BY <2>2, <2>3
  <2>5. Len(mbox'.q) <= MboxSize /\ Len(mbox'.hand) <= 1
    BY <1>3, <2>2, <2>4, NetconnAssumption
  <2>6. ReceiveTypes'
    BY <1>1, <1>2, <2>3, <2>5 DEF ReceiveTypes
  <2>7. ReaderHolds'
    BY <1>1, <1>2, <2>3, <2>4 DEF ReaderHolds
  <2>8. ~Fatal(last_err) => rcvevent' = Len(mbox'.q) + Len(mbox'.hand)
    <3> SUFFICES ASSUME ~Fatal(last_err) PROVE rcvevent' = Len(mbox'.q) + Len(mbox'.hand)
      OBVIOUS
    <3>1. rcvevent' = Len(mbox.q) + Len(mbox.hand)
      BY <1>1, <1>2 DEF EventsCounted
    <3>2. Len(mbox.hand) = 0
      BY <1>2
    <3> QED BY <2>2, <2>4, <3>1, <3>2
  <2>9. EventsCounted'
    BY <1>1, <1>2, <2>3, <2>8 DEF EventsCounted
  <2> QED BY <2>6, <2>7, <2>9 DEF ReaderInv
<1>5. CASE mbox.q = <<>>
  <2>1. mbox' = [mbox EXCEPT !.wait = 1]
    BY <1>5 DEF sys_arch_mbox_fetch
  <2>2. /\ mbox' \in [open : 0 .. 1, q : Seq(Message), wait : 0 .. 1, hand : Seq(Message)]
        /\ mbox'.open = mbox.open /\ mbox'.wait = 1
        /\ mbox'.q = mbox.q /\ mbox'.hand = mbox.hand
    BY <1>3, <2>1
  <2>3. ReceiveTypes'
    BY <1>1, <1>2, <2>2 DEF ReceiveTypes
  <2>4. ReaderHolds'
    BY <1>1, <1>2, <1>5, <2>2 DEF ReaderHolds
  <2>5. off = 0 /\ ~Fatal(last_err)
    BY <1>1, <1>2, <1>5 DEF EventsCounted, ReceiveTypes
  <2>6. EventsCounted'
    BY <1>1, <1>2, <2>2, <2>5 DEF EventsCounted
  <2> QED BY <2>3, <2>4, <2>6 DEF ReaderInv
<1> QED BY <1>4, <1>5

(* The wait times out.                                                     *)
LEMMA ReaderTimeout ==
    ASSUME ReaderInv, Timeout
    PROVE  ReaderInv'
<1>1. ReceiveTypes /\ ReaderHolds /\ EventsCounted
  BY DEF ReaderInv
<1>2. /\ pc = "wait" /\ mbox.wait = 1 /\ pc' = "idle" /\ off = 0
      /\ last_err' = SafeErr("timeout") /\ mbox' = [mbox EXCEPT !.wait = 0]
      /\ UNCHANGED <<rcvevent, rcv_wnd, pcb, arrived, fin, lastdata, lastoffset,
                     off, free, queues, conns, lostPbufs, lostBoxes, wasFull>>
  BY <1>1 DEF EventsCounted, Timeout, Fail, tcp, sock, shared
<1>3. /\ mbox \in [open : 0 .. 1, q : Seq(Message), wait : 0 .. 1, hand : Seq(Message)]
      /\ mbox.q \in Seq(Message) /\ Len(mbox.q) <= MboxSize
  BY <1>1 DEF ReceiveTypes
<1>4. /\ mbox' \in [open : 0 .. 1, q : Seq(Message), wait : 0 .. 1, hand : Seq(Message)]
      /\ mbox'.open = mbox.open /\ mbox'.wait = 0
      /\ mbox'.q = mbox.q /\ mbox'.hand = mbox.hand
  BY <1>2, <1>3
<1>5. last_err' \in {"ok", "timeout", "clsd", "rst"} /\ (Fatal(last_err') <=> Fatal(last_err))
  <2>1. "timeout" \in {"ok", "timeout", "clsd", "rst"} /\ ~Fatal("timeout")
    BY DEF Fatal
  <2>2. last_err \in {"ok", "timeout", "clsd", "rst"}
    BY <1>1 DEF ReceiveTypes
  <2> QED BY <1>2, <2>1, <2>2, ErrorsStay, Zenon
<1>6. ReceiveTypes'
  BY <1>1, <1>2, <1>4, <1>5 DEF ReceiveTypes
<1>7. ReaderHolds'
  BY <1>1, <1>2, <1>4 DEF ReaderHolds
<1>8. EventsCounted'
  BY <1>1, <1>2, <1>4, <1>5 DEF EventsCounted
<1> QED BY <1>6, <1>7, <1>8 DEF ReaderInv

(* What do_recv does to the window stays within it.                        *)
LEMMA WindowGrows ==
    ASSUME ReceiveTypes, NEW n \in Nat, do_recv(n)
    PROVE  rcv_wnd' \in 0 .. TCP_WND
<1>1. rcv_wnd \in 0 .. TCP_WND /\ TCP_WND \in Nat
  BY NetconnAssumption DEF ReceiveTypes
<1>2. CASE pcb = 1 /\ rcv_wnd + n < TCP_WND
  <2>1. rcv_wnd' = rcv_wnd + n
    BY <1>2 DEF do_recv, Min
  <2> QED BY <1>1, <1>2, <2>1
<1>3. CASE pcb = 1 /\ ~(rcv_wnd + n < TCP_WND)
  <2>1. rcv_wnd' = TCP_WND
    BY <1>3 DEF do_recv, Min
  <2> QED BY <1>1, <2>1
<1>4. CASE pcb # 1
  BY <1>1, <1>4 DEF do_recv
<1> QED BY <1>2, <1>3, <1>4

(* A message is taken: data to copy, or an end of file.                    *)
LEMMA ReaderFetched ==
    ASSUME ReaderInv, Fetched
    PROVE  ReaderInv'
<1>1. ReceiveTypes /\ ReaderHolds /\ EventsCounted
  BY DEF ReaderInv
<1>2. /\ pc = "wait" /\ mbox.hand # <<>> /\ mbox' = [mbox EXCEPT !.hand = <<>>]
      /\ rcvevent' = rcvevent - 1 /\ mbox.wait = 0 /\ lastdata = EOF
      /\ UNCHANGED <<pcb, arrived, fin, off, lastoffset, wasFull, free, queues, conns,
                     lostPbufs, lostBoxes>>
  BY <1>1 DEF Fetched, shared, ReaderHolds, ReceiveTypes
<1>3. /\ mbox \in [open : 0 .. 1, q : Seq(Message), wait : 0 .. 1, hand : Seq(Message)]
      /\ mbox.q \in Seq(Message) /\ mbox.hand \in Seq(Message) /\ Len(mbox.hand) <= 1
      /\ rcvevent \in Int
  BY <1>1 DEF ReceiveTypes
<1>4. /\ mbox' \in [open : 0 .. 1, q : Seq(Message), wait : 0 .. 1, hand : Seq(Message)]
      /\ mbox'.open = mbox.open /\ mbox'.wait = mbox.wait
      /\ mbox'.q = mbox.q /\ mbox'.hand = <<>> /\ Len(mbox'.hand) = 0
  <2>1. <<>> \in Seq(Message) /\ Len(<<>>) = 0
    OBVIOUS
  <2> QED BY <1>2, <1>3, <2>1
<1>5. ~Fatal(last_err) => rcvevent' = Len(mbox'.q) + Len(mbox'.hand)
  <2>1. Len(mbox.hand) = 1
    BY <1>2, <1>3, AtMostOne
  <2>2. ~Fatal(last_err) => rcvevent = Len(mbox.q) + 1
    BY <1>1, <1>2, <2>1 DEF EventsCounted
  <2>3. Len(mbox.q) \in Nat /\ Len(mbox'.q) = Len(mbox.q)
    BY <1>3, <1>4
  <2> QED BY <1>2, <1>3, <1>4, <2>2, <2>3
<1>6. CASE Head(mbox.hand) = EOF
  <2>1. /\ do_recv(1) /\ last_err' = SafeErr("clsd") /\ lastdata' = lastdata
        /\ pc' \in {"idle", "recved"} /\ (pc' = "idle" => ~(off > 0))
    BY <1>6 DEF Fetched, Fail
  <2>2. rcv_wnd' \in 0 .. TCP_WND
    BY <1>1, <2>1, WindowGrows
  <2>3. last_err' \in {"ok", "timeout", "clsd", "rst"} /\ Fatal(last_err')
    <3>1. "clsd" \in {"ok", "timeout", "clsd", "rst"} /\ Fatal("clsd")
      BY DEF Fatal
    <3>2. last_err \in {"ok", "timeout", "clsd", "rst"}
      BY <1>1 DEF ReceiveTypes
    <3> QED BY <2>1, <3>1, <3>2, ErrorsStay, Zenon
  <2>4. ReceiveTypes'
    BY <1>1, <1>2, <1>4, <2>1, <2>2, <2>3 DEF ReceiveTypes
  <2>5. ReaderHolds'
    BY <1>1, <1>2, <1>4, <2>1 DEF ReaderHolds, ReceiveTypes
  <2>6. EventsCounted'
    BY <1>1, <1>2, <1>4, <2>1, <2>3 DEF EventsCounted
  <2> QED BY <2>4, <2>5, <2>6 DEF ReaderInv
<1>7. CASE Head(mbox.hand) # EOF
  <2>1. /\ lastdata' = Head(mbox.hand) /\ pc' = "copy"
        /\ UNCHANGED <<rcv_wnd, last_err>>
    BY <1>7 DEF Fetched
  <2>2. lastdata' \in Message /\ lastdata' # EOF
    BY <1>2, <1>3, <1>7, <2>1
  <2>3. ReceiveTypes'
    BY <1>1, <1>2, <1>4, <2>1, <2>2 DEF ReceiveTypes
  <2>4. ReaderHolds'
    BY <1>1, <1>2, <1>4, <2>1, <2>2 DEF ReaderHolds, ReceiveTypes
  <2>5. EventsCounted'
    BY <1>1, <1>2, <1>4, <1>5, <2>1 DEF EventsCounted
  <2> QED BY <2>3, <2>4, <2>5 DEF ReaderInv
<1> QED BY <1>6, <1>7

(* recv copies.                                                            *)
LEMMA ReaderCopies ==
    ASSUME ReaderInv, CopyAll \/ CopyPart
    PROVE  ReaderInv'
<1>1. ReceiveTypes /\ ReaderHolds /\ EventsCounted
  BY DEF ReaderInv
<1>2. /\ off \in Nat /\ lastoffset \in 0 .. SegLen - 1 /\ SegLen \in Nat /\ EOF \in Message
      /\ lastdata \in Message /\ free \in Nat
  BY <1>1, NetconnAssumption DEF ReceiveTypes, Message, EOF
<1>3. CASE CopyAll
  <2>1. /\ pc = "copy" /\ off' = off + SegLen - lastoffset /\ lastdata' = EOF
        /\ lastoffset' = 0 /\ free' = free + 1
        /\ pc' \in {"top", "recved"} /\ (pc' = "top" => rcvevent > 0)
        /\ UNCHANGED <<mbox, last_err, rcvevent, rcv_wnd, pcb, arrived, fin, queues, conns,
                       lostPbufs, lostBoxes, wasFull>>
    BY <1>3 DEF CopyAll, tcp
  <2>2. off' \in Nat /\ free' \in Nat /\ lastoffset' \in 0 .. SegLen - 1
    BY <1>2, <2>1, NetconnAssumption
  <2>3. ReceiveTypes'
    BY <1>1, <1>2, <2>1, <2>2 DEF ReceiveTypes
  <2>4. ReaderHolds'
    BY <1>1, <2>1 DEF ReaderHolds
  <2>5. EventsCounted'
    <3>1. pc # "wait" /\ pc # "closed" /\ pc' # "closed" /\ pc' # "fetch" /\ pc' # "test"
      BY <2>1
    <3>2. mbox'.wait # 1
      BY <1>1, <2>1, <3>1 DEF ReaderHolds
    <3> QED BY <1>1, <2>1, <3>1, <3>2, Zenon DEF EventsCounted
  <2> QED BY <2>3, <2>4, <2>5 DEF ReaderInv
<1>4. CASE CopyPart
  <2>1. PICK n \in 1 .. SegLen - lastoffset - 1 :
          off' = off + n /\ lastoffset' = lastoffset + n
    BY <1>4 DEF CopyPart
  <2>2. /\ pc = "copy" /\ pc' = "recved"
        /\ UNCHANGED <<mbox, last_err, rcvevent, rcv_wnd, pcb, arrived, fin, lastdata, free,
                       queues, conns, lostPbufs, lostBoxes, wasFull>>
    BY <1>4 DEF CopyPart, tcp, shared
  <2>3. off' \in Nat /\ lastoffset' \in 0 .. SegLen - 1
    BY <1>2, <2>1
  <2>4. ReceiveTypes'
    BY <1>1, <2>2, <2>3 DEF ReceiveTypes
  <2>5. ReaderHolds'
    BY <1>1, <2>2 DEF ReaderHolds
  <2>6. EventsCounted'
    <3>1. pc # "wait" /\ pc # "closed" /\ pc' # "closed" /\ pc' # "fetch" /\ pc' # "test"
      BY <2>2
    <3>2. mbox'.wait # 1
      BY <1>1, <2>2, <3>1 DEF ReaderHolds
    <3> QED BY <1>1, <2>2, <3>1, <3>2, Zenon DEF EventsCounted
  <2> QED BY <2>4, <2>5, <2>6 DEF ReaderInv
<1> QED BY <1>3, <1>4

(* recv reports what it copied and returns.                                *)
LEMMA ReaderRecved ==
    ASSUME ReaderInv, netconn_recved
    PROVE  ReaderInv'
<1>1. ReceiveTypes /\ ReaderHolds /\ EventsCounted
  BY DEF ReaderInv
<1>2. /\ pc = "recved" /\ pc' = "idle" /\ off' = 0 /\ do_recv(off)
      /\ UNCHANGED <<mbox, last_err, rcvevent, pcb, arrived, fin, lastdata, lastoffset, free,
                     queues, conns, lostPbufs, lostBoxes, wasFull>>
  BY DEF netconn_recved, shared
<1>3. off \in Nat
  BY <1>1 DEF ReceiveTypes
<1>4. rcv_wnd' \in 0 .. TCP_WND
  BY <1>1, <1>2, <1>3, WindowGrows
<1>5. ReceiveTypes'
  BY <1>1, <1>2, <1>4 DEF ReceiveTypes
<1>6. ReaderHolds'
  BY <1>1, <1>2 DEF ReaderHolds
<1>7. EventsCounted'
  BY <1>1, <1>2 DEF ReaderHolds, EventsCounted
<1> QED BY <1>5, <1>6, <1>7 DEF ReaderInv

(* Pbufs counts.                                                           *)
LEMMA PbufsCount ==
    ASSUME NEW s \in Seq(Message)
    PROVE  Pbufs(s) \in Nat /\ Pbufs(s) <= Len(s)
<1> DEFINE I == {i \in DOMAIN s : s[i] # EOF}
<1>1. Len(s) \in Nat /\ DOMAIN s = 1 .. Len(s)
  OBVIOUS
<1>2. IsFiniteSet(1 .. Len(s)) /\ Cardinality(1 .. Len(s)) = Len(s)
  <2> DEFINE n == Len(s)
  <2>1. n \in Nat  BY <1>1
  <2> HIDE DEF n
  <2>2. IsFiniteSet(1 .. n) /\ Cardinality(1 .. n) = n
    BY <2>1, FS_Interval
  <2> QED BY <2>2 DEF n
<1>3. I \subseteq 1 .. Len(s)
  BY <1>1
<1> HIDE DEF I
<1>4. IsFiniteSet(I) /\ Cardinality(I) <= Len(s)
  BY <1>2, <1>3, FS_Subset
<1>5. Cardinality(I) \in Nat
  BY <1>4, FS_CardinalityType
<1> QED BY <1>4, <1>5 DEF Pbufs, I

(* If the pbufs of s are its first k messages, it has k.                   *)
LEMMA PbufsFirst ==
    ASSUME NEW s \in Seq(Message), NEW k \in Nat, k <= Len(s),
           \A i \in 1 .. Len(s) : s[i] # EOF <=> i <= k
    PROVE  Pbufs(s) = k
<1> DEFINE I == {i \in DOMAIN s : s[i] # EOF}
<1>1. Len(s) \in Nat /\ DOMAIN s = 1 .. Len(s)
  OBVIOUS
<1>2. I = 1 .. k
  BY <1>1
<1>3. Cardinality(1 .. k) = k
  BY FS_Interval
<1> QED BY <1>2, <1>3 DEF Pbufs

(* The socket is closed.                                                   *)
LEMMA ReaderClose ==
    ASSUME ReaderInv, lwip_close
    PROVE  ReaderInv'
<1>1. ReceiveTypes /\ ReaderHolds /\ EventsCounted
  BY DEF ReaderInv
<1> DEFINE n == Pbufs(mbox.q)
           rest == IF lastdata = EOF THEN 0 ELSE 1
<1>2. n \in Nat /\ rest \in Nat
  BY <1>1, SocketMbox, PbufsCount
<1>3. /\ pc = "idle" /\ pc' = "closed" /\ lastdata' = EOF /\ lastoffset' = 0 /\ pcb' = 0
      /\ mbox' = [NewMbox EXCEPT !.open = 0]
      /\ UNCHANGED <<last_err, rcvevent, rcv_wnd, arrived, fin, conns, off, wasFull>>
  BY DEF lwip_close, do_delconn
<1>4. /\ free' = free + rest + n \/ free' = free + rest
      /\ queues' = queues + 1 \/ queues' = queues
      /\ lostPbufs' = lostPbufs \/ lostPbufs' = lostPbufs + n
      /\ lostBoxes' = lostBoxes \/ lostBoxes' = lostBoxes + 1
  BY DEF lwip_close, do_delconn, netconn_drain
<1> HIDE DEF n, rest
<1>5. /\ mbox' \in [open : 0 .. 1, q : Seq(Message), wait : 0 .. 1, hand : Seq(Message)]
      /\ mbox'.open = 0 /\ mbox'.wait = 0 /\ mbox'.q = <<>> /\ mbox'.hand = <<>>
      /\ Len(mbox'.q) = 0 /\ Len(mbox'.hand) = 0
  <2>1. mbox' = [open |-> 0, q |-> <<>>, wait |-> 0, hand |-> <<>>]
    BY <1>3 DEF NewMbox
  <2> QED BY <2>1
<1>6. free' \in Nat /\ queues' \in Nat /\ lostPbufs' \in Nat /\ lostBoxes' \in Nat
  <2>1. free \in Nat /\ queues \in Nat /\ lostPbufs \in Nat /\ lostBoxes \in Nat
    BY <1>1 DEF ReceiveTypes
  <2> QED BY <1>2, <1>4, <2>1
<1>7. ReceiveTypes'
  <2>1. EOF \in Message /\ 0 \in 0 .. SegLen - 1 /\ 0 <= MboxSize
    BY NetconnAssumption DEF Message, EOF
  <2> QED BY <1>1, <1>3, <1>5, <1>6, <2>1 DEF ReceiveTypes
<1>8. ReaderHolds'
  BY <1>1, <1>3, <1>5 DEF ReaderHolds
<1>9. EventsCounted'
  BY <1>1, <1>3, <1>5 DEF EventsCounted
<1> QED BY <1>7, <1>8, <1>9 DEF ReaderInv

(* A new connection.                                                       *)
LEMMA ReaderConnect ==
    ASSUME ReaderInv, lwip_connect
    PROVE  ReaderInv'
<1>1. ReceiveTypes /\ ReaderHolds /\ EventsCounted
  BY DEF ReaderInv
<1>2. /\ pc = "closed" /\ pc' = "idle" /\ lastdata = EOF /\ off = 0 /\ lastoffset = 0
      /\ queues' = queues - 1 /\ queues > 0 /\ conns' = conns + 1
      /\ mbox' = [open |-> 1, q |-> <<>>, wait |-> 0, hand |-> <<>>]
      /\ last_err' = "ok" /\ pcb' = 1 /\ rcvevent' = 0 /\ rcv_wnd' = TCP_WND
      /\ arrived' = 0 /\ fin' = 0 /\ wasFull' = 0
      /\ UNCHANGED <<off, lastdata, lastoffset, free, lostPbufs, lostBoxes>>
  BY <1>1 DEF lwip_connect, NewMbox, ReaderHolds
<1>3. /\ mbox' \in [open : 0 .. 1, q : Seq(Message), wait : 0 .. 1, hand : Seq(Message)]
      /\ mbox'.open = 1 /\ mbox'.wait = 0 /\ mbox'.q = <<>> /\ mbox'.hand = <<>>
      /\ Len(mbox'.q) = 0 /\ Len(mbox'.hand) = 0
  BY <1>2
<1>4. ReceiveTypes'
  <2>1. /\ queues' \in Nat /\ conns' \in Nat /\ arrived' \in Message
        /\ rcv_wnd' \in 0 .. TCP_WND /\ 0 <= MboxSize
    BY <1>1, <1>2, NetconnAssumption DEF ReceiveTypes, Message
  <2> QED BY <1>1, <1>2, <1>3, <2>1 DEF ReceiveTypes
<1>5. ReaderHolds'
  BY <1>2, <1>3 DEF ReaderHolds
<1>6. EventsCounted'
  BY <1>2, <1>3 DEF EventsCounted, Fatal
<1> QED BY <1>4, <1>5, <1>6 DEF ReaderInv

(* Every step keeps the reader's invariant.                                *)
LEMMA ReaderStep == ReaderInv /\ [Next]_vars => ReaderInv'
<1> SUFFICES ASSUME ReaderInv, [Next]_vars PROVE ReaderInv'  OBVIOUS
<1>1. ASSUME NEW f \in 0 .. 1, tcp_input(f) PROVE ReaderInv'
  BY <1>1, ReaderTcpInput
<1>2. ASSUME Reading PROVE ReaderInv'
  BY <1>2, ReaderCalls, ReaderTop, ReaderTestErr, ReaderFetch, ReaderFetched, ReaderCopies,
     ReaderRecved DEF Reading
<1>3. ASSUME UNCHANGED vars PROVE ReaderInv'
  BY <1>3 DEF vars, tcp, sock, shared, ReaderInv, ReceiveTypes, ReaderHolds, EventsCounted
<1> QED
  BY <1>1, <1>2, <1>3, ReaderErrTcp, ReaderTimeout, ReaderClose, ReaderConnect DEF Next

(* The invariant is more than the property.                                *)
LEMMA ReaderIsExact == ReaderInv => NeverWaitsInVain
<1> SUFFICES ASSUME ReaderInv PROVE NeverWaitsInVain  OBVIOUS
<1>1. ReceiveTypes /\ ReaderHolds /\ EventsCounted
  BY DEF ReaderInv
<1>2. NeverBlocksWithData
  BY <1>1 DEF EventsCounted, NeverBlocksWithData
<1>3. NeverWaitsOnDeadConn
  <2> SUFFICES ASSUME mbox.wait = 1 PROVE pcb = 1 /\ ~Fatal(last_err)
    BY DEF NeverWaitsOnDeadConn
  <2>1. pc = "wait" /\ ~Fatal(last_err) /\ pcb \in 0 .. 1
    BY <1>1 DEF ReceiveTypes, ReaderHolds, EventsCounted
  <2> QED BY <1>1, <2>1 DEF EventsCounted
<1> QED BY <1>2, <1>3 DEF NeverWaitsInVain

(* recv never blocks while it holds bytes for its caller, and never on a   *)
(* connection that a reset or a close of the peer has ended, whenever the  *)
(* reset comes: netconn_recv_data's two tests, rcvevent and the null       *)
(* message of err_tcp together suffice, for every size of the mailbox.     *)
THEOREM NeverWaits == Spec => []NeverWaitsInVain
<1>1. Spec => []ReaderInv
  BY InitReader, ReaderStep, PTL DEF Spec
<1> QED BY <1>1, ReaderIsExact, PTL

-----------------------------------------------------------------------------
(* Messages taken.                                                         *)
LEMMA TakenCount ==
    ASSUME NEW mb, NEW d, mb.hand \in Seq(Message), Len(mb.hand) <= 1
    PROVE  /\ Taken(mb, d) \in Nat
           /\ mb.hand # <<>> => Taken(mb, d) >= 1
           /\ mb.hand = <<>> => Taken(mb, d) = IF d = EOF THEN 0 ELSE 1
<1> DEFINE h == Len(mb.hand)
<1>1. /\ h \in Nat
      /\ mb.hand # <<>> => h = 1
      /\ mb.hand = <<>> => h = 0
  BY AtMostOne
<1> HIDE DEF h
<1>2. Taken(mb, d) = (IF d = EOF THEN 0 ELSE 1) + h
  BY DEF Taken, h
<1> QED BY <1>1, <1>2

(* A segment is put after those waiting.                                   *)
LEMMA OrderedData ==
    ASSUME NEW mb, NEW mb2, NEW d \in Message, NEW n \in Nat, NEW p \in Nat, n + 1 \in Message,
           MboxOK(mb), Ordered(mb, d, n, p), mb.wait = 1 => d = EOF,
           p = Taken(mb, d) + Len(mb.q), sys_mbox_valid(mb), PostedTo(mb, n + 1, mb2)
    PROVE  /\ Ordered(mb2, d, n + 1, p + 1)
           /\ p + 1 = Taken(mb2, d) + Len(mb2.q)
<1>1. /\ mb.q \in Seq(Message) /\ mb.hand \in Seq(Message) /\ mb.wait \in 0 .. 1
      /\ Len(mb.hand) <= 1 /\ Len(mb.q) \in Nat /\ Len(mb.hand) \in Nat
      /\ mb.wait = 1 => mb.q = <<>> /\ mb.hand = <<>>
  <2>1. /\ mb.q \in Seq(Message) /\ mb.hand \in Seq(Message) /\ mb.wait \in 0 .. 1
        /\ Len(mb.hand) <= 1
        /\ mb.wait = 1 => mb.q = <<>> /\ mb.hand = <<>>
    BY DEF MboxOK
  <2> QED BY <2>1
<1>2. CASE mb.wait = 1
  <2>1. mb2.q = <<>> /\ mb2.hand = <<n + 1>> /\ d = EOF
    BY <1>1, <1>2 DEF PostedTo
  <2>2. /\ mb2.hand[1] = n + 1 /\ Len(mb2.hand) = 1 /\ Len(mb2.q) = 0
        /\ Taken(mb, d) = 0 /\ Len(mb.q) = 0
    BY <1>1, <1>2, <2>1 DEF Taken
  <2>3. p = 0 /\ Taken(mb2, d) = 1
    BY <2>1, <2>2 DEF Taken
  <2> QED BY <2>1, <2>2, <2>3 DEF Ordered
<1>3. CASE mb.wait = 0
  <2>1. mb2.q = Append(mb.q, n + 1) /\ mb2.hand = mb.hand
    BY <1>3 DEF PostedTo
  <2>2. /\ Len(mb2.q) = Len(mb.q) + 1 /\ mb2.q[Len(mb.q) + 1] = n + 1
        /\ \A i \in 1 .. Len(mb.q) : mb2.q[i] = mb.q[i]
    BY <1>1, <2>1
  <2> DEFINE T == Taken(mb, d)
             l == Len(mb.q)
  <2>3. T \in Nat /\ Taken(mb2, d) = T /\ l \in Nat
    <3>1. Taken(mb2, d) = T
      BY <2>1 DEF Taken
    <3> QED BY <1>1, <3>1, TakenCount
  <2>4. p = T + l /\ Len(mb2.q) = l + 1 /\ mb2.q[l + 1] = n + 1
    BY <2>2
  <2>5. p \in 0 .. n /\ (d # EOF => p >= 1 /\ d = n - p + 1)
        /\ (mb.hand # <<>> => mb.hand[1] = IF p >= 1 THEN n - p + 1 ELSE EOF)
    BY DEF Ordered
  <2>6. ASSUME NEW i \in 1 .. l PROVE mb2.q[i] = n - p + T + i /\ T + i <= p
    <3>1. mb2.q[i] = mb.q[i] /\ mb.q[i] = IF T + i <= p THEN n - p + T + i ELSE EOF
      BY <2>2 DEF Ordered
    <3> HIDE DEF T, l
    <3> QED BY <2>3, <2>4, <3>1
  <2>7. mb.hand # <<>> => p >= 1
    <3>2. mb.hand # <<>> => T >= 1
      BY <1>1, TakenCount
    <3> HIDE DEF T, l
    <3> QED BY <2>3, <2>4, <3>2
  <2> HIDE DEF T, l
  <2>8. ASSUME NEW i \in 1 .. l + 1
        PROVE  mb2.q[i] = IF T + i <= p + 1 THEN (n + 1) - (p + 1) + T + i ELSE EOF
    <3>1. CASE i \in 1 .. l
      <4>1. mb2.q[i] = n - p + T + i /\ T + i <= p
        BY <2>6, <3>1
      <4> QED BY <2>3, <3>1, <4>1
    <3>2. CASE i = l + 1
      <4>1. mb2.q[i] = n + 1 /\ T + i = p + 1
        BY <2>3, <2>4, <3>2
      <4>2. (n + 1) - (p + 1) + T + i = n + 1
        BY <2>3, <3>2, <4>1
      <4> QED BY <4>1, <4>2
    <3> QED BY <2>3, <3>1, <3>2
  <2>9. p + 1 = Taken(mb2, d) + Len(mb2.q)
    BY <2>3, <2>4
  <2>10. /\ p + 1 \in 0 .. n + 1
         /\ d # EOF => p + 1 >= 1 /\ d = (n + 1) - (p + 1) + 1
         /\ mb2.hand # <<>> => mb2.hand[1] = IF p + 1 >= 1 THEN (n + 1) - (p + 1) + 1 ELSE EOF
    <3>1. (n + 1) - (p + 1) + 1 = n - p + 1 /\ p + 1 >= 1 /\ p + 1 \in 0 .. n + 1
      BY <2>5
    <3> QED BY <2>1, <2>5, <2>7, <3>1
  <2>11. p + 1 <= Taken(mb2, d) + Len(mb2.q)
    BY <2>9
  <2>12. 1 .. Len(mb2.q) = 1 .. l + 1
    BY <2>4
  <2>13. \A i \in 1 .. Len(mb2.q) :
            mb2.q[i] = IF Taken(mb2, d) + i <= p + 1
                       THEN (n + 1) - (p + 1) + Taken(mb2, d) + i ELSE EOF
    BY <2>3, <2>8, <2>12
  <2>14. Ordered(mb2, d, n + 1, p + 1)
    BY <2>10, <2>11, <2>13, Zenon DEF Ordered
  <2> QED BY <2>9, <2>14
<1> QED BY <1>1, <1>2, <1>3

(* An end of file is put after the segments waiting, or lost.              *)
LEMMA OrderedEof ==
    ASSUME NEW mb, NEW mb2, NEW d \in Message, NEW n \in Nat, NEW p \in Nat,
           MboxOK(mb), Ordered(mb, d, n, p), mb.wait = 1 => d = EOF,
           PostedTo(mb, EOF, mb2)
    PROVE  Ordered(mb2, d, n, p)
<1>1. /\ mb.q \in Seq(Message) /\ mb.hand \in Seq(Message) /\ mb.wait \in 0 .. 1
      /\ Len(mb.q) \in Nat /\ Len(mb.hand) \in Nat
      /\ mb.wait = 1 => mb.q = <<>> /\ mb.hand = <<>>
  <2>1. /\ mb.q \in Seq(Message) /\ mb.hand \in Seq(Message) /\ mb.wait \in 0 .. 1
        /\ mb.wait = 1 => mb.q = <<>> /\ mb.hand = <<>>
    BY DEF MboxOK
  <2> QED BY <2>1
<1>2. CASE sys_mbox_valid(mb) /\ mb.wait = 1
  <2>1. mb2.q = <<>> /\ mb2.hand = <<EOF>> /\ d = EOF
    BY <1>1, <1>2 DEF PostedTo
  <2>2. /\ mb2.hand[1] = EOF /\ Len(mb2.hand) = 1 /\ Len(mb2.q) = 0
        /\ Taken(mb, d) = 0 /\ Len(mb.q) = 0
    BY <1>1, <1>2, <2>1 DEF Taken
  <2>3. p = 0 /\ Taken(mb2, d) = 1
    BY <2>1, <2>2 DEF Taken, Ordered
  <2> QED BY <2>1, <2>2, <2>3 DEF Ordered
<1>3. CASE sys_mbox_valid(mb) /\ mb.wait = 0
  <2>1. mb2.q = Append(mb.q, EOF) /\ mb2.hand = mb.hand
    BY <1>3 DEF PostedTo
  <2> DEFINE T == Taken(mb, d)
             l == Len(mb.q)
  <2>2. EOF \in Message
    BY NetconnAssumption DEF Message, EOF
  <2>3. /\ Len(mb2.q) = l + 1 /\ mb2.q[l + 1] = EOF
        /\ \A i \in 1 .. l : mb2.q[i] = mb.q[i]
    BY <1>1, <2>1, <2>2
  <2>4. T \in Nat /\ Taken(mb2, d) = T /\ l \in Nat
    <3>1. Taken(mb2, d) = T
      BY <2>1 DEF Taken
    <3>2. Len(mb.hand) <= 1
      BY DEF MboxOK
    <3> QED BY <1>1, <3>1, <3>2, TakenCount
  <2>5. p <= T + l /\ \A i \in 1 .. l : mb.q[i] = IF T + i <= p THEN n - p + T + i ELSE EOF
    BY DEF Ordered
  <2> HIDE DEF T, l
  <2>6. ASSUME NEW i \in 1 .. l + 1
        PROVE  mb2.q[i] = IF T + i <= p THEN n - p + T + i ELSE EOF
    <3>1. CASE i \in 1 .. l
      BY <2>3, <2>5, <3>1
    <3>2. CASE i = l + 1
      BY <2>3, <2>4, <2>5, <3>2
    <3> QED BY <2>4, <3>1, <3>2
  <2>7. p <= Taken(mb2, d) + Len(mb2.q)
    BY <2>3, <2>4, <2>5
  <2>8. /\ p \in 0 .. n /\ (d # EOF => p >= 1 /\ d = n - p + 1)
        /\ mb2.hand # <<>> => mb2.hand[1] = IF p >= 1 THEN n - p + 1 ELSE EOF
    BY <2>1 DEF Ordered
  <2> QED BY <2>3, <2>4, <2>6, <2>7, <2>8 DEF Ordered
<1>4. CASE ~sys_mbox_valid(mb)
  BY <1>4 DEF PostedTo
<1> QED BY <1>1, <1>2, <1>3, <1>4

(* A step that leaves the messages and the bytes where they are.           *)
LEMMA OrderKept ==
    ASSUME NEW p \in Nat, InOrder(p), pc # "closed",
           UNCHANGED <<lastdata, arrived, got, lastoffset, fin>>,
           mbox'.q = mbox.q, mbox'.hand = mbox.hand, pcb' = 1 => pcb = 1
    PROVE  InOrder(p)'
<1>1. Taken(mbox', lastdata') = Taken(mbox, lastdata)
  BY DEF Taken
<1>2. Ordered(mbox', lastdata', arrived', p)
  BY <1>1, Zenon DEF InOrder, Ordered
<1> QED BY <1>1, <1>2, Zenon DEF InOrder

(* A step that leaves window and buffers alone.                            *)
LEMMA BalanceKept ==
    ASSUME NEW p \in Nat, Balanced(p),
           UNCHANGED <<fin, rcv_wnd, off, lastoffset, free, lostPbufs, lostBoxes, queues>>,
           mbox'.open = mbox.open, pcb' = 1 => pcb = 1
    PROVE  Balanced(p)'
BY Zenon DEF Balanced

(* One segment more or less in the window.                                 *)
LEMMA OneSegment ==
    ASSUME NEW p \in Nat
    PROVE  /\ SegLen * p \in Nat
           /\ SegLen * (p + 1) = SegLen * p + SegLen
           /\ p >= 1 => SegLen * p >= SegLen
           /\ p * SegLen = SegLen * p
BY NetconnAssumption

(* Pbufs for all that can be queued: the mailbox is never found full.      *)
PoolFits == PoolSize <= MboxSize

(* A segment arrives: there is room for it.                                *)
LEMMA StreamTcpInput ==
    ASSUME PoolFits, ReaderInv, NEW p \in Nat, Stream(p), NEW f \in 0 .. 1, tcp_input(f)
    PROVE  Stream(p + 1)'
<1>1. /\ ReceiveTypes /\ ReaderHolds /\ EventsCounted /\ InOrder(p) /\ Balanced(p)
  BY DEF ReaderInv, Stream
<1> DEFINE m == arrived + 1
           mb == recv_tcp(mbox, m)
           T == Taken(mbox, lastdata)
           l == Len(mbox.q)
<1>2. /\ m \in Message /\ arrived \in Nat /\ EOF \in Message /\ lastdata \in Message
      /\ free \in Nat /\ free > 0 /\ lostPbufs \in Nat
      /\ pcb = 1 /\ fin = 0 /\ pc # "closed"
  BY <1>1, NetconnAssumption DEF tcp_input, ReceiveTypes, ReaderHolds, Message, EOF
<1>3. MboxOK(mbox) /\ l \in Nat /\ mbox.open = 1 /\ T \in Nat
  <2>1. mbox.hand \in Seq(Message) /\ Len(mbox.hand) <= 1
    BY <1>1 DEF ReceiveTypes
  <2> QED BY <1>1, <1>2, <2>1, SocketMbox, TakenCount DEF ReaderHolds
<1>4. Ordered(mbox, lastdata, arrived, p) /\ p = T + l
  BY <1>1, <1>2 DEF InOrder
<1> HIDE DEF T, l
<1>5. sys_mbox_valid(mbox)
  <2>1. p < PoolSize
    BY <1>1, <1>2, NetconnAssumption DEF Balanced
  <2>2. l < MboxSize
    BY <1>3, <1>4, <2>1, NetconnAssumption DEF PoolFits
  <2> QED BY <1>3, <2>2 DEF sys_mbox_valid, l
<1>6. mbox.wait = 1 => lastdata = EOF
  BY <1>1 DEF ReaderHolds
<1>7. PostedTo(mbox, m, mb)
  BY <1>2, <1>3, Posted
<1>8. Ordered(mb, lastdata, arrived + 1, p + 1) /\ p + 1 = Taken(mb, lastdata) + Len(mb.q)
  BY <1>2, <1>3, <1>4, <1>5, <1>6, <1>7, OrderedData DEF T, l
<1>9. /\ mbox' = (IF f = 1 THEN recv_tcp(mb, EOF) ELSE mb)
      /\ lastdata' = lastdata /\ arrived' = arrived + 1 /\ fin' = f /\ pcb' = pcb
      /\ lastoffset' = lastoffset /\ got' = got /\ off' = off /\ pc' = pc
      /\ rcv_wnd' = rcv_wnd - SegLen /\ free' = free - 1
      /\ UNCHANGED <<queues, lostPbufs, lostBoxes>>
  BY <1>5 DEF tcp_input, sock
<1> HIDE DEF m, mb
<1>10. MboxOK(mb) /\ mb.open = mbox.open /\ mb.wait = 0
  BY <1>5, <1>7 DEF PostedTo
<1>11. Ordered(mbox', lastdata', arrived', p + 1) /\ mbox'.open = mbox.open
  <2>1. CASE f = 1
    <3>1. PostedTo(mb, EOF, mbox')
      BY <1>2, <1>9, <1>10, <2>1, Posted
    <3>2. mb.wait = 1 => lastdata = EOF
      BY <1>10
    <3>3. arrived + 1 \in Nat /\ p + 1 \in Nat
      BY <1>2
    <3>4. Ordered(mbox', lastdata, arrived + 1, p + 1)
      BY <1>2, <1>8, <1>10, <3>1, <3>2, <3>3, OrderedEof
    <3>5. mbox'.open = mb.open
      BY <3>1 DEF PostedTo
    <3> QED BY <1>9, <1>10, <3>4, <3>5
  <2>2. CASE f # 1
    BY <1>8, <1>9, <1>10, <2>2
  <2> QED BY <2>1, <2>2
<1>12. pcb' = 1 /\ fin' = 0 => p + 1 = Taken(mbox', lastdata') + Len(mbox'.q)
  BY <1>8, <1>9
<1>13. got' = [i \in 1 .. (arrived' - (p + 1)) * SegLen + lastoffset' |-> i]
  <2>1. got = [i \in 1 .. (arrived - p) * SegLen + lastoffset |-> i]
    BY <1>1, <1>2 DEF InOrder
  <2>2. arrived' - (p + 1) = arrived - p
    BY <1>2, <1>9
  <2> QED BY <1>9, <2>1, <2>2
<1>14. InOrder(p + 1)'
  BY <1>11, <1>12, <1>13 DEF InOrder
<1>15. Balanced(p + 1)'
  <2>1. pcb' = 1 /\ fin' = 0 => rcv_wnd' + off' + SegLen * (p + 1) - lastoffset' = TCP_WND
    <3>1. rcv_wnd + off + SegLen * p - lastoffset = TCP_WND
      BY <1>1, <1>2 DEF Balanced
    <3>2. rcv_wnd \in Int /\ off \in Int /\ lastoffset \in Int /\ SegLen \in Int
      BY <1>1, NetconnAssumption DEF ReceiveTypes
    <3> QED BY <1>9, <3>1, <3>2, OneSegment
  <2>2. free' + (p + 1) + lostPbufs' = PoolSize
    BY <1>1, <1>2, <1>9 DEF Balanced
  <2> QED BY <1>1, <1>9, <1>11, <2>1, <2>2, Zenon DEF Balanced
<1> QED BY <1>14, <1>15 DEF Stream

(* A reset.                                                                *)
LEMMA StreamErrTcp ==
    ASSUME ReaderInv, NEW p \in Nat, Stream(p), err_tcp
    PROVE  Stream(p)'
<1>1. /\ ReceiveTypes /\ ReaderHolds /\ EventsCounted /\ InOrder(p) /\ Balanced(p)
  BY DEF ReaderInv, Stream
<1>2. /\ pcb = 1 /\ pcb' = 0 /\ mbox' = recv_tcp(mbox, EOF)
      /\ UNCHANGED <<rcv_wnd, arrived, fin, pc, lastdata, lastoffset, off, got, queues,
                     lostPbufs, lostBoxes, free>>
  BY DEF err_tcp, sock, shared
<1>3. /\ EOF \in Message /\ lastdata \in Message /\ arrived \in Nat
      /\ (mbox.wait = 1 => lastdata = EOF) /\ pc # "closed"
  BY <1>1, <1>2, NetconnAssumption DEF ReceiveTypes, ReaderHolds, Message, EOF
<1>4. MboxOK(mbox)
  BY <1>1, SocketMbox
<1>5. PostedTo(mbox, EOF, mbox')
  BY <1>2, <1>3, <1>4, Posted
<1>6. Ordered(mbox, lastdata, arrived, p)
  BY <1>1 DEF InOrder
<1>7. Ordered(mbox', lastdata, arrived, p) /\ mbox'.open = mbox.open
  BY <1>3, <1>4, <1>5, <1>6, OrderedEof DEF PostedTo
<1>8. InOrder(p)'
  <2>1. pcb' # 1
    BY <1>2
  <2> QED BY <1>1, <1>2, <1>3, <1>7, <2>1, Zenon DEF InOrder
<1>9. Balanced(p)'
  <2>1. pcb' # 1
    BY <1>2
  <2> QED BY <1>1, <1>2, <1>7, <2>1, Zenon DEF Balanced
<1> QED BY <1>8, <1>9 DEF Stream

(* recv between the mailbox and the bytes.                                 *)
LEMMA StreamGoesOn ==
    ASSUME ReaderInv, NEW p \in Nat, Stream(p),
           lwip_recvfrom \/ Top \/ TestErr \/ Timeout
    PROVE  Stream(p)'
<1>1. /\ ReceiveTypes /\ ReaderHolds /\ InOrder(p) /\ Balanced(p)
  BY DEF ReaderInv, Stream
<1>2. /\ pc # "closed" /\ off' = off
      /\ UNCHANGED <<lastdata, lastoffset, arrived, got, fin, pcb, rcv_wnd, free, lostPbufs,
                     lostBoxes, queues>>
  BY <1>1 DEF lwip_recvfrom, Top, TestErr, Timeout, ReaderHolds, tcp, sock, shared
<1>3. mbox'.q = mbox.q /\ mbox'.hand = mbox.hand /\ mbox'.open = mbox.open
  <2>1. mbox' = mbox \/ mbox' = [mbox EXCEPT !.wait = 0]
    BY DEF lwip_recvfrom, Top, TestErr, Timeout
  <2>2. mbox \in [open : 0 .. 1, q : Seq(Message), wait : 0 .. 1, hand : Seq(Message)]
    BY <1>1 DEF ReceiveTypes
  <2> QED BY <2>1, <2>2
<1>4. InOrder(p)'
  BY <1>1, <1>2, <1>3, OrderKept
<1>5. Balanced(p)'
  BY <1>1, <1>2, <1>3, BalanceKept
<1> QED BY <1>4, <1>5 DEF Stream

(* The oldest message is taken out of the queue.                           *)
LEMMA StreamFetch ==
    ASSUME ReaderInv, NEW p \in Nat, Stream(p), sys_arch_mbox_fetch
    PROVE  Stream(p)'
<1>1. /\ ReceiveTypes /\ ReaderHolds /\ InOrder(p) /\ Balanced(p)
  BY DEF ReaderInv, Stream
<1>2. /\ pc = "fetch" /\ pc' = "wait" /\ lastdata = EOF /\ mbox.hand = <<>>
      /\ UNCHANGED <<lastdata, lastoffset, off, arrived, got, fin, pcb, rcv_wnd, free,
                     lostPbufs, lostBoxes, queues>>
  BY <1>1 DEF sys_arch_mbox_fetch, ReaderHolds, tcp, sock, shared
<1>3. /\ mbox \in [open : 0 .. 1, q : Seq(Message), wait : 0 .. 1, hand : Seq(Message)]
      /\ mbox.q \in Seq(Message) /\ arrived \in Nat
  BY <1>1, NetconnAssumption DEF ReceiveTypes, Message
<1>4. CASE mbox.q = <<>>
  <2>1. mbox' = [mbox EXCEPT !.wait = 1]
    BY <1>4 DEF sys_arch_mbox_fetch
  <2>2. mbox'.q = mbox.q /\ mbox'.hand = mbox.hand /\ mbox'.open = mbox.open
    BY <1>3, <2>1
  <2> QED BY <1>1, <1>2, <2>2, OrderKept, BalanceKept DEF Stream
<1>5. CASE mbox.q # <<>>
  <2> DEFINE q == mbox.q
             h == Head(q)
  <2>1. mbox' = [mbox EXCEPT !.q = Tail(q), !.hand = <<h>>]
    BY <1>5 DEF sys_arch_mbox_fetch
  <2>2. mbox'.q = Tail(q) /\ mbox'.hand = <<h>> /\ mbox'.open = mbox.open
    BY <1>3, <2>1
  <2>3. /\ Len(Tail(q)) = Len(q) - 1 /\ Len(q) \in Nat /\ Len(q) >= 1 /\ h = q[1]
        /\ \A i \in 1 .. Len(q) - 1 : Tail(q)[i] = q[i + 1]
    BY <1>3, <1>5
  <2>4. Taken(mbox, lastdata) = 0 /\ Taken(mbox', lastdata') = 1
    <3>1. Len(mbox.hand) = 0 /\ Len(mbox'.hand) = 1
      BY <1>2, <2>2
    <3> QED BY <1>2, <3>1 DEF Taken
  <2>5. /\ p \in 0 .. arrived /\ p <= Len(q)
        /\ \A i \in 1 .. Len(q) : q[i] = IF i <= p THEN arrived - p + i ELSE EOF
    <3>1. /\ p \in 0 .. arrived /\ p <= 0 + Len(q)
          /\ \A i \in 1 .. Len(q) : q[i] = IF 0 + i <= p THEN arrived - p + 0 + i ELSE EOF
      BY <1>1, <2>4 DEF InOrder, Ordered
    <3>2. ASSUME NEW i \in 1 .. Len(q)
          PROVE  q[i] = IF i <= p THEN arrived - p + i ELSE EOF
      <4>1. 0 + i = i /\ arrived - p + 0 + i = arrived - p + i
        BY <1>3, <2>3, <3>1
      <4> QED BY <3>1, <4>1
    <3>3. p <= Len(q)
      BY <2>3, <3>1
    <3> QED BY <3>1, <3>2, <3>3
  <2> DEFINE l == Len(q)
             t == Tail(q)
  <2>6. l \in Nat /\ l >= 1 /\ Len(t) = l - 1
    BY <2>3
  <2> HIDE DEF h, q, l, t
  <2>7. mbox'.hand[1] = IF p >= 1 THEN arrived - p + 1 ELSE EOF
    <3>1. 1 \in 1 .. Len(q)
      BY <2>6 DEF l
    <3> QED BY <2>2, <2>3, <2>5, <3>1
  <2>8. ASSUME NEW i \in 1 .. l - 1
        PROVE  t[i] = IF 1 + i <= p THEN arrived - p + 1 + i ELSE EOF
    <3>1. i + 1 \in 1 .. l /\ 1 + i = i + 1 /\ i \in 1 .. Len(q) - 1
      BY <2>6 DEF l
    <3>2. t[i] = q[i + 1]
      BY <2>3, <3>1 DEF t
    <3>3. q[i + 1] = IF i + 1 <= p THEN arrived - p + (i + 1) ELSE EOF
      BY <2>5, <3>1 DEF l
    <3> QED BY <1>3, <2>5, <3>1, <3>2, <3>3
  <2>9. Ordered(mbox', lastdata', arrived', p)
    <3>1. p \in 0 .. arrived' /\ lastdata' = EOF /\ p <= 1 + (l - 1)
      BY <1>2, <2>5, <2>6 DEF l
    <3>2. mbox'.q = t /\ Len(t) = l - 1
      BY <2>2, <2>6 DEF t
    <3>3. \A i \in 1 .. Len(mbox'.q) :
             mbox'.q[i] = IF Taken(mbox', lastdata') + i <= p
                          THEN arrived' - p + Taken(mbox', lastdata') + i ELSE EOF
      BY <1>2, <2>4, <2>8, <3>2
    <3>4. p <= Taken(mbox', lastdata') + Len(mbox'.q)
      BY <2>4, <3>1, <3>2
    <3> QED BY <1>2, <2>7, <3>1, <3>3, <3>4, Zenon DEF Ordered
  <2>10. pcb' = 1 /\ fin' = 0 => p = Taken(mbox', lastdata') + Len(mbox'.q)
    <3>1. pcb = 1 /\ fin = 0 => p = 0 + l
      BY <1>1, <2>4 DEF InOrder, l, q
    <3>2. Len(mbox'.q) = l - 1
      BY <2>2, <2>6 DEF t
    <3> QED BY <1>2, <2>4, <2>6, <3>1, <3>2
  <2>11. InOrder(p)'
    BY <1>1, <1>2, <2>9, <2>10 DEF InOrder
  <2>12. Balanced(p)'
    BY <1>1, <1>2, <2>2, BalanceKept
  <2> QED BY <2>11, <2>12 DEF Stream
<1> QED BY <1>4, <1>5

(* The message that was taken is looked at.                                *)
LEMMA StreamFetched ==
    ASSUME ReaderInv, NEW p \in Nat, Stream(p), Fetched
    PROVE  Stream(p)'
<1>1. /\ ReceiveTypes /\ ReaderHolds /\ InOrder(p) /\ Balanced(p)
  BY DEF ReaderInv, Stream
<1>2. /\ pc = "wait" /\ pc' # "closed" /\ lastdata = EOF /\ mbox.hand # <<>>
      /\ mbox' = [mbox EXCEPT !.hand = <<>>]
      /\ UNCHANGED <<lastoffset, off, arrived, got, fin, pcb, free,
                     lostPbufs, lostBoxes, queues>>
  BY <1>1 DEF Fetched, Fail, ReaderHolds, shared
<1>3. /\ mbox \in [open : 0 .. 1, q : Seq(Message), wait : 0 .. 1, hand : Seq(Message)]
      /\ mbox.hand \in Seq(Message) /\ mbox.q \in Seq(Message) /\ arrived \in Nat
      /\ Len(mbox.hand) <= 1
  BY <1>1, NetconnAssumption DEF ReceiveTypes, Message
<1>4. mbox'.q = mbox.q /\ mbox'.hand = <<>> /\ mbox'.open = mbox.open
  BY <1>2, <1>3
<1> DEFINE l == Len(mbox.q)
<1>5. l \in Nat /\ Len(mbox'.q) = l /\ Len(mbox.hand) = 1 /\ Len(mbox'.hand) = 0
  BY <1>2, <1>3, <1>4, AtMostOne
<1>6. /\ Taken(mbox, lastdata) = 1
      /\ Taken(mbox', lastdata') = IF lastdata' = EOF THEN 0 ELSE 1
  BY <1>2, <1>5 DEF Taken
<1>7. Head(mbox.hand) = mbox.hand[1]
  BY <1>2, <1>3
<1>8. /\ p \in 0 .. arrived
      /\ mbox.hand[1] = IF p >= 1 THEN arrived - p + 1 ELSE EOF
      /\ \A i \in 1 .. l : mbox.q[i] = IF 1 + i <= p THEN arrived - p + 1 + i ELSE EOF
      /\ p <= 1 + l
      /\ pcb = 1 /\ fin = 0 => p = 1 + l
  BY <1>1, <1>2, <1>6 DEF InOrder, Ordered
<1> HIDE DEF l
<1>9. mbox.hand[1] = EOF => p = 0
  BY <1>3, <1>8 DEF EOF
<1>10. CASE mbox.hand[1] = EOF
  <2>1. p = 0 /\ lastdata' = EOF /\ ~(pcb = 1 /\ fin = 0)
    BY <1>2, <1>5, <1>7, <1>8, <1>9, <1>10 DEF Fetched
  <2>2. Taken(mbox', lastdata') = 0
    BY <1>6, <2>1
  <2>3. ASSUME NEW i \in 1 .. l
        PROVE  mbox'.q[i] = IF Taken(mbox', lastdata') + i <= p
                            THEN arrived' - p + Taken(mbox', lastdata') + i ELSE EOF
    BY <1>4, <1>8, <2>1, <2>2
  <2>4. p <= Taken(mbox', lastdata') + Len(mbox'.q)
    BY <1>5, <2>1, <2>2
  <2>5. Ordered(mbox', lastdata', arrived', p)
    BY <1>2, <1>4, <1>5, <1>8, <2>1, <2>3, <2>4, Zenon DEF Ordered
  <2>6. InOrder(p)'
    BY <1>1, <1>2, <2>1, <2>5 DEF InOrder
  <2>7. Balanced(p)'
    BY <1>1, <1>2, <1>4, <2>1, Zenon DEF Balanced
  <2> QED BY <2>6, <2>7 DEF Stream
<1>11. CASE mbox.hand[1] # EOF
  <2>1. lastdata' = mbox.hand[1] /\ rcv_wnd' = rcv_wnd
    BY <1>7, <1>11 DEF Fetched
  <2>2. Taken(mbox', lastdata') = 1
    BY <1>6, <1>11, <2>1
  <2>3. p >= 1 /\ lastdata' = arrived' - p + 1
    BY <1>2, <1>8, <1>11, <2>1
  <2>4. ASSUME NEW i \in 1 .. l
        PROVE  mbox'.q[i] = IF Taken(mbox', lastdata') + i <= p
                            THEN arrived' - p + Taken(mbox', lastdata') + i ELSE EOF
    BY <1>2, <1>4, <1>8, <2>2
  <2>5. p <= Taken(mbox', lastdata') + Len(mbox'.q)
    BY <1>5, <1>8, <2>2
  <2>6. Ordered(mbox', lastdata', arrived', p)
    BY <1>2, <1>4, <1>5, <1>8, <2>3, <2>4, <2>5, Zenon DEF Ordered
  <2>7. InOrder(p)'
    BY <1>1, <1>2, <1>5, <1>8, <2>2, <2>6 DEF InOrder
  <2>8. Balanced(p)'
    BY <1>1, <1>2, <1>4, <2>1, BalanceKept
  <2> QED BY <2>7, <2>8 DEF Stream
<1> QED BY <1>10, <1>11

(* Copying goes on where it stopped.                                       *)
LEMMA CopiedOn ==
    ASSUME NEW p \in Nat, NEW n \in Nat, ReceiveTypes, InOrder(p),
           pc # "closed", lastdata # EOF
    PROVE  Copied(n) = [i \in 1 .. (arrived - p) * SegLen + lastoffset + n |-> i]
<1> DEFINE b == arrived - p
           g == b * SegLen + lastoffset
<1>1. /\ p \in 0 .. arrived /\ lastdata = b + 1 /\ arrived \in Nat /\ lastoffset \in Nat
      /\ got = [i \in 1 .. g |-> i]
  BY NetconnAssumption DEF InOrder, Ordered, ReceiveTypes, Message
<1>2. b \in Nat
  BY <1>1
<1>3. g \in Nat
  BY <1>1, <1>2, NetconnAssumption
<1>4. ASSUME NEW i \in 1 .. n PROVE ByteNo(lastdata, lastoffset + i) = g + i
  <2>1. ByteNo(lastdata, lastoffset + i) = (lastdata - 1) * SegLen + (lastoffset + i)
    BY DEF ByteNo
  <2>2. lastdata - 1 = b
    BY <1>1, <1>2
  <2>3. b * SegLen \in Nat
    BY <1>2, NetconnAssumption
  <2> QED BY <1>1, <2>1, <2>2, <2>3
<1>5. Copied(n) = got \o [i \in 1 .. n |-> g + i]
  BY <1>4 DEF Copied
<1> HIDE DEF g
<1>6. Copied(n) = [i \in 1 .. g + n |-> i]
  BY <1>1, <1>3, <1>5, Counting
<1> QED BY <1>6 DEF g

(* A segment is used up.                                                   *)
LEMMA StreamCopyAll ==
    ASSUME ReaderInv, NEW p \in Nat, Stream(p), CopyAll
    PROVE  p - 1 \in Nat /\ Stream(p - 1)'
<1>1. /\ ReceiveTypes /\ ReaderHolds /\ InOrder(p) /\ Balanced(p)
  BY DEF ReaderInv, Stream
<1>2. /\ pc = "copy" /\ pc' # "closed" /\ lastdata # EOF /\ mbox.hand = <<>>
      /\ got' = Copied(SegLen - lastoffset) /\ off' = off + SegLen - lastoffset
      /\ lastdata' = EOF /\ lastoffset' = 0 /\ free' = free + 1
      /\ UNCHANGED <<mbox, rcv_wnd, pcb, arrived, fin, queues, lostPbufs, lostBoxes>>
  BY <1>1 DEF CopyAll, ReaderHolds, tcp
<1>3. /\ arrived \in Nat /\ lastoffset \in Nat /\ SegLen \in Nat /\ SegLen - lastoffset \in Nat
      /\ off \in Nat /\ rcv_wnd \in Int /\ free \in Nat /\ lostPbufs \in Nat
      /\ mbox.q \in Seq(Message)
  BY <1>1, NetconnAssumption DEF ReceiveTypes, Message
<1> DEFINE l == Len(mbox.q)
           r == p - 1
<1>4. Len(mbox.hand) = 0 /\ l \in Nat
  BY <1>2, <1>3
<1>5. Taken(mbox, lastdata) = 1 /\ Taken(mbox', lastdata') = 0
  BY <1>2, <1>4 DEF Taken
<1>6. /\ p \in 0 .. arrived /\ p >= 1
      /\ \A i \in 1 .. l : mbox.q[i] = IF 1 + i <= p THEN arrived - p + 1 + i ELSE EOF
      /\ p <= 1 + l
      /\ pcb = 1 /\ fin = 0 => p = 1 + l
  BY <1>1, <1>2, <1>5 DEF InOrder, Ordered
<1> HIDE DEF l
<1>7. r \in Nat /\ p = r + 1 /\ r \in 0 .. arrived
  BY <1>3, <1>6
<1> HIDE DEF r
<1>8. Ordered(mbox', lastdata', arrived', r)
  <2>1. ASSUME NEW i \in 1 .. l
        PROVE  mbox'.q[i] = IF Taken(mbox', lastdata') + i <= r
                            THEN arrived' - r + Taken(mbox', lastdata') + i ELSE EOF
    <3>1. mbox.q[i] = IF 1 + i <= p THEN arrived - p + 1 + i ELSE EOF
      BY <1>6
    <3>2. (1 + i <= p <=> i <= r) /\ arrived - p + 1 + i = arrived - r + 0 + i /\ 0 + i = i
      BY <1>3, <1>4, <1>7
    <3> QED BY <1>2, <1>5, <3>1, <3>2
  <2>2. r <= Taken(mbox', lastdata') + Len(mbox'.q) /\ Len(mbox'.q) = l
    BY <1>2, <1>4, <1>5, <1>6, <1>7 DEF l
  <2> QED BY <1>2, <1>7, <2>1, <2>2, Zenon DEF Ordered
<1>9. got' = [i \in 1 .. (arrived' - r) * SegLen + lastoffset' |-> i]
  <2>1. got' = [i \in 1 .. (arrived - p) * SegLen + lastoffset + (SegLen - lastoffset) |-> i]
    BY <1>1, <1>2, <1>3, CopiedOn
  <2>2. arrived - r = (arrived - p) + 1 /\ arrived - p \in Nat
    BY <1>3, <1>6, <1>7
  <2>3. (arrived - r) * SegLen + 0 = (arrived - p) * SegLen + lastoffset + (SegLen - lastoffset)
    <3> DEFINE b == arrived - p
    <3>1. b \in Nat /\ arrived - r = b + 1
      BY <2>2
    <3> HIDE DEF b
    <3>2. (b + 1) * SegLen = b * SegLen + SegLen /\ b * SegLen \in Nat
      BY <1>3, <3>1
    <3> QED BY <1>3, <3>1, <3>2 DEF b
  <2> QED BY <1>2, <2>1, <2>3
<1>10. pcb' = 1 /\ fin' = 0 => r = Taken(mbox', lastdata') + Len(mbox'.q)
  BY <1>2, <1>4, <1>5, <1>6, <1>7 DEF l
<1>11. InOrder(r)'
  BY <1>2, <1>8, <1>9, <1>10 DEF InOrder
<1>12. Balanced(r)'
  <2>1. pcb' = 1 /\ fin' = 0 => rcv_wnd' + off' + SegLen * r - lastoffset' = TCP_WND
    <3>1. pcb = 1 /\ fin = 0 => rcv_wnd + off + SegLen * p - lastoffset = TCP_WND
      BY <1>1 DEF Balanced
    <3>2. SegLen * p = SegLen * r + SegLen /\ SegLen * r \in Nat
      BY <1>7, OneSegment
    <3> QED BY <1>2, <1>3, <3>1, <3>2
  <2>2. free' + r + lostPbufs' = PoolSize
    BY <1>1, <1>2, <1>3, <1>7 DEF Balanced
  <2> QED BY <1>1, <1>2, <2>1, <2>2, Zenon DEF Balanced
<1> QED BY <1>7, <1>11, <1>12 DEF Stream, r

(* Part of a segment is copied.                                            *)
LEMMA StreamCopyPart ==
    ASSUME ReaderInv, NEW p \in Nat, Stream(p), CopyPart
    PROVE  Stream(p)'
<1>1. /\ ReceiveTypes /\ ReaderHolds /\ InOrder(p) /\ Balanced(p)
  BY DEF ReaderInv, Stream
<1>2. PICK n \in 1 .. SegLen - lastoffset - 1 :
        got' = Copied(n) /\ off' = off + n /\ lastoffset' = lastoffset + n
  BY DEF CopyPart
<1>3. /\ pc = "copy" /\ pc' # "closed" /\ lastdata # EOF
      /\ UNCHANGED <<mbox, rcv_wnd, pcb, arrived, fin, lastdata, free, queues, lostPbufs,
                     lostBoxes>>
  BY <1>1 DEF CopyPart, ReaderHolds, tcp, shared
<1>4. /\ arrived \in Nat /\ lastoffset \in Nat /\ SegLen \in Nat /\ off \in Nat
      /\ rcv_wnd \in Int /\ n \in Nat /\ SegLen * p \in Nat
  BY <1>1, OneSegment, NetconnAssumption DEF ReceiveTypes, Message
<1>5. got' = [i \in 1 .. (arrived' - p) * SegLen + lastoffset' |-> i]
  <2>1. got' = [i \in 1 .. (arrived - p) * SegLen + lastoffset + n |-> i]
    BY <1>1, <1>2, <1>3, <1>4, CopiedOn
  <2>2. (arrived - p) * SegLen + lastoffset + n = (arrived - p) * SegLen + (lastoffset + n)
    <3> DEFINE b == (arrived - p) * SegLen
    <3>1. b \in Int
      BY <1>4
    <3> HIDE DEF b
    <3>2. b + lastoffset + n = b + (lastoffset + n)
      BY <1>4, <3>1
    <3> QED BY <3>2 DEF b
  <2> QED BY <1>2, <1>3, <2>1, <2>2
<1>6. InOrder(p)'
  <2>1. Ordered(mbox', lastdata', arrived', p)
    BY <1>1, <1>3 DEF InOrder
  <2> QED BY <1>1, <1>3, <1>5, <2>1 DEF InOrder
<1>7. Balanced(p)'
  <2>1. pcb' = 1 /\ fin' = 0 => rcv_wnd' + off' + SegLen * p - lastoffset' = TCP_WND
    BY <1>1, <1>2, <1>3, <1>4 DEF Balanced
  <2> QED BY <1>1, <1>3, <2>1, Zenon DEF Balanced
<1> QED BY <1>6, <1>7 DEF Stream

(* The window reopens by what was copied, never beyond its size.           *)
LEMMA StreamRecved ==
    ASSUME ReaderInv, NEW p \in Nat, Stream(p), netconn_recved
    PROVE  Stream(p)'
<1>1. /\ ReceiveTypes /\ ReaderHolds /\ InOrder(p) /\ Balanced(p)
  BY DEF ReaderInv, Stream
<1>2. /\ pc = "recved" /\ pc' # "closed" /\ off' = 0 /\ do_recv(off)
      /\ UNCHANGED <<mbox, pcb, arrived, fin, lastdata, lastoffset, got, free, queues,
                     lostPbufs, lostBoxes>>
  BY DEF netconn_recved, shared
<1>3. InOrder(p)'
  BY <1>1, <1>2, OrderKept
<1>4. Balanced(p)'
  <2>1. pcb' = 1 /\ fin' = 0 => rcv_wnd' + off' + SegLen * p - lastoffset' = TCP_WND
    <3> SUFFICES ASSUME pcb = 1, fin = 0
                 PROVE  rcv_wnd' + 0 + SegLen * p - lastoffset = TCP_WND
      BY <1>2
    <3>1. /\ rcv_wnd \in Nat /\ off \in Nat /\ lastoffset \in Nat /\ lastoffset < SegLen
          /\ SegLen \in Nat /\ TCP_WND \in Nat /\ SegLen * p \in Nat
      BY <1>1, OneSegment, NetconnAssumption DEF ReceiveTypes
    <3>2. rcv_wnd + off + SegLen * p - lastoffset = TCP_WND
      BY <1>1 DEF Balanced
    <3>3. SegLen * p >= lastoffset
      <4>1. CASE lastdata = EOF
        BY <1>1, <3>1, <4>1 DEF ReaderHolds
      <4>2. CASE lastdata # EOF
        <5>1. p >= 1
          BY <1>1, <4>2 DEF InOrder, Ordered
        <5>2. SegLen * p >= SegLen
          BY <5>1, OneSegment
        <5> QED BY <3>1, <5>2
      <4> QED BY <4>1, <4>2
    <3>4. rcv_wnd + off <= TCP_WND
      BY <3>1, <3>2, <3>3
    <3>5. rcv_wnd' = rcv_wnd + off
      <4>1. rcv_wnd' = Min(rcv_wnd + off, TCP_WND)
        BY <1>2 DEF do_recv
      <4> QED BY <3>1, <3>4, <4>1 DEF Min
    <3> QED BY <3>1, <3>2, <3>5
  <2> QED BY <1>1, <1>2, <2>1, Zenon DEF Balanced
<1> QED BY <1>3, <1>4 DEF Stream

(* The products a close adds to.                                           *)
LEMMA OneBox ==
    ASSUME NEW k \in Nat
    PROVE  (k + 1) * MboxSize = k * MboxSize + MboxSize /\ k * MboxSize \in Nat
BY NetconnAssumption

(* A close: what waits is freed with the mailbox, or both are lost.        *)
LEMMA StreamClose ==
    ASSUME ReaderInv, NEW p \in Nat, Stream(p), lwip_close
    PROVE  Stream(0)'
<1>1. /\ ReceiveTypes /\ ReaderHolds /\ InOrder(p) /\ Balanced(p)
  BY DEF ReaderInv, Stream
<1> DEFINE n == Pbufs(mbox.q)
           rest == IF lastdata = EOF THEN 0 ELSE 1
           l == Len(mbox.q)
<1>2. /\ mbox.q \in Seq(Message) /\ l \in Nat /\ l <= MboxSize
      /\ arrived \in Nat /\ free \in Nat /\ queues \in Nat /\ lostPbufs \in Nat
      /\ lostBoxes \in Nat /\ MboxSize \in Nat /\ PoolSize \in Nat /\ MaxQueues \in Nat
  BY <1>1, SocketMbox, NetconnAssumption DEF ReceiveTypes, Message
<1>3. /\ pc = "idle" /\ pc' = "closed" /\ lastdata' = EOF /\ lastoffset' = 0 /\ pcb' = 0
      /\ mbox' = [open |-> 0, q |-> <<>>, wait |-> 0, hand |-> <<>>]
      /\ UNCHANGED <<rcv_wnd, arrived, fin, off, got>>
  BY DEF lwip_close, do_delconn, NewMbox
<1>4. mbox.open = 1 /\ mbox.hand = <<>>
  BY <1>1, <1>3 DEF ReaderHolds
<1>5. /\ mbox'.open = 0 /\ mbox'.q = <<>> /\ mbox'.hand = <<>>
      /\ Len(mbox'.q) = 0 /\ Len(mbox'.hand) = 0
  BY <1>3
<1>6. Taken(mbox, lastdata) = rest
  <2>1. Len(mbox.hand) = 0
    BY <1>4
  <2> QED BY <2>1 DEF Taken
<1>7. /\ p \in 0 .. arrived /\ (lastdata # EOF => p >= 1)
      /\ \A i \in 1 .. l : mbox.q[i] = IF rest + i <= p THEN arrived - p + rest + i ELSE EOF
      /\ p <= rest + l
  BY <1>1, <1>6 DEF InOrder, Ordered
<1>8. rest \in 0 .. 1 /\ rest <= p
  BY <1>7
<1> HIDE DEF l, rest
<1>9. n = p - rest
  <2> DEFINE k == p - rest
  <2>1. k \in Nat /\ k <= Len(mbox.q)
    BY <1>2, <1>7, <1>8 DEF l
  <2>2. ASSUME NEW i \in 1 .. Len(mbox.q) PROVE mbox.q[i] # EOF <=> i <= k
    <3>1. mbox.q[i] = IF rest + i <= p THEN arrived - p + rest + i ELSE EOF
      BY <1>7 DEF l
    <3>2. i \in Nat /\ i >= 1 /\ (rest + i <= p <=> i <= k)
      BY <1>2, <1>8 DEF l
    <3>3. arrived - p + rest + i >= 1
      BY <1>2, <1>7, <1>8, <3>2
    <3>4. arrived - p + rest + i # EOF
      BY <1>2, <1>7, <1>8, <3>2, <3>3 DEF EOF
    <3> QED BY <3>1, <3>2, <3>4
  <2> HIDE DEF k
  <2>3. Pbufs(mbox.q) = k
    BY <1>2, <2>1, <2>2, PbufsFirst
  <2> QED BY <2>3 DEF k
<1>10. n \in Nat /\ n <= MboxSize /\ n + rest = p
  <2>1. n \in Nat /\ n <= Len(mbox.q)
    BY <1>2, PbufsCount
  <2> HIDE DEF n
  <2> QED BY <1>2, <1>8, <1>9, <2>1 DEF l
<1>11. \/ /\ free' = free + rest + n /\ queues' = queues + 1
          /\ lostPbufs' = lostPbufs /\ lostBoxes' = lostBoxes
       \/ /\ free' = free + rest /\ queues' = queues
          /\ lostPbufs' = lostPbufs + n /\ lostBoxes' = lostBoxes + 1
  BY DEF lwip_close, do_delconn, netconn_drain, rest
<1> HIDE DEF n
<1>12. /\ free + p + lostPbufs = PoolSize
       /\ lostPbufs <= lostBoxes * MboxSize
       /\ queues + 1 + lostBoxes = MaxQueues
  BY <1>1, <1>4 DEF Balanced
<1>13. /\ free' + 0 + lostPbufs' = PoolSize
       /\ queues' + 0 + lostBoxes' = MaxQueues
  BY <1>2, <1>8, <1>10, <1>11, <1>12
<1>14. lostPbufs' <= lostBoxes' * MboxSize
  <2>1. (lostBoxes + 1) * MboxSize = lostBoxes * MboxSize + MboxSize
        /\ lostBoxes * MboxSize \in Nat
    BY <1>2, OneBox
  <2> QED BY <1>2, <1>10, <1>11, <1>12, <2>1
<1>15. InOrder(0)'
  <2>1. Taken(mbox', lastdata') = 0
    BY <1>3, <1>5 DEF Taken
  <2>2. Ordered(mbox', lastdata', arrived', 0)
    BY <1>2, <1>3, <1>5, <2>1 DEF Ordered
  <2> QED BY <1>3, <2>2 DEF InOrder
<1>16. Balanced(0)'
  BY <1>3, <1>5, <1>13, <1>14 DEF Balanced
<1> QED BY <1>15, <1>16 DEF Stream

(* A new connection starts with nothing waiting and the whole window.      *)
LEMMA StreamConnect ==
    ASSUME ReaderInv, NEW p \in Nat, Stream(p), lwip_connect
    PROVE  Stream(0)'
<1>1. /\ ReceiveTypes /\ ReaderHolds /\ InOrder(p) /\ Balanced(p)
  BY DEF ReaderInv, Stream
<1>2. /\ pc = "closed" /\ pc' = "idle" /\ lastdata = EOF /\ off = 0 /\ lastoffset = 0
      /\ mbox.open = 0 /\ mbox.q = <<>> /\ mbox.hand = <<>>
      /\ queues' = queues - 1
      /\ mbox' = [open |-> 1, q |-> <<>>, wait |-> 0, hand |-> <<>>]
      /\ rcv_wnd' = TCP_WND /\ arrived' = 0 /\ fin' = 0 /\ got' = <<>>
      /\ UNCHANGED <<off, lastdata, lastoffset, free, lostPbufs, lostBoxes>>
  BY <1>1 DEF lwip_connect, NewMbox, ReaderHolds
<1>3. /\ mbox'.open = 1 /\ mbox'.q = <<>> /\ mbox'.hand = <<>>
      /\ Len(mbox'.q) = 0 /\ Len(mbox'.hand) = 0
  BY <1>2
<1>4. Taken(mbox, lastdata) = 0 /\ Taken(mbox', lastdata') = 0 /\ Len(mbox.q) = 0
  <2>1. Len(mbox.hand) = 0 /\ Len(mbox.q) = 0
    BY <1>2
  <2> QED BY <1>2, <1>3, <2>1 DEF Taken
<1>5. p = 0
  BY <1>1, <1>4 DEF InOrder, Ordered
<1>6. /\ SegLen * 0 = 0 /\ TCP_WND \in Nat /\ queues \in Nat /\ lostBoxes \in Nat
      /\ (0 - 0) * SegLen + 0 = 0
  BY <1>1, NetconnAssumption DEF ReceiveTypes
<1>7. InOrder(0)'
  <2>1. Ordered(mbox', lastdata', arrived', 0)
    BY <1>2, <1>3, <1>4 DEF Ordered
  <2>2. got' = [i \in 1 .. (arrived' - 0) * SegLen + lastoffset' |-> i]
    <3>1. [i \in 1 .. 0 |-> i] = <<>>
      OBVIOUS
    <3> QED BY <1>2, <1>6, <3>1
  <2> QED BY <1>3, <1>4, <2>1, <2>2 DEF InOrder
<1>8. Balanced(0)'
  <2>1. rcv_wnd' + off' + SegLen * 0 - lastoffset' = TCP_WND
    BY <1>2, <1>6
  <2>2. queues' + mbox'.open + lostBoxes' = MaxQueues
    <3>1. queues + 0 + lostBoxes = MaxQueues
      BY <1>1, <1>2 DEF Balanced
    <3> QED BY <1>2, <1>3, <1>6, <3>1
  <2> QED BY <1>1, <1>2, <1>5, <2>1, <2>2, Zenon DEF Balanced
<1> QED BY <1>7, <1>8 DEF Stream

(* Nothing has arrived.                                                    *)
LEMMA InitStream == Init => Stream(0)
<1> SUFFICES ASSUME Init PROVE Stream(0)  OBVIOUS
<1>1. /\ mbox = [open |-> 1, q |-> <<>>, wait |-> 0, hand |-> <<>>]
      /\ pc = "idle" /\ lastdata = EOF /\ lastoffset = 0 /\ off = 0 /\ pcb = 1
      /\ arrived = 0 /\ got = <<>> /\ rcv_wnd = TCP_WND /\ free = PoolSize
      /\ lostPbufs = 0 /\ lostBoxes = 0 /\ queues = MaxQueues - 1
  BY DEF Init, NewMbox
<1>2. /\ mbox.open = 1 /\ mbox.q = <<>> /\ mbox.hand = <<>>
      /\ Len(mbox.q) = 0 /\ Len(mbox.hand) = 0
  BY <1>1
<1>3. Taken(mbox, lastdata) = 0
  BY <1>1, <1>2 DEF Taken
<1>4. /\ SegLen * 0 = 0 /\ (0 - 0) * SegLen + 0 = 0 /\ 0 * MboxSize = 0
      /\ TCP_WND \in Nat /\ PoolSize \in Nat /\ MaxQueues \in Nat
  BY NetconnAssumption
<1>5. InOrder(0)
  <2>1. Ordered(mbox, lastdata, arrived, 0)
    BY <1>1, <1>2, <1>3 DEF Ordered
  <2>2. got = [i \in 1 .. (arrived - 0) * SegLen + lastoffset |-> i]
    <3>1. [i \in 1 .. 0 |-> i] = <<>>
      OBVIOUS
    <3> QED BY <1>1, <1>4, <3>1
  <2> QED BY <1>2, <1>3, <2>1, <2>2 DEF InOrder
<1>6. Balanced(0)
  BY <1>1, <1>2, <1>4 DEF Balanced
<1> QED BY <1>5, <1>6 DEF Stream

(* Every step keeps the stream.                                            *)
LEMMA StreamStep == PoolFits /\ StreamInv /\ [Next]_vars => StreamInv'
<1> SUFFICES ASSUME PoolFits, StreamInv, [Next]_vars PROVE StreamInv'  OBVIOUS
<1>1. PICK p \in Nat : Stream(p)
  BY DEF StreamInv
<1>2. ReaderInv /\ ReaderInv'
  BY ReaderStep DEF StreamInv
<1> SUFFICES \E r \in Nat : Stream(r)'
  BY <1>2 DEF StreamInv
<1>3. p + 1 \in Nat /\ 0 \in Nat
  OBVIOUS
<1>4. ASSUME NEW f \in 0 .. 1, tcp_input(f) PROVE \E r \in Nat : Stream(r)'
  BY <1>1, <1>2, <1>3, <1>4, StreamTcpInput
<1>5. ASSUME Reading PROVE \E r \in Nat : Stream(r)'
  <2>1. ASSUME CopyAll PROVE \E r \in Nat : Stream(r)'
    BY <1>1, <1>2, <2>1, StreamCopyAll
  <2>2. ASSUME lwip_recvfrom \/ Top \/ TestErr PROVE Stream(p)'
    BY <1>1, <1>2, <2>2, StreamGoesOn
  <2>3. ASSUME sys_arch_mbox_fetch \/ Fetched \/ CopyPart \/ netconn_recved PROVE Stream(p)'
    BY <1>1, <1>2, <2>3, StreamFetch, StreamFetched, StreamCopyPart, StreamRecved
  <2> QED BY <1>1, <1>5, <2>1, <2>2, <2>3 DEF Reading
<1>6. ASSUME Timeout PROVE Stream(p)'
  BY <1>1, <1>2, <1>6, StreamGoesOn
<1>7. ASSUME err_tcp PROVE Stream(p)'
  BY <1>1, <1>2, <1>7, StreamErrTcp
<1>8. ASSUME lwip_close \/ lwip_connect PROVE Stream(0)'
  BY <1>1, <1>2, <1>8, StreamClose, StreamConnect
<1>9. ASSUME UNCHANGED vars PROVE Stream(p)'
  <2>1. /\ UNCHANGED <<mbox, rcv_wnd, pcb, arrived, fin, pc, lastdata, lastoffset, off, got,
                       free, queues, lostPbufs, lostBoxes>>
        /\ InOrder(p) /\ Balanced(p)
    BY <1>1, <1>9 DEF vars, tcp, sock, shared, Stream
  <2>2. InOrder(p)'
    BY <2>1, Zenon DEF InOrder
  <2>3. Balanced(p)'
    BY <2>1, Zenon DEF Balanced
  <2> QED BY <2>2, <2>3 DEF Stream
<1> QED BY <1>1, <1>3, <1>4, <1>5, <1>6, <1>7, <1>8, <1>9, Zenon DEF Next

(* The p segments waiting are the pbufs pending.                           *)
LEMMA PendingIs ==
    ASSUME ReaderInv, NEW p \in Nat, Stream(p)
    PROVE  /\ Pbufs(Pending) = p
           /\ \A i \in DOMAIN Pending :
                 Pending[i] = IF arrived - p + i <= arrived THEN arrived - p + i ELSE EOF
<1>1. /\ ReceiveTypes /\ ReaderHolds /\ InOrder(p)
  BY DEF ReaderInv, Stream
<1> DEFINE T == Taken(mbox, lastdata)
           l == Len(mbox.q)
           L == Len(Pending)
<1>2. arrived \in Nat /\ mbox.q \in Seq(Message) /\ l \in Nat
  BY <1>1, SocketMbox, NetconnAssumption DEF ReceiveTypes, Message
<1>3. /\ Pending \in Seq(Message) /\ T \in 0 .. 1 /\ L = T + l
      /\ lastdata # EOF => T = 1 /\ Pending[1] = lastdata
      /\ mbox.hand # <<>> => T = 1 /\ Pending[1] = mbox.hand[1]
      /\ T = 1 => lastdata # EOF \/ mbox.hand # <<>>
      /\ \A i \in 1 .. l : Pending[T + i] = mbox.q[i]
  BY <1>1, PendingParts
<1>4. /\ p \in 0 .. arrived
      /\ lastdata # EOF => p >= 1 /\ lastdata = arrived - p + 1
      /\ mbox.hand # <<>> => mbox.hand[1] = IF p >= 1 THEN arrived - p + 1 ELSE EOF
      /\ \A i \in 1 .. l : mbox.q[i] = IF T + i <= p THEN arrived - p + T + i ELSE EOF
      /\ p <= T + l
  BY <1>1 DEF InOrder, Ordered
<1> HIDE DEF T, l
<1>5. DOMAIN Pending = 1 .. L
  BY <1>3
<1>6. L \in Nat
  BY <1>2, <1>3
<1> HIDE DEF L
<1>7. ASSUME NEW i \in 1 .. L PROVE Pending[i] = IF i <= p THEN arrived - p + i ELSE EOF
  <2>1. CASE i <= T
    <3>1. T = 1 /\ i = 1
      BY <1>3, <1>6, <2>1
    <3>2. CASE lastdata # EOF
      BY <1>3, <1>4, <3>1, <3>2
    <3>3. CASE mbox.hand # <<>>
      BY <1>3, <1>4, <3>1, <3>3
    <3> QED BY <1>3, <3>1, <3>2, <3>3
  <2>2. CASE i > T
    <3> DEFINE j == i - T
    <3>1. j \in 1 .. l /\ i = T + j
      BY <1>2, <1>3, <1>6, <2>2
    <3> HIDE DEF j
    <3>2. Pending[i] = mbox.q[j]
      BY <1>3, <3>1
    <3>3. mbox.q[j] = IF T + j <= p THEN arrived - p + T + j ELSE EOF
      BY <1>4, <3>1
    <3>4. arrived - p + T + j = arrived - p + i
      BY <1>2, <1>3, <1>4, <3>1
    <3> QED BY <3>1, <3>2, <3>3, <3>4
  <2>3. i \in Int /\ T \in Int
    BY <1>3, <1>6
  <2> QED BY <2>1, <2>2, <2>3
<1>8. Pbufs(Pending) = p
  <2>1. ASSUME NEW i \in 1 .. Len(Pending) PROVE Pending[i] # EOF <=> i <= p
    <3>1. Pending[i] = IF i <= p THEN arrived - p + i ELSE EOF
      BY <1>7 DEF L
    <3>2. i \in Nat /\ i >= 1
      BY <1>6 DEF L
    <3>3. arrived - p + i # EOF
      BY <1>2, <1>4, <3>2 DEF EOF
    <3> QED BY <3>1, <3>3
  <2>2. p <= Len(Pending)
    BY <1>3, <1>4 DEF L
  <2> QED BY <1>3, <2>1, <2>2, PbufsFirst
<1>9. ASSUME NEW i \in 1 .. L
      PROVE  Pending[i] = IF arrived - p + i <= arrived THEN arrived - p + i ELSE EOF
  <2>1. Pending[i] = IF i <= p THEN arrived - p + i ELSE EOF
    BY <1>7
  <2>2. i <= p <=> arrived - p + i <= arrived
    BY <1>2, <1>4, <1>6
  <2> QED BY <2>1, <2>2
<1> QED BY <1>5, <1>8, <1>9

(* The invariant is more than the property.                                *)
LEMMA StreamIsExact == StreamInv => StreamExact
<1> SUFFICES ASSUME StreamInv PROVE StreamExact  OBVIOUS
<1>1. PICK p \in Nat : Stream(p)
  BY DEF StreamInv
<1>2. /\ ReaderInv /\ ReceiveTypes /\ ReaderHolds /\ InOrder(p) /\ Balanced(p)
  BY <1>1 DEF StreamInv, ReaderInv, Stream
<1>3. /\ Pbufs(Pending) = p
      /\ \A i \in DOMAIN Pending :
            Pending[i] = IF arrived - p + i <= arrived THEN arrived - p + i ELSE EOF
  BY <1>1, <1>2, PendingIs
<1>4. StreamIntact
  BY <1>2, <1>3, Zenon DEF StreamIntact, InOrder
<1>5. WindowExact
  BY <1>2, <1>3, Zenon DEF WindowExact, Balanced
<1>6. TypeOK
  <2>1. free \in 0 .. PoolSize /\ queues \in 0 .. MaxQueues
    <3>1. /\ free \in Nat /\ lostPbufs \in Nat /\ queues \in Nat /\ lostBoxes \in Nat
          /\ mbox.open \in 0 .. 1
      BY <1>2, SocketMbox DEF ReceiveTypes
    <3> QED BY <1>2, <3>1, NetconnAssumption DEF Balanced
  <2>2. mbox.open \in 0 .. 1 /\ mbox.wait \in 0 .. 1
    BY <1>2, SocketMbox
  <2> QED BY <1>2, <2>1, <2>2 DEF TypeOK, ReceiveTypes, Message
<1>7. BuffersAccounted
  BY <1>2, <1>3, <1>6, Zenon DEF BuffersAccounted, Balanced
<1> QED BY <1>4, <1>5, <1>7 DEF StreamExact

(* If the pool has no more pbufs than the mailbox has slots, every byte    *)
(* that TCP acknowledged is delivered once and in order or still waits,    *)
(* the window is what is left of its size, and every pbuf and queue block  *)
(* is accounted for: recv_tcp never finds the mailbox full, and nothing    *)
(* that recv, the peer's FIN or reset, a timeout or a close do changes it. *)
THEOREM StreamCorrect == PoolFits /\ Spec => []StreamExact
<1> SUFFICES ASSUME PoolFits PROVE Spec => []StreamExact
  OBVIOUS
<1>1. Init => StreamInv
  BY InitReader, InitStream DEF StreamInv
<1>2. StreamInv /\ [Next]_vars => StreamInv'
  BY StreamStep
<1>3. Spec => []StreamInv
  BY <1>1, <1>2, PTL DEF Spec
<1> QED BY <1>3, StreamIsExact, PTL
============================================================================

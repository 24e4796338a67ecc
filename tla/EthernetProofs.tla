--------------------------- MODULE EthernetProofs ---------------------------
(***************************************************************************)
(* Proofs about the two rings of the Ethernet driver.                      *)
(*                                                                         *)
(* The processor and the DMA each go round a ring with a pointer of their  *)
(* own and meet only in the OWN bits.  Both invariants therefore say how   *)
(* far each descriptor is from the pointer of the reader, in the number of *)
(* frames still to be read, and that the writer's pointer is where they    *)
(* end.                                                                    *)
(***************************************************************************)
EXTENDS EthRx, EthTx, SequenceTheorems, TLAPS

-----------------------------------------------------------------------------
(* Distances on a ring of n descriptors.                                   *)

(* From g on to d.                                                         *)
Dist(n, g, d) == IF d >= g THEN d - g ELSE (d - g) + n

(* The descriptor after d.                                                 *)
After(n, d) == IF d + 1 = n THEN 0 ELSE d + 1

(* The remainders of the model are those distances and successors.         *)
LEMMA RingMod ==
    ASSUME NEW n \in Nat \ {0}, NEW g \in 0 .. n - 1, NEW d \in 0 .. n - 1
    PROVE  (d - g) % n = Dist(n, g, d) /\ (d + 1) % n = After(n, d)
<1>1. (d - g) % n = Dist(n, g, d)
  <2>1. CASE d >= g
    <3>1. d - g \in 0 .. n - 1  BY <2>1
    <3>2. (d - g) % n = d - g  BY <3>1
    <3> QED BY <2>1, <3>2 DEF Dist
  <2>2. CASE ~(d >= g)
    <3>1. (d - g) + n \in 0 .. n - 1  BY <2>2
    <3>2. (d - g) % n = (d - g) + n  BY <3>1
    <3> QED BY <2>2, <3>2 DEF Dist
  <2> QED BY <2>1, <2>2
<1>2. (d + 1) % n = After(n, d)
  <2>1. CASE d + 1 = n  BY <2>1 DEF After
  <2>2. CASE d + 1 # n
    <3>1. d + 1 \in 0 .. n - 1  BY <2>2
    <3> QED BY <2>2, <3>1 DEF After
  <2> QED BY <2>1, <2>2
<1> QED BY <1>1, <1>2

(* The descriptor at distance k.                                           *)
LEMMA RingEnd ==
    ASSUME NEW n \in Nat \ {0}, NEW g \in 0 .. n - 1, NEW k \in 0 .. n, NEW e \in 0 .. n - 1,
           k < n => Dist(n, g, e) = k,
           k = n => e = g
    PROVE  e = (g + k) % n
<1>1. CASE k = n
  <2>1. (g + n) % n = g  OBVIOUS
  <2> QED BY <1>1, <2>1
<1>2. CASE k # n
  <2>1. Dist(n, g, e) = k  BY <1>2
  <2>2. CASE e >= g
    <3>1. e = g + k  BY <2>1, <2>2 DEF Dist
    <3>2. (g + k) % n = g + k  BY <3>1
    <3> QED BY <3>1, <3>2
  <2>3. CASE ~(e >= g)
    <3>1. g + k = e + n  BY <2>1, <2>3 DEF Dist
    <3>2. (e + n) % n = e  OBVIOUS
    <3> QED BY <3>1, <3>2
  <2> QED BY <2>2, <2>3
<1> QED BY <1>1, <1>2

(* Distances are below n, and no two descriptors have the same.            *)
LEMMA DistRange ==
    ASSUME NEW n \in Nat \ {0}, NEW g \in 0 .. n - 1, NEW d \in 0 .. n - 1, NEW e \in 0 .. n - 1
    PROVE  /\ Dist(n, g, d) \in 0 .. n - 1
           /\ Dist(n, g, d) = Dist(n, g, e) => d = e
           /\ Dist(n, g, d) = 0 <=> d = g
           /\ After(n, d) \in 0 .. n - 1
BY DEF Dist, After

(* The writer moves on.                                                    *)
LEMMA DistWriter ==
    ASSUME NEW n \in Nat \ {0}, NEW g \in 0 .. n - 1, NEW d \in 0 .. n - 1
    PROVE  /\ Dist(n, g, d) + 1 < n => Dist(n, g, After(n, d)) = Dist(n, g, d) + 1
           /\ Dist(n, g, d) + 1 = n => After(n, d) = g
BY DEF Dist, After

(* The reader moves on: the descriptor it leaves is now the last one.      *)
LEMMA DistReader ==
    ASSUME NEW n \in Nat \ {0}, NEW g \in 0 .. n - 1, NEW d \in 0 .. n - 1
    PROVE  /\ d = g => Dist(n, After(n, g), d) = n - 1
           /\ d # g => Dist(n, After(n, g), d) = Dist(n, g, d) - 1
BY DEF Dist, After

-----------------------------------------------------------------------------
(***************************************************************************)
(* Receiving.  RxOrder is RingInOrder with distances instead of            *)
(* remainders, and with what the handler relies on between its steps: the  *)
(* descriptor it has found is still there, the one it reads is the one     *)
(* before the next, and it holds the frame that comes next.                *)
(***************************************************************************)
RxDist(d) == Dist(ETH_RXBUFNB, DMARxDescToGet, d)

(* Frames the handler has taken, and frames it has not.                    *)
RxDone == Len(copied) + (IF isr = "copy" THEN 1 ELSE 0)
RxUnread == rxAccepted - RxDone

RxTypes ==
    /\ RxTypeOK
    /\ free \in Nat /\ msgs \in Nat /\ rxAccepted \in Nat /\ rxAccepted <= wire
    /\ mbox \in Seq(Nat) /\ copied \in Seq(Nat)

RxSlots ==
    \A d \in RxDesc :
        IF rxOwn[d] = 0 /\ ~BeingRead(d)
        THEN RxDist(d) < RxUnread /\ rxBuf[d] = RxDone + RxDist(d) + 1
        ELSE RxDist(d) >= RxUnread

RxEnds ==
    /\ RxUnread \in 0 .. ETH_RXBUFNB
    /\ RxUnread < ETH_RXBUFNB => RxDist(rxDma) = RxUnread
    /\ RxUnread = ETH_RXBUFNB => rxDma = DMARxDescToGet

RxHandler ==
    /\ isr = "rx" => rxOwn[DMARxDescToGet] = 0
    /\ isr \in {"copy", "give"} =>
          rxOwn[desc] = 0 /\ DMARxDescToGet = After(ETH_RXBUFNB, desc)
    /\ isr = "copy" => rxBuf[desc] = Len(copied) + 1

RxOrder ==
    /\ copied = [i \in 1 .. Len(copied) |-> i]
    /\ RxEnds /\ RxSlots /\ RxHandler

(* The handler holds a pbuf only while it has a frame in hand.             *)
RxPools ==
    /\ PoolsAccounted
    /\ isr = "input" => pbuf # 0
    /\ pbuf # 0 => isr \in {"give", "input"}

(* The inductive invariant.                                                *)
RxInv == RxTypes /\ RxOrder /\ RxPools

(* Remainders are distances: the invariant is what the runs check.         *)
LEMMA RxInvExact == RxInv => RxExact
<1> SUFFICES ASSUME RxInv PROVE RxExact  OBVIOUS
<1> DEFINE n == ETH_RXBUFNB
<1>1. n \in Nat \ {0}  BY EthRxAssumption
<1>2. DMARxDescToGet \in 0 .. n - 1 /\ rxDma \in 0 .. n - 1
  BY DEF RxInv, RxTypes, RxTypeOK, RxDesc
<1>3. ASSUME NEW d \in RxDesc PROVE RxAhead(d) = RxDist(d)
  BY <1>1, <1>2, RingMod DEF RxAhead, RxDist, RxDesc
<1> DEFINE x == IF isr = "copy" THEN <<rxBuf[desc]>> ELSE <<>>
           now == copied \o x
<1>4. copied \in Seq(Nat) /\ Len(copied) \in Nat  BY DEF RxInv, RxTypes
<1>5. Len(now) = RxDone /\ now = [i \in 1 .. Len(now) |-> i]
  <2>1. copied = [i \in 1 .. Len(copied) |-> i]  BY DEF RxInv, RxOrder
  <2>2. CASE isr = "copy"
    <3>1. rxBuf[desc] = Len(copied) + 1  BY <2>2 DEF RxInv, RxOrder, RxHandler
    <3>2. now = Append(copied, Len(copied) + 1)
      BY <1>4, <2>2, <3>1, AppendIsConcat
    <3>3. Len(now) = Len(copied) + 1  BY <1>4, <3>2
    <3> QED BY <1>4, <2>1, <2>2, <3>2, <3>3 DEF RxDone
  <2>3. CASE isr # "copy"
    <3>1. now = copied  BY <1>4, <2>3, ConcatEmptySeq
    <3> QED BY <1>4, <2>1, <2>3, <3>1 DEF RxDone
  <2> QED BY <2>2, <2>3
<1>6. rxDma = (DMARxDescToGet + RxUnread) % n
  <2>1. RxUnread \in 0 .. n /\ (RxUnread < n => RxDist(rxDma) = RxUnread)
        /\ (RxUnread = n => rxDma = DMARxDescToGet)
    BY DEF RxInv, RxOrder, RxEnds
  <2> HIDE DEF n
  <2> QED BY <1>1, <1>2, <2>1, RingEnd DEF RxDist, n
<1>7. \A d \in RxDesc :
        IF rxOwn[d] = 0 /\ ~BeingRead(d)
        THEN RxAhead(d) < RxUnread /\ rxBuf[d] = RxDone + RxAhead(d) + 1
        ELSE RxAhead(d) >= RxUnread
  BY <1>3 DEF RxInv, RxOrder, RxSlots
<1>8. RxUnread = rxAccepted - Len(now) /\ RxUnread \in 0 .. n
  BY <1>5 DEF RxUnread, RxInv, RxOrder, RxEnds
<1> HIDE DEF now
<1>9. /\ now = [i \in 1 .. Len(now) |-> i]
      /\ rxAccepted - Len(now) \in 0 .. ETH_RXBUFNB
      /\ \A d \in RxDesc :
            IF rxOwn[d] = 0 /\ ~BeingRead(d)
            THEN RxAhead(d) < rxAccepted - Len(now) /\ rxBuf[d] = Len(now) + RxAhead(d) + 1
            ELSE RxAhead(d) >= rxAccepted - Len(now)
      /\ rxDma = (DMARxDescToGet + (rxAccepted - Len(now))) % ETH_RXBUFNB
  BY <1>5, <1>6, <1>7, <1>8
<1>10. RingInOrder  BY <1>9 DEF RingInOrder, now
<1> QED BY <1>10 DEF RxExact, RxInv, RxPools

(* Empty rings and full pools.                                             *)
LEMMA RxInitInv == RxInit => RxInv
<1> SUFFICES ASSUME RxInit PROVE RxInv  OBVIOUS
<1>1. ETH_RXBUFNB \in Nat \ {0} /\ MaxRxFrames \in Nat /\ PoolSize \in Nat /\ MsgPool \in Nat
      /\ MboxSize \in Nat
  BY EthRxAssumption
<1>2. RxTypes  BY <1>1 DEF RxInit, RxTypes, RxTypeOK, RxDesc
<1>3. RxDone = 0 /\ RxUnread = 0
  <2>1. Len(copied) = 0 /\ isr # "copy" /\ rxAccepted = 0  BY DEF RxInit
  <2>2. RxDone = 0  BY <2>1 DEF RxDone
  <2> QED BY <2>1, <2>2 DEF RxUnread
<1>4. ASSUME NEW d \in RxDesc PROVE RxDist(d) \in 0 .. ETH_RXBUFNB - 1
  BY <1>1, <1>2, DistRange DEF RxDist, RxDesc, RxTypes, RxTypeOK
<1>5. RxDist(rxDma) = 0  BY <1>1 DEF RxInit, RxDist, Dist
<1>6. RxOrder
  <2>1. RxEnds  BY <1>1, <1>3, <1>5 DEF RxEnds
  <2>2. RxSlots  BY <1>1, <1>3, <1>4 DEF RxSlots, RxInit
  <2>3. RxHandler /\ copied = [i \in 1 .. Len(copied) |-> i]
    BY DEF RxHandler, RxInit
  <2> QED BY <2>1, <2>2, <2>3 DEF RxOrder
<1>7. RxPools
  <2>1. /\ free = PoolSize /\ pbuf = 0 /\ Len(mbox) = 0 /\ held = 0 /\ msgs = MsgPool
        /\ isr = "idle"
    BY DEF RxInit
  <2>2. PoolsAccounted  BY <1>1, <1>2, <2>1 DEF PoolsAccounted, RxTypes
  <2> QED BY <2>1, <2>2 DEF RxPools
<1> QED BY <1>2, <1>6, <1>7 DEF RxInv

(* What a step that leaves the ring, the handler's place in it and the     *)
(* history alone keeps.                                                    *)
LEMMA RxRingKept ==
    ASSUME RxOrder, UNCHANGED <<rxRing, rxAccepted, copied>>,
           isr' = "rx" => rxOwn[DMARxDescToGet] = 0,
           isr' \notin {"copy", "give"}, isr \notin {"copy", "give"}
    PROVE  RxOrder'
<1>1. RxDone' = RxDone /\ RxUnread' = RxUnread
  BY DEF RxDone, RxUnread
<1>2. \A d \in RxDesc : RxDist(d)' = RxDist(d) /\ ~BeingRead(d) /\ ~BeingRead(d)'
  BY DEF RxDist, rxRing, BeingRead
<1>3. RxSlots'  BY <1>1, <1>2 DEF RxOrder, RxSlots, rxRing
<1>4. RxDist(rxDma)' = RxDist(rxDma)  BY DEF RxDist, rxRing
<1>5. RxEnds'  BY <1>1, <1>4 DEF RxOrder, RxEnds, rxRing
<1>6. RxHandler'  BY DEF RxHandler, rxRing
<1> QED BY <1>3, <1>5, <1>6 DEF RxOrder

(* The DMA stores a frame: it is behind all that are unread, and the       *)
(* descriptor the handler reads is not the DMA's.                          *)
LEMMA RxStored ==
    ASSUME RxTypes, RxOrder, rxOwn[rxDma] = 1,
           rxBuf' = [rxBuf EXCEPT ![rxDma] = rxAccepted + 1],
           rxOwn' = [rxOwn EXCEPT ![rxDma] = 0],
           rxDma' = RxSucc(rxDma), rxAccepted' = rxAccepted + 1,
           UNCHANGED <<DMARxDescToGet, desc, isr, copied>>
    PROVE  RxOrder'
<1> DEFINE n == ETH_RXBUFNB
<1>1. /\ n \in Nat \ {0} /\ rxDma \in 0 .. n - 1 /\ DMARxDescToGet \in 0 .. n - 1
      /\ desc \in RxDesc /\ rxDma \in RxDesc /\ RxDesc = 0 .. n - 1
      /\ rxOwn \in [RxDesc -> 0 .. 1] /\ rxBuf \in [RxDesc -> 0 .. MaxRxFrames]
  BY EthRxAssumption DEF RxTypes, RxTypeOK, RxDesc
<1>2. RxDone \in Nat /\ rxAccepted \in Nat  BY DEF RxDone, RxTypes
<1>3. RxDone' = RxDone /\ RxUnread' = RxUnread + 1
  BY <1>2 DEF RxDone, RxUnread
<1>4. RxEnds /\ RxSlots /\ RxHandler  BY DEF RxOrder
<1> HIDE DEF n
<1>5. ASSUME NEW d \in RxDesc
      PROVE  /\ RxDist(d) \in 0 .. n - 1 /\ RxDist(d)' = RxDist(d)
             /\ RxDist(d) = RxDist(rxDma) => d = rxDma
             /\ BeingRead(d)' = BeingRead(d)
  <2>1. RxDist(d) \in 0 .. n - 1 /\ (RxDist(d) = RxDist(rxDma) => d = rxDma)
    BY <1>1, DistRange DEF RxDist, n
  <2> QED BY <2>1 DEF RxDist, BeingRead
<1>6. RxDist(rxDma) >= RxUnread /\ ~BeingRead(rxDma)
  <2>1. ~BeingRead(rxDma)  BY <1>4 DEF RxHandler, BeingRead
  <2> QED BY <1>1, <1>4, <2>1 DEF RxSlots
<1>7. RxUnread \in Nat /\ RxUnread < n /\ RxDist(rxDma) = RxUnread
  <2>1. RxUnread \in 0 .. n  BY <1>4 DEF RxEnds, n
  <2>2. RxDist(rxDma) \in 0 .. n - 1  BY <1>1, <1>5
  <2>3. RxUnread < n  BY <1>1, <1>6, <2>1, <2>2
  <2> QED BY <1>4, <2>1, <2>3 DEF RxEnds, n
<1>8. RxSlots'
  <2> SUFFICES ASSUME NEW d \in RxDesc
               PROVE  (IF rxOwn[d] = 0 /\ ~BeingRead(d)
                       THEN RxDist(d) < RxUnread /\ rxBuf[d] = RxDone + RxDist(d) + 1
                       ELSE RxDist(d) >= RxUnread)'
    BY DEF RxSlots, RxDesc
  <2>1. CASE d = rxDma
    <3>1. rxOwn'[d] = 0 /\ rxBuf'[d] = rxAccepted + 1  BY <1>1, <2>1
    <3>2. rxAccepted = RxDone + RxUnread  BY <1>2 DEF RxUnread
    <3>3. RxDist(d)' = RxUnread /\ ~BeingRead(d)'  BY <1>5, <1>6, <1>7, <2>1
    <3> QED BY <1>2, <1>3, <1>7, <3>1, <3>2, <3>3
  <2>2. CASE d # rxDma
    <3>1. rxOwn'[d] = rxOwn[d] /\ rxBuf'[d] = rxBuf[d]  BY <1>1, <2>2
    <3>a. RxDist(d) # RxUnread  BY <1>5, <1>7, <2>2
    <3>b. RxDist(d) \in 0 .. n - 1  BY <1>5
    <3>2. RxDist(d) \in Nat /\ RxDist(d) # RxUnread  BY <1>1, <3>a, <3>b
    <3>3. CASE rxOwn[d] = 0 /\ ~BeingRead(d)
      <4>1. RxDist(d) < RxUnread /\ rxBuf[d] = RxDone + RxDist(d) + 1
        BY <1>4, <3>3 DEF RxSlots
      <4>2. RxDist(d)' < RxUnread'  BY <1>3, <1>5, <1>7, <3>2, <4>1
      <4>3. rxBuf'[d] = RxDone' + RxDist(d)' + 1  BY <1>3, <1>5, <3>1, <4>1
      <4> QED BY <1>5, <3>1, <3>3, <4>2, <4>3
    <3>4. CASE ~(rxOwn[d] = 0 /\ ~BeingRead(d))
      <4>1. RxDist(d) >= RxUnread  BY <1>4, <3>4 DEF RxSlots
      <4>2. RxDist(d)' >= RxUnread'  BY <1>3, <1>5, <1>7, <3>2, <4>1
      <4> QED BY <1>5, <3>1, <3>4, <4>2
    <3> QED BY <3>3, <3>4
  <2> QED BY <2>1, <2>2
<1>9. RxEnds'
  <2>1. rxDma' = After(n, rxDma)  BY <1>1, RingMod DEF RxSucc, n
  <2>2. /\ RxUnread + 1 < n => Dist(n, DMARxDescToGet, rxDma') = RxUnread + 1
        /\ RxUnread + 1 = n => rxDma' = DMARxDescToGet
    BY <1>1, <1>7, <2>1, DistWriter DEF RxDist, n
  <2>3. RxUnread' \in 0 .. n  BY <1>1, <1>3, <1>7
  <2> QED BY <1>3, <2>2, <2>3 DEF RxEnds, RxDist, n
<1>10. RxHandler'
  <2>1. \A d \in RxDesc : rxOwn[d] = 0 => rxOwn'[d] = 0 /\ rxBuf'[d] = rxBuf[d]
    BY <1>1
  <2> QED BY <1>1, <1>4, <2>1 DEF RxHandler
<1> QED BY <1>8, <1>9, <1>10 DEF RxOrder

(* ETH_Rx_Packet: the pointer moves on, the descriptor it leaves is the    *)
(* one that is read.                                                       *)
LEMMA RxTaken ==
    ASSUME RxTypes, RxOrder, ETH_Rx_Packet
    PROVE  RxOrder'
<1> DEFINE n == ETH_RXBUFNB
           g == DMARxDescToGet
<1>1. /\ n \in Nat \ {0} /\ rxDma \in RxDesc /\ g \in RxDesc /\ RxDesc = 0 .. n - 1
  BY EthRxAssumption DEF RxTypes, RxTypeOK, RxDesc
<1>2. /\ isr = "rx" /\ isr' = "copy" /\ desc' = g
      /\ UNCHANGED <<rxOwn, rxBuf, rxDma, rxAccepted, copied>>
  BY DEF ETH_Rx_Packet
<1>3. g' = After(n, g)  BY <1>1, RingMod DEF ETH_Rx_Packet, RxSucc
<1>4. RxEnds /\ RxSlots /\ RxHandler /\ copied = [i \in 1 .. Len(copied) |-> i]  BY DEF RxOrder
<1>5. Len(copied) \in Nat /\ rxAccepted \in Nat  BY DEF RxTypes
<1>6. /\ RxDone = Len(copied) /\ RxDone' = Len(copied) + 1 /\ RxDone \in Nat
  BY <1>2, <1>5 DEF RxDone
<1>7. RxUnread' = RxUnread - 1 /\ RxUnread \in Int /\ RxUnread \in 0 .. n
  BY <1>2, <1>4, <1>5, <1>6 DEF RxUnread, RxEnds
<1>8. ~BeingRead(g) /\ rxOwn[g] = 0  BY <1>2, <1>4 DEF BeingRead, RxHandler
<1> HIDE DEF n, g
<1>9. RxDist(g) = 0  BY <1>1, DistRange DEF RxDist, n, g
<1>10. 0 < RxUnread /\ rxBuf[g] = Len(copied) + 1
  <2>1. RxDist(g) < RxUnread /\ rxBuf[g] = RxDone + RxDist(g) + 1
    BY <1>1, <1>4, <1>8 DEF RxSlots
  <2> QED BY <1>5, <1>6, <1>9, <2>1
<1>11. ASSUME NEW d \in RxDesc
       PROVE  /\ RxDist(d) \in 0 .. n - 1
              /\ d = g => RxDist(d)' = n - 1
              /\ d # g => RxDist(d)' = RxDist(d) - 1
  <2>1. RxDist(d) \in 0 .. n - 1  BY <1>1, DistRange DEF RxDist, n, g
  <2>2. RxDist(d)' = Dist(n, After(n, g), d)  BY <1>3 DEF RxDist, n, g
  <2> QED BY <1>1, <2>1, <2>2, DistReader DEF RxDist, n, g
<1>12. RxSlots'
  <2> SUFFICES ASSUME NEW d \in RxDesc
               PROVE  (IF rxOwn[d] = 0 /\ ~BeingRead(d)
                       THEN RxDist(d) < RxUnread /\ rxBuf[d] = RxDone + RxDist(d) + 1
                       ELSE RxDist(d) >= RxUnread)'
    BY DEF RxSlots, RxDesc
  <2>0. RxDist(d) \in 0 .. n - 1  BY <1>11
  <2>1. CASE d = g
    <3>1. BeingRead(d)'  BY <1>2, <2>1 DEF BeingRead
    <3>2. RxDist(d)' >= RxUnread'  BY <1>1, <1>7, <1>11, <2>1
    <3> QED BY <3>1, <3>2
  <2>2. CASE d # g
    <3>1. ~BeingRead(d)' /\ ~BeingRead(d)  BY <1>2, <2>2 DEF BeingRead
    <3>2. RxDist(d)' = RxDist(d) - 1  BY <1>11, <2>2
    <3>3. CASE rxOwn[d] = 0
      <4>1. RxDist(d) < RxUnread /\ rxBuf[d] = RxDone + RxDist(d) + 1
        BY <1>4, <3>1, <3>3 DEF RxSlots
      <4>2. RxDist(d)' < RxUnread'  BY <1>1, <1>7, <2>0, <3>2, <4>1
      <4>3. rxBuf'[d] = RxDone' + RxDist(d)' + 1
        BY <1>1, <1>2, <1>6, <2>0, <3>2, <4>1
      <4> QED BY <1>2, <3>1, <3>3, <4>2, <4>3
    <3>4. CASE rxOwn[d] # 0
      <4>1. RxDist(d) >= RxUnread  BY <1>4, <3>4 DEF RxSlots
      <4>2. RxDist(d)' >= RxUnread'  BY <1>1, <1>7, <2>0, <3>2, <4>1
      <4> QED BY <1>2, <3>4, <4>2
    <3> QED BY <3>3, <3>4
  <2> QED BY <2>1, <2>2
<1>13. RxEnds'
  <2>1. RxUnread' \in 0 .. n /\ RxUnread' < n  BY <1>1, <1>7, <1>10
  <2>2. RxDist(rxDma)' = RxUnread - 1
    <3>0. RxDist(rxDma)' = Dist(n, g', rxDma)  BY <1>2 DEF RxDist, n, g
    <3>1. CASE RxUnread < n
      <4>1. RxDist(rxDma) = RxUnread  BY <1>4, <3>1 DEF RxEnds, n
      <4>2. rxDma # g  BY <1>9, <1>10, <4>1
      <4>3. Dist(n, g', rxDma) = RxDist(rxDma) - 1
        BY <1>1, <1>3, <4>2, DistReader DEF RxDist, n, g
      <4> QED BY <3>0, <4>1, <4>3
    <3>2. CASE RxUnread = n
      <4>1. rxDma = g  BY <1>4, <3>2 DEF RxEnds, n, g
      <4>2. Dist(n, g', rxDma) = n - 1  BY <1>1, <1>3, <4>1, DistReader
      <4> QED BY <3>0, <3>2, <4>2
    <3> QED BY <1>1, <1>7, <3>1, <3>2
  <2>3. ~(RxUnread' = n)  BY <1>1, <2>1
  <2> QED BY <1>7, <2>1, <2>2, <2>3 DEF RxEnds, n
<1>14. RxHandler'
  BY <1>2, <1>3, <1>8, <1>10 DEF RxHandler, n, g
<1> QED BY <1>2, <1>4, <1>12, <1>13, <1>14 DEF RxOrder

(* CopyIn: the frame read is the one that comes next.                      *)
LEMMA RxCopied ==
    ASSUME RxTypes, RxOrder, CopyIn
    PROVE  RxOrder' /\ copied' \in Seq(Nat) /\ rxBuf[desc] # 0
<1>1. /\ isr = "copy" /\ isr' = "give" /\ copied' = Append(copied, rxBuf[desc])
      /\ UNCHANGED <<rxRing, rxAccepted>>
  BY DEF CopyIn
<1>2. RxEnds /\ RxSlots /\ RxHandler /\ copied = [i \in 1 .. Len(copied) |-> i]  BY DEF RxOrder
<1>3. copied \in Seq(Nat) /\ Len(copied) \in Nat  BY DEF RxTypes
<1>4. rxBuf[desc] = Len(copied) + 1  BY <1>1, <1>2 DEF RxHandler
<1>5. /\ copied' \in Seq(Nat) /\ Len(copied') = Len(copied) + 1
      /\ copied' = [i \in 1 .. Len(copied') |-> i]
  BY <1>1, <1>2, <1>3, <1>4
<1>6. RxDone' = RxDone  BY <1>1, <1>3, <1>5 DEF RxDone
<1>7. RxUnread' = RxUnread  BY <1>1, <1>6 DEF RxUnread
<1>8. \A d \in RxDesc : RxDist(d)' = RxDist(d) /\ BeingRead(d)' = BeingRead(d)
  BY <1>1 DEF RxDist, rxRing, BeingRead
<1>9. RxSlots'  BY <1>1, <1>2, <1>6, <1>7, <1>8 DEF RxSlots, rxRing
<1>10. RxDist(rxDma)' = RxDist(rxDma)  BY <1>1 DEF RxDist, rxRing
<1>11. RxEnds'  BY <1>1, <1>2, <1>7, <1>10 DEF RxEnds, rxRing
<1>12. RxHandler'  BY <1>1, <1>2 DEF RxHandler, rxRing
<1> QED BY <1>3, <1>4, <1>5, <1>9, <1>11, <1>12 DEF RxOrder

(* The descriptor read goes back to the DMA, at the end of the ring.       *)
LEMMA RxGivenBack ==
    ASSUME RxTypes, RxOrder, GiveBack
    PROVE  RxOrder'
<1>1. /\ isr = "give" /\ isr' \in {"test", "input"} /\ rxOwn' = [rxOwn EXCEPT ![desc] = 1]
      /\ UNCHANGED <<rxBuf, rxDma, DMARxDescToGet, desc, rxAccepted, copied>>
  BY DEF GiveBack
<1>2. RxEnds /\ RxSlots /\ RxHandler  BY DEF RxOrder
<1>3. RxDone' = RxDone /\ RxUnread' = RxUnread  BY <1>1 DEF RxDone, RxUnread
<1>4. \A d \in RxDesc : RxDist(d)' = RxDist(d) /\ ~BeingRead(d)' /\ (BeingRead(d) <=> d = desc)
  BY <1>1 DEF RxDist, BeingRead
<1>5. rxOwn \in [RxDesc -> 0 .. 1]  BY DEF RxTypes, RxTypeOK
<1>6. RxSlots'
  <2> SUFFICES ASSUME NEW d \in RxDesc
               PROVE  (IF rxOwn[d] = 0 /\ ~BeingRead(d)
                       THEN RxDist(d) < RxUnread /\ rxBuf[d] = RxDone + RxDist(d) + 1
                       ELSE RxDist(d) >= RxUnread)'
    BY DEF RxSlots, RxDesc
  <2>1. CASE d = desc
    <3>1. rxOwn'[d] = 1  BY <1>1, <1>5, <2>1
    <3>2. RxDist(d) >= RxUnread  BY <1>2, <1>4, <2>1 DEF RxSlots
    <3> QED BY <1>3, <1>4, <3>1, <3>2
  <2>2. CASE d # desc
    <3>1. rxOwn'[d] = rxOwn[d]  BY <1>1, <1>5, <2>2
    <3> QED BY <1>1, <1>2, <1>3, <1>4, <2>2, <3>1 DEF RxSlots
  <2> QED BY <2>1, <2>2
<1>7. RxDist(rxDma)' = RxDist(rxDma)  BY <1>1 DEF RxDist
<1>8. RxEnds'  BY <1>1, <1>2, <1>3, <1>7 DEF RxEnds
<1>9. RxHandler'  BY <1>1 DEF RxHandler
<1> QED BY <1>1, <1>6, <1>8, <1>9 DEF RxOrder

(* The frames lost and stored, and the interrupt flag: nothing of the      *)
(* pools.                                                                  *)
LEMMA RxDmaStep ==
    ASSUME RxInv, DmaReceive
    PROVE  RxInv'
<1>1. RxTypes /\ RxTypeOK /\ RxOrder /\ RxPools  BY DEF RxInv, RxTypes
<1>2. /\ UNCHANGED <<DMARxDescToGet, desc, isr, pbuf, pools, copied>>
      /\ wire < MaxRxFrames /\ wire' = wire + 1
  BY DEF DmaReceive
<1>3. wire \in Nat /\ MaxRxFrames \in Nat /\ rxAccepted \in Nat /\ rxAccepted <= wire
  BY <1>1, EthRxAssumption DEF RxTypes, RxTypeOK
<1>4. wire' \in 0 .. MaxRxFrames /\ rxAccepted + 1 \in 0 .. MaxRxFrames  BY <1>2, <1>3
<1>5. CASE /\ rxOwn[rxDma] = 1 /\ rxBuf' = [rxBuf EXCEPT ![rxDma] = rxAccepted + 1]
           /\ rxOwn' = [rxOwn EXCEPT ![rxDma] = 0] /\ rxDma' = RxSucc(rxDma) /\ irq' = 1
           /\ rxAccepted' = rxAccepted + 1 /\ UNCHANGED rbus
  <2>1. RxOrder'  BY <1>1, <1>2, <1>5, RxStored
  <2>2. rxDma' \in RxDesc
    BY <1>1, <1>5, EthRxAssumption DEF RxTypeOK, RxDesc, RxSucc
  <2>3. rxBuf' \in [RxDesc -> 0 .. MaxRxFrames] /\ rxOwn' \in [RxDesc -> 0 .. 1]
    BY <1>1, <1>4, <1>5 DEF RxTypeOK
  <2>4. RxTypeOK'  BY <1>1, <1>2, <1>4, <1>5, <2>2, <2>3 DEF RxTypeOK, RxDesc, pools
  <2>5. RxTypes'
    <3>1. rxAccepted' \in Nat /\ rxAccepted' <= wire'  BY <1>2, <1>3, <1>5
    <3> QED BY <1>1, <1>2, <2>4, <3>1 DEF RxTypes, pools
  <2>6. RxPools'  BY <1>1, <1>2, <2>4 DEF RxPools, PoolsAccounted, pools
  <2> QED BY <2>1, <2>5, <2>6 DEF RxInv
<1>6. CASE rbus' = 1 /\ UNCHANGED <<rxBuf, rxOwn, rxDma, irq, rxAccepted, late, window>>
  <2>1. RxOrder'
    BY <1>1, <1>2, <1>6
    DEF RxOrder, RxEnds, RxSlots, RxHandler, RxDist, RxUnread, RxDone, BeingRead
  <2>2. RxTypeOK'  BY <1>1, <1>2, <1>4, <1>6 DEF RxTypeOK, RxDesc, pools
  <2>3. RxTypes'
    <3>1. rxAccepted' \in Nat /\ rxAccepted' <= wire'  BY <1>2, <1>3, <1>6
    <3> QED BY <1>1, <1>2, <2>2, <3>1 DEF RxTypes, pools
  <2>4. RxPools'  BY <1>1, <1>2, <2>2 DEF RxPools, PoolsAccounted, pools
  <2> QED BY <2>1, <2>3, <2>4 DEF RxInv
<1> QED BY <1>5, <1>6 DEF DmaReceive

(* The steps of the handler that only look and move.                       *)
LEMMA RxLooks ==
    ASSUME RxInv, EnterIsr \/ Test \/ ClearFlag \/ ETH_Rx_Packet
    PROVE  RxInv'
<1>1. RxTypes /\ RxTypeOK /\ RxOrder /\ RxPools  BY DEF RxInv, RxTypes
<1>2. /\ UNCHANGED <<rxOwn, rxBuf, rxDma, rbus, pbuf, pools, wire, rxAccepted, copied>>
      /\ isr \in {"idle", "test", "clear", "rx"} /\ isr' \in {"idle", "test", "clear", "rx", "copy"}
  BY DEF EnterIsr, Test, ClearFlag, ETH_Rx_Packet, rxRing
<1>3. irq' \in 0 .. 1 /\ desc' \in RxDesc /\ DMARxDescToGet' \in RxDesc
  <2>1. CASE EnterIsr \/ Test  BY <1>1, <2>1 DEF EnterIsr, Test, rxRing, RxTypeOK
  <2>2. CASE ClearFlag  BY <1>1, <2>2 DEF ClearFlag, rxRing, RxTypeOK
  <2>3. CASE ETH_Rx_Packet
    <3>1. RxSucc(DMARxDescToGet) \in RxDesc
      BY <1>1, EthRxAssumption DEF RxTypeOK, RxDesc, RxSucc
    <3> QED BY <1>1, <2>3, <3>1 DEF ETH_Rx_Packet, RxTypeOK
  <2> QED BY <2>1, <2>2, <2>3
<1>4. RxOrder'
  <2>1. CASE EnterIsr
    <3>1. /\ UNCHANGED <<rxRing, rxAccepted, copied>>
          /\ isr \notin {"copy", "give"} /\ isr' \notin {"rx", "copy", "give"}
      BY <2>1 DEF EnterIsr
    <3> QED BY <1>1, <3>1, RxRingKept
  <2>2. CASE Test
    <3>1. /\ UNCHANGED <<rxRing, rxAccepted, copied>>
          /\ isr \notin {"copy", "give"} /\ isr' \notin {"copy", "give"}
          /\ isr' = "rx" => rxOwn[DMARxDescToGet] = 0
      BY <2>2 DEF Test, Received
    <3> QED BY <1>1, <3>1, RxRingKept
  <2>3. CASE ClearFlag
    <3>1. /\ UNCHANGED <<rxRing, rxAccepted, copied>>
          /\ isr \notin {"copy", "give"} /\ isr' \notin {"rx", "copy", "give"}
      BY <2>3 DEF ClearFlag
    <3> QED BY <1>1, <3>1, RxRingKept
  <2>4. CASE ETH_Rx_Packet  BY <1>1, <2>4, RxTaken
  <2> QED BY <2>1, <2>2, <2>3, <2>4
<1>5. RxTypeOK'  BY <1>1, <1>2, <1>3 DEF RxTypeOK, RxDesc, pools
<1>6. RxTypes'  BY <1>1, <1>2, <1>5 DEF RxTypes, pools
<1>7. RxPools'
  <2>1. pbuf = 0  BY <1>1, <1>2 DEF RxPools
  <2>2. isr' # "input"  BY <1>2
  <2> QED BY <1>1, <1>2, <1>5, <2>1, <2>2 DEF RxPools, PoolsAccounted, pools
<1> QED BY <1>4, <1>6, <1>7 DEF RxInv

(* low_level_input and tcpip_input: a pbuf is taken and goes to the        *)
(* mailbox, with a message, or back to the pool.                           *)
LEMMA RxPacketStep ==
    ASSUME RxInv, CopyIn \/ GiveBack \/ tcpip_input
    PROVE  RxInv'
<1>1. RxTypes /\ RxTypeOK /\ RxOrder /\ RxPools  BY DEF RxInv, RxTypes
<1>2. /\ free \in Nat /\ msgs \in Nat /\ Len(mbox) \in Nat /\ held \in Nat
      /\ mbox \in Seq(Nat) /\ pbuf \in Nat /\ MboxSize \in Nat /\ PoolSize \in Nat
      /\ MaxRxFrames \in Nat /\ Len(mbox) <= MboxSize
  BY <1>1, EthRxAssumption DEF RxTypes, RxTypeOK
<1>3. CASE CopyIn
  <2>1. /\ isr = "copy" /\ isr' = "give"
        /\ UNCHANGED <<rxRing, rbus, irq, msgs, mbox, held, wire, rxAccepted, late, window>>
    BY <1>3 DEF CopyIn
  <2>2. RxOrder' /\ copied' \in Seq(Nat) /\ rxBuf[desc] # 0  BY <1>1, <1>3, RxCopied
  <2>3. pbuf = 0 /\ rxBuf[desc] \in 0 .. MaxRxFrames
    BY <1>1, <2>1 DEF RxPools, RxTypeOK
  <2>4. free + Len(mbox) + held = PoolSize /\ msgs + Len(mbox) = MsgPool
    BY <1>1, <1>2, <2>3 DEF RxPools, PoolsAccounted
  <2>5. CASE free > 0 /\ pbuf' = rxBuf[desc] /\ free' = free - 1
    <3>1. free' \in Nat /\ pbuf' # 0 /\ pbuf' \in 0 .. MaxRxFrames  BY <1>2, <2>2, <2>3, <2>5
    <3>2. free' + 1 + Len(mbox) + held = PoolSize  BY <1>2, <2>4, <2>5
    <3>3. RxTypeOK'  BY <1>1, <2>1, <3>1 DEF RxTypeOK, RxDesc, rxRing
    <3>4. RxTypes'  BY <1>1, <2>1, <2>2, <3>1, <3>3 DEF RxTypes
    <3>5. RxPools'  BY <2>1, <2>4, <3>1, <3>2, <3>3 DEF RxPools, PoolsAccounted
    <3> QED BY <2>2, <3>4, <3>5 DEF RxInv
  <2>6. CASE free = 0 /\ pbuf' = 0 /\ UNCHANGED free
    <3>1. RxTypeOK'  BY <1>1, <1>2, <2>1, <2>6 DEF RxTypeOK, RxDesc, rxRing
    <3>2. RxTypes'  BY <1>1, <2>1, <2>2, <2>6, <3>1 DEF RxTypes
    <3>3. RxPools'
      <4>1. free' + 0 + Len(mbox)' + held' = PoolSize  BY <1>2, <2>1, <2>4, <2>6
      <4> QED BY <2>1, <2>4, <2>6, <3>1, <4>1 DEF RxPools, PoolsAccounted
    <3> QED BY <2>2, <3>2, <3>3 DEF RxInv
  <2> QED BY <1>3, <2>5, <2>6 DEF CopyIn
<1>4. CASE GiveBack
  <2>1. /\ isr = "give" /\ isr' = IF pbuf = 0 THEN "test" ELSE "input"
        /\ rxOwn' = [rxOwn EXCEPT ![desc] = 1] /\ rbus' = 0
        /\ UNCHANGED <<rxBuf, rxDma, DMARxDescToGet, desc, irq, pbuf, pools, wire, rxAccepted,
                       copied>>
    BY <1>4 DEF GiveBack
  <2>2. RxOrder'  BY <1>1, <1>4, RxGivenBack
  <2>3. rxOwn' \in [RxDesc -> 0 .. 1]  BY <1>1, <2>1 DEF RxTypeOK
  <2>4. RxTypeOK'  BY <1>1, <2>1, <2>3 DEF RxTypeOK, RxDesc, pools
  <2>5. RxTypes'  BY <1>1, <2>1, <2>4 DEF RxTypes, pools
  <2>6. RxPools'  BY <1>1, <2>1, <2>4 DEF RxPools, PoolsAccounted, pools
  <2> QED BY <2>2, <2>5, <2>6 DEF RxInv
<1>5. CASE tcpip_input
  <2>1. /\ isr = "input" /\ isr' = "test" /\ pbuf' = 0
        /\ UNCHANGED <<rxRing, rbus, irq, held, wire, rxAccepted, copied>>
    BY <1>5 DEF tcpip_input
  <2>2. pbuf # 0  BY <1>1, <2>1 DEF RxPools
  <2>3. free + 1 + Len(mbox) + held = PoolSize /\ msgs + Len(mbox) = MsgPool
    BY <1>1, <1>2, <2>2 DEF RxPools, PoolsAccounted
  <2>4. RxOrder'  BY <1>1, <2>1, RxRingKept
  <2>5. ASSUME free' \in Nat, msgs' \in Nat, mbox' \in Seq(Nat), Len(mbox') <= MboxSize,
               free' + 0 + Len(mbox') + held = PoolSize, msgs' + Len(mbox') = MsgPool
        PROVE  RxInv'
    <3>1. RxTypeOK'  BY <1>1, <1>2, <2>1, <2>5 DEF RxTypeOK, RxDesc, rxRing
    <3>2. RxTypes'  BY <1>1, <2>1, <2>5, <3>1 DEF RxTypes
    <3>3. RxPools'  BY <2>1, <2>5, <3>1 DEF RxPools, PoolsAccounted
    <3> QED BY <2>4, <3>2, <3>3 DEF RxInv
  <2>6. CASE /\ Len(mbox) < MboxSize /\ msgs > 0 /\ mbox' = Append(mbox, pbuf)
             /\ msgs' = msgs - 1 /\ UNCHANGED free
    <3>1. mbox' \in Seq(Nat) /\ Len(mbox') = Len(mbox) + 1  BY <1>2, <2>6
    <3>2. /\ msgs' \in Nat /\ Len(mbox') <= MboxSize /\ msgs' + Len(mbox') = MsgPool
          /\ free' + 0 + Len(mbox') + held = PoolSize
      BY <1>2, <2>3, <2>6, <3>1
    <3> QED BY <1>2, <2>5, <2>6, <3>1, <3>2
  <2>7. CASE free' = free + 1 /\ UNCHANGED <<mbox, msgs>>
    <3>1. free' \in Nat /\ free' + 0 + Len(mbox') + held = PoolSize  BY <1>2, <2>3, <2>7
    <3> QED BY <1>2, <2>3, <2>5, <2>7, <3>1
  <2> QED BY <1>5, <2>6, <2>7 DEF tcpip_input
<1> QED BY <1>3, <1>4, <1>5

(* tcpip_thread takes a packet, and the protocols free one.                *)
LEMMA RxThreadStep ==
    ASSUME RxInv, Packet \/ pbuf_free
    PROVE  RxInv'
<1>1. RxTypes /\ RxTypeOK /\ RxOrder /\ RxPools  BY DEF RxInv, RxTypes
<1>2. /\ free \in Nat /\ msgs \in Nat /\ Len(mbox) \in Nat /\ held \in Nat
      /\ mbox \in Seq(Nat) /\ MboxSize \in Nat /\ PoolSize \in Nat /\ Len(mbox) <= MboxSize
  BY <1>1, EthRxAssumption DEF RxTypes, RxTypeOK
<1>3. /\ isr = "idle" /\ isr' = "idle"
      /\ UNCHANGED <<rxRing, rbus, irq, pbuf, wire, rxAccepted, copied>>
  BY DEF Packet, pbuf_free
<1>4. RxOrder'  BY <1>1, <1>3, RxRingKept
<1>5. pbuf = 0  BY <1>1, <1>3 DEF RxPools
<1>6. free + Len(mbox) + held = PoolSize /\ msgs + Len(mbox) = MsgPool
  BY <1>1, <1>2, <1>5 DEF RxPools, PoolsAccounted
<1>7. /\ free' \in Nat /\ msgs' \in Nat /\ held' \in Nat /\ mbox' \in Seq(Nat)
      /\ Len(mbox') <= MboxSize /\ free' + 0 + Len(mbox') + held' = PoolSize
      /\ msgs' + Len(mbox') = MsgPool
  <2>1. CASE Packet
    <3>1. mbox' \in Seq(Nat) /\ Len(mbox') = Len(mbox) - 1  BY <1>2, <2>1 DEF Packet
    <3>2. msgs' = msgs + 1 /\ held' = held + 1 /\ free' = free  BY <2>1 DEF Packet
    <3>3. Len(mbox') \in Nat  BY <3>1
    <3> QED BY <1>2, <1>6, <3>1, <3>2, <3>3
  <2>2. CASE pbuf_free
    <3>1. mbox' = mbox /\ msgs' = msgs /\ held' = held - 1 /\ free' = free + 1 /\ held > 0
      BY <2>2 DEF pbuf_free
    <3> QED BY <1>2, <1>6, <3>1
  <2> QED BY <2>1, <2>2
<1>8. held' \in 0 .. PoolSize
  <2>1. Len(mbox') \in Nat  BY <1>7
  <2> QED BY <1>2, <1>7, <2>1
<1>9. RxTypeOK'  BY <1>1, <1>3, <1>7, <1>8 DEF RxTypeOK, RxDesc, rxRing
<1>10. RxTypes'  BY <1>1, <1>3, <1>7, <1>9 DEF RxTypes
<1>11. RxPools'  BY <1>3, <1>5, <1>7, <1>9 DEF RxPools, PoolsAccounted
<1> QED BY <1>4, <1>10, <1>11 DEF RxInv

(* Every step of the DMA, the handler and tcpip_thread.                    *)
LEMMA RxNextInv == RxInv /\ [RxNext]_rxVars => RxInv'
<1> SUFFICES ASSUME RxInv, [RxNext]_rxVars PROVE RxInv'  OBVIOUS
<1>1. CASE UNCHANGED rxVars
  BY <1>1 DEF rxVars, rxRing, pools, RxInv, RxTypes, RxTypeOK, RxOrder, RxEnds, RxSlots,
              RxHandler, RxDist, RxUnread, RxDone, BeingRead, RxPools, PoolsAccounted
<1> QED BY <1>1, RxDmaStep, RxLooks, RxPacketStep, RxThreadStep DEF RxNext, Isr

(* For every size of the ring, of the pools and of the mailbox, and        *)
(* however frames arrive between the steps of ETH_IRQHandler: no accepted  *)
(* frame is lost, repeated, reordered or overwritten in the ring, and no   *)
(* pbuf or message is lost, also on the error paths.                       *)
THEOREM ReceiveCorrect == RxSpec => []RxExact
<1> QED BY RxInitInv, RxNextInv, RxInvExact, PTL DEF RxSpec

-----------------------------------------------------------------------------
(***************************************************************************)
(* Sending, with one sender.  TxOrder is SentInOrder with distances and    *)
(* with where the ring ends: at DMATxDescToSet, or one further between     *)
(* SetOwn and Advance.  TxCaller is what low_level_output knows between    *)
(* its steps, TxBytes what is in the buffers as long as no frame was given *)
(* when the ring was full.                                                 *)
(***************************************************************************)
OneSender == \A t, u \in Tasks : t = u

TxDist(d) == Dist(ETH_TXBUFNB, txDma, d)

TxQueued == Len(txAccepted) - Len(sent)

Given == \E t \in Tasks : txPc[t] \in {"resume", "advance"}

TxEnd == IF Given THEN After(ETH_TXBUFNB, DMATxDescToSet) ELSE DMATxDescToSet

TxStates == {"idle", "copy1", "copy2", "test", "size", "own", "resume", "advance"}

TxTypes ==
    /\ TxTypeOK
    /\ txPc \in [Tasks -> TxStates]
    /\ frame \in [Tasks -> 0 .. MaxTxFrames] /\ buffer \in [Tasks -> TxDesc]
    /\ frames \in 0 .. MaxTxFrames
    /\ txLen \in [TxDesc -> 0 .. MaxTxFrames]
    /\ txBuf \in [TxDesc -> Seq(Nat)] /\ \A d \in TxDesc : Len(txBuf[d]) = 2
    /\ txAccepted \in Seq(Nat) /\ sent \in Seq(Seq(Nat))

TxSlots ==
    \A d \in TxDesc :
        IF txOwn[d] = 1
        THEN TxDist(d) < TxQueued /\ txLen[d] = txAccepted[Len(sent) + TxDist(d) + 1]
        ELSE TxDist(d) >= TxQueued

TxEnds ==
    /\ TxQueued \in 0 .. ETH_TXBUFNB
    /\ TxQueued < ETH_TXBUFNB => TxDist(TxEnd) = TxQueued
    /\ TxQueued = ETH_TXBUFNB => TxEnd = txDma

TxOrder ==
    /\ \A i \in 1 .. Len(sent) : sent[i][3] = txAccepted[i]
    /\ TxSlots /\ TxEnds

TxCaller ==
    \A t \in Tasks :
        /\ txPc[t] \in {"copy1", "copy2", "test", "size", "own"} => buffer[t] = DMATxDescToSet
        /\ txPc[t] \in {"size", "own"} => txOwn[DMATxDescToSet] = 0
        /\ txPc[t] = "own" => txLen[DMATxDescToSet] = frame[t]

(* The DMA's buffers, and the one low_level_output has filled so far.      *)
TxOwned ==
    \A d \in TxDesc : txOwn[d] = 1 => txBuf[d][1] = txLen[d] /\ txBuf[d][2] = txLen[d]

TxFilled ==
    \A t \in Tasks :
        /\ txPc[t] \in {"copy2", "test", "size", "own"} =>
              txOwn[DMATxDescToSet] = 0 /\ txBuf[DMATxDescToSet][1] = frame[t]
        /\ txPc[t] \in {"test", "size", "own"} => txBuf[DMATxDescToSet][2] = frame[t]

TxBytes == overrun = 0 => Intact /\ TxOwned /\ TxFilled

(* The inductive invariant.                                                *)
TxInv == OneSender /\ TxTypes /\ TxOrder /\ TxCaller /\ TxBytes

(* The invariant is what the runs check.                                   *)
LEMMA TxInvExact == TxInv => SentExact
<1> SUFFICES ASSUME TxInv PROVE SentExact  OBVIOUS
<1>1. ETH_TXBUFNB \in Nat \ {0} /\ txDma \in 0 .. ETH_TXBUFNB - 1 /\ TxTypeOK
  BY EthTxAssumption DEF TxInv, TxTypes, TxTypeOK, TxDesc
<1>2. ASSUME NEW d \in TxDesc PROVE TxAhead(d) = TxDist(d)
  BY <1>1, RingMod DEF TxAhead, TxDist, TxDesc
<1>3. SentInOrder
  BY <1>1, <1>2 DEF TxInv, TxOrder, TxSlots, TxEnds, TxQueued, SentInOrder
<1>4. IntactUnlessOverrun  BY DEF TxInv, TxBytes, IntactUnlessOverrun
<1> QED BY <1>3, <1>4 DEF SentExact

(* Nothing given and nothing sent.                                         *)
LEMMA TxInitInv == TxInit /\ OneSender => TxInv
<1> SUFFICES ASSUME TxInit, OneSender PROVE TxInv  OBVIOUS
<1>1. ETH_TXBUFNB \in Nat \ {0} /\ MaxTxFrames \in Nat  BY EthTxAssumption
<1>2. /\ txOwn = [d \in TxDesc |-> 0] /\ txBuf = [d \in TxDesc |-> <<0, 0>>]
      /\ txLen = [d \in TxDesc |-> 0] /\ txDma = 0 /\ tbus = 0 /\ DMATxDescToSet = 0
      /\ txPc = [t \in Tasks |-> "idle"]
      /\ buffer = [t \in Tasks |-> 0] /\ frame = [t \in Tasks |-> 0]
      /\ frames = 0 /\ txAccepted = <<>> /\ sent = <<>> /\ overrun = 0
  BY DEF TxInit
<1>3. TxTypes
  <2>1. 0 \in TxDesc  BY <1>1 DEF TxDesc
  <2>2. TxTypeOK  BY <1>1, <1>2, <2>1 DEF TxTypeOK
  <2> QED BY <1>1, <1>2, <2>1, <2>2 DEF TxTypes, TxStates
<1>4. Len(sent) = 0 /\ TxQueued = 0
  <2>1. Len(sent) = 0 /\ Len(txAccepted) = 0  BY <1>2
  <2> QED BY <2>1 DEF TxQueued
<1>5. ASSUME NEW d \in TxDesc PROVE TxDist(d) \in 0 .. ETH_TXBUFNB - 1
  BY <1>1, <1>3, DistRange DEF TxDist, TxDesc, TxTypes, TxTypeOK
<1>6. TxEnd = 0  BY <1>2 DEF TxEnd, Given
<1>7. TxDist(TxEnd) = 0  BY <1>1, <1>2, <1>6 DEF TxDist, Dist
<1>8. TxEnds  BY <1>1, <1>4, <1>7 DEF TxEnds
<1>9. TxSlots  BY <1>1, <1>2, <1>4, <1>5 DEF TxSlots
<1>10. TxOrder  BY <1>4, <1>8, <1>9 DEF TxOrder
<1>11. TxCaller  BY <1>2 DEF TxCaller
<1>12. TxBytes  BY <1>2, <1>4 DEF TxBytes, Intact, TxOwned, TxFilled
<1> QED BY <1>3, <1>10, <1>11, <1>12 DEF TxInv

(* Types that the steps of the ring need.                                  *)
LEMMA TxFacts ==
    ASSUME TxInv
    PROVE  /\ ETH_TXBUFNB \in Nat \ {0} /\ TxDesc = 0 .. ETH_TXBUFNB - 1
           /\ txDma \in TxDesc /\ DMATxDescToSet \in TxDesc /\ TxEnd \in TxDesc
           /\ txOwn \in [TxDesc -> 0 .. 1]
           /\ txAccepted \in Seq(Nat) /\ sent \in Seq(Seq(Nat))
           /\ Len(txAccepted) \in Nat /\ Len(sent) \in Nat
           /\ TxQueued \in Nat /\ TxQueued \in 0 .. ETH_TXBUFNB
           /\ Len(txAccepted) = Len(sent) + TxQueued
<1>1. /\ ETH_TXBUFNB \in Nat \ {0} /\ TxDesc = 0 .. ETH_TXBUFNB - 1
      /\ txDma \in TxDesc /\ DMATxDescToSet \in TxDesc
      /\ txOwn \in [TxDesc -> 0 .. 1]
      /\ txAccepted \in Seq(Nat) /\ sent \in Seq(Seq(Nat))
  BY EthTxAssumption DEF TxInv, TxTypes, TxTypeOK, TxDesc
<1>2. TxEnd \in TxDesc  BY <1>1, DistRange DEF TxEnd
<1>3. Len(txAccepted) \in Nat /\ Len(sent) \in Nat  BY <1>1
<1>4. TxQueued \in 0 .. ETH_TXBUFNB  BY DEF TxInv, TxOrder, TxEnds
<1>5. TxQueued \in Nat  BY <1>1, <1>4
<1>6. Len(txAccepted) = Len(sent) + TxQueued  BY <1>3 DEF TxQueued
<1> QED BY <1>1, <1>2, <1>3, <1>4, <1>5, <1>6

(* A buffer and the length of its descriptor.                              *)
LEMMA LengthAppended ==
    ASSUME NEW b \in Seq(Nat), NEW l \in Nat
    PROVE  /\ Append(b, l) \in Seq(Nat)
           /\ Len(b) = 2 => /\ Len(Append(b, l)) = 3 /\ Append(b, l)[3] = l
                            /\ Append(b, l)[1] = b[1] /\ Append(b, l)[2] = b[2]
<1> DEFINE a == Append(b, l)
<1>1. /\ a \in Seq(Nat) /\ Len(a) = Len(b) + 1
      /\ \A i \in 1 .. Len(b) : a[i] = b[i]
      /\ a[Len(b) + 1] = l
  OBVIOUS
<1> HIDE DEF a
<1>2. Len(b) = 2 => a[1] = b[1] /\ a[2] = b[2] /\ a[3] = l /\ Len(a) = 3  BY <1>1
<1> QED BY <1>1, <1>2 DEF a

(* The DMA sends the frame at its pointer, which is the next one.          *)
LEMMA TxSentStep ==
    ASSUME TxInv, DmaSend
    PROVE  TxInv'
<1> DEFINE n == ETH_TXBUFNB
           e == Append(txBuf[txDma], txLen[txDma])
<1>1. /\ txOwn[txDma] = 1 /\ sent' = Append(sent, e) /\ txOwn' = [txOwn EXCEPT ![txDma] = 0]
      /\ UNCHANGED <<txBuf, txLen, tbus, DMATxDescToSet, txPc, buffer, frame, frames, txAccepted,
                     overrun>>
  BY DEF DmaSend, local
<1>2. /\ n \in Nat \ {0} /\ TxDesc = 0 .. n - 1 /\ txDma \in TxDesc /\ TxEnd \in TxDesc
      /\ txOwn \in [TxDesc -> 0 .. 1] /\ sent \in Seq(Seq(Nat))
      /\ Len(txAccepted) \in Nat /\ Len(sent) \in Nat
      /\ TxQueued \in Nat /\ TxQueued \in 0 .. n /\ Len(txAccepted) = Len(sent) + TxQueued
  BY TxFacts
<1>3. txDma' = After(n, txDma)  BY <1>2, RingMod DEF DmaSend, TxSucc
<1>4. TxTypes /\ TxOrder /\ TxCaller /\ TxBytes /\ OneSender  BY DEF TxInv
<1>5. txDma' \in TxDesc  BY <1>2, <1>3, DistRange
<1>6. txBuf[txDma] \in Seq(Nat) /\ Len(txBuf[txDma]) = 2 /\ txLen[txDma] \in Nat
  BY <1>2, <1>4, EthTxAssumption DEF TxTypes
<1>7. e \in Seq(Nat) /\ Len(e) = 3 /\ e[3] = txLen[txDma]
      /\ e[1] = txBuf[txDma][1] /\ e[2] = txBuf[txDma][2]
  BY <1>6, LengthAppended
<1> HIDE DEF e, n
<1>8. sent' \in Seq(Seq(Nat)) /\ Len(sent') = Len(sent) + 1 /\ sent'[Len(sent) + 1] = e
      /\ \A i \in 1 .. Len(sent) : sent'[i] = sent[i]
  BY <1>1, <1>2, <1>7, AppendProperties
<1>9. TxQueued' = TxQueued - 1  BY <1>1, <1>2, <1>8 DEF TxQueued
<1>10. TxDist(txDma) = 0  BY <1>2, DistRange DEF TxDist, n
<1>11. 0 < TxQueued /\ txLen[txDma] = txAccepted[Len(sent) + 1]
  <2>1. TxDist(txDma) < TxQueued /\ txLen[txDma] = txAccepted[Len(sent) + TxDist(txDma) + 1]
    BY <1>1, <1>2, <1>4 DEF TxOrder, TxSlots
  <2> QED BY <1>2, <1>10, <2>1
<1>12. TxTypes'
  <2>1. txOwn' \in [TxDesc -> 0 .. 1]  BY <1>1, <1>2
  <2>2. TxTypeOK'  BY <1>1, <1>4, <1>5, <2>1 DEF TxTypes, TxTypeOK, TxDesc
  <2> QED BY <1>1, <1>4, <1>8, <2>2 DEF TxTypes, TxDesc
<1>13. ASSUME NEW d \in TxDesc
       PROVE  /\ TxDist(d) \in 0 .. n - 1
              /\ d = txDma => TxDist(d)' = n - 1
              /\ d # txDma => TxDist(d)' = TxDist(d) - 1
  <2>1. TxDist(d) \in 0 .. n - 1  BY <1>2, DistRange DEF TxDist, n
  <2>2. TxDist(d)' = Dist(n, After(n, txDma), d)  BY <1>3 DEF TxDist, n
  <2> QED BY <1>2, <2>1, <2>2, DistReader DEF TxDist, n
<1>14. TxSlots'
  <2> SUFFICES ASSUME NEW d \in TxDesc
               PROVE  (IF txOwn[d] = 1
                       THEN TxDist(d) < TxQueued /\ txLen[d] = txAccepted[Len(sent) + TxDist(d) + 1]
                       ELSE TxDist(d) >= TxQueued)'
    BY DEF TxSlots, TxDesc
  <2>0. TxDist(d) \in 0 .. n - 1  BY <1>13
  <2>1. CASE d = txDma
    <3>1. txOwn'[d] = 0  BY <1>1, <1>2, <2>1
    <3>2. TxDist(d)' >= TxQueued'  BY <1>2, <1>9, <1>13, <2>1
    <3> QED BY <3>1, <3>2
  <2>2. CASE d # txDma
    <3>1. txOwn'[d] = txOwn[d]  BY <1>1, <1>2, <2>2
    <3>2. TxDist(d)' = TxDist(d) - 1  BY <1>13, <2>2
    <3>3. CASE txOwn[d] = 1
      <4>1. TxDist(d) < TxQueued /\ txLen[d] = txAccepted[Len(sent) + TxDist(d) + 1]
        BY <1>4, <3>3 DEF TxOrder, TxSlots
      <4>2. TxDist(d)' < TxQueued'  BY <1>2, <1>9, <2>0, <3>2, <4>1
      <4>3. Len(sent') + TxDist(d)' + 1 = Len(sent) + TxDist(d) + 1
        BY <1>2, <1>8, <2>0, <3>2
      <4> QED BY <1>1, <3>1, <3>3, <4>1, <4>2, <4>3
    <3>4. CASE txOwn[d] # 1
      <4>1. TxDist(d) >= TxQueued  BY <1>4, <3>4 DEF TxOrder, TxSlots
      <4>2. TxDist(d)' >= TxQueued'  BY <1>2, <1>9, <2>0, <3>2, <4>1
      <4> QED BY <3>1, <3>4, <4>2
    <3> QED BY <3>3, <3>4
  <2> QED BY <2>1, <2>2
<1>15. TxEnds'
  <2>1. TxQueued' \in 0 .. n /\ TxQueued' < n  BY <1>2, <1>9, <1>11
  <2>2. TxEnd' = TxEnd  BY <1>1 DEF TxEnd, Given
  <2>3. TxDist(TxEnd)' = Dist(n, After(n, txDma), TxEnd)  BY <1>3, <2>2 DEF TxDist, n
  <2>4. TxDist(TxEnd)' = TxQueued - 1
    <3>1. CASE TxQueued < n
      <4>1. TxDist(TxEnd) = TxQueued  BY <1>4, <3>1 DEF TxOrder, TxEnds, n
      <4>2. TxEnd # txDma  BY <1>10, <1>11, <4>1
      <4>3. Dist(n, After(n, txDma), TxEnd) = TxDist(TxEnd) - 1
        BY <1>2, <4>2, DistReader DEF TxDist, n
      <4> QED BY <2>3, <4>1, <4>3
    <3>2. CASE TxQueued = n
      <4>1. TxEnd = txDma  BY <1>4, <3>2 DEF TxOrder, TxEnds, n
      <4>2. Dist(n, After(n, txDma), TxEnd) = n - 1  BY <1>2, <4>1, DistReader
      <4> QED BY <2>3, <3>2, <4>2
    <3> QED BY <1>2, <3>1, <3>2
  <2>5. ~(TxQueued' = n)  BY <1>2, <2>1
  <2> QED BY <1>9, <2>1, <2>4, <2>5 DEF TxEnds, n
<1>16. ASSUME NEW i \in 1 .. Len(sent') PROVE sent'[i][3] = txAccepted'[i]
  <2>1. CASE i = Len(sent) + 1  BY <1>1, <1>7, <1>8, <1>11, <2>1
  <2>2. CASE i # Len(sent) + 1
    <3>1. i \in 1 .. Len(sent)  BY <1>2, <1>8, <2>2
    <3> QED BY <1>1, <1>4, <1>8, <3>1 DEF TxOrder
  <2> QED BY <2>1, <2>2
<1>17. TxOrder'  BY <1>14, <1>15, <1>16 DEF TxOrder
<1>18. \A d \in TxDesc : txOwn'[d] = 1 => txOwn[d] = 1  BY <1>1, <1>2
<1>19. \A d \in TxDesc : txOwn[d] = 0 => txOwn'[d] = 0  BY <1>1, <1>2
<1>20. DMATxDescToSet \in TxDesc  BY TxFacts
<1>21. TxCaller'  BY <1>1, <1>4, <1>19, <1>20 DEF TxCaller
<1>22. TxBytes'
  <2> SUFFICES ASSUME overrun = 0 PROVE TxBytes'  BY <1>1 DEF TxBytes
  <2>1. ASSUME NEW i \in 1 .. Len(sent') PROVE sent'[i] = [j \in 1 .. 3 |-> txAccepted'[i]]
    <3>1. CASE i = Len(sent) + 1
      <4>1. e[1] = txLen[txDma] /\ e[2] = txLen[txDma]  BY <1>1, <1>2, <1>4, <1>7 DEF TxBytes, TxOwned
      <4>2. \A j \in 1 .. 3 : e[j] = txAccepted[i]  BY <1>7, <1>11, <3>1, <4>1
      <4>3. e = [j \in 1 .. 3 |-> txAccepted[i]]  BY <1>7, <4>2
      <4> QED BY <1>1, <1>8, <3>1, <4>3
    <3>2. CASE i # Len(sent) + 1
      <4>1. i \in 1 .. Len(sent)  BY <1>2, <1>8, <3>2
      <4> QED BY <1>1, <1>4, <1>8, <4>1 DEF TxBytes, Intact
    <3> QED BY <3>1, <3>2
  <2>2. Intact'  BY <2>1 DEF Intact
  <2>3. TxOwned'  BY <1>1, <1>4, <1>18 DEF TxBytes, TxOwned, TxDesc
  <2>4. TxFilled'  BY <1>1, <1>4, <1>19, <1>20 DEF TxBytes, TxFilled
  <2> QED BY <2>2, <2>3, <2>4 DEF TxBytes
<1> QED BY <1>4, <1>12, <1>17, <1>21, <1>22 DEF TxInv, OneSender

(* A step of low_level_output that gives the DMA nothing keeps the ring,   *)
(* if it touches no length the DMA owns.                                   *)
LEMMA TxRingKept ==
    ASSUME TxOrder, UNCHANGED <<txOwn, txDma, txAccepted, sent>>, TxEnd' = TxEnd,
           \A d \in TxDesc : txOwn[d] = 1 => txLen'[d] = txLen[d]
    PROVE  TxOrder'
<1>1. TxQueued' = TxQueued  BY DEF TxQueued
<1>2. TxDist(TxEnd)' = TxDist(TxEnd) /\ \A d \in TxDesc : TxDist(d)' = TxDist(d)
  BY DEF TxDist
<1>3. TxSlots'  BY <1>1, <1>2 DEF TxOrder, TxSlots, TxDesc
<1>4. TxEnds'  BY <1>1, <1>2 DEF TxOrder, TxEnds
<1> QED BY <1>3, <1>4 DEF TxOrder

(* A buffer after one half of it was written.                              *)
LEMMA HalfWritten ==
    ASSUME NEW s \in Seq(Nat), Len(s) = 2, NEW i \in 1 .. 2, NEW f \in Nat
    PROVE  /\ [s EXCEPT ![i] = f] \in Seq(Nat) /\ Len([s EXCEPT ![i] = f]) = 2
           /\ [s EXCEPT ![i] = f][i] = f
           /\ i = 2 => [s EXCEPT ![i] = f][1] = s[1]
<1> DEFINE w == [s EXCEPT ![i] = f]
<1>1. i \in 1 .. Len(s)  OBVIOUS
<1>2. /\ w \in Seq(Nat) /\ Len(w) = Len(s)
      /\ \A j \in 1 .. Len(s) : w[j] = IF j = i THEN f ELSE s[j]
  BY <1>1, ExceptSeq
<1> HIDE DEF w
<1>3. /\ w \in Seq(Nat) /\ Len(w) = 2 /\ w[i] = f /\ (i = 2 => w[1] = s[1])
  BY <1>1, <1>2
<1> QED BY <1>3 DEF w

(* The call and the two halves of memcpy.                                  *)
LEMMA TxCopyStep ==
    ASSUME TxInv, NEW t \in Tasks,
           \/ ETH_GetCurrentTxBuffer(t)
           \/ Copy(t, 1, "copy1", "copy2") \/ Copy(t, 2, "copy2", "test")
    PROVE  TxInv'
<1> DEFINE s == DMATxDescToSet
<1>1. TxTypes /\ TxTypeOK /\ TxOrder /\ TxCaller /\ TxBytes  BY DEF TxInv, TxTypes
<1>2. OneSender /\ \A u \in Tasks : u = t  BY DEF TxInv, OneSender
<1>3. txPc \in [Tasks -> TxStates] /\ s \in TxDesc /\ TxDesc = 0 .. ETH_TXBUFNB - 1
      /\ frame \in [Tasks -> 0 .. MaxTxFrames] /\ buffer \in [Tasks -> TxDesc]
  BY <1>1 DEF TxTypes, TxTypeOK, TxDesc
<1>4. CASE ETH_GetCurrentTxBuffer(t)
  <2>1. /\ txPc[t] = "idle" /\ txPc' = [txPc EXCEPT ![t] = "copy1"]
        /\ frames < MaxTxFrames /\ frames' = frames + 1
        /\ frame' = [frame EXCEPT ![t] = frames + 1] /\ buffer' = [buffer EXCEPT ![t] = s]
        /\ UNCHANGED <<txOwn, txBuf, txLen, txDma, tbus, s, txAccepted, sent, overrun>>
    BY <1>4 DEF ETH_GetCurrentTxBuffer, Runs, Goto, txRing
  <2>2. txPc'[t] = "copy1" /\ buffer'[t] = s /\ txPc' \in [Tasks -> TxStates]
        /\ buffer' \in [Tasks -> TxDesc]
    BY <1>3, <2>1 DEF TxStates
  <2>3. frames' \in 0 .. MaxTxFrames /\ frame' \in [Tasks -> 0 .. MaxTxFrames]
    <3>1. frames \in 0 .. MaxTxFrames /\ MaxTxFrames \in Nat  BY <1>1, EthTxAssumption DEF TxTypes
    <3>2. frames + 1 \in 0 .. MaxTxFrames  BY <2>1, <3>1
    <3> QED BY <1>3, <2>1, <3>2
  <2>4. TxTypeOK'  BY <1>1, <2>1, <2>2 DEF TxTypeOK, TxStates, TxDesc
  <2>5. TxTypes'  BY <1>1, <2>1, <2>2, <2>3, <2>4 DEF TxTypes, TxDesc
  <2>6. TxEnd' = TxEnd  BY <1>2, <2>1, <2>2 DEF TxEnd, Given
  <2>7. TxOrder'  BY <1>1, <2>1, <2>6, TxRingKept
  <2>8. TxCaller'  BY <1>2, <2>1, <2>2 DEF TxCaller
  <2>9. TxBytes'  BY <1>1, <1>2, <2>1, <2>2 DEF TxBytes, Intact, TxOwned, TxFilled, TxDesc
  <2> QED BY <1>2, <2>5, <2>7, <2>8, <2>9 DEF TxInv, OneSender
<1>5. ASSUME NEW i \in 1 .. 2, NEW from, NEW to, Copy(t, i, from, to),
             from = IF i = 1 THEN "copy1" ELSE "copy2", to = IF i = 1 THEN "copy2" ELSE "test"
      PROVE  TxInv'
  <2>1. /\ txPc[t] = from /\ txPc' = [txPc EXCEPT ![t] = to]
        /\ txBuf' = [txBuf EXCEPT ![buffer[t]][i] = frame[t]]
        /\ overrun' = IF txOwn[buffer[t]] = 1 THEN 1 ELSE overrun
        /\ UNCHANGED <<txOwn, txLen, txDma, tbus, s, buffer, frame, frames, txAccepted, sent>>
    BY <1>5 DEF Copy, Runs, Goto
  <2>2. from \in {"copy1", "copy2"} /\ to \in {"copy2", "test"}  BY <1>5
  <2>3. buffer[t] = s  BY <1>1, <2>1, <2>2 DEF TxCaller
  <2>4. txPc'[t] = to /\ txPc' \in [Tasks -> TxStates]
    BY <1>3, <2>1, <2>2 DEF TxStates
  <2>5. /\ txBuf \in [TxDesc -> Seq(Nat)] /\ frame[t] \in Nat
        /\ \A d \in TxDesc : Len(txBuf[d]) = 2
    BY <1>1, EthTxAssumption DEF TxTypes
  <2> DEFINE w == [txBuf[s] EXCEPT ![i] = frame[t]]
  <2>6. txBuf' = [txBuf EXCEPT ![s] = w]  BY <2>1, <2>3
  <2>7. /\ w \in Seq(Nat) /\ Len(w) = 2 /\ w[i] = frame[t] /\ (i = 2 => w[1] = txBuf[s][1])
    <3> DEFINE x == txBuf[s]
    <3>1. x \in Seq(Nat) /\ Len(x) = 2  BY <1>3, <2>5
    <3> HIDE DEF x
    <3>2. LET v == [x EXCEPT ![i] = frame[t]]
          IN  v \in Seq(Nat) /\ Len(v) = 2 /\ v[i] = frame[t] /\ (i = 2 => v[1] = x[1])
      BY <2>5, <3>1, HalfWritten
    <3> QED BY <3>2 DEF x
  <2> HIDE DEF w
  <2>8. /\ txBuf' \in [TxDesc -> Seq(Nat)] /\ txBuf'[s] = w
        /\ \A d \in TxDesc : d # s => txBuf'[d] = txBuf[d]
        /\ \A d \in TxDesc : Len(txBuf'[d]) = 2
    BY <1>3, <2>5, <2>6, <2>7
  <2>9. overrun \in 0 .. 1 /\ overrun' \in 0 .. 1  BY <1>1, <2>1 DEF TxTypeOK
  <2>10. TxTypeOK'  BY <1>1, <2>1, <2>4, <2>9 DEF TxTypeOK, TxStates, TxDesc
  <2>11. TxTypes'  BY <1>1, <2>1, <2>4, <2>8, <2>10 DEF TxTypes, TxDesc
  <2>12. TxEnd' = TxEnd  BY <1>2, <2>1, <2>2, <2>4 DEF TxEnd, Given
  <2>13. TxOrder'  BY <1>1, <2>1, <2>12, TxRingKept
  <2>14. TxCaller'  BY <1>2, <2>1, <2>2, <2>3, <2>4 DEF TxCaller
  <2>15. TxBytes'
    <3> SUFFICES ASSUME overrun' = 0 PROVE TxBytes'  BY DEF TxBytes
    <3>1. overrun = 0 /\ txOwn[s] # 1  BY <2>1, <2>3
    <3>2. txOwn[s] = 0  BY <1>1, <1>3, <3>1 DEF TxTypeOK
    <3>3. \A d \in TxDesc : txOwn[d] = 1 => txBuf'[d] = txBuf[d]  BY <2>8, <3>1
    <3>4. txPc'[t] \in {"copy2", "test"} => txBuf'[s][1] = frame[t]
      <4>1. CASE i = 1  BY <2>7, <2>8, <4>1
      <4>2. CASE i = 2
        <5>1. txPc[t] = "copy2"  BY <1>5, <2>1, <4>2
        <5>2. txBuf[s][1] = frame[t]  BY <1>1, <3>1, <5>1 DEF TxBytes, TxFilled
        <5> QED BY <2>7, <2>8, <4>2, <5>2
      <4> QED BY <4>1, <4>2
    <3>5. txPc'[t] = "test" => txBuf'[s][2] = frame[t]
      BY <1>5, <2>4, <2>7, <2>8
    <3>6. Intact'
      <4>1. Intact  BY <1>1, <3>1 DEF TxBytes
      <4> QED BY <2>1, <4>1 DEF Intact
    <3>7. TxOwned'  BY <1>1, <2>1, <3>1, <3>3 DEF TxBytes, TxOwned, TxDesc
    <3>8. TxFilled'  BY <1>2, <2>1, <2>2, <2>4, <3>2, <3>4, <3>5 DEF TxFilled
    <3> QED BY <3>6, <3>7, <3>8 DEF TxBytes
  <2> QED BY <1>2, <2>11, <2>13, <2>14, <2>15 DEF TxInv, OneSender
<1>6. CASE Copy(t, 1, "copy1", "copy2")  BY <1>5, <1>6
<1>7. CASE Copy(t, 2, "copy2", "test")  BY <1>5, <1>7
<1> QED BY <1>4, <1>6, <1>7

(* The test of OWN and the length.                                         *)
LEMMA TxSizeStep ==
    ASSUME TxInv, NEW t \in Tasks, TestOwn(t) \/ SetSize(t)
    PROVE  TxInv'
<1> DEFINE s == DMATxDescToSet
<1>1. TxTypes /\ TxTypeOK /\ TxOrder /\ TxCaller /\ TxBytes  BY DEF TxInv, TxTypes
<1>2. OneSender /\ \A u \in Tasks : u = t  BY DEF TxInv, OneSender
<1>3. txPc \in [Tasks -> TxStates] /\ s \in TxDesc /\ txOwn \in [TxDesc -> 0 .. 1]
      /\ frame \in [Tasks -> 0 .. MaxTxFrames] /\ txLen \in [TxDesc -> 0 .. MaxTxFrames]
  BY <1>1 DEF TxTypes, TxTypeOK
<1>4. UNCHANGED <<txOwn, txBuf, txDma, tbus, s, buffer, frame, frames, txAccepted, sent, overrun>>
  BY DEF TestOwn, SetSize, txRing
<1>5. CASE TestOwn(t)
  <2>1. txPc[t] = "test" /\ UNCHANGED txLen
        /\ txPc' = [txPc EXCEPT ![t] = IF txOwn[s] = 1 THEN "idle" ELSE "size"]
    BY <1>5 DEF TestOwn, Runs, Goto, txRing
  <2>2. txPc'[t] = (IF txOwn[s] = 1 THEN "idle" ELSE "size") /\ txPc' \in [Tasks -> TxStates]
    BY <1>3, <2>1 DEF TxStates
  <2>3. txPc'[t] = "size" => txOwn[s] = 0  BY <1>3, <2>2
  <2>4. txPc'[t] \in {"idle", "size"}  BY <2>2
  <2>5. TxTypeOK'  BY <1>1, <1>4, <2>1, <2>2 DEF TxTypeOK, TxStates, TxDesc
  <2>6. TxTypes'  BY <1>1, <1>4, <2>1, <2>2, <2>5 DEF TxTypes, TxDesc
  <2>7. TxEnd' = TxEnd  BY <1>2, <1>4, <2>1, <2>4 DEF TxEnd, Given
  <2>8. TxOrder'  BY <1>1, <1>4, <2>1, <2>7, TxRingKept
  <2>9. TxCaller'  BY <1>1, <1>2, <1>4, <2>1, <2>3, <2>4 DEF TxCaller
  <2>10. TxBytes'
    BY <1>1, <1>2, <1>4, <2>1, <2>3, <2>4 DEF TxBytes, Intact, TxOwned, TxFilled, TxDesc
  <2> QED BY <1>2, <2>6, <2>8, <2>9, <2>10 DEF TxInv, OneSender
<1>6. CASE SetSize(t)
  <2>1. txPc[t] = "size" /\ txPc' = [txPc EXCEPT ![t] = "own"]
        /\ txLen' = [txLen EXCEPT ![s] = frame[t]]
    BY <1>6 DEF SetSize, Runs, Goto
  <2>2. txPc'[t] = "own" /\ txPc' \in [Tasks -> TxStates]  BY <1>3, <2>1 DEF TxStates
  <2>3. txLen' \in [TxDesc -> 0 .. MaxTxFrames] /\ txLen'[s] = frame[t]
        /\ \A d \in TxDesc : d # s => txLen'[d] = txLen[d]
    BY <1>3, <2>1
  <2>4. txOwn[s] = 0 /\ buffer[t] = s  BY <1>1, <2>1 DEF TxCaller
  <2>5. \A d \in TxDesc : txOwn[d] = 1 => txLen'[d] = txLen[d]  BY <2>3, <2>4
  <2>6. TxTypeOK'  BY <1>1, <1>4, <2>2, <2>3 DEF TxTypeOK, TxStates, TxDesc
  <2>7. TxTypes'  BY <1>1, <1>4, <2>2, <2>3, <2>6 DEF TxTypes, TxDesc
  <2>8. TxEnd' = TxEnd  BY <1>2, <1>4, <2>1, <2>2 DEF TxEnd, Given
  <2>9. TxOrder'  BY <1>1, <1>4, <2>5, <2>8, TxRingKept
  <2>10. TxCaller'  BY <1>2, <1>4, <2>2, <2>3, <2>4 DEF TxCaller
  <2>11. TxBytes'
    <3> SUFFICES ASSUME overrun = 0 PROVE TxBytes'  BY <1>4 DEF TxBytes
    <3>1. Intact /\ TxOwned /\ TxFilled  BY <1>1 DEF TxBytes
    <3>2. Intact'  BY <1>4, <3>1 DEF Intact
    <3>3. TxOwned'  BY <1>4, <2>5, <3>1 DEF TxOwned, TxDesc
    <3>4. TxFilled'  BY <1>2, <1>4, <2>1, <2>2, <3>1 DEF TxFilled
    <3> QED BY <3>2, <3>3, <3>4 DEF TxBytes
  <2> QED BY <1>2, <2>7, <2>9, <2>10, <2>11 DEF TxInv, OneSender
<1> QED BY <1>5, <1>6

(* The descriptor is given to the DMA: its frame is the last one queued.   *)
LEMMA TxGivenStep ==
    ASSUME TxInv, NEW t \in Tasks, SetOwn(t)
    PROVE  TxInv'
<1> DEFINE s == DMATxDescToSet
           n == ETH_TXBUFNB
<1>1. TxTypes /\ TxTypeOK /\ TxOrder /\ TxCaller /\ TxBytes  BY DEF TxInv, TxTypes
<1>2. OneSender /\ \A u \in Tasks : u = t  BY DEF TxInv, OneSender
<1>3. /\ txPc[t] = "own" /\ txPc' = [txPc EXCEPT ![t] = "resume"]
      /\ txOwn' = [txOwn EXCEPT ![s] = 1] /\ txAccepted' = Append(txAccepted, frame[t])
      /\ UNCHANGED <<txBuf, txLen, txDma, tbus, s, buffer, frame, frames, sent, overrun>>
  BY DEF SetOwn, Runs, Goto
<1>4. /\ n \in Nat \ {0} /\ TxDesc = 0 .. n - 1 /\ txDma \in TxDesc /\ s \in TxDesc
      /\ txOwn \in [TxDesc -> 0 .. 1] /\ txAccepted \in Seq(Nat)
      /\ Len(txAccepted) \in Nat /\ Len(sent) \in Nat
      /\ TxQueued \in Nat /\ TxQueued \in 0 .. n /\ Len(txAccepted) = Len(sent) + TxQueued
  BY TxFacts
<1>5. txPc \in [Tasks -> TxStates] /\ frame[t] \in Nat
  BY <1>1, EthTxAssumption DEF TxTypes
<1>6. txPc'[t] = "resume" /\ txPc' \in [Tasks -> TxStates]  BY <1>3, <1>5 DEF TxStates
<1>7. txOwn[s] = 0 /\ txLen[s] = frame[t]  BY <1>1, <1>3 DEF TxCaller
<1>8. /\ txAccepted' \in Seq(Nat) /\ Len(txAccepted') = Len(txAccepted) + 1
      /\ txAccepted'[Len(txAccepted) + 1] = frame[t]
      /\ \A i \in 1 .. Len(txAccepted) : txAccepted'[i] = txAccepted[i]
  BY <1>3, <1>4, <1>5, AppendProperties
<1>9. TxEnd = s  BY <1>2, <1>3 DEF TxEnd, Given
<1>10. TxEnd' = After(n, s)  BY <1>3, <1>6 DEF TxEnd, Given
<1> HIDE DEF n, s
<1>11. TxQueued' = TxQueued + 1  BY <1>3, <1>4, <1>8 DEF TxQueued
<1>12. ASSUME NEW d \in TxDesc
       PROVE  /\ TxDist(d) \in 0 .. n - 1 /\ TxDist(d)' = TxDist(d)
              /\ TxDist(d) = TxDist(s) => d = s
  <2>1. TxDist(d) \in 0 .. n - 1 /\ (TxDist(d) = TxDist(s) => d = s)
    BY <1>4, DistRange DEF TxDist, n
  <2> QED BY <1>3, <2>1 DEF TxDist
<1>13. TxQueued < n /\ TxDist(s) = TxQueued
  <2>1. TxDist(s) >= TxQueued  BY <1>1, <1>4, <1>7 DEF TxOrder, TxSlots
  <2>2. TxDist(s) \in 0 .. n - 1  BY <1>4, <1>12
  <2>3. TxQueued < n  BY <1>4, <2>1, <2>2
  <2> QED BY <1>1, <1>9, <2>3 DEF TxOrder, TxEnds, n
<1>14. TxSlots'
  <2> SUFFICES ASSUME NEW d \in TxDesc
               PROVE  (IF txOwn[d] = 1
                       THEN TxDist(d) < TxQueued /\ txLen[d] = txAccepted[Len(sent) + TxDist(d) + 1]
                       ELSE TxDist(d) >= TxQueued)'
    BY DEF TxSlots, TxDesc
  <2>1. CASE d = s
    <3>1. txOwn'[d] = 1 /\ TxDist(d)' = TxQueued  BY <1>3, <1>4, <1>12, <1>13, <2>1 DEF s
    <3>2. TxDist(d)' < TxQueued'  BY <1>4, <1>11, <3>1
    <3>3. Len(sent') + TxDist(d)' + 1 = Len(txAccepted) + 1  BY <1>3, <1>4, <3>1
    <3>4. txLen'[d] = txAccepted'[Len(sent') + TxDist(d)' + 1]
      BY <1>3, <1>7, <1>8, <2>1, <3>3
    <3> QED BY <3>1, <3>2, <3>4
  <2>2. CASE d # s
    <3>1. txOwn'[d] = txOwn[d] /\ txLen'[d] = txLen[d]  BY <1>3, <1>4, <2>2 DEF s
    <3>2. TxDist(d) \in 0 .. n - 1 /\ TxDist(d)' = TxDist(d) /\ TxDist(d) # TxQueued
      BY <1>12, <1>13, <2>2
    <3>3. CASE txOwn[d] = 1
      <4>1. TxDist(d) < TxQueued /\ txLen[d] = txAccepted[Len(sent) + TxDist(d) + 1]
        BY <1>1, <3>3 DEF TxOrder, TxSlots
      <4>2. TxDist(d)' < TxQueued'  BY <1>4, <1>11, <3>2, <4>1
      <4>3. Len(sent) + TxDist(d) + 1 \in 1 .. Len(txAccepted)  BY <1>4, <3>2, <4>1
      <4>4. txLen'[d] = txAccepted'[Len(sent') + TxDist(d)' + 1]
        BY <1>3, <1>8, <3>1, <3>2, <4>1, <4>3
      <4> QED BY <3>1, <3>3, <4>2, <4>4
    <3>4. CASE txOwn[d] # 1
      <4>1. TxDist(d) >= TxQueued  BY <1>1, <3>4 DEF TxOrder, TxSlots
      <4>2. TxDist(d)' >= TxQueued'  BY <1>4, <1>11, <3>2, <4>1
      <4> QED BY <3>1, <3>4, <4>2
    <3> QED BY <3>3, <3>4
  <2> QED BY <2>1, <2>2
<1>15. TxEnds'
  <2>1. /\ TxQueued + 1 < n => Dist(n, txDma, After(n, s)) = TxQueued + 1
        /\ TxQueued + 1 = n => After(n, s) = txDma
    BY <1>4, <1>13, DistWriter DEF TxDist, n
  <2>2. TxQueued' \in 0 .. n  BY <1>4, <1>11, <1>13
  <2>3. TxDist(TxEnd)' = Dist(n, txDma, After(n, s))  BY <1>3, <1>10 DEF TxDist, n
  <2> QED BY <1>3, <1>10, <1>11, <2>1, <2>2, <2>3 DEF TxEnds, n
<1>16. ASSUME NEW i \in 1 .. Len(sent) PROVE txAccepted'[i] = txAccepted[i]
  <2>1. i \in 1 .. Len(txAccepted)  BY <1>4
  <2> QED BY <1>8, <2>1
<1>17. TxOrder'
  <2>1. \A i \in 1 .. Len(sent) : sent[i][3] = txAccepted[i]  BY <1>1 DEF TxOrder
  <2>2. (\A i \in 1 .. Len(sent) : sent[i][3] = txAccepted[i])'  BY <1>3, <1>16, <2>1
  <2> QED BY <1>14, <1>15, <2>2 DEF TxOrder
<1>18. txOwn' \in [TxDesc -> 0 .. 1]  BY <1>3, <1>4 DEF s
<1>19. TxTypeOK'  BY <1>1, <1>3, <1>6, <1>18 DEF TxTypeOK, TxStates, TxDesc, s
<1>20. TxTypes'  BY <1>1, <1>3, <1>6, <1>8, <1>19 DEF TxTypes, TxDesc, s
<1>21. TxCaller'  BY <1>2, <1>3, <1>6 DEF TxCaller, s
<1>22. TxBytes'
  <2> SUFFICES ASSUME overrun = 0 PROVE TxBytes'  BY <1>3 DEF TxBytes
  <2>1. Intact /\ TxOwned /\ TxFilled  BY <1>1 DEF TxBytes
  <2>2. Intact'  BY <1>3, <1>16, <2>1 DEF Intact
  <2>3. txBuf[s][1] = frame[t] /\ txBuf[s][2] = frame[t]  BY <1>3, <2>1 DEF TxFilled, s
  <2>4. \A d \in TxDesc : txOwn'[d] = 1 => d = s \/ txOwn[d] = 1  BY <1>3, <1>4 DEF s
  <2>5. TxOwned'  BY <1>3, <1>7, <2>1, <2>3, <2>4 DEF TxOwned, TxDesc, s
  <2>6. TxFilled'  BY <1>2, <1>6 DEF TxFilled
  <2> QED BY <2>2, <2>5, <2>6 DEF TxBytes
<1> QED BY <1>2, <1>17, <1>20, <1>21, <1>22 DEF TxInv, OneSender

(* The DMA is resumed, and the pointer moves on to where the ring ends.    *)
LEMMA TxAdvanceStep ==
    ASSUME TxInv, NEW t \in Tasks, Resume(t) \/ Advance(t)
    PROVE  TxInv'
<1> DEFINE s == DMATxDescToSet
<1>1. TxTypes /\ TxTypeOK /\ TxOrder /\ TxCaller /\ TxBytes  BY DEF TxInv, TxTypes
<1>2. OneSender /\ \A u \in Tasks : u = t  BY DEF TxInv, OneSender
<1>3. txPc \in [Tasks -> TxStates]  BY <1>1 DEF TxTypes
<1>4. UNCHANGED <<txOwn, txBuf, txLen, txDma, buffer, frame, frames, txAccepted, sent, overrun>>
  BY DEF Resume, Advance
<1>5. /\ txPc[t] \in {"resume", "advance"} /\ txPc'[t] \in {"advance", "idle"}
      /\ txPc' \in [Tasks -> TxStates] /\ tbus' \in 0 .. 1
  BY <1>1, <1>3 DEF Resume, Advance, Runs, Goto, TxStates, TxTypeOK
<1>6. s' \in TxDesc /\ TxEnd' = TxEnd
  <2>1. CASE Resume(t)
    <3>1. s' = s /\ txPc[t] = "resume" /\ txPc'[t] = "advance"
      BY <1>3, <2>1 DEF Resume, Runs, Goto
    <3>2. Given /\ Given'  BY <3>1 DEF Given
    <3> QED BY <1>1, <3>1, <3>2 DEF TxEnd, TxTypeOK
  <2>2. CASE Advance(t)
    <3>1. s' = TxSucc(s) /\ txPc[t] = "advance" /\ txPc'[t] = "idle"
      BY <1>3, <2>2 DEF Advance, Runs, Goto
    <3>2. Given /\ ~Given'  BY <1>2, <3>1 DEF Given
    <3>3. ETH_TXBUFNB \in Nat \ {0} /\ TxDesc = 0 .. ETH_TXBUFNB - 1 /\ s \in TxDesc
      BY TxFacts
    <3>4. TxSucc(s) = After(ETH_TXBUFNB, s) /\ TxSucc(s) \in TxDesc
      BY <3>3, RingMod, DistRange DEF TxSucc
    <3> QED BY <3>1, <3>2, <3>4 DEF TxEnd
  <2> QED BY <2>1, <2>2
<1>7. TxTypeOK'  BY <1>1, <1>4, <1>5, <1>6 DEF TxTypeOK, TxStates, TxDesc
<1>8. TxTypes'  BY <1>1, <1>4, <1>5, <1>7 DEF TxTypes, TxDesc
<1>9. TxOrder'  BY <1>1, <1>4, <1>6, TxRingKept
<1>10. TxCaller'  BY <1>2, <1>5 DEF TxCaller
<1>11. TxBytes'
  <2>1. TxFilled'  BY <1>2, <1>5 DEF TxFilled
  <2> QED BY <1>1, <1>4, <2>1 DEF TxBytes, Intact, TxOwned, TxDesc
<1> QED BY <1>2, <1>8, <1>9, <1>10, <1>11 DEF TxInv, OneSender

(* Every step of the DMA and of low_level_output.                          *)
LEMMA TxNextInv == TxInv /\ [TxNext]_txVars => TxInv'
<1> SUFFICES ASSUME TxInv, [TxNext]_txVars PROVE TxInv'  OBVIOUS
<1>1. CASE DmaSend  BY <1>1, TxSentStep
<1>2. CASE DmaStop \/ UNCHANGED txVars
  <2>1. /\ UNCHANGED <<txOwn, txBuf, txLen, txDma, DMATxDescToSet, txPc, buffer, frame, frames,
                       txAccepted, sent, overrun>>
        /\ tbus' = 1 \/ tbus' = tbus
    BY <1>2 DEF DmaStop, txVars, txRing, local
  <2>2. TxTypeOK'  BY <2>1 DEF TxInv, TxTypes, TxTypeOK, TxDesc
  <2>3. TxTypes'  BY <2>1, <2>2 DEF TxInv, TxTypes, TxDesc
  <2>4. TxEnd' = TxEnd  BY <2>1 DEF TxEnd, Given
  <2>5. TxOrder'  BY <2>1, <2>4, TxRingKept DEF TxInv
  <2>6. TxCaller'  BY <2>1 DEF TxInv, TxCaller
  <2>7. TxBytes'  BY <2>1 DEF TxInv, TxBytes, Intact, TxOwned, TxFilled, TxDesc
  <2> QED BY <2>3, <2>5, <2>6, <2>7 DEF TxInv, OneSender
<1>3. CASE \E t \in Tasks : ETH_GetCurrentTxBuffer(t) \/ low_level_output(t)
  BY <1>3, TxCopyStep, TxSizeStep, TxGivenStep, TxAdvanceStep DEF low_level_output
<1> QED BY <1>1, <1>2, <1>3 DEF TxNext

(* For every size of the ring and number of frames, with one task in       *)
(* low_level_output at a time: the frames given to the DMA are sent each   *)
(* once and in order, and with their own bytes unless a frame was given    *)
(* when the ring was full.                                                 *)
THEOREM SendCorrect == TxSpec /\ OneSender => []SentExact
<1>1. TxInit /\ OneSender /\ [][TxNext]_txVars => []TxInv
  BY TxInitInv, TxNextInv, PTL
<1> QED BY <1>1, TxInvExact, PTL DEF TxSpec
=============================================================================

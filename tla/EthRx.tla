-------------------------------- MODULE EthRx --------------------------------
(***************************************************************************)
(* Receiving Ethernet frames: ETH_IRQHandler and ETH_Rx_Packet             *)
(* (LWIP_APP/lan8720.c), ETH_GetRxPktSize (stm32f4x7_eth.c),               *)
(* low_level_input and ethernetif_input (netif/ethernetif.c), tcpip_input  *)
(* (api/tcpip.c).                                                          *)
(*                                                                         *)
(* The DMA writes frames into a ring of descriptors; the interrupt handler *)
(* empties it, all tasks stand still meanwhile.  Only the DMA acts between *)
(* the handler's steps.                                                    *)
(***************************************************************************)
EXTENDS Integers, Sequences

CONSTANTS
    ETH_RXBUFNB,            \* ETH_RXBUFNB: descriptors
    PoolSize,     \* PBUF_POOL_SIZE
    MsgPool,      \* MEMP_NUM_TCPIP_MSG_INPKT
    MboxSize,     \* MAX_QUEUE_ENTRIES: tcpip_thread's mailbox
    MaxRxFrames,    \* bound: frames on the wire
    MaxLate       \* bound: frames that come between the handler's last look
                  \* at the ring and its end, a few instructions; 1 in practice

ASSUME EthRxAssumption ==
    /\ ETH_RXBUFNB \in Nat \ {0} /\ PoolSize \in Nat /\ MsgPool \in Nat
    /\ MboxSize \in Nat /\ MaxRxFrames \in Nat /\ MaxLate \in Nat

VARIABLES
    rxOwn,        \* the OWN bit of each descriptor: 1 DMA, 0 CPU
    rxBuf,        \* the frame in its buffer, 0 for none
    rxDma,        \* the descriptor the DMA uses next
    rbus,       \* 1: no descriptor was free, the DMA has stopped (RBUS)
    irq,        \* 1: the receive flag is set, the interrupt is requested
    isr,         \* where the interrupt handler is
    DMARxDescToGet,
    desc,       \* frame.descriptor
    pbuf,          \* the pbuf: 0 none, else the frame copied into it
    free, msgs, \* free pbufs and free message structures
    mbox,       \* frames in the mailbox of tcpip_thread
    held,       \* pbufs the protocols hold
    wire,       \* frames that have come, accepted or lost
    rxAccepted,   \* history: frames the DMA accepted, numbered from 1
    copied,     \* history: what the handler found in the buffers
    late,       \* history: frames accepted after the last look at the ring
    window      \* frames accepted since that look

rxRing == <<rxOwn, rxBuf, rxDma, DMARxDescToGet, desc>>
pools == <<free, msgs, mbox, held>>
rxVars == <<rxRing, rbus, irq, isr, pbuf, pools, wire, rxAccepted, copied, late, window>>

RxDesc == 0 .. ETH_RXBUFNB - 1

(* Buffer2NextDescAddr: ETH_DMARxDescChainInit chains the descriptors to a *)
(* ring.                                                                   *)
RxSucc(d) == (d + 1) % ETH_RXBUFNB

RxInit ==
    /\ rxOwn = [d \in RxDesc |-> 1] /\ rxBuf = [d \in RxDesc |-> 0]
    /\ rxDma = 0 /\ rbus = 0 /\ irq = 0
    /\ isr = "idle" /\ DMARxDescToGet = 0 /\ desc = 0 /\ pbuf = 0
    /\ free = PoolSize /\ msgs = MsgPool /\ mbox = <<>> /\ held = 0
    /\ wire = 0 /\ rxAccepted = 0 /\ copied = <<>>
    /\ late = {} /\ window = 0

-----------------------------------------------------------------------------
(* The DMA: external, as the driver uses it.                               *)

(* A frame arrives.  It is stored if the next descriptor is the DMA's, and *)
(* lost otherwise; the DMA then stops until it is resumed.                 *)
DmaReceive ==
    /\ wire < MaxRxFrames
    /\ wire' = wire + 1
    /\ \/ /\ rbus = 0 /\ rxOwn[rxDma] = 1
          /\ \/ isr # "clear" /\ UNCHANGED <<late, window>>
             \/ /\ isr = "clear" /\ window < MaxLate
                /\ late' = late \cup {rxAccepted + 1}
                /\ window' = window + 1
          /\ rxBuf' = [rxBuf EXCEPT ![rxDma] = rxAccepted + 1]
          /\ rxOwn' = [rxOwn EXCEPT ![rxDma] = 0]
          /\ rxDma' = RxSucc(rxDma)
          /\ irq' = 1
          /\ rxAccepted' = rxAccepted + 1
          /\ UNCHANGED rbus
       \/ /\ rbus = 1 \/ rxOwn[rxDma] = 0
          /\ rbus' = 1
          /\ UNCHANGED <<rxBuf, rxOwn, rxDma, irq, rxAccepted, late, window>>
    /\ UNCHANGED <<DMARxDescToGet, desc, isr, pbuf, pools, copied>>

-----------------------------------------------------------------------------
(* The interrupt handler.                                                  *)

EnterIsr ==
    /\ isr = "idle" /\ irq = 1
    /\ isr' = "test"
    /\ UNCHANGED <<rxRing, rbus, irq, pbuf, pools, wire, rxAccepted, copied, late, window>>

(* ETH_GetRxPktSize is not 0: no OWN bit.  A frame has one descriptor.     *)
Received(d) == rxOwn[d] = 0

(* The loop of ETH_IRQHandler.                                             *)
Test ==
    /\ isr = "test"
    /\ isr' = IF Received(DMARxDescToGet) THEN "rx" ELSE "clear"
    /\ UNCHANGED <<rxRing, rbus, irq, pbuf, pools, wire, rxAccepted, copied, late, window>>

(* ETH_DMAClearITPendingBit, and the return.                               *)
ClearFlag ==
    /\ isr = "clear"
    /\ irq' = 0
    /\ window' = 0
    /\ isr' = "idle"
    /\ UNCHANGED <<rxRing, rbus, pbuf, pools, wire, rxAccepted, copied, late>>

ETH_Rx_Packet ==
    /\ isr = "rx"
    /\ desc' = DMARxDescToGet
    /\ DMARxDescToGet' = RxSucc(DMARxDescToGet)
    /\ isr' = "copy"
    /\ UNCHANGED <<rxOwn, rxBuf, rxDma, rbus, irq, pbuf, pools, wire, rxAccepted, copied,
                   late, window>>

(* pbuf_alloc and memcpy; without a pbuf the frame is lost.                *)
CopyIn ==
    /\ isr = "copy"
    /\ copied' = Append(copied, rxBuf[desc])
    /\ \/ free > 0 /\ pbuf' = rxBuf[desc] /\ free' = free - 1
       \/ free = 0 /\ pbuf' = 0 /\ UNCHANGED free
    /\ isr' = "give"
    /\ UNCHANGED <<rxRing, rbus, irq, msgs, mbox, held, wire, rxAccepted, late, window>>

(* Mutant: the descriptor is kept when there is no pbuf.                   *)
GiveBack_KeepOnError ==
    /\ isr = "give"
    /\ rxOwn' = IF pbuf = 0 THEN rxOwn ELSE [rxOwn EXCEPT ![desc] = 1]
    /\ rbus' = 0
    /\ isr' = IF pbuf = 0 THEN "test" ELSE "input"
    /\ UNCHANGED <<rxBuf, rxDma, DMARxDescToGet, desc, irq, pbuf, pools, wire, rxAccepted,
                   copied, late, window>>

(* The descriptor goes back to the DMA, which is resumed.                  *)
GiveBack ==
    /\ isr = "give"
    /\ rxOwn' = [rxOwn EXCEPT ![desc] = 1]
    /\ rbus' = 0
    /\ isr' = IF pbuf = 0 THEN "test" ELSE "input"
    /\ UNCHANGED <<rxBuf, rxDma, DMARxDescToGet, desc, irq, pbuf, pools, wire, rxAccepted,
                   copied, late, window>>


(* A message structure and a slot of the mailbox, or ethernetif_input      *)
(* frees the pbuf.                                                         *)
tcpip_input ==
    /\ isr = "input"
    /\ \/ /\ Len(mbox) < MboxSize /\ msgs > 0
          /\ mbox' = Append(mbox, pbuf) /\ msgs' = msgs - 1
          /\ UNCHANGED free
       \/ /\ Len(mbox) = MboxSize \/ msgs = 0
          /\ free' = free + 1
          /\ UNCHANGED <<mbox, msgs>>
    /\ pbuf' = 0
    /\ isr' = "test"
    /\ UNCHANGED <<rxRing, rbus, irq, held, wire, rxAccepted, copied, late, window>>

Isr == EnterIsr \/ Test \/ ClearFlag \/ ETH_Rx_Packet \/ CopyIn \/ GiveBack \/ tcpip_input

-----------------------------------------------------------------------------
(* tcpip_thread takes a packet; the protocols keep or free its pbuf.       *)
Packet ==
    /\ isr = "idle" /\ irq = 0
    /\ mbox # <<>>
    /\ mbox' = Tail(mbox) /\ msgs' = msgs + 1 /\ held' = held + 1
    /\ UNCHANGED <<rxRing, rbus, irq, isr, pbuf, free, wire, rxAccepted, copied, late, window>>

pbuf_free ==
    /\ isr = "idle" /\ irq = 0
    /\ held > 0
    /\ held' = held - 1 /\ free' = free + 1
    /\ UNCHANGED <<rxRing, rbus, irq, isr, pbuf, msgs, mbox, wire, rxAccepted, copied, late,
                   window>>

RxNext == DmaReceive \/ Isr \/ Packet \/ pbuf_free

(* The interrupt has the highest priority: the handler runs to its end.    *)
RxSpec == RxInit /\ [][RxNext]_rxVars /\ WF_rxVars(Isr)

-----------------------------------------------------------------------------
(* The variables keep their ranges.                                        *)
RxTypeOK ==
    /\ rxOwn \in [RxDesc -> 0 .. 1] /\ rxBuf \in [RxDesc -> 0 .. MaxRxFrames]
    /\ rxDma \in RxDesc /\ DMARxDescToGet \in RxDesc /\ desc \in RxDesc
    /\ rbus \in 0 .. 1 /\ irq \in 0 .. 1
    /\ isr \in {"idle", "test", "clear", "rx", "copy", "give", "input"}
    /\ pbuf \in 0 .. MaxRxFrames /\ wire \in 0 .. MaxRxFrames
    /\ Len(mbox) <= MboxSize /\ held \in 0 .. PoolSize

(* How many descriptors d is after the one read next.                      *)
RxAhead(d) == (d - DMARxDescToGet) % ETH_RXBUFNB

(* The handler reads d: OWN is still clear.                                *)
BeingRead(d) == isr \in {"copy", "give"} /\ d = desc

(* The ring: what the handler has copied, the frame it is about to copy    *)
(* and the unread descriptors, from the one read next on and without a     *)
(* gap, are the accepted frames, each once and in order, none overwritten; *)
(* CPU and DMA agree where the ring ends.                                  *)
RingInOrder ==
    LET now == copied \o (IF isr = "copy" THEN <<rxBuf[desc]>> ELSE <<>>)
        unread == rxAccepted - Len(now)
    IN  /\ now = [i \in 1 .. Len(now) |-> i]
        /\ unread \in 0 .. ETH_RXBUFNB
        /\ \A d \in RxDesc :
              IF rxOwn[d] = 0 /\ ~BeingRead(d)
              THEN RxAhead(d) < unread /\ rxBuf[d] = Len(now) + RxAhead(d) + 1
              ELSE RxAhead(d) >= unread
        /\ rxDma = (DMARxDescToGet + unread) % ETH_RXBUFNB

(* Every pbuf is free, in the handler's hands, queued or with the          *)
(* protocols, on all error paths; and so is every message.                 *)
PoolsAccounted ==
    /\ RxTypeOK
    /\ free + (IF pbuf = 0 THEN 0 ELSE 1) + Len(mbox) + held = PoolSize
    /\ msgs + Len(mbox) = MsgPool

(* Neither the ring nor the pools lose, repeat or invent anything.         *)
RxExact == RingInOrder /\ PoolsAccounted

(* A frame is taken from the ring, and all before it, unless it came after *)
(* the handler's last look at the ring and before it cleared the flag:     *)
(* that frame stays until the next one comes.                              *)
TakenUnlessLate ==
    \A f \in 1 .. MaxRxFrames :
        rxAccepted >= f ~> Len(copied) >= f \/ f \in late

(* A DMA that has stopped for want of descriptors is resumed: whatever is  *)
(* lost, reception goes on.                                                *)
Resumed == rbus = 1 ~> rbus = 0

=============================================================================

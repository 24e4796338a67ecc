-------------------------------- MODULE EthTx --------------------------------
(***************************************************************************)
(* Sending Ethernet frames: low_level_output (netif/ethernetif.c) and      *)
(* ETH_Tx_Packet (LWIP_APP/lan8720.c) against the transmit DMA.            *)
(*                                                                         *)
(* The callers are tcpip_thread and, once, through dhcp_start              *)
(* (lwip_comm.c), the DHCP task.  tcpip_thread has the higher priority and *)
(* may preempt the DHCP task between any two steps; but before an address  *)
(* is bound it has nothing to send except answers to what the DHCP server  *)
(* sends, so only after the frame of the DHCP task is on the wire.         *)
(* DMATxDescToSet is read again in every step.                             *)
(***************************************************************************)
EXTENDS Integers, Sequences

CONSTANTS
    ETH_TXBUFNB,          \* ETH_TXBUFNB: descriptors
    Tasks,      \* the callers: priorities, the smaller the higher; 5 is
                \* tcpip_thread, 7 the DHCP task
    MaxTxFrames   \* bound: frames given to low_level_output

ASSUME EthTxAssumption == ETH_TXBUFNB \in Nat \ {0} /\ Tasks \subseteq {5, 7} /\ MaxTxFrames \in Nat

VARIABLES
    txOwn,        \* the OWN bit of each descriptor: 1 DMA, 0 CPU
    txBuf,        \* its buffer: the frames its first and its second half are of
    txLen,        \* the frame whose length ControlBufferSize holds
    txDma,        \* the descriptor the DMA uses next
    tbus,       \* 1: the DMA found nothing to send and has stopped (TBUS)
    DMATxDescToSet,
    txPc, buffer, frame,   \* each caller: where it is, its buffer and its frame
    frames,     \* frames given to low_level_output
    txAccepted,   \* history: frames the DMA was given, in order
    sent,       \* history: what the DMA has sent
    overrun     \* history: 1 if a frame was given when all descriptors were
                \* still the DMA's

txRing == <<txOwn, txBuf, txLen, txDma, tbus, DMATxDescToSet>>
local == <<txPc, buffer, frame>>
txVars == <<txRing, local, frames, txAccepted, sent, overrun>>

TxDesc == 0 .. ETH_TXBUFNB - 1

(* Buffer2NextDescAddr of the chain ETH_DMATxDescChainInit builds.         *)
TxSucc(d) == (d + 1) % ETH_TXBUFNB

TxInit ==
    /\ txOwn = [d \in TxDesc |-> 0] /\ txBuf = [d \in TxDesc |-> <<0, 0>>]
    /\ txLen = [d \in TxDesc |-> 0]
    /\ txDma = 0 /\ tbus = 0 /\ DMATxDescToSet = 0
    /\ txPc = [t \in Tasks |-> "idle"]
    /\ buffer = [t \in Tasks |-> 0] /\ frame = [t \in Tasks |-> 0]
    /\ frames = 0 /\ txAccepted = <<>> /\ sent = <<>> /\ overrun = 0

-----------------------------------------------------------------------------
(* The DMA: external, as the driver uses it.                               *)
DmaSend ==
    /\ tbus = 0 /\ txOwn[txDma] = 1
    /\ sent' = Append(sent, Append(txBuf[txDma], txLen[txDma]))
    /\ txOwn' = [txOwn EXCEPT ![txDma] = 0]
    /\ txDma' = TxSucc(txDma)
    /\ UNCHANGED <<txBuf, txLen, tbus, DMATxDescToSet, local, frames, txAccepted, overrun>>

DmaStop ==
    /\ tbus = 0 /\ txOwn[txDma] = 0
    /\ tbus' = 1
    /\ UNCHANGED <<txOwn, txBuf, txLen, txDma, DMATxDescToSet, local, frames, txAccepted, sent,
                   overrun>>

-----------------------------------------------------------------------------
(* Task t runs: it is at a, and no task of higher priority is.             *)
Runs(t, a) ==
    /\ txPc[t] = a
    /\ \A u \in Tasks : u < t => txPc[u] = "idle"

Goto(t, a) == txPc' = [txPc EXCEPT ![t] = a]

Dhcp == 7

(* Task t has something to send.                                           *)
HasFrame(t) ==
    IF t = Dhcp THEN frames = 0 ELSE Dhcp \in Tasks => sent # <<>>

(* low_level_output is called with a frame.                                *)
ETH_GetCurrentTxBuffer(t) ==
    /\ Runs(t, "idle")
    /\ HasFrame(t)
    /\ frames < MaxTxFrames
    /\ frames' = frames + 1
    /\ frame' = [frame EXCEPT ![t] = frames + 1]
    /\ buffer' = [buffer EXCEPT ![t] = DMATxDescToSet]
    /\ Goto(t, "copy1")
    /\ UNCHANGED <<txRing, txAccepted, sent, overrun>>

(* memcpy in two parts, into a buffer that may still be the DMA's.         *)
Copy(t, i, from, to) ==
    /\ Runs(t, from)
    /\ txBuf' = [txBuf EXCEPT ![buffer[t]][i] = frame[t]]
    /\ overrun' = IF txOwn[buffer[t]] = 1 THEN 1 ELSE overrun
    /\ Goto(t, to)
    /\ UNCHANGED <<txOwn, txLen, txDma, tbus, DMATxDescToSet, buffer, frame, frames,
                   txAccepted, sent>>

(* Mutant: without the test.                                               *)
TestOwn_None(t) ==
    /\ Runs(t, "test")
    /\ Goto(t, "size")
    /\ UNCHANGED <<txRing, buffer, frame, frames, txAccepted, sent, overrun>>

(* The descriptor is the DMA's: ETH_ERROR, and low_level_output returns    *)
(* ERR_MEM.                                                                *)
TestOwn(t) ==
    /\ Runs(t, "test")
    /\ Goto(t, IF txOwn[DMATxDescToSet] = 1 THEN "idle" ELSE "size")
    /\ UNCHANGED <<txRing, buffer, frame, frames, txAccepted, sent, overrun>>

SetSize(t) ==
    /\ Runs(t, "size")
    /\ txLen' = [txLen EXCEPT ![DMATxDescToSet] = frame[t]]
    /\ Goto(t, "own")
    /\ UNCHANGED <<txOwn, txBuf, txDma, tbus, DMATxDescToSet, buffer, frame, frames,
                   txAccepted, sent, overrun>>

SetOwn(t) ==
    /\ Runs(t, "own")
    /\ txOwn' = [txOwn EXCEPT ![DMATxDescToSet] = 1]
    /\ txAccepted' = Append(txAccepted, frame[t])
    /\ Goto(t, "resume")
    /\ UNCHANGED <<txBuf, txLen, txDma, tbus, DMATxDescToSet, buffer, frame, frames, sent,
                   overrun>>

(* Mutant: the DMA is not resumed.                                         *)
Resume_None(t) ==
    /\ Runs(t, "resume")
    /\ Goto(t, "advance")
    /\ UNCHANGED <<txRing, buffer, frame, frames, txAccepted, sent, overrun>>

(* TBUS is tested after OWN was set.                                       *)
Resume(t) ==
    /\ Runs(t, "resume")
    /\ tbus' = 0
    /\ Goto(t, "advance")
    /\ UNCHANGED <<txOwn, txBuf, txLen, txDma, DMATxDescToSet, buffer, frame, frames, txAccepted,
                   sent, overrun>>

(* low_level_output returns ERR_OK.                                        *)
Advance(t) ==
    /\ Runs(t, "advance")
    /\ DMATxDescToSet' = TxSucc(DMATxDescToSet)
    /\ Goto(t, "idle")
    /\ UNCHANGED <<txOwn, txBuf, txLen, txDma, tbus, buffer, frame, frames, txAccepted, sent,
                   overrun>>

low_level_output(t) ==
    \/ Copy(t, 1, "copy1", "copy2") \/ Copy(t, 2, "copy2", "test")
    \/ TestOwn(t) \/ SetSize(t) \/ SetOwn(t) \/ Resume(t) \/ Advance(t)

TxNext ==
    \/ DmaSend \/ DmaStop
    \/ \E t \in Tasks : ETH_GetCurrentTxBuffer(t) \/ low_level_output(t)

(* The DMA sends what it has; a call of low_level_output, which waits for  *)
(* nothing, comes to its end.                                              *)
TxSpec ==
    /\ TxInit /\ [][TxNext]_txVars
    /\ WF_txVars(DmaSend)
    /\ \A t \in Tasks : WF_txVars(low_level_output(t))

-----------------------------------------------------------------------------
(* The variables keep their ranges.                                        *)
TxTypeOK ==
    /\ txOwn \in [TxDesc -> 0 .. 1] /\ txDma \in TxDesc /\ DMATxDescToSet \in TxDesc
    /\ tbus \in 0 .. 1 /\ overrun \in 0 .. 1
    /\ \A t \in Tasks :
          txPc[t] \in {"idle", "copy1", "copy2", "test", "size", "own", "resume", "advance"}
    /\ \A d \in TxDesc : txLen[d] \in 0 .. MaxTxFrames

(* How many descriptors d is after the one the DMA uses next.              *)
TxAhead(d) == (d - txDma) % ETH_TXBUFNB

(* What was sent has the lengths of the accepted frames in their order,    *)
(* and the DMA's descriptors, from the next one on and without a gap, hold *)
(* the others: no frame is sent twice or left out, also when the ring was  *)
(* full.                                                                   *)
SentInOrder ==
    LET queued == Len(txAccepted) - Len(sent)
    IN  /\ TxTypeOK
        /\ \A i \in 1 .. Len(sent) : sent[i][3] = txAccepted[i]
        /\ queued \in 0 .. ETH_TXBUFNB
        /\ \A d \in TxDesc :
              IF txOwn[d] = 1
              THEN TxAhead(d) < queued /\ txLen[d] = txAccepted[Len(sent) + TxAhead(d) + 1]
              ELSE TxAhead(d) >= queued

Intact == \A i \in 1 .. Len(sent) : sent[i] = [j \in 1 .. 3 |-> txAccepted[i]]

(* Every frame is sent with its own bytes, unless a frame was given to     *)
(* low_level_output while the ring was full.                               *)
IntactUnlessOverrun == overrun = 0 => Intact

(* The wire carries the accepted frames, each once, in order and with its  *)
(* own bytes, although low_level_output fills the buffer before it tests   *)
(* who owns it (ethernetif.c:53, lan8720.c:206).                           *)
SentExact == SentInOrder /\ IntactUnlessOverrun

(* Every frame the DMA was given is sent, although the DMA may stop at any *)
(* moment: OWN is set before TBUS is looked at.                            *)
AllSent == \A n \in 1 .. MaxTxFrames : Len(txAccepted) >= n ~> Len(sent) >= n

(* ethernetif.c:43: ERR_OK means that sending is all right: a frame for    *)
(* which low_level_output returned it is sent with its own bytes.          *)
SentIntact == Intact
=============================================================================

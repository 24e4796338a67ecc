------------------------------ MODULE MCBoard -------------------------------
(***************************************************************************)
(* The parts of the board support that share no state with each other: the *)
(* serial line, the memory manager, the start of the program and the two   *)
(* directions of the Ethernet driver.  A behavior is one of one part, the  *)
(* others stand still.                                                     *)
(*                                                                         *)
(* Serial line: a buffer of three bytes.  Memory manager: five blocks of   *)
(* two bytes and requests of nothing, one, two, three and six blocks, so   *)
(* that fragmentation, exhaustion and a request larger than the pool all   *)
(* happen.  Start: the sizes of MCBoot.  Ethernet: rings of two            *)
(* descriptors that the frames run around several times.                   *)
(***************************************************************************)
EXTENDS Usart, Malloc, MCBoot, EthRx, EthTx

VARIABLE part

boardVars == <<usartVars, mallocVars, bootVars, rxVars, txVars, part>>

\* Only the part that runs has a choice of initial states.
BoardInit ==
    /\ part \in {"usart", "malloc", "boot", "rx", "tx"}
    /\ UsartInit /\ MallocInit /\ BootInit /\ RxInit /\ TxInit
    /\ part # "boot" => need = CHOOSE x \in Needs : TRUE

UsartPart ==
    /\ part = "usart" /\ UsartNext
    /\ UNCHANGED <<mallocVars, bootVars, rxVars, txVars, part>>
MallocPart ==
    /\ part = "malloc" /\ MallocNext
    /\ UNCHANGED <<usartVars, bootVars, rxVars, txVars, part>>
BootPart ==
    /\ part = "boot" /\ BootNext
    /\ UNCHANGED <<usartVars, mallocVars, rxVars, txVars, part>>
RxPart(A) ==
    /\ part = "rx" /\ A
    /\ UNCHANGED <<usartVars, mallocVars, bootVars, txVars, part>>
TxPart(A) ==
    /\ part = "tx" /\ A
    /\ UNCHANGED <<usartVars, mallocVars, bootVars, rxVars, part>>

BoardNext == UsartPart \/ MallocPart \/ BootPart \/ RxPart(RxNext) \/ TxPart(TxNext)

\* The fairness of the parts, asked of the one that runs.
BoardSpec ==
    /\ BoardInit /\ [][BoardNext]_boardVars
    /\ WF_boardVars(BootPart)
    /\ WF_boardVars(RxPart(Isr))
    /\ WF_boardVars(TxPart(DmaSend))
    /\ \A t \in Tasks : WF_boardVars(TxPart(low_level_output(t)))

\* BootCompletes, where the start is the part that runs: main reaches the
\* end of start_task unless the PHY fails more often than the bank allows.
BootEnds == part = "boot" => BootCompletes
=============================================================================

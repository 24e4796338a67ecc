------------------------------- MODULE Usart -------------------------------
(***************************************************************************)
(* The serial line receiver of demo/SYSTEM/usart/usart.c.                  *)
(*                                                                         *)
(* USART1_IRQHandler runs once per received byte and assembles lines that  *)
(* end in CR LF.  Its whole state is the 16-bit word USART_RX_STA (bit 15: *)
(* a line is complete, bit 14: a CR was seen, bits 13..0: bytes stored)    *)
(* and the array USART_RX_BUF.  The two bits take three values in turn,    *)
(* kept in the variable phase, and the count is the variable n.  Nothing   *)
(* in the repository ever clears USART_RX_STA once bit 15 is set.          *)
(***************************************************************************)
EXTENDS Naturals, Sequences

CONSTANTS
    USART_REC_LEN,   \* capacity of USART_RX_BUF
    CR, LF,          \* the bytes 0x0d and 0x0a
    Data,            \* the other bytes
    MaxBytes         \* bound: bytes that arrive in one behaviour

ASSUME UsartAssumption ==
    /\ USART_REC_LEN \in 1 .. 16384
    /\ MaxBytes \in Nat
    /\ CR # LF
    /\ CR \notin Data
    /\ LF \notin Data

VARIABLES
    phase,  \* bits 15 and 14: "line" 00, "cr" 01, "done" 11
    count,      \* bits 13..0
    USART_RX_BUF,    \* USART_RX_BUF
    hist    \* history: every byte that arrived before the line completed

usartVars == <<phase, count, USART_RX_BUF, hist>>

Byte == Data \cup {CR, LF}

NoByte == "none"

UsartInit ==
    /\ phase = "line"
    /\ count = 0
    /\ USART_RX_BUF = [i \in 0 .. USART_REC_LEN - 1 |-> NoByte]
    /\ hist = <<>>

-----------------------------------------------------------------------------
(* Bit 15 set: the byte is read from the data register and dropped.        *)
IgnoreByte(b) ==
    /\ phase = "done"
    /\ UNCHANGED usartVars

(* Mutant: the restart only clears bit 14, so the count survives.          *)
AfterCR_KeepCount(b) ==
    /\ phase = "cr"
    /\ hist' = Append(hist, b)
    /\ phase' = IF b = LF THEN "done" ELSE "line"
    /\ UNCHANGED <<count, USART_RX_BUF>>

(* Bit 14 set: only LF may follow CR, anything else restarts the line.     *)
AfterCR(b) ==
    /\ phase = "cr"
    /\ hist' = Append(hist, b)
    /\ phase' = IF b = LF THEN "done" ELSE "line"
    /\ count' = IF b = LF THEN count ELSE 0
    /\ UNCHANGED USART_RX_BUF

(* Neither bit set: CR is remembered, every other byte is stored; storing  *)
(* into the last cell restarts the line.                                   *)
InLine(b) ==
    /\ phase = "line"
    /\ hist' = Append(hist, b)
    /\ \/ b = CR /\ phase' = "cr" /\ UNCHANGED <<count, USART_RX_BUF>>
       \/ /\ b # CR
          /\ USART_RX_BUF' = [USART_RX_BUF EXCEPT ![count] = b]
          /\ count' = IF count + 1 > USART_REC_LEN - 1 THEN 0 ELSE count + 1
          /\ UNCHANGED phase

USART1_IRQHandler(b) == IgnoreByte(b) \/ AfterCR(b) \/ InLine(b)

UsartNext == \E b \in Byte : Len(hist) < MaxBytes /\ USART1_IRQHandler(b)

UsartSpec == UsartInit /\ [][UsartNext]_usartVars

-----------------------------------------------------------------------------
(* The words keep their ranges.  In particular the index at which the      *)
(* handler stores, USART_RX_STA & 0x3FFF, is below USART_REC_LEN, because  *)
(* usart.c:145 restarts a line that reached the last cell.                 *)
UsartTypeOK ==
    /\ phase \in {"line", "cr", "done"}
    /\ count \in 0 .. USART_REC_LEN - 1
    /\ USART_RX_BUF \in [0 .. USART_REC_LEN - 1 -> Byte \cup {NoByte}]
    /\ hist \in Seq(Byte)

(* The n bytes of the current line are the n bytes of the input that end   *)
(* at position k.                                                          *)
LineEndsAt(k) ==
    /\ k >= count
    /\ \A i \in 0 .. count - 1 : USART_RX_BUF[i] = hist[k - count + 1 + i] /\ USART_RX_BUF[i] # CR

(* When bit 15 is set the buffer holds exactly the bytes that stood right  *)
(* before the CR LF: no byte of an earlier, abandoned line is left in it   *)
(* and no byte of the line is missing.                                     *)
CompleteLineIsWhatArrived ==
    phase = "done" =>
        LET k == Len(hist)
        IN  k >= 2 /\ hist[k] = LF /\ hist[k - 1] = CR /\ LineEndsAt(k - 2)

(* The inductive strengthening: at every stage of a line the stored bytes  *)
(* are the last ones that arrived before the terminator seen so far.       *)
LineIsSuffix ==
    LET k == Len(hist)
    IN  /\ phase = "line" => LineEndsAt(k)
        /\ phase = "cr" => k >= 1 /\ hist[k] = CR /\ LineEndsAt(k - 1)

=============================================================================

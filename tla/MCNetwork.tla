----------------------------- MODULE MCNetwork -----------------------------
(***************************************************************************)
(* Words of 12 values and two ms per tick: timeouts shorter than a tick,   *)
(* deadlines on both sides of the wrap, left_ms past the largest int and   *)
(* pends past the largest one of OSQPend all occur.                        *)
(***************************************************************************)
EXTENDS Network
=============================================================================

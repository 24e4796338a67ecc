----------------------------- MODULE MCOsQueue -----------------------------
(***************************************************************************)
(* Two slots, two tasks, three messages and timeouts of up to two ticks:   *)
(* the array wraps in both directions, the queue fills up, both tasks wait *)
(* at once, and every post, abort and deletion meets a pending timeout.    *)
(***************************************************************************)
EXTENDS OsQueue
=============================================================================

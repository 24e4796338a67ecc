----------------------------- MODULE MCNetconn -----------------------------
(***************************************************************************)
(* A mailbox with three slots and a pool of three pbufs (20 and 20 in the  *)
(* program), segments of two bytes that recv may take in parts, a window   *)
(* that holds more segments than the mailbox, and a second connection      *)
(* after the first.                                                        *)
(***************************************************************************)
EXTENDS Netconn
=============================================================================

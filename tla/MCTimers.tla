------------------------------ MODULE MCTimers ------------------------------
(***************************************************************************)
(* Two periodic handlers, the TCP timer and one timeout of the application *)
(* fill the pool.  A tick is five milliseconds as in the program; the      *)
(* intervals are 4 to 12 ms, shorter than a tick, not a multiple of it and *)
(* longer; the tick counter wraps after 16 ticks, so that times are long   *)
(* compared with the intervals when the subtraction goes wrong.            *)
(***************************************************************************)
EXTENDS Timers

MCPeriodic == <<"arp_timer", "dns_timer">>
MCInterval == [arp_timer |-> 12, dns_timer |-> 4, tcp |-> 5, app |-> 9]
=============================================================================

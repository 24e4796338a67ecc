------------------------------- MODULE MCBoot -------------------------------
(***************************************************************************)
(* Buffers at one sixty-fourth of their size in blocks.  The size of       *)
(* memp_memory ranges over values for which the bank tolerates no, one and *)
(* two PHY failures, and one for which it is too small from the start.     *)
(***************************************************************************)
EXTENDS Boot

BufferSizes(memp) ==
    [p \in Pointer |->
        CASE p = "Rx_Buff" -> 15
          [] p = "Tx_Buff" -> 4
          [] p = "memp_memory" -> memp
          [] p = "ram_heap" -> 8
          [] p = "TCPIP_THREAD_TASK_STK" -> 2
          [] OTHER -> 1]

(* The proportions of this repository: 3200 blocks, of which one call of   *)
(* lwip_comm_init takes about 2300.                                        *)
ThisNeeds == {BufferSizes(7)}

MCNeeds == {BufferSizes(m) : m \in {2, 8, 20, 30, 70, 90}}
=============================================================================

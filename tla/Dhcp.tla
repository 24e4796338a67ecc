-------------------------------- MODULE Dhcp --------------------------------
(***************************************************************************)
(* Getting an address: lwip_dhcp_task (LWIP_APP/lwip_comm.c) and the DHCP  *)
(* client of lwIP (core/dhcp.c).                                           *)
(*                                                                         *)
(* The client runs in tcpip_thread, which preempts the DHCP task between   *)
(* any two of its steps; a handler of tcpip_thread is one step.  The task  *)
(* reads and writes the interface and calls dhcp_start and dhcp_stop       *)
(* without a lock.  The server and other hosts answer or not, as they      *)
(* like.  Renewal of a lease does not occur: the client is stopped.        *)
(***************************************************************************)
EXTENDS Integers

CONSTANTS
    LWIP_MAX_DHCP_TRIES,
    MaxNaks,         \* bound: negative answers of the server
    MaxConflicts,    \* bound: hosts found to have the offered address
    ConflictsForever,\* 1: that bound is not applied
    MaxMissed        \* bound: timeouts between two looks of the task; the
                     \* shortest is 500 ms and the task looks every 250 ms

ASSUME DhcpAssumption ==
    /\ LWIP_MAX_DHCP_TRIES \in Nat /\ MaxNaks \in Nat /\ MaxConflicts \in Nat
    /\ ConflictsForever \in 0 .. 1 /\ MaxMissed \in Nat

VARIABLES
    netif,      \* ip, netmask and gw: "none", "lease" or "static"; up: 0 or 1
    state, tries, timeout,   \* the client: timeout is 1 when one is running
    pcb,        \* 1: the client has its UDP pcb
    pc,         \* where the DHCP task is
    seen,       \* the addresses the task has read
    lwipdev,    \* the addresses the application sees
    dhcpstatus,
    naks, conflicts, missed  \* for the bounds

client == <<state, tries, timeout, pcb>>
env == <<naks, conflicts, missed>>
task == <<pc, seen, lwipdev, dhcpstatus>>
vars == <<netif, client, task, env>>

Address == {"none", "lease", "static"}
All(a) == [ip |-> a, netmask |-> a, gw |-> a]
NetifOf(a, u) == [ip |-> a, netmask |-> a, gw |-> a, up |-> u]
Addresses(n) == [ip |-> n.ip, netmask |-> n.netmask, gw |-> n.gw]

(* lwip_comm_init has brought the interface up without an address.         *)
Init ==
    /\ netif = NetifOf("none", 1)
    /\ state = "off" /\ tries = 0 /\ timeout = 0 /\ pcb = 0
    /\ pc = "start" /\ seen = All("none")
    /\ lwipdev = All("static") /\ dhcpstatus = 0
    /\ naks = 0 /\ conflicts = 0 /\ missed = 0

-----------------------------------------------------------------------------
(* The client, in tcpip_thread.                                            *)

(* dhcp_set_state(s), then a try: tries starts again in a new state.       *)
Try(s) ==
    /\ state' = s
    /\ tries' = (IF s = state THEN tries ELSE 0) + 1
    /\ timeout' = 1

dhcp_discover == Try("selecting")
dhcp_select == Try("requesting")

dhcp_handle_offer ==
    /\ pcb = 1 /\ state = "selecting"
    /\ dhcp_select
    /\ UNCHANGED <<netif, pcb, task, env>>

(* An acknowledgement: look for a host that has the address.               *)
dhcp_handle_ack ==
    /\ pcb = 1 /\ state = "requesting"
    /\ Try("checking")
    /\ UNCHANGED <<netif, pcb, task, env>>

(* dhcp_discover from state BACKING_OFF.                                   *)
dhcp_handle_nak ==
    /\ pcb = 1 /\ state = "requesting"
    /\ naks < MaxNaks /\ naks' = naks + 1
    /\ netif' = NetifOf("none", 0)
    /\ dhcp_discover
    /\ UNCHANGED <<pcb, task, conflicts, missed>>

(* The address is in use: dhcp_decline.                                    *)
dhcp_arp_reply ==
    /\ state = "checking"
    /\ ConflictsForever = 0 => conflicts < MaxConflicts
    /\ conflicts' = IF conflicts < MaxConflicts THEN conflicts + 1 ELSE conflicts
    /\ Try("backing_off")
    /\ UNCHANGED <<netif, pcb, task, naks, missed>>

dhcp_bind ==
    /\ netif' = NetifOf("lease", 1)
    /\ state' = "bound" /\ tries' = 0 /\ timeout' = 0

(* dhcp_release, then dhcp_discover from state OFF.                        *)
ReleaseAndDiscover ==
    /\ netif' = NetifOf("none", 0)
    /\ dhcp_discover

dhcp_timeout ==
    /\ timeout = 1
    /\ missed < MaxMissed /\ missed' = missed + 1
    /\ \/ state \in {"backing_off", "selecting"} /\ dhcp_discover /\ UNCHANGED netif
       \/ state = "requesting" /\ tries <= 5 /\ dhcp_select /\ UNCHANGED netif
       \/ state = "requesting" /\ tries > 5 /\ ReleaseAndDiscover
       \/ state = "checking" /\ tries <= 1 /\ Try("checking") /\ UNCHANGED netif
       \/ state = "checking" /\ tries > 1 /\ dhcp_bind
    /\ UNCHANGED <<pcb, task, naks, conflicts>>

Client ==
    dhcp_handle_offer \/ dhcp_handle_ack \/ dhcp_handle_nak \/ dhcp_arp_reply
    \/ dhcp_timeout

-----------------------------------------------------------------------------
(* The DHCP task.                                                          *)

Go(from, to) == pc = from /\ pc' = to

(* dhcp_start up to the sending of the first message.                      *)
StartSend ==
    /\ Go("start", "started")
    /\ pcb' = 1 /\ state' = "selecting" /\ tries' = 0
    /\ UNCHANGED <<netif, timeout, seen, lwipdev, dhcpstatus, env>>

(* The rest of dhcp_discover, perhaps after the answer was handled.        *)
StartRest ==
    /\ Go("started", "ip")
    /\ tries' = tries + 1 /\ timeout' = 1
    /\ dhcpstatus' = 0
    /\ UNCHANGED <<netif, state, pcb, seen, lwipdev, env>>

Read(a, from, to) ==
    /\ Go(from, to)
    /\ seen' = [seen EXCEPT ![a] = netif[a]]
    /\ UNCHANGED <<netif, client, lwipdev, dhcpstatus, env>>

(* Mutant: the address is read last.                                       *)
Reads_IpLast ==
    Read("netmask", "ip", "netmask") \/ Read("gw", "netmask", "gw") \/ Read("ip", "gw", "test")

Reads ==
    Read("ip", "ip", "netmask") \/ Read("netmask", "netmask", "gw") \/ Read("gw", "gw", "test")


(* An address was read; or there were too many tries; or wait 250 ms.      *)
Test ==
    /\ pc = "test"
    /\ missed' = 0
    /\ \/ /\ seen.ip # "none"
          /\ dhcpstatus' = 2 /\ lwipdev' = seen /\ pc' = "stop"
       \/ /\ seen.ip = "none" /\ tries > LWIP_MAX_DHCP_TRIES
          /\ dhcpstatus' = 255 /\ pc' = "write_ip" /\ UNCHANGED lwipdev
       \/ /\ seen.ip = "none" /\ tries <= LWIP_MAX_DHCP_TRIES
          /\ pc' = "ip" /\ UNCHANGED <<dhcpstatus, lwipdev>>
    /\ UNCHANGED <<netif, client, seen, naks, conflicts>>

(* IP4_ADDR: a default address is written to the interface.                *)
Write(a, from, to) ==
    /\ Go(from, to)
    /\ netif' = [netif EXCEPT ![a] = lwipdev[a]]
    /\ UNCHANGED <<client, seen, lwipdev, dhcpstatus, env>>

Writes ==
    \/ Write("ip", "write_ip", "write_netmask")
    \/ Write("netmask", "write_netmask", "write_gw")
    \/ Write("gw", "write_gw", "stop")

(* dhcp_stop removes the pcb, then stops the client.                       *)
StopPcb ==
    /\ Go("stop", "stop2")
    /\ pcb' = 0
    /\ UNCHANGED <<netif, state, tries, timeout, seen, lwipdev, dhcpstatus, env>>

StopState ==
    /\ Go("stop2", "deleted")
    /\ state' = "off" /\ tries' = 0 /\ timeout' = 0
    /\ UNCHANGED <<netif, pcb, seen, lwipdev, dhcpstatus, env>>

lwip_dhcp_task ==
    StartSend \/ StartRest \/ Reads \/ Test \/ Writes \/ StopPcb \/ StopState

Next == Client \/ lwip_dhcp_task

(* The task is not starved, and timeouts that are running expire.          *)
Spec == Init /\ [][Next]_vars /\ WF_vars(lwip_dhcp_task) /\ WF_vars(dhcp_timeout)

-----------------------------------------------------------------------------
(* The variables keep their ranges; tries, a u8, stays far from its limit. *)
TypeOK ==
    /\ netif \in [ip : Address, netmask : Address, gw : Address, up : 0 .. 1]
    /\ pcb \in 0 .. 1 /\ timeout \in 0 .. 1
    /\ state \in {"off", "selecting", "requesting", "checking", "backing_off", "bound"}
    /\ tries \in 0 .. LWIP_MAX_DHCP_TRIES + 2 * MaxMissed + 2
    /\ dhcpstatus \in {0, 2, 255}
    /\ missed \in 0 .. MaxMissed

(* When the task reports success, what it has told the application is the  *)
(* lease as a whole, never the address of the lease with older fields, and *)
(* the interface uses that lease and is up, from then on.                  *)
LeaseUsed ==
    /\ TypeOK
    /\ dhcpstatus = 2 => lwipdev = All("lease") /\ netif = NetifOf("lease", 1)

(* Every step leaves the reported lease in use, as a whole, and once the   *)
(* task is gone nobody changes the interface any more: what it left stays, *)
(* whatever the server still sends.                                        *)
LeaseKept == [][LeaseUsed' /\ (pc = "deleted" => UNCHANGED netif)]_vars

(* The task comes to an end whatever the server does: with a lease or,     *)
(* after LWIP_MAX_DHCP_TRIES, with the default address (lwip_comm.h:21).   *)
Ends == <>(pc = "deleted")

(* lwip_comm.c:225: on a timeout the static address is used.               *)
StaticUsed == pc = "deleted" /\ dhcpstatus = 255 => Addresses(netif) = All("static")

(* ... and the interface that is to use it is up.                          *)
StaticUp == pc = "deleted" /\ dhcpstatus = 255 => netif.up = 1
=============================================================================

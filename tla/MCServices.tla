----------------------------- MODULE MCServices -----------------------------
(***************************************************************************)
(* The services of lwIP that the program uses besides a connection, and    *)
(* the calls by which it sends on one: DHCP, the resolver, the ARP table   *)
(* and the sequential API.  They share no state in the models; a behavior  *)
(* is one of one part, the others stand still.                             *)
(*                                                                         *)
(* DHCP: the limit of tries of the program, a server that refuses once and *)
(* one host that has the offered address.  Resolver: two tasks, two names, *)
(* two entries, two servers and three tries, so that an entry is reused    *)
(* while answers for its former name are on the way.  ARP: three           *)
(* neighbours for two entries, each with two Ethernet addresses, and three *)
(* ticks in which an entry is about to expire.  Sequential API: writes     *)
(* smaller and larger than the send buffer, two sockets one after the      *)
(* other, and a mailbox of tcpip_thread with one slot more than packets.   *)
(***************************************************************************)
EXTENDS Dhcp, Dns, Etharp, NetconnSend

VARIABLE part

serviceVars == <<vars, dnsVars, arpVars, sendVars, part>>

ServicesInit ==
    /\ part \in {"dhcp", "dns", "arp", "send"}
    /\ Init /\ DnsInit /\ ArpInit /\ SendInit

DhcpPart(A) ==
    /\ part = "dhcp" /\ A
    /\ UNCHANGED <<dnsVars, arpVars, sendVars, part>>
DnsPart ==
    /\ part = "dns" /\ DnsNext
    /\ UNCHANGED <<vars, arpVars, sendVars, part>>
ArpPart ==
    /\ part = "arp" /\ ArpNext
    /\ UNCHANGED <<vars, dnsVars, sendVars, part>>
SendPart(A) ==
    /\ part = "send" /\ A
    /\ UNCHANGED <<vars, dnsVars, arpVars, part>>

ServicesNext == DhcpPart(Next) \/ DnsPart \/ ArpPart \/ SendPart(SendNext)

\* The fairness of the parts, asked of the one that runs.
ServicesSpec ==
    /\ ServicesInit /\ [][ServicesNext]_serviceVars
    /\ WF_serviceVars(DhcpPart(lwip_dhcp_task))
    /\ WF_serviceVars(DhcpPart(dhcp_timeout))
    /\ WF_serviceVars(SendPart(HandleApi))
    /\ WF_serviceVars(SendPart(OtherPacket))
    /\ WF_serviceVars(SendPart(Poll))
    /\ WF_serviceVars(SendPart(Return))
    /\ WF_serviceVars(SendPart(tcpip_input))
    /\ SF_serviceVars(SendPart(HandlePacket))

=============================================================================

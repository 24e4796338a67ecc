------------------------------- MODULE Etharp -------------------------------
(***************************************************************************)
(* The ARP table of lwIP (netif/etharp.c): which Ethernet address a packet *)
(* is sent to, and where a packet waits while the address is asked for.    *)
(*                                                                         *)
(* The table is small and shared by all destinations: an entry is taken    *)
(* from another address when none is empty.  Between two packets to one    *)
(* address its entry may have expired, been given to another address or    *)
(* come back at another place, while etharp_cached_entry still points to   *)
(* the old one.  Answers are lost, late, repeated and unasked for, and     *)
(* hosts change their Ethernet address.  Everything runs in tcpip_thread;  *)
(* a handler is one step.  Each entry holds one packet (ARP_QUEUEING is    *)
(* 0), there are no static entries, and LWIP_DEBUG is defined (lwipopts.h  *)
(* gives it the value LWIP_DBG_OFF), so that an entry freed is cleared.    *)
(***************************************************************************)
EXTENDS Integers, FiniteSets

CONSTANTS
    Neighbours,        \* addresses on the local network
    Gateway,           \* the one of them that is the gateway
    Macs,              \* Ethernet addresses
    ARP_TABLE_SIZE,
    ARP_MAXAGE,
    ARP_AGE_REREQUEST_USED,
    ARP_MAXPENDING

Nothing == "nothing"

ASSUME ArpAssumption ==
    /\ Gateway \in Neighbours /\ Nothing \notin Neighbours \cup Macs
    /\ ARP_TABLE_SIZE \in Nat \ {0}
    /\ ARP_MAXPENDING \in Nat /\ ARP_AGE_REREQUEST_USED \in Nat
    /\ ARP_MAXAGE \in Nat /\ ARP_AGE_REREQUEST_USED < ARP_MAXAGE

VARIABLE arp

arpVars == <<arp>>

Slots == 0 .. ARP_TABLE_SIZE - 1
Outside == "outside"   \* an address that is not on the local network

(* q: the address of the packet that waits, netif: 1 when recorded.  The   *)
(* rest is history, of an entry about to expire: used, in this tick a      *)
(* packet was sent and there was memory to ask; asked, the requests sent   *)
(* in this tick; faults, the ticks in which nothing was sent, there was no *)
(* memory, or the neighbour did not answer.                                *)
EmptySlot == [state |-> "empty", ip |-> Nothing, mac |-> Nothing, ctime |-> 0,
              q |-> Nothing, netif |-> 0, used |-> 0, asked |-> 0, faults |-> 0]

(* hint: etharp_cached_entry.  pbufs: copies of packets that are           *)
(* allocated.  History: heard, the Ethernet address each neighbour last    *)
(* announced; astray, a packet was sent to another one.                    *)
ArpInit ==
    arp = [table |-> [i \in Slots |-> EmptySlot], hint |-> 0, pbufs |-> 0,
           heard |-> [a \in Neighbours |-> Nothing], astray |-> FALSE]

Stable == {"stable", "rerequesting"}

-----------------------------------------------------------------------------
(* The parts of a handler, from one state record to the next.              *)

etharp_send_ip(s, ip, mac) == [s EXCEPT !.astray = @ \/ mac = Nothing \/ mac # s.heard[ip]]

etharp_free_entry(s, i) ==
    [s EXCEPT !.table[i] = EmptySlot,
              !.pbufs = IF s.table[i].q # Nothing THEN @ - 1 ELSE @]

Matching(s, ip) == {i \in Slots : s.table[i].state # "empty" /\ s.table[i].ip = ip}

Least(S) == CHOOSE i \in S : \A j \in S : i <= j

(* The oldest of some entries: of equally old ones the last.               *)
Oldest(s, S) ==
    CHOOSE i \in S : \A j \in S :
        \/ s.table[i].ctime > s.table[j].ctime
        \/ s.table[i].ctime = s.table[j].ctime /\ i >= j

(* The entry to be used for a new address: an empty one, or the oldest     *)
(* stable one, the oldest pending one without and the oldest with a packet.*)
Victim(s) ==
    LET in(states) == {i \in Slots : s.table[i].state \in states}
        idle == {i \in in({"pending"}) : s.table[i].q = Nothing}
    IN  IF in({"empty"}) # {} THEN Least(in({"empty"}))
        ELSE IF in(Stable) # {} THEN Oldest(s, in(Stable))
        ELSE IF idle # {} THEN Oldest(s, idle)
        ELSE Oldest(s, in({"pending"}))

(* With ETHARP_FLAG_TRY_HARD: the entry of the address, or a new one.      *)
etharp_find_entry(s, ip) ==
    IF Matching(s, ip) # {} THEN [at |-> Least(Matching(s, ip)), s |-> s]
    ELSE LET i == Victim(s)
         IN  [at |-> i, s |-> [etharp_free_entry(s, i) EXCEPT !.table[i].ip = ip]]

-----------------------------------------------------------------------------
(* Packets to be sent.                                                     *)

AboutToExpire(e) == e.state \in Stable /\ e.ctime >= ARP_AGE_REREQUEST_USED

(* A packet for ip by entry i.  The entry is asked for again when it is    *)
(* about to expire, once per tick; there may be no memory for that: r.     *)
etharp_output_to_arp_index(s, ip, i, r) ==
    LET e == s.table[i]
        ask == r = "ok" /\ AboutToExpire(e) /\ e.state = "stable"
        b == [e EXCEPT !.used = IF r = "ok" /\ AboutToExpire(e) THEN 1 ELSE @]
        d == IF ask THEN [b EXCEPT !.state = "rerequesting", !.asked = @ + 1] ELSE b
    IN  etharp_send_ip([s EXCEPT !.table[i] = d], ip, e.mac)

(* q: a packet to be sent, or Nothing.  A request is sent for a pending    *)
(* entry; whether there was memory for it makes no difference here.  c:    *)
(* there is memory for the copy of the packet.                             *)
etharp_query(s, ip, q, c) ==
    LET found == etharp_find_entry(s, ip)
        i == found.at
        e == found.s.table[i]
        t == [found.s EXCEPT !.table[i].state = IF e.state = "empty" THEN "pending" ELSE e.state]
    IN  IF q = Nothing THEN t
        ELSE IF e.state \in Stable THEN [etharp_send_ip(t, q, e.mac) EXCEPT !.hint = i]
        ELSE IF c = "mem" THEN t
        ELSE [t EXCEPT !.table[i].q = q, !.pbufs = @ + (IF e.q = Nothing THEN 1 ELSE 0)]

(* What ip_output gives to the interface; broadcasts and multicasts are    *)
(* not looked up and not shown.                                            *)
NextHop(dest) == IF dest = Outside THEN Gateway ELSE dest

(* Mutant: the hint is believed without comparing the address.             *)
Cached_Unchecked(s, ip) == s.table[s.hint].state \in Stable

(* The entry that was used last is the one.                                *)
Cached(s, ip) == s.table[s.hint].state \in Stable /\ s.table[s.hint].ip = ip

etharp_output ==
    \E dest \in Neighbours \cup {Outside}, r, c \in {"ok", "mem"} :
        LET ip == NextHop(dest)
            known == {i \in Matching(arp, ip) : arp.table[i].state \in Stable}
        IN  arp' = IF Cached(arp, ip) THEN etharp_output_to_arp_index(arp, ip, arp.hint, r)
                   ELSE IF known # {}
                   THEN etharp_output_to_arp_index([arp EXCEPT !.hint = Least(known)],
                                                   ip, Least(known), r)
                   ELSE etharp_query(arp, ip, ip, c)

(* dhcp_check asks for an address without a packet.                        *)
dhcp_check == \E ip \in Neighbours : arp' = etharp_query(arp, ip, Nothing, "ok")

-----------------------------------------------------------------------------
(* Messages received, and time.                                            *)

(* The entry becomes stable and the packet that waits is sent and freed.   *)
Learn(s, i, mac) ==
    LET e == s.table[i]
        t == [s EXCEPT !.table[i] = [@ EXCEPT !.state = "stable", !.netif = 1, !.mac = mac,
                                              !.ctime = 0, !.q = Nothing,
                                              !.used = 0, !.asked = 0, !.faults = 0]]
    IN  IF e.q = Nothing THEN t ELSE [etharp_send_ip(t, e.q, mac) EXCEPT !.pbufs = @ - 1]

(* A message that is not for this host updates an entry but makes none     *)
(* (ETHARP_FLAG_FIND_ONLY).                                                *)
etharp_update_arp_entry(s, ip, mac, for_us) ==
    IF for_us
    THEN LET found == etharp_find_entry(s, ip) IN Learn(found.s, found.at, mac)
    ELSE IF Matching(s, ip) # {} THEN Learn(s, Least(Matching(s, ip)), mac)
    ELSE s

(* A request or an answer of a neighbour; requests for this host are       *)
(* answered from the message itself.                                       *)
etharp_arp_input ==
    \E ip \in Neighbours, mac \in Macs, for_us \in BOOLEAN :
        arp' = etharp_update_arp_entry([arp EXCEPT !.heard[ip] = mac], ip, mac, for_us)

(* One tick for an entry: an old one is freed, one that was asked for      *)
(* again without an answer can be asked for again.                         *)
TickEntry(e) ==
    LET age == e.ctime + 1
        fault == AboutToExpire(e) /\ (e.used = 0 \/ e.asked > 0)
    IN  IF e.state = "empty" THEN e
        ELSE IF age >= ARP_MAXAGE \/ (e.state = "pending" /\ age >= ARP_MAXPENDING)
        THEN EmptySlot
        ELSE [e EXCEPT !.ctime = age,
                       !.state = IF e.state = "rerequesting" THEN "stable" ELSE e.state,
                       !.used = 0, !.asked = 0, !.faults = IF fault THEN @ + 1 ELSE @]

(* The table after each entry becomes f of it; the packets on entries      *)
(* freed are freed.                                                        *)
Sweep(s, f) ==
    LET freed == {i \in Slots : s.table[i].q # Nothing /\ f[i] = EmptySlot}
    IN  [s EXCEPT !.table = f, !.pbufs = @ - Cardinality(freed)]

etharp_tmr ==
    /\ \E i \in Slots : arp.table[i].state # "empty"
    /\ arp' = Sweep(arp, [i \in Slots |-> TickEntry(arp.table[i])])

(* netif_set_down.  Only a stable entry has its interface recorded: one    *)
(* that is pending stays, with its packet.                                 *)
etharp_cleanup_netif ==
    arp' = Sweep(arp, [i \in Slots |->
               IF arp.table[i].netif = 1 THEN EmptySlot ELSE arp.table[i]])

ArpNext ==
    \/ etharp_output \/ dhcp_check \/ etharp_arp_input \/ etharp_tmr \/ etharp_cleanup_netif

ArpSpec == ArpInit /\ [][ArpNext]_arpVars

-----------------------------------------------------------------------------
ArpTypeOK ==
    /\ arp.hint \in Slots
    /\ \A i \in Slots : arp.table[i].state \in {"empty", "pending"} \cup Stable

(* No address has two entries, whatever the order of packets, messages,    *)
(* expiry and recycling: an update would reach only one of them.           *)
OneEntryEach == \A ip \in Neighbours : Cardinality(Matching(arp, ip)) <= 1

(* A packet waits only on a pending entry, the one of its own address      *)
(* (etharp.c:368: "no queued packets should exist on stable entries"), and *)
(* every copy made is on an entry or has been freed.                       *)
CopiesAccounted ==
    LET waiting == {i \in Slots : arp.table[i].q # Nothing}
    IN  /\ \A i \in waiting : arp.table[i].state = "pending" /\ arp.table[i].q = arp.table[i].ip
        /\ arp.pbufs = Cardinality(waiting)

(* A packet is sent to the Ethernet address that its next hop last         *)
(* announced, in spite of the hint, of recycled entries and of packets     *)
(* that waited.                                                            *)
SentToOwner == ~arp.astray

(* etharp.c:80: an entry in steady use does not expire as long as the      *)
(* neighbour answers: it gets older than ARP_AGE_REREQUEST_USED only by    *)
(* ticks in which nothing was sent, there was no memory, or no answer      *)
(* came.  And the neighbour is not asked more than once per tick.          *)
SteadyKept ==
    \A i \in Slots : arp.table[i].state \in Stable =>
        /\ arp.table[i].ctime <= ARP_AGE_REREQUEST_USED + arp.table[i].faults
        /\ arp.table[i].asked <= 1

(* The ARP table sends, keeps and forgets exactly.                         *)
ArpExact == ArpTypeOK /\ OneEntryEach /\ CopiesAccounted /\ SentToOwner /\ SteadyKept
=============================================================================

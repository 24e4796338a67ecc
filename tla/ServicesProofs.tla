--------------------------- MODULE ServicesProofs ---------------------------
(***************************************************************************)
(* Proofs about the services of lwIP the program uses besides a            *)
(* connection.                                                             *)
(*                                                                         *)
(* DHCP.  The task and the client, which preempts it, share the interface  *)
(* without a lock.  That they do not disturb each other rests on who may   *)
(* write it when: the client until it is bound, the task only after it has *)
(* given up.  DhcpInv says so, with what the task has read so far.         *)
(*                                                                         *)
(* The ARP table.  Its handlers meet entries that another address has      *)
(* taken over.  ArpOK is what holds of every table between two handlers,   *)
(* and, with one address excepted, half way through the one that learns a  *)
(* new Ethernet address.                                                   *)
(*                                                                         *)
(* The send side of the sequential API.  A call is none, sent, kept or     *)
(* answered, and handlers of tcpip_thread and callbacks of the pcb move it *)
(* from one to the next.  SendOK says what the netconn, the pcb, the       *)
(* semaphore and the mailbox are in each.                                  *)
(*                                                                         *)
(* The resolver.  An entry of its table points to the message of a task.   *)
(* DnsOK says that the pointers and the tasks that wait belong together,   *)
(* one to one, and that an entry has waited exactly as long as its task.   *)
(***************************************************************************)
EXTENDS Dhcp, Dns, Etharp, NetconnSend, FiniteSetTheorems, SequenceTheorems, TLAPS

(* Where the task is before it has decided, and after.                     *)
Looking == {"start", "started", "ip", "netmask", "gw", "test"}
Writing == {"write_ip", "write_netmask", "write_gw"}
Stopping == {"stop", "stop2", "deleted"}

(* As long as the task has not decided, the interface belongs to the       *)
(* client: it has the whole lease and is up, or no address, and the lease  *)
(* is there exactly when the client is bound.                              *)
ClientOwns ==
    pc \in Looking =>
        /\ netif \in {NetifOf("none", 0), NetifOf("none", 1), NetifOf("lease", 1)}
        /\ netif.ip = "lease" <=> state = "bound"
        /\ dhcpstatus = 0 /\ lwipdev = All("static")

(* What the task has read so far is a part of the lease whenever it has    *)
(* read an address: the client, once bound, stands still.                  *)
SeenLease ==
    /\ seen \in [ip : Address, netmask : Address, gw : Address]
    /\ pc \in {"netmask", "gw", "test"} /\ seen.ip # "none" =>
        /\ state = "bound" /\ seen.ip = "lease"
        /\ pc \in {"gw", "test"} => seen.netmask = "lease"
        /\ pc = "test" => seen.gw = "lease"

(* After the decision.                                                     *)
Decided ==
    /\ pc \in Writing => dhcpstatus = 255
    /\ dhcpstatus = 255 => lwipdev = All("static")
    /\ pc \in Stopping /\ dhcpstatus # 255 =>
        /\ dhcpstatus = 2 /\ lwipdev = All("lease") /\ netif = NetifOf("lease", 1)
        /\ state = IF pc = "deleted" THEN "off" ELSE "bound"
    /\ pc = "deleted" => state = "off"

(* Before dhcp_start the client is off.  Each try is a timeout that the    *)
(* task has missed or the first in its state; the task looks at the count  *)
(* every MaxMissed timeouts, and as many may come after its last look.     *)
TriesBounded ==
    /\ pc = "start" => state = "off" /\ tries = 0
    /\ pc = "started" => tries <= missed + 1
    /\ pc \in Looking => tries <= LWIP_MAX_DHCP_TRIES + missed + 2
    /\ tries <= LWIP_MAX_DHCP_TRIES + missed + 2 + MaxMissed

(* The inductive invariant.                                                *)
DhcpInv ==
    /\ TypeOK /\ pc \in Looking \cup Writing \cup Stopping
    /\ ClientOwns /\ SeenLease /\ Decided /\ TriesBounded

-----------------------------------------------------------------------------
(* Before the task calls dhcp_start.                                       *)
LEMMA DhcpInitInv == Init => DhcpInv
<1> SUFFICES ASSUME Init PROVE DhcpInv  OBVIOUS
<1> QED
  BY DhcpAssumption
  DEF Init, DhcpInv, TypeOK, ClientOwns, SeenLease, Decided, TriesBounded,
      Looking, Writing, Stopping, NetifOf, All, Address

(* A step of the client: only before it is bound, and it changes the       *)
(* interface as a whole.                                                   *)
LEMMA ClientStep ==
    ASSUME DhcpInv, Client
    PROVE  DhcpInv' /\ (pc = "deleted" => UNCHANGED netif)
<1> USE DhcpAssumption DEF DhcpInv, task, env, Try, Address, NetifOf
<1>1. /\ UNCHANGED <<pc, seen, lwipdev, dhcpstatus>>
      /\ state \in {"selecting", "requesting", "checking", "backing_off"}
      /\ state' \in {"selecting", "requesting", "checking", "backing_off", "bound"}
      /\ \/ UNCHANGED netif /\ state' # "bound"
         \/ netif' = NetifOf("none", 0) /\ state' # "bound"
         \/ netif' = NetifOf("lease", 1) /\ state' = "bound"
  BY DEF Client, dhcp_handle_offer, dhcp_handle_ack, dhcp_handle_nak, dhcp_arp_reply,
         dhcp_timeout, dhcp_select, dhcp_discover, ReleaseAndDiscover, dhcp_bind
<1>2. pc \notin {"start", "deleted"} /\ dhcpstatus # 2
  <2>1. pc \notin {"start", "deleted"}  BY <1>1 DEF TriesBounded, Decided
  <2>2. CASE pc \in Looking  BY <2>1, <2>2 DEF ClientOwns
  <2>3. CASE pc \in Writing  BY <2>1, <2>3 DEF Decided
  <2>4. CASE pc \in Stopping  BY <1>1, <2>1, <2>4 DEF Decided
  <2> QED BY <2>1, <2>2, <2>3, <2>4
<1>3. /\ timeout' \in 0 .. 1 /\ pcb' \in 0 .. 1
      /\ missed' \in 0 .. MaxMissed /\ tries' \in Nat
      /\ \/ tries' <= 1 /\ missed' = missed
         \/ tries' <= tries + 1 /\ missed' = missed + 1
  <2> USE DEF TypeOK
  <2>1. CASE dhcp_timeout
    BY <2>1 DEF dhcp_timeout, dhcp_select, dhcp_discover, ReleaseAndDiscover, dhcp_bind
  <2>2. CASE dhcp_handle_offer \/ dhcp_handle_ack \/ dhcp_handle_nak \/ dhcp_arp_reply
    BY <2>2 DEF dhcp_handle_offer, dhcp_handle_ack, dhcp_handle_nak, dhcp_arp_reply,
                dhcp_select, dhcp_discover
  <2> QED BY <2>1, <2>2 DEF Client
<1>4. TriesBounded'
  <2>1. /\ MaxMissed \in Nat /\ missed \in Nat /\ missed' \in Nat /\ tries \in Nat
        /\ TriesBounded
    BY <1>3 DEF TypeOK
  <2> HIDE DEF DhcpInv
  <2>2. CASE tries' <= 1 /\ missed' = missed
    BY <1>1, <1>2, <1>3, <2>1, <2>2 DEF TriesBounded
  <2>3. CASE tries' <= tries + 1 /\ missed' = missed + 1
    BY <1>1, <1>2, <1>3, <2>1, <2>3 DEF TriesBounded
  <2> QED BY <1>3, <2>2, <2>3
<1>5. TypeOK'
  BY <1>1, <1>3, <1>4 DEF TypeOK, TriesBounded
<1>6. ClientOwns' /\ SeenLease'
  BY <1>1 DEF ClientOwns, SeenLease
<1>7. Decided'
  BY <1>1, <1>2 DEF Decided, Writing, Stopping, TypeOK
<1> QED BY <1>1, <1>2, <1>4, <1>5, <1>6, <1>7

(* Before the decision the fields of the interface agree.                  *)
LEMMA NetifWhole ==
    ASSUME ClientOwns, pc \in Looking
    PROVE  /\ netif.ip \in {"none", "lease"} /\ netif.netmask = netif.ip /\ netif.gw = netif.ip
           /\ state = "bound" <=> netif = NetifOf("lease", 1)
           /\ state = "bound" <=> netif.ip = "lease"
<1>1. CASE netif = NetifOf("none", 0)  BY <1>1 DEF ClientOwns, NetifOf
<1>2. CASE netif = NetifOf("none", 1)  BY <1>2 DEF ClientOwns, NetifOf
<1>3. CASE netif = NetifOf("lease", 1)  BY <1>3 DEF ClientOwns, NetifOf
<1> QED BY <1>1, <1>2, <1>3 DEF ClientOwns

(* A step of the task: what it reads before it decides is the client's,    *)
(* what it reports is the lease, and only after a timeout does it write.   *)
LEMMA TaskStep ==
    ASSUME DhcpInv, lwip_dhcp_task
    PROVE  DhcpInv' /\ (pc = "deleted" => UNCHANGED netif)
<1> USE DEF Looking, Writing, Stopping
<1>1. TypeOK  BY DEF DhcpInv
<1>2. ClientOwns  BY DEF DhcpInv
<1>3. SeenLease  BY DEF DhcpInv
<1>4. Decided  BY DEF DhcpInv
<1>5. TriesBounded  BY DEF DhcpInv
<1>6. /\ LWIP_MAX_DHCP_TRIES \in Nat /\ MaxMissed \in Nat /\ tries \in Nat
      /\ missed \in Nat /\ missed <= MaxMissed
  BY <1>1, DhcpAssumption DEF TypeOK
<1>7. CASE StartSend
  <2>1. /\ pc = "start" /\ pc' = "started" /\ state' = "selecting"
        /\ UNCHANGED <<netif, seen, lwipdev, dhcpstatus>>
    BY <1>7 DEF StartSend, Go
  <2>2. pcb' = 1 /\ tries' = 0 /\ missed' = missed /\ timeout' = timeout
    BY <1>7 DEF StartSend, env
  <2>3. TypeOK'  BY <1>1, <1>6, <2>1, <2>2 DEF TypeOK
  <2>4. TriesBounded'  BY <1>6, <2>1, <2>2 DEF TriesBounded
  <2>5. state = "off"  BY <1>5, <2>1 DEF TriesBounded
  <2>6. ClientOwns'  BY <1>2, <2>1, <2>5 DEF ClientOwns
  <2>7. SeenLease'  BY <1>3, <2>1 DEF SeenLease
  <2>8. Decided'  BY <1>2, <1>4, <2>1 DEF ClientOwns, Decided
  <2> QED BY <2>1, <2>3, <2>4, <2>6, <2>7, <2>8 DEF DhcpInv
<1>8. CASE StartRest
  <2>1. /\ pc = "started" /\ pc' = "ip" /\ UNCHANGED <<netif, seen, lwipdev, state>>
        /\ dhcpstatus' = 0
    BY <1>8 DEF StartRest, Go
  <2>2. pcb' = pcb /\ tries' = tries + 1 /\ missed' = missed /\ timeout' = 1
    BY <1>8 DEF StartRest, env
  <2>3. tries <= missed + 1  BY <1>5, <2>1 DEF TriesBounded
  <2>4. TypeOK'  BY <1>1, <1>6, <2>1, <2>2, <2>3 DEF TypeOK
  <2>5. TriesBounded'  BY <1>6, <2>1, <2>2, <2>3 DEF TriesBounded
  <2>6. ClientOwns'  BY <1>2, <2>1 DEF ClientOwns
  <2>7. SeenLease'  BY <1>3, <2>1 DEF SeenLease
  <2>8. Decided'  BY <2>1 DEF Decided
  <2> QED BY <2>1, <2>4, <2>5, <2>6, <2>7, <2>8 DEF DhcpInv
<1>9. CASE Reads
  <2>1. UNCHANGED <<netif, state, tries, timeout, pcb, lwipdev, dhcpstatus, missed>>
    BY <1>9 DEF Reads, Read, client, env
  <2>2. \/ pc = "ip" /\ pc' = "netmask" /\ seen' = [seen EXCEPT !.ip = netif.ip]
        \/ pc = "netmask" /\ pc' = "gw" /\ seen' = [seen EXCEPT !.netmask = netif.netmask]
        \/ pc = "gw" /\ pc' = "test" /\ seen' = [seen EXCEPT !.gw = netif.gw]
    BY <1>9 DEF Reads, Read, Go
  <2>3. pc \in {"ip", "netmask", "gw"} /\ pc' \in {"netmask", "gw", "test"}  BY <2>2
  <2>4. TypeOK'  BY <1>1, <2>1 DEF TypeOK
  <2>5. TriesBounded'  BY <1>5, <2>1, <2>3 DEF TriesBounded
  <2>6. ClientOwns'  BY <1>2, <2>1, <2>3 DEF ClientOwns
  <2>7. Decided'  BY <1>2, <1>4, <2>1, <2>3 DEF ClientOwns, Decided
  <2>8. /\ netif.ip \in {"none", "lease"} /\ netif.netmask = netif.ip /\ netif.gw = netif.ip
        /\ state = "bound" <=> netif.ip = "lease"
    BY <1>2, <2>3, NetifWhole
  <2>9. SeenLease'
    <3> USE <1>3, <2>1, <2>8 DEF SeenLease, Address
    <3>1. CASE pc = "ip"  BY <2>2, <3>1
    <3>2. CASE pc = "netmask"  BY <2>2, <3>2
    <3>3. CASE pc = "gw"  BY <2>2, <3>3
    <3> QED BY <2>2, <3>1, <3>2, <3>3
  <2> QED BY <2>1, <2>3, <2>4, <2>5, <2>6, <2>7, <2>9 DEF DhcpInv
<1>10. CASE Test
  <2>1. /\ pc = "test" /\ missed' = 0
        /\ UNCHANGED <<netif, state, tries, timeout, pcb, seen>>
    BY <1>10 DEF Test, client
  <2>2. tries <= LWIP_MAX_DHCP_TRIES + missed + 2  BY <1>5, <2>1 DEF TriesBounded
  <2>3. dhcpstatus = 0 /\ lwipdev = All("static")  BY <1>2, <2>1 DEF ClientOwns
  <2>4. CASE seen.ip # "none" /\ dhcpstatus' = 2 /\ lwipdev' = seen /\ pc' = "stop"
    <3>1. state = "bound" /\ seen.ip = "lease" /\ seen.netmask = "lease" /\ seen.gw = "lease"
      BY <1>3, <2>1, <2>4 DEF SeenLease
    <3>2. seen = All("lease")
      <4>1. seen = [ip |-> seen.ip, netmask |-> seen.netmask, gw |-> seen.gw]
        BY <1>3 DEF SeenLease
      <4> QED BY <3>1, <4>1 DEF All
    <3>3. netif = NetifOf("lease", 1)  BY <1>2, <2>1, <3>1, NetifWhole
    <3>4. TypeOK'  BY <1>1, <1>6, <2>1, <2>4 DEF TypeOK
    <3>5. TriesBounded'  BY <1>6, <2>1, <2>2, <2>4 DEF TriesBounded
    <3>6. ClientOwns' /\ SeenLease'  BY <1>3, <2>1, <2>4 DEF ClientOwns, SeenLease
    <3>7. Decided'  BY <2>1, <2>4, <3>1, <3>2, <3>3 DEF Decided
    <3> QED BY <2>1, <2>4, <3>4, <3>5, <3>6, <3>7 DEF DhcpInv
  <2>5. CASE dhcpstatus' = 255 /\ pc' = "write_ip" /\ UNCHANGED lwipdev
    <3>1. TypeOK'  BY <1>1, <1>6, <2>1, <2>5 DEF TypeOK
    <3>2. TriesBounded'  BY <1>6, <2>1, <2>2, <2>5 DEF TriesBounded
    <3>3. ClientOwns' /\ SeenLease'  BY <1>3, <2>1, <2>5 DEF ClientOwns, SeenLease
    <3>4. Decided'  BY <2>3, <2>5 DEF Decided
    <3> QED BY <2>1, <2>5, <3>1, <3>2, <3>3, <3>4 DEF DhcpInv
  <2>6. CASE /\ tries <= LWIP_MAX_DHCP_TRIES /\ pc' = "ip"
             /\ UNCHANGED <<dhcpstatus, lwipdev>>
    <3>1. /\ tries' = tries /\ missed' = 0 /\ tries <= LWIP_MAX_DHCP_TRIES
          /\ tries <= LWIP_MAX_DHCP_TRIES + 2 /\ tries <= LWIP_MAX_DHCP_TRIES + 2 + MaxMissed
      BY <1>6, <2>1, <2>6
    <3>2. TriesBounded'  BY <1>6, <2>1, <2>6, <3>1 DEF TriesBounded
    <3>3. ClientOwns'  BY <1>2, <2>1, <2>6 DEF ClientOwns
    <3>4. SeenLease' /\ Decided'  BY <1>3, <2>1, <2>3, <2>6 DEF SeenLease, Decided
    <3>5. TypeOK'  BY <1>1, <1>6, <2>1, <2>6 DEF TypeOK
    <3> QED BY <2>1, <2>6, <3>2, <3>3, <3>4, <3>5 DEF DhcpInv
  <2> QED BY <1>10, <2>4, <2>5, <2>6 DEF Test
<1>11. CASE Writes
  <2>1. /\ pc \in Writing /\ pc' \in Writing \cup {"stop"}
        /\ UNCHANGED <<state, tries, timeout, pcb, seen, lwipdev, dhcpstatus, missed>>
    BY <1>11 DEF Writes, Write, Go, client, env
  <2>2. dhcpstatus = 255 /\ lwipdev = All("static")  BY <1>4, <2>1 DEF Decided
  <2>3. TypeOK'
    <3>1. netif' \in [ip : Address, netmask : Address, gw : Address, up : 0 .. 1]
      <4> USE <1>1, <2>2 DEF TypeOK, Address, All
      <4>1. CASE netif' = [netif EXCEPT !.ip = lwipdev.ip]  BY <4>1
      <4>2. CASE netif' = [netif EXCEPT !.netmask = lwipdev.netmask]  BY <4>2
      <4>3. CASE netif' = [netif EXCEPT !.gw = lwipdev.gw]  BY <4>3
      <4> QED BY <1>11, <4>1, <4>2, <4>3 DEF Writes, Write
    <3> QED BY <1>1, <2>1, <3>1 DEF TypeOK
  <2>4. TriesBounded'  BY <1>5, <1>6, <2>1 DEF TriesBounded
  <2>5. ClientOwns' /\ SeenLease'  BY <1>3, <2>1 DEF ClientOwns, SeenLease
  <2>6. Decided'  BY <2>1, <2>2 DEF Decided
  <2> QED BY <2>1, <2>3, <2>4, <2>5, <2>6 DEF DhcpInv
<1>12. CASE StopPcb
  <2>1. /\ pc = "stop" /\ pc' = "stop2"
        /\ UNCHANGED <<netif, state, tries, timeout, seen, lwipdev, dhcpstatus, missed>>
    BY <1>12 DEF StopPcb, Go, env
  <2>2. TypeOK'  BY <1>1, <1>12, <2>1 DEF TypeOK, StopPcb
  <2>3. TriesBounded'  BY <1>5, <1>6, <2>1 DEF TriesBounded
  <2>4. ClientOwns' /\ SeenLease'  BY <1>3, <2>1 DEF ClientOwns, SeenLease
  <2>5. Decided'  BY <1>4, <2>1 DEF Decided
  <2> QED BY <2>1, <2>2, <2>3, <2>4, <2>5 DEF DhcpInv
<1>13. CASE StopState
  <2>1. /\ pc = "stop2" /\ pc' = "deleted" /\ state' = "off"
        /\ UNCHANGED <<netif, seen, lwipdev, dhcpstatus>>
    BY <1>13 DEF StopState, Go
  <2>2. tries' = 0 /\ timeout' = 0 /\ missed' = missed /\ pcb' = pcb
    BY <1>13 DEF StopState, env
  <2>3. TypeOK'  BY <1>1, <1>6, <2>1, <2>2 DEF TypeOK
  <2>4. TriesBounded'  BY <1>6, <2>1, <2>2 DEF TriesBounded
  <2>5. ClientOwns' /\ SeenLease'  BY <1>3, <2>1 DEF ClientOwns, SeenLease
  <2>6. Decided'  BY <1>4, <2>1 DEF Decided
  <2> QED BY <2>1, <2>3, <2>4, <2>5, <2>6 DEF DhcpInv
<1> QED BY <1>7, <1>8, <1>9, <1>10, <1>11, <1>12, <1>13 DEF lwip_dhcp_task

(* Every step keeps the invariant and, once the task is gone, the          *)
(* interface.                                                              *)
LEMMA DhcpStep ==
    DhcpInv /\ [Next]_vars => DhcpInv' /\ [pc = "deleted" => UNCHANGED netif]_vars
<1>1. CASE UNCHANGED vars
  BY <1>1 DEF vars, client, task, env, DhcpInv, TypeOK, ClientOwns, SeenLease, Decided,
              TriesBounded
<1> QED BY <1>1, ClientStep, TaskStep DEF Next

(* For every limit of tries and any number of refusals, conflicts and      *)
(* missed timeouts, wherever the client preempts the task: what the task   *)
(* reports is the whole lease and stays in use, and once the task is gone  *)
(* nobody writes the interface (lwip_dhcp_task).                           *)
THEOREM LeaseCorrect == Spec => LeaseKept
<1>1. DhcpInv => LeaseUsed
  <2> SUFFICES ASSUME DhcpInv PROVE LeaseUsed  OBVIOUS
  <2>1. CASE pc \in Looking  BY <2>1 DEF DhcpInv, ClientOwns, LeaseUsed
  <2>2. CASE pc \in Writing  BY <2>2 DEF DhcpInv, Decided, LeaseUsed
  <2>3. CASE pc \in Stopping  BY <2>3 DEF DhcpInv, Decided, LeaseUsed
  <2> QED BY <2>1, <2>2, <2>3 DEF DhcpInv
<1>2. DhcpInv' => LeaseUsed'
  BY <1>1, PTL
<1>3. DhcpInv /\ [Next]_vars => [LeaseUsed' /\ (pc = "deleted" => UNCHANGED netif)]_vars
  BY <1>2, DhcpStep
<1> QED BY <1>3, DhcpInitInv, DhcpStep, PTL DEF Spec, LeaseKept

-----------------------------------------------------------------------------
(***************************************************************************)
(* The ARP table.  Each handler is a function from one state of the table  *)
(* to the next; the lemmas say of each part of a handler that it keeps     *)
(* what holds of every table, and of every entry of it.                    *)
(***************************************************************************)
Entry ==
    [state : {"empty", "pending"} \cup Stable, ip : Neighbours \cup {Nothing},
     mac : Macs \cup {Nothing}, ctime : Nat, q : Neighbours \cup {Nothing},
     netif : 0 .. 1, used : 0 .. 1, asked : Nat, faults : Nat]

ArpState ==
    [table : [Slots -> Entry], hint : Slots, pbufs : Int,
     heard : [Neighbours -> Macs \cup {Nothing}], astray : BOOLEAN]

(* An entry.  x is an address whose Ethernet address is just being changed *)
(* by a message, Nothing between the handlers.                             *)
EntryOK(e, heard, x) ==
    /\ e.state = "empty" => e = EmptySlot
    /\ e.state # "empty" => e.ip \in Neighbours
    /\ e.q # Nothing => e.state = "pending" /\ e.q = e.ip
    /\ e.state \in Stable /\ e.ip # x => e.mac = heard[e.ip] /\ e.mac # Nothing
    /\ e.ctime < ARP_MAXAGE
    /\ e.state \in Stable => e.ctime <= ARP_AGE_REREQUEST_USED + e.faults
    /\ e.state = "stable" => e.used = 0 /\ e.asked = 0
    /\ e.state = "rerequesting" => e.asked = 1

Waiting(table) == {i \in Slots : table[i].q # Nothing}

NoTwo(table) ==
    \A i, j \in Slots :
        table[i].state # "empty" /\ table[j].state # "empty" /\ table[i].ip = table[j].ip => i = j

(* The inductive invariant is ArpOK(arp, Nothing).                         *)
ArpOK(s, x) ==
    /\ s \in ArpState
    /\ \A i \in Slots : EntryOK(s.table[i], s.heard, x)
    /\ NoTwo(s.table)
    /\ s.pbufs = Cardinality(Waiting(s.table))
    /\ s.astray = FALSE

(* A set of numbers has a least member.                                    *)
LEMMA NatMin ==
    ASSUME NEW T, T \subseteq Nat, T # {}
    PROVE  \E m \in T : \A y \in T : m <= y
<1> DEFINE R == {ss \in Nat \X Nat : ss[1] < ss[2]}
<1>1. IsWellFoundedOn(R, Nat)  BY NatLessThanWellFounded DEF OpToRel
<1>2. PICK m \in T : \A y \in T : ~(<<y, m>> \in R)  BY <1>1, WFMin
<1>3. ASSUME NEW y \in T PROVE m <= y
  <2>1. ~(y < m)  BY <1>2
  <2> QED BY <2>1
<1> QED BY <1>3

(* Least and Oldest choose among the entries they are given.               *)
LEMMA LeastIn ==
    ASSUME NEW S \in SUBSET Slots, S # {}
    PROVE  Least(S) \in S
<1>1. S \subseteq Nat  BY ArpAssumption DEF Slots
<1>2. \E i \in S : \A j \in S : i <= j  BY <1>1, NatMin
<1> QED BY <1>2 DEF Least

(* Of the oldest ones the last: the age of an entry is bounded.            *)
LEMMA OldestIn ==
    ASSUME NEW s \in ArpState, NEW S \in SUBSET Slots, S # {},
           \A i \in Slots : s.table[i].ctime < ARP_MAXAGE
    PROVE  Oldest(s, S) \in S
<1> DEFINE c(i) == s.table[i].ctime
           left == {ARP_MAXAGE - c(i) : i \in S}
<1>1. /\ S \subseteq Nat /\ ARP_MAXAGE \in Nat /\ ARP_TABLE_SIZE \in Nat
      /\ \A i \in S : i < ARP_TABLE_SIZE
  BY ArpAssumption DEF Slots
<1>2. \A i \in S : c(i) \in Nat /\ c(i) < ARP_MAXAGE  BY DEF ArpState, Entry
<1> HIDE DEF c
<1>3. left \subseteq Nat /\ left # {}
  <2>1. ASSUME NEW i \in S PROVE ARP_MAXAGE - c(i) \in Nat
    <3>1. c(i) \in Nat /\ c(i) < ARP_MAXAGE  BY <1>2
    <3> HIDE DEF c
    <3> QED BY <1>1, <3>1
  <2>2. left \subseteq Nat  BY <2>1
  <2>3. PICK i \in S : TRUE  OBVIOUS
  <2>4. ARP_MAXAGE - c(i) \in left  BY <2>3
  <2> QED BY <2>2, <2>4
<1>4. PICK m \in left : \A y \in left : m <= y  BY <1>3, NatMin
<1> DEFINE S2 == {i \in S : ARP_MAXAGE - c(i) = m}
           right == {ARP_TABLE_SIZE - i : i \in S2}
<1>5. right \subseteq Nat /\ right # {}  BY <1>1, <1>4
<1>6. PICK n \in right : \A y \in right : n <= y  BY <1>5, NatMin
<1>7. PICK k \in S2 : ARP_TABLE_SIZE - k = n  BY <1>6
<1>8. ASSUME NEW j \in S PROVE c(k) > c(j) \/ (c(k) = c(j) /\ k >= j)
  <2>1. ARP_MAXAGE - c(k) <= ARP_MAXAGE - c(j)  BY <1>4, <1>7
  <2>2. c(k) >= c(j)  BY <1>1, <1>2, <1>7, <2>1
  <2>3. CASE c(k) = c(j)
    <3>1. j \in S2  BY <1>7, <2>3
    <3>2. ARP_TABLE_SIZE - k <= ARP_TABLE_SIZE - j  BY <1>6, <1>7, <3>1
    <3>3. k >= j  BY <1>1, <1>7, <3>2
    <3> QED BY <2>3, <3>3
  <2>4. CASE c(k) # c(j)  BY <1>2, <1>7, <2>2, <2>4
  <2> QED BY <2>3, <2>4
<1>9. \E i \in S : \A j \in S : c(i) > c(j) \/ (c(i) = c(j) /\ i >= j)  BY <1>7, <1>8
<1> QED BY <1>9 DEF Oldest, c

(* There is always an entry to be used.                                    *)
LEMMA VictimIn ==
    ASSUME NEW s, NEW x, ArpOK(s, x)
    PROVE  Victim(s) \in Slots
<1> DEFINE in(states) == {i \in Slots : s.table[i].state \in states}
           idle == {i \in in({"pending"}) : s.table[i].q = Nothing}
<1>1. s \in ArpState /\ \A i \in Slots : s.table[i].ctime < ARP_MAXAGE
  BY DEF ArpOK, EntryOK
<1>2. CASE in({"empty"}) # {}
  <2>1. Least(in({"empty"})) \in Slots  BY <1>2, LeastIn
  <2> QED BY <1>2, <2>1 DEF Victim
<1>3. CASE in({"empty"}) = {} /\ in(Stable) # {}
  <2>1. Oldest(s, in(Stable)) \in Slots  BY <1>1, <1>3, OldestIn
  <2> QED BY <1>3, <2>1 DEF Victim
<1>4. CASE in({"empty"}) = {} /\ in(Stable) = {} /\ idle # {}
  <2>1. Oldest(s, idle) \in Slots  BY <1>1, <1>4, OldestIn
  <2> QED BY <1>4, <2>1 DEF Victim
<1>5. CASE in({"empty"}) = {} /\ in(Stable) = {} /\ idle = {}
  <2>1. 0 \in Slots  BY ArpAssumption DEF Slots
  <2>2. s.table[0].state \in {"empty", "pending"} \cup Stable
    BY <1>1, <2>1 DEF ArpState, Entry
  <2>3. 0 \in in({"pending"})  BY <1>5, <2>1, <2>2
  <2>4. Oldest(s, in({"pending"})) \in Slots  BY <1>1, <2>3, OldestIn
  <2> QED BY <1>5, <2>4 DEF Victim
<1> QED BY <1>2, <1>3, <1>4, <1>5

(* The packets that wait, when one entry changes.                          *)
LEMMA WaitingChanged ==
    ASSUME NEW f \in [Slots -> Entry], NEW i \in Slots, NEW e \in Entry
    PROVE  LET g == [f EXCEPT ![i] = e]
           IN  Cardinality(Waiting(g)) =
                 Cardinality(Waiting(f)) - (IF f[i].q # Nothing THEN 1 ELSE 0)
                                         + (IF e.q # Nothing THEN 1 ELSE 0)
<1> DEFINE g == [f EXCEPT ![i] = e]
           W == Waiting(f)
<1>1. IsFiniteSet(W) /\ Cardinality(W) \in Nat
  <2>1. IsFiniteSet(Slots)
    <3>1. ARP_TABLE_SIZE - 1 \in Int  BY ArpAssumption
    <3> QED BY <3>1, FS_Interval DEF Slots
  <2>2. W \in SUBSET Slots  BY DEF Waiting
  <2>3. IsFiniteSet(W)  BY <2>1, <2>2, FS_Subset
  <2> QED BY <2>3, FS_CardinalityType
<1>2. i \in W <=> f[i].q # Nothing  BY DEF Waiting
<1>3. Waiting(g) = IF e.q # Nothing THEN W \cup {i} ELSE W \ {i}
  BY DEF Waiting
<1> HIDE DEF W, g
<1>4. /\ Cardinality(W \cup {i}) = IF i \in W THEN Cardinality(W) ELSE Cardinality(W) + 1
      /\ Cardinality(W \ {i}) = IF i \in W THEN Cardinality(W) - 1 ELSE Cardinality(W)
  BY <1>1, FS_AddElement, FS_RemoveElement
<1> DEFINE w == Cardinality(W)
           a == IF f[i].q # Nothing THEN 1 ELSE 0
           b == IF e.q # Nothing THEN 1 ELSE 0
<1>5. w \in Nat  BY <1>1
<1>6. ASSUME e.q # Nothing /\ i \in W PROVE Cardinality(Waiting(g)) = w - a + b
  <2>1. Cardinality(Waiting(g)) = w  BY <1>3, <1>4, <1>6
  <2>2. a = 1 /\ b = 1  BY <1>2, <1>6
  <2> HIDE DEF w, a, b
  <2> QED BY <1>5, <2>1, <2>2
<1>7. ASSUME e.q # Nothing /\ i \notin W PROVE Cardinality(Waiting(g)) = w - a + b
  <2>1. Cardinality(Waiting(g)) = w + 1  BY <1>3, <1>4, <1>7
  <2>2. a = 0 /\ b = 1  BY <1>2, <1>7
  <2> HIDE DEF w, a, b
  <2> QED BY <1>5, <2>1, <2>2
<1>8. ASSUME e.q = Nothing /\ i \in W PROVE Cardinality(Waiting(g)) = w - a + b
  <2>1. Cardinality(Waiting(g)) = w - 1  BY <1>3, <1>4, <1>8
  <2>2. a = 1 /\ b = 0  BY <1>2, <1>8
  <2> HIDE DEF w, a, b
  <2> QED BY <1>5, <2>1, <2>2
<1>9. ASSUME e.q = Nothing /\ i \notin W PROVE Cardinality(Waiting(g)) = w - a + b
  <2>1. Cardinality(Waiting(g)) = w  BY <1>3, <1>4, <1>9
  <2>2. a = 0 /\ b = 0  BY <1>2, <1>9
  <2> HIDE DEF w, a, b
  <2> QED BY <1>5, <2>1, <2>2
<1>10. Cardinality(Waiting(g)) = w - a + b  BY <1>6, <1>7, <1>8, <1>9
<1> QED BY <1>10 DEF g, W

(* One entry is replaced by one that is all right and whose address no     *)
(* other has.                                                              *)
LEMMA EntryChanged ==
    ASSUME NEW s \in ArpState, NEW t, NEW y, NEW i \in Slots, NEW e \in Entry,
           NoTwo(s.table), s.pbufs = Cardinality(Waiting(s.table)),
           t \in ArpState, t.table = [s.table EXCEPT ![i] = e], t.heard = s.heard,
           t.astray = FALSE,
           t.pbufs = s.pbufs - (IF s.table[i].q # Nothing THEN 1 ELSE 0)
                             + (IF e.q # Nothing THEN 1 ELSE 0),
           EntryOK(e, s.heard, y),
           \A j \in Slots : j # i => EntryOK(s.table[j], s.heard, y),
           e.state # "empty" =>
               \A j \in Slots : j # i /\ s.table[j].state # "empty" => s.table[j].ip # e.ip
    PROVE  ArpOK(t, y)
<1>1. s.table \in [Slots -> Entry]  BY DEF ArpState
<1>2. /\ t.table[i] = e /\ \A j \in Slots : j # i => t.table[j] = s.table[j]
  BY <1>1
<1>3. \A j \in Slots : EntryOK(t.table[j], t.heard, y)  BY <1>2
<1>4. NoTwo(t.table)  BY <1>1, <1>2 DEF NoTwo
<1>5. t.pbufs = Cardinality(Waiting(t.table))  BY <1>1, WaitingChanged
<1> QED BY <1>3, <1>4, <1>5 DEF ArpOK

(* An empty slot, with or without an address, is all right.                *)
LEMMA EmptyOK ==
    ASSUME NEW heard, NEW x
    PROVE  EmptySlot \in Entry /\ EntryOK(EmptySlot, heard, x)
BY ArpAssumption DEF EmptySlot, Entry, EntryOK, Stable

(* etharp_free_entry frees the packet with the entry.                      *)
LEMMA FreeEntry ==
    ASSUME NEW s, NEW x, ArpOK(s, x), NEW i \in Slots
    PROVE  LET t == etharp_free_entry(s, i)
           IN  /\ ArpOK(t, x) /\ t.table = [s.table EXCEPT ![i] = EmptySlot]
               /\ t.heard = s.heard /\ t.hint = s.hint
<1> DEFINE t == etharp_free_entry(s, i)
<1>1. /\ s \in ArpState /\ s.astray = FALSE
      /\ NoTwo(s.table) /\ s.pbufs = Cardinality(Waiting(s.table))
  BY DEF ArpOK
<1>2. EmptySlot \in Entry /\ EmptySlot.q = Nothing /\ EmptySlot.state = "empty"
  BY EmptyOK DEF EmptySlot
<1>3. /\ t.table = [s.table EXCEPT ![i] = EmptySlot] /\ t.heard = s.heard /\ t.hint = s.hint
      /\ t.astray = FALSE /\ t.pbufs = IF s.table[i].q # Nothing THEN s.pbufs - 1 ELSE s.pbufs
  BY <1>1 DEF etharp_free_entry, ArpState
<1>4. s.pbufs \in Int  BY <1>1 DEF ArpState
<1>5. t \in ArpState
  <2> DEFINE p == IF s.table[i].q # Nothing THEN s.pbufs - 1 ELSE s.pbufs
             f == [s.table EXCEPT ![i] = EmptySlot]
  <2>1. p \in Int /\ f \in [Slots -> Entry]  BY <1>1, <1>2, <1>4 DEF ArpState
  <2>2. t = [s EXCEPT !.table = f, !.pbufs = p]  BY <1>1 DEF etharp_free_entry, ArpState
  <2> HIDE DEF p, f, t
  <2> QED BY <1>1, <2>1, <2>2 DEF ArpState
<1> HIDE DEF t
<1>6. t.pbufs = s.pbufs - (IF s.table[i].q # Nothing THEN 1 ELSE 0)
                        + (IF EmptySlot.q # Nothing THEN 1 ELSE 0)
  <2>1. CASE s.table[i].q # Nothing  BY <1>2, <1>3, <1>4, <2>1
  <2>2. CASE s.table[i].q = Nothing  BY <1>2, <1>3, <1>4, <2>2
  <2> QED BY <2>1, <2>2
<1>7. \A j \in Slots : EntryOK(s.table[j], s.heard, x)  BY DEF ArpOK
<1>8. ArpOK(t, x)  BY <1>1, <1>2, <1>3, <1>5, <1>6, <1>7, EmptyOK, EntryChanged
<1> QED BY <1>3, <1>8 DEF t

(* What etharp_find_entry gives: the only entry of ip, which is still      *)
(* empty when it is a new one.                                             *)
Found(s, i, ip, x) ==
    /\ s \in ArpState /\ i \in Slots /\ s.table[i].ip = ip
    /\ s.table[i].state = "empty" => s.table[i] = [EmptySlot EXCEPT !.ip = ip]
    /\ s.table[i].state # "empty" => EntryOK(s.table[i], s.heard, x)
    /\ \A j \in Slots : j # i =>
           EntryOK(s.table[j], s.heard, x) /\ (s.table[j].state # "empty" => s.table[j].ip # ip)
    /\ NoTwo(s.table)
    /\ s.pbufs = Cardinality(Waiting(s.table))
    /\ s.astray = FALSE

(* An entry that matches is the only one.                                  *)
LEMMA MatchFound ==
    ASSUME NEW s, NEW x, ArpOK(s, x), NEW ip \in Neighbours, Matching(s, ip) # {}
    PROVE  LET i == Least(Matching(s, ip))
           IN  Found(s, i, ip, x) /\ s.table[i].state # "empty"
<1> DEFINE i == Least(Matching(s, ip))
<1>1. i \in Matching(s, ip)
  <2>1. Matching(s, ip) \in SUBSET Slots  BY DEF Matching
  <2> QED BY <2>1, LeastIn
<1>2. i \in Slots /\ s.table[i].state # "empty" /\ s.table[i].ip = ip  BY <1>1 DEF Matching
<1> HIDE DEF i
<1>3. \A j \in Slots : j # i /\ s.table[j].state # "empty" => s.table[j].ip # ip
  BY <1>2 DEF ArpOK, NoTwo
<1>4. Found(s, i, ip, x)  BY <1>2, <1>3 DEF ArpOK, Found
<1> QED BY <1>2, <1>4 DEF i

(* etharp_find_entry: the entry of the address, or one taken from another. *)
LEMMA FindEntry ==
    ASSUME NEW s, NEW x, ArpOK(s, x), NEW ip \in Neighbours
    PROVE  LET found == etharp_find_entry(s, ip)
           IN  Found(found.s, found.at, ip, x) /\ found.s.heard = s.heard
<1>1. CASE Matching(s, ip) # {}
  BY <1>1, MatchFound DEF etharp_find_entry
<1>2. CASE Matching(s, ip) = {}
  <2> DEFINE i == Victim(s)
             f == etharp_free_entry(s, i)
             t == [f EXCEPT !.table[i].ip = ip]
             e == [EmptySlot EXCEPT !.ip = ip]
  <2>1. i \in Slots  BY VictimIn
  <2> HIDE DEF i
  <2>2. /\ ArpOK(f, x) /\ f.table = [s.table EXCEPT ![i] = EmptySlot]
        /\ f.heard = s.heard
    BY <2>1, FreeEntry
  <2> HIDE DEF f
  <2>3. f \in ArpState /\ s.table \in [Slots -> Entry]  BY <2>2 DEF ArpOK, ArpState
  <2>4. e \in Entry /\ e.state = "empty" /\ e.q = Nothing /\ EmptySlot.q = Nothing /\ e.ip = ip
        /\ EmptySlot.state = "empty"
    BY EmptyOK DEF EmptySlot, Entry
  <2>5. t = [f EXCEPT !.table = [s.table EXCEPT ![i] = e]]
    BY <2>1, <2>2, <2>3 DEF ArpState
  <2>6. [s.table EXCEPT ![i] = e] \in [Slots -> Entry]  BY <2>3, <2>4
  <2> HIDE DEF t, e
  <2>7. /\ t \in ArpState /\ t.heard = f.heard /\ t.pbufs = f.pbufs /\ t.astray = f.astray
        /\ t.table = [s.table EXCEPT ![i] = e]
    BY <2>3, <2>5, <2>6 DEF ArpState
  <2>8. /\ t.table[i] = e /\ f.table[i] = EmptySlot
        /\ \A j \in Slots : j # i => t.table[j] = s.table[j] /\ f.table[j] = s.table[j]
    BY <2>1, <2>2, <2>3, <2>7
  <2>9. \A j \in Slots : j # i => EntryOK(t.table[j], t.heard, x)
    BY <2>2, <2>7, <2>8 DEF ArpOK
  <2>10. \A j \in Slots : j # i /\ t.table[j].state # "empty" => t.table[j].ip # ip
    BY <1>2, <2>8 DEF Matching
  <2>11. NoTwo(t.table)  BY <2>1, <2>4, <2>8 DEF NoTwo, ArpOK
  <2>12. Waiting(t.table) = Waiting(f.table)  BY <2>4, <2>8 DEF Waiting
  <2>13. t.pbufs = Cardinality(Waiting(t.table)) /\ t.astray = FALSE
    BY <2>2, <2>7, <2>12 DEF ArpOK
  <2>14. Found(t, i, ip, x)
    BY <2>1, <2>4, <2>7, <2>8, <2>9, <2>10, <2>11, <2>13 DEF Found, e
  <2>15. etharp_find_entry(s, ip) = [at |-> i, s |-> t]
    BY <1>2 DEF etharp_find_entry, i, f, t
  <2> QED BY <2>2, <2>7, <2>14, <2>15
<1> QED BY <1>1, <1>2


(* An entry that keeps its address and its packet, and is sent to the      *)
(* right Ethernet address.                                                 *)
LEMMA SendBy ==
    ASSUME NEW s, ArpOK(s, Nothing), NEW i \in Slots, NEW e \in Entry,
           s.table[i].state \in Stable, e.state \in Stable,
           e.ip = s.table[i].ip, e.q = s.table[i].q, EntryOK(e, s.heard, Nothing), NEW u,
           u = [s EXCEPT !.table = [s.table EXCEPT ![i] = e]]
    PROVE  ArpOK(etharp_send_ip(u, s.table[i].ip, s.table[i].mac), Nothing)
<1> DEFINE ip == s.table[i].ip
           mac == s.table[i].mac
           t == etharp_send_ip(u, ip, mac)
<1>1. /\ s \in ArpState /\ s.astray = FALSE
      /\ NoTwo(s.table) /\ s.pbufs = Cardinality(Waiting(s.table))
      /\ \A j \in Slots : EntryOK(s.table[j], s.heard, Nothing)
  BY DEF ArpOK
<1>2. s.table[i].state # "empty" /\ e.state # "empty"  BY DEF Stable
<1>3. ip \in Neighbours /\ ip # Nothing  BY <1>1, <1>2, ArpAssumption DEF EntryOK
<1>4. mac = s.heard[ip] /\ mac # Nothing  BY <1>1, <1>3 DEF EntryOK
<1>5. /\ u \in ArpState /\ u.table = [s.table EXCEPT ![i] = e]
      /\ u.heard = s.heard /\ u.pbufs = s.pbufs /\ u.astray = FALSE
  <2> DEFINE f == [s.table EXCEPT ![i] = e]
  <2>1. f \in [Slots -> Entry]  BY <1>1 DEF ArpState
  <2> HIDE DEF f
  <2>2. u = [s EXCEPT !.table = f]  BY DEF f
  <2>3. u \in ArpState /\ u.table = f /\ u.heard = s.heard /\ u.pbufs = s.pbufs /\ u.astray = FALSE
    BY <1>1, <2>1, <2>2 DEF ArpState
  <2> QED BY <2>3 DEF f
<1> HIDE DEF ip, mac
<1>6. t = [u EXCEPT !.astray = FALSE]  BY <1>4, <1>5 DEF etharp_send_ip
<1> HIDE DEF t
<1>7. /\ t \in ArpState /\ t.table = [s.table EXCEPT ![i] = e]
      /\ t.heard = s.heard /\ t.pbufs = s.pbufs /\ t.astray = FALSE
  BY <1>5, <1>6 DEF ArpState
<1>8. \A j \in Slots : j # i /\ s.table[j].state # "empty" => s.table[j].ip # e.ip
  BY <1>1, <1>2 DEF NoTwo
<1>9. t.pbufs = s.pbufs - (IF s.table[i].q # Nothing THEN 1 ELSE 0)
                        + (IF e.q # Nothing THEN 1 ELSE 0)
  <2>1. s.pbufs \in Int  BY <1>1 DEF ArpState
  <2>2. CASE e.q # Nothing  BY <1>7, <2>1, <2>2
  <2>3. CASE e.q = Nothing  BY <1>7, <2>1, <2>3
  <2> QED BY <2>2, <2>3
<1>10. ArpOK(t, Nothing)  BY <1>1, <1>7, <1>8, <1>9, EntryChanged
<1> QED BY <1>10 DEF t, ip, mac

(* etharp_output_to_arp_index, by a stable entry of the address.           *)
LEMMA OutputKeeps ==
    ASSUME NEW s, ArpOK(s, Nothing), NEW i \in Slots, s.table[i].state \in Stable, NEW r
    PROVE  ArpOK(etharp_output_to_arp_index(s, s.table[i].ip, i, r), Nothing)
<1> DEFINE e == s.table[i]
           ip == s.table[i].ip
           out == etharp_output_to_arp_index(s, ip, i, r)
<1>1. s \in ArpState /\ s.table \in [Slots -> Entry] /\ e \in Entry /\ EntryOK(e, s.heard, Nothing)
  BY DEF ArpOK, ArpState
<1>2. CASE r = "ok" /\ AboutToExpire(e) /\ e.state = "stable"
  <2> DEFINE b == [e EXCEPT !.used = 1]
             d == [b EXCEPT !.state = "rerequesting", !.asked = @ + 1]
             u == [s EXCEPT !.table = [s.table EXCEPT ![i] = d]]
  <2>1. out = etharp_send_ip(u, ip, e.mac)
    <3>1. out = etharp_send_ip([s EXCEPT !.table[i] = d], ip, e.mac)
      BY <1>2 DEF etharp_output_to_arp_index
    <3> HIDE DEF d
    <3> QED BY <3>1
  <2>2. /\ d \in Entry /\ d.state = "rerequesting" /\ d.ip = e.ip /\ d.q = e.q
        /\ d.mac = e.mac /\ d.ctime = e.ctime /\ d.faults = e.faults /\ d.asked = 1
    <3>1. e.asked = 0  BY <1>1, <1>2 DEF EntryOK
    <3>2. b \in Entry /\ b.ip = e.ip /\ b.q = e.q /\ b.mac = e.mac /\ b.ctime = e.ctime
          /\ b.faults = e.faults /\ b.asked = 0
      BY <1>1, <3>1 DEF Entry
    <3> HIDE DEF b, e
    <3>3. b.asked + 1 = 1  BY <3>2
    <3>4. d = [b EXCEPT !.state = "rerequesting", !.asked = 1]  BY <3>2, <3>3 DEF Entry
    <3> HIDE DEF d
    <3> QED BY <3>2, <3>4 DEF Entry, Stable
  <2> HIDE DEF b
  <2> HIDE DEF d
  <2>4. e.q = Nothing  BY <1>1, <1>2 DEF EntryOK
  <2>5. EntryOK(d, s.heard, Nothing)
    BY <1>1, <1>2, <2>2, <2>4 DEF EntryOK, Stable
  <2>6. d.state \in Stable  BY <2>2 DEF Stable
  <2> QED BY <2>1, <2>2, <2>5, <2>6, SendBy
<1>3. CASE r = "ok" /\ AboutToExpire(e) /\ e.state # "stable"
  <2> DEFINE d == [e EXCEPT !.used = 1]
             u == [s EXCEPT !.table = [s.table EXCEPT ![i] = d]]
  <2>1. e.state = "rerequesting"  BY <1>3 DEF Stable
  <2>2. /\ d \in Entry /\ d.state = "rerequesting" /\ d.ip = e.ip /\ d.q = e.q
        /\ d.mac = e.mac /\ d.ctime = e.ctime /\ d.faults = e.faults /\ d.asked = e.asked
    BY <1>1, <2>1 DEF Entry, Stable
  <2>3. out = etharp_send_ip(u, ip, e.mac)
    BY <1>1, <1>3 DEF etharp_output_to_arp_index, ArpState
  <2> HIDE DEF d
  <2>5. EntryOK(d, s.heard, Nothing)
    BY <1>1, <2>1, <2>2 DEF EntryOK, Stable
  <2>6. d.state \in Stable  BY <2>2 DEF Stable
  <2> QED BY <2>2, <2>3, <2>5, <2>6, SendBy
<1>4. CASE ~(r = "ok" /\ AboutToExpire(e))
  <2>1. out = etharp_send_ip([s EXCEPT !.table = [s.table EXCEPT ![i] = e]], ip, e.mac)
    BY <1>1, <1>4 DEF etharp_output_to_arp_index, ArpState, Entry
  <2> QED BY <1>1, <2>1, SendBy
<1> QED BY <1>2, <1>3, <1>4


(* etharp_query, with the packet for ip or without one.                    *)
LEMMA QueryKeeps ==
    ASSUME NEW s, ArpOK(s, Nothing), NEW ip \in Neighbours, NEW q \in {ip, Nothing}, NEW c
    PROVE  ArpOK(etharp_query(s, ip, q, c), Nothing)
<1> DEFINE found == etharp_find_entry(s, ip)
           f == found.s
           i == found.at
           e == f.table[i]
           st == IF e.state = "empty" THEN "pending" ELSE e.state
           p == [e EXCEPT !.state = st]
           t == [f EXCEPT !.table[i].state = st]
           out == etharp_query(s, ip, q, c)
<1>1. Found(f, i, ip, Nothing)  BY FindEntry
<1>2. out = IF q = Nothing THEN t
            ELSE IF e.state \in Stable THEN [etharp_send_ip(t, q, e.mac) EXCEPT !.hint = i]
            ELSE IF c = "mem" THEN t
            ELSE [t EXCEPT !.table[i].q = q, !.pbufs = @ + (IF e.q = Nothing THEN 1 ELSE 0)]
  BY DEF etharp_query
<1> HIDE DEF found, f, i, out
<1>3. /\ f \in ArpState /\ i \in Slots /\ e \in Entry /\ e.ip = ip /\ f.astray = FALSE
      /\ NoTwo(f.table) /\ f.pbufs = Cardinality(Waiting(f.table))
      /\ f.table \in [Slots -> Entry] /\ f.pbufs \in Int
      /\ \A j \in Slots : j # i =>
           EntryOK(f.table[j], f.heard, Nothing) /\ (f.table[j].state # "empty" => f.table[j].ip # ip)
  BY <1>1 DEF Found, ArpState
<1>4. ip # Nothing  BY ArpAssumption
<1>5. /\ p \in Entry /\ p.ip = ip /\ p.q = e.q /\ p.state # "empty" /\ p.mac = e.mac
      /\ p.state \in Stable <=> e.state \in Stable
      /\ p.state = st
  BY <1>3 DEF Entry, Stable
<1>6. EntryOK(p, f.heard, Nothing)
  <2>1. CASE e.state = "empty"
    <3>1. e = [EmptySlot EXCEPT !.ip = ip]  BY <1>1, <2>1 DEF Found
    <3>2. p = [EmptySlot EXCEPT !.ip = ip, !.state = "pending"]
      BY <2>1, <3>1 DEF EmptySlot
    <3>3. p.state = "pending" /\ p.ip = ip /\ p.q = Nothing /\ p.ctime = 0
      BY <3>2 DEF EmptySlot
    <3> HIDE DEF p
    <3> QED BY <3>3, ArpAssumption DEF EntryOK, Stable
  <2>2. CASE e.state # "empty"
    <3>1. EntryOK(e, f.heard, Nothing)  BY <1>1, <2>2 DEF Found
    <3>2. p = e  BY <1>3, <2>2 DEF Entry
    <3> QED BY <3>1, <3>2
  <2> QED BY <2>1, <2>2
<1>7. /\ t \in ArpState /\ t.table = [f.table EXCEPT ![i] = p] /\ t.heard = f.heard
      /\ t.pbufs = f.pbufs /\ t.astray = FALSE
  <2> DEFINE g == [f.table EXCEPT ![i] = p]
  <2>1. t = [f EXCEPT !.table = g]  BY <1>3 DEF ArpState
  <2>2. g \in [Slots -> Entry]  BY <1>3, <1>5
  <2> HIDE DEF g, t, p
  <2>3. /\ t \in ArpState /\ t.table = g /\ t.heard = f.heard /\ t.pbufs = f.pbufs
        /\ t.astray = FALSE
    BY <1>3, <2>1, <2>2 DEF ArpState
  <2> QED BY <2>3 DEF g
<1>8. ArpOK(t, Nothing)
  <2> HIDE DEF t, p
  <2>1. t.pbufs = f.pbufs - (IF f.table[i].q # Nothing THEN 1 ELSE 0)
                          + (IF p.q # Nothing THEN 1 ELSE 0)
    <3>1. CASE p.q # Nothing  BY <1>3, <1>5, <1>7, <3>1
    <3>2. CASE p.q = Nothing  BY <1>3, <1>5, <1>7, <3>2
    <3> QED BY <3>1, <3>2
  <2>2. \A j \in Slots : j # i => EntryOK(f.table[j], f.heard, Nothing)  BY <1>3
  <2>3. \A j \in Slots : j # i /\ f.table[j].state # "empty" => f.table[j].ip # p.ip
    BY <1>3, <1>5
  <2>4. /\ f \in ArpState /\ i \in Slots /\ p \in Entry /\ NoTwo(f.table)
        /\ f.pbufs = Cardinality(Waiting(f.table))
    BY <1>3, <1>5
  <2> QED BY <1>6, <1>7, <2>1, <2>2, <2>3, <2>4, EntryChanged
<1>9. CASE q = Nothing \/ (e.state \notin Stable /\ c = "mem")
  BY <1>2, <1>8, <1>9 DEF out
<1>10. CASE q # Nothing /\ e.state \in Stable
  <2>1. e.mac = t.heard[ip] /\ e.mac # Nothing
    BY <1>4, <1>5, <1>6, <1>7, <1>10 DEF EntryOK
  <2>2. out = [etharp_send_ip(t, ip, e.mac) EXCEPT !.hint = i]  BY <1>2, <1>10
  <2> HIDE DEF t, e
  <2>3. out = [t EXCEPT !.astray = FALSE, !.hint = i]
    BY <1>7, <2>1, <2>2 DEF etharp_send_ip, ArpState
  <2>4. /\ out \in ArpState /\ out.table = t.table /\ out.heard = t.heard
        /\ out.pbufs = t.pbufs /\ out.astray = FALSE
    BY <1>3, <1>7, <2>3 DEF ArpState
  <2>5. ArpOK(out, Nothing)  BY <1>8, <2>4 DEF ArpOK
  <2> QED BY <2>5 DEF out
<1>11. CASE q # Nothing /\ e.state \notin Stable /\ c # "mem"
  <2> DEFINE d == [p EXCEPT !.q = ip]
             n == t.pbufs + (IF e.q = Nothing THEN 1 ELSE 0)
             g == [t.table EXCEPT ![i] = d]
  <2>1. q = ip  BY <1>11
  <2>2. p.state = "pending"  BY <1>3, <1>11 DEF Entry, Stable
  <2>3. /\ t.table[i] = p /\ t.table \in [Slots -> Entry] /\ t.pbufs \in Int
        /\ NoTwo(t.table) /\ t.pbufs = Cardinality(Waiting(t.table))
        /\ \A j \in Slots : EntryOK(t.table[j], t.heard, Nothing)
    BY <1>3, <1>5, <1>7, <1>8 DEF ArpOK, ArpState
  <2> HIDE DEF p, t, e
  <2>4. out = [t EXCEPT !.table = g, !.pbufs = n]
    BY <1>2, <1>7, <1>11, <2>1, <2>3 DEF ArpState
  <2>5. /\ d \in Entry /\ d.q = ip /\ d.ip = ip /\ d.state = "pending" /\ d.ctime = p.ctime
    BY <1>5, <2>2 DEF Entry
  <2>6. EntryOK(d, t.heard, Nothing)
    <3>1. p.ctime < ARP_MAXAGE  BY <1>6 DEF EntryOK
    <3> HIDE DEF d
    <3> QED BY <2>5, <3>1 DEF EntryOK, Stable
  <2>7. n \in Int /\ g \in [Slots -> Entry]
    <3>1. g \in [Slots -> Entry]
      <4> HIDE DEF d
      <4> QED BY <2>3, <2>5
    <3> DEFINE h == IF e.q = Nothing THEN 1 ELSE 0
    <3>2. h \in Int  OBVIOUS
    <3>3. n \in Int
      <4>1. n = t.pbufs + h  OBVIOUS
      <4> HIDE DEF h, n
      <4> QED BY <2>3, <3>2, <4>1
    <3> QED BY <3>1, <3>3
  <2>8. n = t.pbufs - (IF t.table[i].q # Nothing THEN 1 ELSE 0) + (IF d.q # Nothing THEN 1 ELSE 0)
    <3>1. t.table[i].q = e.q /\ d.q # Nothing  BY <1>4, <1>5, <2>3, <2>5
    <3> HIDE DEF d
    <3>2. CASE e.q # Nothing  BY <2>3, <3>1, <3>2
    <3>3. CASE e.q = Nothing  BY <2>3, <3>1, <3>3
    <3> QED BY <3>2, <3>3
  <2> HIDE DEF d, n, g
  <2>9. /\ out \in ArpState /\ out.table = g /\ out.heard = t.heard /\ out.pbufs = n
        /\ out.astray = FALSE
    BY <1>7, <2>4, <2>7 DEF ArpState
  <2>10. \A j \in Slots : j # i /\ t.table[j].state # "empty" => t.table[j].ip # d.ip
    BY <1>3, <1>5, <1>7, <2>5
  <2>11. out.table = [t.table EXCEPT ![i] = d]  BY <2>9 DEF g
  <2>12. ArpOK(out, Nothing)
    <3>1. /\ t \in ArpState /\ i \in Slots /\ d \in Entry /\ NoTwo(t.table)
          /\ t.pbufs = Cardinality(Waiting(t.table))
          /\ \A j \in Slots : j # i => EntryOK(t.table[j], t.heard, Nothing)
      BY <1>3, <1>7, <2>3, <2>5
    <3>2. out.pbufs = t.pbufs - (IF t.table[i].q # Nothing THEN 1 ELSE 0)
                              + (IF d.q # Nothing THEN 1 ELSE 0)
      BY <2>8, <2>9
    <3> QED BY <2>6, <2>9, <2>10, <2>11, <3>1, <3>2, EntryChanged
  <2> QED BY <2>12 DEF out
<1> QED BY <1>9, <1>10, <1>11


(* The entry of the address just announced becomes stable, and the packet  *)
(* that waits is sent to the address announced.                            *)
LEMMA LearnKeeps ==
    ASSUME NEW s, NEW i, NEW ip \in Neighbours, NEW mac \in Macs, Found(s, i, ip, ip),
           s.heard[ip] = mac
    PROVE  ArpOK(Learn(s, i, mac), Nothing)
<1> DEFINE e == s.table[i]
           d == [e EXCEPT !.state = "stable", !.netif = 1, !.mac = mac, !.ctime = 0,
                          !.q = Nothing, !.used = 0, !.asked = 0, !.faults = 0]
           g == [s.table EXCEPT ![i] = d]
           t == [s EXCEPT !.table = g]
           out == Learn(s, i, mac)
<1>1. /\ s \in ArpState /\ i \in Slots /\ e \in Entry /\ e.ip = ip /\ s.astray = FALSE
      /\ NoTwo(s.table) /\ s.pbufs = Cardinality(Waiting(s.table))
      /\ s.table \in [Slots -> Entry] /\ s.pbufs \in Int
  BY DEF Found, ArpState
<1>2. mac # Nothing /\ ip # Nothing  BY ArpAssumption
<1>3. e.q # Nothing => e.q = ip
  BY <1>1 DEF Found, EntryOK, EmptySlot
<1>4. /\ d \in Entry /\ d.state = "stable" /\ d.ip = ip /\ d.mac = mac /\ d.ctime = 0
      /\ d.q = Nothing /\ d.used = 0 /\ d.asked = 0 /\ d.faults = 0
  <2> HIDE DEF e
  <2> DEFINE bit == 0 .. 1
  <2>1. 1 \in bit /\ 0 \in bit  OBVIOUS
  <2>2. Entry = [state : {"empty", "pending"} \cup Stable, ip : Neighbours \cup {Nothing},
                 mac : Macs \cup {Nothing}, ctime : Nat, q : Neighbours \cup {Nothing},
                 netif : bit, used : bit, asked : Nat, faults : Nat]
    BY DEF Entry
  <2> HIDE DEF bit
  <2>3. e \in Entry /\ e.ip = ip  BY <1>1
  <2>4. d \in Entry  BY <2>1, <2>2, <2>3 DEF Stable
  <2>5. /\ d.state = "stable" /\ d.ip = e.ip /\ d.mac = mac /\ d.ctime = 0
        /\ d.q = Nothing /\ d.used = 0 /\ d.asked = 0 /\ d.faults = 0
    BY <2>3 DEF Entry
  <2> QED BY <2>3, <2>4, <2>5
<1>5. out = IF e.q = Nothing THEN t ELSE [etharp_send_ip(t, e.q, mac) EXCEPT !.pbufs = @ - 1]
  BY DEF Learn
<1> HIDE DEF d, out
<1>6. EntryOK(d, s.heard, Nothing)  BY <1>1, <1>2, <1>4, ArpAssumption DEF EntryOK, Stable
<1>7. \A j \in Slots : j # i => EntryOK(s.table[j], s.heard, Nothing)
  BY DEF Found, EntryOK, Stable
<1>8. \A j \in Slots : j # i /\ s.table[j].state # "empty" => s.table[j].ip # d.ip
  BY <1>4 DEF Found
<1>9. g \in [Slots -> Entry]  BY <1>1, <1>4
<1>10. /\ t \in ArpState /\ t.table = g /\ t.heard = s.heard /\ t.pbufs = s.pbufs
       /\ t.astray = FALSE
  <2> HIDE DEF g
  <2> QED BY <1>1, <1>9 DEF ArpState
<1> HIDE DEF t, e
<1>11. CASE e.q = Nothing
  <2>1. t.pbufs = s.pbufs - (IF s.table[i].q # Nothing THEN 1 ELSE 0)
                          + (IF d.q # Nothing THEN 1 ELSE 0)
    BY <1>1, <1>4, <1>10, <1>11 DEF e
  <2>2. ArpOK(t, Nothing)
    BY <1>1, <1>4, <1>6, <1>7, <1>8, <1>10, <2>1, EntryChanged
  <2> QED BY <1>5, <1>11, <2>2 DEF out
<1>12. CASE e.q # Nothing
  <2>1. out = [etharp_send_ip(t, ip, mac) EXCEPT !.pbufs = @ - 1]  BY <1>3, <1>5, <1>12
  <2>2. out = [t EXCEPT !.astray = FALSE, !.pbufs = s.pbufs - 1]
    BY <1>2, <1>10, <2>1 DEF etharp_send_ip, ArpState
  <2>3. s.pbufs - 1 \in Int  BY <1>1
  <2>4. /\ out \in ArpState /\ out.table = g /\ out.heard = s.heard /\ out.pbufs = s.pbufs - 1
        /\ out.astray = FALSE
    <3> DEFINE n == s.pbufs - 1
    <3> HIDE DEF n, g
    <3>1. n \in Int  BY <2>3 DEF n
    <3>2. out = [t EXCEPT !.astray = FALSE, !.pbufs = n]  BY <2>2 DEF n
    <3>3. /\ out \in ArpState /\ out.table = g /\ out.heard = s.heard /\ out.pbufs = n
          /\ out.astray = FALSE
      BY <1>10, <3>1, <3>2 DEF ArpState
    <3> QED BY <3>3 DEF n
  <2>5. out.pbufs = s.pbufs - (IF s.table[i].q # Nothing THEN 1 ELSE 0)
                            + (IF d.q # Nothing THEN 1 ELSE 0)
    BY <1>1, <1>4, <1>12, <2>4 DEF e
  <2>6. ArpOK(out, Nothing)
    BY <1>1, <1>4, <1>6, <1>7, <1>8, <2>4, <2>5, EntryChanged
  <2> QED BY <2>6 DEF out
<1> QED BY <1>11, <1>12

(* A request or an answer of a neighbour.                                  *)
LEMMA UpdateKeeps ==
    ASSUME NEW s, ArpOK(s, Nothing), NEW ip \in Neighbours, NEW mac \in Macs, NEW for_us,
           for_us \in BOOLEAN
    PROVE  ArpOK(etharp_update_arp_entry([s EXCEPT !.heard[ip] = mac], ip, mac, for_us), Nothing)
<1> DEFINE h == [s.heard EXCEPT ![ip] = mac]
           t == [s EXCEPT !.heard[ip] = mac]
<1>1. s \in ArpState /\ s.heard \in [Neighbours -> Macs \cup {Nothing}]  BY DEF ArpOK, ArpState
<1>2. /\ h \in [Neighbours -> Macs \cup {Nothing}] /\ h[ip] = mac
      /\ \A a \in Neighbours : a # ip => h[a] = s.heard[a]
  BY <1>1
<1>3. /\ t \in ArpState /\ t.heard = h /\ t.table = s.table /\ t.pbufs = s.pbufs
      /\ t.astray = s.astray
  <2>1. t = [s EXCEPT !.heard = h]  BY <1>1 DEF ArpState
  <2> HIDE DEF h, t
  <2> QED BY <1>1, <1>2, <2>1 DEF ArpState
<1> HIDE DEF h, t
<1>4. \A j \in Slots : EntryOK(t.table[j], t.heard, ip)
  <2> SUFFICES ASSUME NEW j \in Slots PROVE EntryOK(s.table[j], h, ip)  BY <1>3
  <2>1. EntryOK(s.table[j], s.heard, Nothing)  BY DEF ArpOK
  <2>2. ASSUME s.table[j].state \in Stable, s.table[j].ip # ip
        PROVE  s.table[j].mac = h[s.table[j].ip] /\ s.table[j].mac # Nothing
    <3>1. s.table[j].ip \in Neighbours  BY <2>1, <2>2 DEF EntryOK, Stable
    <3>2. s.table[j].ip # Nothing  BY <3>1, ArpAssumption
    <3> QED BY <1>2, <2>1, <2>2, <3>1, <3>2 DEF EntryOK
  <2> QED BY <2>1, <2>2 DEF EntryOK
<1>5. ArpOK(t, ip)  BY <1>3, <1>4 DEF ArpOK
<1>6. CASE for_us
  <2> DEFINE found == etharp_find_entry(t, ip)
  <2>1. Found(found.s, found.at, ip, ip) /\ found.s.heard = t.heard  BY <1>5, FindEntry
  <2>2. found.s.heard[ip] = mac  BY <1>2, <1>3, <2>1
  <2> HIDE DEF found
  <2>3. ArpOK(Learn(found.s, found.at, mac), Nothing)  BY <2>1, <2>2, LearnKeeps
  <2> QED BY <1>6, <2>3 DEF etharp_update_arp_entry, found, t
<1>7. CASE ~for_us /\ Matching(t, ip) # {}
  <2> DEFINE k == Least(Matching(t, ip))
  <2>1. Found(t, k, ip, ip)  BY <1>5, <1>7, MatchFound
  <2>2. t.heard[ip] = mac  BY <1>2, <1>3
  <2> HIDE DEF k
  <2>3. ArpOK(Learn(t, k, mac), Nothing)  BY <2>1, <2>2, LearnKeeps
  <2> QED BY <1>7, <2>3 DEF etharp_update_arp_entry, k, t
<1>8. CASE ~for_us /\ Matching(t, ip) = {}
  <2>1. ASSUME NEW j \in Slots PROVE EntryOK(t.table[j], t.heard, Nothing)
    <3>1. EntryOK(t.table[j], t.heard, ip)  BY <1>4
    <3>2. t.table[j].state # "empty" => t.table[j].ip # ip  BY <1>8 DEF Matching
    <3> QED BY <3>1, <3>2 DEF EntryOK, Stable
  <2>2. ArpOK(t, Nothing)  BY <1>5, <2>1 DEF ArpOK
  <2> QED BY <1>8, <2>2 DEF etharp_update_arp_entry, t
<1> QED BY <1>6, <1>7, <1>8


(* A sweep of the table frees entries with their packets, and leaves the   *)
(* others their address and their packet.                                  *)
LEMMA SweepKeeps ==
    ASSUME NEW s, ArpOK(s, Nothing), NEW f \in [Slots -> Entry],
           \A i \in Slots : EntryOK(f[i], s.heard, Nothing),
           \A i \in Slots : f[i].state # "empty" =>
               /\ s.table[i].state # "empty"
               /\ f[i].ip = s.table[i].ip /\ f[i].q = s.table[i].q
    PROVE  ArpOK(Sweep(s, f), Nothing)
<1> DEFINE W == Waiting(s.table)
           freed == {i \in Slots : s.table[i].q # Nothing /\ f[i] = EmptySlot}
           n == s.pbufs - Cardinality(freed)
           t == Sweep(s, f)
<1>1. /\ s \in ArpState /\ s.astray = FALSE /\ NoTwo(s.table) /\ s.pbufs = Cardinality(W)
  BY DEF ArpOK
<1>2. IsFiniteSet(W) /\ IsFiniteSet(freed)
  <2>1. IsFiniteSet(Slots)
    <3>1. ARP_TABLE_SIZE - 1 \in Int  BY ArpAssumption
    <3> QED BY <3>1, FS_Interval DEF Slots
  <2>2. W \in SUBSET Slots /\ freed \in SUBSET Slots  BY DEF Waiting
  <2> QED BY <2>1, <2>2, FS_Subset
<1>3. Waiting(f) = W \ freed
  <2>1. ASSUME NEW i \in Slots PROVE f[i].q # Nothing <=> s.table[i].q # Nothing /\ f[i] # EmptySlot
    <3>1. CASE f[i].state = "empty"
      <4>1. f[i] = EmptySlot  BY <3>1 DEF EntryOK
      <4> QED BY <4>1 DEF EmptySlot
    <3>2. CASE f[i].state # "empty"
      <4>1. f[i] # EmptySlot /\ f[i].q = s.table[i].q  BY <3>2 DEF EmptySlot
      <4> QED BY <4>1
    <3> QED BY <3>1, <3>2
  <2> QED BY <2>1 DEF Waiting
<1>4. W \cap freed = freed  BY DEF Waiting
<1>5. t = [s EXCEPT !.table = f, !.pbufs = n]  BY <1>1 DEF Sweep
<1> HIDE DEF W, freed
<1>6. /\ Cardinality(W \ freed) = Cardinality(W) - Cardinality(W \cap freed)
      /\ Cardinality(W) \in Nat /\ Cardinality(freed) \in Nat
  BY <1>2, FS_Difference, FS_CardinalityType
<1>7. n \in Int /\ n = Cardinality(Waiting(f))  BY <1>1, <1>3, <1>4, <1>6
<1> HIDE DEF n, t
<1>8. /\ t \in ArpState /\ t.table = f /\ t.heard = s.heard /\ t.pbufs = n /\ t.astray = FALSE
  BY <1>1, <1>5, <1>7 DEF ArpState
<1>9. NoTwo(f)  BY <1>1 DEF NoTwo
<1>10. ArpOK(t, Nothing)  BY <1>7, <1>8, <1>9 DEF ArpOK
<1> QED BY <1>10 DEF t

(* One tick.  An entry about to expire gets older only by a fault: it is   *)
(* stable and was not used, or was asked for without an answer.            *)
LEMMA TickKeeps ==
    ASSUME NEW e \in Entry, NEW heard, EntryOK(e, heard, Nothing)
    PROVE  LET d == TickEntry(e)
           IN  /\ d \in Entry /\ EntryOK(d, heard, Nothing)
               /\ d.state # "empty" => e.state # "empty" /\ d.ip = e.ip /\ d.q = e.q
<1> DEFINE age == e.ctime + 1
           old == age >= ARP_MAXAGE \/ (e.state = "pending" /\ age >= ARP_MAXPENDING)
           fault == AboutToExpire(e) /\ (e.used = 0 \/ e.asked > 0)
           st == IF e.state = "rerequesting" THEN "stable" ELSE e.state
           fs == IF fault THEN e.faults + 1 ELSE e.faults
           b == [e EXCEPT !.ctime = age, !.state = st, !.used = 0, !.asked = 0, !.faults = fs]
           d == TickEntry(e)
<1>1. CASE e.state = "empty"
  <2>1. d = e  BY <1>1 DEF TickEntry
  <2> QED BY <1>1, <2>1
<1>2. CASE e.state # "empty" /\ old
  <2>1. d = EmptySlot  BY <1>2 DEF TickEntry
  <2>2. EmptySlot.state = "empty"  BY DEF EmptySlot
  <2> QED BY <2>1, <2>2, EmptyOK
<1>3. CASE e.state # "empty" /\ ~old
  <2>1. d = b  BY <1>3 DEF TickEntry
  <2>2. /\ e.ctime \in Nat /\ e.faults \in Nat /\ age \in Nat
    BY DEF Entry
  <2>3. age < ARP_MAXAGE  BY <1>3, <2>2, ArpAssumption
  <2>4. fs \in Nat /\ fs >= e.faults
    <3>1. CASE fault  BY <2>2, <3>1
    <3>2. CASE ~fault  BY <2>2, <3>2
    <3> QED BY <3>1, <3>2
  <2>5. st \in {"empty", "pending"} \cup Stable /\ st # "empty" /\ st # "rerequesting"
    BY <1>3 DEF Entry, Stable
  <2>6. st \in Stable <=> e.state \in Stable  BY DEF Stable
  <2>7. e.state \in Stable => age <= ARP_AGE_REREQUEST_USED + fs
    <3> SUFFICES ASSUME e.state \in Stable PROVE age <= ARP_AGE_REREQUEST_USED + fs  OBVIOUS
    <3>1. e.ctime <= ARP_AGE_REREQUEST_USED + e.faults  BY DEF EntryOK
    <3>2. CASE e.ctime >= ARP_AGE_REREQUEST_USED
      <4>1. AboutToExpire(e)  BY <3>2 DEF AboutToExpire
      <4>2. e.used = 0 \/ e.asked = 1  BY DEF EntryOK, Stable
      <4>3. fault  BY <4>1, <4>2
      <4>4. fs = e.faults + 1  BY <4>3
      <4> HIDE DEF fs, fault
      <4> QED BY <2>2, <3>1, <4>4, ArpAssumption
    <3>3. CASE ~(e.ctime >= ARP_AGE_REREQUEST_USED)
      <4> HIDE DEF fs, fault
      <4> QED BY <2>2, <2>4, <3>3, ArpAssumption
    <3> QED BY <3>2, <3>3
  <2> HIDE DEF fs, fault, age, st
  <2>8. b \in Entry
    <3>1. 0 \in 0 .. 1 /\ 0 \in Nat  OBVIOUS
    <3> QED BY <2>2, <2>4, <2>5, <3>1 DEF Entry
  <2>9. /\ b.state = st /\ b.ip = e.ip /\ b.mac = e.mac /\ b.ctime = age /\ b.q = e.q
        /\ b.used = 0 /\ b.asked = 0 /\ b.faults = fs
    BY DEF Entry
  <2> HIDE DEF b
  <2>10. b.q # Nothing => b.state = "pending" /\ b.q = b.ip
    BY <2>9 DEF EntryOK, st
  <2>11. EntryOK(b, heard, Nothing)
    <3>1. e.ip \in Neighbours  BY <1>3 DEF EntryOK
    <3>2. b.state \in Stable /\ b.ip # Nothing => b.mac = heard[b.ip] /\ b.mac # Nothing
      BY <2>6, <2>9 DEF EntryOK
    <3>3. b.state \in Stable => b.ctime <= ARP_AGE_REREQUEST_USED + b.faults
      BY <2>6, <2>7, <2>9
    <3> QED BY <2>3, <2>5, <2>9, <2>10, <3>1, <3>2, <3>3 DEF EntryOK
  <2> QED BY <1>3, <2>1, <2>8, <2>9, <2>11
<1> QED BY <1>1, <1>2, <1>3


(* Every handler keeps the table as it must be.                            *)
LEMMA ArpStep ==
    ASSUME ArpOK(arp, Nothing), [ArpNext]_arpVars
    PROVE  ArpOK(arp, Nothing)'
<1>1. SUFFICES ArpOK(arp', Nothing)  BY DEF Nothing, ArpOK, ArpState, EntryOK, NoTwo, Waiting,
      Entry, Slots, Stable, EmptySlot
<1>2. /\ arp \in ArpState /\ arp.hint \in Slots
      /\ \A i \in Slots : arp.table[i] \in Entry /\ EntryOK(arp.table[i], arp.heard, Nothing)
  BY DEF ArpOK, ArpState
<1>3. CASE etharp_output
  <2>1. PICK dest \in Neighbours \cup {Outside}, r \in {"ok", "mem"}, c \in {"ok", "mem"} :
          LET ip == NextHop(dest)
              known == {i \in Matching(arp, ip) : arp.table[i].state \in Stable}
          IN  arp' = IF Cached(arp, ip) THEN etharp_output_to_arp_index(arp, ip, arp.hint, r)
                     ELSE IF known # {}
                     THEN etharp_output_to_arp_index([arp EXCEPT !.hint = Least(known)],
                                                     ip, Least(known), r)
                     ELSE etharp_query(arp, ip, ip, c)
    BY <1>3 DEF etharp_output
  <2> DEFINE ip == NextHop(dest)
             known == {i \in Matching(arp, ip) : arp.table[i].state \in Stable}
             k == Least(known)
             h == [arp EXCEPT !.hint = k]
  <2>2. ip \in Neighbours  BY ArpAssumption DEF NextHop
  <2> HIDE DEF ip
  <2>3. CASE Cached(arp, ip)
    <3>1. arp' = etharp_output_to_arp_index(arp, ip, arp.hint, r)  BY <2>1, <2>3 DEF ip
    <3>2. arp.table[arp.hint].state \in Stable /\ arp.table[arp.hint].ip = ip
      BY <2>3 DEF Cached
    <3>3. ArpOK(etharp_output_to_arp_index(arp, ip, arp.hint, r), Nothing)
      BY <1>2, <3>2, OutputKeeps
    <3> QED BY <3>1, <3>3
  <2>4. CASE ~Cached(arp, ip) /\ known # {}
    <3>1. arp' = etharp_output_to_arp_index(h, ip, k, r)  BY <2>1, <2>4 DEF ip
    <3>2. k \in known
      <4>1. known \in SUBSET Slots  BY DEF Matching
      <4> QED BY <2>4, <4>1, LeastIn
    <3>3. k \in Slots /\ arp.table[k].state \in Stable /\ arp.table[k].ip = ip
      BY <3>2 DEF Matching
    <3> HIDE DEF k
    <3>4. /\ h \in ArpState /\ h.table = arp.table /\ h.heard = arp.heard
          /\ h.pbufs = arp.pbufs /\ h.astray = arp.astray
      BY <1>2, <3>3 DEF ArpState
    <3> HIDE DEF h
    <3>5. ArpOK(h, Nothing)  BY <3>4 DEF ArpOK
    <3>6. ArpOK(etharp_output_to_arp_index(h, ip, k, r), Nothing)
      BY <3>3, <3>4, <3>5, OutputKeeps
    <3> QED BY <3>1, <3>6
  <2>5. CASE ~Cached(arp, ip) /\ known = {}
    <3>1. arp' = etharp_query(arp, ip, ip, c)  BY <2>1, <2>5 DEF ip
    <3> QED BY <2>2, <3>1, QueryKeeps
  <2> QED BY <2>3, <2>4, <2>5
<1>4. CASE dhcp_check
  BY <1>4, QueryKeeps DEF dhcp_check
<1>5. CASE etharp_arp_input
  BY <1>5, UpdateKeeps DEF etharp_arp_input
<1>6. CASE etharp_tmr
  <2> DEFINE f == [i \in Slots |-> TickEntry(arp.table[i])]
  <2>1. arp' = Sweep(arp, f)  BY <1>6 DEF etharp_tmr
  <2>2. ASSUME NEW i \in Slots
        PROVE  /\ f[i] \in Entry /\ EntryOK(f[i], arp.heard, Nothing)
               /\ f[i].state # "empty" =>
                    /\ arp.table[i].state # "empty"
                    /\ f[i].ip = arp.table[i].ip /\ f[i].q = arp.table[i].q
    BY <1>2, TickKeeps
  <2>3. f \in [Slots -> Entry]  BY <2>2
  <2> HIDE DEF f
  <2>4. ArpOK(Sweep(arp, f), Nothing)  BY <2>2, <2>3, SweepKeeps
  <2> QED BY <2>1, <2>4
<1>7. CASE etharp_cleanup_netif
  <2> DEFINE f == [i \in Slots |-> IF arp.table[i].netif = 1 THEN EmptySlot ELSE arp.table[i]]
  <2>1. arp' = Sweep(arp, f)  BY <1>7 DEF etharp_cleanup_netif
  <2>2. ASSUME NEW i \in Slots
        PROVE  /\ f[i] \in Entry /\ EntryOK(f[i], arp.heard, Nothing)
               /\ f[i].state # "empty" =>
                    /\ arp.table[i].state # "empty"
                    /\ f[i].ip = arp.table[i].ip /\ f[i].q = arp.table[i].q
    <3>1. CASE arp.table[i].netif = 1
      <4>1. f[i] = EmptySlot  BY <3>1
      <4>2. EmptySlot.state = "empty"  BY DEF EmptySlot
      <4> QED BY <4>1, <4>2, EmptyOK
    <3>2. CASE arp.table[i].netif # 1
      <4>1. f[i] = arp.table[i]  BY <3>2
      <4> QED BY <1>2, <4>1
    <3> QED BY <3>1, <3>2
  <2>3. f \in [Slots -> Entry]  BY <2>2
  <2> HIDE DEF f
  <2>4. ArpOK(Sweep(arp, f), Nothing)  BY <2>2, <2>3, SweepKeeps
  <2> QED BY <2>1, <2>4
<1>8. CASE UNCHANGED arpVars
  BY <1>8 DEF arpVars
<1> QED BY <1>3, <1>4, <1>5, <1>6, <1>7, <1>8 DEF ArpNext

(* The empty table is all right.                                           *)
LEMMA ArpStart ==
    ASSUME ArpInit
    PROVE  ArpOK(arp, Nothing)
<1> DEFINE f == [i \in Slots |-> EmptySlot]
           h == [a \in Neighbours |-> Nothing]
<1>1. /\ f \in [Slots -> Entry] /\ \A i \in Slots : f[i] = EmptySlot
      /\ h \in [Neighbours -> Macs \cup {Nothing}]
  BY EmptyOK
<1>2. EmptySlot.state = "empty" /\ EmptySlot.q = Nothing  BY DEF EmptySlot
<1>3. 0 \in Slots  BY ArpAssumption DEF Slots
<1> HIDE DEF f, h
<1>4. arp = [table |-> f, hint |-> 0, pbufs |-> 0, heard |-> h, astray |-> FALSE]
  BY DEF ArpInit, f, h
<1>5. /\ arp \in ArpState /\ arp.table = f /\ arp.pbufs = 0 /\ arp.astray = FALSE
  BY <1>1, <1>3, <1>4 DEF ArpState
<1>6. \A i \in Slots : EntryOK(arp.table[i], arp.heard, Nothing)  BY <1>1, <1>5, EmptyOK
<1>7. NoTwo(arp.table)  BY <1>1, <1>2, <1>5 DEF NoTwo
<1>8. Waiting(arp.table) = {}  BY <1>1, <1>2, <1>5 DEF Waiting
<1>9. arp.pbufs = Cardinality(Waiting(arp.table))  BY <1>5, <1>8, FS_EmptySet
<1> QED BY <1>5, <1>6, <1>7, <1>9 DEF ArpOK

(* etharp.c: for every number of neighbours, entries and ticks, whatever   *)
(* the order of packets, messages, expiry, recycling and interface-down,   *)
(* no address has two entries, every copy is on the pending entry of its   *)
(* address or freed, nothing is sent to a stale Ethernet address, and an   *)
(* entry in steady use does not expire.                                    *)
THEOREM ArpCorrect == ArpSpec => []ArpExact
<1>1. ASSUME ArpOK(arp, Nothing) PROVE ArpExact
  <2>1. /\ arp \in ArpState
        /\ \A i \in Slots : arp.table[i] \in Entry /\ EntryOK(arp.table[i], arp.heard, Nothing)
    BY <1>1 DEF ArpOK, ArpState
  <2>2. ArpTypeOK  BY <2>1 DEF ArpTypeOK, ArpState, Entry
  <2>3. OneEntryEach
    <3> SUFFICES ASSUME NEW ip \in Neighbours PROVE Cardinality(Matching(arp, ip)) <= 1
      BY DEF OneEntryEach
    <3>1. CASE Matching(arp, ip) = {}  BY <3>1, FS_EmptySet
    <3>2. CASE Matching(arp, ip) # {}
      <4>1. PICK k \in Matching(arp, ip) : TRUE  BY <3>2
      <4>2. Matching(arp, ip) = {k}  BY <1>1, <4>1 DEF Matching, ArpOK, NoTwo
      <4> QED BY <4>2, FS_Singleton
    <3> QED BY <3>1, <3>2
  <2>4. CopiesAccounted
    BY <1>1, <2>1 DEF CopiesAccounted, ArpOK, EntryOK, Waiting
  <2>5. SentToOwner  BY <1>1 DEF SentToOwner, ArpOK
  <2>6. SteadyKept
    <3> SUFFICES ASSUME NEW i \in Slots, arp.table[i].state \in Stable
                 PROVE  /\ arp.table[i].ctime <= ARP_AGE_REREQUEST_USED + arp.table[i].faults
                        /\ arp.table[i].asked <= 1
      BY DEF SteadyKept
    <3>1. arp.table[i].asked = 0 \/ arp.table[i].asked = 1  BY <2>1 DEF EntryOK, Stable
    <3>2. arp.table[i].ctime <= ARP_AGE_REREQUEST_USED + arp.table[i].faults
      BY <2>1 DEF EntryOK
    <3> QED BY <3>1, <3>2
  <2> QED BY <2>2, <2>3, <2>4, <2>5, <2>6 DEF ArpExact
<1> QED BY <1>1, ArpStart, ArpStep, PTL DEF ArpSpec

-----------------------------------------------------------------------------
(* The send side: NetconnSend.                                             *)

(* The states of the send side: the errors a call returns, the pcb, the    *)
(* netconn and the message.                                                *)
Errors == {"ok", "val", "clsd", "isconn", "mem", "inprogress", "conn", "rst", "abrt"}
Pcb == [st : {"gone", "closed", "syn_sent", "established"}, arg : 0 .. 1, sent : 0 .. 1,
        poll : 0 .. 1, err : 0 .. 1, queued : Nat]
Conn == [made : 0 .. 1, state : {"none", "connect", "write", "close"}, cur : 0 .. 1,
         off : Nat, last_err : Errors, pcb : 0 .. 1]
Call == [op : {"none", "connect", "write", "delete"}, len : Nat, err : Errors]
SendState ==
    [conn : Conn, tp : Pcb, call : Call, sem : Nat, box : Seq({"api", "pkt"}),
     enq : Seq(Nat), base : Nat, stray : BOOLEAN,
     writes : Nat, shortages : Nat, sockets : Nat]

(* What TCPIP_APIMSG_ACK changes.                                          *)
LEMMA AckFields ==
    ASSUME NEW s \in SendState, NEW e \in Errors
    PROVE  LET t == Ack(s, e)
           IN  /\ t \in SendState
               /\ t.conn = s.conn /\ t.tp = s.tp /\ t.sem = s.sem + 1 /\ t.box = s.box
               /\ t.call.op = s.call.op /\ t.call.len = s.call.len /\ t.call.err = e
               /\ t.enq = s.enq /\ t.base = s.base /\ t.stray = s.stray
<1> DEFINE c == [s.call EXCEPT !.err = e]
           n == s.sem + 1
           t == [s EXCEPT !.call = c, !.sem = n]
<1>1. s.call \in Call /\ s.sem \in Nat  BY DEF SendState
<1>2. /\ c \in Call /\ n \in Nat /\ c.op = s.call.op /\ c.len = s.call.len /\ c.err = e
  BY <1>1 DEF Call
<1>3. Ack(s, e) = t  BY DEF Ack
<1> HIDE DEF c, n
<1>4. /\ t \in SendState
               /\ t.conn = s.conn /\ t.tp = s.tp /\ t.sem = n /\ t.box = s.box /\ t.call = c
               /\ t.enq = s.enq /\ t.base = s.base /\ t.stray = s.stray
  BY <1>2 DEF SendState
<1> HIDE DEF t
<1> QED BY <1>2, <1>3, <1>4 DEF n

(* What finishing the current message changes.                             *)
LEMMA AnswerFields ==
    ASSUME NEW s \in SendState, NEW e \in Errors
    PROVE  LET t == Answer(s, e)
           IN  /\ t \in SendState
               /\ t.tp = s.tp /\ t.sem = s.sem + 1 /\ t.box = s.box
               /\ t.conn.cur = 0 /\ t.conn.state = "none" /\ t.conn.made = s.conn.made
               /\ t.conn.pcb = s.conn.pcb
               /\ t.call.op = s.call.op /\ t.call.len = s.call.len /\ t.call.err = e
               /\ t.enq = s.enq /\ t.base = s.base /\ t.stray = s.stray
<1> DEFINE c == [s.conn EXCEPT !.cur = 0, !.state = "none"]
           u == [s EXCEPT !.conn = c]
<1>1. s.conn \in Conn  BY DEF SendState
<1>2. /\ c \in Conn /\ c.cur = 0 /\ c.state = "none" /\ c.made = s.conn.made /\ c.pcb = s.conn.pcb
  <2>1. 0 \in 0 .. 1  OBVIOUS
  <2> QED BY <1>1, <2>1 DEF Conn
<1>3. Answer(s, e) = Ack(u, e)  BY DEF Answer
<1> HIDE DEF c
<1>4. /\ u \in SendState
               /\ u.tp = s.tp /\ u.sem = s.sem /\ u.box = s.box /\ u.call = s.call /\ u.conn = c
               /\ u.enq = s.enq /\ u.base = s.base /\ u.stray = s.stray
  BY <1>2 DEF SendState
<1> HIDE DEF u
<1> QED BY <1>2, <1>3, <1>4, AckFields

(* The smallest of three numbers.                                          *)
LEMMA MinOf ==
    ASSUME NEW a \in Nat, NEW b \in Nat, NEW c \in Nat
    PROVE  LET m == Min({a, b, c}) IN m \in Nat /\ m <= a /\ m <= b /\ m <= c
<1>1. \E x \in {a, b, c} : \A y \in {a, b, c} : x <= y
  <2>1. CASE a <= b /\ a <= c BY <2>1
  <2>2. CASE b <= a /\ b <= c BY <2>2
  <2>3. CASE c <= a /\ c <= b BY <2>3
  <2> QED BY <2>1, <2>2, <2>3
<1> DEFINE m == Min({a, b, c})
<1>2. m \in {a, b, c} /\ \A y \in {a, b, c} : m <= y BY <1>1 DEF Min
<1> HIDE DEF m
<1>3. m \in Nat /\ m <= a /\ m <= b /\ m <= c BY <1>2
<1> QED BY <1>3 DEF m

(* The bytes queued are 1, 2, 3 and so on.                                 *)
InOrder(q) == q = [i \in 1 .. Len(q) |-> i]

(* The mailbox holds the message of the task.                              *)
HasApi(b) == \E i \in DOMAIN b : b[i] = "api"

(* The mailbox holds at most one message of the task and otherwise         *)
(* packets, of which there are at most InPkts: with a mailbox larger than  *)
(* that there is always a slot for the message.                            *)
BoxOK(b) ==
    /\ b \in Seq({"api", "pkt"}) /\ Len(b) <= TcpipMbox
    /\ \A i, j \in DOMAIN b : b[i] = "api" /\ b[j] = "api" => i = j
    /\ HasApi(b) => Len(b) <= InPkts + 1
    /\ ~HasApi(b) => Len(b) <= InPkts

(* Without a pcb there is nothing of it left; a pcb belongs to a netconn   *)
(* and, once it is not closed, has all its callbacks.                      *)
PcbOK(s) ==
    /\ s.conn.pcb = 0 => s.tp = NoPcb
    /\ s.conn.pcb = 1 => s.conn.made = 1 /\ s.tp.st # "gone"
    /\ s.tp.st \in Writable => s.tp.arg = 1 /\ s.tp.sent = 1 /\ s.tp.poll = 1 /\ s.tp.err = 1
    /\ s.tp.queued <= TCP_SND_BUF

(* What holds between any two statements of a handler.                     *)
Sound(s) ==
    /\ s \in SendState /\ BoxOK(s.box) /\ s.stray = FALSE
    /\ PcbOK(s) /\ InOrder(s.enq)

(* What holds between two handlers: besides, a pcb is being connected      *)
(* exactly while the netconn is.                                           *)
Always(s) ==
    /\ Sound(s)
    /\ s.tp.st = "syn_sent" <=> s.conn.state = "connect"

(* The four places of a call: none, sent, kept by tcpip_thread, answered.  *)
(* Each says what the netconn, the semaphore and the bytes queued are      *)
(* then.                                                                   *)
IdleCall(s) ==
    /\ s.call.op = "none" /\ s.sem = 0 /\ s.conn.cur = 0 /\ s.conn.state = "none"
    /\ ~HasApi(s.box) /\ s.base = Len(s.enq)
Sent(s) ==
    /\ s.call.op # "none" /\ s.conn.made = 1
    /\ s.sem = 0 /\ s.conn.cur = 0 /\ s.conn.state = "none" /\ s.base = Len(s.enq)
KeptCall(s) ==
    /\ s.call.op # "none" /\ s.conn.made = 1
    /\ s.sem = 0 /\ s.conn.cur = 1 /\ s.conn.state = StateOf(s.call.op)
    /\ s.conn.pcb = 1 /\ s.tp.st \in Writable /\ ~HasApi(s.box)
    /\ s.call.op = "write" => Len(s.enq) = s.base + s.conn.off /\ s.conn.off <= s.call.len
    /\ s.call.op # "write" => s.base = Len(s.enq)
AnsweredCall(s) ==
    /\ s.call.op # "none" /\ s.conn.made = 1
    /\ s.sem = 1 /\ s.conn.cur = 0 /\ s.conn.state = "none" /\ ~HasApi(s.box)
    /\ s.call.op = "write" /\ s.call.err = "ok" => Len(s.enq) = s.base + s.call.len
    /\ s.call.op = "delete" => s.conn.pcb = 0
    

(* The inductive invariant of the send side.                               *)
SendOK(s) ==
    /\ Always(s)
    /\ \/ IdleCall(s) \/ (Sent(s) /\ HasApi(s.box)) \/ KeptCall(s) \/ AnsweredCall(s)

(* Finishing a call that nobody has answered leaves it answered.           *)
LEMMA AnswerOK ==
    ASSUME NEW s, Sound(s), s.call.op # "none", s.conn.made = 1, s.sem = 0, ~HasApi(s.box),
           s.tp.st # "syn_sent", NEW e \in Errors,
           s.call.op = "write" /\ e = "ok" => Len(s.enq) = s.base + s.call.len,
           s.call.op = "delete" => s.conn.pcb = 0
    PROVE  Always(Answer(s, e)) /\ AnsweredCall(Answer(s, e))
<1> DEFINE t == Answer(s, e)
<1>0. s \in SendState  BY DEF Sound
<1>1. /\ t \in SendState
      /\ t.tp = s.tp /\ t.sem = s.sem + 1 /\ t.box = s.box
      /\ t.conn.cur = 0 /\ t.conn.state = "none" /\ t.conn.made = s.conn.made
      /\ t.conn.pcb = s.conn.pcb
      /\ t.call.op = s.call.op /\ t.call.len = s.call.len /\ t.call.err = e
      /\ t.enq = s.enq /\ t.base = s.base /\ t.stray = s.stray
  BY <1>0, AnswerFields
<1> HIDE DEF t
<1>2. Always(t)  BY <1>1 DEF Always, Sound, PcbOK
<1>3. t.sem = 1  BY <1>1
<1>4. AnsweredCall(t)  BY <1>1, <1>3 DEF AnsweredCall
<1> QED BY <1>2, <1>4 DEF t

(* So does the answer to a message that was not kept.                      *)
LEMMA AckOK ==
    ASSUME NEW s, Always(s), Sent(s), ~HasApi(s.box), NEW e \in Errors,
           s.call.op = "write" => e # "ok", s.call.op = "delete" => s.conn.pcb = 0
    PROVE  Always(Ack(s, e)) /\ AnsweredCall(Ack(s, e))
<1> DEFINE t == Ack(s, e)
<1>0. s \in SendState  BY DEF Always, Sound
<1>1. /\ t \in SendState
               /\ t.conn = s.conn /\ t.tp = s.tp /\ t.sem = s.sem + 1 /\ t.box = s.box
               /\ t.call.op = s.call.op /\ t.call.len = s.call.len /\ t.call.err = e
               /\ t.enq = s.enq /\ t.base = s.base /\ t.stray = s.stray
  BY <1>0, AckFields
<1> HIDE DEF t
<1>2. Always(t)  BY <1>1 DEF Always, Sound, PcbOK
<1>3. t.sem = 1  BY <1>1 DEF Sent
<1>4. AnsweredCall(t)  BY <1>1, <1>3 DEF AnsweredCall, Sent
<1> QED BY <1>2, <1>4 DEF t

(* Bytes queued after those that are in order stay in order.               *)
LEMMA Extended ==
    ASSUME NEW q \in Seq(Nat), InOrder(q), NEW n \in Nat
    PROVE  LET p == q \o [i \in 1 .. n |-> Len(q) + i]
           IN  p \in Seq(Nat) /\ Len(p) = Len(q) + n /\ InOrder(p)
<1> DEFINE d == [i \in 1 .. n |-> Len(q) + i]
           p == q \o d
<1>1. Len(q) \in Nat  OBVIOUS
<1>2. d \in Seq(Nat) /\ Len(d) = n /\ \A i \in 1 .. n : d[i] = Len(q) + i  BY <1>1
<1> HIDE DEF d
<1>3. /\ p \in Seq(Nat) /\ Len(p) = Len(q) + n
      /\ \A i \in 1 .. Len(p) : p[i] = IF i <= Len(q) THEN q[i] ELSE d[i - Len(q)]
  <2>1. /\ p \in Seq(Nat) /\ Len(p) = Len(q) + Len(d)
        /\ \A i \in 1 .. Len(q) + Len(d) : p[i] = IF i <= Len(q) THEN q[i] ELSE d[i - Len(q)]
    BY <1>2, ConcatProperties, Zenon
  <2> QED BY <1>2, <2>1, Zenon
<1> HIDE DEF p
<1>4. ASSUME NEW i \in 1 .. Len(p) PROVE p[i] = i
  <2>1. CASE i <= Len(q)
    <3>1. i \in 1 .. Len(q)  BY <2>1
    <3> QED BY <1>3, <2>1, <3>1 DEF InOrder
  <2>2. CASE i > Len(q)
    <3>1. i - Len(q) \in 1 .. n  BY <1>1, <1>3, <2>2
    <3>2. p[i] = d[i - Len(q)]  BY <1>1, <1>3, <2>2
    <3>3. d[i - Len(q)] = Len(q) + (i - Len(q))  BY <1>2, <3>1
    <3> QED BY <1>1, <3>2, <3>3
  <2> QED BY <1>1, <2>1, <2>2
<1>5. InOrder(p)
  <2>1. p = [i \in 1 .. Len(p) |-> p[i]]  BY <1>3
  <2> QED BY <1>4, <2>1 DEF InOrder
<1> QED BY <1>3, <1>5 DEF p, d

(* do_writemore keeps the message or finishes it, and counts what it has   *)
(* queued in write_offset.                                                 *)
LEMMA WriteMore ==
    ASSUME NEW s, Always(s), s.call.op = "write", s.conn.made = 1, s.sem = 0,
           s.conn.cur = 1, s.conn.state = "write", s.conn.pcb = 1, ~HasApi(s.box),
           Len(s.enq) = s.base + s.conn.off, s.conn.off <= s.call.len, NEW r \in {"ok", "mem"}
    PROVE  LET t == do_writemore(s, r) IN Always(t) /\ (KeptCall(t) \/ AnsweredCall(t))
<1> DEFINE len == Min({MaxChunk, s.call.len - s.conn.off, TCP_SND_BUF - s.tp.queued})
           err == tcp_write(s, len, r)
           at == s.base + s.conn.off
           p == [s.tp EXCEPT !.queued = @ + len]
           c == [s.conn EXCEPT !.off = @ + len]
           q == s.enq \o [i \in 1 .. len |-> at + i]
           put == [s EXCEPT !.tp = p, !.enq = q, !.conn = c]
           t == do_writemore(s, r)
<1>1. /\ s \in SendState /\ s.tp \in Pcb /\ s.conn \in Conn /\ s.call \in Call
      /\ s.enq \in Seq(Nat) /\ s.base \in Nat /\ s.sem \in Nat
      /\ s.stray = FALSE /\ BoxOK(s.box) /\ PcbOK(s) /\ InOrder(s.enq)
      /\ s.tp.st # "syn_sent" /\ s.tp.st # "gone"
  BY DEF Always, Sound, SendState, PcbOK
<1>2. /\ s.conn.off \in Nat /\ s.call.len \in Nat /\ s.tp.queued \in Nat
      /\ s.tp.queued <= TCP_SND_BUF
  BY <1>1 DEF Pcb, Conn, Call, PcbOK
<1>3. /\ len \in Nat /\ len <= s.call.len - s.conn.off /\ len <= TCP_SND_BUF - s.tp.queued
  <2>1. /\ s.call.len - s.conn.off \in Nat /\ TCP_SND_BUF - s.tp.queued \in Nat /\ MaxChunk \in Nat
    BY <1>2, SendAssumption
  <2> QED BY <2>1, MinOf
<1>4. t = IF err = "ok" THEN IF put.conn.off = s.call.len
                             THEN Answer([put EXCEPT !.conn.off = 0], "ok") ELSE put
          ELSE IF err = "mem" THEN s
          ELSE Answer([s EXCEPT !.call.len = 0], err)
  BY <1>1 DEF do_writemore, SendState
<1> HIDE DEF len, t
<1>5. /\ q \in Seq(Nat) /\ Len(q) = Len(s.enq) + len /\ InOrder(q)
  <2>1. at = Len(s.enq)  OBVIOUS
  <2>2. q = s.enq \o [i \in 1 .. len |-> Len(s.enq) + i]  BY <2>1
  <2> QED BY <1>1, <1>3, <2>2, Extended
<1> HIDE DEF q
<1>6. p \in Pcb /\ p.st = s.tp.st /\ p.arg = s.tp.arg /\ p.sent = s.tp.sent /\ p.poll = s.tp.poll
      /\ p.err = s.tp.err /\ p.queued = s.tp.queued + len
  <2>1. s.tp.queued + len \in Nat  BY <1>2, <1>3
  <2> QED BY <1>1, <2>1 DEF Pcb
<1>7. c \in Conn /\ c.made = 1 /\ c.state = "write" /\ c.cur = 1 /\ c.pcb = 1
      /\ c.off = s.conn.off + len
  <2>1. s.conn.off + len \in Nat  BY <1>2, <1>3
  <2> QED BY <1>1, <2>1 DEF Conn
<1> HIDE DEF p, c
<1>8. /\ put \in SendState /\ put.tp = p /\ put.conn = c /\ put.enq = q /\ put.call = s.call
      /\ put.sem = s.sem /\ put.box = s.box /\ put.base = s.base /\ put.stray = s.stray
  BY <1>1, <1>5, <1>6, <1>7 DEF SendState
<1> HIDE DEF put
<1>9. put.tp.queued <= TCP_SND_BUF
  BY <1>2, <1>3, <1>6, <1>8, SendAssumption
<1>10. PcbOK(put)  BY <1>1, <1>6, <1>7, <1>8, <1>9 DEF PcbOK, NoPcb
<1>11. Sound(put)  BY <1>1, <1>5, <1>8, <1>10 DEF Sound
<1>12. CASE err = "ok" /\ put.conn.off = s.call.len
  <2> DEFINE d == [put.conn EXCEPT !.off = 0]
             u == [put EXCEPT !.conn.off = 0]
  <2>1. t = Answer(u, "ok")  BY <1>4, <1>12
  <2>2. d \in Conn /\ d.made = 1 /\ d.pcb = 1  BY <1>7, <1>8 DEF Conn
  <2>3. u = [put EXCEPT !.conn = d]  BY <1>8 DEF SendState
  <2> HIDE DEF d, u
  <2>4. /\ u \in SendState /\ u.tp = p /\ u.conn = d /\ u.enq = q /\ u.call = s.call
        /\ u.sem = s.sem /\ u.box = s.box /\ u.base = s.base /\ u.stray = s.stray
    BY <1>8, <2>2, <2>3 DEF SendState
  <2>5. Sound(u)  BY <1>8, <1>11, <2>2, <2>4, <1>7 DEF Sound, PcbOK
  <2>6. Len(u.enq) = u.base + u.call.len
    <3>1. s.conn.off + len = s.call.len  BY <1>7, <1>8, <1>12
    <3>2. Len(q) = s.base + s.conn.off + len  BY <1>5
    <3>3. s.base + s.conn.off + len = s.base + s.call.len  BY <1>1, <1>2, <1>3, <3>1
    <3> QED BY <2>4, <3>2, <3>3
  <2>7. "ok" \in Errors  BY DEF Errors
  <2>8. Always(Answer(u, "ok")) /\ AnsweredCall(Answer(u, "ok"))
    BY <1>1, <1>6, <2>2, <2>4, <2>5, <2>6, <2>7, AnswerOK
  <2> QED BY <2>1, <2>8 DEF t
<1>13. CASE err = "ok" /\ put.conn.off # s.call.len
  <2>1. t = put  BY <1>4, <1>13
  <2>2. s.tp.st \in Writable  BY <1>13 DEF tcp_write
  <2>3. Always(put)  BY <1>1, <1>6, <1>7, <1>8, <1>11 DEF Always
  <2>4. Len(put.enq) = put.base + put.conn.off /\ put.conn.off <= put.call.len
    BY <1>1, <1>2, <1>3, <1>5, <1>7, <1>8
  <2>5. KeptCall(put)  BY <1>6, <1>7, <1>8, <2>2, <2>4 DEF KeptCall, StateOf
  <2> QED BY <2>1, <2>3, <2>5 DEF t
<1>14. CASE err = "mem"
  <2>1. t = s  BY <1>4, <1>14
  <2>2. s.tp.st \in Writable  BY <1>14 DEF tcp_write
  <2>3. KeptCall(s)  BY <2>2 DEF KeptCall, StateOf
  <2> QED BY <2>1, <2>3 DEF t
<1>15. CASE err # "ok" /\ err # "mem"
  <2> DEFINE a == [s.call EXCEPT !.len = 0]
             u == [s EXCEPT !.call.len = 0]
  <2>1. err = "conn" /\ err \in Errors  BY <1>15 DEF tcp_write, Errors
  <2>2. t = Answer(u, err)  BY <1>4, <1>15
  <2>3. a \in Call /\ a.op = "write"  BY <1>1 DEF Call
  <2>4. u = [s EXCEPT !.call = a]  BY <1>1 DEF SendState
  <2> HIDE DEF a, u
  <2>5. /\ u \in SendState /\ u.tp = s.tp /\ u.conn = s.conn /\ u.enq = s.enq /\ u.call = a
        /\ u.sem = s.sem /\ u.box = s.box /\ u.base = s.base /\ u.stray = s.stray
    BY <1>1, <2>3, <2>4 DEF SendState
  <2>6. Sound(u)  BY <1>1, <2>5 DEF Sound, PcbOK
  <2>7. Always(Answer(u, err)) /\ AnsweredCall(Answer(u, err))
    BY <1>1, <2>1, <2>3, <2>5, <2>6, AnswerOK
  <2> QED BY <2>2, <2>7 DEF t
<1> QED BY <1>12, <1>13, <1>14, <1>15

(* do_close_internal keeps the message, with the callbacks set again, or   *)
(* finishes it, with the pcb and its callbacks gone.                       *)
LEMMA CloseInternal ==
    ASSUME NEW s, Always(s), s.call.op = "delete", s.conn.made = 1, s.sem = 0,
           s.conn.cur = 1, s.conn.state = "close", s.conn.pcb = 1, ~HasApi(s.box),
           s.base = Len(s.enq), NEW r \in {"ok", "mem"}
    PROVE  LET t == do_close_internal(s, r) IN Always(t) /\ (KeptCall(t) \/ AnsweredCall(t))
<1> DEFINE z == [s.tp EXCEPT !.arg = 0, !.sent = 0, !.poll = 0, !.err = 0]
           bare == [s EXCEPT !.tp = z]
           t == do_close_internal(s, r)
<1>1. /\ s \in SendState /\ s.tp \in Pcb /\ s.conn \in Conn /\ s.call \in Call
      /\ s.enq \in Seq(Nat) /\ s.base \in Nat /\ s.sem \in Nat
      /\ s.stray = FALSE /\ BoxOK(s.box) /\ PcbOK(s) /\ InOrder(s.enq)
      /\ s.tp.st # "syn_sent" /\ s.tp.st # "gone"
  BY DEF Always, Sound, SendState, PcbOK
<1>2. NoPcb \in Pcb /\ NoPcb.st = "gone" /\ NoPcb.queued = 0
  BY DEF NoPcb, Pcb
<1>3. CASE tcp_close(s, r) = "ok"
  <2> DEFINE c == [s.conn EXCEPT !.pcb = 0]
             u == [bare EXCEPT !.conn.pcb = 0, !.tp = NoPcb, !.stray = @ \/ Attached(bare.tp)]
  <2>1. t = Answer(u, "ok")  BY <1>3 DEF do_close_internal
  <2>2. c \in Conn /\ c.made = 1 /\ c.pcb = 0  BY <1>1 DEF Conn
  <2>3. ~Attached(bare.tp)
    <3>1. bare.tp = z  BY <1>1 DEF SendState
    <3>2. z.arg = 0 /\ z.sent = 0 /\ z.poll = 0 /\ z.err = 0  BY <1>1 DEF Pcb
    <3> HIDE DEF z, bare
    <3> QED BY <3>1, <3>2 DEF Attached
  <2>4. u = [s EXCEPT !.conn = c, !.tp = NoPcb, !.stray = FALSE]
    <3>1. bare.stray = FALSE /\ (bare.stray \/ Attached(bare.tp)) = FALSE
      BY <1>1, <2>3 DEF SendState
    <3>2. u = [bare EXCEPT !.conn.pcb = 0, !.tp = NoPcb, !.stray = FALSE]
      BY <3>1
    <3> QED BY <1>1, <3>2 DEF SendState
  <2> HIDE DEF c, u
  <2>5. /\ u \in SendState /\ u.tp = NoPcb /\ u.conn = c /\ u.enq = s.enq /\ u.call = s.call
        /\ u.sem = s.sem /\ u.box = s.box /\ u.base = s.base /\ u.stray = FALSE
    BY <1>1, <1>2, <2>2, <2>4 DEF SendState
  <2>6. PcbOK(u)  BY <1>2, <2>2, <2>5, SendAssumption DEF PcbOK, Writable
  <2>7. Sound(u)  BY <1>1, <2>5, <2>6 DEF Sound
  <2>8. "ok" \in Errors  BY DEF Errors
  <2>9. Always(Answer(u, "ok")) /\ AnsweredCall(Answer(u, "ok"))
    BY <1>2, <2>2, <2>5, <2>7, <2>8, AnswerOK
  <2> QED BY <2>1, <2>9 DEF t
<1>4. CASE tcp_close(s, r) # "ok"
  <2> DEFINE p == [z EXCEPT !.arg = 1, !.sent = 1, !.poll = 1, !.err = 1]
             u == [bare EXCEPT !.tp = [@ EXCEPT !.arg = 1, !.sent = 1, !.poll = 1, !.err = 1]]
  <2>1. s.tp.st = "established"  BY <1>4 DEF tcp_close
  <2>2. t = u  BY <1>4 DEF do_close_internal
  <2>3. u = [s EXCEPT !.tp = p]  BY <1>1 DEF SendState
  <2>4. p \in Pcb /\ p.st = "established" /\ p.queued = s.tp.queued
        /\ p.arg = 1 /\ p.sent = 1 /\ p.poll = 1 /\ p.err = 1
    <3>1. 1 \in 0 .. 1 /\ 0 \in 0 .. 1  OBVIOUS
    <3> QED BY <1>1, <2>1, <3>1 DEF Pcb
  <2> HIDE DEF p, u
  <2>5. /\ u \in SendState /\ u.tp = p /\ u.conn = s.conn /\ u.enq = s.enq /\ u.call = s.call
        /\ u.sem = s.sem /\ u.box = s.box /\ u.base = s.base /\ u.stray = FALSE
    BY <1>1, <2>3, <2>4 DEF SendState
  <2>6. PcbOK(u)  BY <1>1, <2>4, <2>5 DEF PcbOK
  <2>7. Always(u)  BY <1>1, <2>4, <2>5, <2>6 DEF Always, Sound
  <2>8. KeptCall(u)  BY <2>4, <2>5 DEF KeptCall, StateOf, Writable
  <2> QED BY <2>2, <2>7, <2>8 DEF t
<1> QED BY <1>3, <1>4

(* A state that differs only in the counters.                              *)
LEMMA SameOK ==
    ASSUME NEW s, SendOK(s), NEW t \in SendState,
           t.conn = s.conn, t.tp = s.tp, t.call = s.call, t.sem = s.sem, t.box = s.box,
           t.enq = s.enq, t.base = s.base, t.stray = s.stray
    PROVE  SendOK(t)
<1>1. Always(t)  BY DEF SendOK, Always, Sound, PcbOK
<1>2. CASE IdleCall(s)  BY <1>1, <1>2 DEF SendOK, IdleCall
<1>3. CASE Sent(s) /\ HasApi(s.box)  BY <1>1, <1>3 DEF SendOK, Sent
<1>4. CASE KeptCall(s)  BY <1>1, <1>4 DEF SendOK, KeptCall
<1>5. CASE AnsweredCall(s)  BY <1>1, <1>5 DEF SendOK, AnsweredCall
<1> QED BY <1>2, <1>3, <1>4, <1>5 DEF SendOK

(* A shortage of memory is only counted.                                   *)
LEMMA CountingFields ==
    ASSUME NEW s \in SendState, NEW r
    PROVE  LET t == Counting(s, r)
           IN  /\ t \in SendState
               /\ t.conn = s.conn /\ t.tp = s.tp /\ t.call = s.call /\ t.sem = s.sem
               /\ t.box = s.box /\ t.enq = s.enq /\ t.base = s.base /\ t.stray = s.stray
<1>1. s.shortages + 1 \in Nat  BY DEF SendState
<1>2. CASE r = "mem"
  <2> DEFINE n == s.shortages + 1
             t == [s EXCEPT !.shortages = n]
  <2>1. Counting(s, r) = t  BY <1>2 DEF Counting
  <2>2. n \in Nat  BY <1>1
  <2> HIDE DEF n
  <2> QED BY <2>1, <2>2 DEF SendState
<1>3. CASE r # "mem"  BY <1>3 DEF Counting
<1> QED BY <1>2, <1>3

(* poll_tcp, whatever the netconn is doing.                                *)
LEMMA PollOK ==
    ASSUME NEW s, SendOK(s), NEW r \in {"ok", "mem"}
    PROVE  SendOK(poll_tcp(s, r))
<1>1. s.conn.state \in {"none", "connect", "write", "close"}
  BY DEF SendOK, Always, Sound, SendState, Conn
<1>2. CASE s.conn.state = "write"
  <2>1. KeptCall(s) /\ Always(s)
    BY <1>2 DEF SendOK, IdleCall, Sent, AnsweredCall
  <2>2. s.call.op = "write"  BY <1>2, <2>1 DEF KeptCall, StateOf
  <2>3. Always(do_writemore(s, r)) /\ (KeptCall(do_writemore(s, r)) \/ AnsweredCall(do_writemore(s, r)))
    BY <1>2, <2>1, <2>2, WriteMore DEF KeptCall
  <2>4. poll_tcp(s, r) = do_writemore(s, r)  BY <1>2 DEF poll_tcp
  <2> QED BY <2>3, <2>4 DEF SendOK
<1>3. CASE s.conn.state = "close"
  <2>1. KeptCall(s) /\ Always(s)
    BY <1>3 DEF SendOK, IdleCall, Sent, AnsweredCall
  <2>2. s.call.op = "delete"
    <3>1. s.call.op \in {"none", "connect", "write", "delete"}
      BY <2>1 DEF Always, Sound, SendState, Call
    <3> QED BY <1>3, <2>1, <3>1 DEF KeptCall, StateOf
  <2>3. Always(do_close_internal(s, r))
        /\ (KeptCall(do_close_internal(s, r)) \/ AnsweredCall(do_close_internal(s, r)))
    BY <1>3, <2>1, <2>2, CloseInternal DEF KeptCall
  <2>4. poll_tcp(s, r) = do_close_internal(s, r)  BY <1>3 DEF poll_tcp
  <2> QED BY <2>3, <2>4 DEF SendOK
<1>4. CASE s.conn.state \notin {"write", "close"}
  <2>1. poll_tcp(s, r) = s  BY <1>4 DEF poll_tcp
  <2> QED BY <2>1
<1> QED BY <1>1, <1>2, <1>3, <1>4

(* err_tcp answers the call if there is one that is kept.                  *)
LEMMA ErrOK ==
    ASSUME NEW s, SendOK(s), s.tp.st \in Writable, NEW e \in {"rst", "abrt"}
    PROVE  SendOK(err_tcp(s, e))
<1> DEFINE c == [s.conn EXCEPT !.pcb = 0, !.last_err = e]
           gone == [s EXCEPT !.tp = NoPcb, !.conn = c]
<1>1. /\ s \in SendState /\ s.conn \in Conn /\ s.stray = FALSE /\ BoxOK(s.box) /\ InOrder(s.enq)
      /\ s.conn.state \in {"none", "connect", "write", "close"}
  BY DEF SendOK, Always, Sound, SendState, Conn
<1>2. NoPcb \in Pcb /\ NoPcb.st = "gone" /\ NoPcb.queued = 0
  BY DEF NoPcb, Pcb
<1>3. e \in Errors /\ e # "ok"  BY DEF Errors
<1>4. /\ c \in Conn /\ c.pcb = 0 /\ c.made = s.conn.made /\ c.state = s.conn.state
      /\ c.cur = s.conn.cur /\ c.off = s.conn.off
  <2>1. 0 \in 0 .. 1  OBVIOUS
  <2> QED BY <1>1, <1>3, <2>1 DEF Conn
<1> HIDE DEF c
<1>5. /\ gone \in SendState /\ gone.tp = NoPcb /\ gone.conn = c /\ gone.enq = s.enq
      /\ gone.call = s.call /\ gone.sem = s.sem /\ gone.box = s.box /\ gone.base = s.base
      /\ gone.stray = FALSE
  BY <1>1, <1>2, <1>4 DEF SendState
<1>6. err_tcp(s, e) = IF s.conn.state \in {"write", "close", "connect"} THEN Answer(gone, e) ELSE gone
  BY DEF err_tcp, c
<1> HIDE DEF gone
<1>7. Sound(gone)
  <2>1. PcbOK(gone)  BY <1>2, <1>4, <1>5, SendAssumption DEF PcbOK, Writable
  <2> QED BY <1>1, <1>5, <2>1 DEF Sound
<1>8. CASE s.conn.state = "none"
  <2>1. err_tcp(s, e) = gone  BY <1>6, <1>8
  <2>2. Always(gone)  BY <1>2, <1>4, <1>5, <1>7, <1>8 DEF Always
  <2>3. CASE IdleCall(s)  BY <1>4, <1>5, <2>1, <2>2, <2>3 DEF SendOK, IdleCall
  <2>4. CASE Sent(s) /\ HasApi(s.box)  BY <1>4, <1>5, <2>1, <2>2, <2>4 DEF SendOK, Sent
  <2>5. CASE AnsweredCall(s)  BY <1>4, <1>5, <2>1, <2>2, <2>5 DEF SendOK, AnsweredCall
  <2>6. ~KeptCall(s)
    <3>1. s.call.op \in {"none", "connect", "write", "delete"}
      BY <1>1 DEF SendState, Call
    <3> QED BY <1>8, <3>1 DEF KeptCall, StateOf
  <2> QED BY <2>3, <2>4, <2>5, <2>6 DEF SendOK
<1>9. CASE s.conn.state # "none"
  <2>1. err_tcp(s, e) = Answer(gone, e)  BY <1>1, <1>6, <1>9
  <2>2. KeptCall(s)  BY <1>9 DEF SendOK, IdleCall, Sent, AnsweredCall
  <2>3. Always(Answer(gone, e)) /\ AnsweredCall(Answer(gone, e))
    BY <1>2, <1>3, <1>4, <1>5, <1>7, <2>2, AnswerOK DEF KeptCall
  <2> QED BY <2>1, <2>3 DEF SendOK
<1> QED BY <1>8, <1>9

(* What setup_tcp changes.                                                 *)
LEMMA SetupFields ==
    ASSUME NEW s \in SendState
    PROVE  LET t == setup_tcp(s)
           IN  /\ t \in SendState
               /\ t.conn = s.conn /\ t.call = s.call /\ t.sem = s.sem
               /\ t.box = s.box /\ t.enq = s.enq /\ t.base = s.base /\ t.stray = s.stray
               /\ t.tp.st = s.tp.st /\ t.tp.queued = s.tp.queued
               /\ t.tp.arg = 1 /\ t.tp.sent = 1 /\ t.tp.poll = 1 /\ t.tp.err = 1
<1> DEFINE p == [s.tp EXCEPT !.arg = 1, !.sent = 1, !.poll = 1, !.err = 1]
           t == [s EXCEPT !.tp = p]
<1>1. s.tp \in Pcb  BY DEF SendState
<1>2. /\ p \in Pcb /\ p.st = s.tp.st /\ p.queued = s.tp.queued
      /\ p.arg = 1 /\ p.sent = 1 /\ p.poll = 1 /\ p.err = 1
  <2>1. 1 \in 0 .. 1  OBVIOUS
  <2> QED BY <1>1, <2>1 DEF Pcb
<1>3. setup_tcp(s) = t  BY DEF setup_tcp
<1> HIDE DEF p
<1>4. /\ t \in SendState /\ t.tp = p
               /\ t.conn = s.conn /\ t.call = s.call /\ t.sem = s.sem
               /\ t.box = s.box /\ t.enq = s.enq /\ t.base = s.base /\ t.stray = s.stray
  BY <1>2 DEF SendState
<1> HIDE DEF t
<1> QED BY <1>2, <1>3, <1>4

(* do_connected finishes netconn_connect.                                  *)
LEMMA ConnectedOK ==
    ASSUME NEW s, SendOK(s), s.tp.st = "syn_sent"
    PROVE  SendOK(do_connected(s))
<1> DEFINE p == [s.tp EXCEPT !.st = "established"]
           u == [s EXCEPT !.tp.st = "established"]
           v == setup_tcp(u)
<1>1. /\ s \in SendState /\ s.tp \in Pcb /\ s.stray = FALSE /\ BoxOK(s.box) /\ InOrder(s.enq)
      /\ s.conn.state = "connect" /\ s.tp.queued <= TCP_SND_BUF
      /\ s.call.op \in {"none", "connect", "write", "delete"}
  BY DEF SendOK, Always, Sound, SendState, PcbOK, Call
<1>2. KeptCall(s)  BY <1>1 DEF SendOK, IdleCall, Sent, AnsweredCall
<1>3. s.call.op = "connect"  BY <1>1, <1>2 DEF KeptCall, StateOf
<1>4. p \in Pcb /\ p.st = "established" /\ p.queued = s.tp.queued  BY <1>1 DEF Pcb
<1>5. u = [s EXCEPT !.tp = p]  BY <1>1 DEF SendState
<1> HIDE DEF p, u
<1>6. /\ u \in SendState /\ u.tp = p /\ u.conn = s.conn /\ u.enq = s.enq
      /\ u.call = s.call /\ u.sem = s.sem /\ u.box = s.box /\ u.base = s.base
      /\ u.stray = FALSE
  BY <1>1, <1>4, <1>5 DEF SendState
<1>7. /\ v \in SendState
      /\ v.conn = u.conn /\ v.call = u.call /\ v.sem = u.sem
      /\ v.box = u.box /\ v.enq = u.enq /\ v.base = u.base /\ v.stray = u.stray
      /\ v.tp.st = u.tp.st /\ v.tp.queued = u.tp.queued
      /\ v.tp.arg = 1 /\ v.tp.sent = 1 /\ v.tp.poll = 1 /\ v.tp.err = 1
  BY <1>6, SetupFields
<1> HIDE DEF v
<1>8. Sound(v)
  <2>1. PcbOK(v)
    <3>1. v.conn.pcb = 1 /\ v.conn.made = 1  BY <1>2, <1>6, <1>7 DEF KeptCall
    <3> QED BY <1>1, <1>4, <1>6, <1>7, <3>1 DEF PcbOK
  <2> QED BY <1>1, <1>6, <1>7, <2>1 DEF Sound
<1>9. "ok" \in Errors  BY DEF Errors
<1>10. Always(Answer(v, "ok")) /\ AnsweredCall(Answer(v, "ok"))
  BY <1>2, <1>3, <1>4, <1>6, <1>7, <1>8, <1>9, AnswerOK DEF KeptCall
<1>11. do_connected(s) = Answer(v, "ok")  BY DEF do_connected, v, u
<1> QED BY <1>10, <1>11 DEF SendOK

(* A connection whose message is being handled stays as it is when the     *)
(* callbacks are set.                                                      *)
LEMMA SetupOK ==
    ASSUME NEW s, Always(s), Sent(s), s.conn.pcb = 1, ~HasApi(s.box)
    PROVE  LET t == setup_tcp(s)
           IN  /\ Always(t) /\ Sent(t) /\ ~HasApi(t.box)
               /\ t.conn = s.conn /\ t.call = s.call /\ t.tp.st = s.tp.st
<1> DEFINE t == setup_tcp(s)
<1>1. /\ s \in SendState /\ s.conn.made = 1 /\ s.tp.st # "gone" /\ s.tp.queued <= TCP_SND_BUF
  BY DEF Always, Sound, PcbOK
<1>2. /\ t \in SendState
      /\ t.conn = s.conn /\ t.call = s.call /\ t.sem = s.sem
      /\ t.box = s.box /\ t.enq = s.enq /\ t.base = s.base /\ t.stray = s.stray
      /\ t.tp.st = s.tp.st /\ t.tp.queued = s.tp.queued
      /\ t.tp.arg = 1 /\ t.tp.sent = 1 /\ t.tp.poll = 1 /\ t.tp.err = 1
  BY <1>1, SetupFields
<1> HIDE DEF t
<1>3. PcbOK(t)  BY <1>1, <1>2 DEF PcbOK
<1>4. Always(t)  BY <1>2, <1>3 DEF Always, Sound
<1>5. Sent(t)  BY <1>2 DEF Sent
<1> QED BY <1>2, <1>4, <1>5 DEF t

(* do_connect answers at once or keeps the message until do_connected.     *)
LEMMA ConnectOK ==
    ASSUME NEW s, Always(s), Sent(s), ~HasApi(s.box), s.call.op = "connect",
           NEW r \in {"ok", "mem"}
    PROVE  SendOK(do_connect(s, r))
<1>1. s.conn.state = "none" /\ s.conn.pcb \in 0 .. 1 /\ s.conn.made = 1 /\ s.sem = 0
      /\ s.base = Len(s.enq)
  BY DEF Sent, Always, Sound, SendState, Conn
<1>2. "clsd" \in Errors /\ "isconn" \in Errors /\ "mem" \in Errors  BY DEF Errors
<1>3. CASE s.conn.pcb = 0
  <2>1. do_connect(s, r) = Ack(s, "clsd")  BY <1>3 DEF do_connect
  <2>2. Always(Ack(s, "clsd")) /\ AnsweredCall(Ack(s, "clsd"))  BY <1>2, AckOK
  <2> QED BY <2>1, <2>2 DEF SendOK
<1>4. CASE s.conn.pcb = 1
  <2> DEFINE t == setup_tcp(s)
  <2>1. /\ Always(t) /\ Sent(t) /\ ~HasApi(t.box)
        /\ t.conn = s.conn /\ t.call = s.call /\ t.tp.st = s.tp.st
    BY <1>4, SetupOK
  <2>2. do_connect(s, r) = IF s.tp.st # "closed" THEN Ack(t, "isconn")
                           ELSE IF r = "mem" THEN Ack(t, "mem")
                           ELSE [t EXCEPT !.tp.st = "syn_sent",
                                          !.conn = [@ EXCEPT !.state = "connect", !.cur = 1]]
    BY <1>1, <1>4 DEF do_connect
  <2>3. t \in SendState  BY <2>1 DEF Always, Sound
  <2>4. /\ t.sem = s.sem /\ t.base = s.base /\ t.enq = s.enq
        /\ t.tp.arg = 1 /\ t.tp.sent = 1 /\ t.tp.poll = 1 /\ t.tp.err = 1
    <3>1. s \in SendState  BY DEF Always, Sound
    <3> QED BY <3>1, SetupFields
  <2> HIDE DEF t
  <2>5. CASE s.tp.st # "closed"
    <3>1. Always(Ack(t, "isconn")) /\ AnsweredCall(Ack(t, "isconn"))  BY <1>2, <2>1, AckOK
    <3> QED BY <2>2, <2>5, <3>1 DEF SendOK
  <2>6. CASE s.tp.st = "closed" /\ r = "mem"
    <3>1. Always(Ack(t, "mem")) /\ AnsweredCall(Ack(t, "mem"))  BY <1>2, <2>1, AckOK
    <3> QED BY <2>2, <2>6, <3>1 DEF SendOK
  <2>7. CASE s.tp.st = "closed" /\ r # "mem"
    <3> DEFINE p == [t.tp EXCEPT !.st = "syn_sent"]
               c == [t.conn EXCEPT !.state = "connect", !.cur = 1]
               u == [t EXCEPT !.tp = p, !.conn = c]
    <3>1. do_connect(s, r) = u
      BY <2>2, <2>3, <2>7 DEF SendState
    <3>2. t.tp \in Pcb /\ t.conn \in Conn  BY <2>3 DEF SendState
    <3>3. /\ p \in Pcb /\ p.st = "syn_sent" /\ p.queued = t.tp.queued
          /\ p.arg = 1 /\ p.sent = 1 /\ p.poll = 1 /\ p.err = 1
      BY <2>4, <3>2 DEF Pcb
    <3>4. c \in Conn /\ c.state = "connect" /\ c.cur = 1 /\ c.pcb = 1 /\ c.made = 1
      <4>1. 1 \in 0 .. 1  OBVIOUS
      <4> QED BY <1>1, <1>4, <2>1, <3>2, <4>1 DEF Conn
    <3> HIDE DEF p, c
    <3>5. /\ u \in SendState /\ u.tp = p /\ u.conn = c /\ u.enq = t.enq /\ u.call = t.call
          /\ u.sem = t.sem /\ u.box = t.box /\ u.base = t.base /\ u.stray = t.stray
      BY <2>3, <3>3, <3>4 DEF SendState
    <3> HIDE DEF u
    <3>6. PcbOK(u)
      <4>1. t.tp.queued <= TCP_SND_BUF  BY <2>1 DEF Always, Sound, PcbOK
      <4> QED BY <3>3, <3>4, <3>5, <4>1 DEF PcbOK
    <3>7. Always(u)  BY <2>1, <3>3, <3>4, <3>5, <3>6 DEF Always, Sound
    <3>8. KeptCall(u)
      BY <1>1, <2>1, <2>4, <3>3, <3>4, <3>5 DEF KeptCall, StateOf, Writable
    <3> QED BY <3>1, <3>7, <3>8 DEF SendOK
  <2> QED BY <2>5, <2>6, <2>7
<1> QED BY <1>1, <1>3, <1>4

(* The message becomes the current one of the netconn.                     *)
LEMMA MadeCurrent ==
    ASSUME NEW s, Always(s), Sent(s), NEW c \in Conn,
           c.state \in {"write", "close"}, c.cur = 1, c.pcb = 1, s.conn.pcb = 1, c.made = 1
    PROVE  LET t == [s EXCEPT !.conn = c]
           IN  /\ Always(t) /\ t.conn = c /\ t.call = s.call /\ t.sem = 0
               /\ t.box = s.box /\ t.base = Len(t.enq)
<1> DEFINE t == [s EXCEPT !.conn = c]
<1>1. s \in SendState /\ s.conn.state = "none"
      /\ s.tp.st # "syn_sent" /\ s.sem = 0 /\ s.base = Len(s.enq)
  BY DEF Always, Sound, Sent
<1>2. /\ t \in SendState /\ t.tp = s.tp /\ t.conn = c /\ t.enq = s.enq /\ t.call = s.call
      /\ t.sem = s.sem /\ t.box = s.box /\ t.base = s.base /\ t.stray = s.stray
  BY <1>1 DEF SendState
<1> HIDE DEF t
<1>3. PcbOK(t)  BY <1>2 DEF Always, Sound, PcbOK
<1>4. Always(t)  BY <1>1, <1>2, <1>3 DEF Always, Sound
<1> QED BY <1>1, <1>2, <1>4 DEF t

(* do_write answers with an error or goes on to do_writemore.              *)
LEMMA WriteOK ==
    ASSUME NEW s, Always(s), Sent(s), ~HasApi(s.box), s.call.op = "write",
           NEW r \in {"ok", "mem"}
    PROVE  SendOK(do_write(s, r))
<1>1. /\ s.conn.state = "none" /\ s.conn.pcb \in 0 .. 1 /\ s.conn.last_err \in Errors
      /\ s.call.len \in Nat /\ s.base \in Nat /\ s.enq \in Seq(Nat)
  BY DEF Sent, Always, Sound, SendState, Conn, Call
<1>2. CASE ERR_IS_FATAL(s.conn.last_err)
  <2>1. do_write(s, r) = Ack(s, s.conn.last_err)  BY <1>2 DEF do_write
  <2>2. s.conn.last_err # "ok"  BY <1>2 DEF ERR_IS_FATAL
  <2>3. Always(Ack(s, s.conn.last_err)) /\ AnsweredCall(Ack(s, s.conn.last_err))
    BY <1>1, <2>2, AckOK
  <2> QED BY <2>1, <2>3 DEF SendOK
<1>3. CASE ~ERR_IS_FATAL(s.conn.last_err) /\ s.conn.pcb = 0
  <2>1. do_write(s, r) = Ack(s, "conn")  BY <1>1, <1>3 DEF do_write
  <2>2. "conn" \in Errors  BY DEF Errors
  <2>3. Always(Ack(s, "conn")) /\ AnsweredCall(Ack(s, "conn"))  BY <2>2, AckOK
  <2> QED BY <2>1, <2>3 DEF SendOK
<1>4. CASE ~ERR_IS_FATAL(s.conn.last_err) /\ s.conn.pcb = 1
  <2> DEFINE c == [s.conn EXCEPT !.state = "write", !.cur = 1, !.off = 0]
             t == [s EXCEPT !.conn = c]
  <2>1. do_write(s, r) = do_writemore(t, r)  BY <1>1, <1>4 DEF do_write
  <2>2. /\ Always(t) /\ t.call = s.call /\ t.conn.made = 1 /\ t.sem = 0
        /\ t.conn.cur = 1 /\ t.conn.state = "write" /\ t.conn.pcb = 1 /\ t.box = s.box
        /\ t.base = Len(t.enq) /\ t.conn.off = 0
    <3>1. s.conn \in Conn /\ s.conn.made = 1  BY DEF Always, Sound, Sent, SendState
    <3>2. 1 \in 0 .. 1  OBVIOUS
    <3>3. /\ c \in Conn /\ c.state = "write" /\ c.cur = 1 /\ c.pcb = 1 /\ c.made = 1 /\ c.off = 0
      BY <1>4, <3>1, <3>2 DEF Conn
    <3> HIDE DEF c
    <3> QED BY <1>4, <3>3, MadeCurrent
  <2> HIDE DEF t
  <2>3. Len(t.enq) = t.base + t.conn.off /\ t.conn.off <= t.call.len
    <3>1. Len(t.enq) \in Nat  BY <2>2 DEF Always, Sound, SendState
    <3> QED BY <1>1, <2>2, <3>1
  <2>4. LET u == do_writemore(t, r) IN Always(u) /\ (KeptCall(u) \/ AnsweredCall(u))
    BY <2>2, <2>3, WriteMore
  <2> QED BY <2>1, <2>4 DEF SendOK
<1> QED BY <1>1, <1>2, <1>3, <1>4

(* do_delconn answers for a netconn that has no pcb any more, or closes.   *)
LEMMA DelconnOK ==
    ASSUME NEW s, Always(s), Sent(s), ~HasApi(s.box), s.call.op = "delete",
           NEW r \in {"ok", "mem"}
    PROVE  SendOK(do_delconn(s, r))
<1>1. s.conn.state = "none" /\ s.conn.pcb \in 0 .. 1
  BY DEF Sent, Always, Sound, SendState, Conn
<1>2. CASE s.conn.pcb = 0
  <2>1. do_delconn(s, r) = Ack(s, "ok")  BY <1>1, <1>2 DEF do_delconn
  <2>2. "ok" \in Errors  BY DEF Errors
  <2>3. Always(Ack(s, "ok")) /\ AnsweredCall(Ack(s, "ok"))  BY <1>2, <2>2, AckOK
  <2> QED BY <2>1, <2>3 DEF SendOK
<1>3. CASE s.conn.pcb = 1
  <2> DEFINE c == [s.conn EXCEPT !.state = "close", !.cur = 1]
             t == [s EXCEPT !.conn = c]
  <2>1. do_delconn(s, r) = do_close_internal(t, r)  BY <1>1, <1>3 DEF do_delconn
  <2>2. /\ Always(t) /\ t.call = s.call /\ t.conn.made = 1 /\ t.sem = 0
        /\ t.conn.cur = 1 /\ t.conn.state = "close" /\ t.conn.pcb = 1 /\ t.box = s.box
        /\ t.base = Len(t.enq)
    <3>1. s.conn \in Conn /\ s.conn.made = 1  BY DEF Always, Sound, Sent, SendState
    <3>2. 1 \in 0 .. 1  OBVIOUS
    <3>3. /\ c \in Conn /\ c.state = "close" /\ c.cur = 1 /\ c.pcb = 1 /\ c.made = 1
      BY <1>3, <3>1, <3>2 DEF Conn
    <3> HIDE DEF c
    <3> QED BY <1>3, <3>3, MadeCurrent
  <2> HIDE DEF t
  <2>3. LET u == do_close_internal(t, r) IN Always(u) /\ (KeptCall(u) \/ AnsweredCall(u))
    BY <2>2, CloseInternal
  <2> QED BY <2>1, <2>3 DEF SendOK
<1> QED BY <1>1, <1>2, <1>3

(* The oldest entry leaves the mailbox.                                    *)
LEMMA BoxTaken ==
    ASSUME NEW b, BoxOK(b), b # <<>>
    PROVE  /\ BoxOK(Tail(b))
           /\ Head(b) = "api" => HasApi(b) /\ ~HasApi(Tail(b))
           /\ Head(b) # "api" => (HasApi(Tail(b)) <=> HasApi(b))
<1> DEFINE t == Tail(b)
<1>1. b \in Seq({"api", "pkt"}) /\ Len(b) \in Nat /\ Len(b) <= TcpipMbox  BY DEF BoxOK
<1>2. /\ t \in Seq({"api", "pkt"}) /\ Len(t) = Len(b) - 1 /\ Len(b) >= 1
      /\ \A i \in 1 .. Len(t) : t[i] = b[i + 1]
      /\ Head(b) = b[1]
  BY <1>1
<1>3. DOMAIN t = 1 .. Len(t) /\ DOMAIN b = 1 .. Len(b)  BY <1>1, <1>2
<1> HIDE DEF t
<1>4. \A i \in DOMAIN t : i + 1 \in DOMAIN b /\ t[i] = b[i + 1] /\ i # 0 /\ i \in Nat
  BY <1>1, <1>2, <1>3
<1>5. \A i \in DOMAIN b : i # 1 => i - 1 \in DOMAIN t /\ t[i - 1] = b[i]
  BY <1>1, <1>2, <1>3
<1>6. 1 \in DOMAIN b  BY <1>1, <1>2, <1>3
<1>7. \A i, j \in DOMAIN t : t[i] = "api" /\ t[j] = "api" => i = j
  <2> SUFFICES ASSUME NEW i \in DOMAIN t, NEW j \in DOMAIN t, t[i] = "api", t[j] = "api"
               PROVE i = j
    OBVIOUS
  <2>1. i + 1 = j + 1  BY <1>4 DEF BoxOK
  <2> QED BY <1>4, <2>1
<1>8. Head(b) = "api" => HasApi(b) /\ ~HasApi(t)
  <2> SUFFICES ASSUME b[1] = "api" PROVE HasApi(b) /\ ~HasApi(t)
    BY <1>2
  <2>1. HasApi(b)  BY <1>6 DEF HasApi
  <2>2. ASSUME NEW i \in DOMAIN t, t[i] = "api" PROVE FALSE
    <3>1. i + 1 = 1  BY <1>4, <1>6, <2>2 DEF BoxOK
    <3> QED BY <1>4, <3>1
  <2> QED BY <2>1, <2>2 DEF HasApi
<1>9. Head(b) # "api" => (HasApi(t) <=> HasApi(b))
  <2> SUFFICES ASSUME b[1] # "api" PROVE HasApi(t) <=> HasApi(b)
    BY <1>2
  <2>1. ASSUME HasApi(t) PROVE HasApi(b)  BY <1>4, <2>1 DEF HasApi
  <2>2. ASSUME HasApi(b) PROVE HasApi(t)
    <3>1. PICK i \in DOMAIN b : b[i] = "api"  BY <2>2 DEF HasApi
    <3>2. i # 1  BY <3>1
    <3> QED BY <1>5, <3>1, <3>2 DEF HasApi
  <2> QED BY <2>1, <2>2
<1>10. HasApi(b) => Len(b) <= InPkts + 1  BY DEF BoxOK
<1>11. ~HasApi(b) => Len(b) <= InPkts  BY DEF BoxOK
<1>12. InPkts \in Nat /\ TcpipMbox \in Nat  BY SendAssumption
<1>13. Len(t) <= TcpipMbox /\ (HasApi(t) => Len(t) <= InPkts + 1) /\ (~HasApi(t) => Len(t) <= InPkts)
  <2>1. Len(t) <= TcpipMbox  BY <1>1, <1>2, <1>12
  <2>2. CASE HasApi(b)
    <3>1. Len(t) <= InPkts  BY <1>1, <1>2, <1>10, <1>12, <2>2
    <3> QED BY <1>1, <1>2, <1>12, <2>1, <3>1
  <2>3. CASE ~HasApi(b)
    <3>1. Len(t) <= InPkts  BY <1>1, <1>2, <1>11, <1>12, <2>3
    <3> QED BY <1>1, <1>2, <1>12, <2>1, <3>1
  <2> QED BY <2>2, <2>3
<1>14. BoxOK(t)  BY <1>2, <1>7, <1>13 DEF BoxOK
<1> QED BY <1>8, <1>9, <1>14 DEF t

(* An entry joins the mailbox at its end.                                  *)
LEMMA BoxAppended ==
    ASSUME NEW b \in Seq({"api", "pkt"}), NEW m \in {"api", "pkt"}
    PROVE  LET t == Append(b, m)
           IN  /\ t \in Seq({"api", "pkt"}) /\ Len(t) = Len(b) + 1
               /\ DOMAIN t = 1 .. Len(b) + 1 /\ DOMAIN b = 1 .. Len(b) /\ Len(b) \in Nat
               /\ t[Len(b) + 1] = m
               /\ \A i \in 1 .. Len(b) : t[i] = b[i]
  OBVIOUS

(* The packets in the mailbox are all of it but the message of the task.   *)
LEMMA Packets ==
    ASSUME NEW b, BoxOK(b)
    PROVE  LET p == Cardinality({i \in DOMAIN b : b[i] = "pkt"})
           IN  (HasApi(b) => p = Len(b) - 1) /\ (~HasApi(b) => p = Len(b))
<1> DEFINE P == {i \in DOMAIN b : b[i] = "pkt"}
<1>1. b \in Seq({"api", "pkt"})  BY DEF BoxOK
<1>2. DOMAIN b = 1 .. Len(b) /\ Len(b) \in Nat /\ \A i \in DOMAIN b : b[i] \in {"api", "pkt"}
  BY <1>1
<1>3. IsFiniteSet(1 .. Len(b)) /\ Cardinality(1 .. Len(b)) = Len(b)
  <2>1. 1 \in Int /\ Len(b) \in Int  BY <1>2
  <2>2. /\ IsFiniteSet(1 .. Len(b))
        /\ Cardinality(1 .. Len(b)) = IF 1 > Len(b) THEN 0 ELSE Len(b) - 1 + 1
    BY <2>1, FS_Interval
  <2> QED BY <1>2, <2>2
<1>4. CASE HasApi(b)
  <2>1. PICK k \in DOMAIN b : b[k] = "api"  BY <1>4 DEF HasApi
  <2>2. P = (1 .. Len(b)) \ {k}
    <3>1. \A i \in DOMAIN b : b[i] = "pkt" <=> i # k  BY <1>2, <2>1 DEF BoxOK
    <3> QED BY <1>2, <3>1
  <2>3. Cardinality((1 .. Len(b)) \ {k}) = Cardinality(1 .. Len(b)) - 1
    BY <1>2, <1>3, <2>1, FS_RemoveElement
  <2>4. Cardinality(P) = Len(b) - 1  BY <1>3, <2>2, <2>3
  <2> QED BY <1>4, <2>4
<1>5. CASE ~HasApi(b)
  <2>1. P = 1 .. Len(b)  BY <1>2, <1>5 DEF HasApi
  <2> QED BY <1>3, <1>5, <2>1
<1> QED BY <1>4, <1>5

(* A packet for which there was a tcpip_msg.                               *)
LEMMA PacketAdded ==
    ASSUME NEW b, BoxOK(b), Len(b) < TcpipMbox,
           Cardinality({i \in DOMAIN b : b[i] = "pkt"}) < InPkts
    PROVE  BoxOK(Append(b, "pkt")) /\ (HasApi(Append(b, "pkt")) <=> HasApi(b))
<1> DEFINE t == Append(b, "pkt")
<1>1. b \in Seq({"api", "pkt"}) /\ InPkts \in Nat /\ TcpipMbox \in Nat
  BY SendAssumption DEF BoxOK
<1>2. /\ t \in Seq({"api", "pkt"}) /\ Len(t) = Len(b) + 1
      /\ DOMAIN t = 1 .. Len(b) + 1 /\ DOMAIN b = 1 .. Len(b) /\ Len(b) \in Nat
      /\ t[Len(b) + 1] = "pkt"
      /\ \A i \in 1 .. Len(b) : t[i] = b[i]
  BY <1>1, BoxAppended
<1> HIDE DEF t
<1>3. \A i \in DOMAIN t : t[i] = "api" => i \in DOMAIN b /\ b[i] = "api"
  BY <1>2
<1>4. \A i \in DOMAIN b : i \in DOMAIN t /\ t[i] = b[i]  BY <1>2
<1>5. HasApi(t) <=> HasApi(b)  BY <1>3, <1>4 DEF HasApi
<1>6. \A i, j \in DOMAIN t : t[i] = "api" /\ t[j] = "api" => i = j  BY <1>3 DEF BoxOK
<1>7. (HasApi(b) => Len(b) - 1 < InPkts) /\ (~HasApi(b) => Len(b) < InPkts)
  BY Packets
<1>8. (HasApi(t) => Len(t) <= InPkts + 1) /\ (~HasApi(t) => Len(t) <= InPkts)
  <2>1. CASE HasApi(b)  BY <1>1, <1>2, <1>5, <1>7, <2>1
  <2>2. CASE ~HasApi(b)  BY <1>1, <1>2, <1>5, <1>7, <2>2
  <2> QED BY <2>1, <2>2
<1>9. Len(t) <= TcpipMbox  BY <1>1, <1>2
<1>10. BoxOK(t)  BY <1>2, <1>6, <1>8, <1>9 DEF BoxOK
<1> QED BY <1>5, <1>10 DEF t

(* The message of the task.                                                *)
LEMMA MessageAdded ==
    ASSUME NEW b, BoxOK(b), ~HasApi(b), Len(b) < TcpipMbox
    PROVE  BoxOK(Append(b, "api")) /\ HasApi(Append(b, "api"))
<1> DEFINE t == Append(b, "api")
<1>1. b \in Seq({"api", "pkt"}) /\ InPkts \in Nat /\ TcpipMbox \in Nat /\ Len(b) <= InPkts
  BY SendAssumption DEF BoxOK
<1>2. /\ t \in Seq({"api", "pkt"}) /\ Len(t) = Len(b) + 1
      /\ DOMAIN t = 1 .. Len(b) + 1 /\ DOMAIN b = 1 .. Len(b) /\ Len(b) \in Nat
      /\ t[Len(b) + 1] = "api"
      /\ \A i \in 1 .. Len(b) : t[i] = b[i]
  BY <1>1, BoxAppended
<1> HIDE DEF t
<1>3. \A i \in DOMAIN b : b[i] # "api"  BY DEF HasApi
<1>4. \A i \in DOMAIN t : t[i] = "api" => i = Len(b) + 1  BY <1>2, <1>3
<1>5. Len(b) + 1 \in DOMAIN t  BY <1>2
<1>6. HasApi(t)  BY <1>2, <1>5 DEF HasApi
<1>7. \A i, j \in DOMAIN t : t[i] = "api" /\ t[j] = "api" => i = j  BY <1>4
<1>8. Len(t) <= TcpipMbox /\ Len(t) <= InPkts + 1  BY <1>1, <1>2
<1>9. BoxOK(t)  BY <1>2, <1>6, <1>7, <1>8 DEF BoxOK
<1> QED BY <1>6, <1>9 DEF t

(* The mailbox changes and nothing else.                                   *)
LEMMA BoxFields ==
    ASSUME NEW s \in SendState, NEW b, BoxOK(b)
    PROVE  LET t == [s EXCEPT !.box = b]
           IN  /\ t \in SendState /\ t.box = b
               /\ t.conn = s.conn /\ t.tp = s.tp /\ t.call = s.call /\ t.sem = s.sem
               /\ t.enq = s.enq /\ t.base = s.base /\ t.stray = s.stray
<1>1. b \in Seq({"api", "pkt"})  BY DEF BoxOK
<1> QED BY <1>1 DEF SendState

(* Packets come and go without a change to the call.                       *)
LEMMA BoxChanged ==
    ASSUME NEW s, SendOK(s), NEW b, BoxOK(b), HasApi(b) <=> HasApi(s.box)
    PROVE  SendOK([s EXCEPT !.box = b])
<1> DEFINE t == [s EXCEPT !.box = b]
<1>1. s \in SendState  BY DEF SendOK, Always, Sound
<1>2. /\ t \in SendState /\ t.box = b
      /\ t.conn = s.conn /\ t.tp = s.tp /\ t.call = s.call /\ t.sem = s.sem
      /\ t.enq = s.enq /\ t.base = s.base /\ t.stray = s.stray
  BY <1>1, BoxFields
<1> SUFFICES SendOK(t)  OBVIOUS
<1> HIDE DEF t
<1>3. Always(t)  BY <1>2 DEF SendOK, Always, Sound, PcbOK
<1>4. CASE IdleCall(s)  BY <1>2, <1>3, <1>4 DEF SendOK, IdleCall
<1>5. CASE Sent(s) /\ HasApi(s.box)  BY <1>2, <1>3, <1>5 DEF SendOK, Sent
<1>6. CASE KeptCall(s)  BY <1>2, <1>3, <1>6 DEF SendOK, KeptCall
<1>7. CASE AnsweredCall(s)  BY <1>2, <1>3, <1>7 DEF SendOK, AnsweredCall
<1> QED BY <1>4, <1>5, <1>6, <1>7 DEF SendOK

(* The other side acknowledges bytes.                                      *)
LEMMA AckedOK ==
    ASSUME NEW s, SendOK(s), NEW n \in 1 .. s.tp.queued
    PROVE  SendOK([s EXCEPT !.tp.queued = @ - n])
<1> DEFINE p == [s.tp EXCEPT !.queued = @ - n]
           t == [s EXCEPT !.tp = p]
<1>1. s \in SendState /\ s.tp \in Pcb /\ s.tp.queued \in Nat /\ s.tp.queued <= TCP_SND_BUF
  BY DEF SendOK, Always, Sound, SendState, Pcb, PcbOK
<1>2. s.tp.queued - n \in Nat /\ s.tp.queued - n <= TCP_SND_BUF /\ s.tp.queued # 0
  BY <1>1, SendAssumption
<1>3. /\ p \in Pcb /\ p.st = s.tp.st /\ p.arg = s.tp.arg /\ p.sent = s.tp.sent
      /\ p.poll = s.tp.poll /\ p.err = s.tp.err /\ p.queued = s.tp.queued - n
  BY <1>1, <1>2 DEF Pcb
<1>4. [s EXCEPT !.tp.queued = @ - n] = t  BY <1>1 DEF SendState
<1> HIDE DEF p
<1>5. /\ t \in SendState /\ t.tp = p
      /\ t.conn = s.conn /\ t.box = s.box /\ t.call = s.call /\ t.sem = s.sem
      /\ t.enq = s.enq /\ t.base = s.base /\ t.stray = s.stray
  BY <1>1, <1>3 DEF SendState
<1> SUFFICES SendOK(t)  BY <1>4
<1> HIDE DEF t
<1>6. s.tp # NoPcb  BY <1>2 DEF NoPcb
<1>7. p.queued <= TCP_SND_BUF  BY <1>2, <1>3
<1>8. PcbOK(t)  BY <1>3, <1>5, <1>6, <1>7 DEF SendOK, Always, Sound, PcbOK
<1>9. Always(t)  BY <1>3, <1>5, <1>8 DEF SendOK, Always, Sound
<1>10. CASE IdleCall(s)  BY <1>5, <1>9, <1>10 DEF SendOK, IdleCall
<1>11. CASE Sent(s) /\ HasApi(s.box)  BY <1>5, <1>9, <1>11 DEF SendOK, Sent
<1>12. CASE KeptCall(s)  BY <1>3, <1>5, <1>9, <1>12 DEF SendOK, KeptCall
<1>13. CASE AnsweredCall(s)  BY <1>5, <1>9, <1>13 DEF SendOK, AnsweredCall
<1> QED BY <1>10, <1>11, <1>12, <1>13 DEF SendOK

(* The initial state.                                                      *)
LEMMA SendStarts == SendInit => SendOK(nc)
<1> SUFFICES ASSUME SendInit PROVE SendOK(nc)
  OBVIOUS
<1> DEFINE bit == 0 .. 1
<1>0. 0 \in bit  OBVIOUS
<1> HIDE DEF bit
<1>1. NoPcb \in Pcb /\ NoPcb.st = "gone" /\ NoPcb.queued = 0  BY <1>0 DEF NoPcb, Pcb, bit
<1>2. /\ FreeConn \in Conn /\ FreeConn.made = 0 /\ FreeConn.state = "none"
      /\ FreeConn.cur = 0 /\ FreeConn.pcb = 0
  BY <1>0 DEF FreeConn, Conn, Errors, bit
<1>3. NoCall \in Call /\ NoCall.op = "none"  BY DEF NoCall, Call, Errors
<1>4. <<>> \in Seq({"api", "pkt"}) /\ <<>> \in Seq(Nat) /\ Len(<<>>) = 0 /\ DOMAIN <<>> = {}
  OBVIOUS
<1>5. /\ nc \in SendState /\ nc.conn = FreeConn /\ nc.tp = NoPcb /\ nc.call = NoCall
      /\ nc.sem = 0 /\ nc.box = <<>> /\ nc.enq = <<>> /\ nc.base = 0 /\ nc.stray = FALSE
  <2> DEFINE E == <<>>
  <2>1. E \in Seq({"api", "pkt"}) /\ E \in Seq(Nat) BY <1>4
  <2> HIDE DEF E
  <2>2. nc = [conn |-> FreeConn, tp |-> NoPcb, call |-> NoCall, sem |-> 0, box |-> E,
          enq |-> E, base |-> 0, stray |-> FALSE,
          writes |-> 0, shortages |-> 0, sockets |-> 0]
    BY DEF SendInit, E
  <2>3. /\ nc \in SendState /\ nc.conn = FreeConn /\ nc.tp = NoPcb /\ nc.call = NoCall
      /\ nc.sem = 0 /\ nc.box = E /\ nc.enq = E /\ nc.base = 0 /\ nc.stray = FALSE
    BY <1>1, <1>2, <1>3, <2>1, <2>2 DEF SendState
  <2> QED BY <2>3 DEF E
<1>6. ~HasApi(nc.box)  BY <1>4, <1>5 DEF HasApi
<1>7. BoxOK(nc.box)  BY <1>4, <1>5, <1>6, SendAssumption DEF BoxOK
<1>8. InOrder(nc.enq)  BY <1>4, <1>5 DEF InOrder
<1>9. PcbOK(nc)  BY <1>1, <1>2, <1>5, SendAssumption DEF PcbOK, Writable
<1>10. Always(nc)  BY <1>1, <1>2, <1>5, <1>7, <1>8, <1>9 DEF Always, Sound
<1>11. IdleCall(nc)  BY <1>2, <1>3, <1>4, <1>5, <1>6 DEF IdleCall
<1> QED BY <1>10, <1>11 DEF SendOK

(* tcpip_thread takes the message of the task.                             *)
LEMMA HandleApiOK == SendOK(nc) /\ HandleApi => SendOK(nc')
<1> SUFFICES ASSUME SendOK(nc), HandleApi PROVE SendOK(nc')
  OBVIOUS
<1>1. PICK r \in Results(nc) :
         LET s == Counting([nc EXCEPT !.box = Tail(@)], r)
         IN  nc' = CASE s.call.op = "connect" -> do_connect(s, r)
                     [] s.call.op = "write" -> do_write(s, r)
                     [] s.call.op = "delete" -> do_delconn(s, r)
  BY DEF HandleApi
<1> DEFINE b == Tail(nc.box)
           u == [nc EXCEPT !.box = b]
           s == Counting(u, r)
<1>2. nc' = CASE s.call.op = "connect" -> do_connect(s, r)
              [] s.call.op = "write" -> do_write(s, r)
              [] s.call.op = "delete" -> do_delconn(s, r)
  BY <1>1
<1>3. r \in {"ok", "mem"}  BY DEF Results
<1>4. nc \in SendState /\ BoxOK(nc.box) /\ nc.box # <<>> /\ Head(nc.box) = "api"
  BY DEF SendOK, Always, Sound, HandleApi
<1>5. BoxOK(b) /\ HasApi(nc.box) /\ ~HasApi(b)  BY <1>4, BoxTaken
<1>6. /\ u \in SendState /\ u.box = b
      /\ u.conn = nc.conn /\ u.tp = nc.tp /\ u.call = nc.call /\ u.sem = nc.sem
      /\ u.enq = nc.enq /\ u.base = nc.base /\ u.stray = nc.stray
  BY <1>4, <1>5, BoxFields
<1> HIDE DEF u
<1>7. /\ s \in SendState
      /\ s.conn = u.conn /\ s.tp = u.tp /\ s.call = u.call /\ s.sem = u.sem
      /\ s.box = u.box /\ s.enq = u.enq /\ s.base = u.base /\ s.stray = u.stray
  BY <1>6, CountingFields
<1> HIDE DEF s
<1>8. Sent(nc) /\ Always(nc)
  BY <1>5 DEF SendOK, IdleCall, KeptCall, AnsweredCall
<1>9. Sent(s) /\ ~HasApi(s.box)  BY <1>5, <1>6, <1>7, <1>8 DEF Sent
<1>10. Always(s)  BY <1>5, <1>6, <1>7, <1>8 DEF Always, Sound, PcbOK
<1>11. s.call.op \in {"connect", "write", "delete"}
  <2>1. s.call.op \in {"none", "connect", "write", "delete"}  BY <1>7 DEF SendState, Call
  <2> QED BY <1>9, <2>1 DEF Sent
<1>12. CASE s.call.op = "connect"
  <2>1. nc' = do_connect(s, r)  BY <1>2, <1>12
  <2> QED BY <1>3, <1>9, <1>10, <1>12, <2>1, ConnectOK
<1>13. CASE s.call.op = "write"
  <2>1. nc' = do_write(s, r)  BY <1>2, <1>13
  <2> QED BY <1>3, <1>9, <1>10, <1>13, <2>1, WriteOK
<1>14. CASE s.call.op = "delete"
  <2>1. nc' = do_delconn(s, r)  BY <1>2, <1>14
  <2> QED BY <1>3, <1>9, <1>10, <1>14, <2>1, DelconnOK
<1> QED BY <1>11, <1>12, <1>13, <1>14

(* A shortage of memory disturbs nothing.                                  *)
LEMMA CountingOK ==
    ASSUME NEW s, SendOK(s), NEW r
    PROVE  SendOK(Counting(s, r))
<1>1. s \in SendState  BY DEF SendOK, Always, Sound
<1> QED BY <1>1, CountingFields, SameOK

(* tcpip_thread takes a packet out of the mailbox.                         *)
LEMMA PacketTaken ==
    ASSUME SendOK(nc), nc.box # <<>>, Head(nc.box) = "pkt"
    PROVE  LET s == [nc EXCEPT !.box = Tail(@)] IN SendOK(s) /\ s.tp = nc.tp
<1> DEFINE b == Tail(nc.box)
<1>1. nc \in SendState /\ BoxOK(nc.box)  BY DEF SendOK, Always, Sound
<1>2. BoxOK(b) /\ (HasApi(b) <=> HasApi(nc.box))  BY <1>1, BoxTaken
<1> HIDE DEF b
<1>3. SendOK([nc EXCEPT !.box = b])  BY <1>2, BoxChanged
<1>4. [nc EXCEPT !.box = b].tp = nc.tp  BY <1>1, <1>2, BoxFields
<1> QED BY <1>3, <1>4 DEF b

(* A packet connects, resets or acknowledges.                              *)
LEMMA HandlePacketOK == SendOK(nc) /\ HandlePacket => SendOK(nc')
<1> SUFFICES ASSUME SendOK(nc), HandlePacket PROVE SendOK(nc')
  OBVIOUS
<1> DEFINE s == [nc EXCEPT !.box = Tail(@)]
<1>1. SendOK(s)  BY PacketTaken DEF HandlePacket
<1>2. \/ s.tp.st = "syn_sent" /\ nc' = do_connected(s)
      \/ s.tp.st \in Writable /\ nc' = err_tcp(s, "rst")
      \/ /\ s.tp.st = "established"
         /\ \E n \in 1 .. s.tp.queued, r \in Results(s) :
              nc' = sent_tcp(Counting([s EXCEPT !.tp.queued = @ - n], r), r)
  BY DEF HandlePacket
<1> HIDE DEF s
<1>3. CASE s.tp.st = "syn_sent" /\ nc' = do_connected(s)  BY <1>1, <1>3, ConnectedOK
<1>4. CASE s.tp.st \in Writable /\ nc' = err_tcp(s, "rst")  BY <1>1, <1>4, ErrOK
<1>5. CASE \E n \in 1 .. s.tp.queued, r \in Results(s) :
              nc' = sent_tcp(Counting([s EXCEPT !.tp.queued = @ - n], r), r)
  <2>1. PICK n \in 1 .. s.tp.queued, r \in Results(s) :
              nc' = sent_tcp(Counting([s EXCEPT !.tp.queued = @ - n], r), r)
    BY <1>5
  <2> DEFINE u == [s EXCEPT !.tp.queued = @ - n]
             v == Counting(u, r)
  <2>2. SendOK(u)  BY <1>1, AckedOK
  <2> HIDE DEF u
  <2>3. SendOK(v)  BY <2>2, CountingOK
  <2>4. nc' = sent_tcp(v, r)  BY <2>1 DEF v, u
  <2> HIDE DEF v
  <2>5. r \in {"ok", "mem"}  BY DEF Results
  <2>6. SendOK(poll_tcp(v, r))  BY <2>3, <2>5, PollOK
  <2> QED BY <2>3, <2>4, <2>6 DEF sent_tcp
<1> QED BY <1>2, <1>3, <1>4, <1>5

(* The other steps of tcpip_thread, and the interrupt.                     *)
LEMMA ThreadOK ==
    SendOK(nc) /\ (OtherPacket \/ tcpip_input \/ Poll \/ GiveUp) => SendOK(nc')
<1> SUFFICES ASSUME SendOK(nc), OtherPacket \/ tcpip_input \/ Poll \/ GiveUp PROVE SendOK(nc')
  OBVIOUS
<1>1. CASE OtherPacket  BY <1>1, PacketTaken DEF OtherPacket
<1>2. CASE tcpip_input
  <2> DEFINE b == Append(nc.box, "pkt")
  <2>1. BoxOK(nc.box)  BY DEF SendOK, Always, Sound
  <2>2. BoxOK(b) /\ (HasApi(b) <=> HasApi(nc.box))  BY <1>2, <2>1, PacketAdded DEF tcpip_input
  <2>3. nc' = [nc EXCEPT !.box = b]  BY <1>2 DEF tcpip_input
  <2> HIDE DEF b
  <2> QED BY <2>2, <2>3, BoxChanged
<1>3. CASE Poll
  <2>1. PICK r \in Results(nc) : nc' = poll_tcp(Counting(nc, r), r)  BY <1>3 DEF Poll
  <2>2. r \in {"ok", "mem"}  BY DEF Results
  <2> QED BY <2>1, <2>2, CountingOK, PollOK
<1>4. CASE GiveUp
  <2>1. nc.tp.err = 1  BY <1>4 DEF GiveUp, SendOK, Always, Sound, PcbOK
  <2>2. nc' = err_tcp(nc, "abrt") /\ nc.tp.st \in Writable  BY <1>4, <2>1 DEF GiveUp
  <2> QED BY <2>2, ErrOK
<1> QED BY <1>1, <1>2, <1>3, <1>4

(* A new netconn, when there is none and so no call either.                *)
LEMMA NewOK == SendOK(nc) /\ netconn_new => SendOK(nc')
<1> SUFFICES ASSUME SendOK(nc), netconn_new PROVE SendOK(nc')
  OBVIOUS
<1> DEFINE c == [FreeConn EXCEPT !.made = 1, !.pcb = 1]
           p == [NoPcb EXCEPT !.st = "closed"]
           q == <<>>
           k == nc.sockets + 1
<1>1. nc' = [nc EXCEPT !.conn = c, !.tp = p, !.enq = q, !.base = 0, !.writes = 0, !.sockets = k]
  BY DEF netconn_new
<1>2. nc \in SendState /\ nc.conn.made = 0 /\ k \in Nat /\ BoxOK(nc.box) /\ nc.stray = FALSE
  BY DEF SendOK, Always, Sound, netconn_new, SendState
<1>3. IdleCall(nc)
  BY <1>2 DEF SendOK, Sent, KeptCall, AnsweredCall
<1>4. c \in Conn /\ c.made = 1 /\ c.pcb = 1 /\ c.state = "none" /\ c.cur = 0
  <2>1. 1 \in 0 .. 1 /\ 0 \in 0 .. 1  OBVIOUS
  <2> QED BY <2>1 DEF Conn, FreeConn, Errors
<1>5. p \in Pcb /\ p.st = "closed" /\ p.queued = 0
  <2>1. 0 \in 0 .. 1  OBVIOUS
  <2> QED BY <2>1 DEF Pcb, NoPcb
<1>6. q \in Seq(Nat) /\ Len(q) = 0 /\ InOrder(q)  BY DEF InOrder
<1> HIDE DEF c, p, q, k
<1>7. /\ nc' \in SendState /\ nc'.conn = c /\ nc'.tp = p /\ nc'.call = nc.call
      /\ nc'.sem = nc.sem /\ nc'.box = nc.box /\ nc'.enq = q /\ nc'.base = 0
      /\ nc'.stray = nc.stray
  BY <1>1, <1>2, <1>4, <1>5, <1>6 DEF SendState
<1>8. PcbOK(nc')  BY <1>4, <1>5, <1>7, SendAssumption DEF PcbOK, Writable
<1>9. Always(nc')  BY <1>2, <1>4, <1>5, <1>6, <1>7, <1>8 DEF Always, Sound
<1>10. IdleCall(nc')  BY <1>3, <1>4, <1>6, <1>7 DEF IdleCall
<1> QED BY <1>9, <1>10 DEF SendOK

(* A call posts its message: the mailbox has a slot for it.                *)
LEMMA ApimsgOK ==
    ASSUME InPkts < TcpipMbox, SendOK(nc),
           NEW op \in {"connect", "write", "delete"}, NEW len \in Nat, tcpip_apimsg(op, len)
    PROVE  SendOK(nc')
<1> DEFINE a == [op |-> op, len |-> len, err |-> "val"]
           s == [nc EXCEPT !.call = a]
           b == Append(nc.box, "api")
           w == IF op = "write" THEN nc.writes + 1 ELSE nc.writes
<1>1. /\ nc \in SendState /\ BoxOK(nc.box) /\ nc.conn.made = 1 /\ nc.call.op = "none"
      /\ nc.writes \in Nat
  BY DEF SendOK, Always, Sound, tcpip_apimsg, SendState
<1>2. IdleCall(nc) /\ Always(nc)
  BY <1>1 DEF SendOK, Sent, KeptCall, AnsweredCall
<1>3. ~HasApi(nc.box)  BY <1>2 DEF IdleCall
<1>4. Len(nc.box) < TcpipMbox
  <2>1. Len(nc.box) <= InPkts /\ nc.box \in Seq({"api", "pkt"})  BY <1>1, <1>3 DEF BoxOK
  <2> QED BY <2>1, SendAssumption
<1>5. s.box = nc.box /\ s.writes = nc.writes  BY <1>1 DEF SendState
<1>6. nc' = [s EXCEPT !.box = Append(@, "api"), !.writes = IF op = "write" THEN @ + 1 ELSE @]
  BY <1>4, <1>5 DEF tcpip_apimsg
<1>7. nc' = [nc EXCEPT !.call = a, !.box = b, !.writes = w]
  BY <1>1, <1>5, <1>6 DEF SendState
<1>8. BoxOK(b) /\ HasApi(b)  BY <1>1, <1>3, <1>4, MessageAdded
<1>9. a \in Call /\ a.op = op  BY DEF Call, Errors
<1>10. w \in Nat  BY <1>1
<1> HIDE DEF a, b, w, s
<1>11. /\ nc' \in SendState /\ nc'.call = a /\ nc'.box = b /\ nc'.conn = nc.conn
       /\ nc'.tp = nc.tp /\ nc'.sem = nc.sem /\ nc'.enq = nc.enq /\ nc'.base = nc.base
       /\ nc'.stray = nc.stray
  <2>1. b \in Seq({"api", "pkt"})  BY <1>8 DEF BoxOK
  <2> QED BY <1>1, <1>7, <1>9, <1>10, <2>1 DEF SendState
<1>12. Always(nc')  BY <1>2, <1>8, <1>11 DEF Always, Sound, PcbOK
<1>13. Sent(nc')  BY <1>1, <1>2, <1>9, <1>11 DEF Sent, IdleCall
<1> QED BY <1>8, <1>11, <1>12, <1>13 DEF SendOK

(* The call returns with the count of the semaphore.                       *)
LEMMA ReturnOK == SendOK(nc) /\ Return => SendOK(nc')
<1> SUFFICES ASSUME SendOK(nc), Return PROVE SendOK(nc')
  OBVIOUS
<1>1. /\ nc \in SendState /\ nc.sem > 0 /\ nc.call.op # "none" /\ nc.conn \in Conn
      /\ nc.call \in Call /\ nc.enq \in Seq(Nat)
  BY DEF SendOK, Always, Sound, Return, SendState
<1>2. AnsweredCall(nc) /\ Always(nc)
  BY <1>1 DEF SendOK, IdleCall, Sent, KeptCall
<1> DEFINE s == [nc EXCEPT !.sem = @ - 1]
           m == Len(nc.enq)
           t == [s EXCEPT !.call = NoCall, !.base = Len(s.enq)]
           v == [nc EXCEPT !.sem = 0, !.call = NoCall, !.base = m]
<1>3. nc.sem - 1 = 0  BY <1>2 DEF AnsweredCall
<1>4. s = [nc EXCEPT !.sem = 0]  BY <1>3
<1>5. s.enq = nc.enq /\ s.call = nc.call  BY <1>1 DEF SendState
<1>6. t = v  BY <1>1, <1>4, <1>5 DEF SendState
<1>7. nc' = IF nc.call.op = "delete" THEN netconn_free(v) ELSE SetSafeErr(v, nc.call.err)
  BY <1>5, <1>6 DEF Return, Finish
<1>8. m \in Nat  BY <1>1
<1>9. NoCall \in Call /\ NoCall.op = "none"  BY DEF NoCall, Call, Errors
<1> HIDE DEF s, t, m
<1>10. /\ v \in SendState /\ v.call = NoCall /\ v.sem = 0 /\ v.base = m /\ v.conn = nc.conn
       /\ v.tp = nc.tp /\ v.box = nc.box /\ v.enq = nc.enq /\ v.stray = nc.stray
  BY <1>1, <1>8, <1>9 DEF SendState
<1> HIDE DEF v
<1>11. Always(v)  BY <1>2, <1>10 DEF Always, Sound, PcbOK
<1>12. IdleCall(v)  BY <1>2, <1>9, <1>10 DEF IdleCall, AnsweredCall, m
<1>13. CASE nc.call.op = "delete"
  <2>1. nc' = [v EXCEPT !.conn = FreeConn, !.stray = @ \/ v.conn.pcb = 1, !.tp = NoPcb]
    BY <1>7, <1>13 DEF netconn_free
  <2>2. v.stray = FALSE /\ v.conn.pcb = 0
    BY <1>2, <1>10, <1>11, <1>13 DEF AnsweredCall, Always, Sound
  <2>3. (v.stray \/ v.conn.pcb = 1) = FALSE  BY <2>2
  <2>4. nc' = [v EXCEPT !.conn = FreeConn, !.stray = FALSE, !.tp = NoPcb]
    BY <2>1, <2>3
  <2>5. NoPcb \in Pcb /\ NoPcb.st = "gone" /\ NoPcb.queued = 0
    <3>1. 0 \in 0 .. 1  OBVIOUS
    <3> QED BY <3>1 DEF NoPcb, Pcb
  <2>6. /\ FreeConn \in Conn /\ FreeConn.made = 0 /\ FreeConn.state = "none"
        /\ FreeConn.cur = 0 /\ FreeConn.pcb = 0
    <3>1. 0 \in 0 .. 1  OBVIOUS
    <3> QED BY <3>1 DEF FreeConn, Conn, Errors
  <2>7. /\ nc' \in SendState /\ nc'.conn = FreeConn /\ nc'.tp = NoPcb /\ nc'.stray = FALSE
        /\ nc'.call = v.call /\ nc'.sem = v.sem /\ nc'.base = v.base
        /\ nc'.box = v.box /\ nc'.enq = v.enq
    BY <1>10, <2>4, <2>5, <2>6 DEF SendState
  <2>8. PcbOK(nc')  BY <2>5, <2>6, <2>7, SendAssumption DEF PcbOK, Writable
  <2>9. Always(nc')  BY <1>11, <2>5, <2>6, <2>7, <2>8 DEF Always, Sound
  <2>10. IdleCall(nc')  BY <1>12, <2>6, <2>7 DEF IdleCall
  <2> QED BY <2>9, <2>10 DEF SendOK
<1>14. CASE nc.call.op # "delete"
  <2> DEFINE f == IF ERR_IS_FATAL(nc.conn.last_err) THEN nc.conn.last_err ELSE nc.call.err
             c == [nc.conn EXCEPT !.last_err = f]
  <2>1. nc' = [v EXCEPT !.conn.last_err = IF ERR_IS_FATAL(@) THEN @ ELSE nc.call.err]
    BY <1>7, <1>14 DEF SetSafeErr
  <2>2. f \in Errors  BY <1>1 DEF Conn, Call
  <2>3. nc' = [v EXCEPT !.conn = c]  BY <1>10, <2>1 DEF SendState
  <2> HIDE DEF f
  <2>4. /\ c \in Conn /\ c.made = nc.conn.made /\ c.state = nc.conn.state /\ c.cur = nc.conn.cur
        /\ c.pcb = nc.conn.pcb
    BY <1>1, <2>2 DEF Conn
  <2> HIDE DEF c
  <2>5. /\ nc' \in SendState /\ nc'.conn = c /\ nc'.tp = v.tp /\ nc'.stray = v.stray
        /\ nc'.call = v.call /\ nc'.sem = v.sem /\ nc'.base = v.base
        /\ nc'.box = v.box /\ nc'.enq = v.enq
    BY <1>10, <2>3, <2>4 DEF SendState
  <2>6. Always(nc')  BY <1>10, <1>11, <2>4, <2>5 DEF Always, Sound, PcbOK
  <2>7. IdleCall(nc')  BY <1>10, <1>12, <2>4, <2>5 DEF IdleCall
  <2> QED BY <2>6, <2>7 DEF SendOK
<1> QED BY <1>13, <1>14

(* Every step preserves the invariant.                                     *)
LEMMA SendStep == InPkts < TcpipMbox /\ SendOK(nc) /\ [SendNext]_sendVars => SendOK(nc')
<1> SUFFICES ASSUME InPkts < TcpipMbox, SendOK(nc), [SendNext]_sendVars PROVE SendOK(nc')
  OBVIOUS
<1>1. CASE HandleApi  BY <1>1, HandleApiOK
<1>2. CASE HandlePacket  BY <1>2, HandlePacketOK
<1>3. CASE OtherPacket \/ tcpip_input \/ Poll \/ GiveUp  BY <1>3, ThreadOK
<1>4. CASE netconn_new  BY <1>4, NewOK
<1>5. CASE netconn_connect
  <2>1. 0 \in Nat /\ "connect" \in {"connect", "write", "delete"}  OBVIOUS
  <2> QED BY <1>5, <2>1, ApimsgOK DEF netconn_connect
<1>6. CASE netconn_write
  <2>1. PICK len \in WriteLens : tcpip_apimsg("write", len)  BY <1>6 DEF netconn_write
  <2>2. len \in Nat /\ "write" \in {"connect", "write", "delete"}  BY SendAssumption
  <2> QED BY <2>1, <2>2, ApimsgOK
<1>7. CASE netconn_delete
  <2>1. 0 \in Nat /\ "delete" \in {"connect", "write", "delete"}  OBVIOUS
  <2> QED BY <1>7, <2>1, ApimsgOK DEF netconn_delete
<1>8. CASE Return  BY <1>8, ReturnOK
<1>9. CASE UNCHANGED sendVars  BY <1>9 DEF sendVars
<1> QED BY <1>1, <1>2, <1>3, <1>4, <1>5, <1>6, <1>7, <1>8, <1>9 DEF SendNext

(* The invariant implies what the run checks.                              *)
LEMMA SendOKExact == SendOK(nc) => SendExact
<1> SUFFICES ASSUME SendOK(nc) PROVE SendExact
  OBVIOUS
<1>1. /\ Always(nc) /\ Sound(nc) /\ PcbOK(nc) /\ nc \in SendState /\ BoxOK(nc.box)
      /\ InOrder(nc.enq) /\ nc.stray = FALSE
  BY DEF SendOK, Always, Sound
<1>2. /\ nc.conn \in Conn /\ nc.tp \in Pcb /\ nc.call \in Call /\ nc.sem \in Nat
      /\ nc.base \in Nat
  BY <1>1 DEF SendState
<1>3. SendTypeOK
  <2>1. /\ nc.conn.made \in 0 .. 1 /\ nc.conn.cur \in 0 .. 1 /\ nc.conn.pcb \in 0 .. 1
        /\ nc.conn.state \in {"none", "connect", "write", "close"}
    BY <1>2 DEF Conn
  <2>2. nc.tp.queued \in 0 .. TCP_SND_BUF
    <3>1. nc.tp.queued \in Nat /\ nc.tp.queued <= TCP_SND_BUF  BY <1>1, <1>2 DEF Pcb, PcbOK
    <3> QED BY <3>1, SendAssumption
  <2>3. Len(nc.box) <= TcpipMbox  BY <1>1 DEF BoxOK
  <2> QED BY <2>1, <2>2, <2>3 DEF SendTypeOK
<1>4. Posted <=> HasApi(nc.box)  BY DEF Posted, HasApi
<1>5. AnsweredOnce
  <2> DEFINE places == <<Posted, Kept, nc.sem = 1>>
  <2>0. places[1] = Posted /\ places[2] = Kept /\ places[3] = (nc.sem = 1)  OBVIOUS
  <2> HIDE DEF places
  <2>1. CASE IdleCall(nc)  BY <1>4, <2>1 DEF IdleCall, AnsweredOnce
  <2>2. CASE ~IdleCall(nc)
    <3>1. nc.call.op # "none"  BY <2>2 DEF SendOK, Sent, KeptCall, AnsweredCall
    <3>2. 1 \in 1 .. 3 /\ 2 \in 1 .. 3 /\ 3 \in 1 .. 3 /\ \A i \in 1 .. 3 : i = 1 \/ i = 2 \/ i = 3
      OBVIOUS
    <3>3. \E i \in 1 .. 3 : places[i] /\ \A j \in 1 .. 3 \ {i} : ~places[j]
      <4>1. CASE Sent(nc) /\ HasApi(nc.box)
        <5>1. Posted /\ ~Kept /\ nc.sem # 1  BY <1>4, <4>1 DEF Sent, Kept
        <5>2. places[1] /\ ~places[2] /\ ~places[3]  BY <2>0, <5>1
        <5> QED BY <3>2, <5>2
      <4>2. CASE KeptCall(nc)
        <5>1. ~Posted /\ nc.sem # 1  BY <1>4, <4>2 DEF KeptCall
        <5>2. Kept  BY <1>1, <4>2 DEF KeptCall, Kept, PcbOK
        <5>3. places[2] /\ ~places[1] /\ ~places[3]  BY <2>0, <5>1, <5>2
        <5> QED BY <3>2, <5>3
      <4>3. CASE AnsweredCall(nc)
        <5>1. ~Posted /\ ~Kept /\ nc.sem = 1  BY <1>4, <4>3 DEF AnsweredCall, Kept
        <5>2. places[3] /\ ~places[1] /\ ~places[2]  BY <2>0, <5>1
        <5> QED BY <3>2, <5>2
      <4> QED BY <2>2, <4>1, <4>2, <4>3 DEF SendOK
    <3> QED BY <3>1, <3>3 DEF AnsweredOnce, places
  <2> QED BY <2>1, <2>2
<1>6. WritesExact
  <2>1. nc.enq = [i \in 1 .. Len(nc.enq) |-> i]  BY <1>1 DEF InOrder
  <2>2. ASSUME nc.conn.state = "write" PROVE Len(nc.enq) = nc.base + nc.conn.off
    <3>1. KeptCall(nc)  BY <2>2 DEF SendOK, IdleCall, Sent, AnsweredCall
    <3>2. nc.call.op = "write"
      <4>1. nc.call.op \in {"none", "connect", "write", "delete"}  BY <1>2 DEF Call
      <4> QED BY <2>2, <3>1, <4>1 DEF KeptCall, StateOf
    <3> QED BY <3>1, <3>2 DEF KeptCall
  <2>3. ASSUME nc.call.op = "write", nc.sem = 1, nc.call.err = "ok"
        PROVE  Len(nc.enq) = nc.base + nc.call.len
    <3>1. AnsweredCall(nc)  BY <2>3 DEF SendOK, IdleCall, Sent, KeptCall
    <3> QED BY <2>3, <3>1 DEF AnsweredCall
  <2> QED BY <2>1, <2>2, <2>3 DEF WritesExact
<1>7. NoStrayPcb
  <2>1. nc.conn.pcb \in 0 .. 1  BY <1>2 DEF Conn
  <2>2. ASSUME nc.conn.made = 0 PROVE nc.tp = NoPcb
    <3>1. nc.conn.pcb # 1  BY <1>1, <2>2 DEF PcbOK
    <3>2. nc.conn.pcb = 0  BY <2>1, <3>1
    <3> QED BY <1>1, <3>2 DEF PcbOK
  <2> QED BY <1>1, <2>2 DEF NoStrayPcb
<1> QED BY <1>3, <1>5, <1>6, <1>7 DEF SendExact

(* For every send buffer, every length written and every number of packets *)
(* smaller than the mailbox of tcpip_thread: each call is answered exactly *)
(* once, the bytes queued are those written, in order and all of them when *)
(* the write succeeds, and no pcb outlives its netconn with callbacks that *)
(* lead to it. The mailbox must be larger because netconn_delete does not  *)
(* look at the result of its message.                                      *)
THEOREM SendSideCorrect == InPkts < TcpipMbox /\ SendSpec => []SendExact
<1>1. ASSUME InPkts < TcpipMbox PROVE SendSpec => []SendExact
  <2>1. SendOK(nc) /\ [SendNext]_sendVars => SendOK(nc)'
    <3>1. SendOK(nc) /\ [SendNext]_sendVars => SendOK(nc')  BY <1>1, SendStep
    <3> QED BY <3>1 DEF SendOK, Always, Sound, PcbOK, IdleCall, Sent, KeptCall, AnsweredCall
  <2> QED BY <2>1, SendStarts, SendOKExact, PTL DEF SendSpec
<1> QED BY <1>1

-----------------------------------------------------------------------------
(* The type of the state of the resolver.                                  *)
DnsEntry ==
    [state : {"unused", "asking", "done"}, numdns : Nat, tmr : Nat, retries : Nat, seqno : Nat,
     ttl : Nat, name : Hosts \cup {Nobody}, addr : Hosts \cup {Nobody},
     arg : Resolvers \cup {Nobody}, left : Nat]
DnsTask ==
    [at : {"idle", "posted", "waiting"}, name : Hosts \cup {Nobody}, err : {"ok", "val", "mem"},
     addr : Hosts \cup {Nobody}, sem : Nat, waited : Nat]
DnsState ==
    [table : [Index -> DnsEntry], seqno : Nat, task : [Resolvers -> DnsTask],
     asked : SUBSET (Index \X Hosts), queries : Nat]

(* What the values of the constants are to be for the parts of DnsExact    *)
(* that depend on them.                                                    *)
NoPrefixes == Confused = {}
NoZeroTtl == 0 \notin Ttls /\ DNS_MAX_TTL \in 1 .. TtlSpace - 1
NoWrap == MaxQueries < SeqSpace

(* Twice the ticks that the tries with one server take, and twice the      *)
(* ticks since an entry was made.                                          *)
Round2 == 2 + (DNS_MAX_RETRIES - 1) * DNS_MAX_RETRIES
Since2(e) == e.numdns * Round2 + 2 + e.retries * (e.retries + 1) - 2 * e.tmr

(* An entry asked for, with the task m that waits for it.                  *)
AskingOK(e, m) ==
    /\ m.at = "waiting" /\ m.sem = 0 /\ m.name = e.name /\ e.name \in Hosts
    /\ e.numdns < Servers /\ e.retries < DNS_MAX_RETRIES /\ e.tmr >= 1
    /\ 2 * m.waited = Since2(e)

(* An answered entry.                                                      *)
DoneOK(e) ==
    /\ NoPrefixes => e.addr = e.name
    /\ NoZeroTtl => e.ttl \in 1 .. DNS_MAX_TTL /\ e.left = e.ttl

QueryOK(e, msgs) ==
    /\ e.state = "asking" => e.arg \in Resolvers /\ AskingOK(e, msgs[e.arg])
    /\ e.state = "done" => DoneOK(e)

(* The message of a task.                                                  *)
MessageOK(m) ==
    /\ m.at # "idle" => m.name \in Hosts
    /\ m.sem \in {0, 1}
    /\ m.at # "waiting" => m.sem = 0
    /\ m.at # "waiting" \/ m.sem = 1 => m.waited = 0
    /\ NoPrefixes /\ m.sem = 1 /\ m.err = "ok" => m.addr = m.name

(* The entries, no two of them for one task; and the tasks, of which one   *)
(* that waits and has not been told has an entry that will tell it.        *)
DnsTable(table, msgs) == \A i \in Index : QueryOK(table[i], msgs)
OneEach(table) ==
    \A i, j \in Index :
        table[i].state = "asking" /\ table[j].state = "asking" /\ table[i].arg = table[j].arg => i = j
Unanswered(m) == m.at = "waiting" /\ m.sem = 0
DnsTasks(table, msgs) ==
    \A t \in Resolvers :
        /\ MessageOK(msgs[t])
        /\ Unanswered(msgs[t]) =>
             \E i \in Index : table[i].state = "asking" /\ table[i].arg = t
Numbered(s) ==
    NoWrap =>
        /\ s.seqno = s.queries /\ s.queries <= MaxQueries
        /\ \A i \in Index : s.table[i].state # "unused" => s.table[i].seqno < s.seqno

(* The inductive invariant: what holds of the resolver between two         *)
(* handlers.                                                               *)
DnsOK(s) ==
    /\ s \in DnsState
    /\ DnsTable(s.table, s.task) /\ OneEach(s.table) /\ DnsTasks(s.table, s.task)
    /\ Numbered(s)

DnsInv == DnsOK(dns)

-----------------------------------------------------------------------------
(* The arithmetic of the tries: the sum of the pauses, what one server     *)
(* takes and what all of them take.                                        *)
LEMMA PausesStep ==
    ASSUME NEW r \in Nat
    PROVE  (r + 1) * (r + 1 + 1) = r * (r + 1) + 2 * (r + 1)
OBVIOUS

LEMMA PausesGrow ==
    ASSUME NEW r \in Nat, NEW m \in Nat, r < m
    PROVE  r * (r + 1) <= (m - 1) * m
<1>1. PICK k \in Nat : m = r + 1 + k
  <2>1. m - (r + 1) \in Nat /\ m = r + 1 + (m - (r + 1))  OBVIOUS
  <2> QED BY <2>1
<1>2. (m - 1) * m = (r + k) * (r + 1 + k)  BY <1>1
<1>3. (r + k) * (r + 1 + k) = r * (r + 1) + (r * k + k * r + k + k * k)  BY <1>1
<1>4. r * k \in Nat /\ k * r \in Nat /\ k * k \in Nat  BY <1>1
<1> QED BY <1>2, <1>3, <1>4, <1>1

LEMMA RoundsGrow ==
    ASSUME NEW n \in Nat, NEW m \in Nat, NEW p \in Nat, n < m
    PROVE  n * p + p <= m * p
<1>1. PICK k \in Nat : m = n + 1 + k
  <2>1. m - (n + 1) \in Nat /\ m = n + 1 + (m - (n + 1))  OBVIOUS
  <2> QED BY <2>1
<1>2. m * p = n * p + p + k * p  BY <1>1
<1>3. k * p \in Nat /\ n * p \in Nat  BY <1>1
<1> QED BY <1>2, <1>3

LEMMA PausesEven ==
    ASSUME NEW m \in Nat \ {0}
    PROVE  2 * ((m * (m - 1)) \div 2) = (m - 1) * m
<1>0. ASSUME NEW x \in Int PROVE (2 * x) \div 2 = x  BY <1>0
<1>1. PICK k \in Nat : m = 2 * k \/ m = 2 * k + 1
  <2>1. m \div 2 \in Nat /\ (m = 2 * (m \div 2) \/ m = 2 * (m \div 2) + 1)  OBVIOUS
  <2> QED BY <2>1
<1>2. CASE m = 2 * k
  <2>1. m * (m - 1) = 2 * (k * (2 * k - 1))  BY <1>1, <1>2
  <2>2. k * (2 * k - 1) \in Int  BY <1>1
  <2>3. (m * (m - 1)) \div 2 = k * (2 * k - 1)  BY <1>0, <2>1, <2>2
  <2> QED BY <1>1, <1>2, <2>3
<1>3. CASE m = 2 * k + 1
  <2>1. m * (m - 1) = 2 * (k * (2 * k + 1))  BY <1>1, <1>3
  <2>2. k * (2 * k + 1) \in Int  BY <1>1
  <2>3. (m * (m - 1)) \div 2 = k * (2 * k + 1)  BY <1>0, <2>1, <2>2
  <2> QED BY <1>1, <1>3, <2>3
<1> QED BY <1>1, <1>2, <1>3

(* What one server takes is a number of ticks.                             *)
LEMMA Round2Nat == Round2 \in Nat /\ Round2 >= 2
<1>1. DNS_MAX_RETRIES \in Nat /\ DNS_MAX_RETRIES - 1 \in Nat  BY DnsAssumption
<1>2. (DNS_MAX_RETRIES - 1) * DNS_MAX_RETRIES \in Nat  BY <1>1
<1> QED BY <1>2 DEF Round2

-----------------------------------------------------------------------------
(* One tick for an entry.                                                  *)
LEMMA UnusedType == Unused \in DnsEntry /\ Unused.state = "unused"
BY DEF Unused, DnsEntry

LEMMA CheckCases ==
    ASSUME NEW e \in DnsEntry
    PROVE  /\ e.state = "unused" => dns_check_entry(e) = e
           /\ e.state = "asking" /\ e.tmr > 1 => dns_check_entry(e) = [e EXCEPT !.tmr = e.tmr - 1]
           /\ Repeats(e) => dns_check_entry(e) =
                [e EXCEPT !.retries = e.retries + 1, !.tmr = e.retries + 1]
           /\ NextServer(e) => dns_check_entry(e) =
                [e EXCEPT !.numdns = e.numdns + 1, !.tmr = 1, !.retries = 0]
           /\ GivesUp(e) => dns_check_entry(e) = Unused
           /\ e.state = "done" =>
                IF (e.ttl - 1) % TtlSpace = 0 THEN dns_check_entry(e) = Unused
                ELSE dns_check_entry(e) =
                       [e EXCEPT !.ttl = (e.ttl - 1) % TtlSpace,
                                 !.left = IF e.left > 0 THEN e.left - 1 ELSE 0]
<1>0. e.tmr \in Nat /\ e.retries \in Nat /\ e.numdns \in Nat /\ Servers \in Nat
      /\ DNS_MAX_RETRIES \in Nat
  BY DnsAssumption DEF DnsEntry
<1> USE DEF dns_check_entry, Repeats, NextServer, GivesUp, Due
<1>1. CASE e.state = "unused"  BY <1>1
<1>2. CASE e.state = "asking" /\ e.tmr > 1  BY <1>0, <1>2
<1>3. CASE Repeats(e)  BY <1>0, <1>3
<1>4. CASE NextServer(e)  BY <1>0, <1>4
<1>5. CASE GivesUp(e)  BY <1>0, <1>5
<1>6. CASE e.state = "done" /\ (e.ttl - 1) % TtlSpace = 0  BY <1>6
<1>7. CASE e.state = "done" /\ (e.ttl - 1) % TtlSpace # 0  BY <1>7
<1> HIDE DEF dns_check_entry, Repeats, NextServer, GivesUp, Due
<1> QED BY <1>1, <1>2, <1>3, <1>4, <1>5, <1>6, <1>7

(* An entry asked for is in exactly one of four cases.                     *)
LEMMA AskingCases ==
    ASSUME NEW e \in DnsEntry, e.state = "asking", e.tmr >= 1, e.retries < DNS_MAX_RETRIES
    PROVE  e.tmr > 1 \/ Repeats(e) \/ NextServer(e) \/ GivesUp(e)
<1>0. e.tmr \in Nat /\ e.retries \in Nat /\ e.numdns \in Nat /\ Servers \in Nat
      /\ DNS_MAX_RETRIES \in Nat
  BY DnsAssumption DEF DnsEntry
<1> QED BY <1>0 DEF Repeats, NextServer, GivesUp, Due

(* While the entry is asked for, it waits as long as its task.             *)
LEMMA AskingTick ==
    ASSUME NEW e \in DnsEntry, NEW m \in DnsTask, e.state = "asking", AskingOK(e, m), ~GivesUp(e)
    PROVE  LET f == dns_check_entry(e)
           IN  /\ f \in DnsEntry /\ f.state = "asking" /\ f.arg = e.arg /\ f.seqno = e.seqno
               /\ AskingOK(f, [m EXCEPT !.waited = m.waited + 1])
<1> DEFINE f == dns_check_entry(e)
           n == [m EXCEPT !.waited = m.waited + 1]
<1>0. /\ e.tmr \in Nat /\ e.retries \in Nat /\ e.numdns \in Nat /\ m.waited \in Nat
      /\ Servers \in Nat \ {0} /\ DNS_MAX_RETRIES \in Nat \ {0} /\ Round2 \in Nat
  BY DnsAssumption, Round2Nat DEF DnsEntry, DnsTask
<1>1. /\ e.numdns < Servers /\ e.retries < DNS_MAX_RETRIES /\ e.tmr >= 1
      /\ 2 * m.waited = Since2(e)
      /\ n.at = "waiting" /\ n.sem = 0 /\ n.name = e.name /\ e.name \in Hosts
      /\ n.waited = m.waited + 1
  BY DEF AskingOK, DnsTask
<1>2. SUFFICES /\ f \in DnsEntry /\ f.state = "asking" /\ f.arg = e.arg /\ f.seqno = e.seqno
               /\ f.name = e.name
               /\ f.numdns < Servers /\ f.retries < DNS_MAX_RETRIES /\ f.tmr >= 1
               /\ Since2(f) = Since2(e) + 2
  <2>1. 2 * n.waited = Since2(e) + 2  BY <1>0, <1>1
  <2> HIDE DEF f, n
  <2>2. AskingOK(f, n)  BY <1>1, <1>2, <2>1 DEF AskingOK
  <2>3. /\ f \in DnsEntry /\ f.state = "asking" /\ f.arg = e.arg /\ f.seqno = e.seqno
        /\ AskingOK(f, n)
    BY <1>2, <2>2
  <2> QED BY <2>3 DEF f, n
<1>3. CASE e.tmr > 1
  <2>1. f = [e EXCEPT !.tmr = e.tmr - 1]  BY <1>3, CheckCases
  <2> HIDE DEF f
  <2>2. /\ f \in DnsEntry /\ f.state = "asking" /\ f.arg = e.arg /\ f.seqno = e.seqno
        /\ f.name = e.name /\ f.numdns = e.numdns /\ f.retries = e.retries /\ f.tmr = e.tmr - 1
    BY <1>0, <1>3, <2>1 DEF DnsEntry
  <2>3. e.numdns * Round2 \in Nat /\ e.retries * (e.retries + 1) \in Nat  BY <1>0
  <2>4. Since2(f) = Since2(e) + 2  BY <1>0, <2>2, <2>3 DEF Since2
  <2> QED BY <1>0, <1>1, <1>3, <2>2, <2>4
<1>4. CASE Repeats(e)
  <2>1. /\ f = [e EXCEPT !.retries = e.retries + 1, !.tmr = e.retries + 1]
        /\ e.tmr = 1 /\ e.retries + 1 < DNS_MAX_RETRIES
    BY <1>4, CheckCases DEF Repeats, Due
  <2> HIDE DEF f
  <2>2. /\ f \in DnsEntry /\ f.state = "asking" /\ f.arg = e.arg /\ f.seqno = e.seqno
        /\ f.name = e.name /\ f.numdns = e.numdns
        /\ f.retries = e.retries + 1 /\ f.tmr = e.retries + 1
    <3>1. e.retries + 1 \in Nat  BY <1>0
    <3>2. f \in DnsEntry  BY <2>1, <3>1 DEF DnsEntry
    <3> QED BY <2>1, <3>2 DEF DnsEntry
  <2>3. e.numdns * Round2 \in Nat /\ e.retries * (e.retries + 1) \in Nat  BY <1>0
  <2>4. f.retries * (f.retries + 1) = e.retries * (e.retries + 1) + 2 * (e.retries + 1)
    BY <1>0, <2>2, PausesStep
  <2>5. Since2(f) = Since2(e) + 2  BY <1>0, <2>1, <2>2, <2>3, <2>4 DEF Since2
  <2> QED BY <1>0, <1>1, <2>1, <2>2, <2>5
<1>5. CASE NextServer(e)
  <2>1. /\ f = [e EXCEPT !.numdns = e.numdns + 1, !.tmr = 1, !.retries = 0]
        /\ e.tmr = 1 /\ e.retries + 1 = DNS_MAX_RETRIES /\ e.numdns + 1 < Servers
    BY <1>5, CheckCases DEF NextServer, Due
  <2> HIDE DEF f
  <2>2. /\ f \in DnsEntry /\ f.state = "asking" /\ f.arg = e.arg /\ f.seqno = e.seqno
        /\ f.name = e.name /\ f.numdns = e.numdns + 1 /\ f.retries = 0 /\ f.tmr = 1
    <3>1. e.numdns + 1 \in Nat /\ 1 \in Nat /\ 0 \in Nat  BY <1>0
    <3>2. f \in DnsEntry  BY <2>1, <3>1 DEF DnsEntry
    <3> QED BY <2>1, <3>2 DEF DnsEntry
  <2>3. e.numdns * Round2 \in Nat /\ e.retries * (e.retries + 1) \in Nat  BY <1>0
  <2>4. Round2 = 2 + e.retries * (e.retries + 1)
    <3>1. DNS_MAX_RETRIES - 1 = e.retries /\ DNS_MAX_RETRIES = e.retries + 1  BY <1>0, <2>1
    <3> QED BY <3>1 DEF Round2
  <2>5. (e.numdns + 1) * Round2 = e.numdns * Round2 + Round2  BY <1>0
  <2>6. Since2(f) = (e.numdns + 1) * Round2 + 2 + 0 * (0 + 1) - 2 * 1  BY <2>2 DEF Since2
  <2>7. Since2(e) = e.numdns * Round2 + 2 + e.retries * (e.retries + 1) - 2 * 1
    BY <2>1 DEF Since2
  <2>8. Since2(f) = Since2(e) + 2  BY <1>0, <2>3, <2>4, <2>5, <2>6, <2>7
  <2> QED BY <1>0, <1>1, <2>1, <2>2, <2>8
<1> QED BY <1>1, <1>3, <1>4, <1>5, AskingCases

(* An answer is kept as long as the server said.                           *)
LEMMA DoneTick ==
    ASSUME NEW e \in DnsEntry, e.state = "done", DoneOK(e)
    PROVE  LET f == dns_check_entry(e)
           IN  /\ f \in DnsEntry
               /\ \/ f.state = "unused"
                  \/ f.state = "done" /\ f.seqno = e.seqno /\ DoneOK(f)
<1> DEFINE f == dns_check_entry(e)
           ttl == (e.ttl - 1) % TtlSpace
           left == IF e.left > 0 THEN e.left - 1 ELSE 0
<1>0. /\ e.ttl \in Nat /\ e.left \in Nat /\ TtlSpace \in Nat \ {0} /\ DNS_MAX_TTL \in Nat
      /\ ttl \in Nat /\ left \in Nat
  BY DnsAssumption DEF DnsEntry
<1>1. CASE ttl = 0
  <2>1. f = Unused  BY <1>1, CheckCases
  <2> QED BY <2>1, UnusedType
<1>2. CASE ttl # 0
  <2>1. f = [e EXCEPT !.ttl = ttl, !.left = left]  BY <1>2, CheckCases
  <2>2. NoZeroTtl => ttl = e.ttl - 1 /\ left = e.left - 1 /\ ttl \in 1 .. DNS_MAX_TTL /\ left = ttl
    <3> SUFFICES ASSUME NoZeroTtl
                 PROVE  ttl = e.ttl - 1 /\ left = e.left - 1 /\ ttl \in 1 .. DNS_MAX_TTL /\ left = ttl
      OBVIOUS
    <3>1. e.ttl \in 1 .. DNS_MAX_TTL /\ e.left = e.ttl /\ DNS_MAX_TTL < TtlSpace
      BY <1>0 DEF DoneOK, NoZeroTtl
    <3>2. e.ttl - 1 \in 0 .. TtlSpace - 1  BY <1>0, <3>1
    <3>3. ttl = e.ttl - 1  BY <1>0, <3>2
    <3>4. left = e.left - 1  BY <1>0, <3>1
    <3> QED BY <1>0, <1>2, <3>1, <3>3, <3>4
  <2> HIDE DEF f, ttl, left
  <2>3. /\ f \in DnsEntry /\ f.state = "done" /\ f.seqno = e.seqno
        /\ f.ttl = ttl /\ f.left = left /\ f.addr = e.addr /\ f.name = e.name
    BY <1>0, <2>1 DEF DnsEntry
  <2>4. DoneOK(f)  BY <2>2, <2>3 DEF DoneOK
  <2> QED BY <2>3, <2>4 DEF f
<1> QED BY <1>1, <1>2

-----------------------------------------------------------------------------
(* A change of one task, and of one entry.                                 *)
LEMMA TaskSet ==
    ASSUME NEW s \in DnsState, NEW t \in Resolvers, NEW n \in DnsTask
    PROVE  LET u == [s EXCEPT !.task[t] = n]
           IN  /\ u \in DnsState /\ u.table = s.table /\ u.seqno = s.seqno
               /\ u.asked = s.asked /\ u.queries = s.queries
               /\ u.task = [s.task EXCEPT ![t] = n]
<1> DEFINE u == [s EXCEPT !.task[t] = n]
<1>1. [s.task EXCEPT ![t] = n] \in [Resolvers -> DnsTask]  BY DEF DnsState
<1>2. u = [s EXCEPT !.task = [s.task EXCEPT ![t] = n]]  BY DEF DnsState
<1> QED BY <1>1, <1>2 DEF DnsState

LEMMA TableSet ==
    ASSUME NEW s \in DnsState, NEW i \in Index, NEW f \in DnsEntry
    PROVE  LET u == [s EXCEPT !.table[i] = f]
           IN  /\ u \in DnsState /\ u.task = s.task /\ u.seqno = s.seqno
               /\ u.asked = s.asked /\ u.queries = s.queries
               /\ u.table = [s.table EXCEPT ![i] = f]
<1> DEFINE u == [s EXCEPT !.table[i] = f]
<1>1. [s.table EXCEPT ![i] = f] \in [Index -> DnsEntry]  BY DEF DnsState
<1>2. u = [s EXCEPT !.table = [s.table EXCEPT ![i] = f]]  BY DEF DnsState
<1> QED BY <1>1, <1>2 DEF DnsState

(* A task is told.                                                         *)
LEMMA ToldIs ==
    ASSUME NEW m \in DnsTask, NEW e \in {"ok", "val", "mem"}, NEW a \in Hosts \cup {Nobody}
    PROVE  LET n == Told(m, e, a)
           IN  /\ n \in DnsTask /\ n.at = m.at /\ n.name = m.name /\ n.err = e /\ n.addr = a
               /\ n.sem = m.sem + 1 /\ n.waited = 0
<1> DEFINE n == Told(m, e, a)
<1>1. m.sem + 1 \in Nat  BY DEF DnsTask
<1>2. n \in DnsTask  BY <1>1 DEF DnsTask, Told
<1> QED BY <1>2 DEF DnsTask, Told

(* A task that no entry is going to tell changes.                          *)
LEMMA TaskOnly ==
    ASSUME NEW s, DnsOK(s), NEW t \in Resolvers, NEW n \in DnsTask, NEW u \in DnsState,
           \A i \in Index : ~(s.table[i].state = "asking" /\ s.table[i].arg = t),
           u.table = s.table, u.seqno = s.seqno, u.queries = s.queries,
           u.task = [s.task EXCEPT ![t] = n], MessageOK(n), ~Unanswered(n)
    PROVE  DnsOK(u)
<1>1. s \in DnsState /\ DnsTable(s.table, s.task) /\ OneEach(s.table)
      /\ DnsTasks(s.table, s.task) /\ Numbered(s)
  BY DEF DnsOK
<1>2. u.task[t] = n /\ \A r \in Resolvers \ {t} : u.task[r] = s.task[r]  BY <1>1 DEF DnsState
<1>3. DnsTable(u.table, u.task)
  <2> SUFFICES ASSUME NEW i \in Index PROVE QueryOK(s.table[i], u.task)  BY DEF DnsTable
  <2>1. QueryOK(s.table[i], s.task)  BY <1>1 DEF DnsTable
  <2>2. s.table[i].state = "asking" => s.table[i].arg \in Resolvers \ {t}
    BY <2>1 DEF QueryOK
  <2> QED BY <1>2, <2>1, <2>2 DEF QueryOK
<1>4. DnsTasks(u.table, u.task)
  <2> SUFFICES ASSUME NEW r \in Resolvers
               PROVE  /\ MessageOK(u.task[r])
                      /\ Unanswered(u.task[r]) =>
                           \E i \in Index : s.table[i].state = "asking" /\ s.table[i].arg = r
    BY DEF DnsTasks
  <2>1. CASE r = t  BY <1>2, <2>1
  <2>2. CASE r # t  BY <1>1, <1>2, <2>2 DEF DnsTasks
  <2> QED BY <2>1, <2>2
<1>5. OneEach(u.table) /\ Numbered(u)  BY <1>1 DEF Numbered
<1> QED BY <1>3, <1>4, <1>5 DEF DnsOK

(* An entry that was asked for is answered or given up, and its task told. *)
Tells(s, i, f, err, a, u) ==
    /\ i \in Index /\ s.table[i].state = "asking"
    /\ f \in DnsEntry /\ f.state # "asking"
    /\ f.state = "done" => DoneOK(f) /\ f.seqno = s.table[i].seqno
    /\ err \in {"ok", "val", "mem"} /\ a \in Hosts \cup {Nobody}
    /\ NoPrefixes /\ err = "ok" => a = s.table[i].name
    /\ u \in DnsState /\ u.seqno = s.seqno /\ u.queries = s.queries
    /\ u.table = [s.table EXCEPT ![i] = f]
    /\ u.task = [s.task EXCEPT ![s.table[i].arg] = Told(s.task[s.table[i].arg], err, a)]

LEMMA EntryTells ==
    ASSUME NEW s, NEW i, NEW f, NEW err, NEW a, NEW u, DnsOK(s), Tells(s, i, f, err, a, u)
    PROVE  DnsOK(u)
<1>0. /\ i \in Index /\ s.table[i].state = "asking" /\ f \in DnsEntry /\ f.state # "asking"
      /\ f.state = "done" => DoneOK(f) /\ f.seqno = s.table[i].seqno
      /\ err \in {"ok", "val", "mem"} /\ a \in Hosts \cup {Nobody}
      /\ NoPrefixes /\ err = "ok" => a = s.table[i].name
      /\ u \in DnsState /\ u.seqno = s.seqno /\ u.queries = s.queries
      /\ u.table = [s.table EXCEPT ![i] = f]
      /\ u.task = [s.task EXCEPT ![s.table[i].arg] = Told(s.task[s.table[i].arg], err, a)]
  BY DEF Tells
<1> USE <1>0
<1> DEFINE t == s.table[i].arg
           m == s.task[t]
           n == Told(m, err, a)
<1>1. s \in DnsState /\ DnsTable(s.table, s.task) /\ OneEach(s.table)
      /\ DnsTasks(s.table, s.task) /\ Numbered(s)
  BY DEF DnsOK
<1>2. t \in Resolvers /\ AskingOK(s.table[i], m)  BY <1>1 DEF DnsTable, QueryOK
<1>3. m \in DnsTask  BY <1>1, <1>2 DEF DnsState
<1>4. m.at = "waiting" /\ m.sem = 0 /\ m.name = s.table[i].name /\ m.name \in Hosts
  BY <1>2 DEF AskingOK
<1>5. /\ n \in DnsTask /\ n.at = "waiting" /\ n.name = m.name /\ n.err = err /\ n.addr = a
      /\ n.sem = 1 /\ n.waited = 0
  <2> HIDE DEF m
  <2>1. /\ n \in DnsTask /\ n.at = m.at /\ n.name = m.name /\ n.err = err /\ n.addr = a
        /\ n.sem = m.sem + 1 /\ n.waited = 0
    BY <1>3, ToldIs
  <2> QED BY <1>4, <2>1
<1>6. MessageOK(n) /\ ~Unanswered(n)  BY <1>4, <1>5 DEF MessageOK, Unanswered
<1> HIDE DEF n
<1>7. /\ u.task[t] = n /\ \A r \in Resolvers \ {t} : u.task[r] = s.task[r]
      /\ u.table[i] = f /\ \A j \in Index \ {i} : u.table[j] = s.table[j]
  BY <1>1, <1>2 DEF DnsState, n
<1>8. \A j \in Index \ {i} : s.table[j].state = "asking" => s.table[j].arg # t
  BY <1>1 DEF OneEach
<1> HIDE DEF t, m
<1>9. DnsTable(u.table, u.task)
  <2> SUFFICES ASSUME NEW j \in Index PROVE QueryOK(u.table[j], u.task)  BY DEF DnsTable
  <2>1. CASE j = i  BY <1>7, <2>1 DEF QueryOK
  <2>2. CASE j # i
    <3>1. QueryOK(s.table[j], s.task) /\ u.table[j] = s.table[j]
      BY <1>1, <1>7, <2>2 DEF DnsTable
    <3>2. s.table[j].state = "asking" => s.table[j].arg \in Resolvers \ {t}
      BY <1>8, <2>2, <3>1 DEF QueryOK
    <3> QED BY <1>7, <3>1, <3>2 DEF QueryOK
  <2> QED BY <2>1, <2>2
<1>10. OneEach(u.table)
  <2>1. \A j \in Index : u.table[j].state = "asking" => j # i /\ u.table[j] = s.table[j]
    BY <1>7
  <2> QED BY <1>1, <2>1 DEF OneEach
<1>11. DnsTasks(u.table, u.task)
  <2> SUFFICES ASSUME NEW r \in Resolvers
               PROVE  /\ MessageOK(u.task[r])
                      /\ Unanswered(u.task[r]) =>
                           \E j \in Index : u.table[j].state = "asking" /\ u.table[j].arg = r
    BY DEF DnsTasks
  <2>1. CASE r = t  BY <1>6, <1>7, <2>1
  <2>2. CASE r # t
    <3>1. /\ MessageOK(s.task[r])
          /\ Unanswered(s.task[r]) =>
               \E j \in Index : s.table[j].state = "asking" /\ s.table[j].arg = r
      BY <1>1 DEF DnsTasks
    <3>2. ASSUME NEW j \in Index, s.table[j].state = "asking", s.table[j].arg = r
          PROVE  u.table[j].state = "asking" /\ u.table[j].arg = r
      BY <1>7, <2>2, <3>2 DEF t
    <3>3. (\E j \in Index : s.table[j].state = "asking" /\ s.table[j].arg = r)
            => \E j \in Index : u.table[j].state = "asking" /\ u.table[j].arg = r
      BY <3>2
    <3>4. u.task[r] = s.task[r]  BY <1>7, <2>2
    <3> QED BY <3>1, <3>3, <3>4, Zenon
  <2> QED BY <2>1, <2>2
<1>12. Numbered(u)
  <2> SUFFICES ASSUME NoWrap
               PROVE  /\ u.seqno = u.queries /\ u.queries <= MaxQueries
                      /\ \A j \in Index : u.table[j].state # "unused" => u.table[j].seqno < u.seqno
    BY DEF Numbered
  <2>1. /\ s.seqno = s.queries /\ s.queries <= MaxQueries
        /\ \A j \in Index : s.table[j].state # "unused" => s.table[j].seqno < s.seqno
    BY <1>1 DEF Numbered
  <2>2. ASSUME NEW j \in Index, u.table[j].state # "unused" PROVE u.table[j].seqno < u.seqno
    <3>1. CASE j = i
      <4>1. f.state = "done"  BY <1>7, <2>2, <3>1 DEF DnsEntry
      <4> QED BY <1>7, <2>1, <3>1, <4>1
    <3>2. CASE j # i  BY <1>7, <2>1, <2>2, <3>2
    <3> QED BY <3>1, <3>2
  <2> QED BY <2>1, <2>2
<1> QED BY <1>9, <1>10, <1>11, <1>12 DEF DnsOK

-----------------------------------------------------------------------------
(* The handlers of tcpip_thread and the calls of the tasks keep it.        *)
LEMMA DnsInitOK == DnsInit => DnsInv
<1> SUFFICES ASSUME DnsInit PROVE DnsOK(dns)  BY DEF DnsInv
<1>1. /\ dns.table = [i \in Index |-> Unused] /\ dns.seqno = 0 /\ dns.queries = 0
      /\ dns.task = [t \in Resolvers |-> Idle] /\ dns.asked = {}
  BY DEF DnsInit
<1>2. Idle \in DnsTask  BY DEF Idle, DnsTask
<1>3. dns \in DnsState  BY <1>1, <1>2, UnusedType DEF DnsInit, DnsState
<1>4. \A i \in Index : dns.table[i].state = "unused"  BY <1>1, UnusedType
<1>5. DnsTable(dns.table, dns.task) /\ OneEach(dns.table)
  BY <1>4 DEF DnsTable, OneEach, QueryOK
<1>6. DnsTasks(dns.table, dns.task)
  <2>1. MessageOK(Idle) /\ ~Unanswered(Idle)  BY DEF MessageOK, Unanswered, Idle
  <2> QED BY <1>1, <2>1 DEF DnsTasks
<1>7. Numbered(dns)  BY <1>1, <1>4, DnsAssumption DEF Numbered
<1> QED BY <1>3, <1>5, <1>6, <1>7 DEF DnsOK

(* An answer, which may be for an earlier query in the entry.              *)
LEMMA RecvOK ==
    ASSUME DnsInv, dns_recv
    PROVE  DnsInv'
<1>1. dns \in DnsState /\ DnsTable(dns.table, dns.task)  BY DEF DnsInv, DnsOK
<1>2. PICK q \in dns.asked, good \in BOOLEAN, ttl \in Ttls :
        /\ dns.table[q[1]].state = "asking"
        /\ dns' = IF good /\ dns_compare_name(dns.table[q[1]].name, q[2])
                  THEN do_dns_found([dns EXCEPT !.table[q[1]] =
                          [dns.table[q[1]] EXCEPT !.state = "done", !.addr = q[2],
                                                  !.ttl = KeptTtl(ttl), !.left = KeptTtl(ttl)]],
                          dns.table[q[1]].arg, q[2])
                  ELSE Flush(do_dns_found(dns, dns.table[q[1]].arg, Nobody), q[1])
  BY DEF dns_recv
<1> DEFINE i == q[1]
           e == dns.table[i]
           t == e.arg
           m == dns.task[t]
<1>3. i \in Index /\ q[2] \in Hosts /\ q[2] # Nobody  BY <1>1, DnsAssumption DEF DnsState
<1>4. e \in DnsEntry /\ e.state = "asking"  BY <1>1, <1>2, <1>3 DEF DnsState
<1>5. t \in Resolvers /\ t # Nobody
  BY <1>1, <1>3, <1>4, DnsAssumption DEF DnsTable, QueryOK
<1>6. m \in DnsTask  BY <1>1, <1>5 DEF DnsState
<1>7. CASE good /\ dns_compare_name(e.name, q[2])
  <2> DEFINE f == [e EXCEPT !.state = "done", !.addr = q[2], !.ttl = KeptTtl(ttl), !.left = KeptTtl(ttl)]
             s == [dns EXCEPT !.table[i] = f]
             n == Told(m, "ok", q[2])
  <2>1. KeptTtl(ttl) \in Nat /\ (NoZeroTtl => KeptTtl(ttl) \in 1 .. DNS_MAX_TTL)
    <3>1. ttl \in Nat /\ DNS_MAX_TTL \in Nat /\ (NoZeroTtl => ttl # 0 /\ DNS_MAX_TTL # 0)
      BY DnsAssumption DEF NoZeroTtl
    <3> QED BY <3>1 DEF KeptTtl
  <2>2. f \in DnsEntry  BY <1>3, <1>4, <2>1 DEF DnsEntry
  <2>3. /\ f.state = "done" /\ f.addr = q[2] /\ f.name = e.name /\ f.ttl = KeptTtl(ttl)
        /\ f.left = KeptTtl(ttl) /\ f.seqno = e.seqno /\ f.arg = e.arg
    BY <1>4 DEF DnsEntry
  <2>4. NoPrefixes => q[2] = e.name  BY <1>7 DEF dns_compare_name, NoPrefixes
  <2> HIDE DEF f
  <2>5. DoneOK(f)  BY <2>1, <2>3, <2>4 DEF DoneOK
  <2>6. /\ s \in DnsState /\ s.task = dns.task /\ s.seqno = dns.seqno
        /\ s.queries = dns.queries /\ s.table = [dns.table EXCEPT ![i] = f]
    BY <1>1, <1>3, <2>2, TableSet
  <2>7. dns' = Wake(s, t, "ok", q[2])  BY <1>2, <1>3, <1>5, <1>7 DEF do_dns_found, f
  <2>8. n \in DnsTask  BY <1>3, <1>6, ToldIs
  <2> HIDE DEF s, i, e, t, m
  <2>9. dns' = [s EXCEPT !.task[t] = n]  BY <2>6, <2>7 DEF Wake, m
  <2>10. /\ dns' \in DnsState /\ dns'.table = s.table /\ dns'.seqno = s.seqno
         /\ dns'.queries = s.queries /\ dns'.task = [s.task EXCEPT ![t] = n]
    <3> HIDE DEF n
    <3> QED BY <1>5, <2>6, <2>8, <2>9, TaskSet
  <2>11. DnsOK(dns)  BY DEF DnsInv
  <2> DEFINE u == dns'
  <2>12. /\ u \in DnsState /\ u.seqno = dns.seqno /\ u.queries = dns.queries
         /\ u.table = [dns.table EXCEPT ![i] = f]
         /\ u.task = [dns.task EXCEPT ![dns.table[i].arg]
                         = Told(dns.task[dns.table[i].arg], "ok", q[2])]
    BY <2>6, <2>10 DEF m, t, e
  <2> HIDE DEF u
  <2>13. Tells(dns, i, f, "ok", q[2], u)
    <3>1. dns.table[i].state = "asking" /\ f.seqno = dns.table[i].seqno
          /\ (NoPrefixes => q[2] = dns.table[i].name)
      BY <1>4, <2>3, <2>4 DEF e
    <3> QED BY <1>3, <2>2, <2>3, <2>5, <2>12, <3>1 DEF Tells
  <2>14. DnsOK(u)  BY <2>11, <2>13, EntryTells
  <2> QED BY <2>14 DEF DnsInv, u
<1>8. CASE ~(good /\ dns_compare_name(e.name, q[2]))
  <2> DEFINE s == Wake(dns, t, "val", Nobody)
             n == Told(m, "val", Nobody)
             u == dns'
  <2>1. u = [s EXCEPT !.table[i] = Unused]  BY <1>2, <1>5, <1>8 DEF do_dns_found, Flush
  <2>2. n \in DnsTask  BY <1>6, ToldIs
  <2>3. s = [dns EXCEPT !.task[t] = n]  BY DEF Wake
  <2>4. Unused \in DnsEntry /\ Unused.state = "unused"  BY UnusedType
  <2> HIDE DEF s, i, e, t, m, n, u
  <2>5. /\ s \in DnsState /\ s.table = dns.table /\ s.seqno = dns.seqno
        /\ s.queries = dns.queries /\ s.task = [dns.task EXCEPT ![t] = n]
    BY <1>1, <1>5, <2>2, <2>3, TaskSet
  <2>6. /\ u \in DnsState /\ u.task = s.task /\ u.seqno = s.seqno
        /\ u.queries = s.queries /\ u.table = [s.table EXCEPT ![i] = Unused]
    BY <1>3, <2>1, <2>4, <2>5, TableSet
  <2>7. /\ u \in DnsState /\ u.seqno = dns.seqno /\ u.queries = dns.queries
        /\ u.table = [dns.table EXCEPT ![i] = Unused]
        /\ u.task = [dns.task EXCEPT ![dns.table[i].arg]
                        = Told(dns.task[dns.table[i].arg], "val", Nobody)]
    BY <2>5, <2>6 DEF n, m, t, e
  <2>8. DnsOK(dns) /\ Tells(dns, i, Unused, "val", Nobody, u)
    <3>1. dns.table[i].state = "asking"  BY <1>4 DEF e
    <3> QED BY <1>3, <2>4, <2>7, <3>1 DEF Tells, DnsInv
  <2>9. DnsOK(u)  BY <2>8, EntryTells
  <2> QED BY <2>9 DEF DnsInv, u
<1> QED BY <1>7, <1>8

(* No entry is going to tell a task that does not wait, or has been told.  *)
LEMMA NotAsking ==
    ASSUME DnsInv, NEW t \in Resolvers, dns.task[t].at # "waiting" \/ dns.task[t].sem # 0
    PROVE  \A i \in Index : ~(dns.table[i].state = "asking" /\ dns.table[i].arg = t)
BY DEF DnsInv, DnsOK, DnsTable, QueryOK, AskingOK

LEMMA CallOK ==
    ASSUME DnsInv, NEW t \in Resolvers, netconn_gethostbyname(t)
    PROVE  DnsInv'
<1>1. dns \in DnsState /\ DnsTasks(dns.table, dns.task) /\ DnsOK(dns)  BY DEF DnsInv, DnsOK
<1>2. dns.task[t].at = "idle"  BY DEF netconn_gethostbyname
<1>3. PICK name \in Hosts :
        dns' = [dns EXCEPT !.task[t] = [dns.task[t] EXCEPT !.at = "posted", !.name = name]]
  BY DEF netconn_gethostbyname
<1> DEFINE m == dns.task[t]
           n == [m EXCEPT !.at = "posted", !.name = name]
           u == dns'
<1>4. m \in DnsTask  BY <1>1 DEF DnsState
<1>5. /\ n \in DnsTask /\ n.at = "posted" /\ n.name = name /\ n.sem = m.sem /\ n.waited = m.waited
  BY <1>4 DEF DnsTask
<1>6. m.sem = 0 /\ m.waited = 0  BY <1>1, <1>2 DEF DnsTasks, MessageOK
<1> HIDE DEF m, n, u
<1>7. MessageOK(n) /\ ~Unanswered(n)  BY <1>5, <1>6 DEF MessageOK, Unanswered
<1>8. \A i \in Index : ~(dns.table[i].state = "asking" /\ dns.table[i].arg = t)
  BY <1>2, NotAsking
<1>9. /\ u \in DnsState /\ u.table = dns.table /\ u.seqno = dns.seqno
      /\ u.queries = dns.queries /\ u.task = [dns.task EXCEPT ![t] = n]
  BY <1>1, <1>3, <1>5, TaskSet DEF u, n, m
<1>10. DnsOK(u)  BY <1>1, <1>5, <1>7, <1>8, <1>9, TaskOnly
<1> QED BY <1>10 DEF DnsInv, u

LEMMA ResolvedOK ==
    ASSUME DnsInv, NEW t \in Resolvers, Resolved(t)
    PROVE  DnsInv'
<1>1. dns \in DnsState /\ DnsTasks(dns.table, dns.task) /\ DnsOK(dns)  BY DEF DnsInv, DnsOK
<1>2. dns.task[t].at = "waiting" /\ dns.task[t].sem > 0  BY DEF Resolved
<1> DEFINE n == [Idle EXCEPT !.sem = dns.task[t].sem - 1]
           u == dns'
<1>3. dns.task[t].sem \in {0, 1}  BY <1>1 DEF DnsTasks, MessageOK
<1>4. dns.task[t].sem = 1 /\ dns.task[t].sem - 1 = 0  BY <1>2, <1>3
<1>5. n \in DnsTask /\ n.at = "idle" /\ n.sem = 0 /\ n.waited = 0
  BY <1>4 DEF DnsTask, Idle
<1>6. u = [dns EXCEPT !.task[t] = n]  BY DEF Resolved
<1> HIDE DEF n, u
<1>7. MessageOK(n) /\ ~Unanswered(n)  BY <1>5 DEF MessageOK, Unanswered
<1>8. \A i \in Index : ~(dns.table[i].state = "asking" /\ dns.table[i].arg = t)
  BY <1>4, NotAsking
<1>9. /\ u \in DnsState /\ u.table = dns.table /\ u.seqno = dns.seqno
      /\ u.queries = dns.queries /\ u.task = [dns.task EXCEPT ![t] = n]
  BY <1>1, <1>5, <1>6, TaskSet
<1>10. DnsOK(u)  BY <1>1, <1>5, <1>7, <1>8, <1>9, TaskOnly
<1> QED BY <1>10 DEF DnsInv, u

(* The first of some entries is one of them.                               *)
LEMMA FirstIn ==
    ASSUME NEW S \in SUBSET Index, S # {}
    PROVE  First(S) \in S
<1>1. S \subseteq Nat  BY DnsAssumption DEF Index
<1>2. \E i \in S : \A j \in S : i <= j  BY <1>1, NatMin
<1> QED BY <1>2 DEF First

(* The entry for a new query.  It is being asked for only if none is       *)
(* unused and none of the answered ones is older than the counter.         *)
LEMMA EntryForIs ==
    ASSUME NEW s \in DnsState
    PROVE  /\ EntryFor(s) \in Index
           /\ s.table[EntryFor(s)].state = "asking" =>
                \A i \in Index : /\ s.table[i].state # "unused"
                                 /\ s.table[i].state = "done" => ~(Age(s, i) > 0)
<1> DEFINE unused == {i \in Index : s.table[i].state = "unused"}
           done == {i \in Index : s.table[i].state = "done" /\ Age(s, i) > 0}
           oldest == {i \in done : \A j \in done : Age(s, i) >= Age(s, j)}
<1>1. EntryFor(s) = IF unused # {} THEN First(unused)
                    ELSE IF done # {} THEN First(oldest) ELSE 1
  BY DEF EntryFor
<1>2. unused \in SUBSET Index /\ done \in SUBSET Index /\ oldest \in SUBSET Index
      /\ oldest \subseteq done /\ 1 \in Index
  BY DnsAssumption DEF Index
<1>3. CASE unused # {}
  <2>1. First(unused) \in unused  BY <1>2, <1>3, FirstIn
  <2>2. EntryFor(s) \in Index /\ s.table[EntryFor(s)].state = "unused"  BY <1>1, <1>3, <2>1
  <2> QED BY <2>2
<1>4. CASE unused = {} /\ done # {}
  <2>1. oldest # {}
    <3> DEFINE T == {s.table[i].seqno : i \in done}
    <3>0. s.seqno \in Nat /\ \A i \in Index : s.table[i].seqno \in Nat  BY DEF DnsState, DnsEntry
    <3>1. T \subseteq Nat /\ T # {}  BY <1>2, <1>4, <3>0
    <3>2. PICK k \in T : \A y \in T : k <= y  BY <3>1, NatMin
    <3>3. PICK i \in done : k = s.table[i].seqno  BY <3>2
    <3>4. ASSUME NEW j \in done PROVE Age(s, i) >= Age(s, j)
      <4>1. s.table[j].seqno \in T  OBVIOUS
      <4>2. s.table[i].seqno <= s.table[j].seqno  BY <3>2, <3>3, <4>1
      <4>3. s.table[i].seqno \in Nat /\ s.table[j].seqno \in Nat  BY <1>2, <3>0, <3>3
      <4> QED BY <3>0, <4>2, <4>3 DEF Age
    <3> QED BY <3>3, <3>4
  <2>2. First(oldest) \in oldest
    <3> HIDE DEF oldest
    <3> QED BY <1>2, <2>1, FirstIn
  <2>3. First(oldest) \in done  BY <1>2, <2>2
  <2>4. EntryFor(s) \in Index /\ s.table[EntryFor(s)].state = "done"
    <3>1. EntryFor(s) = First(oldest)  BY <1>1, <1>4
    <3> QED BY <2>3, <3>1
  <2> QED BY <2>4
<1>5. CASE unused = {} /\ done = {}
  <2>1. EntryFor(s) = 1  BY <1>1, <1>5
  <2> QED BY <1>2, <1>5, <2>1
<1> QED BY <1>3, <1>4, <1>5

(* A query in an entry that is not asked for, for a task that waits now.   *)
Asks(s, i, f, t, n, u) ==
    /\ i \in Index /\ s.table[i].state # "asking" /\ t \in Resolvers
    /\ \A j \in Index : ~(s.table[j].state = "asking" /\ s.table[j].arg = t)
    /\ n \in DnsTask /\ MessageOK(n) /\ n.at = "waiting" /\ n.sem = 0 /\ n.waited = 0
    /\ f \in DnsEntry /\ f.state = "asking" /\ f.arg = t /\ f.name = n.name
    /\ f.numdns = 0 /\ f.retries = 0 /\ f.tmr = 1 /\ f.seqno = s.seqno
    /\ u \in DnsState /\ u.queries = s.queries + 1 /\ s.queries < MaxQueries
    /\ u.seqno = (s.seqno + 1) % SeqSpace
    /\ u.table = [s.table EXCEPT ![i] = f] /\ u.task = [s.task EXCEPT ![t] = n]

LEMMA EntryAsks ==
    ASSUME NEW s, NEW i, NEW f, NEW t, NEW n, NEW u, DnsOK(s), Asks(s, i, f, t, n, u)
    PROVE  DnsOK(u)
<1>0. /\ i \in Index /\ s.table[i].state # "asking" /\ t \in Resolvers
      /\ \A j \in Index : ~(s.table[j].state = "asking" /\ s.table[j].arg = t)
      /\ n \in DnsTask /\ MessageOK(n) /\ n.at = "waiting" /\ n.sem = 0 /\ n.waited = 0
      /\ f \in DnsEntry /\ f.state = "asking" /\ f.arg = t /\ f.name = n.name
      /\ f.numdns = 0 /\ f.retries = 0 /\ f.tmr = 1 /\ f.seqno = s.seqno
      /\ u \in DnsState /\ u.queries = s.queries + 1 /\ s.queries < MaxQueries
      /\ u.seqno = (s.seqno + 1) % SeqSpace
      /\ u.table = [s.table EXCEPT ![i] = f] /\ u.task = [s.task EXCEPT ![t] = n]
  BY DEF Asks
<1> USE <1>0
<1>1. s \in DnsState /\ DnsTable(s.table, s.task) /\ OneEach(s.table)
      /\ DnsTasks(s.table, s.task) /\ Numbered(s)
  BY DEF DnsOK
<1>2. /\ u.task[t] = n /\ \A r \in Resolvers \ {t} : u.task[r] = s.task[r]
      /\ u.table[i] = f /\ \A j \in Index \ {i} : u.table[j] = s.table[j]
  BY <1>1 DEF DnsState
<1>3. AskingOK(f, n)
  <2>1. n.name \in Hosts  BY DEF MessageOK
  <2>2. Since2(f) = 0 * Round2 + 2 + 0 * (0 + 1) - 2 * 1  BY DEF Since2
  <2>3. 2 * n.waited = Since2(f)  BY <2>2, Round2Nat
  <2>4. 0 < Servers /\ 0 < DNS_MAX_RETRIES  BY DnsAssumption
  <2> QED BY <2>1, <2>3, <2>4 DEF AskingOK
<1>4. DnsTable(u.table, u.task)
  <2> SUFFICES ASSUME NEW j \in Index PROVE QueryOK(u.table[j], u.task)  BY DEF DnsTable
  <2>1. CASE j = i  BY <1>2, <1>3, <2>1 DEF QueryOK
  <2>2. CASE j # i
    <3>1. QueryOK(s.table[j], s.task) /\ u.table[j] = s.table[j]
      BY <1>1, <1>2, <2>2 DEF DnsTable
    <3>2. s.table[j].state = "asking" => s.table[j].arg \in Resolvers \ {t}
      BY <3>1 DEF QueryOK
    <3> QED BY <1>2, <3>1, <3>2 DEF QueryOK
  <2> QED BY <2>1, <2>2
<1>5. OneEach(u.table)
  <2>1. \A j \in Index : j # i /\ u.table[j].state = "asking" =>
          /\ u.table[j] = s.table[j] /\ u.table[j].arg # f.arg
    BY <1>2
  <2>2. SUFFICES ASSUME NEW j \in Index, NEW k \in Index, u.table[j].state = "asking",
                        u.table[k].state = "asking", u.table[j].arg = u.table[k].arg
                 PROVE  j = k
    BY DEF OneEach
  <2>3. CASE j = i  BY <1>2, <2>1, <2>2, <2>3
  <2>4. CASE k = i  BY <1>2, <2>1, <2>2, <2>4
  <2>5. CASE j # i /\ k # i  BY <1>1, <1>2, <2>2, <2>5 DEF OneEach
  <2> QED BY <2>3, <2>4, <2>5
<1>6. DnsTasks(u.table, u.task)
  <2> SUFFICES ASSUME NEW r \in Resolvers
               PROVE  /\ MessageOK(u.task[r])
                      /\ Unanswered(u.task[r]) =>
                           \E j \in Index : u.table[j].state = "asking" /\ u.table[j].arg = r
    BY DEF DnsTasks
  <2>1. CASE r = t  BY <1>2, <2>1
  <2>2. CASE r # t
    <3>1. /\ MessageOK(s.task[r])
          /\ Unanswered(s.task[r]) =>
               \E j \in Index : s.table[j].state = "asking" /\ s.table[j].arg = r
      BY <1>1 DEF DnsTasks
    <3>2. ASSUME NEW j \in Index, s.table[j].state = "asking", s.table[j].arg = r
          PROVE  u.table[j].state = "asking" /\ u.table[j].arg = r
      BY <1>2, <3>2
    <3>3. u.task[r] = s.task[r]  BY <1>2, <2>2
    <3> QED BY <3>1, <3>2, <3>3, Zenon
  <2> QED BY <2>1, <2>2
<1>7. Numbered(u)
  <2> SUFFICES ASSUME NoWrap
               PROVE  /\ u.seqno = u.queries /\ u.queries <= MaxQueries
                      /\ \A j \in Index : u.table[j].state # "unused" => u.table[j].seqno < u.seqno
    BY DEF Numbered
  <2>1. /\ s.seqno = s.queries /\ s.queries <= MaxQueries
        /\ \A j \in Index : s.table[j].state # "unused" => s.table[j].seqno < s.seqno
    BY <1>1 DEF Numbered
  <2>2. /\ s.seqno \in Nat /\ s.queries \in Nat /\ MaxQueries \in Nat /\ SeqSpace \in Nat \ {0}
        /\ MaxQueries < SeqSpace /\ \A j \in Index : s.table[j].seqno \in Nat
    BY <1>1, DnsAssumption DEF DnsState, DnsEntry, NoWrap
  <2>3. s.seqno + 1 \in 0 .. SeqSpace - 1  BY <2>1, <2>2
  <2>4. u.seqno = s.seqno + 1
    <3> DEFINE x == s.seqno + 1
    <3>1. x \in 0 .. SeqSpace - 1 /\ u.seqno = x % SeqSpace  BY <2>3
    <3> HIDE DEF x
    <3>2. u.seqno = x  BY <2>2, <3>1
    <3> QED BY <3>2 DEF x
  <2>5. ASSUME NEW j \in Index, u.table[j].state # "unused" PROVE u.table[j].seqno < u.seqno
    <3>1. CASE j = i  BY <1>2, <2>2, <2>4, <3>1
    <3>2. CASE j # i
      <4>1. s.table[j].seqno < s.seqno /\ u.table[j] = s.table[j]  BY <1>2, <2>1, <2>5, <3>2
      <4> QED BY <2>2, <2>4, <4>1
    <3> QED BY <3>1, <3>2
  <2> QED BY <2>1, <2>2, <2>4, <2>5
<1> QED BY <1>4, <1>5, <1>6, <1>7 DEF DnsOK

(* A name is looked up, and then asked for or refused.                     *)
LEMMA LookupOK ==
    ASSUME DnsInv, NEW t \in Resolvers, do_gethostbyname(t)
    PROVE  DnsInv'
<1> DEFINE m == dns.task[t]
           w == [m EXCEPT !.at = "waiting"]
           s == [dns EXCEPT !.task[t].at = "waiting"]
           a == dns_lookup(s, s.task[t].name)
           u == dns'
<1>1. /\ DnsOK(dns) /\ dns \in DnsState /\ DnsTable(dns.table, dns.task)
      /\ DnsTasks(dns.table, dns.task)
  BY DEF DnsInv, DnsOK
<1>2. m.at = "posted"  BY DEF do_gethostbyname
<1>3. \/ a # Nobody /\ u = Wake(s, t, "ok", a)
      \/ a = Nobody /\ dns.queries < MaxQueries /\ u = dns_enqueue(s, t)
  BY DEF do_gethostbyname
<1>4. m \in DnsTask /\ m.name \in Hosts /\ m.sem = 0 /\ m.waited = 0
  <2>1. m \in DnsTask  BY <1>1 DEF DnsState
  <2>2. MessageOK(m)  BY <1>1 DEF DnsTasks
  <2> QED BY <1>2, <2>1, <2>2 DEF MessageOK
<1>5. /\ w \in DnsTask /\ w.at = "waiting" /\ w.name = m.name /\ w.sem = 0 /\ w.waited = 0
  BY <1>4 DEF DnsTask
<1>6. s = [dns EXCEPT !.task[t] = w]  BY <1>1 DEF DnsState
<1>7. \A j \in Index : ~(dns.table[j].state = "asking" /\ dns.table[j].arg = t)
  BY <1>2, NotAsking
<1> HIDE DEF w, s, m
<1>8. /\ s \in DnsState /\ s.table = dns.table /\ s.seqno = dns.seqno
      /\ s.queries = dns.queries /\ s.asked = dns.asked /\ s.task = [dns.task EXCEPT ![t] = w]
  BY <1>1, <1>5, <1>6, TaskSet
<1>9. s.task[t] = w  BY <1>1, <1>8 DEF DnsState
<1>10. ASSUME NEW err \in {"ok", "mem"}, NEW b \in Hosts \cup {Nobody}, u = Wake(s, t, err, b),
              NoPrefixes /\ err = "ok" => b = w.name
       PROVE  DnsInv'
  <2> DEFINE n == Told(w, err, b)
  <2>1. /\ n \in DnsTask /\ n.at = w.at /\ n.name = w.name /\ n.err = err /\ n.addr = b
        /\ n.sem = w.sem + 1 /\ n.waited = 0
    BY <1>5, ToldIs
  <2>2. u = [s EXCEPT !.task[t] = n]  BY <1>9, <1>10 DEF Wake
  <2> HIDE DEF n, u
  <2>3. n.sem = 1 /\ n.at = "waiting" /\ n.name \in Hosts  BY <1>4, <1>5, <2>1
  <2>4. MessageOK(n) /\ ~Unanswered(n)
    BY <1>10, <2>1, <2>3 DEF MessageOK, Unanswered
  <2>5. /\ u \in DnsState /\ u.table = s.table /\ u.seqno = s.seqno
        /\ u.queries = s.queries /\ u.task = [s.task EXCEPT ![t] = n]
    BY <1>8, <2>1, <2>2, TaskSet
  <2>6. u.task = [dns.task EXCEPT ![t] = n]  BY <1>1, <1>8, <2>5 DEF DnsState
  <2>7. DnsOK(u)  BY <1>1, <1>7, <1>8, <2>1, <2>4, <2>5, <2>6, TaskOnly
  <2> QED BY <2>7 DEF DnsInv, u
<1>11. CASE a # Nobody /\ u = Wake(s, t, "ok", a)
  <2>1. /\ Known(s, w.name) # {}
        /\ a = s.table[First(Known(s, w.name))].addr
    BY <1>9, <1>11 DEF dns_lookup
  <2> DEFINE k == First(Known(s, w.name))
  <2>2. k \in Known(s, w.name)  BY <2>1, FirstIn DEF Known
  <2>3. k \in Index /\ dns.table[k].state = "done" /\ dns.table[k].name = w.name
        /\ a = dns.table[k].addr
    BY <1>8, <2>1, <2>2 DEF Known
  <2>4. dns.table[k] \in DnsEntry /\ DoneOK(dns.table[k])
    BY <1>1, <2>3 DEF DnsState, DnsTable, QueryOK
  <2>5. a \in Hosts \cup {Nobody} /\ (NoPrefixes => a = w.name)
    BY <2>3, <2>4 DEF DnsEntry, DoneOK
  <2> HIDE DEF a
  <2> QED BY <1>10, <1>11, <2>5
<1>12. CASE dns.queries < MaxQueries /\ u = dns_enqueue(s, t)
  <2> DEFINE i == EntryFor(s)
  <2>1. i \in Index  BY <1>8, EntryForIs
  <2>2. CASE s.table[i].state = "asking"
    <3>1. u = Wake(s, t, "mem", Nobody)  BY <1>12, <2>2 DEF dns_enqueue
    <3>2. "mem" \in {"ok", "mem"} /\ Nobody \in Hosts \cup {Nobody} /\ "mem" # "ok"  OBVIOUS
    <3> QED BY <1>10, <3>1, <3>2
  <2>3. CASE s.table[i].state # "asking"
    <3> DEFINE f == [Unused EXCEPT !.state = "asking", !.tmr = 1, !.seqno = s.seqno,
                                   !.name = w.name, !.arg = t]
               v == [s EXCEPT !.table[i] = f, !.seqno = (s.seqno + 1) % SeqSpace,
                              !.queries = s.queries + 1]
    <3>1. u = dns_send(v, i)  BY <1>9, <1>12, <2>3 DEF dns_enqueue
    <3>2. w.name \in Hosts /\ s.seqno \in Nat /\ s.queries \in Nat  BY <1>4, <1>5, <1>8 DEF DnsState
    <3>3. /\ f.state = "asking" /\ f.arg = t /\ f.name = w.name /\ f.numdns = 0
          /\ f.retries = 0 /\ f.tmr = 1 /\ f.seqno = s.seqno
      BY DEF Unused
    <3>4. f \in DnsEntry  BY <3>2 DEF Unused, DnsEntry
    <3> HIDE DEF f, i
    <3>5. (s.seqno + 1) % SeqSpace \in Nat /\ s.queries + 1 \in Nat
      BY <3>2, DnsAssumption
    <3>6. [s.table EXCEPT ![i] = f] \in [Index -> DnsEntry]  BY <1>8, <3>4 DEF DnsState
    <3>7. v = [s EXCEPT !.table = [s.table EXCEPT ![i] = f],
                        !.seqno = (s.seqno + 1) % SeqSpace, !.queries = s.queries + 1]
      BY <1>8 DEF DnsState
    <3>8. /\ v.table = [s.table EXCEPT ![i] = f] /\ v.seqno = (s.seqno + 1) % SeqSpace
          /\ v.queries = s.queries + 1 /\ v.task = s.task /\ v.asked = s.asked
      BY <1>8, <3>7 DEF DnsState
    <3>9. v \in DnsState  BY <1>8, <3>5, <3>6, <3>7 DEF DnsState
    <3> HIDE DEF v
    <3>10. v.table[i].name \in Hosts  BY <1>8, <2>1, <3>2, <3>3, <3>8 DEF DnsState
    <3>11. u = [v EXCEPT !.asked = v.asked \cup {<<i, v.table[i].name>>}]  BY <3>1 DEF dns_send
    <3> HIDE DEF u
    <3>12. v.asked \cup {<<i, v.table[i].name>>} \in SUBSET (Index \X Hosts)
      BY <2>1, <3>9, <3>10 DEF DnsState
    <3>13. u \in DnsState /\ u.table = v.table /\ u.seqno = v.seqno /\ u.queries = v.queries
           /\ u.task = v.task
      BY <3>9, <3>11, <3>12 DEF DnsState
    <3>14. MessageOK(w)  BY <1>4, <1>5 DEF MessageOK
    <3>15. Asks(dns, i, f, t, w, u)
      BY <1>5, <1>7, <1>8, <1>12, <2>1, <2>3, <3>3, <3>4, <3>8, <3>13, <3>14 DEF Asks, i
    <3>16. DnsOK(u)  BY <1>1, <3>15, EntryAsks
    <3> QED BY <3>16 DEF DnsInv, u
  <2> QED BY <2>2, <2>3
<1> HIDE DEF a, u
<1> QED BY <1>3, <1>11, <1>12

-----------------------------------------------------------------------------
(* The entries that call back in a tick: one at most for a task.           *)
LEMMA GivenUpIs ==
    ASSUME DnsInv, NEW t \in Resolvers, GivenUp(t) # {}
    PROVE  /\ \E i \in Index : /\ GivesUp(dns.table[i]) /\ dns.table[i].arg = t
                               /\ dns.table[i].state = "asking"
           /\ Cardinality(GivenUp(t)) = 1
<1>1. PICK i \in Index : GivesUp(dns.table[i]) /\ dns.table[i].arg = t  BY DEF GivenUp
<1>2. dns.table[i].state = "asking"  BY <1>1 DEF GivesUp, Due
<1>3. ASSUME NEW j \in GivenUp(t) PROVE j = i
  <2>1. j \in Index /\ GivesUp(dns.table[j]) /\ dns.table[j].arg = t  BY DEF GivenUp
  <2>2. dns.table[j].state = "asking"  BY <2>1 DEF GivesUp, Due
  <2> QED BY <1>1, <1>2, <2>1, <2>2 DEF DnsInv, DnsOK, OneEach
<1>4. GivenUp(t) = {i}  BY <1>1, <1>3 DEF GivenUp
<1>5. Cardinality(GivenUp(t)) = 1  BY <1>4, FS_Singleton
<1> QED BY <1>1, <1>2, <1>5

(* Every task in a tick.                                                   *)
LEMMA TickedIs ==
    ASSUME DnsInv, NEW t \in Resolvers
    PROVE  /\ Ticked(t) \in DnsTask /\ MessageOK(Ticked(t))
           /\ GivenUp(t) # {} => ~Unanswered(Ticked(t))
           /\ GivenUp(t) = {} /\ Unanswered(dns.task[t]) =>
                Ticked(t) = [dns.task[t] EXCEPT !.waited = dns.task[t].waited + 1]
           /\ ~Unanswered(dns.task[t]) => ~Unanswered(Ticked(t))
<1> DEFINE m == dns.task[t]
           n == Ticked(t)
<1>1. m \in DnsTask /\ MessageOK(m)  BY DEF DnsInv, DnsOK, DnsState, DnsTasks
<1>2. m.waited \in Nat /\ m.sem \in Nat  BY <1>1 DEF DnsTask
<1>3. CASE GivenUp(t) # {}
  <2>1. PICK i \in Index : /\ GivesUp(dns.table[i]) /\ dns.table[i].arg = t
                           /\ dns.table[i].state = "asking"
    BY <1>3, GivenUpIs
  <2>2. AskingOK(dns.table[i], m)  BY <2>1 DEF DnsInv, DnsOK, DnsTable, QueryOK
  <2>3. m.at = "waiting" /\ m.sem = 0 /\ m.name \in Hosts  BY <2>2 DEF AskingOK
  <2>4. m.sem + Cardinality(GivenUp(t)) = 1  BY <1>3, <2>3, GivenUpIs
  <2> DEFINE k == Told(m, "val", Nobody)
  <2>5. n = [k EXCEPT !.sem = 1]  BY <1>3, <2>4 DEF Ticked
  <2>6. /\ k \in DnsTask /\ k.at = m.at /\ k.name = m.name /\ k.err = "val"
        /\ k.waited = 0
    BY <1>1, ToldIs
  <2> HIDE DEF k, n
  <2>7. n \in DnsTask /\ n.at = "waiting" /\ n.name = m.name /\ n.err = "val" /\ n.sem = 1
        /\ n.waited = 0
    BY <2>3, <2>5, <2>6 DEF DnsTask
  <2>8. MessageOK(n) /\ ~Unanswered(n)  BY <2>3, <2>7 DEF MessageOK, Unanswered
  <2> QED BY <1>3, <2>7, <2>8 DEF n
<1>4. CASE GivenUp(t) = {} /\ Unanswered(m)
  <2>1. n = [m EXCEPT !.waited = m.waited + 1]  BY <1>4 DEF Ticked, Unanswered
  <2> HIDE DEF n, m
  <2>2. n \in DnsTask /\ n.at = m.at /\ n.name = m.name /\ n.err = m.err /\ n.sem = m.sem
        /\ n.addr = m.addr
    BY <1>1, <1>2, <2>1 DEF DnsTask
  <2>3. MessageOK(n)  BY <1>1, <1>4, <2>2 DEF MessageOK, Unanswered
  <2> QED BY <1>4, <2>1, <2>2, <2>3 DEF n, m
<1>5. CASE GivenUp(t) = {} /\ ~Unanswered(m)
  <2>1. n = m  BY <1>5 DEF Ticked, Unanswered
  <2> QED BY <1>1, <1>5, <2>1
<1> QED BY <1>3, <1>4, <1>5

(* Every entry in a tick.                                                  *)
LEMMA EntryTick ==
    ASSUME DnsInv, NEW i \in Index, NEW msgs \in [Resolvers -> DnsTask],
           \A t \in Resolvers : msgs[t] = Ticked(t)
    PROVE  LET f == dns_check_entry(dns.table[i])
           IN  /\ f \in DnsEntry /\ QueryOK(f, msgs)
               /\ f.state # "unused" => dns.table[i].state # "unused" /\ f.seqno = dns.table[i].seqno
               /\ f.state = "asking" <=>
                    dns.table[i].state = "asking" /\ ~GivesUp(dns.table[i])
               /\ f.state = "asking" => f.arg = dns.table[i].arg
<1> DEFINE e == dns.table[i]
           f == dns_check_entry(e)
<1>1. e \in DnsEntry /\ QueryOK(e, dns.task)  BY DEF DnsInv, DnsOK, DnsState, DnsTable
<1>2. CASE e.state = "unused"
  <2>1. f = e  BY <1>1, <1>2, CheckCases
  <2> QED BY <1>1, <1>2, <2>1 DEF QueryOK
<1>3. CASE e.state = "done"
  <2>1. DoneOK(e)  BY <1>1, <1>3 DEF QueryOK
  <2>2. f \in DnsEntry /\ (f.state = "unused" \/ (f.state = "done" /\ f.seqno = e.seqno /\ DoneOK(f)))
    BY <1>1, <1>3, <2>1, DoneTick
  <2>3. QueryOK(f, msgs)  BY <2>2 DEF QueryOK
  <2> QED BY <1>3, <2>2, <2>3
<1>4. CASE e.state = "asking" /\ GivesUp(e)
  <2>1. f = Unused  BY <1>1, <1>4, CheckCases
  <2>2. f \in DnsEntry /\ f.state = "unused"  BY <2>1, UnusedType
  <2>3. QueryOK(f, msgs)  BY <2>2 DEF QueryOK
  <2> QED BY <1>4, <2>2, <2>3
<1>5. CASE e.state = "asking" /\ ~GivesUp(e)
  <2> DEFINE t == e.arg
             m == dns.task[t]
  <2>1. t \in Resolvers /\ AskingOK(e, m)  BY <1>1, <1>5 DEF QueryOK
  <2>2. m \in DnsTask  BY <2>1 DEF DnsInv, DnsOK, DnsState
  <2>3. Unanswered(m)  BY <2>1 DEF AskingOK, Unanswered
  <2>4. GivenUp(t) = {}
    <3> SUFFICES ASSUME NEW j \in GivenUp(t) PROVE FALSE  OBVIOUS
    <3>1. j \in Index /\ GivesUp(dns.table[j]) /\ dns.table[j].arg = t  BY DEF GivenUp
    <3>2. dns.table[j].state = "asking"  BY <3>1 DEF GivesUp, Due
    <3>3. j = i  BY <1>5, <3>1, <3>2 DEF DnsInv, DnsOK, OneEach
    <3> QED BY <1>5, <3>1, <3>3
  <2>5. msgs[t] = [m EXCEPT !.waited = m.waited + 1]  BY <2>1, <2>3, <2>4, TickedIs
  <2>6. /\ f \in DnsEntry /\ f.state = "asking" /\ f.arg = t /\ f.seqno = e.seqno
        /\ AskingOK(f, [m EXCEPT !.waited = m.waited + 1])
    BY <1>1, <1>5, <2>1, <2>2, AskingTick
  <2> HIDE DEF m
  <2>7. QueryOK(f, msgs)  BY <2>1, <2>5, <2>6 DEF QueryOK
  <2> QED BY <1>5, <2>6, <2>7
<1> QED BY <1>1, <1>2, <1>3, <1>4, <1>5 DEF DnsEntry

LEMMA TmrOK ==
    ASSUME DnsInv, dns_tmr
    PROVE  DnsInv'
<1> DEFINE u == dns'
           asks == {<<i, dns.table[i].name>> : i \in {j \in Index : Repeats(dns.table[j])}}
           msgs == [t \in Resolvers |-> Ticked(t)]
           table == [i \in Index |-> dns_check_entry(dns.table[i])]
<1>1. /\ dns \in DnsState /\ OneEach(dns.table) /\ DnsTasks(dns.table, dns.task)
      /\ DnsTable(dns.table, dns.task) /\ Numbered(dns)
  BY DEF DnsInv, DnsOK
<1>2. u = [dns EXCEPT !.table = table, !.task = msgs, !.asked = dns.asked \cup asks]
  BY DEF dns_tmr
<1>3. msgs \in [Resolvers -> DnsTask] /\ \A t \in Resolvers : msgs[t] = Ticked(t)  BY TickedIs
<1> HIDE DEF msgs
<1>4. \A i \in Index :
        LET f == dns_check_entry(dns.table[i])
        IN  /\ f \in DnsEntry /\ QueryOK(f, msgs)
            /\ f.state # "unused" => dns.table[i].state # "unused" /\ f.seqno = dns.table[i].seqno
            /\ f.state = "asking" <=> dns.table[i].state = "asking" /\ ~GivesUp(dns.table[i])
            /\ f.state = "asking" => f.arg = dns.table[i].arg
  BY <1>3, EntryTick
<1>5. table \in [Index -> DnsEntry] /\ \A i \in Index : table[i] = dns_check_entry(dns.table[i])
  BY <1>4
<1> HIDE DEF table
<1>6. \A i \in Index :
        /\ QueryOK(table[i], msgs)
        /\ table[i].state # "unused" =>
             dns.table[i].state # "unused" /\ table[i].seqno = dns.table[i].seqno
        /\ table[i].state = "asking" <=> dns.table[i].state = "asking" /\ ~GivesUp(dns.table[i])
        /\ table[i].state = "asking" => table[i].arg = dns.table[i].arg
  BY <1>4, <1>5
<1>7. dns.asked \cup asks \in SUBSET (Index \X Hosts)
  <2>1. ASSUME NEW i \in Index, Repeats(dns.table[i]) PROVE dns.table[i].name \in Hosts
    BY <1>1, <2>1 DEF Repeats, Due, DnsTable, QueryOK, AskingOK
  <2>2. asks \in SUBSET (Index \X Hosts)  BY <2>1
  <2> QED BY <1>1, <2>2 DEF DnsState
<1> HIDE DEF asks, u
<1>8. /\ u \in DnsState /\ u.table = table /\ u.task = msgs
      /\ u.seqno = dns.seqno /\ u.queries = dns.queries
  BY <1>1, <1>2, <1>3, <1>5, <1>7 DEF DnsState
<1>9. DnsTable(table, msgs)  BY <1>6 DEF DnsTable
<1>10. OneEach(table)  BY <1>1, <1>6 DEF OneEach
<1>11. DnsTasks(table, msgs)
  <2> SUFFICES ASSUME NEW t \in Resolvers
               PROVE  /\ MessageOK(msgs[t])
                      /\ Unanswered(msgs[t]) =>
                           \E i \in Index : table[i].state = "asking" /\ table[i].arg = t
    BY DEF DnsTasks
  <2>1. MessageOK(msgs[t])  BY <1>3, TickedIs
  <2>2. ASSUME Unanswered(msgs[t])
        PROVE  \E i \in Index : table[i].state = "asking" /\ table[i].arg = t
    <3>1. GivenUp(t) = {} /\ Unanswered(dns.task[t])  BY <1>3, <2>2, TickedIs
    <3>2. PICK i \in Index : dns.table[i].state = "asking" /\ dns.table[i].arg = t
      BY <1>1, <3>1 DEF DnsTasks
    <3>3. ~GivesUp(dns.table[i])  BY <3>1, <3>2 DEF GivenUp
    <3> QED BY <1>6, <3>2, <3>3
  <2> QED BY <2>1, <2>2
<1>12. Numbered(u)
  <2> SUFFICES ASSUME NoWrap
               PROVE  /\ u.seqno = u.queries /\ u.queries <= MaxQueries
                      /\ \A i \in Index : u.table[i].state # "unused" => u.table[i].seqno < u.seqno
    BY DEF Numbered
  <2> QED BY <1>1, <1>6, <1>8 DEF Numbered
<1>13. DnsOK(u)  BY <1>8, <1>9, <1>10, <1>11, <1>12 DEF DnsOK
<1> QED BY <1>13 DEF DnsInv, u

-----------------------------------------------------------------------------
LEMMA DnsNextOK ==
    ASSUME DnsInv, [DnsNext]_dnsVars
    PROVE  DnsInv'
<1>1. CASE dns_tmr  BY <1>1, TmrOK
<1>2. CASE dns_recv  BY <1>2, RecvOK
<1>3. ASSUME NEW t \in Resolvers, netconn_gethostbyname(t) PROVE DnsInv'  BY <1>3, CallOK
<1>4. ASSUME NEW t \in Resolvers, do_gethostbyname(t) PROVE DnsInv'  BY <1>4, LookupOK
<1>5. ASSUME NEW t \in Resolvers, Resolved(t) PROVE DnsInv'  BY <1>5, ResolvedOK
<1>6. CASE UNCHANGED dnsVars
  <2>1. dns' = dns  BY <1>6 DEF dnsVars
  <2> QED BY <2>1 DEF DnsInv
<1> QED BY <1>1, <1>2, <1>3, <1>4, <1>5, <1>6, Zenon DEF DnsNext

(* What the invariant says of the tasks, whatever the constants are.       *)
LEMMA DnsTells ==
    ASSUME DnsInv
    PROVE  DnsTypeOK /\ ToldOnce /\ ToldInTime
<1>1. /\ dns \in DnsState /\ OneEach(dns.table) /\ DnsTasks(dns.table, dns.task)
      /\ DnsTable(dns.table, dns.task)
  BY DEF DnsInv, DnsOK
<1>2. DnsTypeOK  BY <1>1 DEF DnsTypeOK, DnsState, DnsEntry, DnsTask
<1>3. ToldOnce
  <2> SUFFICES ASSUME NEW t \in Resolvers
               PROVE  IF dns.task[t].at = "waiting"
                      THEN dns.task[t].sem + Cardinality(Asking(t)) = 1
                      ELSE dns.task[t].sem = 0 /\ Asking(t) = {}
    BY DEF ToldOnce
  <2>1. /\ MessageOK(dns.task[t])
        /\ Unanswered(dns.task[t]) =>
             \E i \in Index : dns.table[i].state = "asking" /\ dns.table[i].arg = t
    BY <1>1 DEF DnsTasks
  <2>2. dns.task[t].sem \in {0, 1}  BY <2>1 DEF MessageOK
  <2>3. CASE dns.task[t].at = "waiting" /\ dns.task[t].sem = 0
    <3>1. PICK i \in Index : dns.table[i].state = "asking" /\ dns.table[i].arg = t
      BY <2>1, <2>3 DEF Unanswered
    <3>2. Asking(t) = {i}  BY <1>1, <3>1 DEF Asking, OneEach
    <3>3. Cardinality(Asking(t)) = 1  BY <3>2, FS_Singleton
    <3> QED BY <2>3, <3>3
  <2>4. CASE dns.task[t].at # "waiting" \/ dns.task[t].sem # 0
    <3>1. Asking(t) = {}  BY <2>4, NotAsking DEF Asking
    <3>2. Cardinality(Asking(t)) = 0  BY <3>1, FS_EmptySet
    <3>3. dns.task[t].at # "waiting" => dns.task[t].sem = 0  BY <2>1 DEF MessageOK
    <3> QED BY <2>2, <2>4, <3>1, <3>2, <3>3
  <2> QED BY <2>3, <2>4
<1>4. ToldInTime
  <2> DEFINE P == 1 + (DNS_MAX_RETRIES * (DNS_MAX_RETRIES - 1)) \div 2
  <2> SUFFICES ASSUME NEW t \in Resolvers PROVE dns.task[t].waited <= Servers * P
    BY DEF ToldInTime
  <2>1. Servers \in Nat /\ Servers > 0 /\ DNS_MAX_RETRIES \in Nat \ {0} /\ Round2 \in Nat /\ Round2 >= 2
    BY DnsAssumption, Round2Nat
  <2>2. (DNS_MAX_RETRIES * (DNS_MAX_RETRIES - 1)) \div 2 \in Int
    <3> DEFINE x == DNS_MAX_RETRIES * (DNS_MAX_RETRIES - 1)
    <3>1. x \in Int  BY <2>1
    <3> HIDE DEF x
    <3>2. x \div 2 \in Int  BY <3>1
    <3> QED BY <3>2 DEF x
  <2>3. 2 * P = Round2
    <3>1. 2 * ((DNS_MAX_RETRIES * (DNS_MAX_RETRIES - 1)) \div 2)
            = (DNS_MAX_RETRIES - 1) * DNS_MAX_RETRIES
      BY <2>1, PausesEven
    <3> DEFINE x == (DNS_MAX_RETRIES * (DNS_MAX_RETRIES - 1)) \div 2
               y == (DNS_MAX_RETRIES - 1) * DNS_MAX_RETRIES
    <3>2. x \in Int /\ 2 * x = y /\ Round2 = 2 + y /\ P = 1 + x  BY <2>2, <3>1 DEF Round2
    <3> HIDE DEF x, y, P
    <3> QED BY <3>2
  <2>4. P \in Nat
    <3>1. P \in Int  BY <2>2
    <3> HIDE DEF P
    <3> QED BY <2>1, <2>3, <3>1
  <2> HIDE DEF P
  <2>5. dns.task[t] \in DnsTask /\ dns.task[t].waited \in Nat  BY <1>1 DEF DnsState, DnsTask
  <2>6. CASE Unanswered(dns.task[t])
    <3>1. PICK i \in Index : dns.table[i].state = "asking" /\ dns.table[i].arg = t
      BY <1>1, <2>6 DEF DnsTasks
    <3> DEFINE e == dns.table[i]
    <3>2. e \in DnsEntry /\ AskingOK(e, dns.task[t])
      BY <1>1, <3>1 DEF DnsState, DnsTable, QueryOK
    <3>3. e.numdns \in Nat /\ e.retries \in Nat /\ e.tmr \in Nat  BY <3>2 DEF DnsEntry
    <3>4. e.numdns < Servers /\ e.retries < DNS_MAX_RETRIES /\ e.tmr >= 1
          /\ 2 * dns.task[t].waited = Since2(e)
      BY <3>2 DEF AskingOK
    <3> HIDE DEF e
    <3>5. e.retries * (e.retries + 1) <= Round2 - 2
      <4>1. e.retries * (e.retries + 1) <= (DNS_MAX_RETRIES - 1) * DNS_MAX_RETRIES
        BY <2>1, <3>3, <3>4, PausesGrow
      <4>2. (DNS_MAX_RETRIES - 1) * DNS_MAX_RETRIES \in Int  BY <2>1
      <4>3. (DNS_MAX_RETRIES - 1) * DNS_MAX_RETRIES = Round2 - 2  BY <2>1, <4>2 DEF Round2
      <4> QED BY <4>1, <4>3
    <3>6. e.numdns * Round2 + Round2 <= Servers * Round2  BY <2>1, <3>3, <3>4, RoundsGrow
    <3> DEFINE x == e.numdns * Round2
               y == e.retries * (e.retries + 1)
               z == Servers * Round2
               w == dns.task[t].waited
    <3>7. x \in Nat /\ y \in Nat /\ z \in Nat  BY <2>1, <3>3
    <3>8. 2 * w = x + 2 + y - 2 * e.tmr  BY <3>4 DEF Since2
    <3>9. y <= Round2 - 2 /\ x + Round2 <= z /\ w \in Nat  BY <2>5, <3>5, <3>6
    <3>10. z = 2 * (Servers * P)
      <4>1. z = Servers * (2 * P)  BY <2>3
      <4> HIDE DEF z
      <4> QED BY <2>1, <2>4, <4>1
    <3> HIDE DEF x, y, z, w
    <3>11. 2 * w <= z  BY <2>1, <3>3, <3>4, <3>7, <3>8, <3>9
    <3>12. Servers * P \in Nat  BY <2>1, <2>4
    <3> DEFINE v == Servers * P
    <3>13. v \in Nat /\ 2 * w <= 2 * v  BY <3>10, <3>11, <3>12
    <3> HIDE DEF v
    <3>14. w <= v  BY <3>9, <3>13
    <3> QED BY <3>14 DEF w, v
  <2>7. CASE ~Unanswered(dns.task[t])
    <3>1. MessageOK(dns.task[t])  BY <1>1 DEF DnsTasks
    <3>2. dns.task[t].waited = 0  BY <2>7, <3>1 DEF MessageOK, Unanswered
    <3>3. Servers * P \in Nat  BY <2>1, <2>4
    <3> QED BY <3>2, <3>3
  <2> QED BY <2>6, <2>7
<1> QED BY <1>2, <1>3, <1>4

(* And with the conditions.                                                *)
LEMMA DnsGood ==
    ASSUME DnsInv, NoPrefixes, NoZeroTtl, NoWrap
    PROVE  RightAddress /\ NeverStale /\ RefusedOnlyIfFull
<1>1. /\ dns \in DnsState /\ DnsTasks(dns.table, dns.task) /\ DnsTable(dns.table, dns.task)
      /\ Numbered(dns)
  BY DEF DnsInv, DnsOK
<1>2. RightAddress  BY <1>1 DEF RightAddress, DnsTasks, MessageOK
<1>3. NeverStale
  <2> SUFFICES ASSUME NEW i \in Index, dns.table[i].state = "done" PROVE dns.table[i].left > 0
    BY DEF NeverStale
  <2>1. DoneOK(dns.table[i])  BY <1>1 DEF DnsTable, QueryOK
  <2>2. DNS_MAX_TTL \in Nat  BY DnsAssumption
  <2> QED BY <2>1, <2>2 DEF DoneOK
<1>4. RefusedOnlyIfFull
  <2> SUFFICES ASSUME dns.table[EntryFor(dns)].state = "asking", NEW i \in Index
               PROVE  dns.table[i].state = "asking"
    BY DEF RefusedOnlyIfFull
  <2>1. /\ dns.table[i].state # "unused"
        /\ dns.table[i].state = "done" => ~(Age(dns, i) > 0)
    BY <1>1, EntryForIs
  <2>2. dns.table[i] \in DnsEntry /\ dns.seqno \in Nat  BY <1>1 DEF DnsState
  <2>3. dns.table[i].seqno < dns.seqno /\ dns.table[i].seqno \in Nat
    BY <1>1, <2>1, <2>2 DEF Numbered, DnsEntry
  <2>4. Age(dns, i) > 0  BY <2>2, <2>3 DEF Age
  <2> QED BY <2>1, <2>2, <2>4 DEF DnsEntry
<1> QED BY <1>2, <1>3, <1>4

(* Every task that asks for a name is told exactly once, by an entry that  *)
(* knows its message as long as the task waits and no longer, and not      *)
(* later than all tries with all servers take (dns_check_entry, dns_recv   *)
(* and do_gethostbyname), whatever the servers say and when.               *)
THEOREM ResolverTells == DnsSpec => [](DnsTypeOK /\ ToldOnce /\ ToldInTime)
<1>1. DnsInit => DnsInv  BY DnsInitOK
<1>2. DnsInv /\ [DnsNext]_dnsVars => DnsInv'  BY DnsNextOK
<1>3. DnsInv => DnsTypeOK /\ ToldOnce /\ ToldInTime  BY DnsTells
<1> QED BY <1>1, <1>2, <1>3, PTL DEF DnsSpec

(* When besides no name begins another (dns_compare_name), no server says  *)
(* a time to live of zero and the counter of the entries does not wrap     *)
(* round, a task is told the address of the host it asked for, no address  *)
(* is kept too long and no query is refused while there is an entry.       *)
THEOREM ResolverCorrect == NoPrefixes /\ NoZeroTtl /\ NoWrap /\ DnsSpec => []DnsExact
<1> SUFFICES ASSUME NoPrefixes /\ NoZeroTtl /\ NoWrap PROVE DnsSpec => []DnsExact
  OBVIOUS
<1>1. DnsInit => DnsInv  BY DnsInitOK
<1>2. DnsInv /\ [DnsNext]_dnsVars => DnsInv'  BY DnsNextOK
<1>3. DnsInv => DnsExact  BY DnsTells, DnsGood DEF DnsExact
<1> QED BY <1>1, <1>2, <1>3, PTL DEF DnsSpec
=============================================================================

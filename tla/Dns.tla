-------------------------------- MODULE Dns --------------------------------
(***************************************************************************)
(* Resolving a name: netconn_gethostbyname (api_lib.c), do_gethostbyname   *)
(* and do_dns_found (api_msg.c) and the resolver of lwIP (core/dns.c).     *)
(*                                                                         *)
(* A task posts a message that lies on its stack to tcpip_thread and waits *)
(* on a semaphore that lies there too.  The resolver keeps the pointer in  *)
(* its table until an answer comes or the last server has been asked too   *)
(* often.  The number of the table entry is the number of the query, so    *)
(* answers that come late meet another query in the same entry.  Queries   *)
(* and answers are lost, delayed and repeated.  A handler of tcpip_thread  *)
(* is one step.                                                            *)
(***************************************************************************)
EXTENDS Integers, FiniteSets

CONSTANTS
    Resolvers,         \* the tasks that resolve names
    Hosts,             \* host names
    DNS_TABLE_SIZE,
    DNS_MAX_RETRIES,
    Servers,           \* servers known
    DNS_MAX_TTL,
    Ttls,              \* times to live in answers, in seconds
    TtlSpace,          \* values of the counter of the time to live (2^32)
    SeqSpace,          \* values of dns_seqno (256)
    Confused,          \* pairs of names that dns_compare_name takes for
                       \* equal: the one answered begins the one asked for
    MEMP_NUM_TCPIP_MSG_API,
    MaxQueries         \* bound: entries made

Nobody == "nobody"

ASSUME DnsAssumption ==
    /\ DNS_TABLE_SIZE \in Nat \ {0} /\ DNS_MAX_RETRIES \in Nat \ {0}
    /\ Servers \in Nat \ {0} /\ DNS_MAX_TTL \in Nat
    /\ Ttls \subseteq Nat /\ TtlSpace \in Nat \ {0} /\ SeqSpace \in Nat \ {0}
    /\ Confused \subseteq Hosts \X Hosts /\ MaxQueries \in Nat
    /\ Nobody \notin Resolvers \cup Hosts
    \* no message of a task is refused
    /\ IsFiniteSet(Resolvers) /\ Cardinality(Resolvers) <= MEMP_NUM_TCPIP_MSG_API

VARIABLE dns

dnsVars == <<dns>>

Index == 1 .. DNS_TABLE_SIZE

(* The other fields of an unused entry are not read.                       *)
Unused == [state |-> "unused", numdns |-> 0, tmr |-> 0, retries |-> 0, seqno |-> 0,
           ttl |-> 0, name |-> Nobody, addr |-> Nobody, arg |-> Nobody, left |-> 0]

Idle == [at |-> "idle", name |-> Nobody, err |-> "ok", addr |-> Nobody, sem |-> 0, waited |-> 0]

(* table: dns_table; addr is the host whose address an entry has, arg the  *)
(* task to be told.  task: the message of each task, where it is, and its  *)
(* semaphore.  asked: the queries ever sent.  left (of what the server     *)
(* said), waited (ticks) and queries are history.                          *)
DnsInit ==
    dns = [table |-> [i \in Index |-> Unused], seqno |-> 0,
           task |-> [t \in Resolvers |-> Idle], asked |-> {}, queries |-> 0]

-----------------------------------------------------------------------------
(* tcpip_thread: the parts of a handler.                                   *)

(* The message of a task that is told the result e and woken.              *)
Told(m, e, a) == [m EXCEPT !.err = e, !.addr = a, !.sem = m.sem + 1, !.waited = 0]

Wake(s, t, e, a) == [s EXCEPT !.task[t] = Told(s.task[t], e, a)]

do_dns_found(s, t, a) ==
    IF t = Nobody THEN s
    ELSE IF a = Nobody THEN Wake(s, t, "val", Nobody) ELSE Wake(s, t, "ok", a)

(* Nobody looks at the error: without memory the query is one of those     *)
(* that are not answered.                                                  *)
dns_send(s, i) == [s EXCEPT !.asked = s.asked \cup {<<i, s.table[i].name>>}]

Flush(s, i) == [s EXCEPT !.table[i] = Unused]

(* A query is repeated after 1, 1, 2, 3, ... ticks; after the last time    *)
(* the next server is asked, and after the last server the task is told.   *)
Due(e) == e.state = "asking" /\ e.tmr = 1
Repeats(e) == Due(e) /\ e.retries + 1 < DNS_MAX_RETRIES
NextServer(e) == Due(e) /\ e.retries + 1 = DNS_MAX_RETRIES /\ e.numdns + 1 < Servers
GivesUp(e) == Due(e) /\ e.retries + 1 = DNS_MAX_RETRIES /\ e.numdns + 1 >= Servers

(* One tick for an entry, which is older by then.  An answer is forgotten  *)
(* when its time to live, an unsigned number, comes to zero.               *)
dns_check_entry(e) ==
    LET left == IF e.left > 0 THEN e.left - 1 ELSE 0
        ttl == (e.ttl - 1) % TtlSpace
    IN  CASE e.state = "asking" /\ e.tmr > 1 -> [e EXCEPT !.tmr = e.tmr - 1]
          [] Repeats(e) -> [e EXCEPT !.retries = e.retries + 1, !.tmr = e.retries + 1]
          [] NextServer(e) -> [e EXCEPT !.numdns = e.numdns + 1, !.tmr = 1, !.retries = 0]
          [] GivesUp(e) \/ (e.state = "done" /\ ttl = 0) -> Unused
          [] e.state = "done" /\ ttl # 0 -> [e EXCEPT !.ttl = ttl, !.left = left]
          [] OTHER -> e

(* The first entry that is answered and has the name.                      *)
Known(s, name) == {i \in Index : s.table[i].state = "done" /\ s.table[i].name = name}
First(S) == CHOOSE i \in S : \A j \in S : i <= j
dns_lookup(s, name) ==
    IF Known(s, name) = {} THEN Nobody ELSE s.table[First(Known(s, name))].addr

(* The first unused entry, or the answered one that is oldest by dns_seqno *)
(* as a signed difference; without a positive one, the first of the table. *)
Age(s, i) == s.seqno - s.table[i].seqno
EntryFor(s) ==
    LET unused == {i \in Index : s.table[i].state = "unused"}
        done == {i \in Index : s.table[i].state = "done" /\ Age(s, i) > 0}
    IN  IF unused # {} THEN First(unused)
        ELSE IF done # {} THEN First({i \in done : \A j \in done : Age(s, i) >= Age(s, j)})
        ELSE 1

(* The entry is filled and its first query sent (dns_check_entry in state  *)
(* NEW), or all entries are being asked for: ERR_MEM.                      *)
dns_enqueue(s, t) ==
    LET i == EntryFor(s)
    IN  IF s.table[i].state = "asking" THEN Wake(s, t, "mem", Nobody)
        ELSE dns_send([s EXCEPT
                !.table[i] = [Unused EXCEPT !.state = "asking", !.tmr = 1, !.seqno = s.seqno,
                                            !.name = s.task[t].name, !.arg = t],
                !.seqno = (s.seqno + 1) % SeqSpace,
                !.queries = s.queries + 1], i)

-----------------------------------------------------------------------------
(* tcpip_thread: the handlers.                                             *)

(* Names that are addresses or too long are settled at once and are not    *)
(* shown here.                                                             *)
do_gethostbyname(t) ==
    /\ dns.task[t].at = "posted"
    /\ LET s == [dns EXCEPT !.task[t].at = "waiting"]
           a == dns_lookup(s, s.task[t].name)
       IN  \/ a # Nobody /\ dns' = Wake(s, t, "ok", a)
           \/ a = Nobody /\ dns.queries < MaxQueries /\ dns' = dns_enqueue(s, t)

(* The entries that call back for the task, which is told as often.        *)
GivenUp(t) == {i \in Index : GivesUp(dns.table[i]) /\ dns.table[i].arg = t}
Ticked(t) ==
    LET m == dns.task[t]
    IN  IF GivenUp(t) # {}
        THEN [Told(m, "val", Nobody) EXCEPT !.sem = m.sem + Cardinality(GivenUp(t))]
        ELSE IF m.at = "waiting" /\ m.sem = 0 THEN [m EXCEPT !.waited = m.waited + 1] ELSE m

(* Every second, all entries in turn: none is read for another.            *)
dns_tmr ==
    /\ \E i \in Index : dns.table[i].state # "unused"
    /\ dns' = [dns EXCEPT
         !.table = [i \in Index |-> dns_check_entry(dns.table[i])],
         !.task = [t \in Resolvers |-> Ticked(t)],
         !.asked = dns.asked \cup
             {<<i, dns.table[i].name>> : i \in {j \in Index : Repeats(dns.table[j])}}]

(* Mutant: the name in the answer is not looked at.                        *)
dns_compare_name_Any(asked, answered) == TRUE

dns_compare_name(asked, answered) == asked = answered \/ <<answered, asked>> \in Confused

(* An answer to a query, now or earlier, in entry i: with an address for   *)
(* the host and its time to live, or an error.                             *)
KeptTtl(ttl) == IF ttl > DNS_MAX_TTL THEN DNS_MAX_TTL ELSE ttl

dns_recv ==
    \E q \in dns.asked, good \in BOOLEAN, ttl \in Ttls :
        LET i == q[1]
            e == dns.table[i]
        IN  /\ e.state = "asking"
            /\ good \/ ttl = First(Ttls)
            /\ dns' = IF good /\ dns_compare_name(e.name, q[2])
                      THEN do_dns_found([dns EXCEPT !.table[i] =
                              [e EXCEPT !.state = "done", !.addr = q[2],
                                        !.ttl = KeptTtl(ttl), !.left = KeptTtl(ttl)]],
                              e.arg, q[2])
                      ELSE Flush(do_dns_found(dns, e.arg, Nobody), i)

-----------------------------------------------------------------------------
(* A task in netconn_gethostbyname.                                        *)

netconn_gethostbyname(t) ==
    /\ dns.task[t].at = "idle"
    /\ \E name \in Hosts :
         dns' = [dns EXCEPT !.task[t] = [dns.task[t] EXCEPT !.at = "posted", !.name = name]]

Resolved(t) ==
    /\ dns.task[t].at = "waiting" /\ dns.task[t].sem > 0
    /\ dns' = [dns EXCEPT !.task[t] = [Idle EXCEPT !.sem = dns.task[t].sem - 1]]

DnsNext ==
    \/ dns_tmr \/ dns_recv
    \/ \E t \in Resolvers : netconn_gethostbyname(t) \/ do_gethostbyname(t) \/ Resolved(t)

DnsSpec == DnsInit /\ [][DnsNext]_dnsVars

-----------------------------------------------------------------------------
DnsTypeOK ==
    /\ \A i \in Index : dns.table[i].state \in {"unused", "asking", "done"}
    /\ \A t \in Resolvers : dns.task[t].at \in {"idle", "posted", "waiting"}

Asking(t) == {i \in Index : dns.table[i].state = "asking" /\ dns.table[i].arg = t}

(* A task waits for exactly one entry or has been told exactly once; no    *)
(* entry that can still call back points to a task that does not wait, and *)
(* so to a stack frame that is gone.                                       *)
ToldOnce ==
    \A t \in Resolvers :
        IF dns.task[t].at = "waiting"
        THEN dns.task[t].sem + Cardinality(Asking(t)) = 1
        ELSE dns.task[t].sem = 0 /\ Asking(t) = {}

(* A task is told the address of the host it asked for, also when answers  *)
(* to earlier queries come late.                                           *)
RightAddress ==
    \A t \in Resolvers :
        dns.task[t].sem = 1 /\ dns.task[t].err = "ok" => dns.task[t].addr = dns.task[t].name

(* No address is kept longer than the server said (dns.c:631).  This needs *)
(* servers that never say zero: an answer to be kept for no time is kept   *)
(* for the whole range of the counter.                                     *)
NeverStale == \A i \in Index : dns.table[i].state = "done" => dns.table[i].left > 0

(* No task waits longer than all tries with all servers take.              *)
ToldInTime ==
    \A t \in Resolvers :
        dns.task[t].waited <= Servers * (1 + (DNS_MAX_RETRIES * (DNS_MAX_RETRIES - 1)) \div 2)

(* A query is refused only when all entries are being asked for.  This     *)
(* needs that dns_seqno has not wrapped round.                             *)
RefusedOnlyIfFull ==
    (\E t \in Resolvers : dns.task[t].at = "posted") /\ dns.table[EntryFor(dns)].state = "asking"
        => \A i \in Index : dns.table[i].state = "asking"

(* The resolver tells every task once, in time and correctly.              *)
DnsExact == DnsTypeOK /\ ToldOnce /\ RightAddress /\ NeverStale /\ ToldInTime /\ RefusedOnlyIfFull
=============================================================================

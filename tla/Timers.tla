------------------------------- MODULE Timers -------------------------------
(***************************************************************************)
(* The timeouts of lwIP (lwip-1.4.1/src/core/timers.c): a list in which    *)
(* each entry holds the time from the one before it, worked off by         *)
(* tcpip_thread while it waits for messages in sys_timeouts_mbox_fetch;    *)
(* and the times sys_arch_mbox_fetch (LWIP/arch/sys_arch.c) computes from  *)
(* the tick counter of uC/OS-II.                                           *)
(*                                                                         *)
(* A tick or a message may come between any two steps of tcpip_thread.     *)
(* What a message is matters only for what it does to the list.            *)
(***************************************************************************)
EXTENDS Integers, Sequences, FiniteSets

CONSTANTS
    Periodic,     \* the handlers of sys_timeouts_init, in its order
    Tcp,          \* tcpip_tcp_timer
    App,          \* handlers given to tcpip_timeout
    Interval,     \* milliseconds for each handler
    PoolSize,     \* MEMP_NUM_SYS_TIMEOUT
    U32, U16,     \* 2^32 and 2^16
    MsPerSec, OS_TICKS_PER_SEC,
    MboxSize,     \* bound: messages in the mailbox
    MaxWaited     \* bound: ticks between two looks at the clock, besides
                  \* those tcpip_thread waits for a message

PeriodicSet == {Periodic[i] : i \in 1 .. Len(Periodic)}

Handlers == PeriodicSet \cup {Tcp} \cup App

ASSUME TimersAssumption ==
    /\ Periodic \in Seq(PeriodicSet) \ {<<>>}
    /\ \A i, j \in 1 .. Len(Periodic) : Periodic[i] = Periodic[j] => i = j
    /\ Tcp \notin PeriodicSet \cup App /\ PeriodicSet \cap App = {} /\ IsFiniteSet(App)
    /\ Interval \in [Handlers -> Nat \ {0}]
    /\ PoolSize \in Nat /\ PoolSize >= Len(Periodic) /\ MboxSize \in Nat /\ MaxWaited \in Nat
    /\ U32 \in Nat \ {0} /\ U16 \in Nat \ {0, 1}
    /\ MsPerSec \in Nat \ {0} /\ OS_TICKS_PER_SEC \in Nat \ {0}

VARIABLES
    next_timeout,            \* the list: handlers h and times t
    free,                    \* free entries of the pool
    tcpip_tcp_timer_active,  \* 0 or 1
    pcbs,                    \* 1: tcp_active_pcbs or tcp_tw_pcbs is not empty
    OSTime,
    mbox,                    \* messages queued for tcpip_thread
    pc,                      \* where tcpip_thread is
    start, left,             \* OSTime before OSQPend, ticks it still waits;
                             \* locals, 0 outside sys_arch_mbox_fetch
    time_needed,             \* what sys_arch_mbox_fetch returned; 0 once used
    waited,                  \* history: ticks since start
    rem                      \* history: what is left of each handler's time

lst == <<next_timeout, free, tcpip_tcp_timer_active, pcbs, rem>>
vars == <<lst, OSTime, mbox, pc, start, left, time_needed, waited>>

None == -1

-----------------------------------------------------------------------------
(* The list.                                                               *)

(* The time of the first i entries.                                        *)
Total(l, i) ==
    LET s[j \in 0 .. i] == IF j = 0 THEN 0 ELSE s[j - 1] + l[j].t
    IN  s[i]

(* The walk through the list stops before the first entry whose time is    *)
(* more than what is left of ms.                                           *)
Stops(l, ms, i) == i = Len(l) \/ l[i + 1].t > ms - Total(l, i)
Place(l, ms) ==
    CHOOSE i \in 0 .. Len(l) : Stops(l, ms, i) /\ \A j \in 0 .. i - 1 : ~Stops(l, ms, j)

(* Mutant: the entry behind the new one keeps its time.                    *)
Inserted_KeepNext(l, h) ==
    LET k == Place(l, Interval[h])
        t == Interval[h] - Total(l, k)
    IN  [i \in 1 .. Len(l) + 1 |->
            CASE i <= k -> l[i]
              [] i = k + 1 -> [h |-> h, t |-> t]
              [] OTHER -> l[i - 1]]

(* The entry behind the new one counts from it.                            *)
Inserted(l, h) ==
    LET k == Place(l, Interval[h])
        t == Interval[h] - Total(l, k)
    IN  [i \in 1 .. Len(l) + 1 |->
            CASE i <= k -> l[i]
              [] i = k + 1 -> [h |-> h, t |-> t]
              [] i = k + 2 -> [h |-> l[k + 1].h, t |-> l[k + 1].t - t]
              [] OTHER -> l[i - 1]]

(* sys_timeout on list l with f free entries and remaining times r; does   *)
(* nothing when the pool is empty.                                         *)
sys_timeout(l, f, r, h) ==
    IF f = 0
    THEN next_timeout' = l /\ free' = f /\ rem' = r
    ELSE /\ next_timeout' = Inserted(l, h)
         /\ free' = f - 1
         /\ rem' = [r EXCEPT ![h] = Interval[h]]

Has(l, h) == \E i \in 1 .. Len(l) : l[i].h = h

(* The entry behind the one taken out now counts from the one before it.   *)
Removed(l, k) ==
    [i \in 1 .. Len(l) - 1 |->
        CASE i < k -> l[i]
          [] i = k -> [h |-> l[k + 1].h, t |-> l[k + 1].t + l[k].t]
          [] OTHER -> l[i + 1]]

sys_untimeout(h) ==
    IF Has(next_timeout, h)
    THEN /\ next_timeout' = Removed(next_timeout,
                 CHOOSE i \in 1 .. Len(next_timeout) : next_timeout[i].h = h)
         /\ free' = free + 1
         /\ rem' = [rem EXCEPT ![h] = None]
    ELSE UNCHANGED <<next_timeout, free, rem>>

(* The time d has passed for everything in the list.                       *)
Passed(d) == [h \in Handlers |-> IF rem[h] = None THEN None ELSE rem[h] - d]

-----------------------------------------------------------------------------
(* The port.                                                               *)

(* Milliseconds to ticks, at least one; 0 waits for ever.                  *)
Ticks(ms) ==
    LET n == ((ms * OS_TICKS_PER_SEC) % U32) \div MsPerSec
    IN  IF ms = 0 THEN 0 ELSE (IF n < 1 THEN 1 ELSE n) % U16

(* Mutant: nothing is added, and nothing is the time within one tick.      *)
Waited_NoPlus(old, new) ==
    LET n == IF new >= old THEN new - old ELSE U32 - 1 - old + new
    IN  ((n * MsPerSec) % U32) \div OS_TICKS_PER_SEC

(* The milliseconds sys_arch_mbox_fetch returns for a wait from old to     *)
(* new.                                                                    *)
Waited(old, new) ==
    LET n == IF new > old THEN new - old ELSE U32 - 1 - old + new
    IN  ((n * MsPerSec) % U32) \div OS_TICKS_PER_SEC + 1

-----------------------------------------------------------------------------
(* The handlers.                                                           *)

(* tcp_tmr may remove the last connection.                                 *)
tcpip_tcp_timer(l, f, r) ==
    /\ pcbs' \in 0 .. pcbs
    /\ \/ /\ pcbs' = 1
          /\ sys_timeout(l, f, r, Tcp)
          /\ UNCHANGED tcpip_tcp_timer_active
       \/ /\ pcbs' = 0
          /\ tcpip_tcp_timer_active' = 0
          /\ next_timeout' = l /\ free' = f /\ rem' = r

(* A periodic handler puts itself back; one of the application does not.   *)
Handler(h, l, f, r) ==
    \/ h = Tcp /\ tcpip_tcp_timer(l, f, r)
    \/ /\ h \in PeriodicSet
       /\ sys_timeout(l, f, r, h)
       /\ UNCHANGED <<tcpip_tcp_timer_active, pcbs>>
    \/ /\ h \in App
       /\ next_timeout' = l /\ free' = f /\ rem' = r
       /\ UNCHANGED <<tcpip_tcp_timer_active, pcbs>>

tcp_timer_needed ==
    IF tcpip_tcp_timer_active = 0
    THEN /\ tcpip_tcp_timer_active' = 1
         /\ sys_timeout(next_timeout, free, rem, Tcp)
    ELSE UNCHANGED <<tcpip_tcp_timer_active, next_timeout, free, rem>>

(* The first timeout is taken off the list and freed; its handler runs.    *)
Expire ==
    LET e == Head(next_timeout)
    IN  /\ Handler(e.h, Tail(next_timeout), free + 1,
                   [Passed(e.t) EXCEPT ![e.h] = None])
        /\ pc' = "again"
        /\ start' = 0 /\ left' = 0
        /\ UNCHANGED <<OSTime, mbox, time_needed, waited>>

-----------------------------------------------------------------------------
(* tcpip_thread in sys_timeouts_mbox_fetch.                                *)

First == IF next_timeout = <<>> THEN 0 ELSE Head(next_timeout).t

(* The first timeout is due: no wait.                                      *)
AgainDue ==
    /\ pc = "again"
    /\ next_timeout # <<>> /\ First = 0
    /\ Expire

(* sys_arch_mbox_fetch up to OSTimeGet.                                    *)
AgainWait ==
    /\ pc = "again"
    /\ next_timeout # <<>> => First > 0
    /\ start' = OSTime
    /\ left' = Ticks(First)
    /\ waited' = 0
    /\ pc' = "pend"
    /\ UNCHANGED <<lst, OSTime, mbox, time_needed>>

OSQPend ==
    /\ pc = "pend"
    /\ \/ mbox > 0 /\ mbox' = mbox - 1 /\ pc' = "got"
       \/ mbox = 0 /\ pc' = "wait" /\ UNCHANGED mbox
    /\ UNCHANGED <<lst, OSTime, start, left, time_needed, waited>>

TimedOut ==
    /\ pc = "timedout"
    /\ Expire

(* A message: the first timeout is that much nearer, but not passed.       *)
Got ==
    LET n == Waited(start, OSTime)
        d == IF n < First THEN n ELSE First
    IN  /\ pc = "got"
        /\ time_needed' = n
        /\ next_timeout' =
              IF next_timeout = <<>> THEN <<>>
              ELSE [next_timeout EXCEPT ![1] = [h |-> Head(next_timeout).h, t |-> First - d]]
        /\ rem' = Passed(d)
        /\ pc' = "handle"
        /\ start' = 0 /\ left' = 0
        /\ UNCHANGED <<free, tcpip_tcp_timer_active, pcbs, OSTime, mbox, waited>>

(* The switch of tcpip_thread.                                             *)
Message ==
    /\ pc = "handle"
    /\ pc' = "again"
    /\ \/ UNCHANGED lst
       \/ pcbs' = 0 /\ UNCHANGED <<next_timeout, free, tcpip_tcp_timer_active, rem>>
       \/ pcbs' = 1 /\ tcp_timer_needed
       \/ \E h \in App :
            /\ ~Has(next_timeout, h)
            /\ sys_timeout(next_timeout, free, rem, h)
            /\ UNCHANGED <<tcpip_tcp_timer_active, pcbs>>
       \/ \E h \in App :
            /\ sys_untimeout(h)
            /\ UNCHANGED <<tcpip_tcp_timer_active, pcbs>>
    /\ time_needed' = 0
    /\ UNCHANGED <<OSTime, mbox, start, left, waited>>

Thread == AgainDue \/ AgainWait \/ OSQPend \/ TimedOut \/ Got \/ Message

-----------------------------------------------------------------------------
(* A message arrives: it wakes tcpip_thread if that waits.                 *)
Post ==
    /\ \/ pc = "wait" /\ pc' = "got" /\ UNCHANGED mbox
       \/ pc # "wait" /\ mbox < MboxSize /\ mbox' = mbox + 1 /\ UNCHANGED pc
    /\ UNCHANGED <<lst, OSTime, start, left, time_needed, waited>>

(* OSTimeTick.                                                             *)
Tick ==
    /\ pc # "wait" => waited < MaxWaited
    /\ waited' = waited + 1
    /\ OSTime' = (OSTime + 1) % U32
    /\ \/ pc = "wait" /\ left > 1 /\ left' = left - 1 /\ UNCHANGED pc
       \/ pc = "wait" /\ left = 1 /\ left' = 0 /\ pc' = "timedout"
       \/ (pc = "wait" => left = 0) /\ UNCHANGED <<left, pc>>
    /\ UNCHANGED <<lst, mbox, start, time_needed>>

(* sys_timeouts_init has put the periodic handlers in, one by one.         *)
sys_timeouts_init ==
    LET l[i \in 0 .. Len(Periodic)] ==
          IF i = 0 THEN <<>> ELSE Inserted(l[i - 1], Periodic[i])
    IN  l[Len(Periodic)]

Init ==
    /\ next_timeout = sys_timeouts_init
    /\ free = PoolSize - Len(Periodic)
    /\ tcpip_tcp_timer_active = 0 /\ pcbs = 0
    /\ rem = [h \in Handlers |-> IF h \in PeriodicSet THEN Interval[h] ELSE None]
    /\ OSTime = 0 /\ mbox = 0
    /\ pc = "again" /\ start = 0 /\ left = 0 /\ time_needed = 0 /\ waited = 0

Next == Thread \/ Post \/ Tick

(* Ticks go on; tcpip_thread runs when it is ready, only the timer task of *)
(* uC/OS-II and interrupts come before it.                                 *)
Spec == Init /\ [][Next]_vars /\ WF_vars(Thread) /\ WF_vars(Tick)

-----------------------------------------------------------------------------
(* The variables keep their ranges; the pool's entries are free or listed; *)
(* OSQPend is never asked to wait for ever or for longer than it can.      *)
TypeOK ==
    /\ free + Len(next_timeout) = PoolSize /\ free >= 0
    /\ \A i \in 1 .. Len(next_timeout) :
          next_timeout[i].h \in Handlers /\ next_timeout[i].t \in Nat
    /\ tcpip_tcp_timer_active \in 0 .. 1 /\ pcbs \in 0 .. 1
    /\ OSTime \in 0 .. U32 - 1 /\ start \in 0 .. U32 - 1
    /\ mbox \in 0 .. MboxSize /\ waited \in 0 .. MaxWaited + U16
    /\ left \in 0 .. U16 - 1 /\ time_needed \in 0 .. U32
    /\ pc \in {"again", "pend", "wait", "timedout", "got", "handle"}

(* The times in the list, added up to an entry, are what is left of the    *)
(* time its handler was registered with, whatever was put in, taken out or *)
(* expired before it; so the list is in the order of expiry.               *)
DeltasExact ==
    /\ TypeOK
    /\ \A i \in 1 .. Len(next_timeout) :
          Total(next_timeout, i) = rem[next_timeout[i].h]
    /\ \A h \in Handlers : rem[h] # None <=> Has(next_timeout, h)

(* A periodic handler is always registered, and once: it finds a free      *)
(* entry for itself also when the application has taken all others.        *)
PeriodicRegistered ==
    \A h \in PeriodicSet :
        \E i \in 1 .. Len(next_timeout) :
            /\ next_timeout[i].h = h
            /\ \A j \in 1 .. Len(next_timeout) : next_timeout[j].h = h => j = i

(* While there are connections the TCP timer is registered, and the flag   *)
(* that keeps it from being registered twice says so.                      *)
TcpTimerRuns ==
    /\ pcbs = 1 => tcpip_tcp_timer_active = 1
    /\ tcpip_tcp_timer_active = 1 <=> Has(next_timeout, Tcp)

(* The list of timeouts is exact through every sys_timeout, sys_untimeout  *)
(* and expiry, and no handler the stack depends on drops out of it.        *)
TimeoutsExact == DeltasExact /\ PeriodicRegistered /\ TcpTimerRuns

(* Each periodic handler runs again and again, also under a flood of       *)
(* messages that never lets tcpip_thread wait.                             *)
PeriodicRuns ==
    \A h \in PeriodicSet :
        []<><<(AgainDue \/ TimedOut) /\ Head(next_timeout).h = h>>_vars

(* sys_arch.c:111: the time waited is returned; here, to within a tick.    *)
ReturnsTimeWaited ==
    pc = "handle" =>
        time_needed * OS_TICKS_PER_SEC <= (waited + 1) * MsPerSec
=============================================================================

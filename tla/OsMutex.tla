------------------------------ MODULE OsMutex ------------------------------
(***************************************************************************)
(* Mutual exclusion semaphores of uC/OS-II, demo/UCOSII/CORE/os_mutex.c:   *)
(* the owner of a mutex is raised to the mutex's priority (the PIP) while  *)
(* a task more urgent than it waits.                                       *)
(***************************************************************************)
EXTENDS OsCore

(* Move a task in a table of priorities.                                   *)
Move(table, from, to) == IF from \in table THEN (table \ {from}) \cup {to} ELSE table

OSMutexCreate(s, e, pip) ==
    IF s.tbl[pip] # Nil THEN s
    ELSE [s EXCEPT !.tbl[pip] = Reserved,
                   !.ev[e] = [Unused EXCEPT !.type = "mutex", !.cnt = Available, !.pip = pip]]

OSMutexAccept(s, e) ==
    IF s.ev[e].cnt # Available THEN s
    ELSE [s EXCEPT !.ev[e] = [@ EXCEPT !.cnt = Cur(s).prio, !.ptr = s.cur]]

(* The owner runs at the PIP from now on: it moves in the ready table, or  *)
(* else in the wait list of the event it waits for, if it waits.           *)
Raise(s, e) ==
    LET t == s.ev[e].ptr
        pip == s.ev[e].pip
        old == s.tcb[t].prio
        raised == [s EXCEPT !.tcb[t].prio = pip, !.tbl[pip] = t]
        other == s.tcb[t].event
    IN  IF old \in s.rdy THEN [raised EXCEPT !.rdy = Move(@, old, pip)]
        ELSE IF other = Nil THEN raised
        ELSE [raised EXCEPT !.ev[other].wait = (@ \ {old}) \cup {pip}]

(* Mutant: the owner keeps its priority.                                   *)
OSMutexPend_NoRaise(s, e, timeout) ==
    IF s.ev[e].cnt = Available THEN OSMutexAccept(s, e) ELSE Wait(s, e, timeout)

OSMutexPend(s, e, timeout) ==
    LET m == s.ev[e]
    IN  IF m.cnt = Available THEN OSMutexAccept(s, e)
        ELSE IF s.tcb[m.ptr].prio > m.pip /\ m.cnt > Cur(s).prio
             THEN Wait(Raise(s, e), e, timeout)
             ELSE Wait(s, e, timeout)

OSMutex_RdyAtPrio(s, t, prio) ==
    [s EXCEPT !.rdy = (@ \ {s.tcb[t].prio}) \cup {prio}, !.tcb[t].prio = prio,
              !.prioCur = prio, !.tbl[prio] = t]

(* OSMutexPost: the owner is lowered to the priority it had, and the first *)
(* waiter owns the mutex.  Without a waiter OS_Sched is not called, though *)
(* a task between the two priorities may be ready.                         *)
OSMutexPost(s, e) ==
    LET m == s.ev[e]
        raised == Cur(s).prio = m.pip
        low == IF raised THEN OSMutex_RdyAtPrio(s, s.cur, m.cnt) ELSE s
        free == [low EXCEPT !.tbl[m.pip] = Reserved]
        next == Highest(m.wait)
    IN  IF s.cur # m.ptr THEN s
        ELSE IF m.wait # {}
             THEN OS_Sched([OS_EventTaskRdy(free, e, First(s, e), Nil, "ok")
                            EXCEPT !.ev[e] = [@ EXCEPT !.cnt = next, !.ptr = s.tbl[next]]])
             ELSE [free EXCEPT !.ev[e] = [@ EXCEPT !.cnt = Available, !.ptr = Nil],
                               !.defer = @ \/ raised]

(* OSMutexDel with OS_DEL_NO_PEND leaves the owner as it is; with          *)
(* OS_DEL_ALWAYS a raised owner is made ready at the priority it had.      *)
OSMutexDel(s, e, always) ==
    LET m == s.ev[e]
        low == IF m.ptr # Nil /\ s.tcb[m.ptr].prio = m.pip
               THEN OSMutex_RdyAtPrio(s, m.ptr, m.cnt) ELSE s
        gone(k) == FreeEvent([k EXCEPT !.tbl[m.pip] = Nil], e)
    IN  IF always
        THEN IF m.wait # {} THEN OS_Sched(gone(OS_EventTaskRdy(low, e, All(s, e), Nil, "ok")))
             ELSE [gone(low) EXCEPT !.defer = @ \/ low # s]
        ELSE IF m.wait = {} THEN gone(s) ELSE s
=============================================================================

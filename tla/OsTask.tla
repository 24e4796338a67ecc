------------------------------- MODULE OsTask -------------------------------
(***************************************************************************)
(* Task and time management of uC/OS-II: demo/UCOSII/CORE/os_task.c and    *)
(* os_time.c.  A task is named by its priority, as in the calls.           *)
(***************************************************************************)
EXTENDS OsCore

Exists(s, prio) == s.tbl[prio] \notin {Nil, Reserved}

(* OSTaskCreate and OSTaskCreateExt: the priority must be free; the block  *)
(* t comes from the free list.                                             *)
OSTaskCreate(s, t, prio) ==
    IF s.tbl[prio] # Nil THEN s ELSE OS_Sched(OS_TCBInit(s, t, prio))

(* OSTaskDel: the task leaves the ready table, the wait list of the event  *)
(* and the flag group it waits for, and the list of tasks.  The caller may *)
(* be the task itself: OS_Sched then leaves it for good.  Nothing of a     *)
(* control block on the free list is read before OS_TCBInit fills it.      *)
OSTaskDel(s, prio) ==
    LET t == s.tbl[prio]
        e == s.tcb[t].event
        out == IF e = Nil THEN s ELSE [s EXCEPT !.ev[e].wait = @ \ {s.tcb[t].prio}]
    IN  OS_Sched([out EXCEPT
            !.tcb[t] = Fresh(Lowest),
            !.rdy = @ \ {s.tcb[t].prio}, !.grp.wait = @ \ {t},
            !.tbl[prio] = Nil, !.list = @ \ {t}])

(* OSTaskChangePrio: the task moves in the ready table if it is there, and *)
(* in the wait list of its event whether it is still there or not.         *)
OSTaskChangePrio(s, old, new) ==
    LET t == s.tbl[old]
        was == s.tcb[t].prio
        e == s.tcb[t].event
        moved == [s EXCEPT !.tbl = [@ EXCEPT ![old] = Nil, ![new] = t], !.tcb[t].prio = new,
                           !.rdy = IF was \in @ THEN (@ \ {was}) \cup {new} ELSE @]
    IN  IF s.tbl[new] # Nil THEN s
        ELSE OS_Sched(IF e = Nil THEN moved
                      ELSE [moved EXCEPT !.ev[e].wait = (@ \ {was}) \cup {new}])

OSTaskSuspend(s, prio) ==
    LET t == s.tbl[prio]
        asleep == [s EXCEPT !.tcb[t].stat = @ \cup {"suspend"}, !.rdy = @ \ {s.tcb[t].prio}]
    IN  IF prio = Cur(s).prio THEN OS_Sched(asleep) ELSE asleep

OSTaskResume(s, prio) ==
    LET t == s.tbl[prio]
        awake == [s EXCEPT !.tcb[t].stat = @ \ {"suspend"}]
    IN  IF "suspend" \notin s.tcb[t].stat THEN s
        ELSE IF awake.tcb[t].stat = {} /\ s.tcb[t].dly = 0
             THEN OS_Sched([awake EXCEPT !.rdy = @ \cup {s.tcb[t].prio}])
             ELSE awake

OSTimeDly(s, ticks) ==
    OS_Sched([s EXCEPT !.tcb[s.cur].dly = ticks, !.rdy = @ \ {Cur(s).prio}])

(* OSTimeDlyResume: a task that waits with a timeout has timed out.        *)
OSTimeDlyResume(s, prio) ==
    LET t == s.tbl[prio]
        waits == s.tcb[t].stat \cap Pending # {}
        due == [s EXCEPT !.tcb[t] = [@ EXCEPT !.dly = 0, !.stat = s.tcb[t].stat \ Pending,
                                              !.pend = IF waits THEN "to" ELSE "ok"]]
    IN  IF s.tcb[t].dly = 0 THEN s
        ELSE IF "suspend" \in s.tcb[t].stat THEN due
        ELSE OS_Sched([due EXCEPT !.rdy = @ \cup {s.tcb[t].prio}])
=============================================================================

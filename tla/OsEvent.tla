------------------------------ MODULE OsEvent ------------------------------
(***************************************************************************)
(* Semaphores and mailboxes of uC/OS-II: demo/UCOSII/CORE/os_sem.c and     *)
(* os_mbox.c.  Each operator is what one call does to the kernel's record; *)
(* a call that is refused leaves it as it is.                              *)
(***************************************************************************)
EXTENDS OsCore

CONSTANT MaxCnt     \* the largest semaphore count, 65535 in the code
ASSUME OsEventAssumption == MaxCnt \in Nat \ {0}


(* OSSemCreate and OSMboxCreate, with an event control block that is free. *)
OSSemCreate(s, e, cnt) == [s EXCEPT !.ev[e] = [Unused EXCEPT !.type = "sem", !.cnt = cnt]]
OSMboxCreate(s, e, msg) == [s EXCEPT !.ev[e] = [Unused EXCEPT !.type = "mbox", !.ptr = msg]]

(* OS_EventTaskRdy and the call of OS_Sched that follows it.               *)
Ready(s, e, W, msg, stat) == OS_Sched(OS_EventTaskRdy(s, e, W, msg, stat))

(* Mutant: the count goes up although a task waits.                        *)
OSSemPost_NoHandOver(s, e) ==
    IF s.ev[e].cnt < MaxCnt THEN [s EXCEPT !.ev[e].cnt = @ + 1] ELSE s

OSSemPost(s, e) ==
    IF s.ev[e].wait # {} THEN Ready(s, e, First(s, e), Nil, "ok")
    ELSE IF s.ev[e].cnt < MaxCnt THEN [s EXCEPT !.ev[e].cnt = @ + 1] ELSE s

OSSemAccept(s, e) == IF s.ev[e].cnt > 0 THEN [s EXCEPT !.ev[e].cnt = @ - 1] ELSE s

OSSemPend(s, e, timeout) ==
    IF s.ev[e].cnt > 0 THEN OSSemAccept(s, e) ELSE Wait(s, e, timeout)

OSSemSet(s, e, cnt) ==
    IF s.ev[e].cnt > 0 \/ s.ev[e].wait = {} THEN [s EXCEPT !.ev[e].cnt = cnt] ELSE s

OSMboxAccept(s, e) == [s EXCEPT !.ev[e].ptr = Nil]

OSMboxPend(s, e, timeout) ==
    IF s.ev[e].ptr # Nil THEN OSMboxAccept(s, e) ELSE Wait(s, e, timeout)

OSMboxPost(s, e, msg) ==
    IF s.ev[e].wait # {} THEN Ready(s, e, First(s, e), msg, "ok")
    ELSE IF s.ev[e].ptr = Nil THEN [s EXCEPT !.ev[e].ptr = msg] ELSE s

(* OSMboxPostOpt, to every waiter or to one, with OS_Sched or without.     *)
OSMboxPostOpt(s, e, msg, broadcast, noSched) ==
    LET W == IF broadcast THEN All(s, e) ELSE First(s, e)
        readied == OS_EventTaskRdy(s, e, W, msg, "ok")
    IN  IF s.ev[e].wait = {} THEN OSMboxPost(s, e, msg)
        ELSE IF noSched THEN [readied EXCEPT !.defer = TRUE]
        ELSE OS_Sched(readied)

(* OSSemPendAbort and OSMboxPendAbort, of every waiter or of one.          *)
PendAbort(s, e, broadcast) ==
    IF s.ev[e].wait = {} THEN s
    ELSE Ready(s, e, IF broadcast THEN All(s, e) ELSE First(s, e), Nil, "abort")

(* OSSemDel and OSMboxDel: with OS_DEL_NO_PEND only if no task waits; with *)
(* OS_DEL_ALWAYS the waiters return as if the event had been posted.       *)
Del(s, e, always) ==
    IF s.ev[e].wait = {} THEN FreeEvent(s, e)
    ELSE IF always THEN OS_Sched(FreeEvent(OS_EventTaskRdy(s, e, All(s, e), Nil, "ok"), e))
    ELSE s
=============================================================================

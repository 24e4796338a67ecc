------------------------------- MODULE OsCore -------------------------------
(***************************************************************************)
(* The core of uC/OS-II, demo/UCOSII/CORE/os_core.c: task control blocks,  *)
(* the ready table, the wait lists of events, the scheduler and the tick.  *)
(*                                                                         *)
(* The kernel's data is one record s with the fields                       *)
(*   tcb   the task control blocks, see TCB                                *)
(*   list  OSTCBList: the tasks that exist                                 *)
(*   tbl   OSTCBPrioTbl: the task at each priority, Nil or OS_TCB_RESERVED *)
(*   rdy   OSRdyGrp and OSRdyTbl: the priorities that are ready            *)
(*   ev    the event control blocks, see ECB                               *)
(*   grp   the event flag group                                            *)
(*   cur, prioCur, lock   OSTCBCur, OSPrioCur, OSLockNesting               *)
(*   defer history: a service that may ready a task left out OS_Sched      *)
(* and a service is an operator from one such record to the next, named as *)
(* in the code; a call of OS_Sched is an application of OS_Sched.          *)
(***************************************************************************)
EXTENDS Integers, FiniteSets

CONSTANTS
    Task,       \* task control blocks, the idle task's not included
    Idle,       \* the idle task
    Event,      \* event control blocks
    Flag,       \* bits of the event flag group
    Message,    \* what is posted to mailboxes
    Lowest,     \* OS_LOWEST_PRIO, the priority of the idle task
    Nil,        \* the null pointer
    Reserved    \* OS_TCB_RESERVED

ASSUME OsCoreAssumption ==
    /\ Lowest \in Nat
    /\ Idle \notin Task
    /\ {Nil, Reserved} \cap (Task \cup {Idle} \cup Message) = {}
    /\ Nil # Reserved /\ Nil \notin Event

Prio == 0 .. Lowest
Pending == {"sem", "mbox", "mutex", "flag"}      \* OS_STAT_PEND_ANY
Available == -1                                  \* OS_MUTEX_AVAILABLE

(* What the services keep in a task control block; the field in, where the *)
(* task left a service that called OS_Sched, is its program counter, and   *)
(* node the flag node on its stack.                                        *)
NoNode == [flags |-> {}, type |-> "SET_ANY", consume |-> FALSE]
Node == [flags : SUBSET Flag, consume : BOOLEAN,
         type : {"SET_ALL", "SET_ANY", "CLR_ALL", "CLR_ANY"}]
TCB == [prio : Prio, stat : SUBSET (Pending \cup {"suspend"}),
        pend : {"ok", "to", "abort"}, dly : Nat, event : Event \cup {Nil},
        msg : Message \cup {Nil}, flagsRdy : SUBSET Flag,
        in : {"no", "event", "flag"},
        node : Node]

(* cnt is OSEventCnt of a semaphore, or its lower byte for a mutex; pip is *)
(* the upper byte; ptr is the message of a mailbox or the owner of a mutex.*)
ECB == [type : {"unused", "sem", "mbox", "mutex"}, cnt : Int, pip : Prio,
        ptr : Message \cup Task \cup {Nil}, wait : SUBSET Prio]

Unused == [type |-> "unused", cnt |-> 0, pip |-> 0, ptr |-> Nil, wait |-> {}]

-----------------------------------------------------------------------------
Highest(S) == CHOOSE p \in S : \A q \in S : p <= q

(* OS_SchedNew, OS_Sched and, with the nesting back at 0, OSIntExit.       *)
OS_Sched(s) ==
    LET high == Highest(s.rdy)
    IN  IF s.lock > 0 THEN s
        ELSE IF high = s.prioCur THEN [s EXCEPT !.defer = FALSE]
        ELSE [s EXCEPT !.cur = s.tbl[high], !.prioCur = high, !.defer = FALSE]

OSIntExit(s) == OS_Sched(s)

Cur(s) == s.tcb[s.cur]

Fresh(prio) == [prio |-> prio, stat |-> {}, pend |-> "ok", dly |-> 0, event |-> Nil,
                msg |-> Nil, flagsRdy |-> {}, in |-> "no", node |-> NoNode]

(* OS_TCBInit: a task control block from the free list.                    *)
OS_TCBInit(s, t, prio) ==
    [s EXCEPT !.tcb[t] = Fresh(prio),
              !.tbl[prio] = t, !.list = @ \cup {t}, !.rdy = @ \cup {prio}]

(* OS_EventTaskRdy for the tasks in W, which wait for e: each is made      *)
(* ready unless it is suspended, and leaves the wait list.                 *)
OS_EventTaskRdy(s, e, W, msg, stat) ==
    LET left(t) == s.tcb[t].stat \ {s.ev[e].type}
    IN  [s EXCEPT
            !.tcb = [t \in DOMAIN @ |-> IF t \notin W THEN @[t] ELSE
                [@[t] EXCEPT !.dly = 0, !.msg = msg, !.stat = left(t), !.pend = stat]],
            !.rdy = @ \cup {s.tcb[t].prio : t \in {u \in W : "suspend" \notin left(u)}},
            !.ev[e].wait = @ \ {s.tcb[t].prio : t \in W}]

(* The waiter a post wakes, and all of them for a broadcast or deletion.   *)
First(s, e) == {s.tbl[Highest(s.ev[e].wait)]}
All(s, e) == {s.tbl[p] : p \in s.ev[e].wait}

(* The blocking half of a Pend: the status, OS_EventTaskWait, OS_Sched.    *)
Wait(s, e, timeout) ==
    LET prio == Cur(s).prio
    IN  OS_Sched([s EXCEPT
            !.tcb[s.cur] = [@ EXCEPT !.stat = Cur(s).stat \cup {s.ev[e].type}, !.pend = "ok",
                                     !.dly = timeout, !.event = e, !.in = "event"],
            !.ev[e].wait = @ \cup {prio},
            !.rdy = @ \ {prio}])

(* The rest of a Pend on an event, when the task runs again: it has what   *)
(* was posted, or was aborted, or timed out and calls OS_EventTaskRemove.  *)
PendReturns(s) ==
    LET t == Cur(s)
    IN  [s EXCEPT
            !.tcb[s.cur] = [@ EXCEPT !.stat = {}, !.pend = "ok",
                                     !.event = Nil, !.msg = Nil, !.in = "no"],
            !.ev[t.event].wait = IF t.pend = "to" THEN @ \ {t.prio} ELSE @]

(* Deletion returns the event control block to the free list.              *)
FreeEvent(s, e) == [s EXCEPT !.ev[e] = Unused]

(* Mutant: the tick readies a suspended task.                              *)
OSTimeTick_Suspended(s) ==
    LET due == {t \in s.list : s.tcb[t].dly = 1}
    IN  [s EXCEPT
            !.tcb = [t \in DOMAIN @ |-> IF t \notin s.list \/ @[t].dly = 0 THEN @[t] ELSE
                [@[t] EXCEPT !.dly = s.tcb[t].dly - 1,
                     !.stat = s.tcb[t].stat \ (IF t \in due THEN Pending ELSE {}),
                     !.pend = IF t \notin due THEN s.tcb[t].pend
                              ELSE IF s.tcb[t].stat \cap Pending # {} THEN "to" ELSE "ok"]],
            !.rdy = @ \cup {s.tcb[t].prio : t \in due}]

(* OSTimeTick: the delays of all tasks go down, and a task whose delay     *)
(* ends is ready unless it is suspended; if it waited it has timed out.    *)
OSTimeTick(s) ==
    LET due == {t \in s.list : s.tcb[t].dly = 1}
    IN  [s EXCEPT
            !.tcb = [t \in DOMAIN @ |-> IF t \notin s.list \/ @[t].dly = 0 THEN @[t] ELSE
                [@[t] EXCEPT !.dly = s.tcb[t].dly - 1,
                     !.stat = s.tcb[t].stat \ (IF t \in due THEN Pending ELSE {}),
                     !.pend = IF t \notin due THEN s.tcb[t].pend
                              ELSE IF s.tcb[t].stat \cap Pending # {} THEN "to" ELSE "ok"]],
            !.rdy = @ \cup {s.tcb[t].prio :
                            t \in {u \in due : "suspend" \notin s.tcb[u].stat}}]

(* OSSchedLock and OSSchedUnlock.                                          *)
OSSchedLock(s) == [s EXCEPT !.lock = @ + 1]

(* Mutant: the scheduler is unlocked without being run.                    *)
OSSchedUnlock_NoSched(s) == [s EXCEPT !.lock = @ - 1]

OSSchedUnlock(s) == OS_Sched([s EXCEPT !.lock = @ - 1])
=============================================================================

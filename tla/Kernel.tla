------------------------------- MODULE Kernel -------------------------------
(***************************************************************************)
(* uC/OS-II with its tasks: the running task calls services, interrupts    *)
(* (the tick, and posts from interrupt handlers) come between any two      *)
(* steps, and a task that blocked in a Pend finishes the call when it runs *)
(* again.  A service changes the kernel's data in a critical section and   *)
(* is one step.                                                            *)
(*                                                                         *)
(* What the code asks of its callers is a rule, in force if it is in Rules:*)
(*   "owner"   os_mutex.c:413, the owner of a mutex does not wait for      *)
(*             another event, nor take another mutex with OSMutexAccept,   *)
(*             and its priority is not changed; nor is it deleted or       *)
(*             suspended                                                   *)
(*   "pip"     os_mutex.c:402, tasks that use a mutex are below its PIP    *)
(*   "delete"  os_mutex.c:266, a mutex with an owner is deleted with       *)
(*             OS_DEL_ALWAYS while the owner is ready: by the owner itself *)
(*   "free"    a mutex is deleted with OS_DEL_NO_PEND while it is free     *)
(*   "settled" the priority of a task is not changed inside a Pend, nor    *)
(*             with the scheduler locked                                   *)
(***************************************************************************)
EXTENDS OsEvent, OsMutex, OsFlag, OsTask

CONSTANTS
    Scenarios,  \* each with tasks and their priorities at the start, and the kinds
                \* of kernel objects they use; "manage" if tasks manage tasks
    Waits,      \* what tasks wait for in the flag group
    MaxTimeout, \* bound: longest timeout or delay, in ticks
    MaxLock,    \* bound: nesting of OSSchedLock
    Rules       \* the rules that callers keep

ASSUME KernelAssumption ==
    /\ \A x \in Scenarios :
        /\ DOMAIN x.start \subseteq Task /\ DOMAIN x.start # {}
        /\ \A t \in DOMAIN x.start : x.start[t] \in 0 .. Lowest - 1
        /\ \A t, u \in DOMAIN x.start : x.start[t] = x.start[u] => t = u
    /\ Waits \subseteq Node /\ MaxTimeout \in Nat /\ MaxLock \in Nat
    /\ Rules \subseteq {"owner", "pip", "delete", "free", "settled"}

VARIABLES
    os,     \* the kernel's data, see OsCore
    sc      \* the scenario of this run

kernelVars == <<os, sc>>

(* OSInit and OSStart with the tasks created.                              *)
Started(start) ==
    LET prios == {start[t] : t \in DOMAIN start}
        at(p) == CHOOSE t \in DOMAIN start : start[t] = p
    IN  [tcb |-> [t \in Task \cup {Idle} |->
                    Fresh(IF t \in DOMAIN start THEN start[t] ELSE Lowest)],
         list |-> DOMAIN start \cup {Idle},
         tbl |-> [p \in Prio |-> IF p = Lowest THEN Idle
                                 ELSE IF p \in prios THEN at(p) ELSE Nil],
         rdy |-> prios \cup {Lowest},
         ev |-> [e \in Event |-> Unused],
         grp |-> NoGroup,
         cur |-> at(Highest(prios)), prioCur |-> Highest(prios),
         lock |-> 0, defer |-> FALSE]

KernelInit ==
    /\ sc \in Scenarios
    /\ os = Started(sc.start)

-----------------------------------------------------------------------------
(* What the rules forbid.                                                  *)
Mutexes == {e \in Event : os.ev[e].type = "mutex"}
Owns(t) == \E e \in Mutexes : os.ev[e].ptr = t
MayWait == "owner" \in Rules => ~Owns(os.cur)
MayUse(e) == "pip" \in Rules => Cur(os).prio > os.ev[e].pip
MayMove(t) == "owner" \in Rules => ~Owns(t)
MayDelete(e, always) ==
    LET t == os.ev[e].ptr
    IN  \/ t = Nil
        \/ always /\ ("delete" \in Rules => t = os.cur)
        \/ ~always /\ "free" \notin Rules
MayChange(t) == /\ MayMove(t)
                /\ "settled" \in Rules => os.tcb[t].in = "no" /\ os.lock = 0
MayStop(t) == /\ MayMove(t)
              /\ "owner" \in Rules =>
                    ~(os.tcb[t].event \in Mutexes)

Do(next) == /\ os' = next
            /\ UNCHANGED sc

(* The running task is outside every service and calls one.                *)
Calls == os.cur \in Task /\ Cur(os).in = "no"
Blocking == Calls /\ os.lock = 0 /\ MayWait

SemCall ==
    /\ Calls
    /\ \E e \in Event :
        \/ /\ os.ev[e].type = "unused" /\ "sem" \in sc.kinds
           /\ \E cnt \in 0 .. 1 : Do(OSSemCreate(os, e, cnt))
        \/ /\ os.ev[e].type = "sem"
           /\ \/ Blocking /\ \E d \in 0 .. MaxTimeout : Do(OSSemPend(os, e, d))
              \/ Do(OSSemPost(os, e))
              \/ Do(OSSemAccept(os, e))
              \/ \E cnt \in 0 .. MaxCnt : Do(OSSemSet(os, e, cnt))
              \/ \E b \in BOOLEAN : Do(PendAbort(os, e, b))
              \/ \E b \in BOOLEAN : Do(Del(os, e, b))

MboxCall ==
    /\ Calls
    /\ \E e \in Event :
        \/ /\ os.ev[e].type = "unused" /\ "mbox" \in sc.kinds
           /\ \E m \in Message \cup {Nil} : Do(OSMboxCreate(os, e, m))
        \/ /\ os.ev[e].type = "mbox"
           /\ \/ Blocking /\ \E d \in 0 .. MaxTimeout : Do(OSMboxPend(os, e, d))
              \/ \E m \in Message : Do(OSMboxPost(os, e, m))
              \/ \E m \in Message, b, n \in BOOLEAN : Do(OSMboxPostOpt(os, e, m, b, n))
              \/ Do(OSMboxAccept(os, e))
              \/ \E b \in BOOLEAN : Do(PendAbort(os, e, b))
              \/ \E b \in BOOLEAN : Do(Del(os, e, b))

MutexCall ==
    /\ Calls
    /\ \E e \in Event :
        \/ /\ os.ev[e].type = "unused" /\ "mutex" \in sc.kinds
           /\ \E pip \in 0 .. Lowest - 1 : Do(OSMutexCreate(os, e, pip))
        \/ /\ os.ev[e].type = "mutex"
           /\ \/ Blocking /\ MayUse(e) /\ \E d \in 0 .. MaxTimeout : Do(OSMutexPend(os, e, d))
              \/ MayWait /\ MayUse(e) /\ Do(OSMutexAccept(os, e))
              \/ Do(OSMutexPost(os, e))
              \/ \E b \in BOOLEAN : MayDelete(e, b) /\ Do(OSMutexDel(os, e, b))

FlagCall ==
    /\ Calls
    /\ \/ /\ os.grp.type = "unused" /\ "flag" \in sc.kinds
          /\ \E flags \in SUBSET Flag : Do(OSFlagCreate(os, flags))
       \/ /\ os.grp.type = "flag"
          /\ \/ Blocking /\ \E w \in Waits, d \in 0 .. MaxTimeout : Do(OSFlagPend(os, w, d))
             \/ \E w \in Waits : Do(OSFlagAccept(os, w))
             \/ \E f \in SUBSET Flag \ {{}}, b \in BOOLEAN : Do(OSFlagPost(os, f, b))
             \/ \E b \in BOOLEAN : Do(OSFlagDel(os, b))

TaskCall ==
    /\ Calls
    /\ "manage" \in sc.kinds
    /\ \/ \E t \in DOMAIN sc.start \ os.list, p \in 0 .. Lowest - 1 : Do(OSTaskCreate(os, t, p))
       \/ \E p \in 0 .. Lowest - 1 :
            /\ Exists(os, p)
            /\ \/ MayStop(os.tbl[p]) /\ (os.tbl[p] = os.cur => os.lock = 0) /\ Do(OSTaskDel(os, p))
               \/ MayStop(os.tbl[p]) /\ (os.tbl[p] = os.cur => os.lock = 0) /\ Do(OSTaskSuspend(os, p))
               \/ Do(OSTaskResume(os, p))
               \/ Do(OSTimeDlyResume(os, p))
               \/ /\ MayChange(os.tbl[p])
                  /\ \E new \in 0 .. Lowest - 1 : Do(OSTaskChangePrio(os, p, new))

DelayCall ==
    /\ Calls
    /\ os.lock = 0
    /\ \E d \in 1 .. MaxTimeout : Do(OSTimeDly(os, d))

LockCall ==
    /\ Calls
    /\ \/ os.lock < MaxLock /\ Do(OSSchedLock(os))
       \/ os.lock > 0 /\ Do(OSSchedUnlock(os))

(* A task that blocked runs again and finishes the call.                   *)
Resume ==
    /\ os.cur \in Task
    /\ \/ Cur(os).in = "event" /\ Do(PendReturns(os))
       \/ Cur(os).in = "flag" /\ Do(OSFlagPendReturns(os))

(* Interrupts: OSIntEnter, the handler, OSIntExit.                         *)
Interrupt ==
    \/ Do(OSIntExit(OSTimeTick(os)))
    \/ \E e \in Event :
        \/ os.ev[e].type = "sem" /\ Do(OSIntExit(OSSemPost(os, e)))
        \/ os.ev[e].type = "mbox" /\ \E m \in Message : Do(OSIntExit(OSMboxPost(os, e, m)))
    \/ /\ os.grp.type = "flag"
       /\ \E f \in SUBSET Flag \ {{}}, b \in BOOLEAN : Do(OSIntExit(OSFlagPost(os, f, b)))

KernelNext == SemCall \/ MboxCall \/ MutexCall \/ FlagCall \/ TaskCall \/ DelayCall
        \/ LockCall \/ Resume \/ Interrupt

KernelSpec == KernelInit /\ [][KernelNext]_kernelVars

-----------------------------------------------------------------------------
KernelTypeOK ==
    /\ sc \in Scenarios
    /\ os.tcb \in [Task \cup {Idle} -> TCB]
    /\ os.list \subseteq Task \cup {Idle}
    /\ os.tbl \in [Prio -> Task \cup {Idle, Nil, Reserved}]
    /\ os.rdy \subseteq Prio
    /\ os.ev \in [Event -> ECB]
    /\ os.cur \in Task \cup {Idle} /\ os.prioCur \in Prio

(* A task is in the ready table exactly if it neither waits, nor is        *)
(* suspended, nor delayed, and it is found there under its own priority.   *)
ReadyExact ==
    /\ \A t \in os.list :
        /\ os.tcb[t].prio \in os.rdy <=>
            /\ os.tcb[t].stat = {}
            /\ os.tcb[t].dly = 0
        /\ os.tbl[os.tcb[t].prio] = t
    /\ \A p \in os.rdy : os.tbl[p] \in os.list /\ os.tcb[os.tbl[p]].prio = p

(* The processor runs the most urgent ready task whenever the scheduler is *)
(* not locked, except after a call that leaves out OS_Sched.               *)
RunsHighest ==
    os.lock = 0 /\ ~os.defer => os.cur = os.tbl[Highest(os.rdy)] /\ os.prioCur = Highest(os.rdy)

(* The wait list of an event or of the flag group holds exactly the tasks  *)
(* inside a Pend on it that nothing has been posted to: no task is         *)
(* forgotten in a list, none is readied and left there.                    *)
StillWaits(t) == os.tcb[t].stat \cap Pending # {} \/ os.tcb[t].pend = "to"
WaitListsExact ==
    /\ \A e \in Event :
        os.ev[e].wait = {os.tcb[t].prio : t \in {u \in os.list :
                            os.tcb[u].in = "event" /\ os.tcb[u].event = e /\ StillWaits(u)}}
    /\ os.grp.wait = {t \in os.list : os.tcb[t].in = "flag" /\ StillWaits(t)}

(* The kernel keeps every task's situation twice, in its TCB and in the    *)
(* ready and wait tables, and the services, the tick and the end of a Pend *)
(* each change both: they always agree.                                    *)
TablesExact == ReadyExact /\ WaitListsExact

(* No task waits for what is there: a post, a signal or an abort that      *)
(* comes between the steps of a Pend, the tick and a resume is not lost.   *)
NoSleepOnAvailable ==
    /\ \A e \in Event : os.ev[e].wait # {} =>
        \/ os.ev[e].type = "sem" /\ os.ev[e].cnt = 0
        \/ os.ev[e].type = "mbox" /\ os.ev[e].ptr = Nil
        \/ os.ev[e].type = "mutex" /\ os.ev[e].ptr # Nil
    /\ os.grp.quiet =>
        \A t \in os.grp.wait : "flag" \in os.tcb[t].stat => ~Satisfied(os.grp.flags, os.tcb[t].node)

(* A mutex bounds priority inversion: while a task waits for it that is    *)
(* more urgent than its owner was, the owner runs at the PIP; and it is    *)
(* back at its own priority when it gives the mutex up.                    *)
InversionBounded ==
    /\ \A e \in Mutexes : os.ev[e].ptr # Nil =>
        LET t == os.ev[e].ptr
        IN  /\ t \in os.list
            /\ os.tcb[t].prio \in {os.ev[e].cnt, os.ev[e].pip}
            /\ (\E p \in os.ev[e].wait : p < os.ev[e].cnt) => os.tcb[t].prio = os.ev[e].pip
    /\ \A t \in os.list : \A e \in Mutexes :
            os.tcb[t].prio = os.ev[e].pip => os.ev[e].ptr = t
=============================================================================

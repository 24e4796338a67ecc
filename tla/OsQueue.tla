------------------------------ MODULE OsQueue ------------------------------
(***************************************************************************)
(* A message queue of uC/OS-II: demo/UCOSII/CORE/os_q.c, with the parts of *)
(* os_core.c it uses (OS_EventTaskRdy, OS_EventTaskWait,                   *)
(* OS_EventTaskRemove, OSTimeTick).                                        *)
(*                                                                         *)
(* Every call changes the queue inside one critical section and is one     *)
(* step, except OSQPend, which a task that finds the queue empty leaves in *)
(* the middle (OS_Sched) and resumes later, when the post, the tick, the   *)
(* abort or the deletion that readied it may lie some steps back.  Which   *)
(* of the ready tasks runs is left open; OS_EventTaskRdy prefers the       *)
(* waiter with the smallest priority number, and a task is its priority.   *)
(***************************************************************************)
EXTENDS Integers, Sequences

CONSTANTS
    OSQSize,      \* capacity of the queue
    Task,         \* the priorities of the tasks that use it
    Msg,          \* messages; each is posted at most once
    NoMsg,        \* the null pointer
    MaxTimeout    \* bound: longest timeout a caller gives, in ticks

ASSUME OsQueueAssumption ==
    /\ OSQSize \in Nat \ {0}
    /\ Task \subseteq Nat
    /\ MaxTimeout \in Nat
    /\ NoMsg \notin Msg

VARIABLES
    created,    \* OSEventType = OS_EVENT_TYPE_Q
    store,      \* the array of pointers given to OSQCreate
    OSQIn, OSQOut, OSQEntries,
    wait,       \* OSEventGrp and OSEventTbl: the wait list
    pend,       \* per task: "run" outside OSQPend, "blocked", or "ready":
                \* readied but not yet running
    OSTCBStatPend, OSTCBDly, OSTCBMsg,
    posted,     \* history: messages OSQPost or OSQPostFront accepted
    taken,      \* history: messages returned to each task
    flushed     \* history: messages OSQFlush or OSQDel threw away

ring == <<store, OSQIn, OSQOut, OSQEntries>>
tcb == <<pend, OSTCBStatPend, OSTCBDly, OSTCBMsg>>
vars == <<created, ring, wait, tcb, posted, taken, flushed>>

Slot == 0 .. OSQSize - 1

(* The pointers step through the array and wrap at OSQEnd.                 *)
Succ(p) == IF p + 1 = OSQSize THEN 0 ELSE p + 1
Pred(p) == IF p = 0 THEN OSQSize - 1 ELSE p - 1

Init ==
    /\ created = 1
    /\ store = [i \in Slot |-> NoMsg]
    /\ OSQIn = 0 /\ OSQOut = 0 /\ OSQEntries = 0
    /\ wait = {}
    /\ pend = [t \in Task |-> "run"]
    /\ OSTCBStatPend = [t \in Task |-> "ok"]
    /\ OSTCBDly = [t \in Task |-> 0]
    /\ OSTCBMsg = [t \in Task |-> NoMsg]
    /\ posted = {}
    /\ taken = [t \in Task |-> {}]
    /\ flushed = {}

-----------------------------------------------------------------------------
(* OS_EventTaskRdy for the waiters in S, with one message and pend status: *)
(* each leaves the wait list even if its timeout has just readied it.      *)
OS_EventTaskRdy(S, m, stat) ==
    /\ wait' = wait \ S
    /\ pend' = [t \in Task |-> IF t \in S THEN "ready" ELSE pend[t]]
    /\ OSTCBStatPend' = [t \in Task |-> IF t \in S THEN stat ELSE OSTCBStatPend[t]]
    /\ OSTCBDly' = [t \in Task |-> IF t \in S THEN 0 ELSE OSTCBDly[t]]
    /\ OSTCBMsg' = [t \in Task |-> IF t \in S THEN m ELSE OSTCBMsg[t]]

HighestWaiting(t) == t \in wait /\ \A u \in wait : t <= u

(* A post while somebody waits: the message bypasses the queue.            *)
HandOver(m) ==
    \E t \in wait :
        /\ HighestWaiting(t)
        /\ OS_EventTaskRdy({t}, m, "ok")
        /\ UNCHANGED ring

CanPost(m) == created = 1 /\ m \notin posted

Accept(m) ==
    /\ posted' = posted \cup {m}
    /\ UNCHANGED <<created, taken, flushed>>

(* Mutant: the queue is used although a task waits.                        *)
OSQPost_NoHandOver(m) ==
    /\ CanPost(m)
    /\ OSQEntries < OSQSize
    /\ store' = [store EXCEPT ![OSQIn] = m]
    /\ OSQIn' = Succ(OSQIn)
    /\ OSQEntries' = OSQEntries + 1
    /\ UNCHANGED <<OSQOut, wait, tcb>>
    /\ Accept(m)

OSQPost(m) ==
    /\ CanPost(m)
    /\ \/ HandOver(m)
       \/ /\ wait = {}
          /\ OSQEntries < OSQSize
          /\ store' = [store EXCEPT ![OSQIn] = m]
          /\ OSQIn' = Succ(OSQIn)
          /\ OSQEntries' = OSQEntries + 1
          /\ UNCHANGED <<OSQOut, wait, tcb>>
    /\ Accept(m)

(* Mutant: the message is stored before OSQOut is moved back.              *)
OSQPostFront_LateStep(m) ==
    /\ CanPost(m)
    /\ \/ HandOver(m)
       \/ /\ wait = {}
          /\ OSQEntries < OSQSize
          /\ store' = [store EXCEPT ![OSQOut] = m]
          /\ OSQOut' = Pred(OSQOut)
          /\ OSQEntries' = OSQEntries + 1
          /\ UNCHANGED <<OSQIn, wait, tcb>>
    /\ Accept(m)

OSQPostFront(m) ==
    /\ CanPost(m)
    /\ \/ HandOver(m)
       \/ /\ wait = {}
          /\ OSQEntries < OSQSize
          /\ store' = [store EXCEPT ![Pred(OSQOut)] = m]
          /\ OSQOut' = Pred(OSQOut)
          /\ OSQEntries' = OSQEntries + 1
          /\ UNCHANGED <<OSQIn, wait, tcb>>
    /\ Accept(m)

(* The oldest message leaves the queue for task t: OSQPend or OSQAccept on *)
(* a queue that is not empty.                                              *)
Extract(t) ==
    /\ created = 1
    /\ pend[t] = "run"
    /\ OSQEntries > 0
    /\ taken' = [taken EXCEPT ![t] = @ \cup {store[OSQOut]}]
    /\ OSQOut' = Succ(OSQOut)
    /\ OSQEntries' = OSQEntries - 1
    /\ UNCHANGED <<created, store, OSQIn, wait, tcb, posted, flushed>>

(* OSQPend on an empty queue, up to OS_Sched; timeout 0 waits for ever.    *)
OSQPend(t, timeout) ==
    /\ created = 1
    /\ pend[t] = "run"
    /\ OSQEntries = 0
    /\ pend' = [pend EXCEPT ![t] = "blocked"]
    /\ OSTCBStatPend' = [OSTCBStatPend EXCEPT ![t] = "ok"]
    /\ OSTCBDly' = [OSTCBDly EXCEPT ![t] = timeout]
    /\ wait' = wait \cup {t}
    /\ UNCHANGED <<created, ring, OSTCBMsg, posted, taken, flushed>>

(* Mutant: the status is taken for a timeout unless it was aborted.        *)
OSQPendResume_AlwaysTimeout(t) ==
    /\ pend[t] = "ready"
    /\ wait' = wait \ {t}
    /\ pend' = [pend EXCEPT ![t] = "run"]
    /\ OSTCBStatPend' = [OSTCBStatPend EXCEPT ![t] = "ok"]
    /\ OSTCBMsg' = [OSTCBMsg EXCEPT ![t] = NoMsg]
    /\ UNCHANGED <<created, ring, OSTCBDly, posted, taken, flushed>>

(* The rest of OSQPend, when the task runs again: a message was handed     *)
(* over (or the queue was deleted: a null message), or the wait was        *)
(* aborted, or it timed out and the task leaves the wait list itself.      *)
OSQPendResume(t) ==
    /\ pend[t] = "ready"
    /\ \/ /\ OSTCBStatPend[t] = "ok"
          /\ taken' = [taken EXCEPT ![t] = @ \cup ({OSTCBMsg[t]} \ {NoMsg})]
          /\ UNCHANGED wait
       \/ /\ OSTCBStatPend[t] = "abort"
          /\ UNCHANGED <<wait, taken>>
       \/ /\ OSTCBStatPend[t] = "timeout"
          /\ wait' = wait \ {t}
          /\ UNCHANGED taken
    /\ pend' = [pend EXCEPT ![t] = "run"]
    /\ OSTCBStatPend' = [OSTCBStatPend EXCEPT ![t] = "ok"]
    /\ OSTCBMsg' = [OSTCBMsg EXCEPT ![t] = NoMsg]
    /\ UNCHANGED <<created, ring, OSTCBDly, posted, flushed>>

(* Mutant: the timeout readies the task without marking it.                *)
OSTimeTick_NoReady ==
    /\ \E t \in Task : OSTCBDly[t] # 0
    /\ OSTCBDly' = [t \in Task |-> IF OSTCBDly[t] = 0 THEN 0 ELSE OSTCBDly[t] - 1]
    /\ OSTCBStatPend' = [t \in Task |->
           IF OSTCBDly[t] = 1 THEN "timeout" ELSE OSTCBStatPend[t]]
    /\ UNCHANGED <<created, ring, wait, pend, OSTCBMsg, posted, taken, flushed>>

(* OSTimeTick readies the tasks whose delay runs out.  They stay in the    *)
(* wait list until they run.                                               *)
OSTimeTick ==
    /\ \E t \in Task : OSTCBDly[t] # 0
    /\ OSTCBDly' = [t \in Task |-> IF OSTCBDly[t] = 0 THEN 0 ELSE OSTCBDly[t] - 1]
    /\ OSTCBStatPend' = [t \in Task |->
           IF OSTCBDly[t] = 1 THEN "timeout" ELSE OSTCBStatPend[t]]
    /\ pend' = [t \in Task |-> IF OSTCBDly[t] = 1 THEN "ready" ELSE pend[t]]
    /\ UNCHANGED <<created, ring, wait, OSTCBMsg, posted, taken, flushed>>

(* OSQPendAbort: the most urgent waiter, or all of them.                   *)
OSQPendAbort ==
    /\ created = 1
    /\ wait # {}
    /\ \E S \in {wait} \cup {{t} : t \in {u \in wait : HighestWaiting(u)}} :
          OS_EventTaskRdy(S, NoMsg, "abort")
    /\ UNCHANGED <<created, ring, posted, taken, flushed>>

(* The slots between OSQOut and OSQIn.                                     *)
Occupied(p) ==
    \/ OSQOut <= p /\ p < OSQOut + OSQEntries
    \/ p < OSQOut + OSQEntries - OSQSize

InRing == {store[p] : p \in {q \in Slot : Occupied(q)}}

Empty ==
    /\ OSQIn' = 0
    /\ OSQOut' = 0
    /\ OSQEntries' = 0
    /\ flushed' = flushed \cup InRing
    /\ UNCHANGED store

OSQFlush ==
    /\ created = 1
    /\ Empty
    /\ UNCHANGED <<created, wait, tcb, posted, taken>>

(* OSQDel with OS_DEL_ALWAYS: the waiters get a null message and no error. *)
(* The indices are reset here and not in the next OSQCreate only; nothing  *)
(* reads them in between.                                                  *)
OSQDel ==
    /\ created = 1
    /\ created' = 0
    /\ OS_EventTaskRdy(wait, NoMsg, "ok")
    /\ Empty
    /\ UNCHANGED <<posted, taken>>

(* OSQCreate gives out the control block again.                            *)
OSQCreate ==
    /\ created = 0
    /\ created' = 1
    /\ Empty
    /\ UNCHANGED <<wait, tcb, posted, taken>>

Next ==
    \/ \E m \in Msg : OSQPost(m) \/ OSQPostFront(m)
    \/ \E t \in Task :
          \/ Extract(t)
          \/ \E d \in 0 .. MaxTimeout : OSQPend(t, d)
          \/ OSQPendResume(t)
    \/ OSTimeTick
    \/ OSQPendAbort
    \/ OSQFlush
    \/ OSQDel
    \/ OSQCreate

Spec == Init /\ [][Next]_vars

(* SysTick keeps ticking, and a ready task runs: the more urgent tasks of  *)
(* this program block.                                                     *)
FairSpec ==
    /\ Spec
    /\ WF_vars(OSTimeTick)
    /\ \A t \in Task : WF_vars(OSQPendResume(t))

-----------------------------------------------------------------------------
(* The variables keep their ranges; no index leaves the array.             *)
TypeOK ==
    /\ created \in 0 .. 1
    /\ store \in [Slot -> Msg \cup {NoMsg}]
    /\ OSQIn \in Slot /\ OSQOut \in Slot
    /\ OSQEntries \in 0 .. OSQSize
    /\ wait \subseteq Task
    /\ pend \in [Task -> {"run", "blocked", "ready"}]
    /\ OSTCBStatPend \in [Task -> {"ok", "abort", "timeout"}]
    /\ OSTCBDly \in [Task -> 0 .. MaxTimeout]
    /\ OSTCBMsg \in [Task -> Msg \cup {NoMsg}]
    /\ posted \subseteq Msg
    /\ taken \in [Task -> SUBSET Msg]
    /\ flushed \subseteq Msg

(* A task never sleeps on a queue that holds a message, not even in the    *)
(* window between its timeout and its return from OSQPend.                 *)
NoSleepOnMessage == OSQEntries > 0 => wait = {}

(* The wait list holds exactly the tasks inside OSQPend that no post,      *)
(* abort or deletion has readied; a delay runs only for those.             *)
WaitListExact ==
    \A t \in Task :
        /\ t \in wait <=>
              \/ pend[t] = "blocked"
              \/ pend[t] = "ready" /\ OSTCBStatPend[t] = "timeout"
        /\ OSTCBDly[t] # 0 => pend[t] = "blocked"
        /\ OSTCBMsg[t] # NoMsg => pend[t] = "ready" /\ OSTCBStatPend[t] = "ok"

(* Who waits is exactly who must: the list, the TCBs and the queue agree   *)
(* whatever order ticks, posts, aborts and returns from OSQPend come in.   *)
WaitersExact == NoSleepOnMessage /\ WaitListExact

InHand == {OSTCBMsg[t] : t \in Task} \ {NoMsg}

(* No accepted message is ever lost and none is delivered twice: it is in  *)
(* the queue, in the hand of one readied task, taken by one task, or was   *)
(* thrown away by OSQFlush or OSQDel.  In particular a post that races a   *)
(* timeout is not dropped with OS_ERR_TIMEOUT.                             *)
MessagesConserved ==
    /\ posted = InRing \cup InHand \cup flushed \cup UNION {taken[t] : t \in Task}
    /\ InRing \cap InHand = {}
    /\ flushed \cap (InRing \cup InHand) = {}
    /\ \A t \in Task :
          /\ taken[t] \cap (InRing \cup InHand \cup flushed) = {}
          /\ \A u \in Task \ {t} :
                /\ taken[t] \cap taken[u] = {}
                /\ OSTCBMsg[t] # OSTCBMsg[u] \/ OSTCBMsg[t] = NoMsg

(* A call of OSQPend with a timeout returns.                               *)
TimedPendReturns ==
    \A t \in Task : (pend[t] = "blocked" /\ OSTCBDly[t] # 0) ~> pend[t] = "run"

(* The indices agree, OSQIn is OSQEntries slots after OSQOut, and what     *)
(* lies between them are messages.                                         *)
RingInv ==
    /\ \/ OSQIn = OSQOut + OSQEntries
       \/ OSQIn = OSQOut + OSQEntries - OSQSize
    /\ \A p \in Slot : Occupied(p) => store[p] \in Msg

-----------------------------------------------------------------------------
(* The i-th oldest message lies i - 1 slots after OSQOut.                  *)
At(i) == IF OSQOut + i - 1 < OSQSize THEN OSQOut + i - 1 ELSE OSQOut + i - 1 - OSQSize

Items == [i \in 1 .. OSQEntries |-> store[At(i)]]

(* The array, the wait list and the TCBs together are the bounded queue of *)
(* module MsgQueue: first in, first out, posted to the front if asked, and *)
(* handed over in order of priority.                                       *)
Q == INSTANCE MsgQueue WITH
        Size <- OSQSize, items <- Items, waiting <- wait, hand <- OSTCBMsg
QueueSpec == Q!Spec
=============================================================================

--------------------------- MODULE OsQueueProofs ---------------------------
(***************************************************************************)
(* For every capacity, set of tasks and messages and every timeout: the    *)
(* queue of os_q.c never lets a task sleep on a message, and it implements *)
(* the bounded queue of module MsgQueue.  For every number of timers, size *)
(* of the wheel and length of the clock: the timer wheel of os_tmr.c is    *)
(* exact and no expiry is missed.                                          *)
(***************************************************************************)
EXTENDS OsQueue, OsTmr, SequenceTheorems, FunctionTheorems, FiniteSetTheorems, TLAPS

(* The inductive invariant.  That the wait list is empty while messages    *)
(* are queued is what makes OSQPost's choice (hand over or enqueue) keep   *)
(* the order of messages.                                                  *)
Inv == TypeOK /\ NoSleepOnMessage /\ WaitListExact /\ RingInv

(* Initially the queue is empty and nobody waits.                          *)
LEMMA InitInv == Init => Inv
<1> SUFFICES ASSUME Init PROVE Inv
  OBVIOUS
<1> USE OsQueueAssumption
<1>1. TypeOK
  BY DEF Init, TypeOK, Slot
<1>2. NoSleepOnMessage /\ WaitListExact
  BY DEF Init, NoSleepOnMessage, WaitListExact
<1>3. RingInv
  BY DEF Init, RingInv, Occupied, Slot
<1> QED BY <1>1, <1>2, <1>3 DEF Inv

(* Readying some waiters with a message or none keeps the wait list exact, *)
(* also for a waiter whose timeout has just expired.                       *)
LEMMA ReadyInv ==
    ASSUME Inv, NEW S \in SUBSET wait, NEW m \in Msg \cup {NoMsg},
           NEW stat \in {"ok", "abort"}, m # NoMsg => stat = "ok",
           OS_EventTaskRdy(S, m, stat)
    PROVE  /\ wait' \subseteq wait
           /\ pend' \in [Task -> {"run", "blocked", "ready"}]
           /\ OSTCBStatPend' \in [Task -> {"ok", "abort", "timeout"}]
           /\ OSTCBDly' \in [Task -> 0 .. MaxTimeout]
           /\ OSTCBMsg' \in [Task -> Msg \cup {NoMsg}]
           /\ WaitListExact'
<1> USE OsQueueAssumption DEF Inv
<1>1. /\ wait' \subseteq wait
      /\ pend' \in [Task -> {"run", "blocked", "ready"}]
      /\ OSTCBStatPend' \in [Task -> {"ok", "abort", "timeout"}]
      /\ OSTCBDly' \in [Task -> 0 .. MaxTimeout]
      /\ OSTCBMsg' \in [Task -> Msg \cup {NoMsg}]
  BY DEF OS_EventTaskRdy, TypeOK
<1>2. WaitListExact'
  BY DEF OS_EventTaskRdy, TypeOK, WaitListExact
<1> QED BY <1>1, <1>2

(* The slots OSQIn and OSQOut move to are slots, and they stay OSQEntries  *)
(* apart.                                                                  *)
LEMMA StepIndex ==
    ASSUME NEW p \in Slot
    PROVE  Succ(p) \in Slot /\ Pred(p) \in Slot
BY OsQueueAssumption DEF Slot, Succ, Pred

(* A step that leaves the array and the indices alone.                     *)
LEMMA SameRing == RingInv /\ UNCHANGED ring => RingInv'
BY DEF RingInv, Occupied, ring

(* Emptying the queue: OSQFlush, OSQDel and OSQCreate.                     *)
LEMMA EmptyInv ==
    ASSUME Inv, Empty
    PROVE  /\ OSQIn' = 0 /\ OSQOut' = 0 /\ OSQEntries' = 0
           /\ 0 \in Slot
           /\ store' \in [Slot -> Msg \cup {NoMsg}]
           /\ flushed' \subseteq Msg
           /\ RingInv'
<1> USE OsQueueAssumption
<1>1. OSQIn' = 0 /\ OSQOut' = 0 /\ OSQEntries' = 0 /\ store' = store
  BY DEF Empty
<1>2. flushed' \subseteq Msg
  BY DEF Empty, InRing, Inv, TypeOK, RingInv
<1>3. RingInv'
  BY <1>1 DEF RingInv, Occupied, Slot
<1> QED BY <1>1, <1>2, <1>3 DEF Inv, TypeOK, Slot

(* Both posts preserve the invariant.                                      *)
LEMMA PostInv ==
    ASSUME Inv, NEW m \in Msg, OSQPost(m) \/ OSQPostFront(m)
    PROVE  Inv'
<1> USE OsQueueAssumption
<1>0. posted' \subseteq Msg /\ UNCHANGED <<created, taken, flushed>>
  BY DEF OSQPost, OSQPostFront, Accept, Inv, TypeOK
<1>1. CASE HandOver(m)
  <2>1. PICK t \in wait : OS_EventTaskRdy({t}, m, "ok") /\ UNCHANGED ring
    BY <1>1 DEF HandOver
  <2>2. {t} \in SUBSET wait
    OBVIOUS
  <2>3. /\ wait' \subseteq wait
        /\ pend' \in [Task -> {"run", "blocked", "ready"}]
        /\ OSTCBStatPend' \in [Task -> {"ok", "abort", "timeout"}]
        /\ OSTCBDly' \in [Task -> 0 .. MaxTimeout]
        /\ OSTCBMsg' \in [Task -> Msg \cup {NoMsg}]
        /\ WaitListExact'
    BY <2>1, <2>2, ReadyInv
  <2> QED BY <1>0, <2>1, <2>3, SameRing DEF Inv, TypeOK, NoSleepOnMessage, ring
<1>2. CASE ~HandOver(m)
  <2>1. /\ wait = {}
        /\ OSQEntries < OSQSize
        /\ OSQEntries' = OSQEntries + 1
        /\ store' \in [Slot -> Msg \cup {NoMsg}]
        /\ \/ /\ OSQIn' = Succ(OSQIn) /\ OSQOut' = OSQOut
              /\ store' = [store EXCEPT ![OSQIn] = m]
           \/ /\ OSQOut' = Pred(OSQOut) /\ OSQIn' = OSQIn
              /\ store' = [store EXCEPT ![Pred(OSQOut)] = m]
        /\ UNCHANGED <<wait, tcb>>
    BY <1>2, StepIndex DEF OSQPost, OSQPostFront, Inv, TypeOK
  <2>2. RingInv'
    <3>0. /\ OSQIn \in Slot /\ OSQOut \in Slot
          /\ OSQEntries \in Nat /\ OSQSize \in Nat
          /\ store \in [Slot -> Msg \cup {NoMsg}]
      BY DEF Inv, TypeOK
    <3>1. CASE /\ OSQIn' = Succ(OSQIn) /\ OSQOut' = OSQOut
               /\ store' = [store EXCEPT ![OSQIn] = m]
      <4>1. \/ OSQIn' = OSQOut' + OSQEntries'
            \/ OSQIn' = OSQOut' + OSQEntries' - OSQSize
        BY <2>1, <3>0, <3>1 DEF Inv, RingInv, Succ, Slot
      <4>2. ASSUME NEW p \in Slot, Occupied(p)' PROVE store'[p] \in Msg
        <5>1. p = OSQIn \/ Occupied(p)
          BY <2>1, <3>0, <3>1, <4>2 DEF Inv, RingInv, Occupied, Slot
        <5> QED BY <3>0, <3>1, <5>1 DEF Inv, RingInv
      <4> QED BY <4>1, <4>2 DEF RingInv
    <3>2. CASE /\ OSQOut' = Pred(OSQOut) /\ OSQIn' = OSQIn
               /\ store' = [store EXCEPT ![Pred(OSQOut)] = m]
      <4>1. \/ OSQIn' = OSQOut' + OSQEntries'
            \/ OSQIn' = OSQOut' + OSQEntries' - OSQSize
        BY <2>1, <3>0, <3>2 DEF Inv, RingInv, Pred, Slot
      <4>2. ASSUME NEW p \in Slot, Occupied(p)' PROVE store'[p] \in Msg
        <5>1. p = Pred(OSQOut) \/ Occupied(p)
          BY <2>1, <3>0, <3>2, <4>2 DEF Inv, RingInv, Occupied, Slot, Pred
        <5> QED BY <3>0, <3>2, <5>1, StepIndex DEF Inv, RingInv
      <4> QED BY <4>1, <4>2 DEF RingInv
    <3> QED BY <2>1, <3>1, <3>2
  <2>3. TypeOK'
    BY <1>0, <2>1, StepIndex DEF Inv, TypeOK, tcb
  <2> QED BY <2>1, <2>2, <2>3 DEF Inv, NoSleepOnMessage, WaitListExact, tcb
<1> QED BY <1>1, <1>2

(* Every other step preserves the invariant.                               *)
LEMMA NextInv == Inv /\ [Next]_vars => Inv'
<1> SUFFICES ASSUME Inv, [Next]_vars PROVE Inv'
  OBVIOUS
<1> USE OsQueueAssumption
<1>1. ASSUME NEW m \in Msg, OSQPost(m) \/ OSQPostFront(m) PROVE Inv'
  BY <1>1, PostInv
<1>2. ASSUME NEW t \in Task, Extract(t) PROVE Inv'
  <2>0. /\ OSQIn \in Slot /\ OSQOut \in Slot
        /\ OSQEntries \in Nat /\ OSQSize \in Nat /\ OSQEntries > 0
        /\ OSQOut' = Succ(OSQOut) /\ OSQEntries' = OSQEntries - 1
        /\ store' = store /\ OSQIn' = OSQIn
    BY <1>2 DEF Extract, Inv, TypeOK
  <2>1. RingInv'
    <3>1. \/ OSQIn' = OSQOut' + OSQEntries'
          \/ OSQIn' = OSQOut' + OSQEntries' - OSQSize
      BY <2>0 DEF Inv, RingInv, Succ, Slot
    <3>2. ASSUME NEW p \in Slot, Occupied(p)' PROVE Occupied(p)
      BY <2>0, <3>2 DEF Inv, RingInv, Occupied, Slot, Succ
    <3> QED BY <2>0, <3>1, <3>2 DEF Inv, RingInv
  <2>2. store[OSQOut] \in Msg
    BY <2>0 DEF Inv, RingInv, Occupied, Slot
  <2>3. TypeOK'
    BY <1>2, <2>0, <2>2, StepIndex DEF Extract, Inv, TypeOK, tcb
  <2> QED BY <1>2, <2>1, <2>3 DEF Extract, Inv, NoSleepOnMessage, WaitListExact, tcb
<1>3. ASSUME NEW t \in Task, NEW d \in 0 .. MaxTimeout, OSQPend(t, d) PROVE Inv'
  <2>1. TypeOK'
    BY <1>3 DEF OSQPend, Inv, TypeOK, ring
  <2>2. WaitListExact'
    BY <1>3 DEF OSQPend, Inv, TypeOK, WaitListExact
  <2> QED BY <1>3, <2>1, <2>2, SameRing DEF OSQPend, Inv, NoSleepOnMessage, ring
<1>4. ASSUME NEW t \in Task, OSQPendResume(t) PROVE Inv'
  <2>1. TypeOK'
    <3>0. {OSTCBMsg[t]} \ {NoMsg} \subseteq Msg
      BY DEF Inv, TypeOK
    <3>1. taken[t] \cup ({OSTCBMsg[t]} \ {NoMsg}) \in SUBSET Msg
      BY <3>0 DEF Inv, TypeOK
    <3>2. /\ \/ taken' = [taken EXCEPT ![t] = taken[t] \cup ({OSTCBMsg[t]} \ {NoMsg})]
             \/ taken' = taken
          /\ wait' \subseteq wait
      BY <1>4 DEF OSQPendResume
    <3>3. taken' \in [Task -> SUBSET Msg] /\ wait' \subseteq Task
      BY <3>1, <3>2 DEF Inv, TypeOK
    <3> QED BY <1>4, <3>3 DEF OSQPendResume, Inv, TypeOK, ring
  <2>2. WaitListExact'
    BY <1>4 DEF OSQPendResume, Inv, TypeOK, WaitListExact
  <2>3. wait' \subseteq wait
    BY <1>4 DEF OSQPendResume
  <2> QED BY <1>4, <2>1, <2>2, <2>3, SameRing DEF OSQPendResume, Inv, NoSleepOnMessage, ring
<1>5. CASE OSTimeTick
  <2>1. TypeOK'
    BY <1>5 DEF OSTimeTick, Inv, TypeOK, ring
  <2>2. WaitListExact'
    <3> SUFFICES ASSUME NEW t \in Task
                 PROVE  /\ t \in wait <=>
                              \/ pend'[t] = "blocked"
                              \/ pend'[t] = "ready" /\ OSTCBStatPend'[t] = "timeout"
                        /\ OSTCBDly'[t] # 0 => pend'[t] = "blocked"
                        /\ OSTCBMsg[t] # NoMsg =>
                              pend'[t] = "ready" /\ OSTCBStatPend'[t] = "ok"
      BY <1>5 DEF OSTimeTick, WaitListExact
    <3>1. CASE OSTCBDly[t] = 1
      BY <1>5, <3>1 DEF OSTimeTick, Inv, TypeOK, WaitListExact
    <3>2. CASE OSTCBDly[t] # 1
      BY <1>5, <3>2 DEF OSTimeTick, Inv, TypeOK, WaitListExact
    <3> QED BY <3>1, <3>2
  <2> QED BY <1>5, <2>1, <2>2, SameRing DEF OSTimeTick, Inv, NoSleepOnMessage, ring
<1>6. CASE OSQPendAbort
  <2>1. PICK S \in SUBSET wait : OS_EventTaskRdy(S, NoMsg, "abort")
    BY <1>6 DEF OSQPendAbort
  <2>2. /\ wait' \subseteq wait
        /\ pend' \in [Task -> {"run", "blocked", "ready"}]
        /\ OSTCBStatPend' \in [Task -> {"ok", "abort", "timeout"}]
        /\ OSTCBDly' \in [Task -> 0 .. MaxTimeout]
        /\ OSTCBMsg' \in [Task -> Msg \cup {NoMsg}]
        /\ WaitListExact'
    BY <2>1, ReadyInv
  <2> QED BY <1>6, <2>2, SameRing DEF OSQPendAbort, Inv, TypeOK, NoSleepOnMessage, ring
<1>7. CASE OSQFlush \/ OSQCreate
  <2>1. Empty /\ UNCHANGED <<wait, tcb, posted, taken>> /\ created' \in 0 .. 1
    BY <1>7 DEF OSQFlush, OSQCreate, Inv, TypeOK
  <2> QED BY <2>1, EmptyInv DEF Inv, TypeOK, NoSleepOnMessage, WaitListExact, tcb
<1>8. CASE OSQDel
  <2>1. /\ wait' \subseteq wait
        /\ pend' \in [Task -> {"run", "blocked", "ready"}]
        /\ OSTCBStatPend' \in [Task -> {"ok", "abort", "timeout"}]
        /\ OSTCBDly' \in [Task -> 0 .. MaxTimeout]
        /\ OSTCBMsg' \in [Task -> Msg \cup {NoMsg}]
        /\ WaitListExact'
    BY <1>8, ReadyInv DEF OSQDel
  <2>2. Empty /\ UNCHANGED <<posted, taken>> /\ created' \in 0 .. 1
    BY <1>8 DEF OSQDel
  <2> QED BY <2>1, <2>2, EmptyInv DEF Inv, TypeOK, NoSleepOnMessage
<1>9. CASE UNCHANGED vars
  BY <1>9, SameRing DEF vars, ring, tcb, Inv, TypeOK, NoSleepOnMessage, WaitListExact
<1> QED BY <1>1, <1>2, <1>3, <1>4, <1>5, <1>6, <1>7, <1>8, <1>9 DEF Next

(* The invariant holds in every reachable state.                           *)
LEMMA Invariance == Spec => []Inv
BY InitInv, NextInv, PTL DEF Spec

(* OSQIn and OSQOut never leave the array and the count never exceeds it.  *)
THEOREM TypeCorrect == Spec => []TypeOK
<1>1. Inv => TypeOK
  BY DEF Inv
<1> QED BY <1>1, Invariance, PTL

(* OSQPend never blocks while a message is queued, and no post queues one  *)
(* while somebody waits.                                                   *)
THEOREM NeverSleepsOnMessage == Spec => []NoSleepOnMessage
<1>1. Inv => NoSleepOnMessage
  BY DEF Inv
<1> QED BY <1>1, Invariance, PTL

(* The wait list, the delays and the TCBs agree in every reachable state.  *)
THEOREM WaitListCorrect == Spec => []WaitListExact
<1>1. Inv => WaitListExact
  BY DEF Inv
<1> QED BY <1>1, Invariance, PTL

(* So a task waits in the list of a queue exactly if it must.              *)
THEOREM WaitersCorrect == Spec => []WaitersExact
<1> QED BY NeverSleepsOnMessage, WaitListCorrect, PTL DEF WaitersExact

-----------------------------------------------------------------------------
(* Messages are conserved.  Where the messages are: in the ring R, in the  *)
(* hands M, thrown away F, or taken T; P are those posted.                 *)
Placed(P, R, M, F, T) ==
    /\ R \subseteq Msg /\ M \in [Task -> Msg \cup {NoMsg}]
    /\ F \subseteq Msg /\ T \in [Task -> SUBSET Msg] /\ P \subseteq Msg
    /\ \A m \in Msg : m \in P <=>
          m \in R \/ m \in F \/ \E t \in Task : M[t] = m \/ m \in T[t]
    /\ \A m \in R : m \notin F /\ \A t \in Task : M[t] # m /\ m \notin T[t]
    /\ \A m \in F : \A t \in Task : M[t] # m /\ m \notin T[t]
    /\ \A t, u \in Task : M[u] \notin T[t]
    /\ \A t, u \in Task : t # u => T[t] \cap T[u] = {} /\ (M[t] # M[u] \/ M[t] = NoMsg)

(* The slots between OSQOut and OSQIn hold different messages: the part    *)
(* that makes conservation inductive, since a message taken from one slot  *)
(* must not stay in another.                                               *)
Distinct ==
    \A p, q \in Slot : Occupied(p) /\ Occupied(q) /\ store[p] = store[q] => p = q

InPlace == Placed(posted, InRing, OSTCBMsg, flushed, taken) /\ Distinct

(* A new message is put in the ring.                                       *)
LEMMA PutInRing ==
    ASSUME NEW P, NEW R, NEW M, NEW F, NEW T, Placed(P, R, M, F, T), NEW m \in Msg, m \notin P
    PROVE  Placed(P \cup {m}, R \cup {m}, M, F, T)
<1>1. m \notin F /\ \A t \in Task : M[t] # m /\ m \notin T[t]  BY DEF Placed
<1> QED BY <1>1 DEF Placed

(* A new message is handed to a task that has none.                        *)
LEMMA PutInHand ==
    ASSUME NEW P, NEW R, NEW M, NEW F, NEW T, Placed(P, R, M, F, T), NEW m \in Msg, m \notin P,
           NEW t \in Task, M[t] = NoMsg, NEW N, N = [M EXCEPT ![t] = m]
    PROVE  Placed(P \cup {m}, R, N, F, T)
<1> USE OsQueueAssumption
<1>1. /\ m \notin R /\ m \notin F /\ \A u \in Task : M[u] # m /\ m \notin T[u]
      /\ M \in [Task -> Msg \cup {NoMsg}]
  BY DEF Placed
<1>2. /\ N \in [Task -> Msg \cup {NoMsg}] /\ N[t] = m
      /\ \A u \in Task : u # t => N[u] = M[u]
  BY <1>1
<1>3. ASSUME NEW x \in Msg
      PROVE  x \in P \cup {m} <=> x \in R \/ x \in F \/ \E u \in Task : N[u] = x \/ x \in T[u]
  BY <1>2 DEF Placed
<1>4. \A x \in R : x \notin F /\ \A u \in Task : N[u] # x /\ x \notin T[u]
  BY <1>1, <1>2 DEF Placed
<1>5. \A x \in F : \A u \in Task : N[u] # x /\ x \notin T[u]
  BY <1>1, <1>2 DEF Placed
<1>6. \A v, u \in Task : N[u] \notin T[v]
  BY <1>1, <1>2 DEF Placed
<1>7. \A v, u \in Task : v # u => T[v] \cap T[u] = {} /\ (N[v] # N[u] \/ N[v] = NoMsg)
  BY <1>1, <1>2 DEF Placed
<1> QED BY <1>2, <1>3, <1>4, <1>5, <1>6, <1>7 DEF Placed

(* A message of the ring is taken.                                         *)
LEMMA TakeFromRing ==
    ASSUME NEW P, NEW R, NEW M, NEW F, NEW T, Placed(P, R, M, F, T), NEW m \in R,
           NEW t \in Task, NEW N, N = [T EXCEPT ![t] = @ \cup {m}]
    PROVE  Placed(P, R \ {m}, M, F, N)
<1>1. /\ m \in Msg /\ m \notin F /\ \A u \in Task : M[u] # m /\ m \notin T[u]
      /\ T \in [Task -> SUBSET Msg]
  BY DEF Placed
<1>2. /\ N \in [Task -> SUBSET Msg] /\ N[t] = T[t] \cup {m}
      /\ \A u \in Task : u # t => N[u] = T[u]
  BY <1>1
<1>3. \A u \in Task : \A x : x \in N[u] <=> x \in T[u] \/ (x = m /\ u = t)  BY <1>2
<1>4. ASSUME NEW x \in Msg
      PROVE  x \in P <=> x \in R \ {m} \/ x \in F \/ \E u \in Task : M[u] = x \/ x \in N[u]
  BY <1>3 DEF Placed
<1>5. \A x \in R \ {m} : x \notin F /\ \A u \in Task : M[u] # x /\ x \notin N[u]
  BY <1>3 DEF Placed
<1>6. \A x \in F : \A u \in Task : M[u] # x /\ x \notin N[u]
  BY <1>1, <1>3 DEF Placed
<1>7. \A v, u \in Task : M[u] \notin N[v]
  BY <1>1, <1>3 DEF Placed
<1>8. ASSUME NEW v \in Task, NEW u \in Task, v # u
      PROVE  N[v] \cap N[u] = {} /\ (M[v] # M[u] \/ M[v] = NoMsg)
  <2>1. T[v] \cap T[u] = {} /\ (M[v] # M[u] \/ M[v] = NoMsg)  BY <1>8 DEF Placed
  <2> QED BY <1>1, <1>3, <1>8, <2>1
<1> QED BY <1>2, <1>4, <1>5, <1>6, <1>7, <1>8 DEF Placed

(* A task takes what it has in hand, a message or nothing.                 *)
LEMMA TakeFromHand ==
    ASSUME NEW P, NEW R, NEW M, NEW F, NEW T, Placed(P, R, M, F, T), NEW t \in Task,
           NEW L, L = [M EXCEPT ![t] = NoMsg],
           NEW N, N = [T EXCEPT ![t] = @ \cup ({M[t]} \ {NoMsg})]
    PROVE  Placed(P, R, L, F, N)
<1> USE OsQueueAssumption
<1>1. T \in [Task -> SUBSET Msg] /\ M \in [Task -> Msg \cup {NoMsg}]  BY DEF Placed
<1>2. /\ N \in [Task -> SUBSET Msg] /\ L \in [Task -> Msg \cup {NoMsg}] /\ L[t] = NoMsg
      /\ N[t] = T[t] \cup ({M[t]} \ {NoMsg})
      /\ \A u \in Task : u # t => N[u] = T[u] /\ L[u] = M[u]
  BY <1>1
<1>3. \A u \in Task : \A x : x \in N[u] <=> x \in T[u] \/ (x # NoMsg /\ x = M[t] /\ u = t)
  BY <1>2
<1>4. \A u \in Task : \A x \in Msg : L[u] = x <=> M[u] = x /\ u # t  BY <1>2
<1>5. ASSUME NEW x \in Msg
      PROVE  x \in P <=> x \in R \/ x \in F \/ \E u \in Task : L[u] = x \/ x \in N[u]
  BY <1>3, <1>4 DEF Placed
<1>6. \A x \in R : x \notin F /\ \A u \in Task : L[u] # x /\ x \notin N[u]
  BY <1>3, <1>4 DEF Placed
<1>7. \A x \in F : \A u \in Task : L[u] # x /\ x \notin N[u]
  BY <1>3, <1>4 DEF Placed
<1>8. ASSUME NEW v \in Task, NEW u \in Task PROVE L[u] \notin N[v]
  <2>1. CASE u = t
    <3>1. NoMsg \notin N[v]  BY <1>2
    <3> QED BY <1>2, <2>1, <3>1
  <2>2. CASE u # t
    <3>1. L[u] = M[u] /\ M[u] \notin T[v] /\ (M[u] # M[t] \/ M[u] = NoMsg)
      BY <1>2, <2>2 DEF Placed
    <3> QED BY <1>3, <3>1
  <2> QED BY <2>1, <2>2
<1>9. ASSUME NEW v \in Task, NEW u \in Task, v # u
      PROVE  N[v] \cap N[u] = {} /\ (L[v] # L[u] \/ L[v] = NoMsg)
  <2>1. /\ T[v] \cap T[u] = {} /\ (M[v] # M[u] \/ M[v] = NoMsg)
        /\ M[t] \notin T[u] /\ M[t] \notin T[v]
    BY <1>9 DEF Placed
  <2>2. N[v] \cap N[u] = {}  BY <1>3, <1>9, <2>1
  <2>3. L[v] # L[u] \/ L[v] = NoMsg  BY <1>2, <1>9, <2>1
  <2> QED BY <2>2, <2>3
<1> QED BY <1>2, <1>5, <1>6, <1>7, <1>8, <1>9 DEF Placed

(* The ring is thrown away.                                                *)
LEMMA ThrowAway ==
    ASSUME NEW P, NEW R, NEW M, NEW F, NEW T, Placed(P, R, M, F, T)
    PROVE  Placed(P, {}, M, F \cup R, T)
BY DEF Placed

(* A post fills the slot before OSQOut or at OSQIn, which was not occupied.*)
LEMMA PostOccupies ==
    ASSUME Inv, OSQEntries < OSQSize, OSQEntries' = OSQEntries + 1, NEW k \in Slot,
           \/ k = OSQIn /\ OSQOut' = OSQOut
           \/ k = Pred(OSQOut) /\ OSQOut' = Pred(OSQOut)
    PROVE  /\ ~Occupied(k)
           /\ \A p \in Slot : Occupied(p)' <=> Occupied(p) \/ p = k
<1> USE OsQueueAssumption
<1>1. /\ OSQIn \in Slot /\ OSQOut \in Slot /\ OSQEntries \in Nat /\ OSQSize \in Nat
      /\ \/ OSQIn = OSQOut + OSQEntries
         \/ OSQIn = OSQOut + OSQEntries - OSQSize
  BY DEF Inv, TypeOK, RingInv
<1>2. CASE k = OSQIn /\ OSQOut' = OSQOut
  <2>1. ~Occupied(k)  BY <1>1, <1>2 DEF Occupied, Slot
  <2>2. ASSUME NEW p \in Slot PROVE Occupied(p)' <=> Occupied(p) \/ p = k
    BY <1>1, <1>2 DEF Occupied, Slot
  <2> QED BY <2>1, <2>2
<1>3. CASE k = Pred(OSQOut) /\ OSQOut' = Pred(OSQOut)
  <2>1. ~Occupied(k)  BY <1>1, <1>3 DEF Occupied, Slot, Pred
  <2>2. ASSUME NEW p \in Slot PROVE Occupied(p)' <=> Occupied(p) \/ p = k
    BY <1>1, <1>3 DEF Occupied, Slot, Pred
  <2> QED BY <2>1, <2>2
<1> QED BY <1>2, <1>3

(* OSQPend and OSQAccept empty the slot at OSQOut.                         *)
LEMMA ExtractLeaves ==
    ASSUME Inv, OSQEntries > 0, OSQEntries' = OSQEntries - 1, OSQOut' = Succ(OSQOut)
    PROVE  /\ OSQOut \in Slot /\ Occupied(OSQOut)
           /\ \A p \in Slot : Occupied(p)' <=> Occupied(p) /\ p # OSQOut
<1> USE OsQueueAssumption
<1>1. /\ OSQOut \in Slot /\ OSQEntries \in Nat /\ OSQSize \in Nat /\ OSQEntries <= OSQSize
  BY DEF Inv, TypeOK
<1>2. Occupied(OSQOut)  BY <1>1 DEF Occupied, Slot
<1>3. ASSUME NEW p \in Slot PROVE Occupied(p)' <=> Occupied(p) /\ p # OSQOut
  BY <1>1 DEF Occupied, Slot, Succ
<1> QED BY <1>1, <1>2, <1>3

(* A post puts its message in the ring or in a hand.                       *)
LEMMA PostPlaces ==
    ASSUME Inv, InPlace, NEW m \in Msg, OSQPost(m) \/ OSQPostFront(m)
    PROVE  InPlace'
<1> USE OsQueueAssumption
<1>0. /\ m \notin posted /\ posted' = posted \cup {m} /\ UNCHANGED <<taken, flushed>>
      /\ Placed(posted, InRing, OSTCBMsg, flushed, taken) /\ Distinct
      /\ store \in [Slot -> Msg \cup {NoMsg}]
  BY DEF OSQPost, OSQPostFront, Accept, CanPost, InPlace, Inv, TypeOK
<1>1. CASE HandOver(m)
  <2>1. PICK t \in wait : OS_EventTaskRdy({t}, m, "ok") /\ UNCHANGED ring
    BY <1>1 DEF HandOver
  <2>2. t \in Task /\ OSTCBMsg[t] = NoMsg
    BY DEF Inv, TypeOK, WaitListExact
  <2>3. OSTCBMsg' = [OSTCBMsg EXCEPT ![t] = m]
    BY <2>1, <2>2 DEF OS_EventTaskRdy, Inv, TypeOK
  <2>4. Placed(posted \cup {m}, InRing, OSTCBMsg', flushed, taken)
    BY <1>0, <2>2, <2>3, PutInHand
  <2>5. InRing' = InRing /\ Distinct'
    BY <1>0, <2>1 DEF InRing, Distinct, Occupied, ring
  <2> QED BY <1>0, <2>4, <2>5 DEF InPlace, Placed
<1>2. CASE ~HandOver(m)
  <2>1. PICK k \in Slot : /\ store' = [store EXCEPT ![k] = m]
                          /\ \/ k = OSQIn /\ OSQOut' = OSQOut
                             \/ k = Pred(OSQOut) /\ OSQOut' = Pred(OSQOut)
    BY <1>2, StepIndex DEF OSQPost, OSQPostFront, Inv, TypeOK
  <2>2. OSQEntries < OSQSize /\ OSQEntries' = OSQEntries + 1 /\ OSTCBMsg' = OSTCBMsg
    BY <1>2 DEF OSQPost, OSQPostFront, tcb
  <2>3. ~Occupied(k) /\ \A p \in Slot : Occupied(p)' <=> Occupied(p) \/ p = k
    BY <2>1, <2>2, PostOccupies
  <2>4. store'[k] = m /\ \A p \in Slot : p # k => store'[p] = store[p]
    BY <1>0, <2>1
  <2>5. \A p \in Slot : Occupied(p) => store'[p] = store[p] /\ p # k
    BY <2>3, <2>4
  <2>6. InRing' = InRing \cup {m}
    BY <2>3, <2>4, <2>5 DEF InRing
  <2>7. m \notin InRing
    BY <1>0 DEF Placed
  <2>8. Distinct'
    <3> SUFFICES ASSUME NEW p \in Slot, NEW q \in Slot, Occupied(p)', Occupied(q)',
                        store'[p] = store'[q]
                 PROVE  p = q
      BY DEF Distinct
    <3>1. ASSUME NEW r \in Slot, Occupied(r) PROVE store'[r] # m
      BY <2>5, <2>7, <3>1 DEF InRing
    <3> QED BY <1>0, <2>3, <2>4, <2>5, <3>1 DEF Distinct
  <2>9. Placed(posted \cup {m}, InRing \cup {m}, OSTCBMsg, flushed, taken)
    BY <1>0, PutInRing
  <2> QED BY <1>0, <2>2, <2>6, <2>8, <2>9 DEF InPlace, Placed
<1> QED BY <1>1, <1>2

(* Readying waiters without a message, by an abort or a deletion, changes  *)
(* nobody's hand: a waiter has nothing in it.                              *)
LEMMA NothingInHand ==
    ASSUME Inv, NEW S \in SUBSET wait, NEW stat, OS_EventTaskRdy(S, NoMsg, stat)
    PROVE  OSTCBMsg' = OSTCBMsg
<1>1. \A t \in S : OSTCBMsg[t] = NoMsg
  BY DEF Inv, TypeOK, WaitListExact
<1> QED BY <1>1 DEF OS_EventTaskRdy, Inv, TypeOK

(* The queue is emptied.                                                   *)
LEMMA EmptyPlaces ==
    ASSUME Inv, InPlace, Empty, UNCHANGED <<posted, taken, OSTCBMsg>>
    PROVE  InPlace'
<1>1. OSQOut' = 0 /\ OSQEntries' = 0 /\ flushed' = flushed \cup InRing  BY DEF Empty
<1>2. \A p \in Slot : ~Occupied(p)'
  BY <1>1, OsQueueAssumption DEF Occupied, Slot
<1>3. InRing' = {} /\ Distinct'  BY <1>2 DEF InRing, Distinct
<1>4. Placed(posted, {}, OSTCBMsg, flushed \cup InRing, taken)  BY ThrowAway DEF InPlace
<1> QED BY <1>1, <1>3, <1>4 DEF InPlace, Placed

(* Every step leaves each message in one place.                            *)
LEMMA NextPlaces == Inv /\ InPlace /\ [Next]_vars => InPlace'
<1> SUFFICES ASSUME Inv, InPlace, [Next]_vars PROVE InPlace'
  OBVIOUS
<1> USE OsQueueAssumption
<1>0. /\ Placed(posted, InRing, OSTCBMsg, flushed, taken) /\ Distinct
  BY DEF InPlace
<1>a. ASSUME UNCHANGED <<ring, OSTCBMsg, posted, taken, flushed>> PROVE InPlace'
  <2>1. InRing' = InRing /\ Distinct'
    BY <1>0, <1>a DEF InRing, Distinct, Occupied, ring
  <2> QED BY <1>0, <1>a, <2>1 DEF InPlace, Placed
<1>1. ASSUME NEW m \in Msg, OSQPost(m) \/ OSQPostFront(m) PROVE InPlace'
  BY <1>1, PostPlaces
<1>2. ASSUME NEW t \in Task, Extract(t) PROVE InPlace'
  <2> DEFINE x == store[OSQOut]
  <2>1. /\ OSQEntries > 0 /\ OSQEntries' = OSQEntries - 1 /\ OSQOut' = Succ(OSQOut)
        /\ store' = store /\ taken' = [taken EXCEPT ![t] = @ \cup {x}]
        /\ UNCHANGED <<posted, flushed, OSTCBMsg>>
    BY <1>2 DEF Extract, tcb
  <2>2. /\ OSQOut \in Slot /\ Occupied(OSQOut)
        /\ \A p \in Slot : Occupied(p)' <=> Occupied(p) /\ p # OSQOut
    BY <2>1, ExtractLeaves
  <2>3. x \in InRing  BY <2>2 DEF InRing
  <2>4. InRing' = InRing \ {x}  BY <1>0, <2>1, <2>2 DEF InRing, Distinct
  <2>5. Distinct'  BY <1>0, <2>1, <2>2 DEF Distinct
  <2>6. Placed(posted, InRing \ {x}, OSTCBMsg, flushed, taken')
    BY <1>0, <2>1, <2>3, TakeFromRing
  <2> QED BY <2>1, <2>4, <2>5, <2>6 DEF InPlace, Placed
<1>3. ASSUME NEW t \in Task, NEW d \in 0 .. MaxTimeout, OSQPend(t, d) PROVE InPlace'
  BY <1>3, <1>a DEF OSQPend
<1>4. ASSUME NEW t \in Task, OSQPendResume(t) PROVE InPlace'
  <2>1. /\ OSTCBMsg' = [OSTCBMsg EXCEPT ![t] = NoMsg] /\ UNCHANGED <<ring, posted, flushed>>
    BY <1>4 DEF OSQPendResume
  <2>2. taken' = [taken EXCEPT ![t] = @ \cup ({OSTCBMsg[t]} \ {NoMsg})]
    <3>1. CASE OSTCBStatPend[t] = "ok"  BY <1>4, <3>1 DEF OSQPendResume
    <3>2. CASE OSTCBStatPend[t] # "ok"
      <4>1. taken' = taken  BY <1>4, <3>2 DEF OSQPendResume
      <4>2. OSTCBMsg[t] = NoMsg  BY <3>2 DEF Inv, WaitListExact
      <4>3. taken[t] \cup ({OSTCBMsg[t]} \ {NoMsg}) = taken[t]  BY <4>2
      <4> QED BY <4>1, <4>3 DEF Inv, TypeOK
    <3> QED BY <3>1, <3>2
  <2>3. Placed(posted, InRing, OSTCBMsg', flushed, taken')
    BY <1>0, <2>1, <2>2, TakeFromHand
  <2>4. InRing' = InRing /\ Distinct'
    BY <1>0, <2>1 DEF InRing, Distinct, Occupied, ring
  <2> QED BY <2>1, <2>3, <2>4 DEF InPlace, Placed
<1>5. CASE OSTimeTick
  BY <1>5, <1>a DEF OSTimeTick
<1>6. CASE OSQPendAbort
  <2>1. PICK S \in SUBSET wait : OS_EventTaskRdy(S, NoMsg, "abort")
    BY <1>6 DEF OSQPendAbort
  <2>2. OSTCBMsg' = OSTCBMsg  BY <2>1, NothingInHand
  <2> QED BY <1>6, <1>a, <2>2 DEF OSQPendAbort
<1>7. CASE OSQFlush \/ OSQCreate
  <2>1. Empty /\ UNCHANGED <<posted, taken, OSTCBMsg>>
    BY <1>7 DEF OSQFlush, OSQCreate, tcb
  <2> QED BY <2>1, EmptyPlaces
<1>8. CASE OSQDel
  <2>1. Empty /\ UNCHANGED <<posted, taken>> /\ OS_EventTaskRdy(wait, NoMsg, "ok")
    BY <1>8 DEF OSQDel
  <2>2. OSTCBMsg' = OSTCBMsg  BY <2>1, NothingInHand
  <2> QED BY <2>1, <2>2, EmptyPlaces
<1>9. CASE UNCHANGED vars
  BY <1>9, <1>a DEF vars, tcb
<1> QED BY <1>1, <1>2, <1>3, <1>4, <1>5, <1>6, <1>7, <1>8, <1>9 DEF Next

(* os_q.c: no message accepted by a post is lost, and none is delivered    *)
(* twice, whatever posts, timeouts, aborts, flushes and deletions race.    *)
THEOREM NothingLost == Spec => []MessagesConserved
<1> USE OsQueueAssumption
<1>1. Init => InPlace
  <2> SUFFICES ASSUME Init PROVE InPlace  OBVIOUS
  <2>1. \A p \in Slot : ~Occupied(p)  BY DEF Init, Occupied, Slot
  <2>2. InRing = {} /\ Distinct  BY <2>1 DEF InRing, Distinct
  <2> QED BY <2>2 DEF Init, InPlace, Placed
<1>2. Inv /\ InPlace => MessagesConserved
  <2> SUFFICES ASSUME Inv, InPlace PROVE MessagesConserved  OBVIOUS
  <2>0. Placed(posted, InRing, OSTCBMsg, flushed, taken)  BY DEF InPlace
  <2>1. \A m : m \in InHand <=> m # NoMsg /\ \E t \in Task : OSTCBMsg[t] = m  BY DEF InHand
  <2>2. InHand \subseteq Msg  BY <2>0, <2>1 DEF Placed
  <2>3. ASSUME NEW m PROVE m \in posted <=>
            m \in InRing \cup InHand \cup flushed \cup UNION {taken[t] : t \in Task}
    <3>1. m \in UNION {taken[t] : t \in Task} <=> \E t \in Task : m \in taken[t]  OBVIOUS
    <3> QED BY <2>0, <2>1, <2>2, <3>1 DEF Placed
  <2>4. InRing \cap InHand = {} /\ flushed \cap (InRing \cup InHand) = {}
    BY <2>0, <2>1 DEF Placed
  <2>5. ASSUME NEW t \in Task
        PROVE  /\ taken[t] \cap (InRing \cup InHand \cup flushed) = {}
               /\ \A u \in Task \ {t} :
                     /\ taken[t] \cap taken[u] = {}
                     /\ OSTCBMsg[t] # OSTCBMsg[u] \/ OSTCBMsg[t] = NoMsg
    BY <2>0, <2>1 DEF Placed
  <2> QED BY <2>3, <2>4, <2>5 DEF MessagesConserved
<1> QED BY <1>1, <1>2, Invariance, NextPlaces, PTL DEF Spec

-----------------------------------------------------------------------------
(* The refinement mapping.  Items is a sequence of messages of length      *)
(* OSQEntries.                                                             *)
LEMMA ItemsSeq ==
    ASSUME Inv
    PROVE  /\ Items \in Seq(Msg)
           /\ Len(Items) = OSQEntries
           /\ \A i \in 1 .. OSQEntries : Items[i] = store[At(i)] /\ At(i) \in Slot
<1> USE OsQueueAssumption
<1>1. OSQEntries \in Nat /\ OSQOut \in Slot /\ OSQEntries <= OSQSize
  BY DEF Inv, TypeOK
<1>2. ASSUME NEW i \in 1 .. OSQEntries
      PROVE  At(i) \in Slot /\ Occupied(At(i))
  BY <1>1 DEF At, Occupied, Slot
<1>3. \A i \in 1 .. OSQEntries : store[At(i)] \in Msg
  BY <1>2 DEF Inv, RingInv
<1>4. Items \in [1 .. OSQEntries -> Msg]
  BY <1>3 DEF Items
<1> QED BY <1>1, <1>2, <1>4 DEF Items

(* The initial state maps to an empty queue.                               *)
LEMMA InitRefines == Init => Q!Init
<1> SUFFICES ASSUME Init PROVE Q!Init
  OBVIOUS
<1>1. Items = <<>>
  <2>1. Inv
    BY InitInv
  <2>2. Items \in Seq(Msg) /\ Len(Items) = 0
    BY <2>1, ItemsSeq DEF Init
  <2> QED BY <2>2, EmptySeq
<1> QED BY <1>1 DEF Init, Q!Init

(* A step that leaves the array and the indices alone leaves the sequence  *)
(* alone.                                                                  *)
LEMMA SameItems == UNCHANGED ring => Items' = Items
BY DEF ring, Items, At

(* OSQPost appends, also when OSQIn wraps.                                 *)
LEMMA PostAppends ==
    ASSUME Inv, Inv', NEW m \in Msg,
           OSQEntries < OSQSize,
           OSQEntries' = OSQEntries + 1,
           OSQOut' = OSQOut,
           store' = [store EXCEPT ![OSQIn] = m]
    PROVE  Items' = Append(Items, m)
<1> USE OsQueueAssumption
<1>1. /\ OSQEntries \in Nat /\ OSQOut \in Slot /\ OSQIn \in Slot
      /\ store \in [Slot -> Msg \cup {NoMsg}]
      /\ \/ OSQIn = OSQOut + OSQEntries
         \/ OSQIn = OSQOut + OSQEntries - OSQSize
  BY DEF Inv, TypeOK, RingInv
<1>2. /\ Items \in Seq(Msg) /\ Len(Items) = OSQEntries
      /\ \A i \in 1 .. OSQEntries : Items[i] = store[At(i)] /\ At(i) \in Slot
  BY ItemsSeq
<1>3. /\ Items' \in Seq(Msg) /\ Len(Items') = OSQEntries + 1
      /\ \A i \in 1 .. OSQEntries + 1 : Items'[i] = store'[At(i)'] /\ At(i)' \in Slot
  <2>1. /\ (Items \in Seq(Msg))' /\ (Len(Items) = OSQEntries)'
        /\ (\A i \in 1 .. OSQEntries : Items[i] = store[At(i)] /\ At(i) \in Slot)'
    BY ItemsSeq, PTL
  <2> QED BY <2>1
<1>4. /\ Append(Items, m) \in Seq(Msg)
      /\ Len(Append(Items, m)) = OSQEntries + 1
      /\ \A i \in 1 .. OSQEntries : Append(Items, m)[i] = Items[i]
      /\ Append(Items, m)[OSQEntries + 1] = m
  BY <1>1, <1>2, AppendProperties
<1>5. ASSUME NEW i \in 1 .. OSQEntries + 1 PROVE Items'[i] = Append(Items, m)[i]
  <2>0. i = OSQEntries + 1 \/ i \in 1 .. OSQEntries
    BY <1>1
  <2>1. CASE i = OSQEntries + 1
    <3>1. At(i)' = OSQIn
      BY <1>1, <2>1 DEF At, Slot
    <3> QED BY <1>1, <1>3, <1>4, <2>1, <3>1
  <2>2. CASE i \in 1 .. OSQEntries
    <3>1. At(i)' = At(i) /\ At(i) # OSQIn
      BY <1>1, <2>2 DEF At, Slot
    <3> QED BY <1>1, <1>2, <1>3, <1>4, <2>2, <3>1
  <2> QED BY <2>0, <2>1, <2>2
<1> QED BY <1>3, <1>4, <1>5, SeqEqual

(* OSQPostFront puts the message before all others.                        *)
LEMMA PostFrontPrepends ==
    ASSUME Inv, Inv', NEW m \in Msg,
           OSQEntries < OSQSize,
           OSQEntries' = OSQEntries + 1,
           OSQOut' = Pred(OSQOut),
           store' = [store EXCEPT ![Pred(OSQOut)] = m]
    PROVE  Items' = <<m>> \o Items
<1> USE OsQueueAssumption
<1>1. /\ OSQEntries \in Nat /\ OSQOut \in Slot /\ Pred(OSQOut) \in Slot
      /\ store \in [Slot -> Msg \cup {NoMsg}]
  BY StepIndex DEF Inv, TypeOK
<1>2. /\ Items \in Seq(Msg) /\ Len(Items) = OSQEntries
      /\ \A i \in 1 .. OSQEntries : Items[i] = store[At(i)] /\ At(i) \in Slot
  BY ItemsSeq
<1>3. /\ Items' \in Seq(Msg) /\ Len(Items') = OSQEntries + 1
      /\ \A i \in 1 .. OSQEntries + 1 : Items'[i] = store'[At(i)'] /\ At(i)' \in Slot
  <2>1. /\ (Items \in Seq(Msg))' /\ (Len(Items) = OSQEntries)'
        /\ (\A i \in 1 .. OSQEntries : Items[i] = store[At(i)] /\ At(i) \in Slot)'
    BY ItemsSeq, PTL
  <2> QED BY <2>1
<1>4. /\ <<m>> \o Items \in Seq(Msg)
      /\ Len(<<m>> \o Items) = OSQEntries + 1
      /\ (<<m>> \o Items)[1] = m
      /\ \A i \in 2 .. OSQEntries + 1 : (<<m>> \o Items)[i] = Items[i - 1]
  BY <1>1, <1>2
<1>5. ASSUME NEW i \in 1 .. OSQEntries + 1 PROVE Items'[i] = (<<m>> \o Items)[i]
  <2>0. i = 1 \/ i \in 2 .. OSQEntries + 1
    BY <1>1
  <2>1. CASE i = 1
    <3>1. At(i)' = Pred(OSQOut)
      BY <1>1, <2>1 DEF At, Slot
    <3> QED BY <1>1, <1>3, <1>4, <2>1, <3>1
  <2>2. CASE i \in 2 .. OSQEntries + 1
    <3>1. i - 1 \in 1 .. OSQEntries
      BY <1>1, <2>2
    <3>2. At(i)' = At(i - 1) /\ At(i - 1) # Pred(OSQOut)
      BY <1>1, <2>2 DEF At, Slot, Pred
    <3> QED BY <1>1, <1>2, <1>3, <1>4, <2>2, <3>1, <3>2
  <2> QED BY <2>0, <2>1, <2>2
<1> QED BY <1>3, <1>4, <1>5, SeqEqual

(* Taking a message removes the oldest.                                    *)
LEMMA ExtractTakesHead ==
    ASSUME Inv, Inv', NEW t \in Task, Extract(t)
    PROVE  Items # <<>> /\ Items' = Tail(Items)
<1> USE OsQueueAssumption
<1>1. /\ OSQEntries \in 1 .. OSQSize /\ OSQOut \in Slot
      /\ OSQEntries' = OSQEntries - 1 /\ OSQOut' = Succ(OSQOut) /\ store' = store
  BY DEF Inv, TypeOK, Extract
<1>2. /\ Items \in Seq(Msg) /\ Len(Items) = OSQEntries
      /\ \A i \in 1 .. OSQEntries : Items[i] = store[At(i)] /\ At(i) \in Slot
  BY ItemsSeq
<1>3. /\ Items' \in Seq(Msg) /\ Len(Items') = OSQEntries - 1
      /\ \A i \in 1 .. OSQEntries - 1 : Items'[i] = store[At(i)']
  <2>1. /\ (Items \in Seq(Msg))' /\ (Len(Items) = OSQEntries)'
        /\ (\A i \in 1 .. OSQEntries : Items[i] = store[At(i)] /\ At(i) \in Slot)'
    BY ItemsSeq, PTL
  <2> QED BY <1>1, <2>1
<1>4. Items # <<>>
  BY <1>1, <1>2
<1>5. /\ Tail(Items) \in Seq(Msg)
      /\ Len(Tail(Items)) = OSQEntries - 1
      /\ \A i \in 1 .. OSQEntries - 1 : Tail(Items)[i] = Items[i + 1]
  BY <1>1, <1>2, <1>4, HeadTailProperties
<1>6. ASSUME NEW i \in 1 .. OSQEntries - 1 PROVE Items'[i] = Tail(Items)[i]
  <2>1. i + 1 \in 1 .. OSQEntries /\ At(i)' = At(i + 1)
    BY <1>1 DEF At, Slot, Succ
  <2> QED BY <1>2, <1>3, <1>5, <2>1
<1> QED BY <1>3, <1>4, <1>5, <1>6, SeqEqual

(* Emptying the queue empties the sequence.                                *)
LEMMA EmptyItems ==
    ASSUME Inv', OSQEntries' = 0
    PROVE  Items' = <<>>
<1>1. (Items \in Seq(Msg))' /\ (Len(Items) = OSQEntries)'
  BY ItemsSeq, PTL
<1> QED BY <1>1, EmptySeq

(* Every step of the array implementation is a step of the bounded queue.  *)
LEMMA NextRefines ==
    Inv /\ Inv' /\ [Next]_vars => [Q!Next]_<<Items, wait, OSTCBMsg>>
<1> SUFFICES ASSUME Inv, Inv', [Next]_vars
             PROVE  Q!Next \/ UNCHANGED <<Items, wait, OSTCBMsg>>
  OBVIOUS
<1> USE OsQueueAssumption
<1>0. wait \subseteq Task /\ OSTCBMsg \in [Task -> Msg \cup {NoMsg}]
  BY DEF Inv, TypeOK
<1>m. ASSUME NEW t \in wait PROVE OSTCBMsg[t] = NoMsg
  BY <1>0 DEF Inv, WaitListExact
<1>1. ASSUME NEW m \in Msg, OSQPost(m) \/ OSQPostFront(m) PROVE Q!Next
  <2>1. CASE HandOver(m)
    <3>1. PICK t \in wait : /\ HighestWaiting(t)
                            /\ OS_EventTaskRdy({t}, m, "ok")
                            /\ UNCHANGED ring
      BY <2>1 DEF HandOver
    <3>2. OSTCBMsg' = [OSTCBMsg EXCEPT ![t] = m]
      BY <1>0, <3>1 DEF OS_EventTaskRdy
    <3>3. Q!Give(m, t)
      BY <3>1, <3>2, SameItems DEF OS_EventTaskRdy, HighestWaiting, Q!Give, Q!MostUrgent
    <3> QED BY <1>0, <3>3 DEF Q!Next
  <2>2. CASE ~HandOver(m)
    <3>1. /\ wait = {}
          /\ OSQEntries < OSQSize
          /\ OSQEntries' = OSQEntries + 1
          /\ \/ /\ OSQOut' = OSQOut
                /\ store' = [store EXCEPT ![OSQIn] = m]
             \/ /\ OSQOut' = Pred(OSQOut)
                /\ store' = [store EXCEPT ![Pred(OSQOut)] = m]
          /\ UNCHANGED <<wait, OSTCBMsg>>
      BY <1>1, <2>2 DEF OSQPost, OSQPostFront, tcb
    <3>2. Items' = Append(Items, m) \/ Items' = <<m>> \o Items
      BY <3>1, PostAppends, PostFrontPrepends
    <3>3. Len(Items) = OSQEntries
      BY ItemsSeq
    <3>4. Q!Put(m)
      BY <3>1, <3>2, <3>3 DEF Q!Put
    <3> QED BY <3>4 DEF Q!Next
  <2> QED BY <2>1, <2>2
<1>2. ASSUME NEW t \in Task, Extract(t) PROVE Q!Next
  <2>1. Items # <<>> /\ Items' = Tail(Items)
    BY <1>2, ExtractTakesHead
  <2> QED BY <1>2, <2>1 DEF Extract, tcb, Q!Take, Q!Next
<1>3. ASSUME NEW t \in Task, NEW d \in 0 .. MaxTimeout, OSQPend(t, d) PROVE Q!Next
  <2>1. Items = <<>>
    <3>1. Items \in Seq(Msg) /\ Len(Items) = 0
      BY <1>3, ItemsSeq DEF OSQPend
    <3> QED BY <3>1, EmptySeq
  <2>2. t \notin wait /\ OSTCBMsg[t] = NoMsg
    BY <1>3 DEF OSQPend, Inv, WaitListExact
  <2>3. Items' = Items
    BY <1>3, SameItems DEF OSQPend
  <2>4. Q!Wait(t)
    BY <1>3, <2>1, <2>2, <2>3 DEF OSQPend, Q!Wait
  <2> QED BY <2>4 DEF Q!Next
<1>4. ASSUME NEW t \in Task, OSQPendResume(t) PROVE Q!Next
  <2>1. Items' = Items /\ OSTCBMsg' = [OSTCBMsg EXCEPT ![t] = NoMsg]
    BY <1>4, SameItems DEF OSQPendResume
  <2>2. CASE wait' = wait
    <3>1. Q!Collect(t)
      BY <2>1, <2>2 DEF Q!Collect
    <3> QED BY <3>1 DEF Q!Next
  <2>3. CASE OSTCBStatPend[t] = "timeout" /\ wait' = wait \ {t}
    <3>1. OSTCBMsg[t] = NoMsg
      BY <2>3 DEF Inv, WaitListExact
    <3>2. OSTCBMsg' = OSTCBMsg
      BY <1>0, <2>1, <3>1
    <3>3. Q!GiveUp({t})
      BY <2>1, <2>3, <3>2 DEF Q!GiveUp
    <3> QED BY <3>3 DEF Q!Next
  <2> QED BY <1>4, <2>2, <2>3 DEF OSQPendResume
<1>5. CASE OSTimeTick
  BY <1>5, SameItems DEF OSTimeTick
<1>6. CASE OSQPendAbort
  <2>1. PICK S \in SUBSET wait : OS_EventTaskRdy(S, NoMsg, "abort")
    BY <1>6 DEF OSQPendAbort
  <2>2. OSTCBMsg' = OSTCBMsg
    BY <1>0, <1>m, <2>1 DEF OS_EventTaskRdy
  <2>3. Q!GiveUp(S)
    BY <1>6, <2>1, <2>2, SameItems DEF OSQPendAbort, OS_EventTaskRdy, Q!GiveUp
  <2> QED BY <1>0, <2>3 DEF Q!Next
<1>7. CASE OSQFlush \/ OSQCreate
  <2>1. Items' = <<>>
    BY <1>7, EmptyItems DEF OSQFlush, OSQCreate, Empty
  <2> QED BY <1>7, <2>1 DEF OSQFlush, OSQCreate, tcb, Q!Clear, Q!Next
<1>8. CASE OSQDel
  <2>1. Items' = <<>>
    BY <1>8, EmptyItems DEF OSQDel, Empty
  <2>2. OSTCBMsg' = OSTCBMsg /\ wait' = {}
    BY <1>0, <1>m, <1>8 DEF OSQDel, OS_EventTaskRdy
  <2> QED BY <2>1, <2>2 DEF Q!Clear, Q!Next
<1>9. CASE UNCHANGED vars
  BY <1>9, SameItems DEF vars, tcb
<1> QED BY <1>1, <1>2, <1>3, <1>4, <1>5, <1>6, <1>7, <1>8, <1>9 DEF Next

(* os_q.c implements the bounded queue of module MsgQueue, for every       *)
(* capacity and whatever the tasks, the timer tick and the other users of  *)
(* the queue do: messages leave it once and in order, and go to the most   *)
(* urgent waiter.                                                          *)
THEOREM ImplementsQueue == Spec => QueueSpec
<1>1. Init => Q!Init
  BY InitRefines
<1>2. Inv /\ Inv' /\ [Next]_vars => [Q!Next]_<<Items, wait, OSTCBMsg>>
  BY NextRefines
<1> QED BY <1>1, <1>2, Invariance, PTL DEF Spec, QueueSpec, Q!Spec

-----------------------------------------------------------------------------
(* The software timers.                                                    *)

(* The type of their state.                                                *)
TmrRecord ==
    [state : {"unused", "stopped", "running", "completed"}, match : 0 .. OSTmrTimeMax - 1,
     dly : 0 .. OSTmrTimeMax - 1, period : 0 .. OSTmrTimeMax - 1]
WalkRecord ==
    [at : Tmr \cup {NoTmr}, next : Tmr \cup {NoTmr}, in : {"pend", "visit", "callback"},
     calls : Nat]
TmrTypeOK ==
    /\ tmr \in [Tmr -> TmrRecord] /\ wheel \in [Spoke -> Seq(Tmr)] /\ tmrFree \in Seq(Tmr)
    /\ OSTmrTime \in 0 .. OSTmrTimeMax - 1 /\ walk \in WalkRecord

(* No timer is in a list twice.                                            *)
Once(s) == \A i, j \in 1 .. Len(s) : s[i] = s[j] => i = j

(* The lists: a timer hangs from the spoke of its time exactly if it runs, *)
(* and is free exactly if it is unused.                                    *)
Hung(w, r) ==
    /\ \A i \in Spoke :
        /\ Once(w[i])
        /\ \A t \in Range(w[i]) : r[t].state = "running" /\ SpokeOf(r[t].match) = i
    /\ \A t \in Tmr : r[t].state = "running" => t \in Range(w[SpokeOf(r[t].match)])
Freed(f, r) == Once(f) /\ Range(f) = {t \in Tmr : r[t].state = "unused"}

(* In the list s the timer t comes with f or behind it.                    *)
Ahead(s, f, t) == \E i, j \in 1 .. Len(s) : i <= j /\ s[i] = f /\ s[j] = t

(* The timer the walk comes to next.                                       *)
Coming(k) == IF k.in = "visit" THEN k.at ELSE k.next
Left(r, now) == (r.match - now) % OSTmrTimeMax

(* The timers on their way: those whose time it is are ahead of the walk,  *)
(* the others have time left, no more than they were given.                *)
Timely(w, r, now, k, t) ==
    /\ r.state # "unused" => r.dly # 0 \/ r.period # 0
    /\ r.state = "running" =>
         /\ Left(r, now) <= r.dly \/ Left(r, now) <= r.period
         /\ r.match = now => k.in # "pend" /\ Ahead(w[SpokeOf(now)], Coming(k), t)
TmrTimed(w, r, now, k) == \A t \in Tmr : Timely(w, r[t], now, k, t)

(* The walk is in the spoke of the time, and will not come to the timer    *)
(* whose callback runs.                                                    *)
WalkOK(w, now, k) ==
    /\ k.in = "visit" => k.at \in Range(w[SpokeOf(now)])
    /\ k.in = "callback" =>
         k.at \in Tmr /\ k.at # k.next /\ (k.next # NoTmr => k.next \in Range(w[SpokeOf(now)]))

(* The inductive invariant.                                                *)
TmrInv ==
    /\ TmrTypeOK /\ Hung(wheel, tmr) /\ Freed(tmrFree, tmr)
    /\ TmrTimed(wheel, tmr, OSTmrTime, walk) /\ WalkOK(wheel, OSTmrTime, walk)

-----------------------------------------------------------------------------
(* Counting round.                                                         *)
LEMMA RoundPlus ==
    ASSUME NEW m \in Nat \ {0}, NEW x \in 0 .. m - 1, NEW k \in 0 .. m - 1
    PROVE  /\ (x + k) % m \in 0 .. m - 1
           /\ (x + k) % m = IF x + k < m THEN x + k ELSE x + k - m
<1>1. CASE x + k < m
  <2> DEFINE y == x + k
  <2>1. y \in 0 .. m - 1  BY <1>1
  <2> HIDE DEF y
  <2>2. y % m = y  BY <2>1
  <2> QED BY <1>1, <2>1, <2>2 DEF y
<1>2. CASE ~(x + k < m)
  <2> DEFINE y == x + k - m
  <2>1. y \in 0 .. m - 1 /\ x + k = y + m  BY <1>2
  <2> HIDE DEF y
  <2>2. (y + m) % m = y  BY <2>1
  <2> QED BY <1>2, <2>1, <2>2 DEF y
<1> QED BY <1>1, <1>2

LEMMA RoundMinus ==
    ASSUME NEW m \in Nat \ {0}, NEW x \in 0 .. m - 1, NEW y \in 0 .. m - 1
    PROVE  (y - x) % m = IF x <= y THEN y - x ELSE y - x + m
<1>1. CASE x <= y
  <2> DEFINE z == y - x
  <2>1. z \in 0 .. m - 1  BY <1>1
  <2> HIDE DEF z
  <2>2. z % m = z  BY <2>1
  <2> QED BY <1>1, <2>2 DEF z
<1>2. CASE ~(x <= y)
  <2> DEFINE z == y - x + m
  <2>1. z \in 0 .. m - 1 /\ y - x = z - m  BY <1>2
  <2> HIDE DEF z
  <2>2. (z - m) % m = z  BY <2>1
  <2> QED BY <1>2, <2>1, <2>2 DEF z
<1> QED BY <1>1, <1>2

(* A time k ticks ahead is k ticks ahead.                                  *)
LEMMA MatchIs ==
    ASSUME NEW k \in 1 .. OSTmrTimeMax - 1, OSTmrTime \in 0 .. OSTmrTimeMax - 1
    PROVE  /\ Match(k) \in 0 .. OSTmrTimeMax - 1 /\ Match(k) # OSTmrTime
           /\ (Match(k) - OSTmrTime) % OSTmrTimeMax = k
<1> DEFINE m == OSTmrTimeMax
           x == OSTmrTime
           y == Match(k)
<1>1. m \in Nat \ {0} /\ x \in 0 .. m - 1 /\ k \in 1 .. m - 1 /\ k \in 0 .. m - 1  BY OsTmrAssumption
<1>2. y = (x + k) % m  BY DEF Match
<1> HIDE DEF m, x, y
<1>3. y \in 0 .. m - 1 /\ y = IF x + k < m THEN x + k ELSE x + k - m  BY <1>1, <1>2, RoundPlus
<1>4. (y - x) % m = IF x <= y THEN y - x ELSE y - x + m  BY <1>1, <1>3, RoundMinus
<1>5. y # x  BY <1>1, <1>3
<1>6. (y - x) % m = k
  <2>1. CASE x + k < m  BY <1>1, <1>3, <1>4, <2>1
  <2>2. CASE ~(x + k < m)  BY <1>1, <1>3, <1>4, <2>2
  <2> QED BY <2>1, <2>2
<1> QED BY <1>3, <1>5, <1>6 DEF m, x, y

(* When the time goes on, what is left of another time is one less.        *)
LEMMA LeftLess ==
    ASSUME NEW now \in 0 .. OSTmrTimeMax - 1, NEW r, r.match \in 0 .. OSTmrTimeMax - 1,
           r.match # now
    PROVE  /\ (now + 1) % OSTmrTimeMax \in 0 .. OSTmrTimeMax - 1
           /\ Left(r, now) \in Nat
           /\ Left(r, (now + 1) % OSTmrTimeMax) = Left(r, now) - 1
<1> DEFINE m == OSTmrTimeMax
           y == r.match
           z == (now + 1) % m
<1>1. m \in Nat \ {0} /\ now \in 0 .. m - 1 /\ y \in 0 .. m - 1 /\ y # now  BY OsTmrAssumption
<1> HIDE DEF y
<1>2. m # 1 /\ 1 \in 0 .. m - 1  BY <1>1
<1> HIDE DEF m
<1>3. z \in 0 .. m - 1 /\ z = IF now + 1 < m THEN now + 1 ELSE now + 1 - m  BY <1>1, <1>2, RoundPlus
<1> HIDE DEF z
<1>4. (y - now) % m = IF now <= y THEN y - now ELSE y - now + m  BY <1>1, RoundMinus
<1>5. (y - z) % m = IF z <= y THEN y - z ELSE y - z + m  BY <1>1, <1>3, RoundMinus
<1>6. (y - z) % m = ((y - now) % m) - 1 /\ (y - now) % m \in Nat
  <2>1. CASE now + 1 < m /\ now <= y  BY <1>1, <1>3, <1>4, <1>5, <2>1
  <2>2. CASE now + 1 < m /\ ~(now <= y)  BY <1>1, <1>3, <1>4, <1>5, <2>2
  <2>3. CASE ~(now + 1 < m)
    <3>1. now = m - 1 /\ z = 0 /\ y < now  BY <1>1, <1>3, <2>3
    <3> QED BY <1>1, <1>4, <1>5, <3>1
  <2> QED BY <2>1, <2>2, <2>3
<1> QED BY <1>3, <1>6 DEF Left, m, y, z

LEMMA LeftPositive ==
    ASSUME NEW now \in 0 .. OSTmrTimeMax - 1, NEW y \in 0 .. OSTmrTimeMax - 1, y # now
    PROVE  (y - now) % OSTmrTimeMax > 0
<1>1. OSTmrTimeMax \in Nat \ {0}  BY OsTmrAssumption
<1>2. (y - now) % OSTmrTimeMax = IF now <= y THEN y - now ELSE y - now + OSTmrTimeMax
  BY <1>1, RoundMinus
<1> QED BY <1>1, <1>2

LEMMA SpokeIn ==
    ASSUME NEW m \in Nat
    PROVE  SpokeOf(m) \in Spoke
BY OsTmrAssumption DEF SpokeOf, Spoke

-----------------------------------------------------------------------------
(* The lists.                                                              *)
LEMMA RangeIs ==
    ASSUME NEW s \in Seq(Tmr)
    PROVE  Range(s) = {s[i] : i \in 1 .. Len(s)}
BY DEF Range

(* A timer is taken out of its list.                                       *)
LEMMA WithoutIs ==
    ASSUME NEW s \in Seq(Tmr), Once(s), NEW t \in Range(s)
    PROVE  LET v == Without(s, t)
           IN  /\ v \in Seq(Tmr) /\ Once(v) /\ Range(v) = Range(s) \ {t}
               /\ \A f, u \in Tmr \ {t} : Ahead(s, f, u) => Ahead(v, f, u)
<1> DEFINE p == CHOOSE i \in 1 .. Len(s) : s[i] = t
           v == Without(s, t)
           n == Len(s)
<1>1. p \in 1 .. n /\ s[p] = t /\ n \in Nat
  <2>1. \E i \in 1 .. Len(s) : s[i] = t  BY RangeIs
  <2> QED BY <2>1
<1>2. v = [i \in 1 .. n - 1 |-> IF i < p THEN s[i] ELSE s[i + 1]]  BY DEF Without
<1>3. \A i \in 1 .. n : s[i] \in Tmr  OBVIOUS
<1> HIDE DEF p, v
<1>4. v \in Seq(Tmr) /\ Len(v) = n - 1
  <2>1. n - 1 \in Nat  BY <1>1
  <2>2. ASSUME NEW i \in 1 .. n - 1 PROVE (IF i < p THEN s[i] ELSE s[i + 1]) \in Tmr
    <3>1. i \in 1 .. n /\ i + 1 \in 1 .. n  BY <1>1
    <3> QED BY <1>3, <3>1
  <2> QED BY <1>2, <2>1, <2>2
<1>5. \A i \in 1 .. n - 1 : i < p => v[i] = s[i]  BY <1>2
<1>6. \A i \in 1 .. n - 1 : i >= p => v[i] = s[i + 1]  BY <1>1, <1>2
<1>7. \A i \in 1 .. n : i # p => s[i] # t  BY <1>1 DEF Once
<1>8. \A i \in 1 .. n - 1 : \E k \in 1 .. n : k # p /\ v[i] = s[k] /\ k = (IF i < p THEN i ELSE i + 1)
  <2> SUFFICES ASSUME NEW i \in 1 .. n - 1
               PROVE  \E k \in 1 .. n : k # p /\ v[i] = s[k] /\ k = (IF i < p THEN i ELSE i + 1)
    OBVIOUS
  <2>1. CASE i < p
    <3>1. i \in 1 .. n /\ i # p /\ v[i] = s[i]  BY <1>1, <1>5, <2>1
    <3> QED BY <2>1, <3>1
  <2>2. CASE ~(i < p)
    <3>1. i + 1 \in 1 .. n /\ i + 1 # p /\ v[i] = s[i + 1]  BY <1>1, <1>6, <2>2
    <3> QED BY <2>2, <3>1
  <2> QED BY <2>1, <2>2
<1>9. \A k \in 1 .. n : k # p =>
        \E i \in 1 .. n - 1 : v[i] = s[k] /\ i = (IF k < p THEN k ELSE k - 1)
  <2> SUFFICES ASSUME NEW k \in 1 .. n, k # p
               PROVE  \E i \in 1 .. n - 1 : v[i] = s[k] /\ i = (IF k < p THEN k ELSE k - 1)
    OBVIOUS
  <2>1. CASE k < p
    <3>1. k \in 1 .. n - 1 /\ v[k] = s[k]  BY <1>1, <1>5, <2>1
    <3> QED BY <2>1, <3>1
  <2>2. CASE ~(k < p)
    <3>1. k - 1 \in 1 .. n - 1 /\ k - 1 >= p /\ k - 1 + 1 = k  BY <1>1, <2>2
    <3>2. v[k - 1] = s[k]  BY <1>6, <3>1
    <3> QED BY <2>2, <3>1, <3>2
  <2> QED BY <2>1, <2>2
<1> HIDE DEF n
<1>10. Once(v)
  <2> SUFFICES ASSUME NEW i \in 1 .. n - 1, NEW j \in 1 .. n - 1, v[i] = v[j] PROVE i = j
    BY <1>4 DEF Once
  <2>1. PICK k \in 1 .. n : v[i] = s[k] /\ k = (IF i < p THEN i ELSE i + 1)  BY <1>8
  <2>2. PICK l \in 1 .. n : v[j] = s[l] /\ l = (IF j < p THEN j ELSE j + 1)  BY <1>8
  <2>3. k = l  BY <2>1, <2>2 DEF Once, n
  <2> QED BY <1>1, <2>1, <2>2, <2>3
<1>11. Range(v) = Range(s) \ {t}
  <2>1. Range(s) = {s[i] : i \in 1 .. n}  BY RangeIs DEF n
  <2>2. Range(v) = {v[i] : i \in 1 .. n - 1}  BY <1>4, RangeIs
  <2>3. ASSUME NEW u \in Range(v) PROVE u \in Range(s) \ {t}  BY <1>7, <1>8, <2>1, <2>2
  <2>4. ASSUME NEW u \in Range(s) \ {t} PROVE u \in Range(v)
    <3>1. PICK k \in 1 .. n : u = s[k]  BY <2>1
    <3>2. k # p  BY <1>1, <3>1
    <3> QED BY <1>9, <2>2, <3>1, <3>2
  <2> QED BY <2>3, <2>4
<1>12. ASSUME NEW f \in Tmr \ {t}, NEW u \in Tmr \ {t}, Ahead(s, f, u) PROVE Ahead(v, f, u)
  <2>1. PICK k \in 1 .. n, l \in 1 .. n : k <= l /\ s[k] = f /\ s[l] = u
    BY <1>12 DEF Ahead, n
  <2>2. k # p /\ l # p  BY <1>1, <2>1
  <2>3. PICK i \in 1 .. n - 1 : v[i] = s[k] /\ i = (IF k < p THEN k ELSE k - 1)  BY <1>9, <2>2
  <2>4. PICK j \in 1 .. n - 1 : v[j] = s[l] /\ j = (IF l < p THEN l ELSE l - 1)  BY <1>9, <2>2
  <2>5. i <= j  BY <1>1, <2>1, <2>2, <2>3, <2>4
  <2> QED BY <1>4, <2>1, <2>3, <2>4, <2>5 DEF Ahead
<1> QED BY <1>4, <1>10, <1>11, <1>12 DEF v

(* A timer is put at the head of a list.                                   *)
LEMMA FirstOf ==
    ASSUME NEW s \in Seq(Tmr), NEW t \in Tmr
    PROVE  LET v == <<t>> \o s
           IN  /\ v \in Seq(Tmr) /\ Range(v) = Range(s) \cup {t}
               /\ Once(s) /\ t \notin Range(s) => Once(v)
               /\ \A f, u \in Tmr : Ahead(s, f, u) => Ahead(v, f, u)
<1> DEFINE v == <<t>> \o s
           n == Len(s)
<1>1. v \in Seq(Tmr) /\ Len(v) = n + 1 /\ n \in Nat /\ v[1] = t  OBVIOUS
<1>2. \A i \in 1 .. n : v[i + 1] = s[i]
  <2> SUFFICES ASSUME NEW i \in 1 .. n PROVE v[i + 1] = s[i]  OBVIOUS
  <2>1. Len(<<t>>) = 1 /\ <<t>> \in Seq(Tmr)  OBVIOUS
  <2> QED BY <2>1
<1>3. \A j \in 1 .. n + 1 : j # 1 => j - 1 \in 1 .. n /\ v[j] = s[j - 1]
  <2> SUFFICES ASSUME NEW j \in 1 .. n + 1, j # 1 PROVE j - 1 \in 1 .. n /\ v[j] = s[j - 1]
    OBVIOUS
  <2>1. j - 1 \in 1 .. n /\ j - 1 + 1 = j  BY <1>1
  <2> QED BY <1>2, <2>1
<1> HIDE DEF v
<1>4. Range(s) = {s[i] : i \in 1 .. n} /\ Range(v) = {v[i] : i \in 1 .. n + 1}
  BY <1>1, RangeIs
<1> HIDE DEF n
<1>5. Range(v) = Range(s) \cup {t}
  <2>1. ASSUME NEW u \in Range(v) PROVE u \in Range(s) \cup {t}
    <3>1. PICK j \in 1 .. n + 1 : u = v[j]  BY <1>4
    <3>2. CASE j = 1  BY <1>1, <3>1, <3>2
    <3>3. CASE j # 1  BY <1>3, <1>4, <3>1, <3>3
    <3> QED BY <3>2, <3>3
  <2>2. ASSUME NEW u \in Range(s) PROVE u \in Range(v)
    <3>1. PICK i \in 1 .. n : u = s[i]  BY <1>4
    <3>2. i + 1 \in 1 .. n + 1 /\ v[i + 1] = s[i]  BY <1>1, <1>2
    <3> QED BY <1>4, <3>1, <3>2
  <2>3. t \in Range(v)
    <3>1. 1 \in 1 .. n + 1  BY <1>1
    <3> QED BY <1>1, <1>4, <3>1
  <2> QED BY <2>1, <2>2, <2>3
<1>6. ASSUME Once(s), t \notin Range(s) PROVE Once(v)
  <2> SUFFICES ASSUME NEW i \in 1 .. n + 1, NEW j \in 1 .. n + 1, v[i] = v[j] PROVE i = j
    BY <1>1 DEF Once
  <2>1. \A k \in 1 .. n + 1 : k # 1 => v[k] # t  BY <1>3, <1>4, <1>6
  <2>2. CASE i = 1 \/ j = 1  BY <1>1, <2>1, <2>2
  <2>3. CASE i # 1 /\ j # 1
    <3>1. i - 1 \in 1 .. n /\ j - 1 \in 1 .. n /\ s[i - 1] = s[j - 1]  BY <1>3, <2>3
    <3>2. i - 1 = j - 1  BY <1>6, <3>1 DEF Once, n
    <3> QED BY <3>2
  <2> QED BY <2>2, <2>3
<1>7. ASSUME NEW f \in Tmr, NEW u \in Tmr, Ahead(s, f, u) PROVE Ahead(v, f, u)
  <2>1. PICK k \in 1 .. n, l \in 1 .. n : k <= l /\ s[k] = f /\ s[l] = u  BY <1>7 DEF Ahead, n
  <2>2. k + 1 \in 1 .. n + 1 /\ l + 1 \in 1 .. n + 1 /\ k + 1 <= l + 1  BY <1>1, <2>1
  <2>3. v[k + 1] = f /\ v[l + 1] = u  BY <1>2, <2>1
  <2> QED BY <1>1, <2>2, <2>3 DEF Ahead
<1> QED BY <1>1, <1>5, <1>6, <1>7 DEF v

(* What comes behind a timer is in its list.                               *)
LEMMA AfterIn ==
    ASSUME NEW s \in Seq(Tmr), NEW t, t \notin Range(s)
    PROVE  After(s, t) = {}
<1>1. \A j \in 1 .. Len(s) - 1 : j \in 1 .. Len(s) /\ s[j] # t  BY RangeIs
<1> QED BY <1>1 DEF After

LEMMA AfterIs ==
    ASSUME NEW s \in Seq(Tmr), Once(s), NEW p \in 1 .. Len(s)
    PROVE  After(s, s[p]) = IF p < Len(s) THEN {s[p + 1]} ELSE {}
<1>1. {j \in 1 .. Len(s) - 1 : s[j] = s[p]} = IF p < Len(s) THEN {p} ELSE {}
  <2>1. \A j \in 1 .. Len(s) - 1 : s[j] = s[p] => j = p  BY DEF Once
  <2>2. Len(s) \in Nat  OBVIOUS
  <2>3. p < Len(s) => p \in 1 .. Len(s) - 1  BY <2>2
  <2>4. p \in 1 .. Len(s) - 1 => p < Len(s)  BY <2>2
  <2> QED BY <2>1, <2>3, <2>4
<1> QED BY <1>1 DEF After

(* The successor of a timer in its spoke leads to all that come behind it. *)
LEMMA NextIs ==
    ASSUME TmrTypeOK, Hung(wheel, tmr), Freed(tmrFree, tmr),
           NEW i \in Spoke, NEW t \in Range(wheel[i])
    PROVE  LET n == OSTmrNext(wheel, t)
           IN  /\ n # NoTmr => n \in Range(wheel[i]) /\ n # t
               /\ \A u \in Tmr \ {t} : Ahead(wheel[i], t, u) => n # NoTmr /\ Ahead(wheel[i], n, u)
<1> DEFINE s == wheel[i]
           n == OSTmrNext(wheel, t)
<1>1. s \in Seq(Tmr) /\ Once(s) /\ tmrFree \in Seq(Tmr)  BY DEF TmrTypeOK, Hung
<1>2. \A j \in Spoke : wheel[j] \in Seq(Tmr)  BY DEF TmrTypeOK
<1>3. tmr[t].state = "running" /\ SpokeOf(tmr[t].match) = i  BY DEF Hung
<1>4. PICK p \in 1 .. Len(s) : s[p] = t  BY <1>1, RangeIs
<1>5. After(s, t) = IF p < Len(s) THEN {s[p + 1]} ELSE {}  BY <1>1, <1>4, AfterIs
<1>6. \A j \in Spoke : j # i => After(wheel[j], t) = {}
  <2> SUFFICES ASSUME NEW j \in Spoke, j # i PROVE t \notin Range(wheel[j])  BY <1>2, AfterIn
  <2> QED BY <1>3 DEF Hung
<1>7. After(tmrFree, t) = {}
  <2>1. t \notin Range(tmrFree)  BY <1>3 DEF Freed
  <2> QED BY <1>1, <2>1, AfterIn
<1>8. UNION {After(wheel[j], t) : j \in Spoke} \cup After(tmrFree, t) = After(s, t)
  BY <1>6, <1>7
<1>9. n = IF After(s, t) = {} THEN NoTmr ELSE CHOOSE u \in After(s, t) : TRUE
  <2> DEFINE a == UNION {After(wheel[j], t) : j \in Spoke} \cup After(tmrFree, t)
             b == After(s, t)
  <2>1. n = IF a = {} THEN NoTmr ELSE CHOOSE u \in a : TRUE  BY Zenon DEF OSTmrNext
  <2>2. a = b  BY <1>8
  <2> HIDE DEF a, b, n
  <2>3. n = IF b = {} THEN NoTmr ELSE CHOOSE u \in b : TRUE  BY <2>1, <2>2
  <2> QED BY <2>3 DEF b
<1>10. n = IF p < Len(s) THEN s[p + 1] ELSE NoTmr
  <2>1. CASE p < Len(s)
    <3>1. After(s, t) = {s[p + 1]}  BY <1>5, <2>1
    <3> QED BY <1>9, <2>1, <3>1
  <2>2. CASE ~(p < Len(s))  BY <1>5, <1>9, <2>2
  <2> QED BY <2>1, <2>2
<1> HIDE DEF n
<1>11. Len(s) \in Nat /\ (p < Len(s) => p + 1 \in 1 .. Len(s))  BY <1>1
<1>12. \A j \in 1 .. Len(s) : s[j] \in Tmr /\ s[j] \in Range(s) /\ s[j] # NoTmr
  BY <1>1, RangeIs, OsTmrAssumption
<1>13. ASSUME n # NoTmr PROVE n \in Range(s) /\ n # t
  <2>1. p < Len(s) /\ n = s[p + 1]  BY <1>10, <1>13
  <2>2. p + 1 \in 1 .. Len(s) /\ p + 1 # p  BY <1>11, <2>1
  <2>3. s[p + 1] # s[p]  BY <1>1, <2>2 DEF Once
  <2> QED BY <1>4, <1>12, <2>1, <2>2, <2>3
<1>14. ASSUME NEW u \in Tmr \ {t}, Ahead(s, t, u) PROVE n # NoTmr /\ Ahead(s, n, u)
  <2>1. PICK k \in 1 .. Len(s), l \in 1 .. Len(s) : k <= l /\ s[k] = t /\ s[l] = u
    BY <1>14 DEF Ahead
  <2>2. k = p  BY <1>1, <1>4, <2>1 DEF Once
  <2>3. l # p  BY <1>4, <2>1
  <2>4. p < Len(s) /\ p + 1 <= l  BY <1>11, <2>1, <2>2, <2>3
  <2>5. p + 1 \in 1 .. Len(s) /\ n = s[p + 1]  BY <1>10, <1>11, <2>4
  <2> QED BY <1>12, <2>1, <2>4, <2>5 DEF Ahead
<1> QED BY <1>13, <1>14 DEF n

-----------------------------------------------------------------------------
(* A running timer is taken off the wheel.                                 *)
LEMMA UnlinkHung ==
    ASSUME TmrTypeOK, Hung(wheel, tmr), NEW t \in Tmr, tmr[t].state = "running",
           NEW r \in [Tmr -> TmrRecord], \A u \in Tmr \ {t} : r[u] = tmr[u],
           r[t].state # "running"
    PROVE  LET v == OSTmr_Unlink(wheel, t)
           IN  /\ v \in [Spoke -> Seq(Tmr)] /\ Hung(v, r)
               /\ \A i \in Spoke : /\ Range(v[i]) = Range(wheel[i]) \ {t}
                                   /\ \A f, u \in Tmr \ {t} : Ahead(wheel[i], f, u) => Ahead(v[i], f, u)
<1> DEFINE x == SpokeOf(tmr[t].match)
           v == OSTmr_Unlink(wheel, t)
<1>1. tmr[t] \in TmrRecord /\ wheel \in [Spoke -> Seq(Tmr)]  BY DEF TmrTypeOK
<1>2. x \in Spoke
  <2>1. tmr[t].match \in Nat  BY <1>1, OsTmrAssumption DEF TmrRecord
  <2> QED BY <2>1, SpokeIn
<1>3. wheel[x] \in Seq(Tmr) /\ Once(wheel[x]) /\ t \in Range(wheel[x])  BY <1>1, <1>2 DEF Hung
<1>4. v = [wheel EXCEPT ![x] = Without(wheel[x], t)]  BY DEF OSTmr_Unlink
<1> HIDE DEF x, v
<1>5. /\ Without(wheel[x], t) \in Seq(Tmr) /\ Once(Without(wheel[x], t))
      /\ Range(Without(wheel[x], t)) = Range(wheel[x]) \ {t}
      /\ \A f, u \in Tmr \ {t} : Ahead(wheel[x], f, u) => Ahead(Without(wheel[x], t), f, u)
  BY <1>3, WithoutIs
<1>6. v \in [Spoke -> Seq(Tmr)] /\ v[x] = Without(wheel[x], t)
      /\ \A i \in Spoke : i # x => v[i] = wheel[i]
  BY <1>1, <1>2, <1>4, <1>5
<1>7. \A i \in Spoke : i # x => t \notin Range(wheel[i])  BY DEF Hung, x
<1>8. ASSUME NEW i \in Spoke
      PROVE  /\ Range(v[i]) = Range(wheel[i]) \ {t} /\ Once(v[i])
             /\ \A f, u \in Tmr \ {t} : Ahead(wheel[i], f, u) => Ahead(v[i], f, u)
  <2>1. CASE i = x  BY <1>5, <1>6, <2>1
  <2>2. CASE i # x
    <3>1. v[i] = wheel[i] /\ t \notin Range(wheel[i])  BY <1>6, <1>7, <2>2
    <3>2. Once(wheel[i])  BY DEF Hung
    <3> QED BY <3>1, <3>2
  <2> QED BY <2>1, <2>2
<1>9. \A i \in Spoke : \A u \in Range(v[i]) : u \in Tmr
  <2> SUFFICES ASSUME NEW i \in Spoke PROVE \A u \in Range(v[i]) : u \in Tmr  OBVIOUS
  <2>1. v[i] \in Seq(Tmr)  BY <1>6
  <2> QED BY <2>1, RangeIs
<1>10. Hung(v, r)
  <2>1. ASSUME NEW i \in Spoke, NEW u \in Range(v[i])
        PROVE  r[u].state = "running" /\ SpokeOf(r[u].match) = i
    <3>1. u \in Range(wheel[i]) /\ u \in Tmr \ {t}  BY <1>8, <1>9
    <3>2. r[u] = tmr[u]  BY <3>1
    <3> QED BY <3>1, <3>2 DEF Hung
  <2>2. ASSUME NEW u \in Tmr, r[u].state = "running" PROVE u \in Range(v[SpokeOf(r[u].match)])
    <3>1. u # t /\ r[u] = tmr[u]  BY <2>2
    <3>2. u \in Range(wheel[SpokeOf(tmr[u].match)])  BY <2>2, <3>1 DEF Hung
    <3>3. tmr[u].match \in Nat  BY OsTmrAssumption DEF TmrTypeOK, TmrRecord
    <3>4. SpokeOf(tmr[u].match) \in Spoke  BY <3>3, SpokeIn
    <3> QED BY <1>8, <3>1, <3>2, <3>4
  <2> QED BY <1>8, <2>1, <2>2 DEF Hung
<1> QED BY <1>6, <1>8, <1>10 DEF v

(* A timer that does not run is put on the wheel.                          *)
LEMMA LinkHung ==
    ASSUME NEW w \in [Spoke -> Seq(Tmr)], NEW r \in [Tmr -> TmrRecord], Hung(w, r),
           NEW t \in Tmr, r[t].state # "running", NEW m \in 0 .. OSTmrTimeMax - 1,
           NEW q \in [Tmr -> TmrRecord], \A u \in Tmr \ {t} : q[u] = r[u],
           q[t].state = "running", q[t].match = m
    PROVE  LET v == OSTmr_Link(w, t, m)
           IN  /\ v \in [Spoke -> Seq(Tmr)] /\ Hung(v, q)
               /\ \A i \in Spoke : /\ Range(w[i]) \subseteq Range(v[i])
                                   /\ \A f, u \in Tmr : Ahead(w[i], f, u) => Ahead(v[i], f, u)
<1> DEFINE x == SpokeOf(m)
           v == OSTmr_Link(w, t, m)
<1>1. x \in Spoke
  <2>1. m \in Nat  BY OsTmrAssumption
  <2> QED BY <2>1, SpokeIn
<1>2. \A i \in Spoke : w[i] \in Seq(Tmr) /\ Once(w[i]) /\ t \notin Range(w[i])  BY DEF Hung
<1>3. v = [w EXCEPT ![x] = <<t>> \o w[x]]  BY DEF OSTmr_Link
<1> HIDE DEF x, v
<1>4. /\ <<t>> \o w[x] \in Seq(Tmr) /\ Once(<<t>> \o w[x])
      /\ Range(<<t>> \o w[x]) = Range(w[x]) \cup {t}
      /\ \A f, u \in Tmr : Ahead(w[x], f, u) => Ahead(<<t>> \o w[x], f, u)
  BY <1>1, <1>2, FirstOf
<1> DEFINE y == <<t>> \o w[x]
<1> HIDE DEF y
<1>5. v \in [Spoke -> Seq(Tmr)] /\ v[x] = y /\ \A i \in Spoke : i # x => v[i] = w[i]
  BY <1>1, <1>3, <1>4 DEF y
<1>6. Once(y) /\ Range(y) = Range(w[x]) \cup {t} /\ \A f, u \in Tmr : Ahead(w[x], f, u) => Ahead(y, f, u)
  BY <1>4 DEF y
<1>7. ASSUME NEW i \in Spoke
      PROVE  /\ Range(w[i]) \subseteq Range(v[i]) /\ Once(v[i])
             /\ \A f, u \in Tmr : Ahead(w[i], f, u) => Ahead(v[i], f, u)
  <2>1. CASE i = x  BY <1>5, <1>6, <2>1
  <2>2. CASE i # x  BY <1>2, <1>5, <2>2
  <2> QED BY <2>1, <2>2
<1>8. \A i \in Spoke : \A u \in Range(w[i]) : u \in Tmr
  <2> SUFFICES ASSUME NEW i \in Spoke PROVE \A u \in Range(w[i]) : u \in Tmr  OBVIOUS
  <2> QED BY <1>2, RangeIs
<1>9. Hung(v, q)
  <2>1. ASSUME NEW i \in Spoke, NEW u \in Range(v[i])
        PROVE  q[u].state = "running" /\ SpokeOf(q[u].match) = i
    <3>1. CASE u \in Range(w[i])
      <4>1. u \in Tmr \ {t}  BY <1>2, <1>8, <3>1
      <4>2. q[u] = r[u]  BY <4>1
      <4> QED BY <3>1, <4>2 DEF Hung
    <3>2. CASE u \notin Range(w[i])
      <4>1. i = x /\ u = t  BY <1>5, <1>6, <2>1, <3>2
      <4> QED BY <4>1 DEF x
    <3> QED BY <3>1, <3>2
  <2>2. ASSUME NEW u \in Tmr, q[u].state = "running" PROVE u \in Range(v[SpokeOf(q[u].match)])
    <3>1. CASE u = t  BY <1>5, <1>6, <3>1 DEF x
    <3>2. CASE u # t
      <4>1. q[u] = r[u]  BY <3>2
      <4>2. u \in Range(w[SpokeOf(r[u].match)])  BY <2>2, <4>1 DEF Hung
      <4>3. r[u].match \in Nat  BY OsTmrAssumption DEF TmrRecord
      <4>4. SpokeOf(r[u].match) \in Spoke  BY <4>3, SpokeIn
      <4> QED BY <1>7, <4>1, <4>2, <4>4
    <3> QED BY <3>1, <3>2
  <2> QED BY <1>7, <2>1, <2>2 DEF Hung
<1> QED BY <1>5, <1>7, <1>9 DEF v

-----------------------------------------------------------------------------
(* A service changes the timer t and leaves the others, and their order,   *)
(* alone; the walk stays where it is.                                      *)
Touched(w, r, k, t) ==
    /\ w \in [Spoke -> Seq(Tmr)] /\ r \in [Tmr -> TmrRecord] /\ Hung(w, r)
    /\ \A u \in Tmr \ {t} : r[u] = tmr[u]
    /\ \A i \in Spoke : /\ Range(wheel[i]) \ {t} \subseteq Range(w[i])
                        /\ \A f, u \in Tmr \ {t} : Ahead(wheel[i], f, u) => Ahead(w[i], f, u)
    /\ k \in WalkRecord /\ k.in = walk.in /\ k.at = walk.at /\ k.next = walk.next
    /\ k.in # "visit" /\ (k.in = "callback" => k.next # t)

LEMMA AheadIn ==
    ASSUME NEW s \in Seq(Tmr), NEW f, NEW u, Ahead(s, f, u)
    PROVE  f \in Tmr /\ u \in Tmr /\ f \in Range(s) /\ u \in Range(s)
BY RangeIs DEF Ahead

LEMMA NowSpoke ==
    ASSUME TmrTypeOK
    PROVE  SpokeOf(OSTmrTime) \in Spoke /\ wheel[SpokeOf(OSTmrTime)] \in Seq(Tmr)
<1>1. OSTmrTime \in Nat  BY OsTmrAssumption DEF TmrTypeOK
<1> QED BY <1>1, SpokeIn DEF TmrTypeOK

LEMMA TouchedKeeps ==
    ASSUME TmrInv, NEW t \in Tmr, NEW w, NEW r, NEW k, Touched(w, r, k, t),
           Timely(w, r[t], OSTmrTime, k, t)
    PROVE  TmrTimed(w, r, OSTmrTime, k) /\ WalkOK(w, OSTmrTime, k)
<1> DEFINE x == SpokeOf(OSTmrTime)
<1>1. x \in Spoke /\ wheel[x] \in Seq(Tmr)  BY NowSpoke DEF TmrInv
<1> HIDE DEF x
<1>2. ASSUME NEW u \in Tmr PROVE Timely(w, r[u], OSTmrTime, k, u)
  <2>1. CASE u = t  BY <2>1
  <2>2. CASE u # t
    <3>1. r[u] = tmr[u]  BY <2>2 DEF Touched
    <3>2. Timely(wheel, r[u], OSTmrTime, walk, u)  BY <3>1 DEF TmrInv, TmrTimed
    <3>3. ASSUME r[u].state = "running", r[u].match = OSTmrTime
          PROVE  k.in # "pend" /\ Ahead(w[x], Coming(k), u)
      <4>1. walk.in # "pend" /\ Ahead(wheel[x], Coming(walk), u)  BY <3>2, <3>3 DEF Timely, x
      <4>2. Coming(walk) = walk.next /\ Coming(k) = walk.next /\ k.in # "pend"
        BY <4>1 DEF Touched, Coming
      <4>3. k.in = "callback"  BY <4>2 DEF Touched, WalkRecord
      <4>4. walk.next # t  BY <4>3 DEF Touched
      <4>5. walk.next \in Tmr  BY <1>1, <4>1, <4>2, AheadIn
      <4>6. Ahead(w[x], walk.next, u)  BY <1>1, <2>2, <4>1, <4>2, <4>4, <4>5 DEF Touched
      <4> QED BY <4>2, <4>6
    <3> QED BY <3>2, <3>3 DEF Timely, x
  <2> QED BY <2>1, <2>2
<1>3. WalkOK(w, OSTmrTime, k)
  <2>1. k.in # "visit"  BY DEF Touched
  <2>2. ASSUME k.in = "callback"
        PROVE  k.at \in Tmr /\ k.at # k.next /\ (k.next # NoTmr => k.next \in Range(w[x]))
    <3>1. /\ walk.at \in Tmr /\ walk.at # walk.next
          /\ walk.next # NoTmr => walk.next \in Range(wheel[x])
      BY <2>2 DEF TmrInv, WalkOK, Touched, x
    <3>2. k.at = walk.at /\ k.next = walk.next /\ k.next # t  BY <2>2 DEF Touched
    <3>3. Range(wheel[x]) \ {t} \subseteq Range(w[x])  BY <1>1 DEF Touched
    <3> QED BY <3>1, <3>2, <3>3
  <2> QED BY <2>1, <2>2 DEF WalkOK, x
<1> QED BY <1>2, <1>3 DEF TmrTimed

(* A callback touches no running timer the walk is to come to.             *)
LEMMA NotNext ==
    ASSUME TmrInv, CallbackOwn, NEW t \in Tmr, walk.in = "callback",
           tmr[t].state = "running" => MayTouch(t)
    PROVE  walk.next # t
<1> SUFFICES ASSUME walk.next = t PROVE FALSE  OBVIOUS
<1>1. walk.at # walk.next /\ walk.next # NoTmr /\ walk.next \in Range(wheel[SpokeOf(OSTmrTime)])
  BY OsTmrAssumption DEF TmrInv, WalkOK
<1>2. tmr[t].state = "running"  BY <1>1, NowSpoke DEF TmrInv, Hung
<1> QED BY <1>1, <1>2 DEF MayTouch

LEMMA MayCallIs ==
    ASSUME TmrInv, MayCall
    PROVE  /\ walk' \in WalkRecord /\ walk'.in = walk.in /\ walk'.at = walk.at
           /\ walk'.next = walk.next /\ walk'.in # "visit"
<1>1. walk \in WalkRecord  BY DEF TmrInv, TmrTypeOK
<1>2. CASE walk.in = "pend" /\ UNCHANGED walk  BY <1>1, <1>2
<1>3. CASE walk.in = "callback" /\ walk' = [walk EXCEPT !.calls = walk.calls + 1]
  BY <1>1, <1>3 DEF WalkRecord
<1> QED BY <1>2, <1>3 DEF MayCall

(* The free list stays as it is when no timer comes to it or leaves it.    *)
LEMMA FreedSame ==
    ASSUME Freed(tmrFree, tmr), NEW r, NEW t \in Tmr, \A u \in Tmr \ {t} : r[u] = tmr[u],
           r[t].state # "unused", tmr[t].state # "unused"
    PROVE  Freed(tmrFree, r)
<1>1. \A u \in Tmr : r[u].state = "unused" <=> tmr[u].state = "unused"  OBVIOUS
<1> QED BY <1>1 DEF Freed

(* Another invariant of the step: the time and the types.                  *)
LEMMA TouchedInv ==
    ASSUME TmrInv, NEW t \in Tmr, Touched(wheel', tmr', walk', t), OSTmrTime' = OSTmrTime,
           tmrFree' \in Seq(Tmr), Freed(tmrFree', tmr'),
           Timely(wheel', tmr'[t], OSTmrTime, walk', t)
    PROVE  TmrInv'
<1>1. TmrTimed(wheel', tmr', OSTmrTime, walk') /\ WalkOK(wheel', OSTmrTime, walk')
  BY TouchedKeeps
<1>2. TmrTypeOK'  BY DEF TmrInv, TmrTypeOK, Touched
<1>3. Hung(wheel', tmr')  BY DEF Touched
<1>4. TmrTimed(wheel', tmr', OSTmrTime', walk') /\ WalkOK(wheel', OSTmrTime', walk')  BY <1>1
<1>5. TmrTimed(wheel, tmr, OSTmrTime, walk)' /\ WalkOK(wheel, OSTmrTime, walk)'
      /\ Hung(wheel, tmr)' /\ Freed(tmrFree, tmr)'
  BY <1>3, <1>4 DEF TmrTimed, Timely, Left, Coming, Ahead, WalkOK, Hung, Once, Freed, SpokeOf
<1> QED BY <1>2, <1>5 DEF TmrInv

-----------------------------------------------------------------------------
(* The services.                                                           *)
LEMMA RestOf ==
    ASSUME NEW s \in Seq(Tmr), s # <<>>, Once(s)
    PROVE  /\ Head(s) \in Tmr /\ Head(s) \in Range(s) /\ Tail(s) \in Seq(Tmr)
           /\ Once(Tail(s)) /\ Range(Tail(s)) = Range(s) \ {Head(s)}
<1> DEFINE n == Len(s)
           v == Tail(s)
<1>1. n \in Nat \ {0} /\ s[1] = Head(s) /\ v \in Seq(Tmr) /\ Len(v) = n - 1  OBVIOUS
<1>2. \A i \in 1 .. n - 1 : i + 1 \in 1 .. n /\ v[i] = s[i + 1]  BY <1>1
<1>3. Range(s) = {s[i] : i \in 1 .. n} /\ Range(v) = {v[i] : i \in 1 .. n - 1}  BY <1>1, RangeIs
<1>4. 1 \in 1 .. n /\ s[1] \in Tmr  BY <1>1
<1> HIDE DEF v
<1>5. Once(v)
  <2> SUFFICES ASSUME NEW i \in 1 .. n - 1, NEW j \in 1 .. n - 1, v[i] = v[j] PROVE i = j
    BY <1>1 DEF Once
  <2>1. i + 1 = j + 1  BY <1>2 DEF Once
  <2> QED BY <2>1
<1>6. ASSUME NEW u \in Range(v) PROVE u \in Range(s) \ {s[1]}
  <2>1. PICK i \in 1 .. n - 1 : u = v[i]  BY <1>3
  <2>2. i + 1 \in 1 .. n /\ u = s[i + 1] /\ i + 1 # 1  BY <1>2, <2>1
  <2>3. s[i + 1] # s[1]  BY <1>4, <2>2 DEF Once
  <2> QED BY <1>3, <2>2, <2>3
<1>7. ASSUME NEW u \in Range(s) \ {s[1]} PROVE u \in Range(v)
  <2>1. PICK i \in 1 .. n : u = s[i]  BY <1>3
  <2>2. i # 1  BY <2>1
  <2>3. i - 1 \in 1 .. n - 1 /\ (i - 1) + 1 = i  BY <1>1, <2>2
  <2>4. v[i - 1] = s[i]  BY <1>2, <2>3
  <2> QED BY <1>3, <2>1, <2>3, <2>4
<1>8. Range(v) = Range(s) \ {s[1]}  BY <1>6, <1>7
<1>9. s[1] \in Range(s)  BY <1>3, <1>4
<1> QED BY <1>1, <1>4, <1>5, <1>8, <1>9 DEF v

LEMMA CreateInv ==
    ASSUME TmrInv, NEW dly \in 0 .. OSTmrTimeMax - 1, NEW period \in 0 .. OSTmrTimeMax - 1,
           dly + period > 0, OSTmrCreate(dly, period), CallbackOwn
    PROVE  TmrInv'
<1> DEFINE t == Head(tmrFree)
<1>1. tmrFree \in Seq(Tmr) /\ tmrFree # <<>> /\ Once(tmrFree)
  BY DEF TmrInv, TmrTypeOK, Freed, OSTmrCreate
<1>2. t \in Tmr /\ t \in Range(tmrFree) /\ tmrFree' \in Seq(Tmr) /\ Once(tmrFree')
      /\ Range(tmrFree') = Range(tmrFree) \ {t}
  BY <1>1, RestOf DEF OSTmrCreate
<1> HIDE DEF t
<1>3. tmr[t].state = "unused"  BY <1>2 DEF TmrInv, Freed
<1>4. tmr \in [Tmr -> TmrRecord] /\ wheel \in [Spoke -> Seq(Tmr)]  BY DEF TmrInv, TmrTypeOK
<1> DEFINE new == [state |-> "stopped", match |-> 0, dly |-> dly, period |-> period]
<1>5. new \in TmrRecord  BY OsTmrAssumption DEF TmrRecord
<1>6. tmr' = [tmr EXCEPT ![t] = new]  BY DEF OSTmrCreate, t
<1>7. /\ tmr' \in [Tmr -> TmrRecord] /\ tmr'[t] = new /\ \A u \in Tmr \ {t} : tmr'[u] = tmr[u]
  <2> HIDE DEF new
  <2> QED BY <1>2, <1>4, <1>5, <1>6
<1>8. tmr'[t].state = "stopped" /\ tmr'[t].dly = dly /\ tmr'[t].period = period  BY <1>7
<1>9. wheel' = wheel /\ OSTmrTime' = OSTmrTime /\ MayCall  BY DEF OSTmrCreate
<1>10. Hung(wheel', tmr')
  <2>1. ASSUME NEW i \in Spoke, NEW u \in Range(wheel[i])
        PROVE  tmr'[u].state = "running" /\ SpokeOf(tmr'[u].match) = i
    <3>1. tmr[u].state = "running" /\ SpokeOf(tmr[u].match) = i  BY DEF TmrInv, Hung
    <3>2. u \in Tmr  BY <1>4, RangeIs
    <3> QED BY <1>3, <1>7, <3>1, <3>2
  <2>2. ASSUME NEW u \in Tmr, tmr'[u].state = "running"
        PROVE  u \in Range(wheel[SpokeOf(tmr'[u].match)])
    <3>1. u # t /\ tmr'[u] = tmr[u]  BY <1>7, <1>8, <2>2
    <3> QED BY <2>2, <3>1 DEF TmrInv, Hung
  <2>3. \A i \in Spoke : Once(wheel[i])  BY DEF TmrInv, Hung
  <2> QED BY <1>9, <2>1, <2>2, <2>3 DEF Hung
<1>11. walk'.in = "callback" => walk'.next # t
  BY <1>2, <1>3, <1>9, MayCallIs, NotNext
<1>12. Touched(wheel', tmr', walk', t)
  BY <1>4, <1>7, <1>9, <1>10, <1>11, MayCallIs DEF Touched
<1>13. Freed(tmrFree', tmr')
  <2>1. Range(tmrFree) = {u \in Tmr : tmr[u].state = "unused"}  BY DEF TmrInv, Freed
  <2>2. \A u \in Tmr : tmr'[u].state = "unused" <=> u # t /\ tmr[u].state = "unused"
    BY <1>7, <1>8
  <2> QED BY <1>2, <2>1, <2>2 DEF Freed
<1>14. Timely(wheel', tmr'[t], OSTmrTime, walk', t)
  <2>1. dly # 0 \/ period # 0  OBVIOUS
  <2> QED BY <1>8, <2>1 DEF Timely
<1> QED BY <1>2, <1>9, <1>12, <1>13, <1>14, TouchedInv

(* A running timer is stopped: its record with another state.              *)
LEMMA StopInv ==
    ASSUME TmrInv, NEW t \in Tmr, OSTmrStop(t), CallbackOwn
    PROVE  TmrInv'
<1>1. tmr \in [Tmr -> TmrRecord] /\ tmrFree \in Seq(Tmr) /\ TmrTypeOK /\ Hung(wheel, tmr)
  BY DEF TmrInv, TmrTypeOK
<1>2. /\ tmr[t].state = "running" /\ MayTouch(t) /\ MayCall /\ tmrFree' = tmrFree
      /\ OSTmrTime' = OSTmrTime /\ wheel' = OSTmr_Unlink(wheel, t)
      /\ tmr' = [tmr EXCEPT ![t].state = "stopped"]
  BY DEF OSTmrStop
<1>3. tmr' \in [Tmr -> TmrRecord] /\ \A u \in Tmr \ {t} : tmr'[u] = tmr[u]
  BY <1>1, <1>2 DEF TmrRecord
<1>4. tmr'[t].state = "stopped" /\ tmr'[t].dly = tmr[t].dly /\ tmr'[t].period = tmr[t].period
  BY <1>1, <1>2 DEF TmrRecord
<1>5. /\ wheel' \in [Spoke -> Seq(Tmr)] /\ Hung(wheel', tmr')
      /\ \A i \in Spoke : /\ Range(wheel'[i]) = Range(wheel[i]) \ {t}
                          /\ \A f, u \in Tmr \ {t} : Ahead(wheel[i], f, u) => Ahead(wheel'[i], f, u)
  <2>1. tmr'[t].state # "running"  BY <1>4
  <2> QED BY <1>1, <1>2, <1>3, <2>1, UnlinkHung
<1>6. walk'.in = "callback" => walk'.next # t  BY <1>2, MayCallIs, NotNext
<1>7. Touched(wheel', tmr', walk', t)  BY <1>2, <1>3, <1>5, <1>6, MayCallIs DEF Touched
<1>8. Freed(tmrFree', tmr')
  <2>1. Freed(tmrFree, tmr) /\ tmr'[t].state # "unused" /\ tmr[t].state # "unused"
    BY <1>2, <1>4 DEF TmrInv
  <2> QED BY <1>2, <1>3, <2>1, FreedSame
<1>9. Timely(wheel', tmr'[t], OSTmrTime, walk', t)
  <2>1. tmr[t].dly # 0 \/ tmr[t].period # 0  BY <1>2 DEF TmrInv, TmrTimed, Timely
  <2> QED BY <1>4, <2>1 DEF Timely
<1> QED BY <1>1, <1>2, <1>7, <1>8, <1>9, TouchedInv

(* A timer that does not run may be deleted with the wheel as it is.       *)
LEMMA SameHung ==
    ASSUME TmrTypeOK, Hung(wheel, tmr), NEW t \in Tmr, tmr[t].state # "running",
           NEW r, \A u \in Tmr \ {t} : r[u] = tmr[u], r[t].state # "running"
    PROVE  Hung(wheel, r)
<1>1. ASSUME NEW i \in Spoke, NEW u \in Range(wheel[i])
      PROVE  r[u].state = "running" /\ SpokeOf(r[u].match) = i
  <2>1. tmr[u].state = "running" /\ SpokeOf(tmr[u].match) = i  BY DEF Hung
  <2>2. wheel[i] \in Seq(Tmr)  BY DEF TmrTypeOK
  <2>3. u \in Tmr \ {t}  BY <2>1, <2>2, RangeIs
  <2> QED BY <2>1, <2>3
<1>2. ASSUME NEW u \in Tmr, r[u].state = "running" PROVE u \in Range(wheel[SpokeOf(r[u].match)])
  <2>1. u # t /\ r[u] = tmr[u]  BY <1>2
  <2> QED BY <1>2, <2>1 DEF Hung
<1>3. \A i \in Spoke : Once(wheel[i])  BY DEF Hung
<1> QED BY <1>1, <1>2, <1>3 DEF Hung

LEMMA DelInv ==
    ASSUME TmrInv, NEW t \in Tmr, OSTmrDel(t), CallbackOwn
    PROVE  TmrInv'
<1>1. /\ tmr \in [Tmr -> TmrRecord] /\ wheel \in [Spoke -> Seq(Tmr)] /\ tmrFree \in Seq(Tmr)
      /\ TmrTypeOK /\ Hung(wheel, tmr) /\ Freed(tmrFree, tmr)
  BY DEF TmrInv, TmrTypeOK
<1>2. /\ tmr[t].state # "unused" /\ MayTouch(t) /\ MayCall /\ tmrFree' = <<t>> \o tmrFree
      /\ OSTmrTime' = OSTmrTime /\ tmr' = [tmr EXCEPT ![t] = Blank]
      /\ wheel' = IF tmr[t].state = "running" THEN OSTmr_Unlink(wheel, t) ELSE wheel
  BY DEF OSTmrDel
<1>3. Blank \in TmrRecord /\ Blank.state = "unused"  BY OsTmrAssumption DEF Blank, TmrRecord
<1>4. tmr' \in [Tmr -> TmrRecord] /\ tmr'[t] = Blank /\ \A u \in Tmr \ {t} : tmr'[u] = tmr[u]
  BY <1>1, <1>2, <1>3
<1>5. /\ wheel' \in [Spoke -> Seq(Tmr)] /\ Hung(wheel', tmr')
      /\ \A i \in Spoke : /\ Range(wheel[i]) \ {t} \subseteq Range(wheel'[i])
                          /\ \A f, u \in Tmr \ {t} : Ahead(wheel[i], f, u) => Ahead(wheel'[i], f, u)
  <2>1. tmr'[t].state # "running"  BY <1>3, <1>4
  <2>2. CASE tmr[t].state = "running"
    <3>1. wheel' = OSTmr_Unlink(wheel, t)  BY <1>2, <2>2
    <3>2. /\ wheel' \in [Spoke -> Seq(Tmr)] /\ Hung(wheel', tmr')
          /\ \A i \in Spoke : /\ Range(wheel'[i]) = Range(wheel[i]) \ {t}
                              /\ \A f, u \in Tmr \ {t} : Ahead(wheel[i], f, u) => Ahead(wheel'[i], f, u)
      BY <1>1, <1>4, <2>1, <2>2, <3>1, UnlinkHung
    <3> QED BY <3>2
  <2>3. CASE tmr[t].state # "running"
    <3>1. wheel' = wheel  BY <1>2, <2>3
    <3>2. Hung(wheel, tmr')  BY <1>1, <1>4, <2>1, <2>3, SameHung
    <3> QED BY <1>1, <3>1, <3>2
  <2> QED BY <2>2, <2>3
<1>6. walk'.in = "callback" => walk'.next # t  BY <1>2, MayCallIs, NotNext
<1>7. Touched(wheel', tmr', walk', t)  BY <1>2, <1>4, <1>5, <1>6, MayCallIs DEF Touched
<1>8. tmrFree' \in Seq(Tmr) /\ Freed(tmrFree', tmr')
  <2>1. t \notin Range(tmrFree) /\ Once(tmrFree)  BY <1>1, <1>2 DEF Freed
  <2>2. tmrFree' \in Seq(Tmr) /\ Once(tmrFree') /\ Range(tmrFree') = Range(tmrFree) \cup {t}
    BY <1>1, <1>2, <2>1, FirstOf
  <2>3. \A u \in Tmr : tmr'[u].state = "unused" <=> u = t \/ tmr[u].state = "unused"
    BY <1>3, <1>4
  <2>4. Range(tmrFree) = {u \in Tmr : tmr[u].state = "unused"}  BY <1>1 DEF Freed
  <2> QED BY <2>2, <2>3, <2>4 DEF Freed
<1>9. Timely(wheel', tmr'[t], OSTmrTime, walk', t)  BY <1>3, <1>4 DEF Timely
<1> QED BY <1>2, <1>7, <1>8, <1>9, TouchedInv

LEMMA StartInv ==
    ASSUME TmrInv, NEW t \in Tmr, OSTmrStart(t), CallbackOwn
    PROVE  TmrInv'
<1> DEFINE k == IF tmr[t].dly = 0 THEN tmr[t].period ELSE tmr[t].dly
           m == Match(k)
           off == IF tmr[t].state = "running" THEN OSTmr_Unlink(wheel, t) ELSE wheel
           mid == [tmr EXCEPT ![t].state = "stopped"]
<1>1. /\ tmr \in [Tmr -> TmrRecord] /\ wheel \in [Spoke -> Seq(Tmr)] /\ tmrFree \in Seq(Tmr)
      /\ TmrTypeOK /\ Hung(wheel, tmr) /\ Freed(tmrFree, tmr)
      /\ OSTmrTime \in 0 .. OSTmrTimeMax - 1
  BY DEF TmrInv, TmrTypeOK
<1>2. /\ tmr[t].state # "unused" /\ (tmr[t].state = "running" => MayTouch(t)) /\ MayCall
      /\ tmrFree' = tmrFree /\ OSTmrTime' = OSTmrTime /\ wheel' = OSTmr_Link(off, t, m)
      /\ tmr' = [tmr EXCEPT ![t].state = "running", ![t].match = m]
  BY DEF OSTmrStart
<1>3. /\ tmr[t].dly \in 0 .. OSTmrTimeMax - 1 /\ tmr[t].period \in 0 .. OSTmrTimeMax - 1
      /\ tmr[t].dly # 0 \/ tmr[t].period # 0
  BY <1>1, <1>2 DEF TmrInv, TmrRecord, TmrTimed, Timely
<1>4. k \in 1 .. OSTmrTimeMax - 1 /\ (k = tmr[t].dly \/ k = tmr[t].period)  BY <1>3, OsTmrAssumption
<1> HIDE DEF k
<1>5. m \in 0 .. OSTmrTimeMax - 1 /\ m # OSTmrTime /\ (m - OSTmrTime) % OSTmrTimeMax = k
  BY <1>1, <1>4, MatchIs
<1> HIDE DEF m
<1>6. tmr' \in [Tmr -> TmrRecord] /\ \A u \in Tmr \ {t} : tmr'[u] = tmr[u]
  BY <1>1, <1>2, <1>5 DEF TmrRecord
<1>7. /\ tmr'[t].state = "running" /\ tmr'[t].match = m /\ tmr'[t].dly = tmr[t].dly
      /\ tmr'[t].period = tmr[t].period
  BY <1>1, <1>2 DEF TmrRecord
<1>8. mid \in [Tmr -> TmrRecord] /\ mid[t].state = "stopped" /\ \A u \in Tmr \ {t} : mid[u] = tmr[u]
  BY <1>1 DEF TmrRecord
<1> HIDE DEF mid
<1>9. /\ off \in [Spoke -> Seq(Tmr)] /\ Hung(off, mid)
      /\ \A i \in Spoke : /\ Range(wheel[i]) \ {t} \subseteq Range(off[i])
                          /\ \A f, u \in Tmr \ {t} : Ahead(wheel[i], f, u) => Ahead(off[i], f, u)
  <2>1. mid[t].state # "running"  BY <1>8
  <2>2. CASE tmr[t].state = "running"
    <3>1. off = OSTmr_Unlink(wheel, t)  BY <2>2
    <3> HIDE DEF off
    <3>2. /\ off \in [Spoke -> Seq(Tmr)] /\ Hung(off, mid)
          /\ \A i \in Spoke : /\ Range(off[i]) = Range(wheel[i]) \ {t}
                              /\ \A f, u \in Tmr \ {t} : Ahead(wheel[i], f, u) => Ahead(off[i], f, u)
      BY <1>1, <1>8, <2>1, <2>2, <3>1, UnlinkHung
    <3> QED BY <3>2
  <2>3. CASE tmr[t].state # "running"
    <3>1. off = wheel  BY <2>3
    <3>2. Hung(wheel, mid)  BY <1>1, <1>8, <2>1, <2>3, SameHung
    <3> QED BY <1>1, <3>1, <3>2
  <2> QED BY <2>2, <2>3
<1> HIDE DEF off
<1>10. /\ wheel' \in [Spoke -> Seq(Tmr)] /\ Hung(wheel', tmr')
       /\ \A i \in Spoke : /\ Range(off[i]) \subseteq Range(wheel'[i])
                           /\ \A f, u \in Tmr : Ahead(off[i], f, u) => Ahead(wheel'[i], f, u)
  <2>1. mid[t].state # "running" /\ \A u \in Tmr \ {t} : tmr'[u] = mid[u]  BY <1>6, <1>8
  <2> QED BY <1>2, <1>5, <1>6, <1>7, <1>8, <1>9, <2>1, LinkHung
<1>11. \A i \in Spoke : /\ Range(wheel[i]) \ {t} \subseteq Range(wheel'[i])
                        /\ \A f, u \in Tmr \ {t} : Ahead(wheel[i], f, u) => Ahead(wheel'[i], f, u)
  BY <1>9, <1>10
<1>12. walk'.in = "callback" => walk'.next # t  BY <1>2, MayCallIs, NotNext
<1>13. Touched(wheel', tmr', walk', t)
  BY <1>2, <1>6, <1>10, <1>11, <1>12, MayCallIs DEF Touched
<1>14. Freed(tmrFree', tmr')
  <2>1. tmr'[t].state # "unused"  BY <1>7
  <2> QED BY <1>1, <1>2, <1>6, <2>1, FreedSame
<1>15. Timely(wheel', tmr'[t], OSTmrTime, walk', t)
  <2>1. Left(tmr'[t], OSTmrTime) = k  BY <1>5, <1>7 DEF Left
  <2>2. k <= tmr'[t].dly \/ k <= tmr'[t].period  BY <1>3, <1>4, <1>7
  <2>3. tmr'[t].match # OSTmrTime  BY <1>5, <1>7
  <2> QED BY <1>3, <1>7, <2>1, <2>2, <2>3 DEF Timely
<1> QED BY <1>1, <1>2, <1>13, <1>14, <1>15, TouchedInv

-----------------------------------------------------------------------------
(* The tick and the timer task.                                            *)
LEMMA TickInv ==
    ASSUME TmrInv, UNCHANGED <<tmr, wheel, tmrFree, OSTmrTime, walk>>
    PROVE  TmrInv'
BY DEF TmrInv, TmrTypeOK, TmrTimed, Timely, Left, Coming, Ahead, WalkOK, Hung, Once, Freed, SpokeOf

LEMMA WaitingIs ==
    /\ Waiting \in WalkRecord /\ Waiting.in = "pend"
    /\ \A t \in Tmr : LET k == [Waiting EXCEPT !.at = t, !.in = "visit"]
                      IN  k \in WalkRecord /\ k.in = "visit" /\ k.at = t
BY DEF Waiting, WalkRecord

(* What the new state of a step of the timer task has to be.               *)
LEMMA TaskInv ==
    ASSUME TmrInv, wheel' \in [Spoke -> Seq(Tmr)], tmr' \in [Tmr -> TmrRecord],
           tmrFree' = tmrFree, OSTmrTime' \in 0 .. OSTmrTimeMax - 1, walk' \in WalkRecord,
           Hung(wheel', tmr'), Freed(tmrFree, tmr'),
           TmrTimed(wheel', tmr', OSTmrTime', walk'), WalkOK(wheel', OSTmrTime', walk')
    PROVE  TmrInv'
<1>1. TmrTypeOK'  BY DEF TmrInv, TmrTypeOK
<1>2. TmrTimed(wheel, tmr, OSTmrTime, walk)' /\ WalkOK(wheel, OSTmrTime, walk)'
      /\ Hung(wheel, tmr)' /\ Freed(tmrFree, tmr)'
  BY DEF TmrTimed, Timely, Left, Coming, Ahead, WalkOK, Hung, Once, Freed, SpokeOf
<1> QED BY <1>1, <1>2 DEF TmrInv

LEMMA WakesInv ==
    ASSUME TmrInv, OSTmr_TaskWakes
    PROVE  TmrInv'
<1> DEFINE now == OSTmrTime'
           s == wheel[SpokeOf(now)]
<1>1. /\ tmr \in [Tmr -> TmrRecord] /\ wheel \in [Spoke -> Seq(Tmr)]
      /\ Hung(wheel, tmr) /\ Freed(tmrFree, tmr) /\ OSTmrTime \in 0 .. OSTmrTimeMax - 1
  BY DEF TmrInv, TmrTypeOK
<1>2. /\ walk.in = "pend" /\ now = (OSTmrTime + 1) % OSTmrTimeMax
      /\ tmr' = tmr /\ wheel' = wheel /\ tmrFree' = tmrFree
      /\ walk' = IF s = <<>> THEN Waiting ELSE [Waiting EXCEPT !.at = Head(s), !.in = "visit"]
  BY DEF OSTmr_TaskWakes
<1>3. now \in 0 .. OSTmrTimeMax - 1 /\ now \in Nat  BY <1>1, <1>2, OsTmrAssumption
<1> HIDE DEF now
<1>4. s \in Seq(Tmr) /\ SpokeOf(now) \in Spoke  BY <1>1, <1>3, SpokeIn
<1>5. s # <<>> => Head(s) \in Tmr /\ Head(s) \in Range(s) /\ s[1] = Head(s)
  <2>1. Once(s)  BY <1>1, <1>4 DEF Hung
  <2> QED BY <1>4, <2>1, RestOf
<1>6. walk' \in WalkRecord /\ (s # <<>> => walk'.in = "visit" /\ walk'.at = Head(s))
      /\ (s = <<>> => walk'.in = "pend")
  BY <1>2, <1>5, WaitingIs
<1>7. ASSUME NEW t \in Tmr PROVE Timely(wheel, tmr[t], now, walk', t)
  <2>1. Timely(wheel, tmr[t], OSTmrTime, walk, t)  BY DEF TmrInv, TmrTimed
  <2>2. ASSUME tmr[t].state = "running"
        PROVE  /\ Left(tmr[t], now) <= tmr[t].dly \/ Left(tmr[t], now) <= tmr[t].period
               /\ tmr[t].match = now => walk'.in # "pend" /\ Ahead(s, Coming(walk'), t)
    <3>1. /\ tmr[t].match \in 0 .. OSTmrTimeMax - 1 /\ tmr[t].dly \in 0 .. OSTmrTimeMax - 1
          /\ tmr[t].period \in 0 .. OSTmrTimeMax - 1
      BY <1>1 DEF TmrRecord
    <3>2. tmr[t].match # OSTmrTime  BY <1>2, <2>1, <2>2 DEF Timely
    <3>3. Left(tmr[t], OSTmrTime) \in Nat /\ Left(tmr[t], now) = Left(tmr[t], OSTmrTime) - 1
      BY <1>1, <1>2, <3>1, <3>2, LeftLess
    <3>4. Left(tmr[t], OSTmrTime) <= tmr[t].dly \/ Left(tmr[t], OSTmrTime) <= tmr[t].period
      BY <2>1, <2>2 DEF Timely
    <3>5. Left(tmr[t], now) <= tmr[t].dly \/ Left(tmr[t], now) <= tmr[t].period
      BY <3>1, <3>3, <3>4, OsTmrAssumption
    <3>6. ASSUME tmr[t].match = now PROVE walk'.in # "pend" /\ Ahead(s, Coming(walk'), t)
      <4>1. t \in Range(s)  BY <1>1, <2>2, <3>6 DEF Hung
      <4>2. PICK j \in 1 .. Len(s) : s[j] = t  BY <1>4, <4>1, RangeIs
      <4>3. s # <<>> /\ 1 \in 1 .. Len(s) /\ 1 <= j  BY <1>4, <4>2
      <4>4. walk'.in = "visit" /\ walk'.at = Head(s) /\ s[1] = Head(s)  BY <1>5, <1>6, <4>3
      <4>5. Ahead(s, Head(s), t)  BY <4>2, <4>3, <4>4 DEF Ahead
      <4> QED BY <4>4, <4>5 DEF Coming
    <3> QED BY <3>5, <3>6
  <2> QED BY <2>1, <2>2 DEF Timely
<1>8. WalkOK(wheel, now, walk')  BY <1>5, <1>6, <1>2, WaitingIs DEF WalkOK
<1>9. TmrTimed(wheel', tmr', OSTmrTime', walk') /\ WalkOK(wheel', OSTmrTime', walk')
  BY <1>2, <1>7, <1>8 DEF TmrTimed, now
<1> QED BY <1>1, <1>2, <1>3, <1>6, <1>9, TaskInv DEF now

(* The walk goes on to the timer n, with every timer whose time it is from *)
(* there on.                                                               *)
LEMMA GoesOnInv ==
    ASSUME TmrInv, NEW n \in Tmr \cup {NoTmr}, n # NoTmr => n \in Range(wheel[SpokeOf(OSTmrTime)]),
           UNCHANGED <<tmr, wheel, tmrFree, OSTmrTime>>, walk' = GoesOn(n),
           \A t \in Tmr : tmr[t].state = "running" /\ tmr[t].match = OSTmrTime =>
               n # NoTmr /\ Ahead(wheel[SpokeOf(OSTmrTime)], n, t)
    PROVE  TmrInv'
<1>1. /\ tmr \in [Tmr -> TmrRecord] /\ wheel \in [Spoke -> Seq(Tmr)]
      /\ OSTmrTime \in 0 .. OSTmrTimeMax - 1
      /\ Hung(wheel, tmr) /\ Freed(tmrFree, tmr)
  BY DEF TmrInv, TmrTypeOK
<1>2. /\ walk' \in WalkRecord /\ (n = NoTmr => walk'.in = "pend")
      /\ n # NoTmr => walk'.in = "visit" /\ walk'.at = n
  BY WaitingIs DEF GoesOn
<1>3. ASSUME NEW t \in Tmr PROVE Timely(wheel, tmr[t], OSTmrTime, walk', t)
  <2>1. Timely(wheel, tmr[t], OSTmrTime, walk, t)  BY DEF TmrInv, TmrTimed
  <2>2. ASSUME tmr[t].state = "running", tmr[t].match = OSTmrTime
        PROVE  walk'.in # "pend" /\ Ahead(wheel[SpokeOf(OSTmrTime)], Coming(walk'), t)
    <3>1. n # NoTmr /\ Ahead(wheel[SpokeOf(OSTmrTime)], n, t)  BY <2>2
    <3>2. walk'.in = "visit" /\ walk'.at = n  BY <1>2, <3>1
    <3> QED BY <3>1, <3>2 DEF Coming
  <2> QED BY <2>1, <2>2 DEF Timely
<1>4. WalkOK(wheel, OSTmrTime, walk')
  <2>1. CASE n = NoTmr  BY <1>2, <2>1 DEF WalkOK
  <2>2. CASE n # NoTmr  BY <1>2, <2>2 DEF WalkOK
  <2> QED BY <2>1, <2>2
<1>5. TmrTimed(wheel', tmr', OSTmrTime', walk') /\ WalkOK(wheel', OSTmrTime', walk')
  BY <1>3, <1>4 DEF TmrTimed
<1> QED BY <1>1, <1>2, <1>5, TaskInv

LEMMA ReturnsInv ==
    ASSUME TmrInv, CallbackReturns
    PROVE  TmrInv'
<1>1. walk.in = "callback" /\ walk' = GoesOn(walk.next) /\ UNCHANGED <<tmr, wheel, tmrFree, OSTmrTime>>
  BY DEF CallbackReturns
<1>2. walk.next \in Tmr \cup {NoTmr}  BY DEF TmrInv, TmrTypeOK, WalkRecord
<1>3. walk.next # NoTmr => walk.next \in Range(wheel[SpokeOf(OSTmrTime)])
  BY <1>1 DEF TmrInv, WalkOK
<1>4. ASSUME NEW t \in Tmr, tmr[t].state = "running", tmr[t].match = OSTmrTime
      PROVE  walk.next # NoTmr /\ Ahead(wheel[SpokeOf(OSTmrTime)], walk.next, t)
  <2>1. Timely(wheel, tmr[t], OSTmrTime, walk, t)  BY DEF TmrInv, TmrTimed
  <2>2. Ahead(wheel[SpokeOf(OSTmrTime)], walk.next, t)  BY <1>1, <1>4, <2>1 DEF Timely, Coming
  <2>3. walk.next \in Tmr  BY <2>2, NowSpoke, AheadIn DEF TmrInv
  <2> QED BY <2>2, <2>3, OsTmrAssumption
<1> QED BY <1>1, <1>2, <1>3, <1>4, GoesOnInv

(* A visit finds the successor, which leads to all whose time it is.       *)
LEMMA VisitNext ==
    ASSUME TmrInv, walk.in = "visit"
    PROVE  LET n == OSTmrNext(wheel, walk.at)
               x == SpokeOf(OSTmrTime)
           IN  /\ walk.at \in Tmr /\ tmr[walk.at].state = "running" /\ n \in Tmr \cup {NoTmr}
               /\ n # NoTmr => n \in Range(wheel[x]) /\ n # walk.at
               /\ \A u \in Tmr \ {walk.at} : tmr[u].state = "running" /\ tmr[u].match = OSTmrTime =>
                      n # NoTmr /\ Ahead(wheel[x], n, u)
<1> DEFINE t == walk.at
           n == OSTmrNext(wheel, t)
           x == SpokeOf(OSTmrTime)
<1>1. x \in Spoke /\ wheel[x] \in Seq(Tmr) /\ t \in Range(wheel[x])
  BY NowSpoke DEF TmrInv, WalkOK
<1> HIDE DEF x
<1>2. t \in Tmr /\ tmr[t].state = "running"  BY <1>1, RangeIs DEF TmrInv, Hung
<1>3. /\ n # NoTmr => n \in Range(wheel[x]) /\ n # t
      /\ \A u \in Tmr \ {t} : Ahead(wheel[x], t, u) => n # NoTmr /\ Ahead(wheel[x], n, u)
  BY <1>1, NextIs DEF TmrInv
<1> HIDE DEF n
<1>4. n \in Tmr \cup {NoTmr}  BY <1>1, <1>3, RangeIs
<1>5. ASSUME NEW u \in Tmr \ {t}, tmr[u].state = "running", tmr[u].match = OSTmrTime
      PROVE  n # NoTmr /\ Ahead(wheel[x], n, u)
  <2>1. Timely(wheel, tmr[u], OSTmrTime, walk, u)  BY DEF TmrInv, TmrTimed
  <2>2. Ahead(wheel[x], t, u)  BY <1>5, <2>1 DEF Timely, Coming, x
  <2> QED BY <1>3, <2>2
<1> QED BY <1>2, <1>3, <1>4, <1>5 DEF n, x

LEMMA VisitsInv ==
    ASSUME TmrInv, OSTmr_TaskVisits
    PROVE  TmrInv'
<1> DEFINE t == walk.at
           n == OSTmrNext(wheel, t)
           off == OSTmr_Unlink(wheel, t)
           again == Match(tmr[t].period)
           x == SpokeOf(OSTmrTime)
           mid == [tmr EXCEPT ![t].state = "completed"]
<1>1. /\ walk.in = "visit" /\ UNCHANGED <<tmrFree, OSTmrTime>>
      /\ tmr[t].match # OSTmrTime => walk' = GoesOn(n) /\ UNCHANGED <<tmr, wheel>>
      /\ tmr[t].match = OSTmrTime =>
           /\ walk' = [walk EXCEPT !.next = n, !.in = "callback"]
           /\ tmr[t].period > 0 => /\ wheel' = OSTmr_Link(off, t, again)
                                   /\ tmr' = [tmr EXCEPT ![t].match = again]
           /\ ~(tmr[t].period > 0) => wheel' = off /\ tmr' = mid
  BY DEF OSTmr_TaskVisits
<1>2. /\ t \in Tmr /\ tmr[t].state = "running" /\ n \in Tmr \cup {NoTmr}
      /\ n # NoTmr => n \in Range(wheel[x]) /\ n # t
      /\ \A u \in Tmr \ {t} : tmr[u].state = "running" /\ tmr[u].match = OSTmrTime =>
             n # NoTmr /\ Ahead(wheel[x], n, u)
  BY <1>1, VisitNext
<1>3. /\ tmr \in [Tmr -> TmrRecord] /\ wheel \in [Spoke -> Seq(Tmr)]
      /\ OSTmrTime \in 0 .. OSTmrTimeMax - 1
      /\ TmrTypeOK /\ Hung(wheel, tmr) /\ Freed(tmrFree, tmr) /\ walk \in WalkRecord
  BY DEF TmrInv, TmrTypeOK
<1>4. x \in Spoke /\ wheel[x] \in Seq(Tmr)  BY <1>3, NowSpoke
<1> HIDE DEF t, n, x
<1>5. CASE tmr[t].match # OSTmrTime
  <2>1. \A u \in Tmr : tmr[u].state = "running" /\ tmr[u].match = OSTmrTime =>
           n # NoTmr /\ Ahead(wheel[x], n, u)
    BY <1>2, <1>5
  <2>2. walk' = GoesOn(n) /\ UNCHANGED <<tmr, wheel, tmrFree, OSTmrTime>>  BY <1>1, <1>5
  <2> QED BY <1>2, <2>1, <2>2, GoesOnInv DEF x
<1>6. CASE tmr[t].match = OSTmrTime
  <2>1. /\ walk' \in WalkRecord /\ walk'.in = "callback" /\ walk'.next = n /\ walk'.at = t
    <3>1. walk' = [walk EXCEPT !.next = n, !.in = "callback"]  BY <1>1, <1>6
    <3> QED BY <1>2, <1>3, <3>1 DEF WalkRecord, t
  <2>2. mid \in [Tmr -> TmrRecord] /\ \A u \in Tmr \ {t} : mid[u] = tmr[u]
    BY <1>2, <1>3 DEF TmrRecord
  <2>3. /\ mid[t].state = "completed" /\ mid[t].dly = tmr[t].dly /\ mid[t].period = tmr[t].period
    BY <1>2, <1>3 DEF TmrRecord
  <2> HIDE DEF mid
  <2>4. /\ off \in [Spoke -> Seq(Tmr)] /\ Hung(off, mid)
        /\ \A i \in Spoke : /\ Range(off[i]) = Range(wheel[i]) \ {t}
                            /\ \A f, u \in Tmr \ {t} : Ahead(wheel[i], f, u) => Ahead(off[i], f, u)
    <3>1. mid[t].state # "running"  BY <2>3
    <3> QED BY <1>2, <1>3, <2>2, <3>1, UnlinkHung
  <2> HIDE DEF off
  <2>5. tmr[t].dly \in 0 .. OSTmrTimeMax - 1 /\ tmr[t].period \in 0 .. OSTmrTimeMax - 1
    BY <1>2, <1>3 DEF TmrRecord
  <2>6. tmr[t].dly # 0 \/ tmr[t].period # 0  BY <1>2 DEF TmrInv, TmrTimed, Timely
  <2>7. /\ wheel' \in [Spoke -> Seq(Tmr)] /\ tmr' \in [Tmr -> TmrRecord] /\ Hung(wheel', tmr')
        /\ \A u \in Tmr \ {t} : tmr'[u] = tmr[u]
        /\ \A i \in Spoke : /\ Range(off[i]) \subseteq Range(wheel'[i])
                            /\ \A f, u \in Tmr : Ahead(off[i], f, u) => Ahead(wheel'[i], f, u)
        /\ Timely(wheel', tmr'[t], OSTmrTime, walk', t) /\ tmr'[t].state # "unused"
    <3>1. CASE tmr[t].period > 0
      <4>1. tmr[t].period \in 1 .. OSTmrTimeMax - 1  BY <2>5, <3>1, OsTmrAssumption
      <4>2. /\ again \in 0 .. OSTmrTimeMax - 1 /\ again # OSTmrTime
            /\ (again - OSTmrTime) % OSTmrTimeMax = tmr[t].period
        BY <1>3, <4>1, MatchIs
      <4> HIDE DEF again
      <4>3. wheel' = OSTmr_Link(off, t, again) /\ tmr' = [tmr EXCEPT ![t].match = again]
        BY <1>1, <1>6, <3>1
      <4>4. tmr' \in [Tmr -> TmrRecord] /\ \A u \in Tmr \ {t} : tmr'[u] = tmr[u]
        BY <1>2, <1>3, <4>2, <4>3 DEF TmrRecord
      <4>5. /\ tmr'[t].state = "running" /\ tmr'[t].match = again /\ tmr'[t].dly = tmr[t].dly
            /\ tmr'[t].period = tmr[t].period
        BY <1>2, <1>3, <4>3 DEF TmrRecord
      <4>6. mid[t].state # "running" /\ \A u \in Tmr \ {t} : tmr'[u] = mid[u]
        BY <2>2, <2>3, <4>4
      <4>7. /\ wheel' \in [Spoke -> Seq(Tmr)] /\ Hung(wheel', tmr')
            /\ \A i \in Spoke : /\ Range(off[i]) \subseteq Range(wheel'[i])
                                /\ \A f, u \in Tmr : Ahead(off[i], f, u) => Ahead(wheel'[i], f, u)
        BY <1>2, <2>2, <2>4, <4>2, <4>3, <4>4, <4>5, <4>6, LinkHung
      <4>8. Timely(wheel', tmr'[t], OSTmrTime, walk', t)
        <5>1. Left(tmr'[t], OSTmrTime) = tmr'[t].period  BY <4>2, <4>5 DEF Left
        <5>2. tmr'[t].period <= tmr'[t].period  BY <2>5, <4>5
        <5> QED BY <2>6, <4>2, <4>5, <5>1, <5>2 DEF Timely
      <4> QED BY <4>4, <4>5, <4>7, <4>8
    <3>2. CASE ~(tmr[t].period > 0)
      <4>1. wheel' = off /\ tmr' = mid  BY <1>1, <1>6, <3>2
      <4>2. Timely(wheel', tmr'[t], OSTmrTime, walk', t)  BY <2>3, <2>6, <4>1 DEF Timely
      <4> QED BY <2>2, <2>3, <2>4, <4>1, <4>2
    <3> QED BY <3>1, <3>2
  <2>8. Freed(tmrFree, tmr')
    <3>1. tmr[t].state # "unused"  BY <1>2
    <3> QED BY <1>2, <1>3, <2>7, <3>1, FreedSame
  <2>9. ASSUME NEW u \in Tmr PROVE Timely(wheel', tmr'[u], OSTmrTime, walk', u)
    <3>1. CASE u = t  BY <2>7, <3>1
    <3>2. CASE u # t
      <4>1. tmr'[u] = tmr[u]  BY <2>7, <3>2
      <4>2. Timely(wheel, tmr[u], OSTmrTime, walk, u)  BY DEF TmrInv, TmrTimed
      <4>3. ASSUME tmr[u].state = "running", tmr[u].match = OSTmrTime
            PROVE  walk'.in # "pend" /\ Ahead(wheel'[x], Coming(walk'), u)
        <5>1. n # NoTmr /\ Ahead(wheel[x], n, u)  BY <1>2, <3>2, <4>3
        <5>2. n \in Tmr \ {t}  BY <1>2, <5>1
        <5>3. Ahead(off[x], n, u)  BY <1>4, <2>4, <3>2, <5>1, <5>2
        <5>4. Ahead(wheel'[x], n, u)  BY <1>4, <2>7, <5>2, <5>3
        <5> QED BY <2>1, <5>4 DEF Coming
      <4> QED BY <4>1, <4>2, <4>3 DEF Timely, x
    <3> QED BY <3>1, <3>2
  <2>10. WalkOK(wheel', OSTmrTime, walk')
    <3>1. t # n
      <4>1. t # NoTmr  BY <1>2, OsTmrAssumption
      <4> QED BY <1>2, <4>1
    <3>2. ASSUME n # NoTmr PROVE n \in Range(wheel'[x])
      <4>1. n \in Range(wheel[x]) \ {t}  BY <1>2, <3>2
      <4> QED BY <1>4, <2>4, <2>7, <4>1
    <3> QED BY <1>2, <2>1, <3>1, <3>2 DEF WalkOK, x
  <2>11. OSTmrTime' = OSTmrTime /\ tmrFree' = tmrFree  BY <1>1
  <2>12. TmrTimed(wheel', tmr', OSTmrTime', walk') /\ WalkOK(wheel', OSTmrTime', walk')
    BY <2>9, <2>10, <2>11 DEF TmrTimed
  <2> QED BY <1>3, <2>1, <2>7, <2>8, <2>11, <2>12, TaskInv
<1> QED BY <1>5, <1>6

-----------------------------------------------------------------------------
(* In the beginning all timers are free.                                   *)
LEMMA TmrInitInv ==
    ASSUME TmrInit
    PROVE  TmrInv
<1> DEFINE n == Cardinality(Tmr)
<1>1. n \in Nat /\ ExistsBijection(1 .. n, Tmr) /\ IsFiniteSet(Tmr)
  BY OsTmrAssumption, FS_CardinalityType
<1>2. \E s : s \in Injection(1 .. n, Tmr)  BY <1>1 DEF ExistsBijection, Bijection
<1>3. tmrFree \in Injection(1 .. n, Tmr)  BY <1>2 DEF TmrInit
<1>4. Cardinality(1 .. n) = n
  <2>1. Cardinality(1 .. n) = IF 1 > n THEN 0 ELSE n - 1 + 1  BY <1>1, FS_Interval
  <2> QED BY <1>1, <2>1
<1>5. tmrFree \in Surjection(1 .. n, Tmr)  BY <1>1, <1>3, <1>4, FS_Injection
<1> HIDE DEF n
<1>6. tmrFree \in [1 .. n -> Tmr] /\ \A a, b \in 1 .. n : tmrFree[a] = tmrFree[b] => a = b
  BY <1>3, Fun_InjectionProperties
<1>7. \A t \in Tmr : \E a \in 1 .. n : tmrFree[a] = t
  <2>1. Range(tmrFree) = Tmr  BY <1>5, Fun_SurjectionProperties
  <2> QED BY <1>6, <2>1 DEF Range
<1>8. tmrFree \in Seq(Tmr) /\ Len(tmrFree) = n  BY <1>1, <1>6
<1>9. Blank \in TmrRecord /\ Blank.state = "unused"  BY OsTmrAssumption DEF Blank, TmrRecord
<1>10. /\ tmr = [t \in Tmr |-> Blank] /\ wheel = [i \in Spoke |-> <<>>] /\ walk = Waiting
       /\ OSTmrTime = 0
  BY DEF TmrInit
<1>11. \A t \in Tmr : tmr[t].state = "unused"  BY <1>9, <1>10
<1>12. TmrTypeOK
  <2>1. tmr \in [Tmr -> TmrRecord]  BY <1>9, <1>10
  <2>2. wheel \in [Spoke -> Seq(Tmr)]  BY <1>10
  <2>3. OSTmrTime \in 0 .. OSTmrTimeMax - 1  BY <1>10, OsTmrAssumption
  <2>4. walk \in WalkRecord  BY <1>10, WaitingIs
  <2> QED BY <1>8, <2>1, <2>2, <2>3, <2>4 DEF TmrTypeOK
<1>13. Freed(tmrFree, tmr)
  <2>1. Range(tmrFree) = {tmrFree[i] : i \in 1 .. n}  BY <1>8, RangeIs
  <2>2. Range(tmrFree) = Tmr  BY <1>6, <1>7, <2>1
  <2> QED BY <1>6, <1>8, <1>11, <2>2 DEF Freed, Once
<1>14. Hung(wheel, tmr)
  <2>1. \A i \in Spoke : wheel[i] = <<>>  BY <1>10
  <2>2. Range(<<>>) = {} /\ Once(<<>>)  BY DEF Range, Once
  <2> QED BY <1>11, <2>1, <2>2 DEF Hung
<1>15. TmrTimed(wheel, tmr, OSTmrTime, walk)  BY <1>11 DEF TmrTimed, Timely
<1>16. WalkOK(wheel, OSTmrTime, walk)  BY <1>10, WaitingIs DEF WalkOK
<1> QED BY <1>12, <1>13, <1>14, <1>15, <1>16 DEF TmrInv

LEMMA TmrNextInv ==
    ASSUME TmrInv, [TmrNext]_tmrVars, CallbackOwn
    PROVE  TmrInv'
<1>1. ASSUME NEW s \in Settings, OSTmrCreate(s[1], s[2]) PROVE TmrInv'
  <2>1. /\ s[1] \in 0 .. OSTmrTimeMax - 1 /\ s[2] \in 0 .. OSTmrTimeMax - 1 /\ s[1] + s[2] > 0
    BY OsTmrAssumption
  <2> QED BY <1>1, <2>1, CreateInv
<1>2. ASSUME NEW t \in Tmr, OSTmrStart(t) PROVE TmrInv'  BY <1>2, StartInv
<1>3. ASSUME NEW t \in Tmr, OSTmrStop(t) PROVE TmrInv'  BY <1>3, StopInv
<1>4. ASSUME NEW t \in Tmr, OSTmrDel(t) PROVE TmrInv'  BY <1>4, DelInv
<1>5. CASE OSTimeTickHook  BY <1>5, TickInv DEF OSTimeTickHook
<1>6. CASE OSTmr_TaskWakes  BY <1>6, WakesInv
<1>7. CASE OSTmr_TaskVisits  BY <1>7, VisitsInv
<1>8. CASE CallbackReturns  BY <1>8, ReturnsInv
<1>9. CASE UNCHANGED tmrVars  BY <1>9, TickInv DEF tmrVars
<1> QED BY <1>1, <1>2, <1>3, <1>4, <1>5, <1>6, <1>7, <1>8, <1>9 DEF TmrNext, TmrTask

(* The invariant says that the wheel is exact and none is missed.          *)
LEMMA TmrInvExact ==
    ASSUME TmrInv
    PROVE  TimersExact
<1>1. /\ tmr \in [Tmr -> TmrRecord] /\ wheel \in [Spoke -> Seq(Tmr)] /\ tmrFree \in Seq(Tmr)
      /\ OSTmrTime \in 0 .. OSTmrTimeMax - 1 /\ Hung(wheel, tmr) /\ Freed(tmrFree, tmr)
  BY DEF TmrInv, TmrTypeOK
<1>2. ASSUME NEW i \in Spoke, NEW t \in Tmr
      PROVE  Cardinality({j \in 1 .. Len(wheel[i]) : wheel[i][j] = t}) =
                 IF tmr[t].state = "running" /\ SpokeOf(tmr[t].match) = i THEN 1 ELSE 0
  <2> DEFINE s == wheel[i]
             c == {j \in 1 .. Len(s) : s[j] = t}
  <2>1. s \in Seq(Tmr) /\ Once(s)  BY <1>1 DEF Hung
  <2>2. Range(s) = {s[j] : j \in 1 .. Len(s)}  BY <2>1, RangeIs
  <2>3. CASE tmr[t].state = "running" /\ SpokeOf(tmr[t].match) = i
    <3>1. t \in Range(s)  BY <1>1, <2>3 DEF Hung
    <3>2. PICK j \in 1 .. Len(s) : s[j] = t  BY <2>2, <3>1
    <3>3. c = {j}  BY <2>1, <3>2 DEF Once
    <3> HIDE DEF c
    <3>4. Cardinality(c) = 1  BY <3>3, FS_Singleton
    <3> QED BY <2>3, <3>4 DEF c
  <2>4. CASE ~(tmr[t].state = "running" /\ SpokeOf(tmr[t].match) = i)
    <3>1. t \notin Range(s)  BY <1>1, <2>4 DEF Hung
    <3>2. c = {}  BY <2>2, <3>1
    <3> HIDE DEF c
    <3>3. Cardinality(c) = 0  BY <3>2, FS_EmptySet
    <3> QED BY <2>4, <3>3 DEF c
  <2> QED BY <2>3, <2>4
<1>3. Range(tmrFree) = {t \in Tmr : tmr[t].state = "unused"}  BY <1>1 DEF Freed
<1>4. Len(tmrFree) = Cardinality(Range(tmrFree))
  <2> DEFINE n == Len(tmrFree)
  <2>1. n \in Nat /\ tmrFree \in [1 .. n -> Tmr] /\ Once(tmrFree)  BY <1>1 DEF Freed
  <2>2. Range(tmrFree) = {tmrFree[i] : i \in 1 .. n}  BY <1>1, RangeIs
  <2>3. tmrFree \in [1 .. n -> Range(tmrFree)]
    <3>1. DOMAIN tmrFree = 1 .. n /\ \A a \in 1 .. n : tmrFree[a] \in Range(tmrFree)  BY <2>1, <2>2
    <3> QED BY <2>1, <3>1
  <2>4. \A a, b \in 1 .. n : tmrFree[a] = tmrFree[b] => a = b  BY <2>1 DEF Once
  <2>5. \A t \in Range(tmrFree) : \E a \in 1 .. n : tmrFree[a] = t  BY <2>2
  <2> HIDE DEF n
  <2>6. tmrFree \in Bijection(1 .. n, Range(tmrFree))  BY <2>3, <2>4, <2>5, Fun_IsBij
  <2>7. ExistsBijection(1 .. n, Range(tmrFree))  BY <2>6 DEF ExistsBijection
  <2> QED BY <2>1, <2>7, FS_CountingElements DEF n
<1>5. NoneMissed
  <2> SUFFICES ASSUME walk.in = "pend", NEW t \in Tmr, tmr[t].state = "running"
               PROVE  LET left == (tmr[t].match - OSTmrTime) % OSTmrTimeMax
                      IN  left > 0 /\ (left <= tmr[t].dly \/ left <= tmr[t].period)
    BY DEF NoneMissed
  <2>1. Timely(wheel, tmr[t], OSTmrTime, walk, t)  BY DEF TmrInv, TmrTimed
  <2>2. tmr[t].match # OSTmrTime  BY <2>1 DEF Timely
  <2>3. tmr[t].match \in 0 .. OSTmrTimeMax - 1  BY <1>1 DEF TmrRecord
  <2>4. (tmr[t].match - OSTmrTime) % OSTmrTimeMax > 0  BY <1>1, <2>2, <2>3, LeftPositive
  <2> QED BY <2>1, <2>4 DEF Timely, Left
<1> QED BY <1>2, <1>3, <1>4, <1>5 DEF TimersExact, WheelExact

(* If callbacks stop and delete no timer but their own, then whatever      *)
(* tasks and callbacks create, start, stop and delete, and however far the *)
(* timer task (OSTmr_Task) is behind the ticks, every running timer hangs  *)
(* once from the spoke of its time, the unused ones are free, and when the *)
(* timer task waits no expiry has been missed and none is further away     *)
(* than the timer was given.                                               *)
THEOREM TmrCorrect == CallbackOwn /\ TmrSpec => []TimersExact
<1> SUFFICES ASSUME CallbackOwn PROVE TmrSpec => []TimersExact  OBVIOUS
<1>1. TmrInit => TmrInv  BY TmrInitInv
<1>2. TmrInv /\ [TmrNext]_tmrVars => TmrInv'  BY TmrNextInv
<1>3. TmrInv => TimersExact  BY TmrInvExact
<1> QED BY <1>1, <1>2, <1>3, PTL DEF TmrSpec
=============================================================================

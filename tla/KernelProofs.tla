---------------------------- MODULE KernelProofs ----------------------------
(***************************************************************************)
(* Proofs about uC/OS-II.                                                  *)
(*                                                                         *)
(* Every service, and the tick, changes a task's control block, the ready  *)
(* table, a wait list and, for a mutex, the table of priorities, and each  *)
(* is correct only if the others left them in agreement.  KInv says when   *)
(* they agree: Tables about tasks, the ready table and the wait lists,     *)
(* Mutual about the mutexes, their owners and the slots they reserve,      *)
(* Awaits about what is waited for, and CurOK and Runs about who runs.     *)
(*                                                                         *)
(* The proof has one lemma for each service, named after it, that takes    *)
(* from the rules for callers only what that service needs.  Below them    *)
(* are the lemmas about the ways in which services change the data: one    *)
(* task, some tasks that are readied, one event, the flag group, a task    *)
(* that moves to another priority.                                         *)
(***************************************************************************)
EXTENDS Kernel, NaturalsInduction, WellFoundedInduction, TLAPS

(* The states of the kernel.                                               *)
Group == [type : {"unused", "flag"}, flags : SUBSET Flag,
          wait : SUBSET (Task \cup {Idle}), quiet : BOOLEAN]
KState ==
    [tcb : [Task \cup {Idle} -> TCB], list : SUBSET (Task \cup {Idle}),
     tbl : [Prio -> Task \cup {Idle, Nil, Reserved}], rdy : SUBSET Prio,
     ev : [Event -> ECB], grp : Group, cur : Task \cup {Idle}, prioCur : Prio,
     lock : Nat, defer : BOOLEAN]

(* A task can run: it neither waits, nor is suspended, nor delayed.        *)
Able(k) == k.stat = {} /\ k.dly = 0
(* A task inside a Pend has not been posted to: it waits, or its timeout   *)
(* has passed and it is still in the list.                                 *)
Still(k) == k.stat \cap Pending # {} \/ k.pend = "to"
WaitsFor(k, e) == k.in = "event" /\ k.event = e /\ Still(k)
WaitsFlag(k) == k.in = "flag" /\ Still(k)

(* How the status of a task, what it is inside of and the result of its    *)
(* Pend go together.                                                       *)
StatOK(s, k) ==
    /\ k.in = "no" => k.event = Nil /\ k.stat \subseteq {"suspend"} /\ k.pend = "ok"
    /\ k.in = "event" => /\ k.event \in Event
                         /\ k.stat \cap Pending \subseteq {s.ev[k.event].type}
    /\ k.in = "flag" => k.event = Nil /\ k.stat \cap Pending \subseteq {"flag"}
    /\ k.stat \cap Pending # {} => k.pend = "ok"
    /\ k.in # "no" /\ k.stat \cap Pending = {} => k.dly = 0

(* A task is found under its own priority, in the ready table exactly if   *)
(* it can run and in the wait lists exactly where it waits. One that waits *)
(* for a mutex is below the PIP and is not suspended: it may be the next   *)
(* owner.                                                                  *)
TaskOK(s, t) ==
    /\ s.tbl[s.tcb[t].prio] = t
    /\ s.tcb[t].prio \in s.rdy <=> Able(s.tcb[t])
    /\ StatOK(s, s.tcb[t])
    /\ \A e \in Event : s.tcb[t].prio \in s.ev[e].wait <=> WaitsFor(s.tcb[t], e)
    /\ t \in s.grp.wait <=> WaitsFlag(s.tcb[t])
    /\ \A e \in Event : WaitsFor(s.tcb[t], e) /\ s.ev[e].type = "mutex" =>
            s.tcb[t].prio > s.ev[e].pip /\ "suspend" \notin s.tcb[t].stat

(* The slot of a priority holds the task that has it.                      *)
Home(s, p) == s.tbl[p] \in s.list /\ s.tcb[s.tbl[p]].prio = p

(* The control blocks and the tables agree.                                *)
Tables(s) ==
    /\ \A t \in s.list : TaskOK(s, t)
    /\ \A p \in s.rdy : Home(s, p)
    /\ \A e \in Event : \A p \in s.ev[e].wait : Home(s, p)
    /\ s.grp.wait \subseteq s.list
    /\ Idle \in s.list /\ s.tcb[Idle] = Fresh(Lowest)

(* The owner of a mutex does not wait, or has just been given this one.    *)
Holds(k, e) ==
    /\ k.stat = {} /\ k.pend = "ok"
    /\ k.in = "no" \/ (k.in = "event" /\ k.event = e /\ k.dly = 0)

(* The owner of a mutex is a task below the PIP, known under the priority  *)
(* it took the mutex at, and runs there or at the PIP.                     *)
OwnerOK(s, e) ==
    /\ s.ev[e].ptr \in s.list /\ s.ev[e].ptr \in Task
    /\ s.ev[e].cnt \in Prio /\ s.ev[e].cnt > s.ev[e].pip
    /\ Holds(s.tcb[s.ev[e].ptr], e)
    /\ s.tbl[s.ev[e].cnt] = s.ev[e].ptr
    /\ \/ s.tcb[s.ev[e].ptr].prio = s.ev[e].cnt /\ s.tbl[s.ev[e].pip] = Reserved
       \/ s.tcb[s.ev[e].ptr].prio = s.ev[e].pip

(* While an urgent task waits the owner runs at the PIP.                   *)
Lifted(s, e) ==
    (\E p \in s.ev[e].wait : p < s.ev[e].cnt) => s.tcb[s.ev[e].ptr].prio = s.ev[e].pip

(* A mutex reserves the slot of its PIP unless the owner runs there.       *)
MutexOK(s, e) ==
    s.ev[e].type = "mutex" =>
        /\ s.ev[e].pip < Lowest
        /\ s.ev[e].cnt = Available <=> s.ev[e].ptr = Nil
        /\ s.ev[e].ptr = Nil => s.tbl[s.ev[e].pip] = Reserved
        /\ s.ev[e].ptr # Nil => OwnerOK(s, e)

(* Nobody waits for what is there.                                         *)
AwaitOK(s, e) ==
    /\ s.ev[e].type = "unused" => s.ev[e].wait = {}
    /\ s.ev[e].type = "sem" => s.ev[e].cnt \in 0 .. MaxCnt /\ (s.ev[e].wait # {} => s.ev[e].cnt = 0)
    /\ s.ev[e].type = "mbox" /\ s.ev[e].wait # {} => s.ev[e].ptr = Nil
    /\ s.ev[e].type = "mutex" =>
          /\ s.ev[e].wait # {} => s.ev[e].ptr # Nil
          /\ s.ev[e].ptr # Nil => Lifted(s, e)

(* Two mutexes have neither the PIP nor the owner in common.               *)
Apart(s) ==
    \A e, f \in Event : e # f /\ s.ev[e].type = "mutex" /\ s.ev[f].type = "mutex" =>
        /\ s.ev[e].pip # s.ev[f].pip
        /\ s.ev[e].ptr # Nil => s.ev[e].ptr # s.ev[f].ptr

(* A slot is kept for a task that runs at the PIP of its mutex.            *)
Lent(s, p) ==
    \E e \in Event : s.ev[e].type = "mutex" /\ s.ev[e].ptr = s.tbl[p] /\ s.ev[e].cnt = p

(* What a slot of the priority table can hold.                             *)
Slots(s) == \A p \in Prio : s.tbl[p] \in {Nil, Reserved} \/ Home(s, p) \/ Lent(s, p)

(* What the mutexes keep.                                                  *)
Mutual(s) == (\A e \in Event : MutexOK(s, e)) /\ Apart(s) /\ Slots(s)

(* Nobody waits for flags that are set, unless a Pend has consumed some    *)
(* since.                                                                  *)
GroupOK(s) ==
    /\ s.grp.type = "unused" => s.grp.wait = {}
    /\ s.grp.quiet => \A t \in s.grp.wait : "flag" \in s.tcb[t].stat =>
                         ~Satisfied(s.grp.flags, s.tcb[t].node)

(* No event, nor the group, has what is waited for.                        *)
Awaits(s) == (\A e \in Event : AwaitOK(s, e)) /\ GroupOK(s)

(* What the tables keep, whoever runs.                                     *)
Base(s) == s \in KState /\ Tables(s) /\ Mutual(s) /\ Awaits(s)

(* The running task is ready, at the priority in OSPrioCur.                *)
CurOK(s) == s.cur \in s.list /\ s.prioCur = s.tcb[s.cur].prio /\ s.prioCur \in s.rdy

(* No other ready task is more urgent.                                     *)
Runs(s) == s.lock = 0 /\ ~s.defer => s.prioCur = Highest(s.rdy)

(* The inductive invariant.                                                *)
KInv(s) == Base(s) /\ CurOK(s) /\ Runs(s)

-----------------------------------------------------------------------------

-----------------------------------------------------------------------------
(* A set of natural numbers has a least one.                               *)
LEMMA NatMin ==
    ASSUME NEW T, T \subseteq Nat, T # {}
    PROVE  \E m \in T : \A y \in T : m <= y
<1> DEFINE R == {ss \in Nat \X Nat : ss[1] < ss[2]}
<1>1. IsWellFoundedOn(R, Nat)  BY NatLessThanWellFounded DEF OpToRel
<1>2. PICK m \in T : \A y \in T : ~(<<y, m>> \in R)  BY <1>1, WFMin
<1>3. ASSUME NEW y \in T PROVE m <= y
  <2>1. ~(y < m)  BY <1>2
  <2> QED BY <2>1
<1> QED BY <1>3

(* The ready table and the wait lists are searched for their least entry.  *)
LEMMA HighestIn ==
    ASSUME NEW S \in SUBSET Prio, S # {}
    PROVE  Highest(S) \in S /\ \A q \in S : Highest(S) <= q
<1>1. S \subseteq Nat  BY OsCoreAssumption DEF Prio
<1>2. \E i \in S : \A j \in S : i <= j  BY <1>1, NatMin
<1> QED BY <1>2 DEF Highest

(* OS_Sched changes who runs and nothing else.                             *)
LEMMA SchedFields ==
    ASSUME NEW s \in KState
    PROVE  LET u == OS_Sched(s)
           IN  /\ u.tcb = s.tcb /\ u.list = s.list /\ u.tbl = s.tbl /\ u.rdy = s.rdy
               /\ u.ev = s.ev /\ u.grp = s.grp /\ u.lock = s.lock
               /\ s.lock > 0 => u = s
               /\ s.lock = 0 /\ Highest(s.rdy) = s.prioCur =>
                    u.cur = s.cur /\ u.prioCur = s.prioCur /\ u = [s EXCEPT !.defer = FALSE]
               /\ s.lock = 0 /\ Highest(s.rdy) # s.prioCur =>
                    /\ u.cur = s.tbl[Highest(s.rdy)] /\ u.prioCur = Highest(s.rdy)
                    /\ u = [s EXCEPT !.cur = s.tbl[Highest(s.rdy)], !.prioCur = Highest(s.rdy),
                                     !.defer = FALSE]
<1> DEFINE h == Highest(s.rdy)
<1>1. OS_Sched(s) = IF s.lock > 0 THEN s
        ELSE IF h = s.prioCur THEN [s EXCEPT !.defer = FALSE]
        ELSE [s EXCEPT !.cur = s.tbl[h], !.prioCur = h, !.defer = FALSE]
  BY DEF OS_Sched
<1>2. s.lock \in Nat  BY DEF KState
<1> HIDE DEF h
<1>3. CASE s.lock > 0  BY <1>1, <1>2, <1>3 DEF h
<1>4. CASE s.lock = 0 /\ h = s.prioCur  BY <1>1, <1>2, <1>4 DEF KState, h
<1>5. CASE s.lock = 0 /\ h # s.prioCur
  <2>1. OS_Sched(s) = [s EXCEPT !.cur = s.tbl[h], !.prioCur = h, !.defer = FALSE]
    BY <1>1, <1>5
  <2> QED BY <1>2, <1>5, <2>1 DEF KState, h
<1> QED BY <1>2, <1>3, <1>4, <1>5

(* The predicates on the tables do not depend on who runs.                 *)
LEMMA SameBase ==
    ASSUME NEW s, NEW u \in KState, Base(s),
           u.tcb = s.tcb, u.list = s.list, u.tbl = s.tbl, u.rdy = s.rdy, u.ev = s.ev, u.grp = s.grp
    PROVE  Base(u)
<1>1. Tables(u)
  <2>1. ASSUME NEW t \in u.list PROVE TaskOK(u, t)
    <3>1. TaskOK(s, t)  BY DEF Base, Tables
    <3> QED BY <3>1 DEF TaskOK, StatOK
  <2>2. \A p : Home(s, p) <=> Home(u, p)  BY DEF Home
  <2> QED BY <2>1, <2>2 DEF Base, Tables
<1>2. Mutual(u)
  <2>1. ASSUME NEW e \in Event PROVE MutexOK(u, e)
    <3>1. MutexOK(s, e)  BY DEF Base, Mutual
    <3> QED BY <3>1 DEF MutexOK, OwnerOK
  <2>2. Apart(u)  BY DEF Base, Mutual, Apart
  <2>3. Slots(u)  BY DEF Base, Mutual, Slots, Home, Lent
  <2> QED BY <2>1, <2>2, <2>3 DEF Mutual
<1>3. Awaits(u)
  <2>1. ASSUME NEW e \in Event PROVE AwaitOK(u, e)
    <3>1. AwaitOK(s, e)  BY DEF Base, Awaits
    <3> QED BY <3>1 DEF AwaitOK, Lifted
  <2>2. GroupOK(u)  BY DEF Base, Awaits, GroupOK
  <2> QED BY <2>1, <2>2 DEF Awaits
<1> QED BY <1>1, <1>2, <1>3 DEF Base

(* The idle task is always ready: there is a task to run.                  *)
LEMMA LowestReady ==
    ASSUME NEW s, Base(s)
    PROVE  Lowest \in s.rdy /\ Highest(s.rdy) \in s.rdy /\ Highest(s.rdy) \in Prio
           /\ \A q \in s.rdy : Highest(s.rdy) <= q
<1>1. TaskOK(s, Idle) /\ s.tcb[Idle] = Fresh(Lowest) /\ s.rdy \in SUBSET Prio
  BY DEF Base, Tables, KState
<1>2. s.tcb[Idle].prio = Lowest /\ s.tcb[Idle].stat = {} /\ s.tcb[Idle].dly = 0
  BY <1>1 DEF Fresh
<1>3. Lowest \in s.rdy  BY <1>1, <1>2 DEF TaskOK, Able
<1> QED BY <1>1, <1>3, HighestIn

(* OS_Sched after a change of the tables.                                  *)
LEMMA Scheduled ==
    ASSUME NEW s, Base(s), s.prioCur \in s.rdy => s.tbl[s.prioCur] = s.cur,
           s.lock = 0 \/ s.prioCur \in s.rdy
    PROVE  KInv(OS_Sched(s))
<1> DEFINE u == OS_Sched(s)
           h == Highest(s.rdy)
<1>1. s \in KState /\ s.lock \in Nat /\ s.tbl \in [Prio -> Task \cup {Idle, Nil, Reserved}]
      /\ s.list \subseteq Task \cup {Idle} /\ \A p \in s.rdy : Home(s, p)
  BY DEF Base, KState, Tables
<1>2. /\ u.tcb = s.tcb /\ u.list = s.list /\ u.tbl = s.tbl /\ u.rdy = s.rdy
      /\ u.ev = s.ev /\ u.grp = s.grp /\ u.lock = s.lock
      /\ s.lock > 0 => u = s
      /\ s.lock = 0 /\ h = s.prioCur =>
           u.cur = s.cur /\ u.prioCur = s.prioCur /\ u = [s EXCEPT !.defer = FALSE]
      /\ s.lock = 0 /\ h # s.prioCur =>
           /\ u.cur = s.tbl[h] /\ u.prioCur = h
           /\ u = [s EXCEPT !.cur = s.tbl[h], !.prioCur = h, !.defer = FALSE]
  BY <1>1, SchedFields
<1>3. h \in s.rdy /\ h \in Prio  BY LowestReady
<1>4. s.tbl[h] \in s.list /\ s.tcb[s.tbl[h]].prio = h  BY <1>1, <1>3 DEF Home
<1>5. s.tbl[h] \in Task \cup {Idle}  BY <1>1, <1>4
<1> HIDE DEF u, h
<1>6. CASE s.lock > 0
  <2>1. u = s  BY <1>2, <1>6
  <2>2. CurOK(s)  BY <1>1, <1>6 DEF CurOK, Home
  <2>3. Runs(s)  BY <1>6 DEF Runs
  <2> QED BY <2>1, <2>2, <2>3 DEF KInv, u
<1>7. CASE s.lock = 0 /\ h = s.prioCur
  <2>1. u \in KState  BY <1>1, <1>2, <1>7 DEF KState
  <2>2. Base(u)  BY <1>2, <2>1, SameBase
  <2>3. CurOK(u)  BY <1>2, <1>3, <1>4, <1>7 DEF CurOK
  <2>4. Runs(u)  BY <1>2, <1>7 DEF Runs, h
  <2> QED BY <2>2, <2>3, <2>4 DEF KInv, u
<1>8. CASE s.lock = 0 /\ h # s.prioCur
  <2>1. u \in KState  BY <1>1, <1>2, <1>3, <1>5, <1>8 DEF KState
  <2>2. Base(u)  BY <1>2, <2>1, SameBase
  <2>3. CurOK(u)  BY <1>2, <1>3, <1>4, <1>8 DEF CurOK
  <2>4. Runs(u)  BY <1>2, <1>8 DEF Runs, h
  <2> QED BY <2>2, <2>3, <2>4 DEF KInv, u
<1> QED BY <1>1, <1>6, <1>7, <1>8

(* No two tasks have the same priority.                                    *)
LEMMA OnePrio ==
    ASSUME NEW s, Tables(s), NEW t \in s.list, NEW x \in s.list, s.tcb[t].prio = s.tcb[x].prio
    PROVE  t = x
BY DEF Tables, TaskOK

-----------------------------------------------------------------------------
(* The status of the tasks in W changes, in their control blocks and in    *)
(* the tables.                                                             *)
LEMMA TasksChanged ==
    ASSUME NEW s, NEW u, Tables(s), NEW W \in SUBSET s.list, Idle \notin W,
           NEW P, P = {s.tcb[t].prio : t \in W},
           u.list = s.list, u.tbl = s.tbl,
           \A t \in s.list : u.tcb[t].prio = s.tcb[t].prio,
           \A t \in s.list \ W : u.tcb[t] = s.tcb[t],
           \A p : p \notin P => (p \in u.rdy <=> p \in s.rdy),
           \A e \in Event : /\ u.ev[e].type = s.ev[e].type /\ u.ev[e].pip = s.ev[e].pip
                            /\ \A p : p \notin P => (p \in u.ev[e].wait <=> p \in s.ev[e].wait),
           \A t : t \notin W => (t \in u.grp.wait <=> t \in s.grp.wait),
           \A t \in W : TaskOK(u, t)
    PROVE  Tables(u)
<1>1. ASSUME NEW t \in s.list, t \notin W PROVE TaskOK(u, t) /\ s.tcb[t].prio \notin P
  <2>1. s.tcb[t].prio \notin P
    <3>1. ASSUME NEW x \in W, s.tcb[t].prio = s.tcb[x].prio PROVE FALSE
      BY <1>1, <3>1, OnePrio
    <3> QED BY <3>1
  <2>2. u.tcb[t] = s.tcb[t] /\ TaskOK(s, t)  BY <1>1 DEF Tables
  <2>3. StatOK(u, u.tcb[t])  BY <2>2 DEF TaskOK, StatOK
  <2>4. \A e \in Event : u.tcb[t].prio \in u.ev[e].wait <=> WaitsFor(u.tcb[t], e)
    BY <2>1, <2>2 DEF TaskOK
  <2>5. \A e \in Event : WaitsFor(u.tcb[t], e) /\ u.ev[e].type = "mutex" =>
            u.tcb[t].prio > u.ev[e].pip /\ "suspend" \notin u.tcb[t].stat
    BY <2>2 DEF TaskOK
  <2>6. u.tcb[t].prio \in u.rdy <=> Able(u.tcb[t])  BY <2>1, <2>2 DEF TaskOK
  <2>7. t \in u.grp.wait <=> WaitsFlag(u.tcb[t])  BY <1>1, <2>2 DEF TaskOK
  <2>8. u.tbl[u.tcb[t].prio] = t  BY <2>2 DEF TaskOK
  <2> QED BY <2>1, <2>3, <2>4, <2>5, <2>6, <2>7, <2>8 DEF TaskOK
<1>2. ASSUME NEW p, p \in P \/ Home(s, p) PROVE Home(u, p)
  <2>1. CASE p \in P
    <3>1. PICK t \in W : p = s.tcb[t].prio  BY <2>1
    <3>2. s.tbl[p] = t /\ u.tcb[t].prio = p  BY <3>1 DEF Tables, TaskOK
    <3> QED BY <3>1, <3>2 DEF Home
  <2>2. CASE Home(s, p)  BY <2>2 DEF Home
  <2> QED BY <1>2, <2>1, <2>2
<1>3. \A t \in u.list : TaskOK(u, t)  BY <1>1
<1>4. \A p \in u.rdy : Home(u, p)  BY <1>2 DEF Tables
<1>5. ASSUME NEW e \in Event, NEW p \in u.ev[e].wait PROVE Home(u, p)
  <2>1. p \in P \/ p \in s.ev[e].wait  OBVIOUS
  <2> QED BY <1>2, <2>1 DEF Tables
<1>6. u.grp.wait \subseteq u.list  BY DEF Tables
<1>7. Idle \in u.list /\ u.tcb[Idle] = Fresh(Lowest)  BY DEF Tables
<1> QED BY <1>3, <1>4, <1>5, <1>6, <1>7 DEF Tables

(* Only events change, and those that are renewed have no waiters; slots   *)
(* change where no task is.                                                *)
LEMMA EventsChanged ==
    ASSUME NEW s \in KState, NEW u, Tables(s), u.tcb = s.tcb, u.list = s.list, u.rdy = s.rdy,
           u.grp.wait = s.grp.wait,
           \A p \in Prio : u.tbl[p] = s.tbl[p] \/ ~Home(s, p),
           \A e \in Event :
               /\ u.ev[e].wait = s.ev[e].wait
               /\ u.ev[e].wait # {} => u.ev[e].type = s.ev[e].type /\ u.ev[e].pip = s.ev[e].pip
    PROVE  Tables(u)
<1>1. ASSUME NEW t \in s.list PROVE TaskOK(u, t)
  <2>1. TaskOK(s, t) /\ s.tbl[s.tcb[t].prio] = t  BY DEF Tables, TaskOK
  <2>2. u.tbl[u.tcb[t].prio] = t
    <3>1. s.tcb[t].prio \in Prio  BY DEF KState, TCB
    <3> QED BY <2>1, <3>1 DEF Home
  <2>3. StatOK(u, u.tcb[t])
    <3>1. ASSUME u.tcb[t].in = "event"
          PROVE  /\ u.tcb[t].event \in Event
                 /\ u.tcb[t].stat \cap Pending \subseteq {u.ev[u.tcb[t].event].type}
      <4> DEFINE e == u.tcb[t].event
      <4>1. e \in Event /\ u.tcb[t].stat \cap Pending \subseteq {s.ev[e].type}
        BY <2>1, <3>1 DEF TaskOK, StatOK
      <4>2. CASE u.tcb[t].stat \cap Pending = {}  BY <4>1, <4>2
      <4>3. CASE u.tcb[t].stat \cap Pending # {}
        <5>1. WaitsFor(s.tcb[t], e)  BY <3>1, <4>3 DEF WaitsFor, Still
        <5>2. s.ev[e].wait # {}  BY <2>1, <4>1, <5>1 DEF TaskOK
        <5> QED BY <4>1, <5>2
      <4> QED BY <4>2, <4>3
    <3> QED BY <2>1, <3>1 DEF TaskOK, StatOK
  <2>4. \A e \in Event : u.tcb[t].prio \in u.ev[e].wait <=> WaitsFor(u.tcb[t], e)
    BY <2>1 DEF TaskOK
  <2>5. ASSUME NEW e \in Event, WaitsFor(u.tcb[t], e), u.ev[e].type = "mutex"
        PROVE  u.tcb[t].prio > u.ev[e].pip /\ "suspend" \notin u.tcb[t].stat
    <3>1. u.ev[e].wait # {}  BY <2>4, <2>5
    <3> QED BY <2>1, <2>5, <3>1 DEF TaskOK
  <2>6. u.tcb[t].prio \in u.rdy <=> Able(u.tcb[t])  BY <2>1 DEF TaskOK
  <2>7. t \in u.grp.wait <=> WaitsFlag(u.tcb[t])  BY <2>1 DEF TaskOK
  <2> QED BY <2>2, <2>3, <2>4, <2>5, <2>6, <2>7 DEF TaskOK
<1>2. \A p \in Prio : Home(s, p) => Home(u, p)  BY DEF Home
<1>3. u.rdy \subseteq Prio /\ \A e \in Event : s.ev[e].wait \subseteq Prio
  BY DEF KState, ECB
<1> QED BY <1>1, <1>2, <1>3 DEF Tables

(* A task that waits for nothing moves to a priority where no other task   *)
(* is.                                                                     *)
Moved(s, u, t, old, new) ==
    /\ old = s.tcb[t].prio /\ \A e \in Event : ~WaitsFor(s.tcb[t], e)
    /\ \A x \in s.list : x # t => s.tcb[x].prio # new
    /\ u.list = s.list /\ u.tcb[t].prio = new /\ (Able(u.tcb[t]) <=> Able(s.tcb[t]))
    /\ StatOK(u, u.tcb[t]) /\ \A e \in Event : ~WaitsFor(u.tcb[t], e)
    /\ WaitsFlag(u.tcb[t]) <=> WaitsFlag(s.tcb[t])
    /\ \A x \in s.list : x # t => u.tcb[x] = s.tcb[x]
    /\ u.tbl[new] = t /\ \A p \in Prio : p # old /\ p # new => u.tbl[p] = s.tbl[p]
    /\ \A p : p # old /\ p # new => (p \in u.rdy <=> p \in s.rdy)
    /\ new \in u.rdy <=> old \in s.rdy
    /\ old # new => old \notin u.rdy
    /\ \A e \in Event : u.ev[e].wait = s.ev[e].wait /\ u.ev[e].type = s.ev[e].type
                         /\ u.ev[e].pip = s.ev[e].pip
    /\ u.grp.wait = s.grp.wait

(* Such a move keeps the tables.                                           *)
LEMMA PrioChanged ==
    ASSUME NEW s \in KState, NEW u, Tables(s), NEW t \in s.list, t # Idle, NEW old, NEW new,
           Moved(s, u, t, old, new)
    PROVE  Tables(u)
<1> SUFFICES ASSUME
        old = s.tcb[t].prio, \A e \in Event : ~WaitsFor(s.tcb[t], e),
        \A x \in s.list : x # t => s.tcb[x].prio # new,
        u.list = s.list, u.tcb[t].prio = new, Able(u.tcb[t]) <=> Able(s.tcb[t]),
        StatOK(u, u.tcb[t]), \A e \in Event : ~WaitsFor(u.tcb[t], e),
        WaitsFlag(u.tcb[t]) <=> WaitsFlag(s.tcb[t]),
        \A x \in s.list : x # t => u.tcb[x] = s.tcb[x],
        u.tbl[new] = t, \A p \in Prio : p # old /\ p # new => u.tbl[p] = s.tbl[p],
        \A p : p # old /\ p # new => (p \in u.rdy <=> p \in s.rdy),
        new \in u.rdy <=> old \in s.rdy, old # new => old \notin u.rdy,
        \A e \in Event : u.ev[e].wait = s.ev[e].wait /\ u.ev[e].type = s.ev[e].type
                         /\ u.ev[e].pip = s.ev[e].pip,
        u.grp.wait = s.grp.wait
    PROVE Tables(u)
  BY DEF Moved
<1>1. TaskOK(s, t)  BY DEF Tables
<1>2. \A e \in Event : old \notin s.ev[e].wait  BY <1>1 DEF TaskOK
<1>3. \A e \in Event : new \notin s.ev[e].wait
  <2>1. ASSUME NEW e \in Event, new \in s.ev[e].wait PROVE FALSE
    <3>1. Home(s, new)  BY <2>1 DEF Tables
    <3>2. s.tbl[new] = t  BY <3>1 DEF Home
    <3> QED BY <1>2, <2>1, <3>1, <3>2 DEF Home
  <2> QED BY <2>1
<1>4. TaskOK(u, t)
  <2>1. u.tcb[t].prio \in u.rdy <=> Able(u.tcb[t])  BY <1>1 DEF TaskOK
  <2>2. \A e \in Event : u.tcb[t].prio \in u.ev[e].wait <=> WaitsFor(u.tcb[t], e)
    BY <1>3
  <2>3. t \in u.grp.wait <=> WaitsFlag(u.tcb[t])  BY <1>1 DEF TaskOK
  <2> QED BY <2>1, <2>2, <2>3 DEF TaskOK
<1>5. ASSUME NEW x \in s.list, x # t PROVE TaskOK(u, x)
  <2>1. TaskOK(s, x) /\ u.tcb[x] = s.tcb[x]  BY <1>5 DEF Tables
  <2>2. s.tcb[x].prio # old /\ s.tcb[x].prio # new  BY <1>5, OnePrio
  <2>3. u.tbl[u.tcb[x].prio] = x
    <3>1. s.tcb[x].prio \in Prio  BY DEF KState, TCB
    <3> QED BY <2>1, <2>2, <3>1 DEF TaskOK
  <2>4. u.tcb[x].prio \in u.rdy <=> Able(u.tcb[x])  BY <2>1, <2>2 DEF TaskOK
  <2>5. StatOK(u, u.tcb[x])  BY <2>1 DEF TaskOK, StatOK
  <2>6. \A e \in Event : u.tcb[x].prio \in u.ev[e].wait <=> WaitsFor(u.tcb[x], e)
    BY <2>1 DEF TaskOK
  <2>7. x \in u.grp.wait <=> WaitsFlag(u.tcb[x])  BY <2>1 DEF TaskOK
  <2>8. \A e \in Event : WaitsFor(u.tcb[x], e) /\ u.ev[e].type = "mutex" =>
            u.tcb[x].prio > u.ev[e].pip /\ "suspend" \notin u.tcb[x].stat
    BY <2>1 DEF TaskOK
  <2> QED BY <2>3, <2>4, <2>5, <2>6, <2>7, <2>8 DEF TaskOK
<1>6. Home(u, new)  BY DEF Home
<1>7. s.rdy \subseteq Prio /\ \A e \in Event : s.ev[e].wait \subseteq Prio
  BY DEF KState, ECB
<1>8. ASSUME NEW p \in Prio, Home(s, p), p # old, p # new PROVE Home(u, p)
  <2>1. s.tbl[p] # t  BY <1>8 DEF Home
  <2> QED BY <1>8, <2>1 DEF Home
<1>9. ASSUME NEW p \in u.rdy PROVE Home(u, p)
  <2>1. CASE p = new  BY <1>6, <2>1
  <2>2. CASE p # new  BY <1>8, <1>7, <2>2 DEF Tables
  <2> QED BY <2>1, <2>2
<1>10. ASSUME NEW e \in Event, NEW p \in u.ev[e].wait PROVE Home(u, p)
  BY <1>2, <1>3, <1>8, <1>7 DEF Tables
<1> QED BY <1>4, <1>5, <1>9, <1>10 DEF Tables

(* What is kept of the mutexes when no task changes its priority.          *)
LEMMA MutualKept ==
    ASSUME NEW s, NEW u, Mutual(s), u.list = s.list, u.tbl = s.tbl,
           \A t \in s.list : u.tcb[t].prio = s.tcb[t].prio,
           \A e \in Event : /\ u.ev[e].type = s.ev[e].type /\ u.ev[e].pip = s.ev[e].pip
                            /\ s.ev[e].type = "mutex" =>
                                 u.ev[e].cnt = s.ev[e].cnt /\ u.ev[e].ptr = s.ev[e].ptr,
           \A e \in Event : s.ev[e].type = "mutex" /\ s.ev[e].ptr # Nil =>
                                Holds(u.tcb[s.ev[e].ptr], e)
    PROVE  Mutual(u)
<1>1. ASSUME NEW e \in Event PROVE MutexOK(u, e)
  <2>1. MutexOK(s, e)  BY DEF Mutual
  <2> QED BY <2>1 DEF MutexOK, OwnerOK
<1>2. Apart(u)  BY DEF Mutual, Apart
<1>3. Slots(u)
  <2>1. \A p : Home(s, p) => Home(u, p)  BY DEF Home
  <2>2. \A p : Lent(s, p) => Lent(u, p)  BY DEF Lent
  <2> QED BY <2>1, <2>2 DEF Mutual, Slots
<1> QED BY <1>1, <1>2, <1>3 DEF Mutual

(* What is kept of an event when its wait list only shrinks.               *)
LEMMA AwaitKept ==
    ASSUME NEW s, NEW u, NEW e, AwaitOK(s, e), u.ev[e].wait \subseteq s.ev[e].wait,
           u.ev[e].type = s.ev[e].type, u.ev[e].pip = s.ev[e].pip, u.ev[e].cnt = s.ev[e].cnt,
           u.ev[e].ptr = s.ev[e].ptr,
           s.ev[e].type = "mutex" /\ s.ev[e].ptr # Nil =>
                u.tcb[s.ev[e].ptr].prio = s.tcb[s.ev[e].ptr].prio
    PROVE  AwaitOK(u, e)
BY DEF AwaitOK, Lifted

(* What is kept of the group when nobody comes to wait for it.             *)
LEMMA GroupKept ==
    ASSUME NEW s, NEW u, GroupOK(s), u.grp.type = s.grp.type, u.grp.wait \subseteq s.grp.wait,
           u.grp.quiet => s.grp.quiet /\ u.grp.flags = s.grp.flags,
           \A t \in u.grp.wait : "flag" \in u.tcb[t].stat =>
                "flag" \in s.tcb[t].stat /\ u.tcb[t].node = s.tcb[t].node
    PROVE  GroupOK(u)
BY DEF GroupOK

(* A task that waits owns no mutex.                                        *)
LEMMA WaiterOwnsNothing ==
    ASSUME NEW s, Mutual(s), NEW t, Still(s.tcb[t]), NEW e \in Event,
           s.ev[e].type = "mutex", s.ev[e].ptr # Nil
    PROVE  s.ev[e].ptr # t
BY DEF Mutual, MutexOK, OwnerOK, Holds, Still

-----------------------------------------------------------------------------
(* The tasks that wait for an event.                                       *)
Waiters(s, e) == {t \in s.list : WaitsFor(s.tcb[t], e)}

(* Each entry of a wait list is a task that waits, and the list has all of *)
(* them.                                                                   *)
LEMMA WaitersAre ==
    ASSUME NEW s, Tables(s), NEW e \in Event
    PROVE  /\ \A p \in s.ev[e].wait : s.tbl[p] \in Waiters(s, e) /\ s.tcb[s.tbl[p]].prio = p
           /\ Idle \notin Waiters(s, e)
           /\ All(s, e) = Waiters(s, e)
<1>1. \A p \in s.ev[e].wait : s.tbl[p] \in Waiters(s, e) /\ s.tcb[s.tbl[p]].prio = p
  BY DEF Tables, Home, TaskOK, Waiters
<1>2. Idle \notin Waiters(s, e)
  <2>1. s.tcb[Idle].in = "no"  BY DEF Tables, Fresh
  <2> QED BY <2>1 DEF Waiters, WaitsFor
<1>3. ASSUME NEW t \in Waiters(s, e) PROVE t \in All(s, e)
  <2>1. TaskOK(s, t) /\ WaitsFor(s.tcb[t], e)  BY DEF Waiters, Tables
  <2>2. s.tcb[t].prio \in s.ev[e].wait /\ s.tbl[s.tcb[t].prio] = t  BY <2>1 DEF TaskOK
  <2> QED BY <2>2 DEF All
<1>4. All(s, e) = Waiters(s, e)  BY <1>1, <1>3 DEF All
<1> QED BY <1>1, <1>2, <1>4

(* A post takes the most urgent one.                                       *)
LEMMA FirstIs ==
    ASSUME NEW s \in KState, Tables(s), NEW e \in Event, s.ev[e].wait # {}
    PROVE  /\ First(s, e) \subseteq Waiters(s, e) /\ First(s, e) = {s.tbl[Highest(s.ev[e].wait)]}
           /\ Highest(s.ev[e].wait) \in s.ev[e].wait
           /\ \A q \in s.ev[e].wait : Highest(s.ev[e].wait) <= q
<1>1. s.ev[e].wait \in SUBSET Prio  BY DEF KState, ECB
<1>2. Highest(s.ev[e].wait) \in s.ev[e].wait /\ \A q \in s.ev[e].wait : Highest(s.ev[e].wait) <= q
  BY <1>1, HighestIn
<1> QED BY <1>2, WaitersAre DEF First

(* What OS_EventTaskRdy changes.                                           *)
Readied(s, u, e, W, st) ==
    /\ u \in KState
    /\ u.list = s.list /\ u.tbl = s.tbl /\ u.grp = s.grp /\ u.cur = s.cur
    /\ u.prioCur = s.prioCur /\ u.lock = s.lock /\ u.defer = s.defer
    /\ \A t \in Task \cup {Idle} : t \notin W => u.tcb[t] = s.tcb[t]
    /\ \A t \in W : /\ u.tcb[t].prio = s.tcb[t].prio /\ u.tcb[t].in = s.tcb[t].in
                    /\ u.tcb[t].event = s.tcb[t].event /\ u.tcb[t].pend = st
                    /\ u.tcb[t].stat = s.tcb[t].stat \ {s.ev[e].type}
                    /\ u.tcb[t].dly = 0
    /\ u.rdy = s.rdy \cup {s.tcb[t].prio : t \in {x \in W :
                     "suspend" \notin s.tcb[x].stat \ {s.ev[e].type}}}
    /\ \A f \in Event : f # e => u.ev[f] = s.ev[f]
    /\ u.ev[e].type = s.ev[e].type /\ u.ev[e].pip = s.ev[e].pip
    /\ u.ev[e].cnt = s.ev[e].cnt /\ u.ev[e].ptr = s.ev[e].ptr
    /\ u.ev[e].wait = s.ev[e].wait \ {s.tcb[t].prio : t \in W}

(* That is what it does.                                                   *)
LEMMA RdyFields ==
    ASSUME NEW s \in KState, NEW e \in Event, NEW W \in SUBSET s.list,
           NEW msg \in Message \cup {Nil}, NEW st \in {"ok", "abort"}
    PROVE  Readied(s, OS_EventTaskRdy(s, e, W, msg, st), e, W, st)
<1> DEFINE left(t) == s.tcb[t].stat \ {s.ev[e].type}
           T == [t \in Task \cup {Idle} |-> IF t \notin W THEN s.tcb[t] ELSE
                   [s.tcb[t] EXCEPT !.dly = 0, !.msg = msg, !.stat = left(t), !.pend = st]]
           R == s.rdy \cup {s.tcb[t].prio : t \in {x \in W : "suspend" \notin left(x)}}
           m == [s.ev[e] EXCEPT !.wait = @ \ {s.tcb[t].prio : t \in W}]
           E == [s.ev EXCEPT ![e] = m]
           u == [s EXCEPT !.tcb = T, !.rdy = R, !.ev = E]
<1>1. /\ s.tcb \in [Task \cup {Idle} -> TCB] /\ s.ev \in [Event -> ECB] /\ s.rdy \subseteq Prio
      /\ s.list \subseteq Task \cup {Idle}
  BY DEF KState
<1>2. OS_EventTaskRdy(s, e, W, msg, st) = u
  <2>1. DOMAIN s.tcb = Task \cup {Idle}  BY <1>1
  <2>2. OS_EventTaskRdy(s, e, W, msg, st) = [s EXCEPT !.tcb = T, !.rdy = R,
            !.ev[e].wait = @ \ {s.tcb[t].prio : t \in W}]
    BY <2>1 DEF OS_EventTaskRdy
  <2> HIDE DEF T, R
  <2> QED BY <1>1, <2>2 DEF KState
<1>3. ASSUME NEW t \in W
      PROVE  /\ T[t] \in TCB /\ T[t].prio = s.tcb[t].prio /\ T[t].in = s.tcb[t].in
             /\ T[t].event = s.tcb[t].event /\ T[t].pend = st
             /\ T[t].stat = left(t) /\ T[t].dly = 0
  <2> DEFINE l == left(t)
             k == [s.tcb[t] EXCEPT !.dly = 0, !.msg = msg, !.stat = l, !.pend = st]
  <2>1. s.tcb[t] \in TCB /\ T[t] = k  BY <1>1
  <2>2. l \in SUBSET (Pending \cup {"suspend"})  BY <2>1 DEF TCB
  <2> HIDE DEF l
  <2>3. k \in TCB /\ k.prio = s.tcb[t].prio /\ k.in = s.tcb[t].in /\ k.dly = 0
        /\ k.event = s.tcb[t].event /\ k.pend = st /\ k.stat = l
    BY <2>1, <2>2 DEF TCB
  <2> QED BY <2>1, <2>3 DEF l
<1>4. \A t \in Task \cup {Idle} : t \notin W => T[t] = s.tcb[t]  OBVIOUS
<1>5. T \in [Task \cup {Idle} -> TCB]
  <2>1. \A t \in Task \cup {Idle} : T[t] \in TCB  BY <1>1, <1>3, <1>4
  <2> QED BY <2>1
<1>6. R \in SUBSET Prio  BY <1>1 DEF TCB
<1>7. /\ m \in ECB /\ m.type = s.ev[e].type /\ m.pip = s.ev[e].pip /\ m.cnt = s.ev[e].cnt
      /\ m.ptr = s.ev[e].ptr /\ m.wait = s.ev[e].wait \ {s.tcb[t].prio : t \in W}
  <2> DEFINE w == s.ev[e].wait \ {s.tcb[t].prio : t \in W}
  <2>1. s.ev[e] \in ECB /\ m = [s.ev[e] EXCEPT !.wait = w]  BY <1>1
  <2>2. w \in SUBSET Prio  BY <2>1 DEF ECB
  <2> HIDE DEF w
  <2>3. m \in ECB /\ m.type = s.ev[e].type /\ m.pip = s.ev[e].pip /\ m.cnt = s.ev[e].cnt
        /\ m.ptr = s.ev[e].ptr /\ m.wait = w
    BY <2>1, <2>2 DEF ECB
  <2> QED BY <2>3 DEF w
<1> HIDE DEF m
<1>8. E \in [Event -> ECB] /\ E[e] = m /\ \A f \in Event : f # e => E[f] = s.ev[f]
  BY <1>1, <1>7
<1> HIDE DEF T, R, E
<1>9. /\ u \in KState /\ u.tcb = T /\ u.rdy = R /\ u.ev = E
      /\ u.list = s.list /\ u.tbl = s.tbl /\ u.grp = s.grp /\ u.cur = s.cur
      /\ u.prioCur = s.prioCur /\ u.lock = s.lock /\ u.defer = s.defer
  BY <1>5, <1>6, <1>8 DEF KState
<1> HIDE DEF u
<1> QED BY <1>2, <1>3, <1>4, <1>7, <1>8, <1>9 DEF R, Readied

(* It takes a task out of the wait list and puts it into the ready table,  *)
(* unless it is suspended.                                                 *)
LEMMA RdyTables ==
    ASSUME NEW s \in KState, Tables(s), NEW e \in Event, NEW W \in SUBSET Waiters(s, e),
           NEW u, NEW st \in {"ok", "abort"}, Readied(s, u, e, W, st)
    PROVE  Tables(u)
<1> DEFINE P == {s.tcb[t].prio : t \in W}
<1>1. W \in SUBSET s.list /\ Idle \notin W  BY WaitersAre DEF Waiters
<1>2. /\ u \in KState
      /\ u.list = s.list /\ u.tbl = s.tbl /\ u.grp = s.grp
      /\ \A t \in Task \cup {Idle} : t \notin W => u.tcb[t] = s.tcb[t]
      /\ \A t \in W : /\ u.tcb[t].prio = s.tcb[t].prio /\ u.tcb[t].in = s.tcb[t].in
                      /\ u.tcb[t].event = s.tcb[t].event /\ u.tcb[t].pend = st
                      /\ u.tcb[t].stat = s.tcb[t].stat \ {s.ev[e].type}
                      /\ u.tcb[t].dly = 0
      /\ u.rdy = s.rdy \cup {s.tcb[t].prio : t \in {x \in W :
                       "suspend" \notin s.tcb[x].stat \ {s.ev[e].type}}}
      /\ \A f \in Event : f # e => u.ev[f] = s.ev[f]
      /\ u.ev[e].type = s.ev[e].type /\ u.ev[e].pip = s.ev[e].pip
      /\ u.ev[e].wait = s.ev[e].wait \ {s.tcb[t].prio : t \in W}
  BY DEF Readied
<1>3. s.list \subseteq Task \cup {Idle} /\ s.tcb \in [Task \cup {Idle} -> TCB]
  BY DEF KState
<1>4. ASSUME NEW t \in W PROVE TaskOK(u, t)
  <2>1. t \in s.list /\ TaskOK(s, t) /\ s.tcb[t].in = "event" /\ s.tcb[t].event = e
    BY <1>1 DEF Waiters, WaitsFor, Tables
  <2>2. /\ u.tcb[t].prio = s.tcb[t].prio /\ u.tcb[t].in = "event"
        /\ u.tcb[t].event = e /\ u.tcb[t].pend = st
        /\ u.tcb[t].stat = s.tcb[t].stat \ {s.ev[e].type}
        /\ u.tcb[t].dly = 0
    BY <1>2, <2>1
  <2>3. s.tcb[t].stat \cap Pending \subseteq {s.ev[e].type}
        /\ s.tcb[t].stat \subseteq Pending \cup {"suspend"}
    BY <1>3, <2>1 DEF TaskOK, StatOK, TCB
  <2>4. u.tcb[t].stat \cap Pending = {} /\ u.tcb[t].stat \subseteq {"suspend"}
    BY <2>2, <2>3
  <2>5. ~Still(u.tcb[t])  BY <2>2, <2>4 DEF Still
  <2>6. StatOK(u, u.tcb[t])  BY <2>2, <2>4 DEF StatOK
  <2>7. u.tbl[u.tcb[t].prio] = t  BY <1>2, <2>1, <2>2 DEF TaskOK
  <2>8. u.tcb[t].prio \in u.rdy <=> Able(u.tcb[t])
    <3>1. Able(u.tcb[t]) <=> "suspend" \notin u.tcb[t].stat  BY <2>2, <2>4 DEF Able
    <3>2. ASSUME "suspend" \notin u.tcb[t].stat PROVE u.tcb[t].prio \in u.rdy
      BY <1>2, <2>2, <3>2
    <3>3. ASSUME u.tcb[t].prio \in u.rdy PROVE "suspend" \notin u.tcb[t].stat
      <4>1. CASE s.tcb[t].prio \in s.rdy  BY <2>1, <2>2, <4>1 DEF TaskOK, Able
      <4>2. CASE s.tcb[t].prio \notin s.rdy
        <5>1. PICK x \in W : s.tcb[t].prio = s.tcb[x].prio
                             /\ "suspend" \notin s.tcb[x].stat \ {s.ev[e].type}
          BY <1>2, <2>2, <3>3, <4>2
        <5>2. x = t  BY <1>1, <2>1, <5>1, OnePrio
        <5> QED BY <2>2, <5>1, <5>2
      <4> QED BY <4>1, <4>2
    <3> QED BY <3>1, <3>2, <3>3
  <2>9. \A f \in Event : u.tcb[t].prio \notin u.ev[f].wait
    <3>1. u.tcb[t].prio \notin u.ev[e].wait  BY <1>2, <2>2
    <3>2. ASSUME NEW f \in Event, f # e PROVE u.tcb[t].prio \notin u.ev[f].wait
      BY <1>2, <2>1, <2>2, <3>2 DEF TaskOK, WaitsFor
    <3> QED BY <3>1, <3>2
  <2>10. t \notin u.grp.wait  BY <1>2, <2>1 DEF TaskOK, WaitsFlag
  <2> QED BY <2>2, <2>5, <2>6, <2>7, <2>8, <2>9, <2>10 DEF TaskOK, WaitsFor, WaitsFlag
<1>5. \A t \in s.list : u.tcb[t].prio = s.tcb[t].prio  BY <1>2, <1>3
<1>6. \A t \in s.list \ W : u.tcb[t] = s.tcb[t]  BY <1>2, <1>3
<1>7. \A p : p \notin P => (p \in u.rdy <=> p \in s.rdy)  BY <1>2
<1>8. \A f \in Event : /\ u.ev[f].type = s.ev[f].type /\ u.ev[f].pip = s.ev[f].pip
                       /\ \A p : p \notin P => (p \in u.ev[f].wait <=> p \in s.ev[f].wait)
  BY <1>2
<1>9. P = {s.tcb[t].prio : t \in W}  OBVIOUS
<1>10. u.list = s.list /\ u.tbl = s.tbl /\ \A t : t \notin W => (t \in u.grp.wait <=> t \in s.grp.wait)
  BY <1>2
<1> HIDE DEF P
<1>11. Tables(u)
  BY <1>1, <1>4, <1>5, <1>6, <1>7, <1>8, <1>9, <1>10, TasksChanged
<1> QED BY <1>11

(* The tasks it readies own no mutex.                                      *)
LEMMA RdyMutual ==
    ASSUME NEW s \in KState, Tables(s), Mutual(s), NEW e \in Event, NEW W \in SUBSET Waiters(s, e),
           NEW u, NEW st \in {"ok", "abort"}, Readied(s, u, e, W, st)
    PROVE  Mutual(u)
<1>1. W \in SUBSET s.list  BY DEF Waiters
<1>2. /\ u.list = s.list /\ u.tbl = s.tbl
      /\ \A t \in Task \cup {Idle} : t \notin W => u.tcb[t] = s.tcb[t]
      /\ \A t \in W : u.tcb[t].prio = s.tcb[t].prio
      /\ \A f \in Event : f # e => u.ev[f] = s.ev[f]
      /\ u.ev[e].type = s.ev[e].type /\ u.ev[e].pip = s.ev[e].pip
      /\ u.ev[e].cnt = s.ev[e].cnt /\ u.ev[e].ptr = s.ev[e].ptr
  BY DEF Readied
<1>3. s.list \subseteq Task \cup {Idle}  BY DEF KState
<1>4. \A t \in s.list : u.tcb[t].prio = s.tcb[t].prio  BY <1>2, <1>3
<1>5. ASSUME NEW f \in Event, s.ev[f].type = "mutex", s.ev[f].ptr # Nil
      PROVE  Holds(u.tcb[s.ev[f].ptr], f)
  <2>1. s.ev[f].ptr \in s.list /\ Holds(s.tcb[s.ev[f].ptr], f)
    BY <1>5 DEF Mutual, MutexOK, OwnerOK
  <2>2. s.ev[f].ptr \notin W
    BY <2>1 DEF Waiters, WaitsFor, Still, Holds
  <2> QED BY <1>2, <1>3, <2>1, <2>2
<1>6. \A f \in Event : /\ u.ev[f].type = s.ev[f].type /\ u.ev[f].pip = s.ev[f].pip
                       /\ u.ev[f].cnt = s.ev[f].cnt /\ u.ev[f].ptr = s.ev[f].ptr
  BY <1>2
<1>7. Mutual(u)  BY <1>2, <1>4, <1>5, <1>6, MutualKept
<1> QED BY <1>7

(* Nobody comes to wait.                                                   *)
LEMMA RdyAwaits ==
    ASSUME NEW s, Base(s), NEW e \in Event, NEW W \in SUBSET Waiters(s, e),
           NEW u, NEW st \in {"ok", "abort"}, Readied(s, u, e, W, st)
    PROVE  Awaits(u)
<1>1. s \in KState /\ Tables(s) /\ Mutual(s)  BY DEF Base
<1>2. W \in SUBSET s.list  BY DEF Waiters
<1>3. /\ u.list = s.list /\ u.tbl = s.tbl /\ u.grp = s.grp
      /\ \A t \in Task \cup {Idle} : t \notin W => u.tcb[t] = s.tcb[t]
      /\ \A t \in W : u.tcb[t].prio = s.tcb[t].prio
      /\ \A f \in Event : f # e => u.ev[f] = s.ev[f]
      /\ u.ev[e].type = s.ev[e].type /\ u.ev[e].pip = s.ev[e].pip
      /\ u.ev[e].cnt = s.ev[e].cnt /\ u.ev[e].ptr = s.ev[e].ptr
      /\ u.ev[e].wait = s.ev[e].wait \ {s.tcb[t].prio : t \in W}
  BY DEF Readied
<1>4. s.list \subseteq Task \cup {Idle}  BY <1>1 DEF KState
<1>5. ASSUME NEW f \in Event PROVE AwaitOK(u, f)
  <2>1. AwaitOK(s, f) /\ MutexOK(s, f)  BY DEF Base, Awaits, Mutual
  <2>2. s.ev[f].type = "mutex" /\ s.ev[f].ptr # Nil =>
                u.tcb[s.ev[f].ptr].prio = s.tcb[s.ev[f].ptr].prio
    BY <1>3, <1>4, <2>1 DEF MutexOK, OwnerOK
  <2>3. /\ u.ev[f].type = s.ev[f].type /\ u.ev[f].pip = s.ev[f].pip
        /\ u.ev[f].cnt = s.ev[f].cnt /\ u.ev[f].ptr = s.ev[f].ptr
        /\ u.ev[f].wait \subseteq s.ev[f].wait
    BY <1>3
  <2> QED BY <2>1, <2>2, <2>3, AwaitKept
<1>6. GroupOK(u)
  <2>1. ASSUME NEW t \in s.grp.wait PROVE u.tcb[t] = s.tcb[t]
    <3>1. t \in s.list /\ TaskOK(s, t)  BY <1>1 DEF Tables
    <3>2. t \notin W  BY <3>1 DEF TaskOK, WaitsFlag, Waiters, WaitsFor
    <3> QED BY <1>3, <1>4, <3>1, <3>2
  <2>2. GroupOK(s)  BY DEF Base, Awaits
  <2> QED BY <1>3, <2>1, <2>2, GroupKept
<1>7. Awaits(u)  BY <1>5, <1>6 DEF Awaits
<1> QED BY <1>7

(* OS_EventTaskRdy and then OS_Sched.                                      *)
LEMMA RdyOK ==
    ASSUME NEW s, KInv(s), NEW e \in Event, NEW W \in SUBSET Waiters(s, e),
           NEW u, NEW st \in {"ok", "abort"}, Readied(s, u, e, W, st)
    PROVE  Base(u) /\ CurOK(u) /\ KInv(OS_Sched(u))
<1>1. Base(s) /\ s \in KState /\ Tables(s) /\ Mutual(s) /\ CurOK(s)  BY DEF KInv, Base
<1>2. /\ u \in KState
      /\ u.list = s.list /\ u.tbl = s.tbl /\ u.cur = s.cur
      /\ u.prioCur = s.prioCur /\ u.lock = s.lock
      /\ \A t \in Task \cup {Idle} : t \notin W => u.tcb[t] = s.tcb[t]
      /\ \A t \in W : u.tcb[t].prio = s.tcb[t].prio
      /\ s.rdy \subseteq u.rdy
  BY DEF Readied
<1>3. Base(u)
  <2>1. Tables(u)  BY <1>1, RdyTables
  <2>2. Mutual(u)  BY <1>1, RdyMutual
  <2>3. Awaits(u)  BY <1>1, RdyAwaits
  <2> QED BY <1>2, <2>1, <2>2, <2>3 DEF Base
<1>4. s.cur \in Task \cup {Idle}  BY <1>1 DEF KState
<1>5. CurOK(u)  BY <1>1, <1>2, <1>4 DEF CurOK
<1>6. u.tbl[u.prioCur] = u.cur
  BY <1>1, <1>2 DEF CurOK, Tables, TaskOK
<1>7. KInv(OS_Sched(u))  BY <1>3, <1>5, <1>6, Scheduled DEF CurOK
<1> QED BY <1>3, <1>5, <1>7

-----------------------------------------------------------------------------
(* Only the task t changes, in its control block and in the tables.        *)
OneTask(s, u, t) ==
    /\ u \in KState /\ u.list = s.list /\ u.tbl = s.tbl
    /\ u.tcb[t].prio = s.tcb[t].prio
    /\ \A x \in Task \cup {Idle} : x # t => u.tcb[x] = s.tcb[x]
    /\ \A p : p # s.tcb[t].prio => (p \in u.rdy <=> p \in s.rdy)
    /\ \A e \in Event :
        /\ u.ev[e].type = s.ev[e].type /\ u.ev[e].pip = s.ev[e].pip
        /\ u.ev[e].cnt = s.ev[e].cnt /\ u.ev[e].ptr = s.ev[e].ptr
        /\ \A p : p # s.tcb[t].prio => (p \in u.ev[e].wait <=> p \in s.ev[e].wait)
    /\ \A x : x # t => (x \in u.grp.wait <=> x \in s.grp.wait)

(* Then only t needs to be looked at for the tables.                       *)
LEMMA OneTables ==
    ASSUME NEW s \in KState, Tables(s), NEW u, NEW t \in s.list, t # Idle, OneTask(s, u, t),
           TaskOK(u, t)
    PROVE  Tables(u)
<1> DEFINE W == {t}
           P == {s.tcb[x].prio : x \in W}
<1>1. W \in SUBSET s.list /\ Idle \notin W /\ P = {s.tcb[x].prio : x \in W} /\ P = {s.tcb[t].prio}
      /\ (\A x \in W : x = t) /\ (\A x : x \notin W => x # t)
  OBVIOUS
<1> HIDE DEF W, P
<1>2. u.list = s.list /\ u.tbl = s.tbl /\ \A x \in s.list : u.tcb[x].prio = s.tcb[x].prio
  BY DEF OneTask, KState
<1>3. \A x \in s.list \ W : u.tcb[x] = s.tcb[x]  BY <1>1 DEF OneTask, KState
<1>4. \A p : p \notin P => (p \in u.rdy <=> p \in s.rdy)  BY <1>1 DEF OneTask
<1>5. \A e \in Event : /\ u.ev[e].type = s.ev[e].type /\ u.ev[e].pip = s.ev[e].pip
                       /\ \A p : p \notin P => (p \in u.ev[e].wait <=> p \in s.ev[e].wait)
  BY <1>1 DEF OneTask
<1>6. \A x : x \notin W => (x \in u.grp.wait <=> x \in s.grp.wait)  BY <1>1 DEF OneTask
<1>7. \A x \in W : TaskOK(u, x)  BY <1>1
<1> QED BY <1>1, <1>2, <1>3, <1>4, <1>5, <1>6, <1>7, TasksChanged

(* For the mutexes t must stay fit to own what it owns.                    *)
LEMMA OneMutual ==
    ASSUME NEW s \in KState, Mutual(s), NEW u, NEW t, OneTask(s, u, t),
           \A e \in Event : s.ev[e].type = "mutex" /\ s.ev[e].ptr = t /\ Holds(s.tcb[t], e)
                => Holds(u.tcb[t], e)
    PROVE  Mutual(u)
<1>1. \A x \in s.list : u.tcb[x].prio = s.tcb[x].prio  BY DEF OneTask, KState
<1>2. ASSUME NEW e \in Event, s.ev[e].type = "mutex", s.ev[e].ptr # Nil
      PROVE  Holds(u.tcb[s.ev[e].ptr], e)
  <2>1. Holds(s.tcb[s.ev[e].ptr], e) /\ s.ev[e].ptr \in Task
    BY <1>2 DEF Mutual, MutexOK, OwnerOK
  <2>2. CASE s.ev[e].ptr = t  BY <1>2, <2>1, <2>2
  <2>3. CASE s.ev[e].ptr # t
    <3>1. u.tcb[s.ev[e].ptr] = s.tcb[s.ev[e].ptr]  BY <2>1, <2>3 DEF OneTask
    <3> QED BY <2>1, <3>1
  <2> QED BY <2>2, <2>3
<1>3. u.list = s.list /\ u.tbl = s.tbl
      /\ \A e \in Event : /\ u.ev[e].type = s.ev[e].type /\ u.ev[e].pip = s.ev[e].pip
                          /\ s.ev[e].type = "mutex" =>
                                 u.ev[e].cnt = s.ev[e].cnt /\ u.ev[e].ptr = s.ev[e].ptr
  BY DEF OneTask
<1> QED BY <1>1, <1>2, <1>3, MutualKept

(* For an event t must not come to wait.                                   *)
LEMMA OneAwait ==
    ASSUME NEW s \in KState, Mutual(s), NEW u, NEW t, OneTask(s, u, t), NEW e \in Event,
           AwaitOK(s, e), u.ev[e].wait \subseteq s.ev[e].wait
    PROVE  AwaitOK(u, e)
<1>1. /\ u.ev[e].type = s.ev[e].type /\ u.ev[e].pip = s.ev[e].pip
      /\ u.ev[e].cnt = s.ev[e].cnt /\ u.ev[e].ptr = s.ev[e].ptr
  BY DEF OneTask
<1>2. s.ev[e].type = "mutex" /\ s.ev[e].ptr # Nil =>
                u.tcb[s.ev[e].ptr].prio = s.tcb[s.ev[e].ptr].prio
  <2>1. s.ev[e].type = "mutex" /\ s.ev[e].ptr # Nil => s.ev[e].ptr \in Task
    BY DEF Mutual, MutexOK, OwnerOK
  <2> QED BY <2>1 DEF OneTask
<1> QED BY <1>1, <1>2, AwaitKept

(* The running task.                                                       *)
LEMMA CurIs ==
    ASSUME NEW s, Base(s), CurOK(s)
    PROVE  /\ s \in KState /\ s.cur \in s.list /\ TaskOK(s, s.cur) /\ s.tcb[s.cur] \in TCB
           /\ s.tcb[s.cur].stat = {} /\ s.tcb[s.cur].dly = 0 /\ s.tbl[s.prioCur] = s.cur
           /\ s.prioCur = s.tcb[s.cur].prio /\ s.prioCur \in Prio
BY DEF Base, CurOK, Tables, TaskOK, Able, KState

(* The running task leaves the ready table, and OS_Sched.                  *)
LEMMA CurLeaves ==
    ASSUME NEW s, Base(s), CurOK(s), s.lock = 0, NEW u, Base(u), u.prioCur = s.prioCur,
           u.lock = s.lock, u.rdy = s.rdy \ {s.prioCur}
    PROVE  KInv(OS_Sched(u))
<1>1. u.prioCur \notin u.rdy /\ u.lock = 0  OBVIOUS
<1> QED BY <1>1, Scheduled

(* Nothing the scheduler reads has changed.                                *)
LEMMA StillRuns ==
    ASSUME NEW s, KInv(s), NEW u, Base(u), u.cur = s.cur, u.prioCur = s.prioCur, u.lock = s.lock,
           u.defer = s.defer, u.rdy = s.rdy, u.list = s.list,
           u.tcb[s.cur].prio = s.tcb[s.cur].prio
    PROVE  KInv(u)
<1>1. CurOK(u)  BY DEF KInv, CurOK
<1>2. Runs(u)  BY DEF KInv, Runs
<1> QED BY <1>1, <1>2 DEF KInv

(* A Pend blocks.                                                          *)
LEMMA WaitBase ==
    ASSUME NEW s, Base(s), CurOK(s), s.lock = 0, s.cur \in Task, Cur(s).in = "no",
           NEW e \in Event, NEW d \in Nat, s.ev[e].type \in {"sem", "mbox", "mutex"},
           \A f \in Event : s.ev[f].type = "mutex" => s.ev[f].ptr # s.cur,
           s.ev[e].type = "sem" => s.ev[e].cnt = 0, s.ev[e].type = "mbox" => s.ev[e].ptr = Nil,
           s.ev[e].type = "mutex" =>
             /\ s.ev[e].ptr # Nil /\ s.prioCur > s.ev[e].pip
             /\ s.prioCur < s.ev[e].cnt => s.tcb[s.ev[e].ptr].prio = s.ev[e].pip
    PROVE  KInv(Wait(s, e, d))
<1> DEFINE c == s.cur
           p == s.tcb[c].prio
           y == s.ev[e].type
           k == [s.tcb[c] EXCEPT !.stat = @ \cup {y}, !.pend = "ok", !.dly = d, !.event = e,
                                 !.in = "event"]
           T == [s.tcb EXCEPT ![c] = k]
           m == [s.ev[e] EXCEPT !.wait = @ \cup {p}]
           E == [s.ev EXCEPT ![e] = m]
           R == s.rdy \ {p}
           u == [s EXCEPT !.tcb = T, !.ev = E, !.rdy = R]
<1>1. /\ s \in KState /\ c \in s.list /\ TaskOK(s, c) /\ s.tcb[c] \in TCB
      /\ s.tcb[c].prio = p /\ s.tcb[c].stat = {} /\ s.tbl[p] = c /\ p = s.prioCur /\ p \in Prio /\ s.tcb[c].in = "no"
  BY CurIs DEF Cur
<1>2. /\ s.tcb \in [Task \cup {Idle} -> TCB] /\ s.ev \in [Event -> ECB] /\ s.rdy \subseteq Prio
      /\ c \in Task \cup {Idle} /\ c # Idle /\ Tables(s) /\ Mutual(s) /\ Awaits(s)
  BY <1>1, OsCoreAssumption DEF KState, Base
<1>3. Wait(s, e, d) = OS_Sched(u)
  <2> DEFINE v == [s EXCEPT
                !.tcb[s.cur] = [@ EXCEPT !.stat = s.tcb[s.cur].stat \cup {s.ev[e].type}, !.pend = "ok",
                                         !.dly = d, !.event = e, !.in = "event"],
                !.ev[e].wait = @ \cup {s.tcb[s.cur].prio},
                !.rdy = @ \ {s.tcb[s.cur].prio}]
  <2>1. Wait(s, e, d) = OS_Sched(v)  BY Zenon DEF Wait, Cur
  <2>2. v = [s EXCEPT !.tcb[c] = k, !.ev[e].wait = @ \cup {p}, !.rdy = @ \ {p}]  OBVIOUS
  <2>3. v = u
    <3> HIDE DEF k, p, c, v
    <3> QED BY <1>1, <1>2, <2>2 DEF KState
  <2> QED BY <2>1, <2>3
<1>4. /\ k \in TCB /\ k.prio = p /\ k.stat = {y} /\ k.pend = "ok" /\ k.dly = d /\ k.event = e
      /\ k.in = "event"
  <2>1. y \in Pending  BY DEF Pending
  <2> HIDE DEF y, c, p
  <2> QED BY <1>1, <2>1 DEF TCB
<1>5. /\ m \in ECB /\ m.type = s.ev[e].type /\ m.pip = s.ev[e].pip /\ m.cnt = s.ev[e].cnt
      /\ m.ptr = s.ev[e].ptr /\ m.wait = s.ev[e].wait \cup {p}
  <2> HIDE DEF p
  <2> QED BY <1>1, <1>2 DEF ECB
<1> HIDE DEF k, m, p, c
<1>6. T \in [Task \cup {Idle} -> TCB] /\ T[c] = k /\ \A x \in Task \cup {Idle} : x # c => T[x] = s.tcb[x]
  BY <1>2, <1>4
<1>7. E \in [Event -> ECB] /\ E[e] = m /\ \A f \in Event : f # e => E[f] = s.ev[f]
  BY <1>2, <1>5
<1>8. R \in SUBSET Prio  BY <1>2
<1> HIDE DEF T, E
<1>9. /\ u \in KState /\ u.tcb = T /\ u.ev = E /\ u.rdy = s.rdy \ {p} /\ u.list = s.list
      /\ u.tbl = s.tbl /\ u.grp = s.grp /\ u.prioCur = s.prioCur /\ u.lock = s.lock
  BY <1>1, <1>6, <1>7, <1>8 DEF KState
<1> HIDE DEF u, R
<1>10. u.tcb[c] = k /\ u.tcb[c].prio = p
  BY <1>4, <1>6, <1>9
<1>11. OneTask(s, u, c)
  <2>1. \A f \in Event :
        /\ u.ev[f].type = s.ev[f].type /\ u.ev[f].pip = s.ev[f].pip
        /\ u.ev[f].cnt = s.ev[f].cnt /\ u.ev[f].ptr = s.ev[f].ptr
        /\ \A q : q # s.tcb[c].prio => (q \in u.ev[f].wait <=> q \in s.ev[f].wait)
    BY <1>1, <1>5, <1>7, <1>9
  <2> QED BY <1>1, <1>6, <1>9, <1>10, <2>1 DEF OneTask
<1>12. \A f \in Event : p \in s.ev[f].wait <=> WaitsFor(s.tcb[c], f)
  BY <1>1 DEF TaskOK
<1>13. TaskOK(u, c)
  <2>1. StatOK(u, k)
    <3>1. u.ev[e].type = y  BY <1>5, <1>7, <1>9
    <3>2. k.stat \cap Pending = {y}  BY <1>4 DEF Pending
    <3> QED BY <1>4, <3>1, <3>2 DEF StatOK
  <2>2. u.tcb[c].prio \notin u.rdy /\ ~Able(u.tcb[c])  BY <1>4, <1>9, <1>10 DEF Able
  <2>3. ASSUME NEW f \in Event PROVE u.tcb[c].prio \in u.ev[f].wait <=> WaitsFor(u.tcb[c], f)
    <3>1. CASE f = e
      <4>1. Still(k)  BY <1>4 DEF Still, Pending
      <4> QED BY <1>4, <1>5, <1>7, <1>9, <1>10, <3>1, <4>1 DEF WaitsFor
    <3>2. CASE f # e
      BY <1>1, <1>4, <1>7, <1>9, <1>10, <1>12, <3>2 DEF WaitsFor
    <3> QED BY <3>1, <3>2
  <2>4. c \in u.grp.wait <=> WaitsFlag(u.tcb[c])
    BY <1>1, <1>4, <1>9, <1>10 DEF TaskOK, WaitsFlag
  <2>5. ASSUME NEW f \in Event, WaitsFor(u.tcb[c], f), u.ev[f].type = "mutex"
        PROVE  u.tcb[c].prio > u.ev[f].pip /\ "suspend" \notin u.tcb[c].stat
    <3>1. f = e  BY <1>4, <1>10, <2>5 DEF WaitsFor
    <3>2. y = "mutex" /\ u.ev[f].pip = s.ev[e].pip  BY <1>5, <1>7, <1>9, <2>5, <3>1
    <3>3. p > s.ev[e].pip  BY <1>1, <3>2
    <3> QED BY <1>4, <1>10, <3>2, <3>3
  <2>6. u.tbl[u.tcb[c].prio] = c  BY <1>1, <1>9, <1>10
  <2> QED BY <1>10, <2>1, <2>2, <2>3, <2>4, <2>5, <2>6 DEF TaskOK
<1>14. Tables(u)  BY <1>1, <1>2, <1>11, <1>13, OneTables
<1>15. \A f \in Event : s.ev[f].type = "mutex" => s.ev[f].ptr # c  BY DEF c
<1>16. Mutual(u)  BY <1>1, <1>2, <1>11, <1>15, OneMutual
<1>17. ASSUME NEW f \in Event PROVE AwaitOK(u, f)
  <2>1. AwaitOK(s, f)  BY <1>2 DEF Awaits
  <2>2. CASE f # e
    <3>1. u.ev[f].wait \subseteq s.ev[f].wait  BY <1>7, <1>9, <2>2
    <3> QED BY <1>1, <1>2, <1>11, <2>1, <3>1, OneAwait
  <2>3. CASE f = e
    <3>1. u.ev[e].type = y /\ u.ev[e].cnt = s.ev[e].cnt /\ u.ev[e].ptr = s.ev[e].ptr
          /\ u.ev[e].wait = s.ev[e].wait \cup {p} /\ u.ev[e].pip = s.ev[e].pip
      BY <1>5, <1>7, <1>9
    <3>2. CASE y = "sem"  BY <2>1, <2>3, <3>1, <3>2 DEF AwaitOK
    <3>3. CASE y = "mbox"  BY <2>1, <2>3, <3>1, <3>3 DEF AwaitOK
    <3>4. CASE y = "mutex"
      <4>1. s.ev[e].ptr # Nil /\ (p < s.ev[e].cnt => s.tcb[s.ev[e].ptr].prio = s.ev[e].pip)
        BY <1>1, <3>4
      <4>2. s.ev[e].ptr \in Task
        BY <1>2, <3>4, <4>1 DEF Mutual, MutexOK, OwnerOK
      <4>3. u.tcb[s.ev[e].ptr] = s.tcb[s.ev[e].ptr]
        BY <1>6, <1>9, <1>15, <3>4, <4>2
      <4>4. Lifted(s, e)  BY <2>1, <2>3, <3>4, <4>1 DEF AwaitOK
      <4>5. Lifted(u, e)  BY <3>1, <4>1, <4>3, <4>4 DEF Lifted
      <4> QED BY <2>3, <3>1, <3>4, <4>1, <4>5 DEF AwaitOK
    <3> QED BY <3>2, <3>3, <3>4
  <2> QED BY <2>2, <2>3
<1>18. GroupOK(u)
  <2>1. GroupOK(s)  BY <1>2 DEF Awaits
  <2>2. c \notin s.grp.wait  BY <1>1 DEF TaskOK, WaitsFlag
  <2>3. \A x \in s.grp.wait : u.tcb[x] = s.tcb[x]
    BY <1>1, <1>6, <1>9, <2>2 DEF KState, Group
  <2> QED BY <1>9, <2>1, <2>3, GroupKept
<1>19. Base(u)  BY <1>9, <1>14, <1>16, <1>17, <1>18 DEF Base, Awaits
<1>20. u.rdy = s.rdy \ {s.prioCur}  BY <1>1, <1>9
<1> QED BY <1>3, <1>9, <1>19, <1>20, CurLeaves

(* The least entry is the only one.                                        *)
LEMMA HighestIs ==
    ASSUME NEW S \in SUBSET Prio, NEW p \in S, \A q \in S : p <= q
    PROVE  Highest(S) = p
<1> DEFINE h == Highest(S)
<1>1. h \in S /\ \A q \in S : h <= q  BY HighestIn
<1>2. S \subseteq Int  BY OsCoreAssumption DEF Prio
<1> HIDE DEF h
<1>3. h <= p /\ p <= h /\ h \in Int /\ p \in Int  BY <1>1, <1>2
<1>4. h = p  BY <1>3
<1> QED BY <1>4 DEF h

(* The kernel's data after a change of the task t.                         *)
Changed(s, t, k, E, R, G) ==
    [s EXCEPT !.tcb = [s.tcb EXCEPT ![t] = k], !.ev = E, !.rdy = R, !.grp = G]
(* Its fields.                                                             *)
Fields(s, u, t, k, E, R, G) ==
    /\ u.tcb[t] = k /\ u.ev = E /\ u.rdy = R /\ u.grp = G /\ u.tbl = s.tbl /\ u.list = s.list
    /\ u.cur = s.cur /\ u.prioCur = s.prioCur /\ u.lock = s.lock /\ u.defer = s.defer

(* It is a change of one task.                                             *)
LEMMA OneFields ==
    ASSUME NEW s \in KState, NEW t \in Task \cup {Idle}, NEW k \in TCB, k.prio = s.tcb[t].prio,
           NEW E \in [Event -> ECB],
           \A e \in Event : /\ E[e].type = s.ev[e].type /\ E[e].pip = s.ev[e].pip
                            /\ E[e].cnt = s.ev[e].cnt /\ E[e].ptr = s.ev[e].ptr
                            /\ \A p : p # s.tcb[t].prio => (p \in E[e].wait <=> p \in s.ev[e].wait),
           NEW R \in SUBSET Prio, \A p : p # s.tcb[t].prio => (p \in R <=> p \in s.rdy),
           NEW G \in Group, \A x : x # t => (x \in G.wait <=> x \in s.grp.wait)
    PROVE  /\ OneTask(s, Changed(s, t, k, E, R, G), t)
           /\ Fields(s, Changed(s, t, k, E, R, G), t, k, E, R, G)
<1> DEFINE u == Changed(s, t, k, E, R, G)
<1> DEFINE T == [s.tcb EXCEPT ![t] = k]
<1>1. T \in [Task \cup {Idle} -> TCB] /\ T[t] = k /\ \A x \in Task \cup {Idle} : x # t => T[x] = s.tcb[x]
  BY DEF KState
<1>2. u = [s EXCEPT !.tcb = T, !.ev = E, !.rdy = R, !.grp = G]  BY DEF Changed
<1> HIDE DEF T, u
<1>3. /\ u \in KState /\ u.tcb = T /\ u.ev = E /\ u.rdy = R /\ u.grp = G /\ u.list = s.list /\ u.tbl = s.tbl
      /\ u.cur = s.cur /\ u.prioCur = s.prioCur /\ u.lock = s.lock /\ u.defer = s.defer
  BY <1>1, <1>2 DEF KState
<1>4. OneTask(s, u, t) /\ Fields(s, u, t, k, E, R, G)  BY <1>1, <1>3 DEF OneTask, Fields
<1> QED BY <1>4 DEF u

(* A change of one task that does not come to wait.                        *)
LEMMA OneBase ==
    ASSUME NEW s, Base(s), NEW u, NEW t \in s.list, t # Idle, OneTask(s, u, t), TaskOK(u, t),
           \A e \in Event : s.ev[e].type = "mutex" /\ s.ev[e].ptr = t /\ Holds(s.tcb[t], e)
                => Holds(u.tcb[t], e),
           \A e \in Event : u.ev[e].wait \subseteq s.ev[e].wait,
           GroupOK(u)
    PROVE  Base(u)
<1>1. s \in KState /\ Tables(s) /\ Mutual(s) /\ Awaits(s) /\ u \in KState
  BY DEF Base, OneTask
<1>2. Tables(u)  BY <1>1, OneTables
<1>3. Mutual(u)  BY <1>1, OneMutual
<1>4. \A e \in Event : AwaitOK(u, e)
  <2>1. \A e \in Event : AwaitOK(s, e)  BY <1>1 DEF Awaits
  <2> QED BY <1>1, <2>1, OneAwait
<1> QED BY <1>1, <1>2, <1>3, <1>4 DEF Base, Awaits

(* OS_Sched after a change that leaves the running task ready.             *)
LEMMA CurStays ==
    ASSUME NEW u, Base(u), CurOK(u)
    PROVE  KInv(OS_Sched(u))
BY CurIs, Scheduled DEF CurOK

(* The rest of a Pend: the task that was posted to, or that its timeout    *)
(* made ready, leaves the call and, after a timeout, the wait list.        *)
LEMMA PendReturnsOK ==
    ASSUME NEW s, KInv(s), s.cur \in Task, Cur(s).in = "event"
    PROVE  KInv(PendReturns(s))
<1> DEFINE c == s.cur
           k == [s.tcb[c] EXCEPT !.stat = {}, !.pend = "ok", !.event = Nil, !.msg = Nil, !.in = "no"]
           g == s.tcb[c].event
           w == IF s.tcb[c].pend = "to" THEN s.ev[g].wait \ {s.tcb[c].prio} ELSE s.ev[g].wait
           m == [s.ev[g] EXCEPT !.wait = w]
           E == [s.ev EXCEPT ![g] = m]
           u == Changed(s, c, k, E, s.rdy, s.grp)
<1>1. /\ Base(s) /\ s \in KState /\ c \in s.list /\ TaskOK(s, c) /\ s.tcb[c] \in TCB
      /\ s.tcb[c].stat = {} /\ s.tcb[c].dly = 0 /\ s.tcb[c].in = "event" /\ c \in Task \cup {Idle}
      /\ c # Idle /\ s.tcb[c].prio = s.prioCur /\ s.prioCur \in s.rdy
  BY CurIs, OsCoreAssumption DEF Cur, KInv, CurOK
<1>2. g \in Event  BY <1>1 DEF TaskOK, StatOK
<1>3. s.ev[g] \in ECB /\ s.ev \in [Event -> ECB] /\ s.grp \in Group /\ s.rdy \in SUBSET Prio
  BY <1>1, <1>2 DEF KState
<1>4. w \in SUBSET Prio /\ w \subseteq s.ev[g].wait
      /\ \A p : p # s.tcb[c].prio => (p \in w <=> p \in s.ev[g].wait)
  BY <1>3 DEF ECB
<1>5. PendReturns(s) = u
  <2> DEFINE v == [s EXCEPT
                    !.tcb[s.cur] = [@ EXCEPT !.stat = {}, !.pend = "ok",
                                             !.event = Nil, !.msg = Nil, !.in = "no"],
                    !.ev[s.tcb[s.cur].event].wait =
                        IF s.tcb[s.cur].pend = "to" THEN @ \ {s.tcb[s.cur].prio} ELSE @]
  <2>1. PendReturns(s) = v  BY Zenon DEF PendReturns, Cur
  <2>2. v = [s EXCEPT !.tcb[c] = k, !.ev[g].wait = w]  OBVIOUS
  <2> HIDE DEF k, c, v, g, w
  <2>3. [s EXCEPT !.tcb[c] = k, !.ev[g].wait = w] = u
    BY <1>1, <1>2, <1>3 DEF KState, Changed
  <2> QED BY <2>1, <2>2, <2>3
<1> HIDE DEF w
<1>6. /\ m \in ECB /\ m.type = s.ev[g].type /\ m.pip = s.ev[g].pip /\ m.cnt = s.ev[g].cnt
      /\ m.ptr = s.ev[g].ptr /\ m.wait = w
  <2> HIDE DEF g
  <2> QED BY <1>3, <1>4 DEF ECB
<1>7. /\ k \in TCB /\ k.prio = s.tcb[c].prio /\ k.stat = {} /\ k.pend = "ok" /\ k.dly = 0
      /\ k.event = Nil /\ k.in = "no"
  <2> HIDE DEF c
  <2> QED BY <1>1 DEF TCB
<1> HIDE DEF k, m, c, g
<1>8. E \in [Event -> ECB] /\ E[g] = m /\ \A f \in Event : f # g => E[f] = s.ev[f]
  BY <1>2, <1>3, <1>6
<1> HIDE DEF E
<1>9. \A e \in Event : /\ E[e].type = s.ev[e].type /\ E[e].pip = s.ev[e].pip
                       /\ E[e].cnt = s.ev[e].cnt /\ E[e].ptr = s.ev[e].ptr
                       /\ \A p : p # s.tcb[c].prio => (p \in E[e].wait <=> p \in s.ev[e].wait)
                       /\ E[e].wait \subseteq s.ev[e].wait
  BY <1>4, <1>6, <1>8
<1>10. OneTask(s, u, c) /\ Fields(s, u, c, k, E, s.rdy, s.grp)
  BY <1>1, <1>3, <1>7, <1>8, <1>9, OneFields
<1> HIDE DEF u
<1>11. /\ OneTask(s, u, c) /\ u.tcb[c] = k /\ u.ev = E /\ u.rdy = s.rdy /\ u.grp = s.grp
       /\ u.tbl = s.tbl
       /\ u.cur = s.cur /\ u.prioCur = s.prioCur /\ u.lock = s.lock /\ u.defer = s.defer
  BY <1>10 DEF Fields
<1>12. TaskOK(u, c)
  <2>1. StatOK(u, k)  BY <1>7 DEF StatOK
  <2>2. Able(k) /\ ~Still(k)  BY <1>7 DEF Able, Still
  <2>3. \A f \in Event : s.tcb[c].prio \in s.ev[f].wait <=> WaitsFor(s.tcb[c], f)
    BY <1>1 DEF TaskOK
  <2>4. ASSUME NEW f \in Event PROVE s.tcb[c].prio \notin u.ev[f].wait
    <3>1. CASE f # g  BY <1>8, <1>11, <2>3, <3>1 DEF WaitsFor, g
    <3>2. CASE f = g /\ s.tcb[c].pend = "to"  BY <1>6, <1>8, <1>11, <3>2 DEF w
    <3>3. CASE f = g /\ s.tcb[c].pend # "to"
      <4>1. ~Still(s.tcb[c])  BY <1>1, <3>3 DEF Still
      <4>2. w = s.ev[g].wait  BY <3>3 DEF w
      <4> QED BY <1>6, <1>8, <1>11, <2>3, <3>3, <4>1, <4>2 DEF WaitsFor
    <3> QED BY <3>1, <3>2, <3>3
  <2>5. c \notin u.grp.wait  BY <1>1, <1>11 DEF TaskOK, WaitsFlag
  <2> QED BY <1>1, <1>7, <1>11, <2>1, <2>2, <2>4, <2>5 DEF TaskOK, WaitsFor, WaitsFlag
<1>13. \A e \in Event : Holds(u.tcb[c], e)  BY <1>7, <1>11 DEF Holds
<1>14. GroupOK(u)
  <2>1. GroupOK(s)  BY <1>1 DEF Base, Awaits
  <2>2. c \notin s.grp.wait  BY <1>1 DEF TaskOK, WaitsFlag
  <2>3. \A x \in s.grp.wait : u.tcb[x] = s.tcb[x]
    BY <1>3, <1>11, <2>2 DEF OneTask, Group
  <2> QED BY <1>11, <2>1, <2>3, GroupKept
<1>15. Base(u)  BY <1>1, <1>9, <1>11, <1>12, <1>13, <1>14, OneBase
<1>16. u.list = s.list /\ u.tcb[s.cur].prio = s.tcb[s.cur].prio  BY <1>11 DEF OneTask, c
<1>17. KInv(u)  BY <1>11, <1>15, <1>16, StillRuns
<1> QED BY <1>5, <1>17

(* OSTimeDly.                                                              *)
LEMMA TimeDlyOK ==
    ASSUME NEW s, KInv(s), s.lock = 0, s.cur \in Task, Cur(s).in = "no", NEW d \in Nat, d > 0
    PROVE  KInv(OSTimeDly(s, d))
<1> DEFINE c == s.cur
           p == s.tcb[c].prio
           k == [s.tcb[c] EXCEPT !.dly = d]
           R == s.rdy \ {p}
           u == Changed(s, c, k, s.ev, R, s.grp)
<1>1. /\ Base(s) /\ CurOK(s) /\ s \in KState /\ c \in s.list /\ TaskOK(s, c) /\ s.tcb[c] \in TCB
      /\ s.tcb[c].stat = {} /\ s.tcb[c].dly = 0 /\ s.tcb[c].in = "no" /\ c \in Task \cup {Idle}
      /\ c # Idle /\ p = s.prioCur /\ s.prioCur \in s.rdy
  BY CurIs, OsCoreAssumption DEF Cur, KInv, CurOK
<1>2. s.ev \in [Event -> ECB] /\ s.grp \in Group /\ R \in SUBSET Prio
  BY <1>1 DEF KState
<1>3. OSTimeDly(s, d) = OS_Sched(u)
  <2>1. OSTimeDly(s, d) = OS_Sched([s EXCEPT !.tcb[c].dly = d, !.rdy = @ \ {p}])
    BY Zenon DEF OSTimeDly, Cur
  <2> HIDE DEF c, p
  <2>2. [s EXCEPT !.tcb[c].dly = d, !.rdy = @ \ {p}] = u
    BY <1>1, <1>2 DEF KState, Changed
  <2> QED BY <2>1, <2>2
<1>4. /\ k \in TCB /\ k.prio = p /\ k.stat = {} /\ k.pend = s.tcb[c].pend /\ k.dly = d
      /\ k.event = s.tcb[c].event /\ k.in = "no"
  <2> HIDE DEF c
  <2> QED BY <1>1 DEF TCB
<1> HIDE DEF k, c
<1>5. \A x : x # p => (x \in R <=> x \in s.rdy)  OBVIOUS
<1> HIDE DEF R
<1>6. OneTask(s, u, c) /\ Fields(s, u, c, k, s.ev, R, s.grp)
  BY <1>1, <1>2, <1>4, <1>5, OneFields
<1> HIDE DEF u, p
<1>7. /\ OneTask(s, u, c) /\ u.tcb[c] = k /\ u.ev = s.ev /\ u.rdy = R /\ u.grp = s.grp
      /\ u.tbl = s.tbl /\ u.prioCur = s.prioCur /\ u.lock = s.lock
  BY <1>6 DEF Fields
<1>8. TaskOK(u, c)
  <2>1. StatOK(u, k)  BY <1>1, <1>4 DEF TaskOK, StatOK
  <2>2. ~Able(k) /\ p \notin R  BY <1>4 DEF Able, R
  <2>3. ~Still(k)  BY <1>1, <1>4, <2>1 DEF Still, StatOK
  <2>4. \A f \in Event : p \notin s.ev[f].wait
    BY <1>1 DEF TaskOK, WaitsFor, p
  <2>5. c \notin u.grp.wait  BY <1>1, <1>7 DEF TaskOK, WaitsFlag
  <2>6. u.tbl[p] = c  BY <1>1, <1>7 DEF TaskOK, p
  <2> QED BY <1>4, <1>7, <2>1, <2>2, <2>3, <2>4, <2>5, <2>6
    DEF TaskOK, WaitsFor, WaitsFlag
<1>9. \A e \in Event : Holds(u.tcb[c], e)
  BY <1>1, <1>4, <1>7 DEF Holds, TaskOK, StatOK
<1>10. GroupOK(u)
  <2>1. GroupOK(s)  BY <1>1 DEF Base, Awaits
  <2>2. c \notin s.grp.wait  BY <1>1 DEF TaskOK, WaitsFlag
  <2>3. \A x \in s.grp.wait : u.tcb[x] = s.tcb[x]
    BY <1>2, <1>7, <2>2 DEF OneTask, Group
  <2> QED BY <1>7, <2>1, <2>3, GroupKept
<1>11. Base(u)  BY <1>1, <1>7, <1>8, <1>9, <1>10, OneBase
<1>12. u.rdy = s.rdy \ {s.prioCur}  BY <1>1, <1>7 DEF R
<1> QED BY <1>1, <1>3, <1>7, <1>11, <1>12, CurLeaves

(* Fewer tasks are ready and the running one still is.                     *)
LEMMA RunsStill ==
    ASSUME NEW s, KInv(s), NEW u, Base(u), u.cur = s.cur, u.prioCur = s.prioCur, u.lock = s.lock,
           u.defer = s.defer, u.rdy \subseteq s.rdy, s.prioCur \in u.rdy, u.list = s.list,
           u.tcb[s.cur].prio = s.tcb[s.cur].prio
    PROVE  KInv(u)
<1>1. CurOK(u)  BY DEF KInv, CurOK
<1>2. Runs(u)
  <2>1. SUFFICES ASSUME s.lock = 0, ~s.defer PROVE s.prioCur = Highest(u.rdy)  BY DEF Runs
  <2>2. s.prioCur = Highest(s.rdy) /\ Base(s)  BY <2>1 DEF KInv, Runs
  <2>3. \A q \in s.rdy : s.prioCur <= q  BY <2>2, LowestReady
  <2>4. u.rdy \in SUBSET Prio  BY DEF Base, KState
  <2> QED BY <2>3, <2>4, HighestIs
<1> QED BY <1>1, <1>2 DEF KInv

(* A priority names the task there, or the owner of a mutex.               *)
LEMMA Named ==
    ASSUME NEW s, Base(s), NEW p \in Prio, p < Lowest, Exists(s, p)
    PROVE  /\ s.tbl[p] \in s.list /\ s.tbl[p] \in Task /\ s.tbl[p] # Idle
           /\ s.tcb[s.tbl[p]] \in TCB /\ TaskOK(s, s.tbl[p])
           /\ (\A e \in Event : s.ev[e].type = "mutex" => s.ev[e].ptr # s.tbl[p]) =>
                    s.tcb[s.tbl[p]].prio = p
<1>1. Home(s, p) \/ Lent(s, p)  BY DEF Base, Mutual, Slots, Exists
<1>2. s \in KState /\ Tables(s)  BY DEF Base
<1>3. s.tbl[p] \in s.list /\ s.tbl[p] \in Task
  <2>1. CASE Home(s, p)
    <3>1. s.tbl[p] # Idle
      <4>1. s.tcb[Idle].prio = Lowest  BY <1>2 DEF Tables, Fresh
      <4>2. p \in Int /\ Lowest \in Int  BY OsCoreAssumption DEF Prio
      <4> QED BY <2>1, <4>1, <4>2 DEF Home
    <3> QED BY <1>2, <2>1, <3>1 DEF Home, KState
  <2>2. CASE Lent(s, p)
    <3>1. PICK e \in Event : s.ev[e].type = "mutex" /\ s.ev[e].ptr = s.tbl[p]
      BY <2>2 DEF Lent
    <3>2. s.ev[e].ptr # Nil  BY <3>1 DEF Exists
    <3>3. OwnerOK(s, e)  BY <3>1, <3>2 DEF Base, Mutual, MutexOK
    <3> QED BY <3>1, <3>3 DEF OwnerOK
  <2> QED BY <1>1, <2>1, <2>2
<1>4. s.tbl[p] # Idle  BY <1>3, OsCoreAssumption
<1>5. s.tcb[s.tbl[p]] \in TCB /\ TaskOK(s, s.tbl[p])  BY <1>2, <1>3 DEF KState, Tables
<1>6. ASSUME \A e \in Event : s.ev[e].type = "mutex" => s.ev[e].ptr # s.tbl[p]
      PROVE  s.tcb[s.tbl[p]].prio = p
  BY <1>1, <1>6 DEF Home, Lent
<1> QED BY <1>3, <1>4, <1>5, <1>6

(* The flag group is as it was but for the task t, which has not come to   *)
(* wait.                                                                   *)
LEMMA OneGroup ==
    ASSUME NEW s, Base(s), NEW u, NEW t, OneTask(s, u, t), u.grp.type = s.grp.type,
           u.grp.quiet = s.grp.quiet, u.grp.flags = s.grp.flags, u.grp.wait \subseteq s.grp.wait,
           "flag" \in u.tcb[t].stat => "flag" \in s.tcb[t].stat, u.tcb[t].node = s.tcb[t].node
    PROVE  GroupOK(u)
<1>1. GroupOK(s)  BY DEF Base, Awaits
<1>2. \A x \in u.grp.wait : "flag" \in u.tcb[x].stat =>
                "flag" \in s.tcb[x].stat /\ u.tcb[x].node = s.tcb[x].node
  BY DEF OneTask, Base, KState, Group
<1> QED BY <1>1, <1>2, GroupKept

-----------------------------------------------------------------------------
(* OSTaskSuspend, of a task that owns no mutex and waits for none.         *)
LEMMA TaskSuspendOK ==
    ASSUME NEW s, KInv(s), NEW p \in Prio, p < Lowest, Exists(s, p),
           s.tbl[p] = s.cur => s.lock = 0,
           \A e \in Event : s.ev[e].type = "mutex" => s.ev[e].ptr # s.tbl[p] /\ s.tcb[s.tbl[p]].event # e
    PROVE  KInv(OSTaskSuspend(s, p))
<1> DEFINE t == s.tbl[p]
           q == s.tcb[t].prio
           z == s.tcb[t].stat \cup {"suspend"}
           k == [s.tcb[t] EXCEPT !.stat = z]
           R == s.rdy \ {q}
           u == Changed(s, t, k, s.ev, R, s.grp)
<1>1. /\ Base(s) /\ CurOK(s) /\ s \in KState /\ t \in s.list /\ TaskOK(s, t) /\ s.tcb[t] \in TCB
      /\ t \in Task \cup {Idle} /\ t # Idle /\ q = p
  BY Named DEF KInv, Base
<1>2. s.ev \in [Event -> ECB] /\ s.grp \in Group /\ R \in SUBSET Prio
  BY <1>1 DEF KState
<1>3. OSTaskSuspend(s, p) = IF p = s.tcb[s.cur].prio THEN OS_Sched(u) ELSE u
  <2> DEFINE v == [s EXCEPT !.tcb[t].stat = @ \cup {"suspend"}, !.rdy = @ \ {q}]
  <2>1. OSTaskSuspend(s, p) = IF p = s.tcb[s.cur].prio THEN OS_Sched(v) ELSE v
    BY Zenon DEF OSTaskSuspend, Cur
  <2>2. v = u
    <3> HIDE DEF t, q
    <3> QED BY <1>1, <1>2 DEF KState, Changed
  <2> HIDE DEF v
  <2> QED BY <2>1, <2>2
<1>4. z \in SUBSET (Pending \cup {"suspend"})  BY <1>1 DEF TCB
<1>5. /\ k \in TCB /\ k.prio = q /\ k.stat = z /\ k.pend = s.tcb[t].pend /\ k.dly = s.tcb[t].dly
      /\ k.event = s.tcb[t].event /\ k.in = s.tcb[t].in /\ k.node = s.tcb[t].node
  <2> HIDE DEF t, z
  <2> QED BY <1>1, <1>4 DEF TCB
<1>6. z \cap Pending = s.tcb[t].stat \cap Pending /\ "suspend" \in z
  BY DEF Pending
<1> HIDE DEF k, z
<1>7. \A x : x # q => (x \in R <=> x \in s.rdy)  OBVIOUS
<1> HIDE DEF R, t
<1>8. OneTask(s, u, t) /\ Fields(s, u, t, k, s.ev, R, s.grp)
  BY <1>1, <1>2, <1>5, <1>7, OneFields
<1> HIDE DEF u, q
<1>9. /\ u.tcb[t] = k /\ u.ev = s.ev /\ u.rdy = R /\ u.grp = s.grp /\ u.list = s.list /\ u.cur = s.cur
      /\ u.tbl = s.tbl /\ u.prioCur = s.prioCur /\ u.lock = s.lock /\ u.defer = s.defer
  BY <1>8 DEF Fields
<1>10. Still(k) <=> Still(s.tcb[t])  BY <1>5, <1>6 DEF Still
<1>11. TaskOK(u, t)
  <2>1. StatOK(u, k)
    <3>1. StatOK(s, s.tcb[t])  BY <1>1 DEF TaskOK
    <3>2. k.in = "no" => k.stat \subseteq {"suspend"}  BY <1>5, <3>1 DEF StatOK, z
    <3> QED BY <1>5, <1>6, <1>9, <3>1, <3>2 DEF StatOK
  <2>2. ~Able(k) /\ q \notin R  BY <1>5, <1>6 DEF Able, R
  <2>3. \A f \in Event : WaitsFor(k, f) <=> WaitsFor(s.tcb[t], f)
    BY <1>5, <1>10 DEF WaitsFor
  <2>4. WaitsFlag(k) <=> WaitsFlag(s.tcb[t])  BY <1>5, <1>10 DEF WaitsFlag
  <2>5. \A f \in Event : u.ev[f].type = "mutex" => ~WaitsFor(k, f)
    BY <1>5, <1>9 DEF WaitsFor, t
  <2>6. \A f \in Event : q \in s.ev[f].wait <=> WaitsFor(s.tcb[t], f)
    BY <1>1 DEF TaskOK, q
  <2>7. t \in s.grp.wait <=> WaitsFlag(s.tcb[t])  BY <1>1 DEF TaskOK
  <2>8. u.tbl[q] = t  BY <1>1, <1>9 DEF TaskOK, q
  <2> QED BY <1>5, <1>9, <2>1, <2>2, <2>3, <2>4, <2>5, <2>6, <2>7, <2>8 DEF TaskOK
<1>12. \A e \in Event : s.ev[e].type = "mutex" => s.ev[e].ptr # t  BY DEF t
<1>13. "flag" \in k.stat => "flag" \in s.tcb[t].stat  BY <1>5 DEF z
<1>14. GroupOK(u)  BY <1>1, <1>5, <1>8, <1>9, <1>13, OneGroup
<1>15. Base(u)  BY <1>1, <1>8, <1>9, <1>11, <1>12, <1>14, OneBase
<1>16. s.tcb[s.cur].prio = s.prioCur /\ s.prioCur \in s.rdy /\ Tables(s)
  BY <1>1 DEF CurOK, Base
<1>17. CASE p = s.tcb[s.cur].prio
  <2>1. t = s.cur  BY <1>1, <1>16, <1>17, OnePrio DEF CurOK, q
  <2>2. u.rdy = s.rdy \ {s.prioCur} /\ s.lock = 0
    BY <1>1, <1>9, <1>16, <1>17, <2>1 DEF R, t
  <2>3. KInv(OS_Sched(u))  BY <1>1, <1>9, <1>15, <2>2, CurLeaves
  <2> QED BY <1>3, <1>17, <2>3
<1>18. CASE p # s.tcb[s.cur].prio
  <2>1. t # s.cur  BY <1>1, <1>18 DEF q
  <2>2. u.tcb[s.cur].prio = s.tcb[s.cur].prio  BY <1>1, <1>8, <2>1 DEF OneTask, KState
  <2>3. u.rdy \subseteq s.rdy /\ s.prioCur \in u.rdy  BY <1>1, <1>9, <1>16, <1>18 DEF R
  <2>4. KInv(u)  BY <1>9, <1>15, <2>2, <2>3, RunsStill
  <2> QED BY <1>3, <1>18, <2>4
<1> QED BY <1>17, <1>18

(* OSTaskResume.                                                           *)
LEMMA TaskResumeOK ==
    ASSUME NEW s, KInv(s), NEW p \in Prio, p < Lowest, Exists(s, p)
    PROVE  KInv(OSTaskResume(s, p))
<1> DEFINE t == s.tbl[p]
           q == s.tcb[t].prio
           z == s.tcb[t].stat \ {"suspend"}
           k == [s.tcb[t] EXCEPT !.stat = z]
           ready == z = {} /\ s.tcb[t].dly = 0
           R == IF ready THEN s.rdy \cup {q} ELSE s.rdy
           u == Changed(s, t, k, s.ev, R, s.grp)
<1>1. /\ Base(s) /\ CurOK(s) /\ s \in KState /\ t \in s.list /\ TaskOK(s, t) /\ s.tcb[t] \in TCB
      /\ t \in Task \cup {Idle} /\ t # Idle
  BY Named DEF KInv, Base
<1>2. SUFFICES ASSUME "suspend" \in s.tcb[t].stat PROVE KInv(OSTaskResume(s, p))
  BY DEF OSTaskResume
<1>3. s.ev \in [Event -> ECB] /\ s.grp \in Group /\ R \in SUBSET Prio
  BY <1>1 DEF KState, TCB
<1>4. OSTaskResume(s, p) = IF ready THEN OS_Sched(u) ELSE u
  <2> DEFINE v == [s EXCEPT !.tcb[t].stat = @ \ {"suspend"}]
  <2>1. OSTaskResume(s, p) = IF v.tcb[t].stat = {} /\ s.tcb[t].dly = 0
                             THEN OS_Sched([v EXCEPT !.rdy = @ \cup {q}]) ELSE v
    BY <1>2, Zenon DEF OSTaskResume
  <2>2. v.tcb[t].stat = z /\ v.rdy = s.rdy
    <3> HIDE DEF t
    <3> QED BY <1>1, <1>3 DEF KState, TCB
  <2>3. [v EXCEPT !.rdy = @ \cup {q}] = [s EXCEPT !.tcb[t].stat = z, !.rdy = s.rdy \cup {q}]
    <3> HIDE DEF t, q
    <3> QED BY <1>1, <1>3, <2>2 DEF KState
  <2>4. CASE ready
    <3>1. R = s.rdy \cup {q}  BY <2>4
    <3> HIDE DEF t, q, R, z
    <3>2. [s EXCEPT !.tcb[t].stat = z, !.rdy = s.rdy \cup {q}] = u
      BY <1>1, <1>3, <3>1 DEF KState, Changed
    <3> HIDE DEF u, v
    <3> QED BY <2>1, <2>2, <2>3, <2>4, <3>2
  <2>5. CASE ~ready
    <3>1. R = s.rdy  BY <2>5
    <3> HIDE DEF t, q, R
    <3>2. v = u  BY <1>1, <1>3, <3>1 DEF KState, Changed
    <3> HIDE DEF u, v, z
    <3> QED BY <2>1, <2>2, <2>5, <3>2
  <2> QED BY <2>4, <2>5
<1>5. z \in SUBSET (Pending \cup {"suspend"})  BY <1>1 DEF TCB
<1>6. /\ k \in TCB /\ k.prio = q /\ k.stat = z /\ k.pend = s.tcb[t].pend /\ k.dly = s.tcb[t].dly
      /\ k.event = s.tcb[t].event /\ k.in = s.tcb[t].in /\ k.node = s.tcb[t].node
  <2> HIDE DEF t, z
  <2> QED BY <1>1, <1>5 DEF TCB
<1>7. z \cap Pending = s.tcb[t].stat \cap Pending /\ "suspend" \notin z
  BY DEF Pending
<1> HIDE DEF k, z
<1>8. \A x : x # q => (x \in R <=> x \in s.rdy)  OBVIOUS
<1>9. s.rdy \subseteq R /\ (ready => q \in R) /\ (~ready => R = s.rdy)  OBVIOUS
<1> HIDE DEF R, t
<1>10. OneTask(s, u, t) /\ Fields(s, u, t, k, s.ev, R, s.grp)
  BY <1>1, <1>3, <1>6, <1>8, OneFields
<1> HIDE DEF u, q
<1>11. /\ u.tcb[t] = k /\ u.ev = s.ev /\ u.rdy = R /\ u.grp = s.grp /\ u.list = s.list /\ u.cur = s.cur
       /\ u.tbl = s.tbl /\ u.prioCur = s.prioCur /\ u.lock = s.lock /\ u.defer = s.defer
  BY <1>10 DEF Fields
<1>12. Still(k) <=> Still(s.tcb[t])  BY <1>6, <1>7 DEF Still
<1>13. TaskOK(u, t)
  <2>1. StatOK(u, k)
    <3>1. StatOK(s, s.tcb[t])  BY <1>1 DEF TaskOK
    <3>2. k.in = "no" => k.stat \subseteq {"suspend"}  BY <1>6, <3>1 DEF StatOK, z
    <3> QED BY <1>6, <1>7, <1>11, <3>1, <3>2 DEF StatOK
  <2>2. q \in R <=> Able(k)
    <3>1. q \notin s.rdy  BY <1>2, <1>1 DEF TaskOK, Able, q
    <3>2. Able(k) <=> ready  BY <1>6 DEF Able
    <3> QED BY <1>9, <3>1, <3>2
  <2>3. \A f \in Event : WaitsFor(k, f) <=> WaitsFor(s.tcb[t], f)
    BY <1>6, <1>12 DEF WaitsFor
  <2>4. WaitsFlag(k) <=> WaitsFlag(s.tcb[t])  BY <1>6, <1>12 DEF WaitsFlag
  <2>5. \A f \in Event : u.ev[f].type = "mutex" => ~WaitsFor(k, f)
    BY <1>2, <1>1, <1>11, <2>3 DEF TaskOK
  <2>6. \A f \in Event : q \in s.ev[f].wait <=> WaitsFor(s.tcb[t], f)
    BY <1>1 DEF TaskOK, q
  <2>7. t \in s.grp.wait <=> WaitsFlag(s.tcb[t])  BY <1>1 DEF TaskOK
  <2>8. u.tbl[q] = t  BY <1>1, <1>11 DEF TaskOK, q
  <2> QED BY <1>6, <1>11, <2>1, <2>2, <2>3, <2>4, <2>5, <2>6, <2>7, <2>8 DEF TaskOK
<1>14. \A e \in Event : ~Holds(s.tcb[t], e)  BY <1>2 DEF Holds
<1>15. "flag" \in k.stat => "flag" \in s.tcb[t].stat  BY <1>6 DEF z
<1>16. GroupOK(u)  BY <1>1, <1>6, <1>10, <1>11, <1>15, OneGroup
<1>17. Base(u)  BY <1>1, <1>10, <1>11, <1>13, <1>14, <1>16, OneBase
<1>18. u.tcb[s.cur].prio = s.tcb[s.cur].prio
  BY <1>1, <1>10 DEF OneTask, KState
<1>19. CurOK(u)  BY <1>1, <1>11, <1>18, <1>9 DEF CurOK
<1>20. CASE ready
  <2>1. KInv(OS_Sched(u))  BY <1>17, <1>19, CurStays
  <2> QED BY <1>4, <1>20, <2>1
<1>21. CASE ~ready
  <2>1. u.rdy = s.rdy  BY <1>11, <1>21, <1>9
  <2>2. KInv(u)  BY <1>11, <1>17, <1>18, <2>1, StillRuns
  <2> QED BY <1>4, <1>21, <2>2
<1> QED BY <1>20, <1>21

(* The delay of a task ends.                                               *)
LEMMA TimedOut ==
    ASSUME NEW s, NEW u, NEW t, TaskOK(s, t), s.tcb[t] \in TCB, s.tcb[t].dly # 0,
           u.tbl = s.tbl, u.ev = s.ev, u.grp = s.grp,
           u.tcb[t].prio = s.tcb[t].prio, u.tcb[t].in = s.tcb[t].in, u.tcb[t].dly = 0,
           u.tcb[t].event = s.tcb[t].event, u.tcb[t].stat = s.tcb[t].stat \ Pending,
           u.tcb[t].pend = (IF s.tcb[t].stat \cap Pending # {} THEN "to" ELSE "ok"),
           s.tcb[t].prio \in u.rdy <=> "suspend" \notin s.tcb[t].stat
    PROVE  TaskOK(u, t)
<1>1. StatOK(s, s.tcb[t])  BY DEF TaskOK
<1>2. s.tcb[t].stat \subseteq Pending \cup {"suspend"}  BY DEF TCB
<1>3. u.tcb[t].stat \cap Pending = {} /\ u.tcb[t].stat \subseteq {"suspend"}  BY <1>2
<1>4. s.tcb[t].in # "no" => Still(u.tcb[t]) /\ Still(s.tcb[t])
  <2>1. s.tcb[t].in # "no" => s.tcb[t].stat \cap Pending # {}  BY <1>1 DEF StatOK
  <2> QED BY <2>1 DEF Still
<1>5. s.tcb[t].in = "no" => u.tcb[t].pend = "ok"
  <2>1. s.tcb[t].in = "no" => s.tcb[t].stat \subseteq {"suspend"}  BY <1>1 DEF StatOK
  <2>2. s.tcb[t].in = "no" => s.tcb[t].stat \cap Pending = {}  BY <2>1 DEF Pending
  <2> QED BY <2>2
<1>6. StatOK(u, u.tcb[t])  BY <1>1, <1>3, <1>5 DEF StatOK
<1>7. Able(u.tcb[t]) <=> "suspend" \notin s.tcb[t].stat
  <2>1. "suspend" \in u.tcb[t].stat <=> "suspend" \in s.tcb[t].stat  BY DEF Pending
  <2>2. u.tcb[t].stat = {} <=> "suspend" \notin u.tcb[t].stat  BY <1>3
  <2> QED BY <2>1, <2>2 DEF Able
<1>8. \A f \in Event : WaitsFor(u.tcb[t], f) <=> WaitsFor(s.tcb[t], f)
  BY <1>4 DEF WaitsFor
<1>9. WaitsFlag(u.tcb[t]) <=> WaitsFlag(s.tcb[t])  BY <1>4 DEF WaitsFlag
<1>10. \A e \in Event : WaitsFor(u.tcb[t], e) /\ u.ev[e].type = "mutex" =>
            u.tcb[t].prio > u.ev[e].pip /\ "suspend" \notin u.tcb[t].stat
  BY <1>8 DEF TaskOK
<1> QED BY <1>6, <1>7, <1>8, <1>9, <1>10 DEF TaskOK

(* OSTimeDlyResume.                                                        *)
LEMMA TimeDlyResumeOK ==
    ASSUME NEW s, KInv(s), NEW p \in Prio, p < Lowest, Exists(s, p)
    PROVE  KInv(OSTimeDlyResume(s, p))
<1> DEFINE t == s.tbl[p]
           q == s.tcb[t].prio
           z == s.tcb[t].stat \ Pending
           r == IF s.tcb[t].stat \cap Pending # {} THEN "to" ELSE "ok"
           k == [s.tcb[t] EXCEPT !.dly = 0, !.stat = z, !.pend = r]
           asleep == "suspend" \in s.tcb[t].stat
           R == IF asleep THEN s.rdy ELSE s.rdy \cup {q}
           u == Changed(s, t, k, s.ev, R, s.grp)
<1>1. /\ Base(s) /\ CurOK(s) /\ s \in KState /\ t \in s.list /\ TaskOK(s, t) /\ s.tcb[t] \in TCB
      /\ t \in Task \cup {Idle} /\ t # Idle
  BY Named DEF KInv, Base
<1>2. SUFFICES ASSUME s.tcb[t].dly # 0 PROVE KInv(OSTimeDlyResume(s, p))
  BY DEF OSTimeDlyResume
<1>3. s.ev \in [Event -> ECB] /\ s.grp \in Group /\ R \in SUBSET Prio
  BY <1>1 DEF KState, TCB
<1>4. OSTimeDlyResume(s, p) = IF asleep THEN u ELSE OS_Sched(u)
  <2> DEFINE v == [s EXCEPT !.tcb[t] = [@ EXCEPT !.dly = 0, !.stat = s.tcb[t].stat \ Pending,
                      !.pend = IF s.tcb[t].stat \cap Pending # {} THEN "to" ELSE "ok"]]
  <2>1. OSTimeDlyResume(s, p) = IF asleep THEN v ELSE OS_Sched([v EXCEPT !.rdy = @ \cup {q}])
    BY <1>2, Zenon DEF OSTimeDlyResume
  <2>2. v = [s EXCEPT !.tcb[t] = k]  OBVIOUS
  <2> HIDE DEF k, z, r, v, t, q
  <2>3. v.rdy = s.rdy  BY <1>1, <2>2 DEF KState
  <2>4. [v EXCEPT !.rdy = @ \cup {q}] = [s EXCEPT !.tcb[t] = k, !.rdy = s.rdy \cup {q}]
    BY <1>1, <2>2, <2>3 DEF KState
  <2>5. CASE asleep
    <3>1. R = s.rdy  BY <2>5
    <3> HIDE DEF R
    <3>2. v = u  BY <1>1, <1>3, <2>2, <3>1 DEF KState, Changed
    <3> HIDE DEF u
    <3> QED BY <2>1, <2>5, <3>2
  <2>6. CASE ~asleep
    <3>1. R = s.rdy \cup {q}  BY <2>6
    <3> HIDE DEF R
    <3>2. [s EXCEPT !.tcb[t] = k, !.rdy = s.rdy \cup {q}] = u
      BY <1>1, <1>3, <3>1 DEF KState, Changed
    <3> HIDE DEF u
    <3> QED BY <2>1, <2>4, <2>6, <3>2
  <2> QED BY <2>5, <2>6
<1>5. z \in SUBSET (Pending \cup {"suspend"}) /\ r \in {"ok", "to", "abort"}
  BY <1>1 DEF TCB
<1>6. /\ k \in TCB /\ k.prio = q /\ k.stat = z /\ k.pend = r /\ k.dly = 0
      /\ k.event = s.tcb[t].event /\ k.in = s.tcb[t].in /\ k.node = s.tcb[t].node
  <2> HIDE DEF t, z, r
  <2> QED BY <1>1, <1>5 DEF TCB
<1> HIDE DEF k
<1>7. \A x : x # q => (x \in R <=> x \in s.rdy)  OBVIOUS
<1>8. s.rdy \subseteq R /\ (~asleep => q \in R) /\ (asleep => R = s.rdy)  OBVIOUS
<1> HIDE DEF R, t
<1>9. OneTask(s, u, t) /\ Fields(s, u, t, k, s.ev, R, s.grp)
  BY <1>1, <1>3, <1>6, <1>7, OneFields
<1> HIDE DEF u, q
<1>10. /\ u.tcb[t] = k /\ u.ev = s.ev /\ u.rdy = R /\ u.grp = s.grp /\ u.list = s.list /\ u.cur = s.cur
       /\ u.tbl = s.tbl /\ u.prioCur = s.prioCur /\ u.lock = s.lock /\ u.defer = s.defer
  BY <1>9 DEF Fields
<1>11. q \notin s.rdy  BY <1>2, <1>1 DEF TaskOK, Able, q
<1>12. TaskOK(u, t)
  <2>1. s.tcb[t].prio \in u.rdy <=> "suspend" \notin s.tcb[t].stat
    BY <1>10, <1>11, <1>8 DEF q
  <2>2. u.tcb[t].prio = s.tcb[t].prio /\ u.tcb[t].in = s.tcb[t].in /\ u.tcb[t].dly = 0
        /\ u.tcb[t].event = s.tcb[t].event /\ u.tcb[t].stat = s.tcb[t].stat \ Pending
        /\ u.tcb[t].pend = (IF s.tcb[t].stat \cap Pending # {} THEN "to" ELSE "ok")
    BY <1>6, <1>10 DEF q
  <2> QED BY <1>2, <1>1, <1>10, <2>1, <2>2, TimedOut
<1>13. ASSUME NEW e \in Event, Holds(s.tcb[t], e) PROVE Holds(u.tcb[t], e)
  <2>1. s.tcb[t].stat = {} /\ s.tcb[t].in = "no"  BY <1>2, <1>13 DEF Holds
  <2>2. z = {} /\ r = "ok"  BY <2>1
  <2> QED BY <1>6, <1>10, <2>1, <2>2 DEF Holds
<1>14. "flag" \in k.stat => "flag" \in s.tcb[t].stat  BY <1>6
<1>15. GroupOK(u)  BY <1>1, <1>6, <1>9, <1>10, <1>14, OneGroup
<1>16. Base(u)  BY <1>1, <1>9, <1>10, <1>12, <1>13, <1>15, OneBase
<1>17. u.tcb[s.cur].prio = s.tcb[s.cur].prio
  BY <1>1, <1>9 DEF OneTask, KState
<1>18. CurOK(u)  BY <1>1, <1>10, <1>17, <1>8 DEF CurOK
<1>19. CASE ~asleep
  <2>1. KInv(OS_Sched(u))  BY <1>16, <1>18, CurStays
  <2> QED BY <1>4, <1>19, <2>1
<1>20. CASE asleep
  <2>1. u.rdy = s.rdy  BY <1>10, <1>20, <1>8
  <2>2. KInv(u)  BY <1>10, <1>16, <1>17, <2>1, StillRuns
  <2> QED BY <1>4, <1>20, <2>2
<1> QED BY <1>19, <1>20

-----------------------------------------------------------------------------
(* What OSTimeTick changes.                                                *)
Ticked(s, u) ==
    /\ u \in KState
    /\ u.list = s.list /\ u.tbl = s.tbl /\ u.grp = s.grp /\ u.ev = s.ev /\ u.cur = s.cur
    /\ u.prioCur = s.prioCur /\ u.lock = s.lock /\ u.defer = s.defer
    /\ u.rdy = s.rdy \cup {s.tcb[t].prio : t \in {x \in s.list :
                 s.tcb[x].dly = 1 /\ "suspend" \notin s.tcb[x].stat}}
    /\ \A t \in s.list : s.tcb[t].dly = 0 => u.tcb[t] = s.tcb[t]
    /\ \A t \in s.list : s.tcb[t].dly # 0 =>
         /\ u.tcb[t].prio = s.tcb[t].prio /\ u.tcb[t].in = s.tcb[t].in
         /\ u.tcb[t].event = s.tcb[t].event /\ u.tcb[t].dly = s.tcb[t].dly - 1
         /\ u.tcb[t].node = s.tcb[t].node
         /\ s.tcb[t].dly = 1 =>
             /\ u.tcb[t].stat = s.tcb[t].stat \ Pending
             /\ u.tcb[t].pend = (IF s.tcb[t].stat \cap Pending # {} THEN "to" ELSE "ok")
         /\ s.tcb[t].dly # 1 =>
             /\ u.tcb[t].stat = s.tcb[t].stat
             /\ u.tcb[t].pend = s.tcb[t].pend

(* That is what it does.                                                   *)
LEMMA TickFields ==
    ASSUME NEW s \in KState
    PROVE  Ticked(s, OSTimeTick(s))
<1> DEFINE due == {t \in s.list : s.tcb[t].dly = 1}
           z(t) == s.tcb[t].stat \ (IF t \in due THEN Pending ELSE {})
           r(t) == IF t \notin due THEN s.tcb[t].pend
                   ELSE IF s.tcb[t].stat \cap Pending # {} THEN "to" ELSE "ok"
           K(t) == [s.tcb[t] EXCEPT !.dly = s.tcb[t].dly - 1, !.stat = z(t), !.pend = r(t)]
           T == [t \in Task \cup {Idle} |-> IF t \notin s.list \/ s.tcb[t].dly = 0 THEN s.tcb[t] ELSE K(t)]
           R == s.rdy \cup {s.tcb[t].prio : t \in {x \in due : "suspend" \notin s.tcb[x].stat}}
           u == [s EXCEPT !.tcb = T, !.rdy = R]
<1>1. s.tcb \in [Task \cup {Idle} -> TCB] /\ s.rdy \subseteq Prio /\ s.list \subseteq Task \cup {Idle}
  BY DEF KState
<1>2. OSTimeTick(s) = u
  <2>1. DOMAIN s.tcb = Task \cup {Idle}  BY <1>1
  <2> QED BY <2>1 DEF OSTimeTick
<1>3. ASSUME NEW t \in s.list, s.tcb[t].dly # 0
      PROVE  /\ T[t] \in TCB /\ T[t].prio = s.tcb[t].prio /\ T[t].in = s.tcb[t].in
             /\ T[t].event = s.tcb[t].event /\ T[t].pend = r(t)
             /\ T[t].stat = z(t) /\ T[t].dly = s.tcb[t].dly - 1 /\ T[t].node = s.tcb[t].node
  <2> DEFINE zz == z(t)
             rr == r(t)
             dd == s.tcb[t].dly - 1
             k == [s.tcb[t] EXCEPT !.dly = dd, !.stat = zz, !.pend = rr]
  <2>1. s.tcb[t] \in TCB /\ T[t] = k  BY <1>1, <1>3
  <2>2. zz \in SUBSET (Pending \cup {"suspend"})  BY <2>1 DEF TCB
  <2>3. rr \in {"ok", "to", "abort"}  BY <2>1 DEF TCB
  <2>4. dd \in Nat
    <3>1. s.tcb[t].dly \in Nat  BY <2>1 DEF TCB
    <3> QED BY <1>3, <3>1
  <2> HIDE DEF zz, rr, dd
  <2>5. k \in TCB /\ k.prio = s.tcb[t].prio /\ k.in = s.tcb[t].in /\ k.dly = dd
        /\ k.event = s.tcb[t].event /\ k.pend = rr /\ k.stat = zz /\ k.node = s.tcb[t].node
    BY <2>1, <2>2, <2>3, <2>4 DEF TCB
  <2> QED BY <2>1, <2>5 DEF zz, rr, dd
<1>4. \A t \in Task \cup {Idle} : t \notin s.list \/ s.tcb[t].dly = 0 => T[t] = s.tcb[t]  OBVIOUS
<1>5. T \in [Task \cup {Idle} -> TCB]
  <2>1. \A t \in Task \cup {Idle} : T[t] \in TCB  BY <1>1, <1>3, <1>4
  <2> QED BY <2>1
<1>6. R \in SUBSET Prio  BY <1>1 DEF TCB
<1>7. R = s.rdy \cup {s.tcb[t].prio : t \in {x \in s.list :
                            s.tcb[x].dly = 1 /\ "suspend" \notin s.tcb[x].stat}}
  OBVIOUS
<1>8. ASSUME NEW t \in s.list PROVE
        /\ s.tcb[t].dly = 1 => /\ z(t) = s.tcb[t].stat \ Pending
                               /\ r(t) = (IF s.tcb[t].stat \cap Pending # {} THEN "to" ELSE "ok")
        /\ s.tcb[t].dly # 1 => z(t) = s.tcb[t].stat /\ r(t) = s.tcb[t].pend
  OBVIOUS
<1> HIDE DEF T, R, z, r
<1>9. /\ u \in KState /\ u.tcb = T /\ u.rdy = R
      /\ u.list = s.list /\ u.tbl = s.tbl /\ u.grp = s.grp /\ u.cur = s.cur /\ u.ev = s.ev
      /\ u.prioCur = s.prioCur /\ u.lock = s.lock /\ u.defer = s.defer
  BY <1>5, <1>6 DEF KState
<1> HIDE DEF u
<1>10. \A t \in s.list : s.tcb[t].dly = 0 => u.tcb[t] = s.tcb[t]  BY <1>1, <1>4, <1>9
<1>11. ASSUME NEW t \in s.list, s.tcb[t].dly # 0
       PROVE  /\ u.tcb[t].prio = s.tcb[t].prio /\ u.tcb[t].in = s.tcb[t].in
              /\ u.tcb[t].event = s.tcb[t].event /\ u.tcb[t].dly = s.tcb[t].dly - 1
              /\ u.tcb[t].node = s.tcb[t].node
              /\ s.tcb[t].dly = 1 =>
                  /\ u.tcb[t].stat = s.tcb[t].stat \ Pending
                  /\ u.tcb[t].pend = (IF s.tcb[t].stat \cap Pending # {} THEN "to" ELSE "ok")
              /\ s.tcb[t].dly # 1 =>
                  /\ u.tcb[t].stat = s.tcb[t].stat
                  /\ u.tcb[t].pend = s.tcb[t].pend
  BY <1>3, <1>8, <1>9, <1>11
<1> QED BY <1>2, <1>7, <1>9, <1>10, <1>11 DEF Ticked

(* A task that is delayed, before and after a tick.                        *)
LEMMA TickTask ==
    ASSUME NEW s, Base(s), NEW u, Ticked(s, u), NEW t \in s.list, s.tcb[t].dly # 0
    PROVE  TaskOK(u, t)
<1>1. s \in KState /\ Tables(s) /\ TaskOK(s, t) /\ s.tcb[t] \in TCB
  BY DEF Base, Tables, KState
<1>2. /\ u.tbl = s.tbl /\ u.ev = s.ev /\ u.grp = s.grp
      /\ u.tcb[t].prio = s.tcb[t].prio /\ u.tcb[t].in = s.tcb[t].in
      /\ u.tcb[t].event = s.tcb[t].event /\ u.tcb[t].dly = s.tcb[t].dly - 1
  BY DEF Ticked
<1>3. s.tcb[t].prio \in u.rdy <=> s.tcb[t].dly = 1 /\ "suspend" \notin s.tcb[t].stat
  <2>1. s.tcb[t].prio \notin s.rdy  BY <1>1 DEF TaskOK, Able
  <2>2. u.rdy = s.rdy \cup {s.tcb[x].prio : x \in {y \in s.list :
                            s.tcb[y].dly = 1 /\ "suspend" \notin s.tcb[y].stat}}
    BY DEF Ticked
  <2>3. ASSUME s.tcb[t].prio \in u.rdy PROVE s.tcb[t].dly = 1 /\ "suspend" \notin s.tcb[t].stat
    <3>1. PICK x \in s.list : s.tcb[x].prio = s.tcb[t].prio
                   /\ s.tcb[x].dly = 1 /\ "suspend" \notin s.tcb[x].stat
      BY <2>1, <2>2, <2>3
    <3>2. x = t  BY <1>1, <3>1, OnePrio
    <3> QED BY <3>1, <3>2
  <2> QED BY <2>2, <2>3
<1>4. CASE s.tcb[t].dly = 1
  <2>1. /\ u.tcb[t].stat = s.tcb[t].stat \ Pending /\ u.tcb[t].dly = 0
        /\ u.tcb[t].pend = (IF s.tcb[t].stat \cap Pending # {} THEN "to" ELSE "ok")
    BY <1>2, <1>4 DEF Ticked
  <2> QED BY <1>1, <1>2, <1>3, <1>4, <2>1, TimedOut
<1>5. CASE s.tcb[t].dly # 1
  <2>1. u.tcb[t].stat = s.tcb[t].stat /\ u.tcb[t].pend = s.tcb[t].pend  BY <1>5 DEF Ticked
  <2>2. u.tcb[t].dly # 0
    <3>1. s.tcb[t].dly \in Nat  BY <1>1 DEF TCB
    <3> QED BY <1>2, <1>5, <3>1
  <2>3. Still(u.tcb[t]) <=> Still(s.tcb[t])  BY <2>1 DEF Still
  <2>4. StatOK(u, u.tcb[t])  BY <1>1, <1>2, <2>1 DEF TaskOK, StatOK
  <2>5. ~Able(u.tcb[t]) /\ u.tcb[t].prio \notin u.rdy  BY <1>2, <1>3, <1>5, <2>2 DEF Able
  <2>6. \A f \in Event : WaitsFor(u.tcb[t], f) <=> WaitsFor(s.tcb[t], f)
    BY <1>2, <2>3 DEF WaitsFor
  <2>7. WaitsFlag(u.tcb[t]) <=> WaitsFlag(s.tcb[t])  BY <1>2, <2>3 DEF WaitsFlag
  <2>8. \A e \in Event : WaitsFor(u.tcb[t], e) /\ u.ev[e].type = "mutex" =>
            u.tcb[t].prio > u.ev[e].pip /\ "suspend" \notin u.tcb[t].stat
    BY <1>1, <1>2, <2>1, <2>6 DEF TaskOK
  <2> QED BY <1>1, <1>2, <2>4, <2>5, <2>6, <2>7, <2>8 DEF TaskOK
<1> QED BY <1>4, <1>5

(* All tasks at once.                                                      *)
LEMMA TickBase ==
    ASSUME NEW s, Base(s), NEW u, Ticked(s, u)
    PROVE  Base(u)
<1> DEFINE W == {t \in s.list : s.tcb[t].dly # 0}
           P == {s.tcb[t].prio : t \in W}
<1>1. s \in KState /\ Tables(s) /\ Mutual(s) /\ Awaits(s) /\ u \in KState
  BY DEF Base, Ticked
<1>2. /\ u.list = s.list /\ u.tbl = s.tbl /\ u.grp = s.grp /\ u.ev = s.ev
      /\ \A t \in s.list : u.tcb[t].prio = s.tcb[t].prio
      /\ \A t \in s.list \ W : u.tcb[t] = s.tcb[t]
      /\ \A p : p \notin P => (p \in u.rdy <=> p \in s.rdy)
  <2>1. \A t \in s.list \ W : u.tcb[t] = s.tcb[t]  BY DEF Ticked
  <2>2. \A t \in s.list : u.tcb[t].prio = s.tcb[t].prio  BY DEF Ticked
  <2>3. \A p : p \notin P => (p \in u.rdy <=> p \in s.rdy)  BY DEF Ticked
  <2> QED BY <2>1, <2>2, <2>3 DEF Ticked
<1>3. Idle \notin W /\ W \in SUBSET s.list /\ P = {s.tcb[t].prio : t \in W}
  BY <1>1 DEF Tables, Fresh
<1>4. \A t \in W : TaskOK(u, t)  BY TickTask
<1>5. ASSUME NEW e \in Event, s.ev[e].type = "mutex", s.ev[e].ptr # Nil
      PROVE  Holds(u.tcb[s.ev[e].ptr], e)
  <2> DEFINE t == s.ev[e].ptr
  <2>1. t \in s.list /\ Holds(s.tcb[t], e)
    BY <1>1, <1>5 DEF Mutual, MutexOK, OwnerOK
  <2>2. CASE s.tcb[t].dly = 0  BY <2>1, <2>2 DEF Ticked
  <2>3. CASE s.tcb[t].dly # 0
    <3>1. s.tcb[t].stat = {} /\ s.tcb[t].in = "no" /\ s.tcb[t].pend = "ok"
      BY <2>1, <2>3 DEF Holds
    <3>2. u.tcb[t].stat = {} /\ u.tcb[t].in = "no" /\ u.tcb[t].pend = "ok"
      <4>1. CASE s.tcb[t].dly = 1  BY <2>1, <2>3, <3>1, <4>1 DEF Ticked
      <4>2. CASE s.tcb[t].dly # 1  BY <2>1, <2>3, <3>1, <4>2 DEF Ticked
      <4> QED BY <4>1, <4>2
    <3> QED BY <3>2 DEF Holds
  <2> QED BY <2>2, <2>3
<1>6. \A t \in s.list : u.tcb[t].node = s.tcb[t].node
                        /\ ("flag" \in u.tcb[t].stat => "flag" \in s.tcb[t].stat)
  BY DEF Ticked
<1> HIDE DEF W, P
<1>7. Tables(u)  BY <1>1, <1>2, <1>3, <1>4, TasksChanged
<1>8. Mutual(u)  BY <1>1, <1>2, <1>5, MutualKept
<1>9. ASSUME NEW e \in Event PROVE AwaitOK(u, e)
  <2>1. AwaitOK(s, e)  BY <1>1 DEF Awaits
  <2>2. s.ev[e].type = "mutex" /\ s.ev[e].ptr # Nil =>
                u.tcb[s.ev[e].ptr].prio = s.tcb[s.ev[e].ptr].prio
    BY <1>1, <1>2 DEF Mutual, MutexOK, OwnerOK
  <2> QED BY <1>2, <2>1, <2>2, AwaitKept
<1>10. GroupOK(u)
  <2>1. GroupOK(s) /\ s.grp.wait \subseteq s.list  BY <1>1 DEF Awaits, Tables
  <2> QED BY <1>2, <1>6, <2>1, GroupKept
<1> QED BY <1>1, <1>7, <1>8, <1>9, <1>10 DEF Base, Awaits

(* The tick, and the switch at the end of the interrupt.                   *)
LEMMA TickOK ==
    ASSUME NEW s, KInv(s)
    PROVE  KInv(OSIntExit(OSTimeTick(s)))
<1> DEFINE u == OSTimeTick(s)
<1>1. Base(s) /\ CurOK(s) /\ s \in KState  BY DEF KInv, Base
<1>2. Ticked(s, u)  BY <1>1, TickFields
<1> HIDE DEF u
<1>3. Base(u)  BY <1>1, <1>2, TickBase
<1>4. CurOK(u)
  <2>1. s.tcb[s.cur].dly = 0 /\ s.cur \in s.list  BY <1>1, CurIs
  <2> QED BY <1>1, <1>2, <2>1 DEF CurOK, Ticked
<1>5. KInv(OS_Sched(u))  BY <1>3, <1>4, CurStays
<1> QED BY <1>5 DEF OSIntExit, u

(* OSIntExit after a service.                                              *)
LEMMA IntExitOK ==
    ASSUME NEW s, KInv(s)
    PROVE  KInv(OSIntExit(s))
BY CurStays DEF KInv, OSIntExit

-----------------------------------------------------------------------------
(* Only the flag group changes, and not who waits for it.                  *)
LEMMA GroupChanged ==
    ASSUME NEW s, Base(s), NEW G \in Group, G.wait = s.grp.wait,
           NEW u, u = [s EXCEPT !.grp = G]
    PROVE  /\ GroupOK(u) => Base(u)
           /\ u \in KState /\ Tables(u) /\ Mutual(u) /\ \A e \in Event : AwaitOK(u, e)
           /\ u.tcb = s.tcb /\ u.list = s.list /\ u.rdy = s.rdy /\ u.ev = s.ev
           /\ u.tbl = s.tbl /\ u.grp = G /\ u.cur = s.cur /\ u.prioCur = s.prioCur
           /\ u.lock = s.lock /\ u.defer = s.defer
<1>1. s \in KState /\ Tables(s) /\ Mutual(s) /\ Awaits(s)  BY DEF Base
<1>2. /\ u \in KState /\ u.tcb = s.tcb /\ u.list = s.list /\ u.rdy = s.rdy /\ u.ev = s.ev
      /\ u.tbl = s.tbl /\ u.grp = G /\ u.cur = s.cur /\ u.prioCur = s.prioCur
      /\ u.lock = s.lock /\ u.defer = s.defer
  BY <1>1 DEF KState
<1>3. Tables(u)  BY <1>1, <1>2, EventsChanged
<1>4. Mutual(u)
  <2>1. \A e \in Event : s.ev[e].type = "mutex" /\ s.ev[e].ptr # Nil =>
                                Holds(u.tcb[s.ev[e].ptr], e)
    BY <1>1, <1>2 DEF Mutual, MutexOK, OwnerOK
  <2> QED BY <1>1, <1>2, <2>1, MutualKept
<1>5. ASSUME NEW e \in Event PROVE AwaitOK(u, e)
  <2>1. AwaitOK(s, e)  BY <1>1 DEF Awaits
  <2> QED BY <1>2, <2>1, AwaitKept
<1> QED BY <1>2, <1>3, <1>4, <1>5 DEF Base, Awaits

(* A task consumes flags.                                                  *)
LEMMA ConsumeOK ==
    ASSUME NEW s, KInv(s), NEW n, NEW rdy \in SUBSET Flag
    PROVE  KInv(Consume(s, n, rdy))
<1> DEFINE f == IF n.type \in {"SET_ALL", "SET_ANY"} THEN s.grp.flags \ rdy ELSE s.grp.flags \cup rdy
           G == [s.grp EXCEPT !.quiet = FALSE, !.flags = f]
           u == [s EXCEPT !.grp = G]
<1>1. CASE ~n.consume \/ rdy = {}  BY <1>1 DEF Consume
<1>2. CASE ~(~n.consume \/ rdy = {})
  <2>1. Base(s) /\ s \in KState /\ s.grp \in Group  BY DEF KInv, Base, KState
  <2>2. Consume(s, n, rdy) = u  BY <1>2, Zenon DEF Consume
  <2>3. f \in SUBSET Flag  BY <2>1 DEF Group
  <2> HIDE DEF f
  <2>4. G \in Group /\ G.wait = s.grp.wait /\ G.type = s.grp.type /\ G.quiet = FALSE
    BY <2>1, <2>3 DEF Group
  <2> HIDE DEF G
  <2>5. GroupOK(u)
    <3>1. u.grp = G  BY <2>1 DEF KState
    <3> QED BY <2>1, <2>4, <3>1 DEF GroupOK, Base, Awaits
  <2>6. u = [s EXCEPT !.grp = G]  OBVIOUS
  <2> HIDE DEF u
  <2>7. /\ Base(u) /\ u.tcb = s.tcb /\ u.list = s.list /\ u.rdy = s.rdy
        /\ u.cur = s.cur /\ u.prioCur = s.prioCur /\ u.lock = s.lock /\ u.defer = s.defer
    BY <2>1, <2>4, <2>5, <2>6, GroupChanged
  <2>8. KInv(u)  BY <2>7, StillRuns
  <2> QED BY <2>2, <2>8
<1> QED BY <1>1, <1>2

(* What is ready of the flags a task waits for is flags.                   *)
LEMMA FlagsRdyIn ==
    ASSUME NEW f \in SUBSET Flag, NEW n \in Node
    PROVE  FlagsRdy(f, n) \in SUBSET Flag
BY DEF FlagsRdy, Node

(* OSFlagAccept.                                                           *)
LEMMA FlagAcceptOK ==
    ASSUME NEW s, KInv(s), NEW n \in Node
    PROVE  KInv(OSFlagAccept(s, n))
<1>1. s.grp.flags \in SUBSET Flag  BY DEF KInv, Base, KState, Group
<1>2. KInv(Consume(s, n, FlagsRdy(s.grp.flags, n)))  BY <1>1, FlagsRdyIn, ConsumeOK
<1> QED BY <1>2 DEF OSFlagAccept

(* A group with nobody waiting is created or deleted.                      *)
LEMMA GroupRenewed ==
    ASSUME NEW s, KInv(s), NEW G \in Group, G.wait = s.grp.wait, \A x : x \notin G.wait
    PROVE  KInv([s EXCEPT !.grp = G])
<1> DEFINE u == [s EXCEPT !.grp = G]
<1>1. Base(s) /\ s \in KState  BY DEF KInv, Base
<1>2. GroupOK(u)
  <2>1. u.grp = G  BY <1>1 DEF KState
  <2>2. G.wait = {}  OBVIOUS
  <2> QED BY <2>1, <2>2 DEF GroupOK
<1>3. u = [s EXCEPT !.grp = G]  OBVIOUS
<1> HIDE DEF u
<1>4. /\ Base(u) /\ u.tcb = s.tcb /\ u.list = s.list /\ u.rdy = s.rdy
      /\ u.cur = s.cur /\ u.prioCur = s.prioCur /\ u.lock = s.lock /\ u.defer = s.defer
  BY <1>1, <1>2, <1>3, GroupChanged
<1>5. KInv(u)  BY <1>4, StillRuns
<1> QED BY <1>3, <1>5

(* OSFlagCreate.                                                           *)
LEMMA FlagCreateOK ==
    ASSUME NEW s, KInv(s), s.grp.type = "unused", NEW f \in SUBSET Flag
    PROVE  KInv(OSFlagCreate(s, f))
<1> DEFINE G == [NoGroup EXCEPT !.type = "flag", !.flags = f]
<1>1. G \in Group /\ G.wait = {}  BY DEF Group, NoGroup
<1>2. G.wait = s.grp.wait /\ \A x : x \notin G.wait
  BY <1>1 DEF KInv, Base, Awaits, GroupOK
<1>3. OSFlagCreate(s, f) = [s EXCEPT !.grp = G]  BY DEF OSFlagCreate
<1> HIDE DEF G
<1> QED BY <1>1, <1>2, <1>3, GroupRenewed

(* OS_FlagBlock and OS_Sched.                                              *)
LEMMA FlagBlockOK ==
    ASSUME NEW s, KInv(s), s.lock = 0, s.cur \in Task, Cur(s).in = "no", NEW d \in Nat,
           NEW n \in Node, s.grp.type = "flag", ~Satisfied(s.grp.flags, n),
           \A f \in Event : s.ev[f].type = "mutex" => s.ev[f].ptr # s.cur
    PROVE  KInv(OS_Sched(OS_FlagBlock(s, n, d)))
<1> DEFINE c == s.cur
           p == s.tcb[c].prio
           z == s.tcb[c].stat \cup {"flag"}
           k == [s.tcb[c] EXCEPT !.stat = z, !.pend = "ok", !.dly = d, !.node = n, !.in = "flag"]
           R == s.rdy \ {p}
           w == s.grp.wait \cup {c}
           G == [s.grp EXCEPT !.wait = w]
           u == Changed(s, c, k, s.ev, R, G)
<1>1. /\ Base(s) /\ CurOK(s) /\ s \in KState /\ c \in s.list /\ TaskOK(s, c) /\ s.tcb[c] \in TCB
      /\ s.tcb[c].stat = {} /\ s.tcb[c].dly = 0 /\ s.tcb[c].in = "no" /\ c \in Task \cup {Idle}
      /\ c # Idle /\ p = s.prioCur /\ s.prioCur \in s.rdy
  BY CurIs, OsCoreAssumption DEF Cur, KInv, CurOK
<1>2. s.ev \in [Event -> ECB] /\ s.grp \in Group /\ R \in SUBSET Prio
  BY <1>1 DEF KState
<1>3. OS_FlagBlock(s, n, d) = u
  <2> DEFINE v == [s EXCEPT !.tcb[s.cur] = [@ EXCEPT !.stat = s.tcb[s.cur].stat \cup {"flag"}, !.pend = "ok",
                                       !.dly = d, !.node = n, !.in = "flag"],
                            !.grp.wait = @ \cup {s.cur},
                            !.rdy = @ \ {s.tcb[s.cur].prio}]
  <2>1. OS_FlagBlock(s, n, d) = v  BY Zenon DEF OS_FlagBlock, Cur
  <2>2. v = [s EXCEPT !.tcb[c] = [@ EXCEPT !.stat = z, !.pend = "ok", !.dly = d, !.node = n, !.in = "flag"],
                      !.grp.wait = w, !.rdy = R]
    OBVIOUS
  <2> HIDE DEF c, p, z, v, w, R
  <2>3. v = u  BY <1>1, <1>2, <2>2 DEF KState, Group, Changed
  <2> QED BY <2>1, <2>3
<1>4. z \in SUBSET (Pending \cup {"suspend"}) /\ z = {"flag"}  BY <1>1 DEF Pending
<1>5. /\ k \in TCB /\ k.prio = p /\ k.stat = {"flag"} /\ k.pend = "ok" /\ k.dly = d
      /\ k.event = s.tcb[c].event /\ k.in = "flag" /\ k.node = n
  <2> HIDE DEF c, z
  <2> QED BY <1>1, <1>4 DEF TCB
<1>6. w \in SUBSET (Task \cup {Idle})  BY <1>1, <1>2 DEF Group
<1>7. \A x : x # c => (x \in w <=> x \in s.grp.wait)  OBVIOUS
<1>8. c \in w  OBVIOUS
<1> HIDE DEF w
<1>9. G \in Group /\ G.wait = w /\ G.type = "flag" /\ G.quiet = s.grp.quiet /\ G.flags = s.grp.flags
  BY <1>2, <1>6 DEF Group
<1>10. \A x : x # p => (x \in R <=> x \in s.rdy)  OBVIOUS
<1> HIDE DEF R, G, k, c
<1>11. OneTask(s, u, c) /\ Fields(s, u, c, k, s.ev, R, G)
  BY <1>1, <1>2, <1>5, <1>7, <1>9, <1>10, OneFields
<1> HIDE DEF u, p
<1>12. /\ u.tcb[c] = k /\ u.ev = s.ev /\ u.rdy = R /\ u.grp = G /\ u.tbl = s.tbl
       /\ u.prioCur = s.prioCur /\ u.lock = s.lock
  BY <1>11 DEF Fields
<1>13. TaskOK(u, c)
  <2>1. k.event = Nil  BY <1>1, <1>5 DEF TaskOK, StatOK
  <2>2. Still(k) /\ StatOK(u, k)  BY <1>5, <2>1 DEF Still, StatOK, Pending
  <2>3. ~Able(k) /\ p \notin R  BY <1>5 DEF Able, R
  <2>4. \A f \in Event : p \notin s.ev[f].wait  BY <1>1 DEF TaskOK, WaitsFor, p
  <2>5. u.tbl[p] = c  BY <1>1, <1>12 DEF TaskOK, p
  <2>6. \A f \in Event : ~WaitsFor(k, f)  BY <1>5 DEF WaitsFor
  <2>7. WaitsFlag(k) /\ c \in u.grp.wait  BY <1>5, <1>8, <1>9, <1>12, <2>2 DEF WaitsFlag
  <2> QED BY <1>5, <1>12, <2>2, <2>3, <2>4, <2>5, <2>6, <2>7 DEF TaskOK
<1>14. \A e \in Event : s.ev[e].type = "mutex" => s.ev[e].ptr # c  BY DEF c
<1>15. GroupOK(u)
  <2>1. GroupOK(s)  BY <1>1 DEF Base, Awaits
  <2>2. \A x \in s.grp.wait : x # c => u.tcb[x] = s.tcb[x]
    BY <1>2, <1>11 DEF OneTask, Group
  <2>3. ASSUME s.grp.quiet, NEW x \in w, "flag" \in u.tcb[x].stat
        PROVE  ~Satisfied(s.grp.flags, u.tcb[x].node)
    <3>1. CASE x = c  BY <1>5, <1>12, <3>1
    <3>2. CASE x # c  BY <1>7, <2>1, <2>2, <2>3, <3>2 DEF GroupOK
    <3> QED BY <3>1, <3>2
  <2> QED BY <1>9, <1>12, <2>3 DEF GroupOK
<1>16. Base(u)  BY <1>1, <1>11, <1>12, <1>13, <1>14, <1>15, OneBase
<1>17. u.rdy = s.rdy \ {s.prioCur}  BY <1>1, <1>12 DEF R
<1>18. KInv(OS_Sched(u))  BY <1>1, <1>12, <1>16, <1>17, CurLeaves
<1> QED BY <1>3, <1>18

(* The rest of OSFlagPend.                                                 *)
LEMMA FlagPendReturnsOK ==
    ASSUME NEW s, KInv(s), s.cur \in Task, Cur(s).in = "flag"
    PROVE  KInv(OSFlagPendReturns(s))
<1> DEFINE c == s.cur
           p == s.tcb[c].prio
           k == [s.tcb[c] EXCEPT !.pend = "ok", !.in = "no", !.node = NoNode, !.flagsRdy = {}]
           w == IF s.tcb[c].pend # "ok" THEN s.grp.wait \ {c} ELSE s.grp.wait
           G == [s.grp EXCEPT !.wait = w]
           u == Changed(s, c, k, s.ev, s.rdy, G)
<1>1. /\ Base(s) /\ CurOK(s) /\ s \in KState /\ c \in s.list /\ TaskOK(s, c) /\ s.tcb[c] \in TCB
      /\ s.tcb[c].stat = {} /\ s.tcb[c].dly = 0 /\ s.tcb[c].in = "flag" /\ c \in Task \cup {Idle}
      /\ c # Idle /\ p = s.prioCur /\ s.prioCur \in s.rdy
  BY CurIs, OsCoreAssumption DEF Cur, KInv, CurOK
<1>2. s.ev \in [Event -> ECB] /\ s.grp \in Group /\ s.rdy \in SUBSET Prio
  BY <1>1 DEF KState
<1>3. OSFlagPendReturns(s) = IF s.tcb[c].pend # "ok" THEN u
                             ELSE Consume(u, s.tcb[c].node, s.tcb[c].flagsRdy)
  <2> DEFINE v == [s EXCEPT !.tcb[s.cur] = [@ EXCEPT !.pend = "ok", !.in = "no", !.node = NoNode,
                                                  !.flagsRdy = {}]]
  <2>1. OSFlagPendReturns(s) = IF s.tcb[c].pend # "ok"
            THEN [v EXCEPT !.tcb[c].stat = {}, !.grp.wait = @ \ {c}]
            ELSE Consume(v, s.tcb[c].node, s.tcb[c].flagsRdy)
    BY Zenon DEF OSFlagPendReturns, Cur
  <2>2. v = [s EXCEPT !.tcb[c] = k]  OBVIOUS
  <2>3. k \in TCB /\ k.stat = {}
    <3> HIDE DEF c
    <3>1. NoNode \in Node  BY DEF NoNode, Node
    <3> QED BY <1>1, <3>1 DEF TCB
  <2> DEFINE T == [s.tcb EXCEPT ![c] = k]
  <2> HIDE DEF v
  <2>4. /\ v = [s EXCEPT !.tcb = T] /\ T[c] = k /\ T \in [Task \cup {Idle} -> TCB]
    <3> HIDE DEF k, c
    <3> QED BY <1>1, <2>2, <2>3 DEF KState
  <2>5. [T EXCEPT ![c].stat = {}] = T
    <3>1. [k EXCEPT !.stat = {}] = k
      <4> HIDE DEF k
      <4> QED BY <2>3 DEF TCB
    <3> HIDE DEF k, c, T
    <3> QED BY <1>1, <2>4, <3>1
  <2>6. CASE s.tcb[c].pend # "ok"
    <3>1. w = s.grp.wait \ {c}  BY <2>6
    <3>2. [v EXCEPT !.tcb[c].stat = {}, !.grp.wait = @ \ {c}] = [s EXCEPT !.tcb = T, !.grp = G]
      <4>1. v.grp = s.grp /\ v.tcb = T  BY <1>1, <2>4 DEF KState
      <4> HIDE DEF T, c, w
      <4>2. [v EXCEPT !.tcb[c].stat = {}, !.grp.wait = @ \ {c}] = [v EXCEPT !.tcb = [T EXCEPT ![c].stat = {}],
                            !.grp = G]
        BY <1>1, <2>4, <3>1, <4>1 DEF KState, Group
      <4> QED BY <1>1, <2>4, <2>5, <4>2 DEF KState
    <3>3. [s EXCEPT !.tcb = T, !.grp = G] = u
      <4> HIDE DEF c, k, w, G
      <4> QED BY <1>1 DEF KState, Changed
    <3> HIDE DEF u, v, c, T
    <3> QED BY <2>1, <2>6, <3>2, <3>3
  <2>7. CASE s.tcb[c].pend = "ok"
    <3>1. G = s.grp
      <4>1. w = s.grp.wait  BY <2>7
      <4> HIDE DEF w
      <4> QED BY <1>2, <4>1 DEF Group
    <3>2. v = u
      <4> HIDE DEF c, k, w, G
      <4> QED BY <1>1, <2>4, <3>1 DEF KState, Changed
    <3> HIDE DEF u, v, c
    <3> QED BY <2>1, <2>7, <3>2
  <2> QED BY <2>6, <2>7
<1>4. /\ k \in TCB /\ k.prio = p /\ k.stat = {} /\ k.pend = "ok" /\ k.dly = 0
      /\ k.event = s.tcb[c].event /\ k.in = "no"
  <2> HIDE DEF c
  <2>1. NoNode \in Node  BY DEF NoNode, Node
  <2> QED BY <1>1, <2>1 DEF TCB
<1>5. w \in SUBSET (Task \cup {Idle}) /\ w \subseteq s.grp.wait  BY <1>1, <1>2 DEF Group
<1>6. \A x : x # c => (x \in w <=> x \in s.grp.wait)  OBVIOUS
<1>7. c \notin w
  <2>1. CASE s.tcb[c].pend # "ok"  BY <2>1
  <2>2. CASE s.tcb[c].pend = "ok"
    <3>1. ~Still(s.tcb[c])  BY <1>1, <2>2 DEF Still
    <3> QED BY <1>1, <2>2, <3>1 DEF TaskOK, WaitsFlag
  <2> QED BY <2>1, <2>2
<1> HIDE DEF w
<1>8. G \in Group /\ G.wait = w /\ G.type = s.grp.type /\ G.quiet = s.grp.quiet /\ G.flags = s.grp.flags
  BY <1>2, <1>5 DEF Group
<1> HIDE DEF G, k, c
<1>9. OneTask(s, u, c) /\ Fields(s, u, c, k, s.ev, s.rdy, G)
  BY <1>1, <1>2, <1>4, <1>6, <1>8, OneFields
<1> HIDE DEF u, p
<1>10. /\ u.tcb[c] = k /\ u.ev = s.ev /\ u.rdy = s.rdy /\ u.grp = G /\ u.tbl = s.tbl /\ u.list = s.list
       /\ u.prioCur = s.prioCur /\ u.lock = s.lock /\ u.cur = s.cur /\ u.defer = s.defer
  BY <1>9 DEF Fields
<1>11. TaskOK(u, c)
  <2>1. k.event = Nil  BY <1>1, <1>4 DEF TaskOK, StatOK
  <2>2. ~Still(k) /\ StatOK(u, k)  BY <1>4, <2>1 DEF Still, StatOK
  <2>3. Able(k) /\ p \in s.rdy  BY <1>1, <1>4 DEF Able
  <2>4. \A f \in Event : p \notin s.ev[f].wait  BY <1>1 DEF TaskOK, WaitsFor, p
  <2>5. u.tbl[p] = c  BY <1>1, <1>10 DEF TaskOK, p
  <2>6. \A f \in Event : ~WaitsFor(k, f)  BY <1>4 DEF WaitsFor
  <2>7. ~WaitsFlag(k) /\ c \notin u.grp.wait  BY <1>4, <1>7, <1>8, <1>10 DEF WaitsFlag
  <2> QED BY <1>4, <1>10, <2>2, <2>3, <2>4, <2>5, <2>6, <2>7 DEF TaskOK
<1>12. \A e \in Event : Holds(u.tcb[c], e)  BY <1>4, <1>10 DEF Holds
<1>13. GroupOK(u)
  <2>1. GroupOK(s)  BY <1>1 DEF Base, Awaits
  <2>2. \A x \in u.grp.wait : u.tcb[x] = s.tcb[x]
    BY <1>2, <1>5, <1>7, <1>8, <1>9, <1>10 DEF OneTask, Group
  <2> QED BY <1>5, <1>8, <1>10, <2>1, <2>2, GroupKept
<1>14. Base(u)  BY <1>1, <1>9, <1>10, <1>11, <1>12, <1>13, OneBase
<1>15. u.tcb[s.cur].prio = s.tcb[s.cur].prio  BY <1>4, <1>10 DEF c, p
<1>16. KInv(u)  BY <1>10, <1>14, <1>15, StillRuns
<1>17. s.tcb[c].flagsRdy \in SUBSET Flag  BY <1>1 DEF TCB
<1>18. KInv(Consume(u, s.tcb[c].node, s.tcb[c].flagsRdy))  BY <1>16, <1>17, ConsumeOK
<1> QED BY <1>3, <1>16, <1>18

(* What OS_FlagTaskRdy changes.                                            *)
FlagReadied(s, u, W) ==
    /\ u \in KState
    /\ u.list = s.list /\ u.tbl = s.tbl /\ u.ev = s.ev /\ u.cur = s.cur
    /\ u.prioCur = s.prioCur /\ u.lock = s.lock /\ u.defer = s.defer
    /\ \A t \in Task \cup {Idle} : t \notin W => u.tcb[t] = s.tcb[t]
    /\ \A t \in W : /\ u.tcb[t].prio = s.tcb[t].prio /\ u.tcb[t].in = s.tcb[t].in
                    /\ u.tcb[t].event = s.tcb[t].event /\ u.tcb[t].pend = "ok"
                    /\ u.tcb[t].stat = s.tcb[t].stat \ {"flag"}
                    /\ u.tcb[t].dly = 0 /\ u.tcb[t].node = s.tcb[t].node
    /\ u.rdy = s.rdy \cup {s.tcb[t].prio : t \in {x \in W : s.tcb[x].stat \ {"flag"} = {}}}
    /\ u.grp.type = s.grp.type /\ u.grp.flags = s.grp.flags /\ u.grp.quiet = s.grp.quiet
    /\ u.grp.wait = s.grp.wait \ W

(* That is what it does.                                                   *)
LEMMA FlagRdyFields ==
    ASSUME NEW s \in KState, NEW W \in SUBSET s.list, NEW g \in [W -> SUBSET Flag]
    PROVE  FlagReadied(s, OS_FlagTaskRdy(s, g), W)
<1> DEFINE left(t) == s.tcb[t].stat \ {"flag"}
           T == [t \in Task \cup {Idle} |-> IF t \notin W THEN s.tcb[t] ELSE
                   [s.tcb[t] EXCEPT !.dly = 0, !.flagsRdy = g[t], !.stat = left(t), !.pend = "ok"]]
           R == s.rdy \cup {s.tcb[t].prio : t \in {x \in W : left(x) = {}}}
           w == s.grp.wait \ W
           G == [s.grp EXCEPT !.wait = w]
           u == [s EXCEPT !.tcb = T, !.rdy = R, !.grp = G]
<1>1. /\ s.tcb \in [Task \cup {Idle} -> TCB] /\ s.grp \in Group /\ s.rdy \subseteq Prio
      /\ s.list \subseteq Task \cup {Idle} /\ DOMAIN g = W
  BY DEF KState
<1>2. OS_FlagTaskRdy(s, g) = u
  <2>1. DOMAIN s.tcb = Task \cup {Idle}  BY <1>1
  <2>2. OS_FlagTaskRdy(s, g) = [s EXCEPT !.tcb = T, !.rdy = R, !.grp.wait = @ \ W]
    BY <1>1, <2>1 DEF OS_FlagTaskRdy
  <2> HIDE DEF T, R
  <2> QED BY <1>1, <2>2 DEF KState, Group
<1>3. ASSUME NEW t \in W
      PROVE  /\ T[t] \in TCB /\ T[t].prio = s.tcb[t].prio /\ T[t].in = s.tcb[t].in
             /\ T[t].event = s.tcb[t].event /\ T[t].pend = "ok" /\ T[t].node = s.tcb[t].node
             /\ T[t].stat = left(t) /\ T[t].dly = 0
  <2> DEFINE l == left(t)
             k == [s.tcb[t] EXCEPT !.dly = 0, !.flagsRdy = g[t], !.stat = l, !.pend = "ok"]
  <2>1. s.tcb[t] \in TCB /\ T[t] = k /\ g[t] \in SUBSET Flag  BY <1>1
  <2>2. l \in SUBSET (Pending \cup {"suspend"})  BY <2>1 DEF TCB
  <2> HIDE DEF l
  <2>3. k \in TCB /\ k.prio = s.tcb[t].prio /\ k.in = s.tcb[t].in /\ k.dly = 0
        /\ k.event = s.tcb[t].event /\ k.pend = "ok" /\ k.stat = l /\ k.node = s.tcb[t].node
    BY <2>1, <2>2 DEF TCB
  <2> QED BY <2>1, <2>3 DEF l
<1>4. \A t \in Task \cup {Idle} : t \notin W => T[t] = s.tcb[t]  OBVIOUS
<1>5. T \in [Task \cup {Idle} -> TCB]
  <2>1. \A t \in Task \cup {Idle} : T[t] \in TCB  BY <1>1, <1>3, <1>4
  <2> QED BY <2>1
<1>6. R \in SUBSET Prio  BY <1>1 DEF TCB
<1>7. w \in SUBSET (Task \cup {Idle})  BY <1>1 DEF Group
<1> HIDE DEF w
<1>8. G \in Group /\ G.wait = w /\ G.type = s.grp.type /\ G.quiet = s.grp.quiet /\ G.flags = s.grp.flags
  BY <1>1, <1>7 DEF Group
<1> HIDE DEF T, R, G
<1>9. /\ u \in KState /\ u.tcb = T /\ u.rdy = R /\ u.grp = G
      /\ u.list = s.list /\ u.tbl = s.tbl /\ u.ev = s.ev /\ u.cur = s.cur
      /\ u.prioCur = s.prioCur /\ u.lock = s.lock /\ u.defer = s.defer
  BY <1>5, <1>6, <1>8 DEF KState
<1> HIDE DEF u
<1> QED BY <1>2, <1>3, <1>4, <1>8, <1>9 DEF R, w, FlagReadied

(* OS_FlagTaskRdy of tasks that wait.                                      *)
LEMMA FlagRdyBase ==
    ASSUME NEW s \in KState, Tables(s), Mutual(s), \A e \in Event : AwaitOK(s, e),
           NEW W \in SUBSET s.grp.wait, NEW u, FlagReadied(s, u, W), GroupOK(u)
    PROVE  Base(u)
<1> DEFINE P == {s.tcb[t].prio : t \in W}
<1>1. W \in SUBSET s.list /\ s.list \subseteq Task \cup {Idle} /\ P = {s.tcb[t].prio : t \in W}
  BY DEF Tables, KState
<1>2. ASSUME NEW t \in W
      PROVE  t \in s.list /\ TaskOK(s, t) /\ s.tcb[t].in = "flag" /\ Still(s.tcb[t])
  BY <1>1 DEF Tables, TaskOK, WaitsFlag
<1>3. Idle \notin W
  <2>1. s.tcb[Idle].in = "no"  BY DEF Tables, Fresh
  <2> QED BY <1>2, <2>1
<1>4. ASSUME NEW t \in W PROVE TaskOK(u, t)
  <2>1. t \in s.list /\ TaskOK(s, t) /\ s.tcb[t].in = "flag" /\ s.tcb[t] \in TCB
    BY <1>1, <1>2 DEF KState
  <2>2. /\ u.tcb[t].prio = s.tcb[t].prio /\ u.tcb[t].in = "flag"
        /\ u.tcb[t].event = s.tcb[t].event /\ u.tcb[t].pend = "ok"
        /\ u.tcb[t].stat = s.tcb[t].stat \ {"flag"} /\ u.tcb[t].dly = 0
    BY <2>1 DEF FlagReadied
  <2>3. s.tcb[t].stat \cap Pending \subseteq {"flag"} /\ s.tcb[t].event = Nil
        /\ s.tcb[t].stat \subseteq Pending \cup {"suspend"}
    BY <2>1 DEF TaskOK, StatOK, TCB
  <2>4. u.tcb[t].stat \cap Pending = {}  BY <2>2, <2>3
  <2>5. ~Still(u.tcb[t])  BY <2>2, <2>4 DEF Still
  <2>6. StatOK(u, u.tcb[t])  BY <2>2, <2>3, <2>4 DEF StatOK
  <2>7. u.tbl[u.tcb[t].prio] = t  BY <2>1, <2>2 DEF TaskOK, FlagReadied
  <2>8. u.tcb[t].prio \in u.rdy <=> Able(u.tcb[t])
    <3>1. Able(u.tcb[t]) <=> s.tcb[t].stat \ {"flag"} = {}  BY <2>2 DEF Able
    <3>2. u.rdy = s.rdy \cup {s.tcb[x].prio : x \in {y \in W : s.tcb[y].stat \ {"flag"} = {}}}
      BY DEF FlagReadied
    <3>3. ASSUME u.tcb[t].prio \in u.rdy PROVE s.tcb[t].stat \ {"flag"} = {}
      <4>1. CASE s.tcb[t].prio \in s.rdy  BY <2>1, <4>1 DEF TaskOK, Able
      <4>2. CASE s.tcb[t].prio \notin s.rdy
        <5>1. PICK x \in W : s.tcb[t].prio = s.tcb[x].prio /\ s.tcb[x].stat \ {"flag"} = {}
          BY <2>2, <3>2, <3>3, <4>2
        <5>2. x = t  BY <1>1, <2>1, <5>1, OnePrio
        <5> QED BY <5>1, <5>2
      <4> QED BY <4>1, <4>2
    <3>4. ASSUME s.tcb[t].stat \ {"flag"} = {} PROVE u.tcb[t].prio \in u.rdy
      BY <2>2, <3>2, <3>4
    <3> QED BY <3>1, <3>3, <3>4
  <2>9. \A f \in Event : u.tcb[t].prio \notin u.ev[f].wait
    BY <2>1, <2>2 DEF TaskOK, WaitsFor, FlagReadied
  <2>10. t \notin u.grp.wait  BY DEF FlagReadied
  <2> QED BY <2>2, <2>5, <2>6, <2>7, <2>8, <2>9, <2>10 DEF TaskOK, WaitsFor, WaitsFlag
<1>5. /\ u.list = s.list /\ u.tbl = s.tbl /\ u.ev = s.ev
      /\ \A t \in s.list : u.tcb[t].prio = s.tcb[t].prio
      /\ \A t \in s.list \ W : u.tcb[t] = s.tcb[t]
      /\ \A p : p \notin P => (p \in u.rdy <=> p \in s.rdy)
      /\ \A t : t \notin W => (t \in u.grp.wait <=> t \in s.grp.wait)
  <2>1. \A t \in s.list : u.tcb[t].prio = s.tcb[t].prio  BY <1>1 DEF FlagReadied
  <2>2. \A t \in s.list \ W : u.tcb[t] = s.tcb[t]  BY <1>1 DEF FlagReadied
  <2>3. \A p : p \notin P => (p \in u.rdy <=> p \in s.rdy)  BY DEF FlagReadied
  <2> QED BY <2>1, <2>2, <2>3 DEF FlagReadied
<1> HIDE DEF P
<1>6. Tables(u)  BY <1>1, <1>3, <1>4, <1>5, TasksChanged
<1>7. ASSUME NEW e \in Event, s.ev[e].type = "mutex", s.ev[e].ptr # Nil
      PROVE  Holds(u.tcb[s.ev[e].ptr], e)
  <2>1. s.ev[e].ptr \in s.list /\ Holds(s.tcb[s.ev[e].ptr], e)
    BY <1>7 DEF Mutual, MutexOK, OwnerOK
  <2>2. s.ev[e].ptr \notin W  BY <1>2, <2>1 DEF Still, Holds
  <2> QED BY <1>5, <2>1, <2>2
<1>8. Mutual(u)  BY <1>5, <1>7, MutualKept
<1>9. ASSUME NEW e \in Event PROVE AwaitOK(u, e)
  <2>1. s.ev[e].type = "mutex" /\ s.ev[e].ptr # Nil =>
                u.tcb[s.ev[e].ptr].prio = s.tcb[s.ev[e].ptr].prio
    BY <1>5 DEF Mutual, MutexOK, OwnerOK
  <2> QED BY <1>5, <2>1, AwaitKept
<1> QED BY <1>6, <1>8, <1>9 DEF Base, Awaits, FlagReadied

(* OSFlagPost readies every task whose flags are there, so that none waits *)
(* for flags that are set.                                                 *)
LEMMA FlagPostOK ==
    ASSUME NEW s, KInv(s), NEW f \in SUBSET Flag, NEW set
    PROVE  KInv(OSFlagPost(s, f, set))
<1> DEFINE now == IF set THEN s.grp.flags \cup f ELSE s.grp.flags \ f
           G == [s.grp EXCEPT !.flags = now, !.quiet = TRUE]
           a == [s EXCEPT !.grp = G]
           W == {t \in s.grp.wait : Satisfied(now, s.tcb[t].node)}
           g == [t \in W |-> FlagsRdy(now, s.tcb[t].node)]
           v == OS_FlagTaskRdy(a, g)
<1>1. /\ Base(s) /\ CurOK(s) /\ s \in KState /\ s.grp \in Group /\ Tables(s) /\ Mutual(s) /\ GroupOK(s)
      /\ s.tcb \in [Task \cup {Idle} -> TCB] /\ s.grp.wait \subseteq s.list
  BY DEF KInv, Base, KState, Tables, Awaits
<1>2. OSFlagPost(s, f, set) = IF \E t \in W : v.tcb[t].stat = {} THEN OS_Sched(v) ELSE v
  BY Zenon DEF OSFlagPost
<1>3. now \in SUBSET Flag  BY <1>1 DEF Group
<1> HIDE DEF now
<1>4. /\ G \in Group /\ G.wait = s.grp.wait /\ G.type = s.grp.type /\ G.flags = now
  BY <1>1, <1>3 DEF Group
<1> HIDE DEF G
<1>5. /\ a \in KState /\ Tables(a) /\ Mutual(a) /\ \A e \in Event : AwaitOK(a, e)
      /\ a.tcb = s.tcb /\ a.list = s.list /\ a.rdy = s.rdy /\ a.ev = s.ev
      /\ a.tbl = s.tbl /\ a.grp = G /\ a.cur = s.cur /\ a.prioCur = s.prioCur
      /\ a.lock = s.lock /\ a.defer = s.defer
  <2>1. a = [s EXCEPT !.grp = G]  OBVIOUS
  <2> HIDE DEF a
  <2> QED BY <1>1, <1>4, <2>1, GroupChanged
<1>6. W \in SUBSET a.grp.wait /\ W \in SUBSET a.list  BY <1>1, <1>4, <1>5
<1>7. g \in [W -> SUBSET Flag]
  <2>1. ASSUME NEW t \in W PROVE FlagsRdy(now, s.tcb[t].node) \in SUBSET Flag
    <3>1. t \in Task \cup {Idle}  BY <1>1 DEF Group
    <3>2. s.tcb[t].node \in Node  BY <1>1, <3>1 DEF TCB
    <3> QED BY <1>3, <3>2, FlagsRdyIn
  <2> QED BY <2>1
<1>8. \A t \in s.grp.wait : t \notin W => ~Satisfied(now, s.tcb[t].node)  OBVIOUS
<1> HIDE DEF a, W, g
<1>9. FlagReadied(a, v, W)  BY <1>5, <1>6, <1>7, FlagRdyFields
<1> HIDE DEF v
<1>10. GroupOK(v)
  <2>1. v.grp.type = s.grp.type /\ v.grp.flags = now /\ v.grp.wait = s.grp.wait \ W
    BY <1>4, <1>5, <1>9 DEF FlagReadied
  <2>2. \A t \in v.grp.wait : v.tcb[t] = s.tcb[t]
    BY <1>1, <1>5, <1>9, <2>1 DEF FlagReadied, Group
  <2> QED BY <1>1, <1>8, <2>1, <2>2 DEF GroupOK
<1>11. Base(v)  BY <1>5, <1>6, <1>9, <1>10, FlagRdyBase
<1>12. /\ v.cur = s.cur /\ v.prioCur = s.prioCur /\ v.lock = s.lock /\ v.defer = s.defer
       /\ v.list = s.list /\ v.tcb[s.cur].prio = s.tcb[s.cur].prio /\ s.rdy \subseteq v.rdy
  <2>1. s.cur \in Task \cup {Idle}  BY <1>1 DEF KState
  <2> QED BY <1>5, <1>9, <2>1 DEF FlagReadied
<1>13. CASE \E t \in W : v.tcb[t].stat = {}
  <2>1. CurOK(v)  BY <1>1, <1>12 DEF CurOK
  <2>2. KInv(OS_Sched(v))  BY <1>11, <2>1, CurStays
  <2> QED BY <1>2, <1>13, <2>2
<1>14. CASE ~\E t \in W : v.tcb[t].stat = {}
  <2>1. \A t \in W : s.tcb[t].stat \ {"flag"} # {}
    BY <1>5, <1>9, <1>14 DEF FlagReadied
  <2>2. v.rdy = s.rdy  BY <1>5, <1>9, <2>1 DEF FlagReadied
  <2>3. KInv(v)  BY <1>11, <1>12, <2>2, StillRuns
  <2> QED BY <1>2, <1>14, <2>3
<1> QED BY <1>13, <1>14

(* OSFlagDel.                                                              *)
LEMMA FlagDelOK ==
    ASSUME NEW s, KInv(s), NEW always
    PROVE  KInv(OSFlagDel(s, always))
<1>1. /\ Base(s) /\ CurOK(s) /\ s \in KState /\ Tables(s) /\ Mutual(s) /\ GroupOK(s)
      /\ (\A e \in Event : AwaitOK(s, e)) /\ s.grp.wait \subseteq s.list
  BY DEF KInv, Base, KState, Tables, Awaits
<1>2. NoGroup \in Group /\ NoGroup.wait = {} BY DEF NoGroup, Group
<1>3. CASE s.grp.wait = {}
  <2>1. NoGroup.wait = s.grp.wait /\ \A x : x \notin NoGroup.wait  BY <1>2, <1>3
  <2>2. KInv([s EXCEPT !.grp = NoGroup])  BY <1>2, <2>1, GroupRenewed
  <2> QED BY <1>3, <2>2 DEF OSFlagDel
<1>4. CASE s.grp.wait # {} /\ ~always  BY <1>4 DEF OSFlagDel
<1>5. CASE s.grp.wait # {} /\ always
  <2> DEFINE W == s.grp.wait
             g == [t \in W |-> {}]
             v == OS_FlagTaskRdy(s, g)
             u == [v EXCEPT !.grp = NoGroup]
  <2>1. OSFlagDel(s, always) = OS_Sched(u)  BY <1>5, Zenon DEF OSFlagDel
  <2>2. g \in [W -> SUBSET Flag]  OBVIOUS
  <2> HIDE DEF g
  <2>3. FlagReadied(s, v, W)  BY <1>1, <2>2, FlagRdyFields
  <2> HIDE DEF v
  <2>4. v.grp.wait = {}  BY <2>3 DEF FlagReadied
  <2>5. GroupOK(v)  BY <2>4 DEF GroupOK
  <2>6. Base(v)  BY <1>1, <2>3, <2>5, FlagRdyBase
  <2>7. CurOK(v)
    <3>1. s.cur \in Task \cup {Idle}  BY <1>1 DEF KState
    <3> QED BY <1>1, <2>3, <3>1 DEF FlagReadied, CurOK
  <2>8. v \in KState  BY <2>6 DEF Base
  <2>9. u = [v EXCEPT !.grp = NoGroup] /\ NoGroup.wait = v.grp.wait  BY <1>2, <2>4
  <2>10. u.grp = NoGroup  BY <2>8 DEF KState
  <2> HIDE DEF u
  <2>11. GroupOK(u)  BY <1>2, <2>10 DEF GroupOK
  <2>12. Base(u) /\ u.tcb = v.tcb /\ u.list = v.list /\ u.rdy = v.rdy /\ u.cur = v.cur
         /\ u.prioCur = v.prioCur
    BY <1>2, <2>6, <2>9, <2>11, GroupChanged
  <2>13. CurOK(u)  BY <2>7, <2>12 DEF CurOK
  <2> QED BY <2>1, <2>12, <2>13, CurStays
<1> QED BY <1>3, <1>4, <1>5

(* OSFlagPend returns at once or blocks.                                   *)
LEMMA FlagPendOK ==
    ASSUME NEW s, KInv(s), s.lock = 0, s.cur \in Task, Cur(s).in = "no", NEW d \in Nat,
           NEW n \in Node, s.grp.type = "flag",
           \A f \in Event : s.ev[f].type = "mutex" => s.ev[f].ptr # s.cur
    PROVE  KInv(OSFlagPend(s, n, d))
<1>1. CASE Satisfied(s.grp.flags, n)
  <2>1. s.grp.flags \in SUBSET Flag  BY DEF KInv, Base, KState, Group
  <2>2. KInv(Consume(s, n, FlagsRdy(s.grp.flags, n)))  BY <2>1, FlagsRdyIn, ConsumeOK
  <2> QED BY <1>1, <2>2 DEF OSFlagPend
<1>2. CASE ~Satisfied(s.grp.flags, n)
  <2>1. KInv(OS_Sched(OS_FlagBlock(s, n, d)))  BY <1>2, FlagBlockOK
  <2> QED BY <1>2, <2>1 DEF OSFlagPend
<1> QED BY <1>1, <1>2

-----------------------------------------------------------------------------
(* What a semaphore or a mailbox keeps.                                    *)
Plain(m) ==
    /\ m.type # "mutex"
    /\ m.type = "unused" => m.wait = {}
    /\ m.type = "sem" => m.cnt \in 0 .. MaxCnt /\ (m.wait # {} => m.cnt = 0)
    /\ m.type = "mbox" /\ m.wait # {} => m.ptr = Nil

(* Only events that nobody waits for are renewed.                          *)
EventsKept(s, u) ==
    /\ u.tcb = s.tcb /\ u.list = s.list /\ u.rdy = s.rdy /\ u.grp.wait = s.grp.wait
    /\ \A p \in Prio : u.tbl[p] = s.tbl[p] \/ ~Home(s, p)
    /\ \A e \in Event :
         /\ u.ev[e].wait = s.ev[e].wait
         /\ u.ev[e].wait # {} => u.ev[e].type = s.ev[e].type /\ u.ev[e].pip = s.ev[e].pip

(* Then the tables still agree.                                            *)
LEMMA EventsTables ==
    ASSUME NEW s \in KState, NEW u, Tables(s), EventsKept(s, u)
    PROVE  Tables(u)
<1>1. /\ u.tcb = s.tcb /\ u.list = s.list /\ u.rdy = s.rdy /\ u.grp.wait = s.grp.wait
      /\ \A p \in Prio : u.tbl[p] = s.tbl[p] \/ ~Home(s, p)
      /\ \A e \in Event :
           /\ u.ev[e].wait = s.ev[e].wait
           /\ u.ev[e].wait # {} => u.ev[e].type = s.ev[e].type /\ u.ev[e].pip = s.ev[e].pip
  BY DEF EventsKept
<1> QED BY <1>1, EventsChanged

(* A semaphore or mailbox changes, and not who waits for it.               *)
LEMMA EventChanged ==
    ASSUME NEW s, Base(s), NEW e \in Event, s.ev[e].type # "mutex", NEW m \in ECB, Plain(m),
           m.wait = s.ev[e].wait,
           m.wait # {} => m.type = s.ev[e].type /\ m.pip = s.ev[e].pip,
           NEW u, u = [s EXCEPT !.ev[e] = m]
    PROVE  /\ Base(u) /\ u.tcb = s.tcb /\ u.list = s.list /\ u.rdy = s.rdy
           /\ u.cur = s.cur /\ u.prioCur = s.prioCur /\ u.lock = s.lock /\ u.defer = s.defer
<1>1. s \in KState /\ Tables(s) /\ Mutual(s) /\ Awaits(s) /\ s.ev \in [Event -> ECB]
  BY DEF Base, KState
<1> DEFINE E == [s.ev EXCEPT ![e] = m]
<1>2. E \in [Event -> ECB] /\ E[e] = m /\ \A f \in Event : f # e => E[f] = s.ev[f]
  BY <1>1
<1>3. u = [s EXCEPT !.ev = E]  BY <1>1 DEF KState
<1> HIDE DEF E
<1>4. /\ u \in KState /\ u.tcb = s.tcb /\ u.list = s.list /\ u.rdy = s.rdy /\ u.ev = E
      /\ u.tbl = s.tbl /\ u.grp = s.grp /\ u.cur = s.cur /\ u.prioCur = s.prioCur
      /\ u.lock = s.lock /\ u.defer = s.defer
  BY <1>1, <1>2, <1>3 DEF KState
<1>5. Tables(u)
  <2>1. \A f \in Event :
               /\ u.ev[f].wait = s.ev[f].wait
               /\ u.ev[f].wait # {} => u.ev[f].type = s.ev[f].type /\ u.ev[f].pip = s.ev[f].pip
    BY <1>2, <1>4
  <2>2. u.tcb = s.tcb /\ u.list = s.list /\ u.rdy = s.rdy /\ u.grp.wait = s.grp.wait
        /\ \A p \in Prio : u.tbl[p] = s.tbl[p] \/ ~Home(s, p)
    BY <1>4
  <2>3. s \in KState /\ Tables(s)  BY <1>1
  <2>4. EventsKept(s, u)  BY <2>1, <2>2 DEF EventsKept
  <2> QED BY <2>3, <2>4, EventsTables
<1>6. \A f \in Event : u.ev[f].type = "mutex" => f # e /\ u.ev[f] = s.ev[f]
  BY <1>2, <1>4 DEF Plain
<1>7. Mutual(u)
  <2>1. ASSUME NEW f \in Event PROVE MutexOK(u, f)
    <3>1. MutexOK(s, f)  BY <1>1 DEF Mutual
    <3> QED BY <1>4, <1>6, <3>1 DEF MutexOK, OwnerOK
  <2>2. Apart(u)  BY <1>1, <1>6 DEF Mutual, Apart
  <2>3. Slots(u)
    <3>1. \A p : Home(s, p) => Home(u, p)  BY <1>4 DEF Home
    <3>2. ASSUME NEW p, Lent(s, p) PROVE Lent(u, p)
      <4>1. PICK f \in Event : s.ev[f].type = "mutex" /\ s.ev[f].ptr = s.tbl[p] /\ s.ev[f].cnt = p
        BY <3>2 DEF Lent
      <4>2. u.ev[f] = s.ev[f]  BY <1>2, <1>4, <4>1
      <4> QED BY <1>4, <4>1, <4>2 DEF Lent
    <3> QED BY <1>1, <1>4, <3>1, <3>2 DEF Mutual, Slots
  <2> QED BY <2>1, <2>2, <2>3 DEF Mutual
<1>8. ASSUME NEW f \in Event PROVE AwaitOK(u, f)
  <2>1. AwaitOK(s, f)  BY <1>1 DEF Awaits
  <2>2. CASE f # e
    <3>1. u.ev[f] = s.ev[f]  BY <1>2, <1>4, <2>2
    <3> QED BY <1>4, <2>1, <3>1, AwaitKept
  <2>3. CASE f = e  BY <1>2, <1>4, <2>3 DEF AwaitOK, Plain
  <2> QED BY <2>2, <2>3
<1>9. GroupOK(u)
  <2>1. GroupOK(s)  BY <1>1 DEF Awaits
  <2> QED BY <1>4, <2>1, GroupKept
<1> QED BY <1>4, <1>5, <1>7, <1>8, <1>9 DEF Base, Awaits

(* So does the invariant hold.                                             *)
LEMMA EventSet ==
    ASSUME NEW s, KInv(s), NEW e \in Event, s.ev[e].type # "mutex", NEW m \in ECB, Plain(m),
           m.wait = s.ev[e].wait,
           m.wait # {} => m.type = s.ev[e].type /\ m.pip = s.ev[e].pip
    PROVE  KInv([s EXCEPT !.ev[e] = m])
<1> DEFINE u == [s EXCEPT !.ev[e] = m]
<1>1. Base(s)  BY DEF KInv
<1>2. u = [s EXCEPT !.ev[e] = m]  OBVIOUS
<1> HIDE DEF u
<1>3. /\ Base(u) /\ u.tcb = s.tcb /\ u.list = s.list /\ u.rdy = s.rdy
      /\ u.cur = s.cur /\ u.prioCur = s.prioCur /\ u.lock = s.lock /\ u.defer = s.defer
  BY <1>1, <1>2, EventChanged
<1>4. KInv(u)  BY <1>3, StillRuns
<1> QED BY <1>2, <1>4

(* The event control block of a semaphore or mailbox.                      *)
LEMMA EventIs ==
    ASSUME NEW s, KInv(s), NEW e \in Event
    PROVE  /\ s \in KState /\ s.ev \in [Event -> ECB] /\ s.ev[e] \in ECB /\ AwaitOK(s, e) /\ MutexOK(s, e)
           /\ s.ev[e].type # "mutex" => Plain(s.ev[e])
BY DEF KInv, Base, KState, Awaits, AwaitOK, Plain, Mutual

(* The count of a semaphore that nobody waits for.                         *)
LEMMA CntSet ==
    ASSUME NEW s, KInv(s), NEW e \in Event, s.ev[e].type = "sem", s.ev[e].wait = {},
           NEW c \in 0 .. MaxCnt
    PROVE  KInv([s EXCEPT !.ev[e].cnt = c])
<1> DEFINE m == [s.ev[e] EXCEPT !.cnt = c]
<1>1. s \in KState /\ s.ev \in [Event -> ECB] /\ s.ev[e] \in ECB  BY EventIs
<1>2. [s EXCEPT !.ev[e].cnt = c] = [s EXCEPT !.ev[e] = m]  BY <1>1 DEF KState
<1>3. c \in Int  OBVIOUS
<1>4. m \in ECB /\ m.type = "sem" /\ m.cnt = c /\ m.wait = s.ev[e].wait /\ m.pip = s.ev[e].pip
  BY <1>1, <1>3 DEF ECB
<1>5. Plain(m)  BY <1>4 DEF Plain
<1> HIDE DEF m
<1> QED BY <1>2, <1>4, <1>5, EventSet

(* The message of a mailbox that nobody waits for, or none.                *)
LEMMA PtrSet ==
    ASSUME NEW s, KInv(s), NEW e \in Event, s.ev[e].type = "mbox", NEW c \in Message \cup {Nil},
           s.ev[e].wait = {} \/ c = Nil
    PROVE  KInv([s EXCEPT !.ev[e].ptr = c])
<1> DEFINE m == [s.ev[e] EXCEPT !.ptr = c]
<1>1. s \in KState /\ s.ev \in [Event -> ECB] /\ s.ev[e] \in ECB  BY EventIs
<1>2. [s EXCEPT !.ev[e].ptr = c] = [s EXCEPT !.ev[e] = m]  BY <1>1 DEF KState
<1>3. m \in ECB /\ m.type = "mbox" /\ m.ptr = c /\ m.wait = s.ev[e].wait /\ m.pip = s.ev[e].pip
  BY <1>1 DEF ECB
<1>4. Plain(m)  BY <1>3 DEF Plain
<1> HIDE DEF m
<1> QED BY <1>2, <1>3, <1>4, EventSet

(* An event control block that is not in use.                              *)
LEMMA UnusedIs ==
    Unused \in ECB /\ Unused.wait = {} /\ Unused.type = "unused" /\ Unused.cnt = 0 /\ Unused.ptr = Nil
    /\ 0 \in Prio
<1>1. 0 \in Prio  BY OsCoreAssumption DEF Prio
<1> QED BY <1>1 DEF Unused, ECB

(* OSSemCreate.                                                            *)
LEMMA SemCreateOK ==
    ASSUME NEW s, KInv(s), NEW e \in Event, s.ev[e].type = "unused", NEW c \in 0 .. 1
    PROVE  KInv(OSSemCreate(s, e, c))
<1> DEFINE m == [Unused EXCEPT !.type = "sem", !.cnt = c]
<1>1. s.ev[e].wait = {}  BY EventIs DEF AwaitOK
<1>2. c \in Int /\ c \in 0 .. MaxCnt  BY OsEventAssumption
<1>3. m \in ECB /\ m.type = "sem" /\ m.cnt = c /\ m.wait = {}
  BY <1>2, UnusedIs DEF ECB
<1>4. Plain(m)  BY <1>2, <1>3 DEF Plain
<1>5. OSSemCreate(s, e, c) = [s EXCEPT !.ev[e] = m]  BY DEF OSSemCreate
<1> HIDE DEF m
<1>6. /\ m \in ECB /\ m.wait = s.ev[e].wait /\ s.ev[e].type # "mutex"
      /\ m.wait # {} => m.type = s.ev[e].type /\ m.pip = s.ev[e].pip
  BY <1>1, <1>3
<1> QED BY <1>4, <1>5, <1>6, EventSet

(* OSMboxCreate.                                                           *)
LEMMA MboxCreateOK ==
    ASSUME NEW s, KInv(s), NEW e \in Event, s.ev[e].type = "unused", NEW c \in Message \cup {Nil}
    PROVE  KInv(OSMboxCreate(s, e, c))
<1> DEFINE m == [Unused EXCEPT !.type = "mbox", !.ptr = c]
<1>1. s.ev[e].wait = {}  BY EventIs DEF AwaitOK
<1>2. m \in ECB /\ m.type = "mbox" /\ m.wait = {}
  BY UnusedIs DEF ECB
<1>3. Plain(m)  BY <1>2 DEF Plain
<1>4. OSMboxCreate(s, e, c) = [s EXCEPT !.ev[e] = m]  BY DEF OSMboxCreate
<1> HIDE DEF m
<1>5. /\ m \in ECB /\ m.wait = s.ev[e].wait /\ s.ev[e].type # "mutex"
      /\ m.wait # {} => m.type = s.ev[e].type /\ m.pip = s.ev[e].pip
  BY <1>1, <1>2
<1> QED BY <1>3, <1>4, <1>5, EventSet

(* A task that waits is readied, or all are.                               *)
LEMMA ReadyOK ==
    ASSUME NEW s, KInv(s), NEW e \in Event, s.ev[e].wait # {},
           NEW W, W = First(s, e) \/ W = All(s, e),
           NEW msg \in Message \cup {Nil}, NEW st \in {"ok", "abort"},
           NEW u, u = OS_EventTaskRdy(s, e, W, msg, st)
    PROVE  /\ Base(u) /\ CurOK(u) /\ KInv(OS_Sched(u)) /\ Readied(s, u, e, W, st)
           /\ W \subseteq Waiters(s, e)
<1>1. s \in KState /\ Tables(s)  BY DEF KInv, Base
<1>2. W \in SUBSET Waiters(s, e)
  <2>1. CASE W = First(s, e)  BY <1>1, <2>1, FirstIs
  <2>2. CASE W = All(s, e)  BY <1>1, <2>2, WaitersAre
  <2> QED BY <2>1, <2>2
<1>3. W \in SUBSET s.list  BY <1>2 DEF Waiters
<1>4. Readied(s, u, e, W, st)  BY <1>1, <1>3, RdyFields
<1>5. Base(u) /\ CurOK(u) /\ KInv(OS_Sched(u))  BY <1>2, <1>4, RdyOK
<1> QED BY <1>2, <1>4, <1>5

(* OSSemPost hands the count over to a waiter instead of keeping it.       *)
LEMMA SemPostOK ==
    ASSUME NEW s, KInv(s), NEW e \in Event, s.ev[e].type = "sem"
    PROVE  KInv(OSSemPost(s, e))
<1>1. CASE s.ev[e].wait # {}
  <2>1. KInv(OS_Sched(OS_EventTaskRdy(s, e, First(s, e), Nil, "ok")))  BY <1>1, ReadyOK
  <2> QED BY <1>1, <2>1 DEF OSSemPost, Ready
<1>2. CASE s.ev[e].wait = {}
  <2>1. s.ev[e].cnt \in 0 .. MaxCnt /\ s \in KState /\ s.ev \in [Event -> ECB]
    BY EventIs DEF AwaitOK
  <2>2. CASE s.ev[e].cnt < MaxCnt
    <3> DEFINE c == s.ev[e].cnt + 1
    <3>1. c \in 0 .. MaxCnt  BY <2>1, <2>2, OsEventAssumption
    <3>2. [s EXCEPT !.ev[e].cnt = @ + 1] = [s EXCEPT !.ev[e].cnt = c]  OBVIOUS
    <3> HIDE DEF c
    <3>3. KInv([s EXCEPT !.ev[e].cnt = c])  BY <1>2, <3>1, CntSet
    <3> QED BY <1>2, <2>2, <3>2, <3>3 DEF OSSemPost
  <2>3. CASE ~(s.ev[e].cnt < MaxCnt)  BY <1>2, <2>3 DEF OSSemPost
  <2> QED BY <2>2, <2>3
<1> QED BY <1>1, <1>2

(* OSSemAccept.                                                            *)
LEMMA SemAcceptOK ==
    ASSUME NEW s, KInv(s), NEW e \in Event, s.ev[e].type = "sem"
    PROVE  KInv(OSSemAccept(s, e))
<1>1. s.ev[e].cnt \in 0 .. MaxCnt /\ (s.ev[e].wait # {} => s.ev[e].cnt = 0)
  BY EventIs DEF AwaitOK
<1>2. CASE s.ev[e].cnt > 0
  <2> DEFINE c == s.ev[e].cnt - 1
  <2>1. c \in 0 .. MaxCnt /\ s.ev[e].wait = {}  BY <1>1, <1>2, OsEventAssumption
  <2>2. [s EXCEPT !.ev[e].cnt = @ - 1] = [s EXCEPT !.ev[e].cnt = c]  OBVIOUS
  <2> HIDE DEF c
  <2>3. KInv([s EXCEPT !.ev[e].cnt = c])  BY <2>1, CntSet
  <2> QED BY <1>2, <2>2, <2>3 DEF OSSemAccept
<1>3. CASE ~(s.ev[e].cnt > 0)  BY <1>3 DEF OSSemAccept
<1> QED BY <1>2, <1>3

(* OSSemSet.                                                               *)
LEMMA SemSetOK ==
    ASSUME NEW s, KInv(s), NEW e \in Event, s.ev[e].type = "sem", NEW c \in 0 .. MaxCnt
    PROVE  KInv(OSSemSet(s, e, c))
<1>1. s.ev[e].cnt \in 0 .. MaxCnt /\ (s.ev[e].wait # {} => s.ev[e].cnt = 0)
  BY EventIs DEF AwaitOK
<1>2. CASE s.ev[e].cnt > 0 \/ s.ev[e].wait = {}
  <2>1. s.ev[e].wait = {}  BY <1>1, <1>2
  <2>2. KInv([s EXCEPT !.ev[e].cnt = c])  BY <2>1, CntSet
  <2> QED BY <1>2, <2>2 DEF OSSemSet
<1>3. CASE ~(s.ev[e].cnt > 0 \/ s.ev[e].wait = {})  BY <1>3 DEF OSSemSet
<1> QED BY <1>2, <1>3

(* OSSemPend.                                                              *)
LEMMA SemPendOK ==
    ASSUME NEW s, KInv(s), s.lock = 0, s.cur \in Task, Cur(s).in = "no", NEW e \in Event,
           s.ev[e].type = "sem", NEW d \in Nat,
           \A f \in Event : s.ev[f].type = "mutex" => s.ev[f].ptr # s.cur
    PROVE  KInv(OSSemPend(s, e, d))
<1>1. CASE s.ev[e].cnt > 0
  <2>1. KInv(OSSemAccept(s, e))  BY SemAcceptOK
  <2> QED BY <1>1, <2>1 DEF OSSemPend
<1>2. CASE ~(s.ev[e].cnt > 0)
  <2>1. s.ev[e].cnt \in 0 .. MaxCnt  BY EventIs DEF AwaitOK
  <2>2. s.ev[e].cnt = 0  BY <1>2, <2>1, OsEventAssumption
  <2>3. KInv(Wait(s, e, d))  BY <2>2, WaitBase DEF KInv
  <2> QED BY <1>2, <2>3 DEF OSSemPend
<1> QED BY <1>1, <1>2

(* OSMboxPost hands the message over to a waiter instead of keeping it.    *)
LEMMA MboxPostOK ==
    ASSUME NEW s, KInv(s), NEW e \in Event, s.ev[e].type = "mbox", NEW msg \in Message
    PROVE  KInv(OSMboxPost(s, e, msg))
<1>1. CASE s.ev[e].wait # {}
  <2>1. KInv(OS_Sched(OS_EventTaskRdy(s, e, First(s, e), msg, "ok")))  BY <1>1, ReadyOK
  <2> QED BY <1>1, <2>1 DEF OSMboxPost, Ready
<1>2. CASE s.ev[e].wait = {}
  <2>1. KInv([s EXCEPT !.ev[e].ptr = msg])  BY <1>2, PtrSet
  <2> QED BY <1>2, <2>1 DEF OSMboxPost
<1> QED BY <1>1, <1>2

(* OSMboxAccept.                                                           *)
LEMMA MboxAcceptOK ==
    ASSUME NEW s, KInv(s), NEW e \in Event, s.ev[e].type = "mbox"
    PROVE  KInv(OSMboxAccept(s, e))
BY PtrSet DEF OSMboxAccept

(* OSMboxPend.                                                             *)
LEMMA MboxPendOK ==
    ASSUME NEW s, KInv(s), s.lock = 0, s.cur \in Task, Cur(s).in = "no", NEW e \in Event,
           s.ev[e].type = "mbox", NEW d \in Nat,
           \A f \in Event : s.ev[f].type = "mutex" => s.ev[f].ptr # s.cur
    PROVE  KInv(OSMboxPend(s, e, d))
<1>1. CASE s.ev[e].ptr # Nil
  <2>1. KInv(OSMboxAccept(s, e))  BY MboxAcceptOK
  <2> QED BY <1>1, <2>1 DEF OSMboxPend
<1>2. CASE s.ev[e].ptr = Nil
  <2>1. KInv(Wait(s, e, d))  BY <1>2, WaitBase DEF KInv
  <2> QED BY <1>2, <2>1 DEF OSMboxPend
<1> QED BY <1>1, <1>2

(* OSMboxPostOpt, which with OS_POST_OPT_NO_SCHED leaves the running task  *)
(* on.                                                                     *)
LEMMA MboxPostOptOK ==
    ASSUME NEW s, KInv(s), NEW e \in Event, s.ev[e].type = "mbox", NEW msg \in Message,
           NEW b \in BOOLEAN, NEW n \in BOOLEAN
    PROVE  KInv(OSMboxPostOpt(s, e, msg, b, n))
<1>1. CASE s.ev[e].wait = {}  BY <1>1, MboxPostOK DEF OSMboxPostOpt
<1>2. CASE s.ev[e].wait # {}
  <2> DEFINE W == IF b THEN All(s, e) ELSE First(s, e)
             u == OS_EventTaskRdy(s, e, W, msg, "ok")
             v == [u EXCEPT !.defer = TRUE]
  <2>1. OSMboxPostOpt(s, e, msg, b, n) = IF n THEN v ELSE OS_Sched(u)
    BY <1>2, Zenon DEF OSMboxPostOpt
  <2>2. W = First(s, e) \/ W = All(s, e)  OBVIOUS
  <2> HIDE DEF W
  <2>3. Base(u) /\ CurOK(u) /\ KInv(OS_Sched(u))  BY <1>2, <2>2, ReadyOK
  <2> HIDE DEF u
  <2>4. KInv(v)
    <3>1. u \in KState  BY <2>3 DEF Base
    <3>2. /\ v \in KState /\ v.tcb = u.tcb /\ v.list = u.list /\ v.tbl = u.tbl /\ v.rdy = u.rdy
          /\ v.ev = u.ev /\ v.grp = u.grp /\ v.cur = u.cur /\ v.prioCur = u.prioCur /\ v.defer = TRUE
      BY <3>1 DEF KState
    <3> HIDE DEF v
    <3>3. Base(v)  BY <2>3, <3>2, SameBase
    <3> QED BY <2>3, <3>2, <3>3 DEF KInv, CurOK, Runs
  <2> QED BY <2>1, <2>3, <2>4
<1> QED BY <1>1, <1>2

(* OSSemPendAbort and OSMboxPendAbort.                                     *)
LEMMA PendAbortOK ==
    ASSUME NEW s, KInv(s), NEW e \in Event, NEW b \in BOOLEAN
    PROVE  KInv(PendAbort(s, e, b))
<1>1. CASE s.ev[e].wait = {}  BY <1>1 DEF PendAbort
<1>2. CASE s.ev[e].wait # {}
  <2> DEFINE W == IF b THEN All(s, e) ELSE First(s, e)
             u == OS_EventTaskRdy(s, e, W, Nil, "abort")
  <2>1. PendAbort(s, e, b) = OS_Sched(u)  BY <1>2, Zenon DEF PendAbort, Ready
  <2>2. W = First(s, e) \/ W = All(s, e)  OBVIOUS
  <2> HIDE DEF W
  <2>3. KInv(OS_Sched(u))  BY <1>2, <2>2, ReadyOK
  <2> QED BY <2>1, <2>3
<1> QED BY <1>1, <1>2

(* OSSemDel and OSMboxDel.                                                 *)
LEMMA DelOK ==
    ASSUME NEW s, KInv(s), NEW e \in Event, s.ev[e].type # "mutex", NEW b \in BOOLEAN
    PROVE  KInv(Del(s, e, b))
<1>1. Plain(Unused)  BY UnusedIs DEF Plain
<1>2. CASE s.ev[e].wait = {}
  <2>1. Unused.wait = s.ev[e].wait  BY <1>2, UnusedIs
  <2>2. KInv([s EXCEPT !.ev[e] = Unused])  BY <1>1, <1>2, <2>1, UnusedIs, EventSet
  <2> QED BY <1>2, <2>2 DEF Del, FreeEvent
<1>3. CASE s.ev[e].wait # {} /\ ~b  BY <1>3 DEF Del
<1>4. CASE s.ev[e].wait # {} /\ b
  <2> DEFINE v == OS_EventTaskRdy(s, e, All(s, e), Nil, "ok")
             u == [v EXCEPT !.ev[e] = Unused]
  <2>1. Del(s, e, b) = OS_Sched(u)  BY <1>4, Zenon DEF Del, FreeEvent
  <2>2. Base(v) /\ CurOK(v) /\ Readied(s, v, e, All(s, e), "ok")  BY <1>4, ReadyOK
  <2>3. v.ev[e].wait = {} /\ v.ev[e].type # "mutex"
    <3>1. s \in KState /\ Tables(s)  BY DEF KInv, Base
    <3>2. \A p \in s.ev[e].wait : s.tbl[p] \in All(s, e) /\ s.tcb[s.tbl[p]].prio = p
      BY <3>1, WaitersAre DEF All
    <3>3. v.ev[e].wait = s.ev[e].wait \ {s.tcb[t].prio : t \in All(s, e)} /\ v.ev[e].type = s.ev[e].type
      BY <2>2 DEF Readied
    <3> QED BY <3>2, <3>3
  <2> HIDE DEF v
  <2>4. u = [v EXCEPT !.ev[e] = Unused]  OBVIOUS
  <2> HIDE DEF u
  <2>5. /\ Unused \in ECB /\ Unused.wait = v.ev[e].wait /\ v.ev[e].type # "mutex"
        /\ Unused.wait # {} => Unused.type = v.ev[e].type /\ Unused.pip = v.ev[e].pip
    BY <2>3, UnusedIs
  <2>6. Base(u) /\ u.tcb = v.tcb /\ u.list = v.list /\ u.rdy = v.rdy
           /\ u.cur = v.cur /\ u.prioCur = v.prioCur
    BY <1>1, <2>2, <2>4, <2>5, EventChanged
  <2>7. CurOK(u)  BY <2>2, <2>6 DEF CurOK
  <2> QED BY <2>1, <2>6, <2>7, CurStays
<1> QED BY <1>2, <1>3, <1>4

-----------------------------------------------------------------------------
(* The slot of a priority that a mutex reserves.                           *)
LEMMA PipSlot ==
    ASSUME NEW s, Tables(s), Mutual(s), NEW e \in Event, s.ev[e].type = "mutex"
    PROVE  /\ \/ s.tbl[s.ev[e].pip] = Reserved
              \/ /\ s.ev[e].ptr # Nil /\ s.tbl[s.ev[e].pip] = s.ev[e].ptr
                 /\ s.tcb[s.ev[e].ptr].prio = s.ev[e].pip
           /\ s.ev[e].ptr # Nil => OwnerOK(s, e) /\ TaskOK(s, s.ev[e].ptr)
<1>1. MutexOK(s, e)  BY DEF Mutual
<1>2. CASE s.ev[e].ptr = Nil  BY <1>1, <1>2 DEF MutexOK
<1>3. CASE s.ev[e].ptr # Nil
  <2>1. OwnerOK(s, e)  BY <1>1, <1>3 DEF MutexOK
  <2>2. TaskOK(s, s.ev[e].ptr)  BY <2>1 DEF OwnerOK, Tables
  <2>3. CASE s.tcb[s.ev[e].ptr].prio = s.ev[e].cnt /\ s.tbl[s.ev[e].pip] = Reserved
    BY <1>3, <2>1, <2>2, <2>3
  <2>4. CASE s.tcb[s.ev[e].ptr].prio = s.ev[e].pip
    <3>1. s.tbl[s.ev[e].pip] = s.ev[e].ptr  BY <2>2, <2>4 DEF TaskOK
    <3> QED BY <1>3, <2>1, <2>2, <2>4, <3>1
  <2> QED BY <2>1, <2>3, <2>4 DEF OwnerOK
<1> QED BY <1>2, <1>3

(* A mutex that has no owner changes, and a slot q where no task is.       *)
LEMMA SlotChanged ==
    ASSUME NEW s \in KState, Tables(s), Mutual(s), NEW e \in Event, NEW q \in Prio, NEW u \in KState,
           s.ev[e].type = "mutex" => s.ev[e].ptr = Nil,
           u.tcb = s.tcb, u.list = s.list, s.tbl[q] \in {Nil, Reserved}, u.tbl[q] \in {Nil, Reserved},
           \A p \in Prio : p # q => u.tbl[p] = s.tbl[p],
           \A f \in Event : f # e => u.ev[f] = s.ev[f] /\ (s.ev[f].type = "mutex" => s.ev[f].pip # q),
           MutexOK(u, e), Apart(u)
    PROVE  Mutual(u)
<1>1. ASSUME NEW f \in Event, f # e, s.ev[f].type = "mutex" PROVE MutexOK(u, f)
  <2>1. MutexOK(s, f) /\ u.ev[f] = s.ev[f] /\ s.ev[f].pip # q  BY <1>1 DEF Mutual
  <2>2. s.ev[f].pip \in Prio  BY DEF KState, ECB
  <2>3. u.tbl[s.ev[f].pip] = s.tbl[s.ev[f].pip]  BY <2>1, <2>2
  <2>4. CASE s.ev[f].ptr = Nil  BY <2>1, <2>3, <2>4 DEF MutexOK
  <2>5. CASE s.ev[f].ptr # Nil
    <3>1. OwnerOK(s, f)  BY <1>1, <2>1, <2>5 DEF MutexOK
    <3>2. s.ev[f].cnt # q
      BY <3>1, OsCoreAssumption DEF OwnerOK
    <3>3. u.tbl[s.ev[f].cnt] = s.tbl[s.ev[f].cnt]  BY <3>1, <3>2 DEF OwnerOK
    <3>4. OwnerOK(u, f)  BY <2>1, <2>3, <3>1, <3>3 DEF OwnerOK
    <3> QED BY <2>1, <2>5, <3>4 DEF MutexOK
  <2> QED BY <2>4, <2>5
<1>2. ASSUME NEW f \in Event PROVE MutexOK(u, f)
  <2>1. CASE f # e /\ s.ev[f].type # "mutex"  BY <2>1 DEF MutexOK
  <2> QED BY <1>1, <2>1
<1>3. ASSUME NEW p \in Prio PROVE u.tbl[p] \in {Nil, Reserved} \/ Home(u, p) \/ Lent(u, p)
  <2>1. CASE p = q  BY <2>1
  <2>2. CASE p # q
    <3>1. u.tbl[p] = s.tbl[p]  BY <2>2
    <3>2. s.tbl[p] \in {Nil, Reserved} \/ Home(s, p) \/ Lent(s, p)  BY DEF Mutual, Slots
    <3>3. CASE Home(s, p)  BY <3>1, <3>3 DEF Home
    <3>4. CASE Lent(s, p)
      <4>1. PICK f \in Event : s.ev[f].type = "mutex" /\ s.ev[f].ptr = s.tbl[p] /\ s.ev[f].cnt = p
        BY <3>4 DEF Lent
      <4>2. CASE f = e  BY <3>1, <4>1, <4>2
      <4>3. CASE f # e  BY <3>1, <4>1, <4>3 DEF Lent
      <4> QED BY <4>2, <4>3
    <3> QED BY <3>1, <3>2, <3>3, <3>4
  <2> QED BY <2>1, <2>2
<1> QED BY <1>2, <1>3 DEF Mutual, Slots

(* OSMutexCreate.                                                          *)
LEMMA MutexCreateOK ==
    ASSUME NEW s, KInv(s), NEW e \in Event, s.ev[e].type = "unused", NEW q \in Prio, q < Lowest
    PROVE  KInv(OSMutexCreate(s, e, q))
<1>1. SUFFICES ASSUME s.tbl[q] = Nil PROVE KInv(OSMutexCreate(s, e, q))
  BY DEF OSMutexCreate
<1> DEFINE m == [Unused EXCEPT !.type = "mutex", !.cnt = Available, !.pip = q]
           T == [s.tbl EXCEPT ![q] = Reserved]
           E == [s.ev EXCEPT ![e] = m]
           u == [s EXCEPT !.tbl = T, !.ev = E]
<1>2. /\ s \in KState /\ Base(s) /\ Tables(s) /\ Mutual(s) /\ Awaits(s) /\ s.ev \in [Event -> ECB]
      /\ s.tbl \in [Prio -> Task \cup {Idle, Nil, Reserved}] /\ s.list \subseteq Task \cup {Idle}
  BY DEF KInv, Base, KState
<1>3. m \in ECB /\ m.type = "mutex" /\ m.cnt = Available /\ m.pip = q /\ m.ptr = Nil /\ m.wait = {}
  <2>1. Available \in Int  BY DEF Available
  <2> HIDE DEF Available
  <2> QED BY <2>1, UnusedIs DEF ECB
<1>4. OSMutexCreate(s, e, q) = u
  <2>1. OSMutexCreate(s, e, q) = [s EXCEPT !.tbl[q] = Reserved, !.ev[e] = m]
    BY <1>1 DEF OSMutexCreate
  <2> HIDE DEF m
  <2> QED BY <1>2, <2>1 DEF KState
<1> HIDE DEF m
<1>5. E \in [Event -> ECB] /\ E[e] = m /\ \A f \in Event : f # e => E[f] = s.ev[f]
  BY <1>2, <1>3
<1>6. T \in [Prio -> Task \cup {Idle, Nil, Reserved}] /\ T[q] = Reserved
      /\ \A p \in Prio : p # q => T[p] = s.tbl[p]
  BY <1>2
<1> HIDE DEF T, E
<1>7. /\ u \in KState /\ u.tcb = s.tcb /\ u.list = s.list /\ u.rdy = s.rdy /\ u.ev = E
      /\ u.tbl = T /\ u.grp = s.grp /\ u.cur = s.cur /\ u.prioCur = s.prioCur
      /\ u.lock = s.lock /\ u.defer = s.defer
  BY <1>2, <1>5, <1>6 DEF KState
<1> HIDE DEF u
<1>8. s.ev[e].wait = {}  BY <1>2 DEF Awaits, AwaitOK
<1>9. EventsKept(s, u)
  <2>1. \A p \in Prio : u.tbl[p] = s.tbl[p] \/ ~Home(s, p)
    BY <1>1, <1>2, <1>6, <1>7, OsCoreAssumption DEF Home
  <2>2. \A f \in Event :
         /\ u.ev[f].wait = s.ev[f].wait
         /\ u.ev[f].wait # {} => u.ev[f].type = s.ev[f].type /\ u.ev[f].pip = s.ev[f].pip
    BY <1>3, <1>5, <1>7, <1>8
  <2> QED BY <1>7, <2>1, <2>2 DEF EventsKept
<1>10. Tables(u)  BY <1>2, <1>9, EventsTables
<1>11. ASSUME NEW f \in Event, s.ev[f].type = "mutex" PROVE s.ev[f].pip # q
  <2>1. s.tbl[s.ev[f].pip] # Nil
    <3>1. s.ev[f].ptr # Nil => s.ev[f].ptr \in Task  BY <1>2, <1>11, PipSlot DEF OwnerOK
    <3> QED BY <1>2, <1>11, <3>1, PipSlot, OsCoreAssumption
  <2> QED BY <1>1, <2>1
<1>12. MutexOK(u, e)  BY <1>3, <1>5, <1>6, <1>7 DEF MutexOK
<1>13. Apart(u)
  <2>1. \A f \in Event : f # e => u.ev[f] = s.ev[f]  BY <1>5, <1>7
  <2>2. u.ev[e] = m  BY <1>5, <1>7
  <2>3. SUFFICES ASSUME NEW f \in Event, NEW g \in Event, f # g, u.ev[f].type = "mutex", u.ev[g].type = "mutex"
                 PROVE  u.ev[f].pip # u.ev[g].pip /\ (u.ev[f].ptr # Nil => u.ev[f].ptr # u.ev[g].ptr)
    BY DEF Apart
  <2>4. CASE f = e  BY <1>3, <1>11, <2>1, <2>2, <2>3, <2>4
  <2>5. CASE g = e  BY <1>3, <1>11, <2>1, <2>2, <2>3, <2>5
  <2>6. CASE f # e /\ g # e  BY <1>2, <2>1, <2>3, <2>6 DEF Mutual, Apart
  <2> QED BY <2>4, <2>5, <2>6
<1>14. Mutual(u)
  <2>1. \A f \in Event : f # e => u.ev[f] = s.ev[f] /\ (s.ev[f].type = "mutex" => s.ev[f].pip # q)
    BY <1>5, <1>7, <1>11
  <2>2. s.tbl[q] \in {Nil, Reserved} /\ u.tbl[q] \in {Nil, Reserved}
        /\ \A p \in Prio : p # q => u.tbl[p] = s.tbl[p]
    BY <1>1, <1>6, <1>7
  <2>3. u.tcb = s.tcb /\ u.list = s.list /\ u \in KState  BY <1>7
  <2> QED BY <1>2, <1>12, <1>13, <2>1, <2>2, <2>3, SlotChanged
<1>15. ASSUME NEW f \in Event PROVE AwaitOK(u, f)
  <2>1. AwaitOK(s, f)  BY <1>2 DEF Awaits
  <2>2. CASE f # e
    <3>1. u.ev[f] = s.ev[f]  BY <1>5, <1>7, <2>2
    <3> QED BY <1>7, <2>1, <3>1, AwaitKept
  <2>3. CASE f = e  BY <1>3, <1>5, <1>7, <2>3 DEF AwaitOK
  <2> QED BY <2>2, <2>3
<1>16. GroupOK(u)
  <2>1. GroupOK(s)  BY <1>2 DEF Awaits
  <2> QED BY <1>7, <2>1, GroupKept
<1>17. Base(u)  BY <1>7, <1>10, <1>14, <1>15, <1>16 DEF Base, Awaits
<1>18. KInv(u)  BY <1>7, <1>17, StillRuns
<1> QED BY <1>4, <1>18

(* OSMutexAccept.                                                          *)
LEMMA MutexAcceptOK ==
    ASSUME NEW s, KInv(s), s.cur \in Task, Cur(s).in = "no", NEW e \in Event, s.ev[e].type = "mutex",
           s.prioCur > s.ev[e].pip,
           \A f \in Event : s.ev[f].type = "mutex" => s.ev[f].ptr # s.cur
    PROVE  KInv(OSMutexAccept(s, e))
<1>1. SUFFICES ASSUME s.ev[e].cnt = Available PROVE KInv(OSMutexAccept(s, e))
  BY DEF OSMutexAccept
<1> DEFINE c == s.cur
           p == s.tcb[c].prio
           m == [s.ev[e] EXCEPT !.cnt = p, !.ptr = c]
           E == [s.ev EXCEPT ![e] = m]
           u == [s EXCEPT !.ev = E]
<1>2. /\ s \in KState /\ Base(s) /\ Tables(s) /\ Mutual(s) /\ Awaits(s) /\ s.ev \in [Event -> ECB]
      /\ s.ev[e] \in ECB
  BY DEF KInv, Base, KState
<1>3. /\ c \in s.list /\ TaskOK(s, c) /\ s.tcb[c] \in TCB
      /\ s.tcb[c].stat = {} /\ s.tbl[p] = c /\ p = s.prioCur /\ p \in Prio /\ s.tcb[c].in = "no"
  BY CurIs DEF Cur, KInv
<1>4. p \in Int /\ p # Available /\ p > s.ev[e].pip
  BY <1>3, OsCoreAssumption DEF Prio, Available
<1>5. OSMutexAccept(s, e) = u
  <2>1. OSMutexAccept(s, e) = [s EXCEPT !.ev[e] = [@ EXCEPT !.cnt = p, !.ptr = c]]
    BY <1>1 DEF OSMutexAccept, Cur
  <2> HIDE DEF p, c
  <2> QED BY <1>2, <2>1 DEF KState
<1>6. m \in ECB /\ m.type = "mutex" /\ m.cnt = p /\ m.pip = s.ev[e].pip /\ m.ptr = c
      /\ m.wait = s.ev[e].wait
  <2>1. c \in Task  OBVIOUS
  <2> HIDE DEF p, c
  <2> QED BY <1>2, <1>4, <2>1 DEF ECB
<1> HIDE DEF m
<1>7. E \in [Event -> ECB] /\ E[e] = m /\ \A f \in Event : f # e => E[f] = s.ev[f]
  BY <1>2, <1>6
<1> HIDE DEF E
<1>8. /\ u \in KState /\ u.tcb = s.tcb /\ u.list = s.list /\ u.rdy = s.rdy /\ u.ev = E
      /\ u.tbl = s.tbl /\ u.grp = s.grp /\ u.cur = s.cur /\ u.prioCur = s.prioCur
      /\ u.lock = s.lock /\ u.defer = s.defer
  BY <1>2, <1>7 DEF KState
<1> HIDE DEF u
<1>9. MutexOK(s, e) /\ AwaitOK(s, e)  BY <1>2 DEF Mutual, Awaits
<1>10. s.ev[e].ptr = Nil /\ s.tbl[s.ev[e].pip] = Reserved /\ s.ev[e].pip < Lowest
  BY <1>1, <1>9 DEF MutexOK
<1>11. s.ev[e].wait = {}  BY <1>9, <1>10 DEF AwaitOK
<1>12. EventsKept(s, u)
  <2>1. \A f \in Event :
         /\ u.ev[f].wait = s.ev[f].wait
         /\ u.ev[f].wait # {} => u.ev[f].type = s.ev[f].type /\ u.ev[f].pip = s.ev[f].pip
    BY <1>6, <1>7, <1>8
  <2> QED BY <1>8, <2>1 DEF EventsKept
<1>13. Tables(u)  BY <1>2, <1>12, EventsTables
<1>14. u.ev[e] = m /\ \A f \in Event : f # e => u.ev[f] = s.ev[f]  BY <1>7, <1>8
<1>15. c # Nil /\ c \in Task  BY OsCoreAssumption
<1>16. \A f \in Event : s.ev[f].type = "mutex" => s.ev[f].ptr # c  OBVIOUS
<1> HIDE DEF c, p
<1>17. MutexOK(u, e)
  <2>1. Holds(s.tcb[c], e)  BY <1>3 DEF Holds, TaskOK, StatOK
  <2>2. s.tcb[c].prio = p  BY DEF p
  <2>3. OwnerOK(u, e)
    BY <1>3, <1>4, <1>6, <1>8, <1>10, <1>14, <1>15, <2>1, <2>2 DEF OwnerOK
  <2> QED BY <1>4, <1>6, <1>10, <1>14, <1>15, <2>3 DEF MutexOK
<1>18. Apart(u)
  <2>1. SUFFICES ASSUME NEW f \in Event, NEW g \in Event, f # g, u.ev[f].type = "mutex", u.ev[g].type = "mutex"
                 PROVE  u.ev[f].pip # u.ev[g].pip /\ (u.ev[f].ptr # Nil => u.ev[f].ptr # u.ev[g].ptr)
    BY DEF Apart
  <2>2. s.ev[f].type = "mutex" /\ s.ev[g].type = "mutex"  BY <1>14, <2>1
  <2>3. s.ev[f].pip # s.ev[g].pip /\ (s.ev[f].ptr # Nil => s.ev[f].ptr # s.ev[g].ptr)
    BY <1>2, <2>1, <2>2 DEF Mutual, Apart
  <2>4. u.ev[f].pip = s.ev[f].pip /\ u.ev[g].pip = s.ev[g].pip  BY <1>6, <1>14
  <2>5. CASE f = e  BY <1>6, <1>14, <1>16, <2>1, <2>2, <2>3, <2>4, <2>5
  <2>6. CASE g = e  BY <1>6, <1>14, <1>16, <2>1, <2>2, <2>3, <2>4, <2>6
  <2>7. CASE f # e /\ g # e  BY <1>14, <2>3, <2>7
  <2> QED BY <2>5, <2>6, <2>7
<1>19. Mutual(u)
  <2> DEFINE q == s.ev[e].pip
  <2>1. \A f \in Event : f # e => u.ev[f] = s.ev[f] /\ (s.ev[f].type = "mutex" => s.ev[f].pip # q)
    BY <1>2, <1>14 DEF Mutual, Apart
  <2>2. s.tbl[q] \in {Nil, Reserved} /\ u.tbl[q] \in {Nil, Reserved} /\ q \in Prio
        /\ \A x \in Prio : x # q => u.tbl[x] = s.tbl[x]
    BY <1>2, <1>8, <1>10 DEF ECB
  <2>3. u.tcb = s.tcb /\ u.list = s.list /\ u \in KState  BY <1>8
  <2> HIDE DEF q
  <2> QED BY <1>2, <1>10, <1>17, <1>18, <2>1, <2>2, <2>3, SlotChanged
<1>20. ASSUME NEW f \in Event PROVE AwaitOK(u, f)
  <2>1. AwaitOK(s, f)  BY <1>2 DEF Awaits
  <2>2. CASE f # e
    <3>1. u.ev[f] = s.ev[f]  BY <1>14, <2>2
    <3> QED BY <1>8, <2>1, <3>1, AwaitKept
  <2>3. CASE f = e  BY <1>6, <1>11, <1>14, <2>3 DEF AwaitOK, Lifted
  <2> QED BY <2>2, <2>3
<1>21. GroupOK(u)
  <2>1. GroupOK(s)  BY <1>2 DEF Awaits
  <2> QED BY <1>8, <2>1, GroupKept
<1>22. Base(u)  BY <1>8, <1>13, <1>19, <1>20, <1>21 DEF Base, Awaits
<1>23. KInv(u)  BY <1>8, <1>22, StillRuns
<1> QED BY <1>5, <1>23

-----------------------------------------------------------------------------
(* OSSchedLock.                                                            *)
LEMMA SchedLockOK ==
    ASSUME NEW s, KInv(s)
    PROVE  KInv(OSSchedLock(s))
<1> DEFINE u == [s EXCEPT !.lock = s.lock + 1]
<1>1. OSSchedLock(s) = u  BY Zenon DEF OSSchedLock
<1>2. s \in KState /\ s.lock \in Nat /\ Base(s) /\ CurOK(s)  BY DEF KInv, Base, KState
<1>3. /\ u \in KState /\ u.tcb = s.tcb /\ u.list = s.list /\ u.tbl = s.tbl /\ u.rdy = s.rdy
      /\ u.ev = s.ev /\ u.grp = s.grp /\ u.cur = s.cur /\ u.prioCur = s.prioCur
      /\ u.lock = s.lock + 1
  BY <1>2 DEF KState
<1> HIDE DEF u
<1>4. Base(u)  BY <1>2, <1>3, SameBase
<1>5. CurOK(u)  BY <1>2, <1>3 DEF CurOK
<1>6. Runs(u)  BY <1>2, <1>3 DEF Runs
<1> QED BY <1>1, <1>4, <1>5, <1>6 DEF KInv

(* OSSchedUnlock, which makes up for what was not scheduled meanwhile.     *)
LEMMA SchedUnlockOK ==
    ASSUME NEW s, KInv(s), s.lock > 0
    PROVE  KInv(OSSchedUnlock(s))
<1> DEFINE u == [s EXCEPT !.lock = s.lock - 1]
<1>1. OSSchedUnlock(s) = OS_Sched(u)  BY Zenon DEF OSSchedUnlock
<1>2. s \in KState /\ s.lock \in Nat /\ Base(s) /\ CurOK(s)  BY DEF KInv, Base, KState
<1>3. /\ u \in KState /\ u.tcb = s.tcb /\ u.list = s.list /\ u.tbl = s.tbl /\ u.rdy = s.rdy
      /\ u.ev = s.ev /\ u.grp = s.grp /\ u.cur = s.cur /\ u.prioCur = s.prioCur
  BY <1>2 DEF KState
<1> HIDE DEF u
<1>4. Base(u)  BY <1>2, <1>3, SameBase
<1>5. CurOK(u)  BY <1>2, <1>3 DEF CurOK
<1> QED BY <1>1, <1>4, <1>5, CurStays

(* What the mutexes say of a slot that holds a task, or nothing.           *)
LEMMA SlotOfNone ==
    ASSUME NEW s, Base(s), NEW p \in Prio,
           s.tbl[p] = Nil \/ (s.tbl[p] # Reserved /\ \A e \in Event : s.ev[e].type = "mutex" => s.ev[e].ptr # s.tbl[p])
    PROVE  \A e \in Event : s.ev[e].type = "mutex" =>
                s.ev[e].pip # p /\ (s.ev[e].ptr # Nil => s.ev[e].cnt # p)
<1>1. SUFFICES ASSUME NEW e \in Event, s.ev[e].type = "mutex"
               PROVE  s.ev[e].pip # p /\ (s.ev[e].ptr # Nil => s.ev[e].cnt # p)
  OBVIOUS
<1>2. Tables(s) /\ Mutual(s)  BY DEF Base
<1>3. s.ev[e].ptr # Nil => s.tbl[s.ev[e].cnt] = s.ev[e].ptr
  BY <1>1, <1>2, PipSlot DEF OwnerOK
<1>4. \/ s.tbl[s.ev[e].pip] = Reserved
      \/ s.ev[e].ptr # Nil /\ s.tbl[s.ev[e].pip] = s.ev[e].ptr
  BY <1>1, <1>2, PipSlot
<1> QED BY <1>1, <1>3, <1>4, OsCoreAssumption

(* OSTaskChangePrio, of a task that owns no mutex and is inside no Pend.   *)
LEMMA ChangePrioOK ==
    ASSUME NEW s, KInv(s), NEW p \in Prio, p < Lowest, Exists(s, p), NEW n \in Prio,
           s.lock = 0, s.tcb[s.tbl[p]].in = "no",
           \A e \in Event : s.ev[e].type = "mutex" => s.ev[e].ptr # s.tbl[p]
    PROVE  KInv(OSTaskChangePrio(s, p, n))
<1>1. SUFFICES ASSUME s.tbl[n] = Nil PROVE KInv(OSTaskChangePrio(s, p, n))
  BY DEF OSTaskChangePrio
<1> DEFINE t == s.tbl[p]
           k == [s.tcb[t] EXCEPT !.prio = n]
           T == [s.tbl EXCEPT ![p] = Nil, ![n] = t]
           K == [s.tcb EXCEPT ![t] = k]
           R == IF p \in s.rdy THEN (s.rdy \ {p}) \cup {n} ELSE s.rdy
           u == [s EXCEPT !.tbl = T, !.tcb = K, !.rdy = R]
<1>2. /\ Base(s) /\ CurOK(s) /\ s \in KState /\ Tables(s) /\ Mutual(s) /\ Awaits(s)
      /\ s.tbl \in [Prio -> Task \cup {Idle, Nil, Reserved}] /\ s.tcb \in [Task \cup {Idle} -> TCB]
      /\ s.list \subseteq Task \cup {Idle} /\ s.rdy \subseteq Prio
  BY DEF KInv, Base, KState
<1>3. /\ t \in s.list /\ t \in Task /\ t # Idle /\ s.tcb[t] \in TCB /\ TaskOK(s, t) /\ s.tcb[t].prio = p
  BY <1>2, Named
<1>4. t # Nil /\ p # n /\ s.tcb[t].in = "no"  BY <1>1, <1>3, OsCoreAssumption
<1>5. StatOK(s, s.tcb[t]) /\ s.tcb[t].event = Nil  BY <1>3, <1>4 DEF TaskOK, StatOK
<1>6. OSTaskChangePrio(s, p, n) = OS_Sched(u)
  <2> DEFINE moved == [s EXCEPT !.tbl = [@ EXCEPT ![p] = Nil, ![n] = t], !.tcb[t].prio = n,
                           !.rdy = IF p \in @ THEN (@ \ {p}) \cup {n} ELSE @]
  <2>1. OSTaskChangePrio(s, p, n) = OS_Sched(moved)
    BY <1>1, <1>3, <1>5 DEF OSTaskChangePrio
  <2> HIDE DEF t
  <2>2. moved = u  BY <1>2, <1>3 DEF KState
  <2> QED BY <2>1, <2>2
<1>7. \A e \in Event : s.ev[e].type = "mutex" => s.ev[e].ptr # t  OBVIOUS
<1>8. s.tbl[p] = t  OBVIOUS
<1> HIDE DEF t
<1>9. /\ k \in TCB /\ k.prio = n /\ k.stat = s.tcb[t].stat /\ k.pend = s.tcb[t].pend
      /\ k.dly = s.tcb[t].dly /\ k.event = s.tcb[t].event /\ k.in = s.tcb[t].in
      /\ k.node = s.tcb[t].node
  BY <1>3 DEF TCB
<1> HIDE DEF k
<1>10. /\ T \in [Prio -> Task \cup {Idle, Nil, Reserved}] /\ T[p] = Nil /\ T[n] = t
       /\ \A q \in Prio : q # p /\ q # n => T[q] = s.tbl[q]
  BY <1>2, <1>3, <1>4
<1>11. K \in [Task \cup {Idle} -> TCB] /\ K[t] = k /\ \A x \in Task \cup {Idle} : x # t => K[x] = s.tcb[x]
  BY <1>2, <1>3, <1>9
<1>12. R \subseteq Prio /\ (\A q : q # p /\ q # n => (q \in R <=> q \in s.rdy)) /\ p \notin R
       /\ (n \in R <=> p \in s.rdy)
  <2>1. n \notin s.rdy  BY <1>1, <1>2, OsCoreAssumption DEF Tables, Home
  <2> QED BY <1>2, <1>4, <2>1
<1> HIDE DEF T, K, R
<1>13. /\ u \in KState /\ u.tcb = K /\ u.list = s.list /\ u.rdy = R /\ u.ev = s.ev
       /\ u.tbl = T /\ u.grp = s.grp /\ u.cur = s.cur /\ u.prioCur = s.prioCur
       /\ u.lock = s.lock
  BY <1>2, <1>10, <1>11, <1>12 DEF KState
<1> HIDE DEF u
<1>14. ASSUME NEW x \in s.list, x # t PROVE s.tcb[x].prio # n /\ s.tcb[x].prio # p /\ u.tcb[x] = s.tcb[x]
  <2>1. s.tbl[s.tcb[x].prio] = x  BY <1>2 DEF Tables, TaskOK
  <2> QED BY <1>1, <1>2, <1>11, <1>13, <1>14, <1>8, <2>1, OsCoreAssumption
<1>15. Tables(u)
  <2>1. \A f \in Event : ~WaitsFor(s.tcb[t], f) /\ ~WaitsFor(u.tcb[t], f)
    BY <1>4, <1>9, <1>11, <1>13 DEF WaitsFor
  <2>2. Able(u.tcb[t]) <=> Able(s.tcb[t])  BY <1>9, <1>11, <1>13 DEF Able
  <2>3. StatOK(u, u.tcb[t])  BY <1>4, <1>5, <1>9, <1>11, <1>13 DEF StatOK
  <2>4. WaitsFlag(u.tcb[t]) <=> WaitsFlag(s.tcb[t])
    BY <1>9, <1>11, <1>13 DEF WaitsFlag, Still
  <2>5. /\ u.list = s.list /\ u.tcb[t].prio = n /\ u.tbl[n] = t /\ u.grp.wait = s.grp.wait
        /\ \A q \in Prio : q # p /\ q # n => u.tbl[q] = s.tbl[q]
        /\ \A q : q # p /\ q # n => (q \in u.rdy <=> q \in s.rdy)
        /\ n \in u.rdy <=> p \in s.rdy
        /\ p # n => p \notin u.rdy
        /\ \A f \in Event : u.ev[f].wait = s.ev[f].wait /\ u.ev[f].type = s.ev[f].type
                            /\ u.ev[f].pip = s.ev[f].pip
    BY <1>9, <1>10, <1>11, <1>12, <1>13
  <2>6. \A x \in s.list : x # t => s.tcb[x].prio # n /\ u.tcb[x] = s.tcb[x]  BY <1>14
  <2>7. Moved(s, u, t, p, n)  BY <1>3, <2>1, <2>2, <2>3, <2>4, <2>5, <2>6 DEF Moved
  <2> QED BY <1>2, <1>3, <2>7, PrioChanged
<1>16. \A e \in Event : s.ev[e].type = "mutex" =>
            /\ s.ev[e].pip # p /\ (s.ev[e].ptr # Nil => s.ev[e].cnt # p)
            /\ s.ev[e].pip # n /\ (s.ev[e].ptr # Nil => s.ev[e].cnt # n)
  <2>1. t # Reserved  BY <1>3, OsCoreAssumption
  <2>2. \A e \in Event : s.ev[e].type = "mutex" =>
            /\ s.ev[e].pip # p /\ (s.ev[e].ptr # Nil => s.ev[e].cnt # p)
    BY <1>2, <1>7, <1>8, <2>1, SlotOfNone
  <2>3. \A e \in Event : s.ev[e].type = "mutex" =>
            /\ s.ev[e].pip # n /\ (s.ev[e].ptr # Nil => s.ev[e].cnt # n)
    BY <1>1, <1>2, SlotOfNone
  <2> QED BY <2>2, <2>3
<1>17. Mutual(u)
  <2>1. ASSUME NEW e \in Event PROVE MutexOK(u, e)
    <3>1. SUFFICES ASSUME s.ev[e].type = "mutex" PROVE MutexOK(u, e)  BY <1>13 DEF MutexOK
    <3>2. MutexOK(s, e) /\ s.ev[e].pip \in Prio  BY <1>2 DEF Mutual, KState, ECB
    <3>3. u.tbl[s.ev[e].pip] = s.tbl[s.ev[e].pip]  BY <1>10, <1>13, <1>16, <3>1, <3>2
    <3>4. CASE s.ev[e].ptr = Nil  BY <1>13, <3>2, <3>3, <3>4 DEF MutexOK
    <3>5. CASE s.ev[e].ptr # Nil
      <4>1. OwnerOK(s, e)  BY <3>1, <3>2, <3>5 DEF MutexOK
      <4>2. u.tbl[s.ev[e].cnt] = s.tbl[s.ev[e].cnt]
        BY <1>10, <1>13, <1>16, <3>1, <3>5, <4>1 DEF OwnerOK
      <4>3. u.tcb[s.ev[e].ptr] = s.tcb[s.ev[e].ptr]
        BY <1>14, <1>7, <3>1, <4>1 DEF OwnerOK
      <4>4. OwnerOK(u, e)  BY <1>13, <3>3, <4>1, <4>2, <4>3 DEF OwnerOK
      <4> QED BY <1>13, <3>2, <3>5, <4>4 DEF MutexOK
    <3> QED BY <3>4, <3>5
  <2>2. Apart(u)  BY <1>2, <1>13 DEF Mutual, Apart
  <2>3. ASSUME NEW q \in Prio PROVE u.tbl[q] \in {Nil, Reserved} \/ Home(u, q) \/ Lent(u, q)
    <3>1. CASE q = p  BY <1>10, <1>13, <3>1
    <3>2. CASE q = n  BY <1>3, <1>9, <1>10, <1>11, <1>13, <3>2 DEF Home
    <3>3. CASE q # p /\ q # n
      <4>1. u.tbl[q] = s.tbl[q]  BY <1>10, <1>13, <3>3
      <4>2. s.tbl[q] \in {Nil, Reserved} \/ Home(s, q) \/ Lent(s, q)
        BY <1>2 DEF Mutual, Slots
      <4>3. CASE Home(s, q)
        <5>1. s.tbl[q] # t  BY <1>3, <3>3, <4>3 DEF Home
        <5> QED BY <1>13, <1>14, <4>1, <4>3, <5>1 DEF Home
      <4>4. CASE Lent(s, q)  BY <1>13, <4>1, <4>4 DEF Lent
      <4> QED BY <4>1, <4>2, <4>3, <4>4
    <3> QED BY <3>1, <3>2, <3>3
  <2> QED BY <2>1, <2>2, <2>3 DEF Mutual, Slots
<1>18. ASSUME NEW e \in Event PROVE AwaitOK(u, e)
  <2>1. AwaitOK(s, e) /\ u.ev[e] = s.ev[e]  BY <1>2, <1>13 DEF Awaits
  <2>2. s.ev[e].type = "mutex" /\ s.ev[e].ptr # Nil => u.tcb[s.ev[e].ptr].prio = s.tcb[s.ev[e].ptr].prio
    BY <1>2, <1>14, <1>7 DEF Mutual, MutexOK, OwnerOK
  <2> QED BY <2>1, <2>2, AwaitKept
<1>19. GroupOK(u)
  <2>1. GroupOK(s) /\ s.grp.wait \subseteq s.list  BY <1>2 DEF Awaits, Tables
  <2>2. \A x \in s.list : u.tcb[x].stat = s.tcb[x].stat /\ u.tcb[x].node = s.tcb[x].node
    BY <1>9, <1>11, <1>13, <1>14
  <2> QED BY <1>13, <2>1, <2>2, GroupKept
<1>20. Base(u)  BY <1>13, <1>15, <1>17, <1>18, <1>19 DEF Base, Awaits
<1>21. u.prioCur \in u.rdy => u.tbl[u.prioCur] = u.cur
  <2>1. s.tbl[s.prioCur] = s.cur /\ s.prioCur \in Prio /\ s.prioCur = s.tcb[s.cur].prio /\ s.cur \in s.list
    BY <1>2, CurIs
  <2>2. CASE s.cur = t  BY <1>3, <1>12, <1>13, <2>1, <2>2
  <2>3. CASE s.cur # t  BY <1>10, <1>13, <1>14, <2>1, <2>3
  <2> QED BY <2>2, <2>3
<1> QED BY <1>6, <1>13, <1>20, <1>21, Scheduled

(* OSTaskCreate.                                                           *)
LEMMA TaskCreateOK ==
    ASSUME NEW s, KInv(s), NEW t \in Task, t \notin s.list, NEW p \in Prio
    PROVE  KInv(OSTaskCreate(s, t, p))
<1>1. SUFFICES ASSUME s.tbl[p] = Nil PROVE KInv(OSTaskCreate(s, t, p))
  BY DEF OSTaskCreate
<1> DEFINE k == Fresh(p)
           T == [s.tbl EXCEPT ![p] = t]
           K == [s.tcb EXCEPT ![t] = k]
           L == s.list \cup {t}
           R == s.rdy \cup {p}
           u == [s EXCEPT !.tbl = T, !.tcb = K, !.list = L, !.rdy = R]
<1>2. /\ Base(s) /\ CurOK(s) /\ s \in KState /\ Tables(s) /\ Mutual(s) /\ Awaits(s)
      /\ s.tbl \in [Prio -> Task \cup {Idle, Nil, Reserved}] /\ s.tcb \in [Task \cup {Idle} -> TCB]
      /\ s.list \subseteq Task \cup {Idle} /\ s.rdy \subseteq Prio
  BY DEF KInv, Base, KState
<1>3. OSTaskCreate(s, t, p) = OS_Sched(u)
  <2>1. OSTaskCreate(s, t, p) = OS_Sched([s EXCEPT !.tcb[t] = k,
              !.tbl[p] = t, !.list = @ \cup {t}, !.rdy = @ \cup {p}])
    BY <1>1 DEF OSTaskCreate, OS_TCBInit
  <2> HIDE DEF k
  <2>2. [s EXCEPT !.tcb[t] = k, !.tbl[p] = t, !.list = @ \cup {t}, !.rdy = @ \cup {p}] = u
    BY <1>2 DEF KState
  <2> QED BY <2>1, <2>2
<1>4. /\ k \in TCB /\ k.prio = p /\ k.stat = {} /\ k.pend = "ok"
      /\ k.dly = 0 /\ k.event = Nil /\ k.in = "no"
  <2>1. NoNode \in Node  BY DEF NoNode, Node
  <2> HIDE DEF NoNode, Node
  <2> QED BY <2>1 DEF TCB, Fresh
<1> HIDE DEF k
<1>5. /\ T \in [Prio -> Task \cup {Idle, Nil, Reserved}] /\ T[p] = t
      /\ \A q \in Prio : q # p => T[q] = s.tbl[q]
  BY <1>2
<1>6. K \in [Task \cup {Idle} -> TCB] /\ K[t] = k /\ \A x \in Task \cup {Idle} : x # t => K[x] = s.tcb[x]
  BY <1>2, <1>4
<1>7. R \subseteq Prio /\ L \subseteq Task \cup {Idle}  BY <1>2
<1> HIDE DEF T, K
<1>8. /\ u \in KState /\ u.tcb = K /\ u.list = L /\ u.rdy = R /\ u.ev = s.ev
      /\ u.tbl = T /\ u.grp = s.grp /\ u.cur = s.cur /\ u.prioCur = s.prioCur
      /\ u.lock = s.lock
  <2> HIDE DEF L, R
  <2> QED BY <1>2, <1>5, <1>6, <1>7 DEF KState
<1> HIDE DEF u
<1>9. ASSUME NEW x \in s.list PROVE s.tcb[x].prio # p /\ u.tcb[x] = s.tcb[x] /\ x # t
  <2>1. s.tbl[s.tcb[x].prio] = x  BY <1>2 DEF Tables, TaskOK
  <2> QED BY <1>1, <1>2, <1>6, <1>8, <1>9, <2>1, OsCoreAssumption
<1>10. ~Home(s, p)  BY <1>1, <1>2, OsCoreAssumption DEF Home
<1>11. ASSUME NEW q \in Prio, Home(s, q) PROVE Home(u, q)
  <2>1. q # p  BY <1>10, <1>11
  <2>2. u.tbl[q] = s.tbl[q]  BY <1>5, <1>8, <2>1
  <2> QED BY <1>8, <1>9, <1>11, <2>2 DEF Home
<1>12. Home(u, p)  BY <1>4, <1>5, <1>6, <1>8 DEF Home
<1>13. \A e \in Event : s.ev[e].wait \subseteq Prio  BY <1>2 DEF KState, ECB
<1>14. Tables(u)
  <2>1. ASSUME NEW x \in s.list PROVE TaskOK(u, x)
    <3>1. TaskOK(s, x) /\ u.tcb[x] = s.tcb[x] /\ s.tcb[x].prio # p /\ x # t
      BY <1>2, <1>9 DEF Tables
    <3>2. s.tcb[x].prio \in Prio  BY <1>2 DEF TCB
    <3>3. u.tbl[u.tcb[x].prio] = x  BY <1>5, <1>8, <3>1, <3>2 DEF TaskOK
    <3>4. u.tcb[x].prio \in u.rdy <=> Able(u.tcb[x])  BY <1>8, <3>1 DEF TaskOK
    <3>5. StatOK(u, u.tcb[x])  BY <1>8, <3>1 DEF TaskOK, StatOK
    <3> QED BY <1>8, <3>1, <3>3, <3>4, <3>5 DEF TaskOK
  <2>2. TaskOK(u, t)
    <3>1. u.tcb[t] = k  BY <1>6, <1>8
    <3>2. u.tbl[k.prio] = t  BY <1>4, <1>5, <1>8
    <3>3. k.prio \in u.rdy /\ Able(k)  BY <1>4, <1>8 DEF Able
    <3>4. StatOK(u, k)  BY <1>4 DEF StatOK
    <3>5. \A e \in Event : ~WaitsFor(k, e) /\ k.prio \notin u.ev[e].wait
      BY <1>2, <1>4, <1>8, <1>10 DEF WaitsFor, Tables
    <3>6. t \notin u.grp.wait /\ ~WaitsFlag(k)  BY <1>2, <1>4, <1>8 DEF WaitsFlag, Tables
    <3> QED BY <3>1, <3>2, <3>3, <3>4, <3>5, <3>6 DEF TaskOK
  <2>3. \A x \in u.list : TaskOK(u, x)  BY <1>8, <2>1, <2>2
  <2>4. \A q \in u.rdy : Home(u, q)  BY <1>2, <1>8, <1>11, <1>12 DEF Tables
  <2>5. \A e \in Event : \A q \in u.ev[e].wait : Home(u, q)
    BY <1>2, <1>8, <1>11, <1>13 DEF Tables
  <2>6. u.grp.wait \subseteq u.list  BY <1>2, <1>8 DEF Tables
  <2>7. Idle \in u.list /\ u.tcb[Idle] = Fresh(Lowest)  BY <1>2, <1>8, <1>9 DEF Tables
  <2> QED BY <2>3, <2>4, <2>5, <2>6, <2>7 DEF Tables
<1>15. \A e \in Event : s.ev[e].type = "mutex" =>
            s.ev[e].pip # p /\ (s.ev[e].ptr # Nil => s.ev[e].cnt # p)
  BY <1>1, <1>2, SlotOfNone
<1>16. Mutual(u)
  <2>1. ASSUME NEW e \in Event PROVE MutexOK(u, e)
    <3>1. SUFFICES ASSUME s.ev[e].type = "mutex" PROVE MutexOK(u, e)  BY <1>8 DEF MutexOK
    <3>2. MutexOK(s, e) /\ s.ev[e].pip \in Prio  BY <1>2 DEF Mutual, KState, ECB
    <3>3. u.tbl[s.ev[e].pip] = s.tbl[s.ev[e].pip]  BY <1>5, <1>8, <1>15, <3>1, <3>2
    <3>4. CASE s.ev[e].ptr = Nil  BY <1>8, <3>2, <3>3, <3>4 DEF MutexOK
    <3>5. CASE s.ev[e].ptr # Nil
      <4>1. OwnerOK(s, e)  BY <3>1, <3>2, <3>5 DEF MutexOK
      <4>2. u.tbl[s.ev[e].cnt] = s.tbl[s.ev[e].cnt]
        BY <1>5, <1>8, <1>15, <3>1, <3>5, <4>1 DEF OwnerOK
      <4>3. u.tcb[s.ev[e].ptr] = s.tcb[s.ev[e].ptr]  BY <1>9, <3>1, <4>1 DEF OwnerOK
      <4>4. OwnerOK(u, e)  BY <1>8, <3>3, <4>1, <4>2, <4>3 DEF OwnerOK
      <4> QED BY <1>8, <3>2, <3>5, <4>4 DEF MutexOK
    <3> QED BY <3>4, <3>5
  <2>2. Apart(u)  BY <1>2, <1>8 DEF Mutual, Apart
  <2>3. ASSUME NEW q \in Prio PROVE u.tbl[q] \in {Nil, Reserved} \/ Home(u, q) \/ Lent(u, q)
    <3>1. CASE q = p  BY <1>12, <3>1
    <3>2. CASE q # p
      <4>1. u.tbl[q] = s.tbl[q]  BY <1>5, <1>8, <3>2
      <4>2. s.tbl[q] \in {Nil, Reserved} \/ Home(s, q) \/ Lent(s, q)
        BY <1>2 DEF Mutual, Slots
      <4>3. CASE Lent(s, q)  BY <1>8, <4>1, <4>3 DEF Lent
      <4> QED BY <1>11, <4>1, <4>2, <4>3
    <3> QED BY <3>1, <3>2
  <2> QED BY <2>1, <2>2, <2>3 DEF Mutual, Slots
<1>17. ASSUME NEW e \in Event PROVE AwaitOK(u, e)
  <2>1. AwaitOK(s, e) /\ u.ev[e] = s.ev[e]  BY <1>2, <1>8 DEF Awaits
  <2>2. s.ev[e].type = "mutex" /\ s.ev[e].ptr # Nil => u.tcb[s.ev[e].ptr].prio = s.tcb[s.ev[e].ptr].prio
    BY <1>2, <1>9 DEF Mutual, MutexOK, OwnerOK
  <2> QED BY <2>1, <2>2, AwaitKept
<1>18. GroupOK(u)
  <2>1. GroupOK(s) /\ s.grp.wait \subseteq s.list  BY <1>2 DEF Awaits, Tables
  <2> QED BY <1>8, <1>9, <2>1, GroupKept
<1>19. Base(u)  BY <1>8, <1>14, <1>16, <1>17, <1>18 DEF Base, Awaits
<1>20. CurOK(u)  BY <1>2, <1>8, <1>9 DEF CurOK
<1> QED BY <1>3, <1>19, <1>20, CurStays

(* OSTaskDel, which takes the task out of the list it waits in.            *)
LEMMA TaskDelOK ==
    ASSUME NEW s, KInv(s), NEW p \in Prio, p < Lowest, Exists(s, p),
           s.tbl[p] = s.cur => s.lock = 0,
           \A e \in Event : s.ev[e].type = "mutex" => s.ev[e].ptr # s.tbl[p]
    PROVE  KInv(OSTaskDel(s, p))
<1> DEFINE t == s.tbl[p]
           e == s.tcb[t].event
           k == Fresh(Lowest)
           T == [s.tbl EXCEPT ![p] = Nil]
           K == [s.tcb EXCEPT ![t] = k]
           L == s.list \ {t}
           R == s.rdy \ {p}
           E == IF e = Nil THEN s.ev ELSE [s.ev EXCEPT ![e] = [s.ev[e] EXCEPT !.wait = s.ev[e].wait \ {p}]]
           G == [s.grp EXCEPT !.wait = s.grp.wait \ {t}]
           u == [s EXCEPT !.tbl = T, !.tcb = K, !.list = L, !.rdy = R, !.ev = E, !.grp = G]
<1>1. /\ Base(s) /\ CurOK(s) /\ s \in KState /\ Tables(s) /\ Mutual(s) /\ Awaits(s)
      /\ s.tbl \in [Prio -> Task \cup {Idle, Nil, Reserved}] /\ s.tcb \in [Task \cup {Idle} -> TCB]
      /\ s.list \subseteq Task \cup {Idle} /\ s.rdy \subseteq Prio /\ s.ev \in [Event -> ECB]
      /\ s.grp \in Group
  BY DEF KInv, Base, KState
<1>2. /\ t \in s.list /\ t \in Task /\ t # Idle /\ s.tcb[t] \in TCB /\ TaskOK(s, t) /\ s.tcb[t].prio = p
  BY <1>1, Named
<1>3. t # Nil /\ t # Reserved /\ e \in Event \cup {Nil}  BY <1>2, OsCoreAssumption DEF TCB
<1>4. \A f \in Event : s.ev[f].type = "mutex" => s.ev[f].ptr # t  OBVIOUS
<1>5. s.tbl[p] = t /\ (t = s.cur => s.lock = 0) /\ e = s.tcb[t].event OBVIOUS
<1>6. OSTaskDel(s, p) = OS_Sched(u)
  <2> DEFINE out == IF e = Nil THEN s ELSE [s EXCEPT !.ev[e].wait = @ \ {p}]
             v == [out EXCEPT
            !.tcb[t] = Fresh(Lowest),
            !.rdy = @ \ {p}, !.grp.wait = @ \ {t},
            !.tbl[p] = Nil, !.list = @ \ {t}]
  <2>1. OSTaskDel(s, p) = OS_Sched(v)
    BY <1>2 DEF OSTaskDel
  <2> HIDE DEF t, k, e
  <2>2. out = [s EXCEPT !.ev = E]
    <3>1. CASE e = Nil  BY <1>1, <3>1 DEF KState
    <3>2. CASE e # Nil  BY <1>1, <1>3, <3>2 DEF KState
    <3> QED BY <3>1, <3>2
  <2> HIDE DEF E, out
  <2>3. v = [s EXCEPT !.tcb[t] = k,
            !.rdy = @ \ {p}, !.grp.wait = @ \ {t},
            !.tbl[p] = Nil, !.list = @ \ {t}, !.ev = E]
    BY <1>1, <2>2 DEF KState, k
  <2>4. v = u  BY <1>1, <1>2, <2>3 DEF KState, Group
  <2> HIDE DEF v
  <2> QED BY <2>1, <2>4
<1> HIDE DEF t, e
<1>7. k \in TCB
  <2>1. NoNode \in Node /\ Lowest \in Prio  BY OsCoreAssumption DEF NoNode, Node, Prio
  <2> HIDE DEF NoNode, Node, Prio
  <2> QED BY <2>1 DEF TCB, Fresh
<1> HIDE DEF k
<1>8. /\ T \in [Prio -> Task \cup {Idle, Nil, Reserved}] /\ T[p] = Nil
      /\ \A q \in Prio : q # p => T[q] = s.tbl[q]
  BY <1>1
<1>9. K \in [Task \cup {Idle} -> TCB] /\ \A x \in Task \cup {Idle} : x # t => K[x] = s.tcb[x]
  BY <1>1, <1>7
<1>10. R \subseteq Prio /\ L \subseteq Task \cup {Idle}  BY <1>1
<1>11. E \in [Event -> ECB] /\ \A f \in Event :
          /\ E[f].type = s.ev[f].type /\ E[f].pip = s.ev[f].pip /\ E[f].cnt = s.ev[f].cnt
          /\ E[f].ptr = s.ev[f].ptr /\ E[f].wait = s.ev[f].wait \ {p}
  <2>1. ASSUME NEW f \in Event, f # e PROVE p \notin s.ev[f].wait
    <3>1. ~WaitsFor(s.tcb[t], f)  BY <1>5, <2>1 DEF WaitsFor
    <3> QED BY <1>2, <3>1 DEF TaskOK
  <2>2. CASE e = Nil
    <3>1. E = s.ev  BY <2>2
    <3>2. \A f \in Event : f # e  BY <2>2, OsCoreAssumption
    <3>3. \A f \in Event : s.ev[f].wait = s.ev[f].wait \ {p}  BY <2>1, <3>2
    <3> HIDE DEF E
    <3> QED BY <1>1, <3>1, <3>3
  <2>3. CASE e # Nil
    <3> DEFINE m == [s.ev[e] EXCEPT !.wait = s.ev[e].wait \ {p}]
    <3>1. m \in ECB /\ m.type = s.ev[e].type /\ m.pip = s.ev[e].pip /\ m.cnt = s.ev[e].cnt
          /\ m.ptr = s.ev[e].ptr /\ m.wait = s.ev[e].wait \ {p}
      BY <1>1, <1>3, <2>3 DEF ECB
    <3>2. E = [s.ev EXCEPT ![e] = m]  BY <2>3
    <3> HIDE DEF E, m
    <3>3. E \in [Event -> ECB] /\ E[e] = m /\ \A f \in Event : f # e => E[f] = s.ev[f]
      BY <1>1, <1>3, <2>3, <3>1, <3>2
    <3>4. \A f \in Event : f # e => s.ev[f].wait = s.ev[f].wait \ {p}  BY <2>1
    <3> QED BY <3>1, <3>3, <3>4
  <2> QED BY <2>2, <2>3
<1>12. G \in Group /\ G.type = s.grp.type /\ G.flags = s.grp.flags /\ G.quiet = s.grp.quiet
       /\ G.wait = s.grp.wait \ {t}
  BY <1>1 DEF Group
<1> HIDE DEF T, K, E, G
<1>13. /\ u.tcb = K /\ u.list = L /\ u.rdy = R /\ u.ev = E
       /\ u.tbl = T /\ u.grp = G /\ u.cur = s.cur /\ u.prioCur = s.prioCur
       /\ u.lock = s.lock /\ u \in KState
  <2> HIDE DEF L, R
  <2> QED BY <1>1, <1>8, <1>9, <1>10, <1>11, <1>12 DEF KState
<1> HIDE DEF u
<1>14. ASSUME NEW x \in L PROVE x \in s.list /\ x # t /\ s.tcb[x].prio # p /\ u.tcb[x] = s.tcb[x]
  <2>1. s.tbl[s.tcb[x].prio] = x /\ x \in s.list /\ x # t
    BY <1>1, <1>14 DEF Tables, TaskOK
  <2> QED BY <1>1, <1>9, <1>13, <1>5, <2>1
<1>15. ASSUME NEW q \in Prio, Home(s, q), q # p PROVE Home(u, q)
  <2>1. u.tbl[q] = s.tbl[q]  BY <1>8, <1>13, <1>15
  <2>2. s.tbl[q] # t  BY <1>2, <1>15 DEF Home
  <2>3. s.tbl[q] \in L  BY <1>15, <2>2 DEF Home
  <2> QED BY <1>13, <1>14, <1>15, <2>1, <2>3 DEF Home
<1>16. \A f \in Event : s.ev[f].wait \subseteq Prio  BY <1>1 DEF ECB
<1>17. Tables(u)
  <2>1. ASSUME NEW x \in L PROVE TaskOK(u, x)
    <3>1. x \in s.list /\ u.tcb[x] = s.tcb[x] /\ s.tcb[x].prio # p /\ x # t  BY <1>14
    <3>2. TaskOK(s, x)  BY <1>1, <3>1 DEF Tables
    <3>3. s.tcb[x].prio \in Prio  BY <1>1, <3>1 DEF TCB
    <3>4. u.tbl[u.tcb[x].prio] = x  BY <1>8, <1>13, <3>2, <3>1, <3>3 DEF TaskOK
    <3>5. u.tcb[x].prio \in u.rdy <=> Able(u.tcb[x])  BY <1>13, <3>2, <3>1 DEF TaskOK
    <3>6. StatOK(u, u.tcb[x])  BY <1>13, <1>11, <3>2, <3>1 DEF TaskOK, StatOK
    <3>7. \A f \in Event : u.tcb[x].prio \in u.ev[f].wait <=> WaitsFor(u.tcb[x], f)
      BY <1>13, <1>11, <3>2, <3>1 DEF TaskOK
    <3>8. x \in u.grp.wait <=> WaitsFlag(u.tcb[x])  BY <1>13, <1>12, <3>2, <3>1 DEF TaskOK
    <3>9. \A f \in Event : WaitsFor(u.tcb[x], f) /\ u.ev[f].type = "mutex" =>
              u.tcb[x].prio > u.ev[f].pip /\ "suspend" \notin u.tcb[x].stat
      BY <1>13, <1>11, <3>2, <3>1 DEF TaskOK
    <3> QED BY <3>4, <3>5, <3>6, <3>7, <3>8, <3>9 DEF TaskOK
  <2>2. \A x \in u.list : TaskOK(u, x)  BY <1>13, <2>1
  <2>3. \A q \in u.rdy : Home(u, q)  BY <1>1, <1>13, <1>15 DEF Tables
  <2>4. \A f \in Event : \A q \in u.ev[f].wait : Home(u, q)
    BY <1>1, <1>13, <1>11, <1>15, <1>16 DEF Tables
  <2>5. u.grp.wait \subseteq u.list  BY <1>1, <1>13, <1>12 DEF Tables
  <2>6. Idle \in u.list /\ u.tcb[Idle] = Fresh(Lowest)
    BY <1>1, <1>2, <1>13, <1>14 DEF Tables
  <2> QED BY <2>2, <2>3, <2>4, <2>5, <2>6 DEF Tables
<1>18. \A f \in Event : s.ev[f].type = "mutex" =>
            s.ev[f].pip # p /\ (s.ev[f].ptr # Nil => s.ev[f].cnt # p)
  BY <1>1, <1>3, <1>4, <1>5, SlotOfNone
<1>19. Mutual(u)
  <2>1. ASSUME NEW f \in Event PROVE MutexOK(u, f)
    <3>1. /\ u.ev[f].type = s.ev[f].type /\ u.ev[f].pip = s.ev[f].pip /\ u.ev[f].cnt = s.ev[f].cnt
          /\ u.ev[f].ptr = s.ev[f].ptr
      BY <1>13, <1>11
    <3>2. SUFFICES ASSUME s.ev[f].type = "mutex" PROVE MutexOK(u, f)  BY <3>1 DEF MutexOK
    <3>3. MutexOK(s, f) /\ s.ev[f].pip \in Prio  BY <1>1 DEF Mutual, ECB
    <3>4. u.tbl[s.ev[f].pip] = s.tbl[s.ev[f].pip]  BY <1>8, <1>13, <1>18, <3>2, <3>3
    <3>5. CASE s.ev[f].ptr = Nil  BY <3>1, <3>3, <3>4, <3>5 DEF MutexOK
    <3>6. CASE s.ev[f].ptr # Nil
      <4>1. OwnerOK(s, f)  BY <3>2, <3>3, <3>6 DEF MutexOK
      <4>2. u.tbl[s.ev[f].cnt] = s.tbl[s.ev[f].cnt]
        BY <1>8, <1>13, <1>18, <3>2, <3>6, <4>1 DEF OwnerOK
      <4>3. s.ev[f].ptr \in L  BY <1>4, <3>2, <4>1 DEF OwnerOK
      <4>4. u.tcb[s.ev[f].ptr] = s.tcb[s.ev[f].ptr]  BY <1>14, <4>3
      <4>5. OwnerOK(u, f)  BY <1>13, <3>1, <3>4, <4>1, <4>2, <4>4, <4>3 DEF OwnerOK
      <4> QED BY <3>1, <3>3, <3>6, <4>5 DEF MutexOK
    <3> QED BY <3>5, <3>6
  <2>2. Apart(u)  BY <1>1, <1>13, <1>11 DEF Mutual, Apart
  <2>3. ASSUME NEW q \in Prio PROVE u.tbl[q] \in {Nil, Reserved} \/ Home(u, q) \/ Lent(u, q)
    <3>1. CASE q = p  BY <1>8, <1>13, <3>1
    <3>2. CASE q # p
      <4>1. u.tbl[q] = s.tbl[q]  BY <1>8, <1>13, <3>2
      <4>2. s.tbl[q] \in {Nil, Reserved} \/ Home(s, q) \/ Lent(s, q)
        BY <1>1 DEF Mutual, Slots
      <4>3. CASE Home(s, q)  BY <1>15, <3>2, <4>3
      <4>4. CASE Lent(s, q)  BY <1>13, <1>11, <4>1, <4>4 DEF Lent
      <4> QED BY <4>1, <4>2, <4>3, <4>4
    <3> QED BY <3>1, <3>2
  <2> QED BY <2>1, <2>2, <2>3 DEF Mutual, Slots
<1>20. ASSUME NEW f \in Event PROVE AwaitOK(u, f)
  <2>1. AwaitOK(s, f)  BY <1>1 DEF Awaits
  <2>2. s.ev[f].type = "mutex" /\ s.ev[f].ptr # Nil => u.tcb[s.ev[f].ptr].prio = s.tcb[s.ev[f].ptr].prio
    BY <1>1, <1>14, <1>4 DEF Mutual, MutexOK, OwnerOK
  <2>3. /\ u.ev[f].type = s.ev[f].type /\ u.ev[f].pip = s.ev[f].pip /\ u.ev[f].cnt = s.ev[f].cnt
        /\ u.ev[f].ptr = s.ev[f].ptr /\ u.ev[f].wait \subseteq s.ev[f].wait
    BY <1>13, <1>11
  <2> QED BY <2>1, <2>2, <2>3, AwaitKept
<1>21. GroupOK(u)
  <2>1. GroupOK(s) /\ s.grp.wait \subseteq s.list  BY <1>1 DEF Awaits, Tables
  <2>2. \A x \in u.grp.wait : u.tcb[x] = s.tcb[x]  BY <1>13, <1>14, <1>12, <2>1
  <2>3. u.grp.type = s.grp.type /\ u.grp.flags = s.grp.flags /\ u.grp.quiet = s.grp.quiet
        /\ u.grp.wait \subseteq s.grp.wait
    BY <1>13, <1>12
  <2> QED BY <2>1, <2>2, <2>3, GroupKept
<1>22. Base(u)  BY <1>13, <1>17, <1>19, <1>20, <1>21 DEF Base, Awaits
<1>23. (u.prioCur \in u.rdy => u.tbl[u.prioCur] = u.cur) /\ (u.lock = 0 \/ u.prioCur \in u.rdy)
  <2>1. s.tbl[s.prioCur] = s.cur /\ s.prioCur \in Prio /\ s.prioCur = s.tcb[s.cur].prio /\ s.cur \in s.list
        /\ s.prioCur \in s.rdy
    BY <1>1, CurIs DEF CurOK
  <2>2. CASE s.cur = t  BY <1>2, <1>13, <1>5, <2>1, <2>2
  <2>3. CASE s.cur # t
    <3>1. s.prioCur # p  BY <1>14, <2>1, <2>3
    <3> QED BY <1>8, <1>13, <2>1, <3>1
  <2> QED BY <2>2, <2>3
<1> QED BY <1>6, <1>22, <1>23, Scheduled

-----------------------------------------------------------------------------
(* The owner of a mutex waits for nothing.                                 *)
LEMMA OwnerFree ==
    ASSUME NEW s, NEW k, NEW e \in Event, Holds(k, e), NEW f
    PROVE  ~WaitsFor(k, f) /\ ~WaitsFlag(k)
BY DEF Holds, WaitsFor, WaitsFlag, Still

(* The owner moves up to the PIP; its own slot is kept for it.             *)
LEMMA RaiseOK ==
    ASSUME NEW s, Base(s), CurOK(s), NEW e \in Event, s.ev[e].type = "mutex", s.ev[e].ptr # Nil,
           s.tcb[s.ev[e].ptr].prio > s.ev[e].pip, s.cur # s.ev[e].ptr
    PROVE  /\ Base(Raise(s, e)) /\ CurOK(Raise(s, e)) /\ Raise(s, e).ev = s.ev
           /\ Raise(s, e).cur = s.cur /\ Raise(s, e).prioCur = s.prioCur /\ Raise(s, e).lock = s.lock
           /\ Raise(s, e).tcb[s.cur] = s.tcb[s.cur]
           /\ Raise(s, e).tcb[s.ev[e].ptr].prio = s.ev[e].pip
<1> DEFINE t == s.ev[e].ptr
           n == s.ev[e].pip
           p == s.tcb[t].prio
           k == [s.tcb[t] EXCEPT !.prio = n]
           T == [s.tbl EXCEPT ![n] = t]
           K == [s.tcb EXCEPT ![t] = k]
           R == IF p \in s.rdy THEN (s.rdy \ {p}) \cup {n} ELSE s.rdy
           u == [s EXCEPT !.tbl = T, !.tcb = K, !.rdy = R]
<1>1. /\ s \in KState /\ Tables(s) /\ Mutual(s) /\ Awaits(s)
      /\ s.tbl \in [Prio -> Task \cup {Idle, Nil, Reserved}] /\ s.tcb \in [Task \cup {Idle} -> TCB]
      /\ s.list \subseteq Task \cup {Idle} /\ s.rdy \subseteq Prio /\ s.ev \in [Event -> ECB]
  BY DEF Base, KState
<1>2. OwnerOK(s, e) /\ TaskOK(s, t)  BY <1>1, PipSlot
<1>3. /\ t \in s.list /\ t \in Task /\ t # Idle /\ t # Nil /\ t # Reserved /\ s.tcb[t] \in TCB
      /\ Holds(s.tcb[t], e) /\ s.cur # t
  BY <1>1, <1>2, OsCoreAssumption DEF OwnerOK
<1>4. n \in Prio /\ p \in Prio /\ p > n  BY <1>1, <1>3 DEF ECB, TCB
<1>5. p = s.ev[e].cnt /\ s.tbl[n] = Reserved /\ s.tbl[p] = t /\ p # n
  <2>1. p # n  BY <1>4, OsCoreAssumption DEF Prio
  <2> QED BY <1>2, <2>1 DEF OwnerOK
<1>6. p \in s.rdy \/ s.tcb[t].event = Nil
  <2>1. CASE s.tcb[t].in = "no"  BY <1>2, <2>1 DEF TaskOK, StatOK
  <2>2. CASE s.tcb[t].in # "no"
    <3>1. Able(s.tcb[t])  BY <1>3, <2>2 DEF Holds, Able
    <3> QED BY <1>2, <3>1 DEF TaskOK
  <2> QED BY <2>1, <2>2
<1>7. Raise(s, e) = u
  <2> DEFINE raised == [s EXCEPT !.tcb[t].prio = n, !.tbl[n] = t]
  <2>1. CASE p \in s.rdy
    <3>1. Raise(s, e) = [raised EXCEPT !.rdy = Move(@, p, n)]  BY <2>1 DEF Raise
    <3> HIDE DEF t, n, p
    <3>2. raised = [s EXCEPT !.tbl = T, !.tcb = K]  BY <1>1, <1>3, <1>4 DEF KState
    <3> HIDE DEF raised, T, K
    <3>3. Raise(s, e) = [s EXCEPT !.tbl = T, !.tcb = K, !.rdy = Move(s.rdy, p, n)]
      BY <1>1, <3>1, <3>2 DEF KState
    <3>4. Move(s.rdy, p, n) = R  BY DEF Move
    <3> QED BY <3>3, <3>4
  <2>2. CASE p \notin s.rdy
    <3>1. s.tcb[t].event = Nil  BY <1>6, <2>2
    <3>2. Raise(s, e) = raised  BY <2>2, <3>1 DEF Raise
    <3> HIDE DEF t, n, p
    <3>3. raised = [s EXCEPT !.tbl = T, !.tcb = K]  BY <1>1, <1>3, <1>4 DEF KState
    <3>4. R = s.rdy  BY <2>2
    <3> HIDE DEF raised, T, K, R
    <3> QED BY <1>1, <3>2, <3>3, <3>4 DEF KState
  <2> QED BY <2>1, <2>2
<1>8. /\ t = s.ev[e].ptr /\ n = s.ev[e].pip /\ s.tcb[t].prio = p  OBVIOUS
<1> HIDE DEF t, n, p
<1>9. /\ k \in TCB /\ k.prio = n /\ k.stat = s.tcb[t].stat /\ k.pend = s.tcb[t].pend
      /\ k.dly = s.tcb[t].dly /\ k.event = s.tcb[t].event /\ k.in = s.tcb[t].in
      /\ k.node = s.tcb[t].node
  BY <1>3, <1>4 DEF TCB
<1> HIDE DEF k
<1>10. /\ T \in [Prio -> Task \cup {Idle, Nil, Reserved}] /\ T[n] = t
       /\ \A q \in Prio : q # n => T[q] = s.tbl[q]
  BY <1>1, <1>3, <1>4
<1>11. K \in [Task \cup {Idle} -> TCB] /\ K[t] = k /\ \A x \in Task \cup {Idle} : x # t => K[x] = s.tcb[x]
  BY <1>1, <1>3, <1>9
<1>12. ~Home(s, n)  BY <1>1, <1>5, OsCoreAssumption DEF Home
<1>13. R \subseteq Prio /\ (\A q : q # p /\ q # n => (q \in R <=> q \in s.rdy)) /\ p \notin R
      /\ (n \in R <=> p \in s.rdy)
  <2>1. n \notin s.rdy  BY <1>1, <1>12 DEF Tables
  <2> QED BY <1>1, <1>4, <1>5, <2>1
<1> HIDE DEF T, K, R
<1>14. /\ u \in KState /\ u.tcb = K /\ u.list = s.list /\ u.rdy = R /\ u.ev = s.ev
       /\ u.tbl = T /\ u.grp = s.grp /\ u.cur = s.cur /\ u.prioCur = s.prioCur
       /\ u.lock = s.lock
  BY <1>1, <1>10, <1>11, <1>13 DEF KState
<1> HIDE DEF u
<1>15. ASSUME NEW x \in s.list, x # t PROVE s.tcb[x].prio # n /\ u.tcb[x] = s.tcb[x]
  <2>1. s.tbl[s.tcb[x].prio] = x  BY <1>1 DEF Tables, TaskOK
  <2> QED BY <1>1, <1>5, <1>11, <1>14, <1>15, <2>1, OsCoreAssumption
<1>16. Holds(u.tcb[t], e)  BY <1>3, <1>9, <1>11, <1>14 DEF Holds
<1>17. Tables(u)
  <2>1. \A f \in Event : ~WaitsFor(s.tcb[t], f) /\ ~WaitsFor(u.tcb[t], f)
    BY <1>3, <1>16, OwnerFree
  <2>2. Able(u.tcb[t]) <=> Able(s.tcb[t])  BY <1>9, <1>11, <1>14 DEF Able
  <2>3. StatOK(u, u.tcb[t])
    <3>1. StatOK(s, s.tcb[t])  BY <1>2 DEF TaskOK
    <3> QED BY <1>9, <1>11, <1>14, <3>1 DEF StatOK
  <2>4. WaitsFlag(u.tcb[t]) <=> WaitsFlag(s.tcb[t])  BY <1>3, <1>16, OwnerFree
  <2>5. /\ u.list = s.list /\ u.tcb[t].prio = n /\ u.tbl[n] = t /\ u.grp.wait = s.grp.wait
        /\ \A q \in Prio : q # p /\ q # n => u.tbl[q] = s.tbl[q]
        /\ \A q : q # p /\ q # n => (q \in u.rdy <=> q \in s.rdy)
        /\ n \in u.rdy <=> p \in s.rdy
        /\ p # n => p \notin u.rdy
        /\ \A f \in Event : u.ev[f].wait = s.ev[f].wait /\ u.ev[f].type = s.ev[f].type
                            /\ u.ev[f].pip = s.ev[f].pip
    BY <1>9, <1>10, <1>11, <1>13, <1>14
  <2>6. \A x \in s.list : x # t => s.tcb[x].prio # n /\ u.tcb[x] = s.tcb[x]  BY <1>15
  <2>7. Moved(s, u, t, p, n)  BY <1>8, <2>1, <2>2, <2>3, <2>4, <2>5, <2>6 DEF Moved
  <2> QED BY <1>1, <1>3, <2>7, PrioChanged
<1>18. ASSUME NEW f \in Event, f # e, s.ev[f].type = "mutex"
       PROVE  s.ev[f].pip # n /\ s.ev[f].ptr # t
  BY <1>1, <1>3, <1>8, <1>18 DEF Mutual, Apart
<1>19. Mutual(u)
  <2>1. ASSUME NEW f \in Event, f # e PROVE MutexOK(u, f)
    <3>1. SUFFICES ASSUME s.ev[f].type = "mutex" PROVE MutexOK(u, f)  BY <1>14 DEF MutexOK
    <3>2. MutexOK(s, f) /\ s.ev[f].pip \in Prio  BY <1>1 DEF Mutual, ECB
    <3>3. u.tbl[s.ev[f].pip] = s.tbl[s.ev[f].pip]
      BY <1>10, <1>14, <1>18, <2>1, <3>1, <3>2
    <3>4. CASE s.ev[f].ptr = Nil  BY <1>14, <3>2, <3>3, <3>4 DEF MutexOK
    <3>5. CASE s.ev[f].ptr # Nil
      <4>1. OwnerOK(s, f)  BY <3>1, <3>2, <3>5 DEF MutexOK
      <4>2. s.ev[f].cnt # n  BY <1>5, <4>1, OsCoreAssumption DEF OwnerOK
      <4>3. u.tbl[s.ev[f].cnt] = s.tbl[s.ev[f].cnt]
        BY <1>10, <1>14, <4>2, <4>1 DEF OwnerOK
      <4>4. u.tcb[s.ev[f].ptr] = s.tcb[s.ev[f].ptr]
        BY <1>15, <1>18, <2>1, <3>1, <4>1 DEF OwnerOK
      <4>5. OwnerOK(u, f)  BY <1>14, <3>3, <4>1, <4>3, <4>4 DEF OwnerOK
      <4> QED BY <1>14, <3>2, <3>5, <4>5 DEF MutexOK
    <3> QED BY <3>4, <3>5
  <2>2. MutexOK(u, e)
    <3>1. u.tbl[s.ev[e].cnt] = t  BY <1>4, <1>5, <1>10, <1>14
    <3>2. u.tcb[t].prio = n  BY <1>9, <1>11, <1>14
    <3>3. OwnerOK(u, e)  BY <1>2, <1>8, <1>14, <1>16, <3>1, <3>2 DEF OwnerOK
    <3>4. MutexOK(s, e)  BY <1>1 DEF Mutual
    <3> QED BY <1>3, <1>8, <1>14, <3>3, <3>4 DEF MutexOK
  <2>3. Apart(u)  BY <1>1, <1>14 DEF Mutual, Apart
  <2>4. ASSUME NEW q \in Prio PROVE u.tbl[q] \in {Nil, Reserved} \/ Home(u, q) \/ Lent(u, q)
    <3>1. CASE q = n  BY <1>3, <1>9, <1>10, <1>11, <1>14, <3>1 DEF Home
    <3>2. CASE q = p
      <4>1. u.tbl[q] = t  BY <1>5, <1>10, <1>14, <3>2
      <4> QED BY <1>5, <1>8, <1>14, <3>2, <4>1 DEF Lent
    <3>3. CASE q # p /\ q # n
      <4>1. u.tbl[q] = s.tbl[q]  BY <1>10, <1>14, <3>3
      <4>2. s.tbl[q] \in {Nil, Reserved} \/ Home(s, q) \/ Lent(s, q)
        BY <1>1 DEF Mutual, Slots
      <4>3. CASE Home(s, q)
        <5>1. s.tbl[q] # t  BY <1>8, <3>3, <4>3 DEF Home
        <5> QED BY <1>14, <1>15, <4>1, <4>3, <5>1 DEF Home
      <4>4. CASE Lent(s, q)  BY <1>14, <4>1, <4>4 DEF Lent
      <4> QED BY <4>1, <4>2, <4>3, <4>4
    <3> QED BY <3>1, <3>2, <3>3
  <2> QED BY <2>1, <2>2, <2>3, <2>4 DEF Mutual, Slots
<1>20. ASSUME NEW f \in Event PROVE AwaitOK(u, f)
  <2>1. AwaitOK(s, f) /\ u.ev[f] = s.ev[f]  BY <1>1, <1>14 DEF Awaits
  <2>2. CASE f # e
    <3>1. s.ev[f].type = "mutex" /\ s.ev[f].ptr # Nil => u.tcb[s.ev[f].ptr].prio = s.tcb[s.ev[f].ptr].prio
      BY <1>1, <1>15, <1>18, <2>2 DEF Mutual, MutexOK, OwnerOK
    <3> QED BY <2>1, <3>1, AwaitKept
  <2>3. CASE f = e
    <3>1. u.tcb[t].prio = n  BY <1>9, <1>11, <1>14
    <3>2. Lifted(u, e)  BY <1>8, <1>14, <3>1 DEF Lifted
    <3> QED BY <1>14, <2>1, <2>3, <3>2 DEF AwaitOK
  <2> QED BY <2>2, <2>3
<1>21. GroupOK(u)
  <2>1. GroupOK(s) /\ s.grp.wait \subseteq s.list  BY <1>1 DEF Awaits, Tables
  <2>2. \A x \in s.list : u.tcb[x].stat = s.tcb[x].stat /\ u.tcb[x].node = s.tcb[x].node
    BY <1>9, <1>11, <1>14, <1>15
  <2> QED BY <1>14, <2>1, <2>2, GroupKept
<1>22. Base(u)  BY <1>14, <1>17, <1>19, <1>20, <1>21 DEF Base, Awaits
<1>23. u.tcb[s.cur] = s.tcb[s.cur] /\ CurOK(u)
  <2>1. s.cur \in s.list /\ s.prioCur = s.tcb[s.cur].prio /\ s.prioCur \in s.rdy
    BY DEF CurOK
  <2>2. u.tcb[s.cur] = s.tcb[s.cur] /\ s.prioCur # n  BY <1>3, <1>15, <2>1
  <2>3. s.prioCur # p  BY <1>1, <1>3, <1>8, <2>1, OnePrio
  <2> QED BY <1>13, <1>14, <2>1, <2>2, <2>3 DEF CurOK
<1>24. u.tcb[t].prio = n  BY <1>9, <1>11, <1>14
<1> QED BY <1>7, <1>8, <1>14, <1>22, <1>23, <1>24

(* OSMutexPend takes the mutex, or raises its owner and waits.             *)
LEMMA MutexPendOK ==
    ASSUME NEW s, KInv(s), s.lock = 0, s.cur \in Task, Cur(s).in = "no", NEW e \in Event,
           s.ev[e].type = "mutex", NEW d \in Nat, s.prioCur > s.ev[e].pip,
           \A f \in Event : s.ev[f].type = "mutex" => s.ev[f].ptr # s.cur
    PROVE  KInv(OSMutexPend(s, e, d))
<1>1. CASE s.ev[e].cnt = Available
  BY <1>1, MutexAcceptOK DEF OSMutexPend
<1>2. CASE s.ev[e].cnt # Available
  <2> DEFINE t == s.ev[e].ptr
  <2>1. Base(s) /\ CurOK(s) /\ Tables(s) /\ Mutual(s) /\ MutexOK(s, e)
    BY DEF KInv, Base, Mutual
  <2>2. t # Nil /\ OwnerOK(s, e)  BY <1>2, <2>1 DEF MutexOK
  <2>3. Cur(s).prio = s.prioCur  BY <2>1, CurIs DEF Cur
  <2>4. s.cur # t  OBVIOUS
  <2>5. CASE s.tcb[t].prio > s.ev[e].pip /\ s.ev[e].cnt > s.prioCur
    <3> DEFINE u == Raise(s, e)
    <3>1. OSMutexPend(s, e, d) = Wait(u, e, d)  BY <1>2, <2>3, <2>5 DEF OSMutexPend
    <3>2. /\ Base(u) /\ CurOK(u) /\ u.ev = s.ev /\ u.cur = s.cur /\ u.prioCur = s.prioCur
          /\ u.lock = s.lock /\ u.tcb[s.cur] = s.tcb[s.cur] /\ u.tcb[t].prio = s.ev[e].pip
      BY <2>1, <2>2, <2>4, <2>5, RaiseOK
    <3> HIDE DEF u
    <3>3. u.lock = 0 /\ u.cur \in Task /\ Cur(u).in = "no"  BY <3>2 DEF Cur
    <3>4. \A f \in Event : u.ev[f].type = "mutex" => u.ev[f].ptr # u.cur  BY <3>2
    <3>5. /\ u.ev[e].type = "mutex" /\ u.ev[e].ptr # Nil /\ u.prioCur > u.ev[e].pip
          /\ u.tcb[u.ev[e].ptr].prio = u.ev[e].pip
      BY <2>2, <3>2
    <3>6. KInv(Wait(u, e, d))  BY <3>2, <3>3, <3>4, <3>5, WaitBase
    <3> QED BY <3>1, <3>6
  <2>6. CASE ~(s.tcb[t].prio > s.ev[e].pip /\ s.ev[e].cnt > s.prioCur)
    <3>1. OSMutexPend(s, e, d) = Wait(s, e, d)  BY <1>2, <2>3, <2>6 DEF OSMutexPend
    <3>2. s.prioCur < s.ev[e].cnt => s.tcb[t].prio = s.ev[e].pip
      <4>1. s.prioCur \in Prio  BY <2>1, CurIs
      <4>2. s.prioCur \in Int /\ s.ev[e].cnt \in Int
        BY <2>2, <4>1, OsCoreAssumption DEF OwnerOK, Prio
      <4>3. s.tcb[t].prio = s.ev[e].cnt \/ s.tcb[t].prio = s.ev[e].pip
        BY <2>2 DEF OwnerOK
      <4>4. s.ev[e].cnt > s.ev[e].pip  BY <2>2 DEF OwnerOK
      <4> QED BY <2>6, <4>2, <4>3, <4>4
    <3>3. KInv(Wait(s, e, d))  BY <2>1, <2>2, <3>2, WaitBase
    <3> QED BY <3>1, <3>3
  <2> QED BY <2>5, <2>6
<1> QED BY <1>1, <1>2

-----------------------------------------------------------------------------
(* The running task owns e and goes back to the priority it had; the slot  *)
(* of the PIP is left open.                                                *)
Lowered(s, u, e) ==
    /\ u \in KState /\ u.list = s.list /\ u.ev = s.ev /\ u.grp = s.grp /\ u.cur = s.cur
    /\ u.lock = s.lock /\ u.defer = s.defer
    /\ \A x \in Task \cup {Idle} : x # s.cur => u.tcb[x] = s.tcb[x]
    /\ u.tcb[s.cur].prio = s.ev[e].cnt
    /\ u.tcb[s.cur].stat = s.tcb[s.cur].stat /\ u.tcb[s.cur].pend = s.tcb[s.cur].pend
    /\ u.tcb[s.cur].dly = s.tcb[s.cur].dly /\ u.tcb[s.cur].event = s.tcb[s.cur].event
    /\ u.tcb[s.cur].in = s.tcb[s.cur].in /\ u.tcb[s.cur].node = s.tcb[s.cur].node
    /\ \A q \in Prio : q # s.ev[e].pip => u.tbl[q] = s.tbl[q]
    /\ u.prioCur = s.ev[e].cnt /\ s.ev[e].cnt \in u.rdy /\ s.ev[e].pip \notin u.rdy
    /\ \A q : q # s.ev[e].pip /\ q # s.ev[e].cnt => (q \in u.rdy <=> q \in s.rdy)
    /\ s.tcb[s.cur].prio # s.ev[e].pip =>
            u.rdy = s.rdy /\ u.prioCur = s.prioCur /\ u.tcb[s.cur] = s.tcb[s.cur]

(* What the running task is when it owns e.                                *)
LEMMA CurOwner ==
    ASSUME NEW s, KInv(s), NEW e \in Event, s.ev[e].type = "mutex", s.ev[e].ptr = s.cur
    PROVE  /\ s \in KState /\ Tables(s) /\ Mutual(s) /\ OwnerOK(s, e) /\ TaskOK(s, s.cur)
           /\ s.cur \in Task /\ s.cur \in s.list /\ s.cur # Idle /\ s.cur # Nil /\ s.cur # Reserved
           /\ s.ev[e].pip \in Prio /\ s.ev[e].cnt \in Prio /\ s.ev[e].pip # s.ev[e].cnt
           /\ s.tcb[s.cur] \in TCB /\ s.tcb[s.cur].prio = s.prioCur /\ s.prioCur \in s.rdy
           /\ s.tbl[s.ev[e].cnt] = s.cur
           /\ \/ s.tcb[s.cur].prio = s.ev[e].cnt /\ s.tbl[s.ev[e].pip] = Reserved
              \/ s.tcb[s.cur].prio = s.ev[e].pip /\ s.tbl[s.ev[e].pip] = s.cur
           /\ s.tcb[s.cur].stat = {} /\ s.tcb[s.cur].dly = 0
<1>1. s \in KState /\ Tables(s) /\ Mutual(s) /\ Base(s) /\ CurOK(s)  BY DEF KInv, Base
<1>2. s.cur \in s.list /\ TaskOK(s, s.cur) /\ s.tcb[s.cur] \in TCB /\ s.tcb[s.cur].prio = s.prioCur
      /\ s.prioCur \in s.rdy /\ s.tcb[s.cur].stat = {} /\ s.tcb[s.cur].dly = 0
      /\ s.tbl[s.tcb[s.cur].prio] = s.cur
  BY <1>1, CurIs DEF CurOK
<1>3. s.cur \in Task \cup {Idle}  BY <1>1 DEF KState
<1>4. s.cur # Nil /\ s.cur # Reserved  BY <1>3, OsCoreAssumption
<1>5. OwnerOK(s, e)  BY <1>1, <1>4 DEF Mutual, MutexOK
<1>6. s.cur \in Task /\ s.cur # Idle  BY <1>5, OsCoreAssumption DEF OwnerOK
<1>7. s.ev[e].pip \in Prio  BY <1>1 DEF KState, ECB
<1>8. s.ev[e].cnt \in Prio /\ s.ev[e].cnt > s.ev[e].pip /\ s.tbl[s.ev[e].cnt] = s.cur
  BY <1>5 DEF OwnerOK
<1>9. s.ev[e].pip # s.ev[e].cnt  BY <1>7, <1>8, OsCoreAssumption DEF Prio
<1>10. \/ s.tcb[s.cur].prio = s.ev[e].cnt /\ s.tbl[s.ev[e].pip] = Reserved
       \/ s.tcb[s.cur].prio = s.ev[e].pip
  BY <1>5 DEF OwnerOK
<1> QED BY <1>1, <1>2, <1>4, <1>5, <1>6, <1>7, <1>8, <1>9, <1>10

(* OSMutex_RdyAtPrio, if the owner was raised.                             *)
LEMMA LowFields ==
    ASSUME NEW s, KInv(s), NEW e \in Event, s.ev[e].type = "mutex", s.ev[e].ptr = s.cur,
           NEW low, low = IF s.tcb[s.cur].prio = s.ev[e].pip
                          THEN OSMutex_RdyAtPrio(s, s.cur, s.ev[e].cnt) ELSE s
    PROVE  Lowered(s, low, e) /\ low.tbl = s.tbl
           /\ (s.tcb[s.cur].prio # s.ev[e].pip => low = s)
<1> DEFINE c == s.cur
           p == s.ev[e].pip
           n == s.ev[e].cnt
<1>1. /\ s \in KState /\ Tables(s) /\ c \in Task /\ c \in s.list /\ p \in Prio /\ n \in Prio /\ p # n
      /\ s.tcb[c] \in TCB /\ s.tcb[c].prio = s.prioCur /\ s.prioCur \in s.rdy
      /\ s.tbl[n] = c
      /\ \/ s.tcb[c].prio = n /\ s.tbl[p] = Reserved
         \/ s.tcb[c].prio = p /\ s.tbl[p] = c
  BY CurOwner
<1>2. /\ s.tbl \in [Prio -> Task \cup {Idle, Nil, Reserved}] /\ s.tcb \in [Task \cup {Idle} -> TCB]
      /\ s.list \subseteq Task \cup {Idle} /\ s.rdy \subseteq Prio
  BY <1>1 DEF KState
<1>3. c = s.cur /\ p = s.ev[e].pip /\ n = s.ev[e].cnt  OBVIOUS
<1>4. CASE s.tcb[c].prio = p
  <2> DEFINE k == [s.tcb[c] EXCEPT !.prio = n]
             K == [s.tcb EXCEPT ![c] = k]
             R == (s.rdy \ {p}) \cup {n}
             u == [s EXCEPT !.tcb = K, !.rdy = R, !.prioCur = n]
  <2>1. low = [s EXCEPT !.rdy = (@ \ {s.tcb[c].prio}) \cup {n}, !.tcb[c].prio = n,
              !.prioCur = n, !.tbl[n] = c]
    BY <1>4 DEF OSMutex_RdyAtPrio
  <2> HIDE DEF c, p, n
  <2>2. low = u
    <3>1. [s.tbl EXCEPT ![n] = c] = s.tbl  BY <1>1, <1>2
    <3>2. low = [s EXCEPT !.rdy = R, !.tcb = K, !.prioCur = n, !.tbl = [s.tbl EXCEPT ![n] = c]]
      BY <1>1, <1>2, <1>4, <2>1 DEF KState
    <3> HIDE DEF R, K
    <3> QED BY <1>1, <3>1, <3>2 DEF KState
  <2>3. /\ k \in TCB /\ k.prio = n /\ k.stat = s.tcb[c].stat /\ k.pend = s.tcb[c].pend
        /\ k.dly = s.tcb[c].dly /\ k.event = s.tcb[c].event /\ k.in = s.tcb[c].in
        /\ k.node = s.tcb[c].node
    BY <1>1 DEF TCB
  <2> HIDE DEF k
  <2>4. K \in [Task \cup {Idle} -> TCB] /\ K[c] = k /\ \A x \in Task \cup {Idle} : x # c => K[x] = s.tcb[x]
    BY <1>1, <1>2, <2>3
  <2>5. R \subseteq Prio /\ n \in R /\ p \notin R /\ \A q : q # p /\ q # n => (q \in R <=> q \in s.rdy)
    BY <1>1, <1>2
  <2> HIDE DEF K, R
  <2>6. /\ u \in KState /\ u.tcb = K /\ u.list = s.list /\ u.rdy = R /\ u.ev = s.ev
        /\ u.tbl = s.tbl /\ u.grp = s.grp /\ u.cur = s.cur /\ u.prioCur = n
        /\ u.lock = s.lock /\ u.defer = s.defer
    BY <1>1, <2>4, <2>5 DEF KState
  <2> HIDE DEF u
  <2>7. Lowered(s, u, e)  BY <1>3, <1>4, <2>3, <2>4, <2>5, <2>6 DEF Lowered
  <2> QED BY <1>3, <1>4, <2>2, <2>6, <2>7
<1>5. CASE s.tcb[c].prio # p
  <2>1. low = s  BY <1>5
  <2>2. s.tcb[c].prio = n /\ s.tbl[p] = Reserved  BY <1>1, <1>5
  <2>3. p \notin s.rdy  BY <1>1, <1>2, <2>2, OsCoreAssumption DEF Tables, Home
  <2> HIDE DEF c, p, n
  <2>4. Lowered(s, s, e)  BY <1>1, <1>3, <2>2, <2>3 DEF Lowered
  <2> QED BY <2>1, <2>4
<1> QED BY <1>4, <1>5

(* The slot of the PIP may change again.                                   *)
LEMMA LowSlot ==
    ASSUME NEW s, NEW u, NEW e, Lowered(s, u, e),
           s.ev[e].pip \in Prio, NEW v, v = [u EXCEPT !.tbl[s.ev[e].pip] = Reserved]
    PROVE  Lowered(s, v, e) /\ v.tbl[s.ev[e].pip] = Reserved
<1> DEFINE p == s.ev[e].pip
           T == [u.tbl EXCEPT ![p] = Reserved]
           w == [u EXCEPT !.tbl = T]
<1>1. u \in KState /\ u.tbl \in [Prio -> Task \cup {Idle, Nil, Reserved}] /\ p \in Prio
  BY DEF Lowered, KState
<1>2. v = w  BY <1>1 DEF KState
<1>3. T \in [Prio -> Task \cup {Idle, Nil, Reserved}] /\ T[p] = Reserved /\ \A q \in Prio : q # p => T[q] = u.tbl[q]
  BY <1>1
<1> HIDE DEF T
<1>4. /\ w \in KState /\ w.tcb = u.tcb /\ w.list = u.list /\ w.rdy = u.rdy /\ w.ev = u.ev
      /\ w.tbl = T /\ w.grp = u.grp /\ w.cur = u.cur /\ w.prioCur = u.prioCur
      /\ w.lock = u.lock /\ w.defer = u.defer
  BY <1>1, <1>3 DEF KState
<1> HIDE DEF w
<1>5. Lowered(s, w, e)  BY <1>3, <1>4 DEF Lowered
<1> QED BY <1>2, <1>3, <1>4, <1>5

(* The tables while the slot of the PIP is open.                           *)
LEMMA LowTables ==
    ASSUME NEW s, KInv(s), NEW e \in Event, s.ev[e].type = "mutex", s.ev[e].ptr = s.cur,
           NEW u, Lowered(s, u, e)
    PROVE  /\ Tables(u) /\ ~Home(u, s.ev[e].pip) /\ Waiters(u, e) = Waiters(s, e)
           /\ u.tbl[u.prioCur] = u.cur
<1> DEFINE c == s.cur
           p == s.ev[e].pip
           n == s.ev[e].cnt
<1>1. /\ s \in KState /\ Tables(s) /\ c \in Task /\ c \in s.list /\ p \in Prio /\ n \in Prio /\ p # n
      /\ s.tcb[c] \in TCB /\ s.tcb[c].prio = s.prioCur /\ s.prioCur \in s.rdy
      /\ s.tbl[n] = c /\ c # Idle /\ c # Reserved /\ TaskOK(s, c) /\ OwnerOK(s, e)
      /\ \/ s.tcb[c].prio = n /\ s.tbl[p] = Reserved
         \/ s.tcb[c].prio = p /\ s.tbl[p] = c
      /\ s.tcb[c].stat = {} /\ s.tcb[c].dly = 0
  BY CurOwner
<1>2. s.list \subseteq Task \cup {Idle} /\ s.rdy \subseteq Prio  BY <1>1 DEF KState
<1>3. c = s.cur /\ p = s.ev[e].pip /\ n = s.ev[e].cnt /\ s.ev[e].ptr = c  OBVIOUS
<1> HIDE DEF c, p, n
<1>4. /\ u \in KState /\ u.list = s.list /\ u.ev = s.ev /\ u.grp = s.grp /\ u.cur = c
      /\ \A x \in Task \cup {Idle} : x # c => u.tcb[x] = s.tcb[x]
      /\ u.tcb[c].prio = n
      /\ u.tcb[c].stat = s.tcb[c].stat /\ u.tcb[c].pend = s.tcb[c].pend
      /\ u.tcb[c].dly = s.tcb[c].dly /\ u.tcb[c].event = s.tcb[c].event
      /\ u.tcb[c].in = s.tcb[c].in
      /\ \A q \in Prio : q # p => u.tbl[q] = s.tbl[q]
      /\ u.prioCur = n /\ n \in u.rdy /\ p \notin u.rdy
      /\ \A q : q # p /\ q # n => (q \in u.rdy <=> q \in s.rdy)
      /\ s.tcb[c].prio # p => u.rdy = s.rdy /\ u.tcb[c] = s.tcb[c]
  BY <1>3 DEF Lowered
<1>5. Holds(s.tcb[c], e) /\ Holds(u.tcb[c], e)  BY <1>1, <1>3, <1>4 DEF OwnerOK, Holds
<1>6. ASSUME NEW x \in s.list, x # c PROVE s.tcb[x].prio # n /\ s.tcb[x].prio # p /\ u.tcb[x] = s.tcb[x]
  <2>1. s.tbl[s.tcb[x].prio] = x  BY <1>1 DEF Tables, TaskOK
  <2> QED BY <1>1, <1>2, <1>4, <1>6, <2>1, OsCoreAssumption
<1>7. ~Home(u, p)
  <2>1. SUFFICES ASSUME u.tbl[p] \in s.list, u.tcb[u.tbl[p]].prio = p PROVE FALSE
    BY <1>4 DEF Home
  <2>2. CASE u.tbl[p] = c  BY <1>1, <1>4, <2>1, <2>2
  <2>3. CASE u.tbl[p] # c  BY <1>6, <2>1, <2>3
  <2> QED BY <2>2, <2>3
<1>8. Tables(u)
  <2>1. CASE s.tcb[c].prio = p
    <3>1. \A f \in Event : ~WaitsFor(s.tcb[c], f) /\ ~WaitsFor(u.tcb[c], f)
      BY <1>5, OwnerFree
    <3>2. Able(u.tcb[c]) <=> Able(s.tcb[c])  BY <1>4 DEF Able
    <3>3. StatOK(u, u.tcb[c])
      <4>1. StatOK(s, s.tcb[c])  BY <1>1 DEF TaskOK
      <4> QED BY <1>4, <4>1 DEF StatOK
    <3>4. WaitsFlag(u.tcb[c]) <=> WaitsFlag(s.tcb[c])  BY <1>5, OwnerFree
    <3>5. /\ u.list = s.list /\ u.tcb[c].prio = n /\ u.tbl[n] = c /\ u.grp.wait = s.grp.wait
          /\ \A q \in Prio : q # p /\ q # n => u.tbl[q] = s.tbl[q]
          /\ \A q : q # p /\ q # n => (q \in u.rdy <=> q \in s.rdy)
          /\ n \in u.rdy <=> p \in s.rdy
          /\ p # n => p \notin u.rdy
          /\ \A f \in Event : u.ev[f].wait = s.ev[f].wait /\ u.ev[f].type = s.ev[f].type
                            /\ u.ev[f].pip = s.ev[f].pip
      BY <1>1, <1>4, <2>1
    <3>6. \A x \in s.list : x # c => s.tcb[x].prio # n /\ u.tcb[x] = s.tcb[x]  BY <1>6
    <3>7. Moved(s, u, c, p, n)  BY <2>1, <3>1, <3>2, <3>3, <3>4, <3>5, <3>6 DEF Moved
    <3> QED BY <1>1, <3>7, PrioChanged
  <2>2. CASE s.tcb[c].prio # p
    <3>1. u.tcb = s.tcb
      <4>1. u.tcb \in [Task \cup {Idle} -> TCB] /\ s.tcb \in [Task \cup {Idle} -> TCB]
        BY <1>1, <1>4 DEF KState
      <4> QED BY <1>4, <2>2, <4>1
    <3>2. \A q \in Prio : u.tbl[q] = s.tbl[q] \/ ~Home(s, q)
      <4>1. ~Home(s, p)  BY <1>1, <1>2, <2>2, OsCoreAssumption DEF Home
      <4> QED BY <1>4, <4>1
    <3>3. EventsKept(s, u)  BY <1>4, <2>2, <3>1, <3>2 DEF EventsKept
    <3> QED BY <1>1, <3>3, EventsTables
  <2> QED BY <2>1, <2>2
<1>9. Waiters(u, e) = Waiters(s, e)
  <2>1. \A x \in s.list : WaitsFor(u.tcb[x], e) <=> WaitsFor(s.tcb[x], e)
    <3>1. ~WaitsFor(s.tcb[c], e) /\ ~WaitsFor(u.tcb[c], e)  BY <1>5, OwnerFree
    <3> QED BY <1>6, <3>1
  <2> QED BY <1>4, <2>1 DEF Waiters
<1>10. u.tbl[u.prioCur] = u.cur  BY <1>1, <1>4
<1> QED BY <1>3, <1>7, <1>8, <1>9, <1>10

(* w is v with the event e and a slot of the priority table renewed.       *)
Renewed(v, w, e, q) ==
    /\ w \in KState /\ w.tcb = v.tcb /\ w.list = v.list /\ w.rdy = v.rdy /\ w.grp = v.grp
    /\ w.cur = v.cur /\ w.prioCur = v.prioCur /\ w.lock = v.lock
    /\ w.tbl[q] \in {Nil, Reserved} /\ \A x \in Prio : x # q => w.tbl[x] = v.tbl[x]
    /\ \A f \in Event : f # e => w.ev[f] = v.ev[f]
    /\ w.ev[e].wait = v.ev[e].wait
    /\ w.ev[e].wait # {} => w.ev[e].type = v.ev[e].type /\ w.ev[e].pip = v.ev[e].pip

(* The running task gives the mutex e up, which then has another owner,    *)
(* none, or is gone.                                                       *)
LEMMA Released ==
    ASSUME NEW s, KInv(s), NEW e \in Event, s.ev[e].type = "mutex", s.ev[e].ptr = s.cur,
           NEW u, Lowered(s, u, e), NEW W \in SUBSET Waiters(s, e), NEW v, Readied(u, v, e, W, "ok"),
           NEW w, Renewed(v, w, e, s.ev[e].pip), MutexOK(w, e), Apart(w), AwaitOK(w, e)
    PROVE  Base(w) /\ CurOK(w)
<1> DEFINE c == s.cur
           p == s.ev[e].pip
           n == s.ev[e].cnt
<1>1. /\ s \in KState /\ Tables(s) /\ Mutual(s) /\ c \in Task /\ c \in s.list /\ p \in Prio /\ n \in Prio /\ p # n
      /\ s.tbl[n] = c /\ c # Nil /\ c # Reserved /\ OwnerOK(s, e)
      /\ \/ s.tcb[c].prio = n /\ s.tbl[p] = Reserved
         \/ s.tcb[c].prio = p /\ s.tbl[p] = c
  BY CurOwner
<1>2. s.list \subseteq Task \cup {Idle} /\ Awaits(s)  BY <1>1 DEF KState, KInv, Base
<1>3. c = s.cur /\ p = s.ev[e].pip /\ n = s.ev[e].cnt /\ s.ev[e].ptr = c  OBVIOUS
<1> HIDE DEF c, p, n
<1>4. Tables(u) /\ ~Home(u, p) /\ Waiters(u, e) = Waiters(s, e) /\ u.tbl[u.prioCur] = u.cur
      /\ u \in KState
  BY <1>3, LowTables DEF Lowered
<1>5. W \in SUBSET Waiters(u, e)  BY <1>4
<1>6. v \in KState  BY DEF Readied
<1>7. Tables(v)  BY <1>4, <1>5, RdyTables
<1>8. Tables(v) /\ v \in KState  BY <1>6, <1>7
<1>9. /\ u.list = s.list /\ u.ev = s.ev /\ u.grp = s.grp /\ u.cur = c
      /\ \A x \in Task \cup {Idle} : x # c => u.tcb[x] = s.tcb[x]
      /\ u.tcb[c].prio = n /\ u.tcb[c].stat = s.tcb[c].stat /\ u.tcb[c].node = s.tcb[c].node
      /\ \A q \in Prio : q # p => u.tbl[q] = s.tbl[q]
      /\ u.prioCur = n /\ n \in u.rdy
  BY <1>3 DEF Lowered
<1>10. /\ v.list = u.list /\ v.tbl = u.tbl /\ v.grp = u.grp /\ v.cur = u.cur /\ v.prioCur = u.prioCur
       /\ \A t \in Task \cup {Idle} : t \notin W => v.tcb[t] = u.tcb[t]
       /\ \A t \in W : v.tcb[t].prio = u.tcb[t].prio
       /\ u.rdy \subseteq v.rdy
       /\ \A f \in Event : f # e => v.ev[f] = u.ev[f]
  BY DEF Readied
<1>11. /\ w \in KState /\ w.tcb = v.tcb /\ w.list = v.list /\ w.rdy = v.rdy /\ w.grp = v.grp
       /\ w.cur = v.cur /\ w.prioCur = v.prioCur
       /\ w.tbl[p] \in {Nil, Reserved} /\ \A x \in Prio : x # p => w.tbl[x] = v.tbl[x]
       /\ \A f \in Event : f # e => w.ev[f] = v.ev[f]
       /\ w.ev[e].wait = v.ev[e].wait
       /\ w.ev[e].wait # {} => w.ev[e].type = v.ev[e].type /\ w.ev[e].pip = v.ev[e].pip
  BY <1>3 DEF Renewed
<1>12. c \notin W /\ W \subseteq s.list
  <2>1. Holds(s.tcb[c], e)  BY <1>1, <1>3 DEF OwnerOK
  <2> QED BY <2>1, OwnerFree DEF Waiters
<1>13. /\ w.tcb[c].prio = n /\ w.tcb[c].stat = s.tcb[c].stat /\ w.tcb[c].node = s.tcb[c].node
       /\ \A x \in s.list : x # c => w.tcb[x].prio = s.tcb[x].prio
       /\ \A x \in s.list : x # c /\ x \notin W => w.tcb[x] = s.tcb[x]
  BY <1>1, <1>2, <1>9, <1>10, <1>11, <1>12
<1>14. w.list = s.list /\ (\A q \in Prio : q # p => w.tbl[q] = s.tbl[q])
       /\ \A f \in Event : f # e => w.ev[f] = s.ev[f]
  BY <1>9, <1>10, <1>11
<1>15. Tables(w)
  <2>1. ~Home(v, p)
    <3>1. SUFFICES ASSUME v.tbl[p] \in s.list, v.tcb[v.tbl[p]].prio = p PROVE FALSE
      BY <1>9, <1>10 DEF Home
    <3>2. u.tcb[u.tbl[p]].prio = p /\ u.tbl[p] \in u.list  BY <1>2, <1>9, <1>10, <3>1
    <3> QED BY <1>4, <3>2 DEF Home
  <2>2. EventsKept(v, w)  BY <1>11, <2>1 DEF EventsKept
  <2> QED BY <1>8, <2>2, EventsTables
<1>16. ASSUME NEW f \in Event, f # e, s.ev[f].type = "mutex"
       PROVE  /\ s.ev[f].pip # p /\ MutexOK(s, f) /\ s.ev[f].pip \in Prio
              /\ s.ev[f].ptr # Nil =>
                  /\ OwnerOK(s, f) /\ s.ev[f].cnt # p /\ w.tcb[s.ev[f].ptr] = s.tcb[s.ev[f].ptr]
  <2>1. s.ev[f].pip # p /\ s.ev[f].ptr # c  BY <1>1, <1>3, <1>16 DEF Mutual, Apart
  <2>2. MutexOK(s, f) /\ s.ev[f].pip \in Prio  BY <1>1 DEF Mutual, KState, ECB
  <2>3. ASSUME s.ev[f].ptr # Nil
        PROVE  OwnerOK(s, f) /\ s.ev[f].cnt # p /\ w.tcb[s.ev[f].ptr] = s.tcb[s.ev[f].ptr]
    <3>1. OwnerOK(s, f)  BY <1>16, <2>2, <2>3 DEF MutexOK
    <3>2. s.ev[f].ptr \in s.list /\ Holds(s.tcb[s.ev[f].ptr], f) /\ s.tbl[s.ev[f].cnt] = s.ev[f].ptr
          /\ s.ev[f].ptr \in Task
      BY <3>1 DEF OwnerOK
    <3>3. s.ev[f].ptr \notin W  BY <3>2, OwnerFree DEF Waiters
    <3>4. s.ev[f].cnt # p  BY <1>1, <2>1, <3>2, OsCoreAssumption
    <3> QED BY <1>13, <2>1, <3>1, <3>2, <3>3, <3>4
  <2> QED BY <2>1, <2>2, <2>3
<1>17. Mutual(w)
  <2>1. ASSUME NEW f \in Event, f # e PROVE MutexOK(w, f)
    <3>1. SUFFICES ASSUME s.ev[f].type = "mutex" PROVE MutexOK(w, f)
      BY <1>14, <2>1 DEF MutexOK
    <3>2. MutexOK(s, f) /\ w.ev[f] = s.ev[f]  BY <1>14, <1>16, <2>1, <3>1
    <3>3. w.tbl[s.ev[f].pip] = s.tbl[s.ev[f].pip]  BY <1>14, <1>16, <2>1, <3>1
    <3>4. CASE s.ev[f].ptr = Nil  BY <3>2, <3>3, <3>4 DEF MutexOK
    <3>5. CASE s.ev[f].ptr # Nil
      <4>1. OwnerOK(s, f) /\ s.ev[f].cnt # p /\ w.tcb[s.ev[f].ptr] = s.tcb[s.ev[f].ptr]
        BY <1>16, <2>1, <3>1, <3>5
      <4>2. w.tbl[s.ev[f].cnt] = s.tbl[s.ev[f].cnt]  BY <1>14, <4>1 DEF OwnerOK
      <4>3. OwnerOK(w, f)  BY <1>14, <3>2, <3>3, <4>1, <4>2 DEF OwnerOK
      <4> QED BY <3>2, <3>5, <4>3 DEF MutexOK
    <3> QED BY <3>4, <3>5
  <2>2. ASSUME NEW q \in Prio PROVE w.tbl[q] \in {Nil, Reserved} \/ Home(w, q) \/ Lent(w, q)
    <3>1. CASE q = p  BY <1>11, <3>1
    <3>2. CASE q = n
      <4>1. w.tbl[q] = c  BY <1>1, <1>14, <3>2
      <4> QED BY <1>1, <1>13, <1>14, <3>2, <4>1 DEF Home
    <3>3. CASE q # p /\ q # n
      <4>1. w.tbl[q] = s.tbl[q]  BY <1>14, <3>3
      <4>2. s.tbl[q] \in {Nil, Reserved} \/ Home(s, q) \/ Lent(s, q)
        BY <1>1 DEF Mutual, Slots
      <4>3. CASE Home(s, q)
        <5>1. s.tbl[q] # c  BY <1>1, <3>3, <4>3 DEF Home
        <5> QED BY <1>13, <1>14, <4>1, <4>3, <5>1 DEF Home
      <4>4. CASE Lent(s, q)
        <5>1. PICK f \in Event : s.ev[f].type = "mutex" /\ s.ev[f].ptr = s.tbl[q] /\ s.ev[f].cnt = q
          BY <4>4 DEF Lent
        <5>2. f # e  BY <1>3, <3>3, <5>1
        <5> QED BY <1>14, <4>1, <5>1, <5>2 DEF Lent
      <4> QED BY <4>1, <4>2, <4>3, <4>4
    <3> QED BY <3>1, <3>2, <3>3
  <2> QED BY <2>1, <2>2 DEF Mutual, Slots
<1>18. ASSUME NEW f \in Event PROVE AwaitOK(w, f)
  <2>1. SUFFICES ASSUME f # e PROVE AwaitOK(w, f)  OBVIOUS
  <2>2. AwaitOK(s, f) /\ w.ev[f] = s.ev[f]  BY <1>2, <1>14, <2>1 DEF Awaits
  <2>3. s.ev[f].type = "mutex" /\ s.ev[f].ptr # Nil => w.tcb[s.ev[f].ptr].prio = s.tcb[s.ev[f].ptr].prio
    BY <1>16, <2>1
  <2> QED BY <2>2, <2>3, AwaitKept
<1>19. GroupOK(w)
  <2>1. GroupOK(s) /\ s.grp.wait \subseteq s.list  BY <1>1, <1>2 DEF Awaits, Tables
  <2>2. w.grp = s.grp  BY <1>9, <1>10, <1>11
  <2>3. ASSUME NEW x \in s.grp.wait PROVE w.tcb[x].stat = s.tcb[x].stat /\ w.tcb[x].node = s.tcb[x].node
    <3>1. WaitsFlag(s.tcb[x])  BY <1>1, <2>1 DEF Tables, TaskOK
    <3>2. x \notin W  BY <3>1 DEF Waiters, WaitsFor, WaitsFlag
    <3> QED BY <1>13, <2>1, <3>2
  <2> QED BY <2>1, <2>2, <2>3, GroupKept
<1>20. Base(w)  BY <1>11, <1>15, <1>17, <1>18, <1>19 DEF Base, Awaits
<1>21. CurOK(w)  BY <1>1, <1>9, <1>10, <1>11, <1>13, <1>14 DEF CurOK
<1> QED BY <1>20, <1>21

(* Nobody is readied.                                                      *)
LEMMA NoneReadied ==
    ASSUME NEW u \in KState, NEW e
    PROVE  Readied(u, u, e, {}, "ok")
<1>1. u.rdy = u.rdy \cup {u.tcb[t].prio : t \in {x \in {} : "suspend" \notin u.tcb[x].stat \ {u.ev[e].type}}}
  OBVIOUS
<1>2. u.ev[e].wait = u.ev[e].wait \ {u.tcb[t].prio : t \in {}}
  <2>1. {u.tcb[t].prio : t \in {}} = {}  OBVIOUS
  <2> QED BY <2>1
<1> QED BY <1>1, <1>2 DEF Readied

(* A task that waits for a mutex is not suspended.                         *)
LEMMA WaiterStat ==
    ASSUME NEW s, KInv(s), NEW e \in Event, s.ev[e].type = "mutex", NEW x \in Waiters(s, e)
    PROVE  s.tcb[x].stat \subseteq {"mutex"}
<1>1. s \in KState /\ Tables(s) /\ s.list \subseteq Task \cup {Idle}
  BY DEF KInv, Base, KState
<1>2. x \in s.list /\ WaitsFor(s.tcb[x], e)  BY DEF Waiters
<1>3. s.tcb[x] \in TCB  BY <1>1, <1>2 DEF KState
<1>4. TaskOK(s, x)  BY <1>1, <1>2 DEF Tables
<1>5. s.tcb[x].in = "event" /\ s.tcb[x].event = e  BY <1>2 DEF WaitsFor
<1>6. "suspend" \notin s.tcb[x].stat  BY <1>2, <1>4 DEF TaskOK
<1>7. s.tcb[x].stat \cap Pending \subseteq {"mutex"}  BY <1>4, <1>5 DEF TaskOK, StatOK
<1>8. s.tcb[x].stat \subseteq Pending \cup {"suspend"}  BY <1>3 DEF TCB
<1> QED BY <1>6, <1>7, <1>8

(* The first waiter of a mutex will own it.                                *)
LEMMA NextOwner ==
    ASSUME NEW s, KInv(s), NEW e \in Event, s.ev[e].type = "mutex", s.ev[e].wait # {},
           NEW n, n = Highest(s.ev[e].wait), NEW x, x = s.tbl[n]
    PROVE  /\ n \in s.ev[e].wait /\ n \in Prio /\ (\A q \in s.ev[e].wait : n <= q) /\ n > s.ev[e].pip
           /\ x \in Waiters(s, e) /\ x \in s.list /\ x \in Task /\ x # Nil
           /\ s.tcb[x].prio = n /\ First(s, e) = {x}
           /\ \A f \in Event : s.ev[f].type = "mutex" /\ s.ev[f].ptr # Nil => s.ev[f].ptr # x
<1>1. s \in KState /\ Tables(s) /\ Mutual(s) /\ s.list \subseteq Task \cup {Idle}
      /\ s.ev[e].wait \subseteq Prio
  BY DEF KInv, Base, KState, ECB
<1>2. n \in s.ev[e].wait /\ First(s, e) = {x} /\ \A q \in s.ev[e].wait : n <= q
  BY <1>1, FirstIs
<1>3. x \in Waiters(s, e) /\ s.tcb[x].prio = n /\ x # Idle  BY <1>1, <1>2, WaitersAre
<1>4. x \in s.list /\ WaitsFor(s.tcb[x], e)  BY <1>3 DEF Waiters
<1>5. x \in Task /\ x # Nil /\ s.tcb[x] \in TCB
  BY <1>1, <1>3, <1>4, OsCoreAssumption DEF KState
<1>6. TaskOK(s, x)  BY <1>1, <1>4 DEF Tables
<1>7. Still(s.tcb[x])  BY <1>4 DEF WaitsFor
<1>8. n > s.ev[e].pip  BY <1>3, <1>4, <1>6 DEF TaskOK
<1>9. \A f \in Event : s.ev[f].type = "mutex" /\ s.ev[f].ptr # Nil => s.ev[f].ptr # x
  BY <1>1, <1>7, WaiterOwnsNothing
<1> QED BY <1>1, <1>2, <1>3, <1>4, <1>5, <1>8, <1>9

(* OSMutexPost hands the mutex over.                                       *)
LEMMA PostToWaiter ==
    ASSUME NEW s, KInv(s), NEW e \in Event, s.ev[e].type = "mutex", s.ev[e].ptr = s.cur,
           s.ev[e].wait # {}, NEW u, Lowered(s, u, e), u.tbl[s.ev[e].pip] = Reserved,
           NEW v, v = OS_EventTaskRdy(u, e, First(s, e), Nil, "ok"),
           NEW n, n = Highest(s.ev[e].wait),
           NEW w, w = [v EXCEPT !.ev[e] = [@ EXCEPT !.cnt = n, !.ptr = s.tbl[n]]]
    PROVE  KInv(OS_Sched(w))
<1> DEFINE x == s.tbl[n]
           p == s.ev[e].pip
           W == First(s, e)
           m == [v.ev[e] EXCEPT !.cnt = n, !.ptr = x]
           E == [v.ev EXCEPT ![e] = m]
<1>1. x = s.tbl[n] /\ p = s.ev[e].pip /\ W = First(s, e)  OBVIOUS
<1>2. s.ev[e].type = "mutex" /\ u.tbl[p] = Reserved /\ s.ev[e].ptr = s.cur /\ s.ev[e].wait # {}  OBVIOUS
<1>3. w = [v EXCEPT !.ev[e] = [@ EXCEPT !.cnt = n, !.ptr = x]]  OBVIOUS
<1> HIDE DEF x, p, W
<1>4. n \in s.ev[e].wait /\ n \in Prio /\ (\A q \in s.ev[e].wait : n <= q) /\ n > p
  BY <1>1, <1>2, NextOwner
<1>5. x \in Waiters(s, e) /\ x \in s.list /\ x \in Task /\ x # Nil /\ s.tcb[x].prio = n /\ W = {x}
  BY <1>1, <1>2, NextOwner
<1>6. s.tcb[x].stat \subseteq {"mutex"} /\ s.tcb[x].in = "event" /\ s.tcb[x].event = e
  <2>1. s.tcb[x].stat \subseteq {"mutex"}  BY <1>2, <1>5, WaiterStat
  <2>2. s.tcb[x].in = "event" /\ s.tcb[x].event = e  BY <1>5 DEF Waiters, WaitsFor
  <2> QED BY <2>1, <2>2
<1>7. \A f \in Event : s.ev[f].type = "mutex" /\ s.ev[f].ptr # Nil => s.ev[f].ptr # x
  BY <1>1, <1>2, NextOwner
<1>8. /\ s \in KState /\ Tables(s) /\ Mutual(s) /\ MutexOK(s, e) /\ p \in Prio /\ s.cur # Nil
      /\ s.cur \in s.list /\ s.tbl[s.ev[e].cnt] = s.cur /\ s.ev[e].cnt \in Prio
  BY <1>1, <1>2, CurOwner DEF Mutual
<1>9. /\ u \in KState /\ u.list = s.list /\ u.ev = s.ev /\ \A y \in Task \cup {Idle} : y # s.cur => u.tcb[y] = s.tcb[y]
      /\ \A q \in Prio : q # p => u.tbl[q] = s.tbl[q]
  BY <1>1 DEF Lowered
<1>10. s.cur # x  BY <1>8, <1>2, <1>7
<1>11. Readied(u, v, e, W, "ok")
  <2>1. W \in SUBSET u.list  BY <1>5, <1>9
  <2> QED BY <1>9, <1>1, <2>1, RdyFields
<1>12. v \in KState /\ v.tbl = u.tbl /\ v.list = u.list  BY <1>11 DEF Readied
<1>13. /\ v.tcb[x].prio = u.tcb[x].prio /\ v.tcb[x].in = u.tcb[x].in
       /\ v.tcb[x].event = u.tcb[x].event /\ v.tcb[x].pend = "ok"
       /\ v.tcb[x].stat = u.tcb[x].stat \ {u.ev[e].type} /\ v.tcb[x].dly = 0
  BY <1>5, <1>11 DEF Readied
<1>14. \A f \in Event : f # e => v.ev[f] = u.ev[f]  BY <1>11 DEF Readied
<1>15. v.ev[e].type = u.ev[e].type /\ v.ev[e].pip = u.ev[e].pip /\ v.ev[e].wait \subseteq u.ev[e].wait
  BY <1>11 DEF Readied
<1>16. /\ m \in ECB /\ m.type = "mutex" /\ m.pip = p /\ m.cnt = n /\ m.ptr = x /\ m.wait = v.ev[e].wait
  <2>1. v.ev[e] \in ECB /\ v.ev[e].type = "mutex" /\ v.ev[e].pip = p
    BY <1>9, <1>12, <1>15, <1>1, <1>2 DEF KState
  <2>2. n \in Int  BY <1>4, OsCoreAssumption DEF Prio
  <2> QED BY <1>5, <2>1, <2>2 DEF ECB
<1>17. w = [v EXCEPT !.ev = E]  BY <1>12, <1>3 DEF KState
<1> HIDE DEF m
<1>18. E \in [Event -> ECB] /\ E[e] = m /\ \A f \in Event : f # e => E[f] = v.ev[f]
  BY <1>12, <1>16 DEF KState
<1> HIDE DEF E
<1>19. /\ w \in KState /\ w.tcb = v.tcb /\ w.list = v.list /\ w.rdy = v.rdy /\ w.grp = v.grp
       /\ w.cur = v.cur /\ w.prioCur = v.prioCur /\ w.lock = v.lock /\ w.tbl = v.tbl /\ w.ev = E
  BY <1>12, <1>17, <1>18 DEF KState
<1>20. w.ev[e] = m /\ \A f \in Event : f # e => w.ev[f] = s.ev[f]
  BY <1>9, <1>14, <1>18, <1>19
<1>21. Renewed(v, w, e, p)
  <2>1. w.tbl[p] \in {Nil, Reserved} /\ \A q \in Prio : q # p => w.tbl[q] = v.tbl[q]
    BY <1>12, <1>2, <1>19
  <2>2. \A f \in Event : f # e => w.ev[f] = v.ev[f]  BY <1>18, <1>19
  <2>3. w.ev[e].wait = v.ev[e].wait /\ w.ev[e].type = v.ev[e].type /\ w.ev[e].pip = v.ev[e].pip
    BY <1>9, <1>15, <1>1, <1>2, <1>16, <1>20
  <2> QED BY <1>19, <2>1, <2>2, <2>3 DEF Renewed
<1>22. w.tcb[x].prio = n /\ Holds(w.tcb[x], e)
  <2>1. u.tcb[x] = s.tcb[x]  BY <1>5, <1>9, <1>10
  <2>2. w.tcb[x].stat = {}  BY <1>6, <1>9, <1>13, <1>2, <1>19, <2>1
  <2> QED BY <1>5, <1>6, <1>13, <1>19, <2>1, <2>2 DEF Holds
<1>23. MutexOK(w, e)
  <2>1. n # p  BY <1>4, <1>8, OsCoreAssumption DEF Prio
  <2>2. w.tbl[n] = x /\ w.tbl[p] = Reserved  BY <1>4, <1>9, <1>12, <1>1, <1>2, <1>19, <2>1
  <2>3. OwnerOK(w, e)
    <3>1. x \in w.list  BY <1>5, <1>9, <1>12, <1>19
    <3> QED BY <1>4, <1>5, <1>16, <1>20, <1>22, <2>2, <3>1 DEF OwnerOK
  <2>4. p < Lowest  BY <1>8, <1>1, <1>2 DEF MutexOK
  <2>5. n # Available  BY <1>4, OsCoreAssumption DEF Prio, Available
  <2> QED BY <1>5, <1>16, <1>20, <2>3, <2>4, <2>5 DEF MutexOK
<1>24. Apart(w)
  <2>1. SUFFICES ASSUME NEW f \in Event, NEW g \in Event, f # g, w.ev[f].type = "mutex", w.ev[g].type = "mutex"
                 PROVE  w.ev[f].pip # w.ev[g].pip /\ (w.ev[f].ptr # Nil => w.ev[f].ptr # w.ev[g].ptr)
    BY DEF Apart
  <2>2. s.ev[f].type = "mutex" /\ s.ev[g].type = "mutex"  BY <1>2, <1>20, <2>1
  <2>3. s.ev[f].pip # s.ev[g].pip /\ (s.ev[f].ptr # Nil => s.ev[f].ptr # s.ev[g].ptr)
    BY <1>8, <2>1, <2>2 DEF Mutual, Apart
  <2>4. w.ev[f].pip = s.ev[f].pip /\ w.ev[g].pip = s.ev[g].pip  BY <1>1, <1>16, <1>20
  <2>5. CASE f = e  BY <1>7, <1>5, <1>16, <1>20, <2>1, <2>2, <2>3, <2>4, <2>5
  <2>6. CASE g = e  BY <1>7, <1>5, <1>16, <1>20, <2>1, <2>2, <2>3, <2>4, <2>6
  <2>7. CASE f # e /\ g # e  BY <1>20, <2>3, <2>7
  <2> QED BY <2>5, <2>6, <2>7
<1>25. AwaitOK(w, e)
  <2>1. w.ev[e].wait \subseteq s.ev[e].wait  BY <1>9, <1>15, <1>16, <1>20
  <2>2. s.ev[e].wait \subseteq Prio  BY <1>8 DEF KState, ECB
  <2>3. \A q \in w.ev[e].wait : ~(q < n)
    <3>1. \A q \in Prio : n <= q => ~(q < n)  BY <1>4, OsCoreAssumption DEF Prio
    <3> QED BY <1>4, <2>1, <2>2, <3>1
  <2>4. Lifted(w, e)  BY <1>16, <1>20, <2>3 DEF Lifted
  <2> QED BY <1>5, <1>16, <1>20, <2>4 DEF AwaitOK
<1>26. W \in SUBSET Waiters(s, e)  BY <1>5
<1>27. Base(w) /\ CurOK(w)
  BY <1>11, <1>1, <1>2, <1>21, <1>23, <1>24, <1>25, <1>26, Released
<1> QED BY <1>27, CurStays

(* A task that gives a mutex up and leaves OS_Sched out still runs, or     *)
(* defer says so.                                                          *)
LEMMA LowRuns ==
    ASSUME NEW s, KInv(s), NEW e \in Event, s.ev[e].type = "mutex", s.ev[e].ptr = s.cur,
           NEW u, Lowered(s, u, e), NEW w, Base(w), CurOK(w), w.rdy = u.rdy, w.prioCur = u.prioCur,
           w.lock = u.lock,
           s.tcb[s.cur].prio = s.ev[e].pip => w.defer, s.tcb[s.cur].prio # s.ev[e].pip => w.defer = u.defer
    PROVE  KInv(w)
<1>1. CASE s.tcb[s.cur].prio = s.ev[e].pip  BY <1>1 DEF KInv, Runs
<1>2. CASE s.tcb[s.cur].prio # s.ev[e].pip
  <2>1. w.rdy = s.rdy /\ w.prioCur = s.prioCur /\ w.lock = s.lock  BY <1>2 DEF Lowered
  <2>2. ~w.defer => ~s.defer  BY <1>2 DEF Lowered
  <2>3. Runs(s)  BY DEF KInv
  <2> QED BY <2>1, <2>2, <2>3 DEF KInv, Runs
<1> QED BY <1>1, <1>2

(* OSMutexPost with nobody waiting: it returns without OS_Sched.           *)
LEMMA PostToNone ==
    ASSUME NEW s, KInv(s), NEW e \in Event, s.ev[e].type = "mutex", s.ev[e].ptr = s.cur,
           s.ev[e].wait = {}, NEW u, Lowered(s, u, e), u.tbl[s.ev[e].pip] = Reserved,
           NEW b, b = (s.tcb[s.cur].prio = s.ev[e].pip),
           NEW w, w = [u EXCEPT !.ev[e] = [@ EXCEPT !.cnt = Available, !.ptr = Nil], !.defer = @ \/ b]
    PROVE  KInv(w)
<1> DEFINE p == s.ev[e].pip
           m == [u.ev[e] EXCEPT !.cnt = Available, !.ptr = Nil]
           E == [u.ev EXCEPT ![e] = m]
           d == u.defer \/ b
<1>1. /\ s \in KState /\ Tables(s) /\ Mutual(s) /\ MutexOK(s, e) /\ p \in Prio
  BY CurOwner DEF Mutual
<1>2. /\ u \in KState /\ u.list = s.list /\ u.ev = s.ev  BY DEF Lowered
<1>3. p = s.ev[e].pip /\ s.ev[e].wait = {} /\ u.tbl[p] = Reserved /\ s.ev[e].type = "mutex"  OBVIOUS
<1>4. w = [u EXCEPT !.ev[e] = [@ EXCEPT !.cnt = Available, !.ptr = Nil], !.defer = @ \/ b]  OBVIOUS
<1>5. d \in BOOLEAN  BY <1>2 DEF KState
<1> HIDE DEF p
<1>6. /\ m \in ECB /\ m.type = "mutex" /\ m.pip = p /\ m.cnt = Available /\ m.ptr = Nil /\ m.wait = {}
  <2>1. u.ev[e] \in ECB /\ u.ev[e].type = "mutex" /\ u.ev[e].pip = p /\ u.ev[e].wait = {}
    BY <1>2, <1>3 DEF KState
  <2>2. Available \in Int  BY DEF Available
  <2> HIDE DEF Available
  <2> QED BY <2>1, <2>2 DEF ECB
<1>7. w = [u EXCEPT !.ev = E, !.defer = d]
  <2> HIDE DEF Available
  <2> QED BY <1>2, <1>4 DEF KState
<1> HIDE DEF m
<1>8. E \in [Event -> ECB] /\ E[e] = m /\ \A f \in Event : f # e => E[f] = u.ev[f]
  BY <1>2, <1>6 DEF KState
<1> HIDE DEF E
<1>9. (s.tcb[s.cur].prio = s.ev[e].pip => d = TRUE) /\ (s.tcb[s.cur].prio # s.ev[e].pip => d = u.defer)
  BY <1>2 DEF KState
<1> HIDE DEF d
<1>10. /\ w \in KState /\ w.tcb = u.tcb /\ w.list = u.list /\ w.rdy = u.rdy /\ w.grp = u.grp
       /\ w.cur = u.cur /\ w.prioCur = u.prioCur /\ w.lock = u.lock /\ w.tbl = u.tbl /\ w.ev = E
       /\ w.defer = d
  BY <1>2, <1>7, <1>8, <1>5 DEF KState
<1>11. w.ev[e] = m /\ \A f \in Event : f # e => w.ev[f] = s.ev[f]  BY <1>2, <1>8, <1>10
<1>12. Renewed(u, w, e, p)
  BY <1>2, <1>3, <1>6, <1>8, <1>10 DEF Renewed
<1>13. MutexOK(w, e)
  <2>1. p < Lowest  BY <1>1, <1>3 DEF MutexOK
  <2> QED BY <1>3, <1>6, <1>10, <1>11, <2>1 DEF MutexOK
<1>14. Apart(w)
  <2>1. SUFFICES ASSUME NEW f \in Event, NEW g \in Event, f # g, w.ev[f].type = "mutex", w.ev[g].type = "mutex"
                 PROVE  w.ev[f].pip # w.ev[g].pip /\ (w.ev[f].ptr # Nil => w.ev[f].ptr # w.ev[g].ptr)
    BY DEF Apart
  <2>2. s.ev[f].type = "mutex" /\ s.ev[g].type = "mutex"  BY <1>3, <1>11, <2>1
  <2>3. s.ev[f].pip # s.ev[g].pip /\ (s.ev[f].ptr # Nil => s.ev[f].ptr # s.ev[g].ptr)
    BY <1>1, <2>1, <2>2 DEF Mutual, Apart
  <2>4. w.ev[f].pip = s.ev[f].pip /\ w.ev[g].pip = s.ev[g].pip  BY <1>3, <1>6, <1>11
  <2>5. CASE f = e  BY <1>6, <1>11, <2>1, <2>3, <2>4, <2>5
  <2>6. CASE g = e  BY <1>6, <1>11, <2>1, <2>3, <2>4, <2>6
  <2>7. CASE f # e /\ g # e  BY <1>11, <2>3, <2>7
  <2> QED BY <2>5, <2>6, <2>7
<1>15. AwaitOK(w, e)  BY <1>6, <1>11 DEF AwaitOK
<1>16. {} \in SUBSET Waiters(s, e) /\ Readied(u, u, e, {}, "ok")  BY <1>2, NoneReadied
<1>17. Base(w) /\ CurOK(w)
  BY <1>3, <1>12, <1>13, <1>14, <1>15, <1>16, Released
<1> QED BY <1>10, <1>17, <1>9, LowRuns

(* OSMutexPost.                                                            *)
LEMMA MutexPostOK ==
    ASSUME NEW s, KInv(s), NEW e \in Event, s.ev[e].type = "mutex"
    PROVE  KInv(OSMutexPost(s, e))
<1>1. SUFFICES ASSUME s.ev[e].ptr = s.cur PROVE KInv(OSMutexPost(s, e))
  BY DEF OSMutexPost
<1> DEFINE low == IF s.tcb[s.cur].prio = s.ev[e].pip
                  THEN OSMutex_RdyAtPrio(s, s.cur, s.ev[e].cnt) ELSE s
           free == [low EXCEPT !.tbl[s.ev[e].pip] = Reserved]
           n == Highest(s.ev[e].wait)
<1>2. Lowered(s, low, e)  BY <1>1, LowFields
<1>3. s.ev[e].pip \in Prio  BY <1>1, CurOwner
<1> HIDE DEF low
<1>4. free = [low EXCEPT !.tbl[s.ev[e].pip] = Reserved]
  OBVIOUS
<1>5. Lowered(s, free, e) /\ free.tbl[s.ev[e].pip] = Reserved
  <2> HIDE DEF free
  <2> QED BY <1>2, <1>3, <1>4, LowSlot
<1>6. CASE s.ev[e].wait # {}
  <2> DEFINE v == OS_EventTaskRdy(free, e, First(s, e), Nil, "ok")
             w == [v EXCEPT !.ev[e] = [@ EXCEPT !.cnt = n, !.ptr = s.tbl[n]]]
  <2>1. OSMutexPost(s, e) = OS_Sched(w)  BY <1>1, <1>6, Zenon DEF OSMutexPost, Cur, low
  <2> HIDE DEF free, v, n, w
  <2>2. KInv(OS_Sched(w))  BY <1>1, <1>5, <1>6, PostToWaiter DEF v, n, w
  <2> QED BY <2>1, <2>2
<1>7. CASE s.ev[e].wait = {}
  <2> DEFINE b == s.tcb[s.cur].prio = s.ev[e].pip
             w == [free EXCEPT !.ev[e] = [@ EXCEPT !.cnt = Available, !.ptr = Nil], !.defer = @ \/ b]
  <2>1. OSMutexPost(s, e) = w  BY <1>1, <1>7, Zenon DEF OSMutexPost, Cur, low
  <2> HIDE DEF free
  <2>2. b = (s.tcb[s.cur].prio = s.ev[e].pip)  OBVIOUS
  <2> HIDE DEF b
  <2>3. w = [free EXCEPT !.ev[e] = [@ EXCEPT !.cnt = Available, !.ptr = Nil], !.defer = @ \/ b]  OBVIOUS
  <2> HIDE DEF w
  <2>4. KInv(w)  BY <1>1, <1>5, <1>7, <2>2, <2>3, PostToNone
  <2> QED BY <2>1, <2>4
<1> QED BY <1>6, <1>7

-----------------------------------------------------------------------------
(* The fields of k when the mutex e with the PIP q is gone.                *)
Gone(k, w, e, q) ==
    /\ w \in KState /\ w.tcb = k.tcb /\ w.list = k.list /\ w.rdy = k.rdy /\ w.grp = k.grp
    /\ w.cur = k.cur /\ w.prioCur = k.prioCur /\ w.lock = k.lock
    /\ w.tbl[q] = Nil /\ \A x \in Prio : x # q => w.tbl[x] = k.tbl[x]
    /\ w.ev[e] = Unused /\ \A f \in Event : f # e => w.ev[f] = k.ev[f]

(* That is what the deletion does.                                         *)
LEMMA GoneFields ==
    ASSUME NEW k \in KState, NEW e \in Event, NEW q \in Prio,
           NEW v, v = FreeEvent([k EXCEPT !.tbl[q] = Nil], e)
    PROVE  Gone(k, v, e, q) /\ v.defer = k.defer
<1> DEFINE T == [k.tbl EXCEPT ![q] = Nil]
           E == [k.ev EXCEPT ![e] = Unused]
           u == [k EXCEPT !.tbl = T, !.ev = E]
<1>1. k.tbl \in [Prio -> Task \cup {Idle, Nil, Reserved}] /\ k.ev \in [Event -> ECB]
  BY DEF KState
<1>2. v = u
  <2>1. v = [[k EXCEPT !.tbl[q] = Nil] EXCEPT !.ev[e] = Unused]  BY DEF FreeEvent
  <2> HIDE DEF Unused
  <2> QED BY <2>1 DEF KState
<1>3. T \in [Prio -> Task \cup {Idle, Nil, Reserved}] /\ T[q] = Nil /\ \A x \in Prio : x # q => T[x] = k.tbl[x]
  BY <1>1
<1>4. E \in [Event -> ECB] /\ E[e] = Unused /\ \A f \in Event : f # e => E[f] = k.ev[f]
  <2> HIDE DEF Unused
  <2> QED BY <1>1, UnusedIs
<1> HIDE DEF T, E, Unused
<1>5. /\ u \in KState /\ u.tcb = k.tcb /\ u.list = k.list /\ u.rdy = k.rdy /\ u.grp = k.grp
      /\ u.cur = k.cur /\ u.prioCur = k.prioCur /\ u.lock = k.lock /\ u.tbl = T /\ u.ev = E
      /\ u.defer = k.defer
  BY <1>3, <1>4 DEF KState
<1> HIDE DEF u
<1> QED BY <1>2, <1>3, <1>4, <1>5 DEF Gone

(* The same, without OS_Sched.                                             *)
LEMMA GoneDefer ==
    ASSUME NEW k \in KState, NEW e \in Event, NEW q \in Prio, NEW d \in BOOLEAN,
           NEW v, v = FreeEvent([k EXCEPT !.tbl[q] = Nil], e)
    PROVE  Gone(k, [v EXCEPT !.defer = d], e, q) /\ [v EXCEPT !.defer = d].defer = d
<1> DEFINE w == [v EXCEPT !.defer = d]
<1>1. Gone(k, v, e, q)  BY GoneFields
<1>2. v \in KState  BY <1>1 DEF Gone
<1>3. /\ w \in KState /\ w.tcb = v.tcb /\ w.list = v.list /\ w.rdy = v.rdy /\ w.grp = v.grp
      /\ w.cur = v.cur /\ w.prioCur = v.prioCur /\ w.lock = v.lock /\ w.tbl = v.tbl /\ w.ev = v.ev
      /\ w.defer = d
  BY <1>2 DEF KState
<1> HIDE DEF w
<1>4. Gone(k, w, e, q) /\ w.defer = d  BY <1>1, <1>3 DEF Gone
<1> QED BY <1>4 DEF w

(* What is left when e is gone: nothing of e can be wrong.                 *)
LEMMA GoneEvent ==
    ASSUME NEW s, Mutual(s), NEW k, NEW e \in Event, NEW q, NEW w, Gone(k, w, e, q),
           \A f \in Event : f # e => k.ev[f] = s.ev[f]
    PROVE  MutexOK(w, e) /\ Apart(w) /\ AwaitOK(w, e)
<1>1. w.ev[e].type = "unused" /\ w.ev[e].wait = {}  BY UnusedIs DEF Gone
<1>2. \A f \in Event : f # e => w.ev[f] = s.ev[f]  BY DEF Gone
<1>3. Apart(w)
  <2>1. SUFFICES ASSUME NEW f \in Event, NEW g \in Event, f # g, w.ev[f].type = "mutex", w.ev[g].type = "mutex"
                 PROVE  w.ev[f].pip # w.ev[g].pip /\ (w.ev[f].ptr # Nil => w.ev[f].ptr # w.ev[g].ptr)
    BY DEF Apart
  <2>2. f # e /\ g # e  BY <1>1, <2>1
  <2>3. w.ev[f] = s.ev[f] /\ w.ev[g] = s.ev[g]  BY <1>2, <2>2
  <2> QED BY <2>1, <2>3 DEF Mutual, Apart
<1>4. MutexOK(w, e)  BY <1>1 DEF MutexOK
<1>5. AwaitOK(w, e)  BY <1>1 DEF AwaitOK
<1> QED BY <1>3, <1>4, <1>5

(* A mutex that nobody owns is deleted.                                    *)
LEMMA DelFree ==
    ASSUME NEW s, KInv(s), NEW e \in Event, s.ev[e].type = "mutex", s.ev[e].ptr = Nil,
           NEW w, Gone(s, w, e, s.ev[e].pip), w.defer = s.defer
    PROVE  KInv(w)
<1> DEFINE q == s.ev[e].pip
<1>1. /\ s \in KState /\ Tables(s) /\ Mutual(s) /\ Awaits(s) /\ MutexOK(s, e) /\ AwaitOK(s, e) /\ q \in Prio
      /\ s.list \subseteq Task \cup {Idle}
  BY DEF KInv, Base, Mutual, Awaits, KState, ECB
<1>2. s.tbl[q] = Reserved /\ s.ev[e].wait = {}  BY <1>1 DEF MutexOK, AwaitOK
<1>3. MutexOK(w, e) /\ Apart(w) /\ AwaitOK(w, e)  BY <1>1, GoneEvent
<1>4. /\ w \in KState /\ w.tcb = s.tcb /\ w.list = s.list /\ w.rdy = s.rdy /\ w.grp = s.grp
      /\ w.cur = s.cur /\ w.prioCur = s.prioCur /\ w.lock = s.lock
      /\ w.tbl[q] = Nil /\ \A x \in Prio : x # q => w.tbl[x] = s.tbl[x]
      /\ w.ev[e] = Unused /\ \A f \in Event : f # e => w.ev[f] = s.ev[f]
  BY DEF Gone
<1>5. \A f \in Event : f # e => w.ev[f] = s.ev[f] /\ (s.ev[f].type = "mutex" => s.ev[f].pip # q)
  BY <1>1, <1>4 DEF Mutual, Apart
<1> HIDE DEF q
<1>6. Mutual(w)
  <2>1. s.tbl[q] \in {Nil, Reserved} /\ w.tbl[q] \in {Nil, Reserved}  BY <1>2, <1>4
  <2>2. \A x \in Prio : x # q => w.tbl[x] = s.tbl[x]  BY <1>4
  <2>3. w.tcb = s.tcb /\ w.list = s.list /\ w \in KState  BY <1>4
  <2> QED BY <1>1, <1>3, <1>5, <2>1, <2>2, <2>3, SlotChanged
<1>7. Tables(w)
  <2>1. ~Home(s, q)  BY <1>1, <1>2, OsCoreAssumption DEF Home
  <2>2. w.ev[e].wait = {}  BY <1>4, UnusedIs
  <2>3. EventsKept(s, w)  BY <1>2, <1>4, <2>1, <2>2 DEF EventsKept
  <2> QED BY <1>1, <2>3, EventsTables
<1>8. ASSUME NEW f \in Event PROVE AwaitOK(w, f)
  <2>1. SUFFICES ASSUME f # e PROVE AwaitOK(w, f)  BY <1>3
  <2>2. AwaitOK(s, f) /\ w.ev[f] = s.ev[f] /\ w.tcb = s.tcb
    BY <1>1, <1>4, <2>1 DEF Awaits
  <2> QED BY <2>2, AwaitKept
<1>9. GroupOK(w)
  <2>1. GroupOK(s)  BY <1>1 DEF Awaits
  <2> QED BY <1>4, <2>1, GroupKept
<1>10. Base(w)  BY <1>4, <1>6, <1>7, <1>8, <1>9 DEF Base, Awaits
<1> QED BY <1>4, <1>10, StillRuns

(* The owner deletes the mutex.                                            *)
LEMMA DelOwned ==
    ASSUME NEW s, KInv(s), NEW e \in Event, s.ev[e].type = "mutex", s.ev[e].ptr = s.cur,
           NEW u, Lowered(s, u, e), NEW W \in SUBSET Waiters(s, e), NEW v, Readied(u, v, e, W, "ok"),
           v.ev[e].wait = {}, NEW w, Gone(v, w, e, s.ev[e].pip)
    PROVE  Base(w) /\ CurOK(w)
<1>1. Mutual(s)  BY DEF KInv, Base
<1>2. \A f \in Event : f # e => v.ev[f] = s.ev[f]
  <2>1. \A f \in Event : f # e => v.ev[f] = u.ev[f]  BY DEF Readied
  <2>2. u.ev = s.ev  BY DEF Lowered
  <2> QED BY <2>1, <2>2
<1>3. MutexOK(w, e) /\ Apart(w) /\ AwaitOK(w, e)  BY <1>1, <1>2, GoneEvent
<1>4. Renewed(v, w, e, s.ev[e].pip)
  <2>1. w.ev[e].wait = {}  BY UnusedIs DEF Gone
  <2> QED BY <2>1 DEF Gone, Renewed
<1> QED BY <1>3, <1>4, Released

(* OSMutexDel, of a mutex that is free or that its owner deletes with      *)
(* OS_DEL_ALWAYS.                                                          *)
LEMMA MutexDelOK ==
    ASSUME NEW s, KInv(s), NEW e \in Event, s.ev[e].type = "mutex", NEW b \in BOOLEAN,
           s.ev[e].ptr = Nil \/ (b /\ s.ev[e].ptr = s.cur)
    PROVE  KInv(OSMutexDel(s, e, b))
<1> DEFINE q == s.ev[e].pip
           gone(k) == FreeEvent([k EXCEPT !.tbl[q] = Nil], e)
<1>1. s \in KState /\ q \in Prio /\ Tables(s) /\ Mutual(s) /\ AwaitOK(s, e) /\ MutexOK(s, e)
      /\ s.defer \in BOOLEAN
  BY DEF KInv, Base, Mutual, Awaits, KState, ECB
<1>2. CASE s.ev[e].ptr = Nil
  <2>1. s.ev[e].wait = {}  BY <1>1, <1>2 DEF AwaitOK
  <2>2. CASE ~b
    <3>1. OSMutexDel(s, e, b) = gone(s)  BY <2>1, <2>2, Zenon DEF OSMutexDel
    <3>2. Gone(s, gone(s), e, q) /\ gone(s).defer = s.defer  BY <1>1, GoneFields
    <3> HIDE DEF gone
    <3>3. KInv(gone(s))  BY <1>2, <3>2, DelFree
    <3> QED BY <3>1, <3>3
  <2>3. CASE b
    <3> DEFINE d == gone(s).defer \/ s # s
               w == [gone(s) EXCEPT !.defer = d]
    <3>1. OSMutexDel(s, e, b) = w  BY <1>2, <2>1, <2>3, Zenon DEF OSMutexDel
    <3>2. gone(s).defer = s.defer  BY <1>1, GoneFields
    <3>3. d = s.defer  BY <1>1, <3>2
    <3>4. d \in BOOLEAN  OBVIOUS
    <3> HIDE DEF d
    <3>5. Gone(s, w, e, q) /\ w.defer = d  BY <1>1, <3>4, GoneDefer
    <3> HIDE DEF gone, w
    <3>6. KInv(w)  BY <1>2, <3>3, <3>5, DelFree
    <3> QED BY <3>1, <3>6
  <2> QED BY <2>2, <2>3
<1>3. CASE s.ev[e].ptr # Nil
  <2>1. s.ev[e].ptr = s.cur /\ b  BY <1>3
  <2> DEFINE low == IF s.tcb[s.cur].prio = s.ev[e].pip
                    THEN OSMutex_RdyAtPrio(s, s.cur, s.ev[e].cnt) ELSE s
  <2>2. Lowered(s, low, e) /\ (s.tcb[s.cur].prio # s.ev[e].pip => low = s)
    BY <2>1, LowFields
  <2>3. low \in KState /\ low.ev = s.ev /\ low.list = s.list /\ low.defer = s.defer
        /\ low.prioCur = s.ev[e].cnt
    BY <2>2 DEF Lowered
  <2>4. CASE s.ev[e].wait # {}
    <3> DEFINE W == All(s, e)
               v == OS_EventTaskRdy(low, e, W, Nil, "ok")
               w == gone(v)
    <3>1. OSMutexDel(s, e, b) = OS_Sched(w)
      BY <1>3, <2>1, <2>4, Zenon DEF OSMutexDel
    <3>2. W = Waiters(s, e) /\ \A p \in s.ev[e].wait : s.tbl[p] \in W /\ s.tcb[s.tbl[p]].prio = p
      BY <1>1, WaitersAre
    <3> HIDE DEF W, low
    <3>3. W \in SUBSET low.list  BY <2>3, <3>2 DEF Waiters
    <3>4. Readied(low, v, e, W, "ok")  BY <2>3, <3>3, RdyFields
    <3>5. v.ev[e].wait = {}
      <4>1. v.ev[e].wait = low.ev[e].wait \ {low.tcb[t].prio : t \in W}
        BY <3>4 DEF Readied
      <4>2. \A t \in W : low.tcb[t] = s.tcb[t]
        <5>1. OwnerOK(s, e) /\ s.list \subseteq Task \cup {Idle}
          BY <1>1, <2>1, CurOwner DEF KState
        <5>2. s.cur \notin W  BY <2>1, <3>2, <5>1, OwnerFree DEF OwnerOK, Waiters
        <5> QED BY <2>2, <3>2, <5>1, <5>2 DEF Lowered, Waiters
      <4>3. ASSUME NEW p \in s.ev[e].wait PROVE p \in {low.tcb[t].prio : t \in W}
        <5>1. s.tbl[p] \in W /\ low.tcb[s.tbl[p]].prio = p  BY <3>2, <4>2
        <5> QED BY <5>1
      <4> QED BY <2>3, <4>1, <4>3
    <3>6. v \in KState  BY <3>4 DEF Readied
    <3> HIDE DEF v
    <3>7. Gone(v, w, e, q)  BY <1>1, <3>6, GoneFields
    <3> HIDE DEF gone, w
    <3>8. Base(w) /\ CurOK(w)  BY <2>1, <2>2, <3>2, <3>4, <3>5, <3>7, DelOwned
    <3> QED BY <3>1, <3>8, CurStays
  <2>5. CASE s.ev[e].wait = {}
    <3> DEFINE d == gone(low).defer \/ low # s
               w == [gone(low) EXCEPT !.defer = d]
    <3>1. OSMutexDel(s, e, b) = w  BY <1>3, <2>1, <2>5, Zenon DEF OSMutexDel
    <3>2. s.tcb[s.cur].prio = s.ev[e].pip => low # s
      <4>1. s.tcb[s.cur].prio = s.prioCur /\ s.ev[e].pip # s.ev[e].cnt  BY <2>1, CurOwner
      <4> HIDE DEF low
      <4> QED BY <2>3, <4>1
    <3> HIDE DEF low
    <3>3. gone(low).defer = low.defer  BY <1>1, <2>3, GoneFields
    <3>4. d \in BOOLEAN  OBVIOUS
    <3> HIDE DEF d
    <3>5. Gone(low, w, e, q) /\ w.defer = d  BY <1>1, <2>3, <3>4, GoneDefer
    <3>6. (s.tcb[s.cur].prio = s.ev[e].pip => d) /\ (s.tcb[s.cur].prio # s.ev[e].pip => d = low.defer)
      BY <1>1, <2>2, <2>3, <3>3, <3>2 DEF d
    <3> HIDE DEF gone, w
    <3>7. {} \in SUBSET Waiters(s, e) /\ Readied(low, low, e, {}, "ok") /\ low.ev[e].wait = {}
      BY <2>3, <2>5, NoneReadied
    <3>8. Base(w) /\ CurOK(w)  BY <2>1, <2>2, <3>5, <3>7, DelOwned
    <3>9. w.rdy = low.rdy /\ w.prioCur = low.prioCur /\ w.lock = low.lock
      BY <3>5 DEF Gone
    <3>10. KInv(w)  BY <2>1, <2>2, <3>5, <3>6, <3>8, <3>9, LowRuns
    <3> QED BY <3>1, <3>10
  <2> QED BY <2>4, <2>5
<1> QED BY <1>2, <1>3

-----------------------------------------------------------------------------
(* All that the code asks of its callers.                                  *)
AllRules == {"owner", "pip", "delete", "free", "settled"}

(* The invariant of the specification.                                     *)
KernelInv == sc \in Scenarios /\ KInv(os)

(* The control block of a task that is created.                            *)
LEMMA FreshIs ==
    ASSUME NEW p \in Prio
    PROVE  /\ Fresh(p) \in TCB /\ Fresh(p).prio = p /\ Fresh(p).stat = {} /\ Fresh(p).dly = 0
           /\ Fresh(p).in = "no" /\ Fresh(p).event = Nil /\ Fresh(p).pend = "ok"
<1>1. NoNode \in Node  BY DEF NoNode, Node
<1> HIDE DEF NoNode, Node
<1> QED BY <1>1 DEF Fresh, TCB

(* The initial state.                                                      *)
LEMMA StartOK ==
    ASSUME NEW x \in Scenarios
    PROVE  KInv(Started(x.start))
<1> DEFINE start == x.start
           D == DOMAIN start
           P == {start[t] : t \in D}
           at(p) == CHOOSE t \in D : start[t] = p
           prio(t) == IF t \in D THEN start[t] ELSE Lowest
           K == [t \in Task \cup {Idle} |-> Fresh(prio(t))]
           T == [p \in Prio |-> IF p = Lowest THEN Idle ELSE IF p \in P THEN at(p) ELSE Nil]
           E == [e \in Event |-> Unused]
           h == Highest(P)
           L == D \cup {Idle}
           R == P \cup {Lowest}
           s == [tcb |-> K, list |-> L, tbl |-> T, rdy |-> R,
                 ev |-> E, grp |-> NoGroup, cur |-> at(h), prioCur |-> h, lock |-> 0, defer |-> FALSE]
<1>1. Started(x.start) = s  BY Zenon DEF Started
<1>2. D \subseteq Task /\ D # {} /\ (\A t \in D : start[t] \in 0 .. Lowest - 1)
      /\ \A t, u \in D : start[t] = start[u] => t = u
  BY KernelAssumption
<1>3. Lowest \in Nat /\ Idle \notin Task /\ Nil \notin Task \cup {Idle} /\ Nil # Reserved
  BY OsCoreAssumption
<1> HIDE DEF start, D
<1>4. (\A t \in D : start[t] \in Prio /\ start[t] < Lowest) /\ Lowest \in Prio
  BY <1>2, <1>3 DEF Prio
<1>5. P \subseteq Prio /\ P # {} /\ (\A p \in P : p < Lowest /\ p # Lowest)
  BY <1>2, <1>3, <1>4 DEF Prio
<1>6. ASSUME NEW p \in P PROVE at(p) \in D /\ start[at(p)] = p
  <2>1. \E t \in D : start[t] = p  BY <1>6
  <2> QED BY <2>1
<1>7. ASSUME NEW t \in D PROVE at(start[t]) = t /\ start[t] \in P
  BY <1>2, <1>6
<1> HIDE DEF at, P
<1>8. h \in P /\ \A q \in P : h <= q  BY <1>5, HighestIn
<1> HIDE DEF h
<1>9. \A t \in Task \cup {Idle} : prio(t) \in Prio  BY <1>4
<1>10. prio(Idle) = Lowest /\ \A t \in D : prio(t) = start[t]  BY <1>2, <1>3
<1> HIDE DEF prio
<1>11. K \in [Task \cup {Idle} -> TCB] /\ \A t \in L : K[t] = Fresh(prio(t)) /\ prio(t) \in Prio
  BY <1>2, <1>9, FreshIs
<1>12. T \in [Prio -> Task \cup {Idle, Nil, Reserved}] /\ T[Lowest] = Idle
       /\ (\A p \in P : T[p] = at(p)) /\ \A p \in Prio : p # Lowest /\ p \notin P => T[p] = Nil
  BY <1>2, <1>4, <1>5, <1>6
<1>13. E \in [Event -> ECB] /\ \A e \in Event : E[e].type = "unused" /\ E[e].wait = {}
  <2> HIDE DEF Unused
  <2> QED BY UnusedIs
<1>14. NoGroup \in Group /\ NoGroup.type = "unused" /\ NoGroup.wait = {}
  BY DEF NoGroup, Group
<1>15. L \subseteq Task \cup {Idle} /\ R \subseteq Prio /\ at(h) \in Task /\ h \in Prio /\ at(h) \in L
  BY <1>2, <1>4, <1>5, <1>6, <1>8
<1> HIDE DEF K, T, E, NoGroup
<1>16. /\ s \in KState /\ s.tcb = K /\ s.list = L /\ s.tbl = T /\ s.rdy = R /\ s.ev = E /\ s.grp = NoGroup
       /\ s.cur = at(h) /\ s.prioCur = h /\ s.lock = 0 /\ s.defer = FALSE
  <2> HIDE DEF L, R
  <2> QED BY <1>11, <1>12, <1>13, <1>14, <1>15 DEF KState
<1> HIDE DEF s
<1>17. ASSUME NEW t \in L PROVE s.tcb[t].prio = prio(t) /\ prio(t) \in R /\ T[prio(t)] = t
  <2>1. s.tcb[t].prio = prio(t)  BY <1>11, <1>16, FreshIs
  <2>2. CASE t = Idle  BY <1>10, <1>12, <2>1, <2>2
  <2>3. CASE t \in D  BY <1>7, <1>10, <1>12, <2>1, <2>3
  <2> QED BY <2>2, <2>3
<1>18. ASSUME NEW p \in R PROVE Home(s, p)
  <2>1. CASE p = Lowest  BY <1>10, <1>12, <1>16, <1>17, <2>1 DEF Home
  <2>2. CASE p \in P
    <3>1. at(p) \in L /\ prio(at(p)) = p  BY <1>6, <1>10, <2>2
    <3> QED BY <1>12, <1>16, <1>17, <2>2, <3>1 DEF Home
  <2> QED BY <2>1, <2>2
<1>19. ASSUME NEW t \in L PROVE TaskOK(s, t)
  <2>1. s.tcb[t] = Fresh(prio(t)) /\ prio(t) \in Prio  BY <1>11, <1>16
  <2>2. /\ s.tcb[t].stat = {} /\ s.tcb[t].dly = 0
        /\ s.tcb[t].in = "no" /\ s.tcb[t].event = Nil /\ s.tcb[t].pend = "ok"
    BY <2>1, FreshIs
  <2>3. StatOK(s, s.tcb[t])  BY <2>2 DEF StatOK
  <2>4. Able(s.tcb[t]) /\ ~WaitsFlag(s.tcb[t]) /\ \A e \in Event : ~WaitsFor(s.tcb[t], e)
    BY <2>2 DEF Able, WaitsFlag, WaitsFor
  <2>5. s.tcb[t].prio \in s.rdy /\ s.tbl[s.tcb[t].prio] = t  BY <1>16, <1>17
  <2>6. t \notin s.grp.wait /\ \A e \in Event : s.tcb[t].prio \notin s.ev[e].wait
    BY <1>13, <1>14, <1>16
  <2> QED BY <2>3, <2>4, <2>5, <2>6 DEF TaskOK
<1>20. Tables(s)
  <2>1. s.tcb[Idle] = Fresh(Lowest)  BY <1>10, <1>11, <1>16
  <2> QED BY <1>13, <1>14, <1>16, <1>18, <1>19, <2>1 DEF Tables
<1>21. Mutual(s)
  <2>1. \A p \in Prio : s.tbl[p] \in {Nil, Reserved} \/ Home(s, p)  BY <1>12, <1>16, <1>18
  <2>2. \A e \in Event : s.ev[e].type # "mutex"  BY <1>13, <1>16
  <2> QED BY <2>1, <2>2 DEF Mutual, MutexOK, Apart, Slots
<1>22. Awaits(s)  BY <1>13, <1>14, <1>16 DEF Awaits, AwaitOK, GroupOK
<1>23. Base(s)  BY <1>16, <1>20, <1>21, <1>22 DEF Base
<1>24. CurOK(s)
  <2>1. prio(at(h)) = h  BY <1>6, <1>8, <1>10
  <2> QED BY <1>8, <1>15, <1>16, <1>17, <2>1 DEF CurOK
<1>25. Runs(s)
  <2>1. \A q \in R : h <= q  BY <1>3, <1>5, <1>8 DEF Prio
  <2>2. Highest(R) = h  BY <1>8, <1>15, <2>1, HighestIs
  <2> QED BY <1>16, <2>2 DEF Runs
<1> QED BY <1>1, <1>23, <1>24, <1>25 DEF KInv

(* What the rules keep callers from.                                       *)
LEMMA RulesSay ==
    ASSUME Rules = AllRules, KInv(os)
    PROVE  /\ MayWait => \A f \in Event : os.ev[f].type = "mutex" => os.ev[f].ptr # os.cur
           /\ \A e \in Event : MayUse(e) => os.prioCur > os.ev[e].pip
           /\ \A t : MayMove(t) => \A f \in Event : os.ev[f].type = "mutex" => os.ev[f].ptr # t
           /\ \A t : MayStop(t) => \A f \in Event : os.ev[f].type = "mutex" =>
                        os.ev[f].ptr # t /\ os.tcb[t].event # f
           /\ \A t : MayChange(t) => os.tcb[t].in = "no" /\ os.lock = 0
                        /\ \A f \in Event : os.ev[f].type = "mutex" => os.ev[f].ptr # t
           /\ \A e \in Event, b \in BOOLEAN : MayDelete(e, b) =>
                        os.ev[e].ptr = Nil \/ (b /\ os.ev[e].ptr = os.cur)
<1>1. "owner" \in Rules /\ "pip" \in Rules /\ "delete" \in Rules /\ "free" \in Rules /\ "settled" \in Rules
  BY DEF AllRules
<1>2. ASSUME NEW t, ~Owns(t) PROVE \A f \in Event : os.ev[f].type = "mutex" => os.ev[f].ptr # t
  BY <1>2 DEF Owns, Mutexes
<1>3. Cur(os).prio = os.prioCur  BY DEF KInv, CurOK, Cur
<1>4. MayWait => \A f \in Event : os.ev[f].type = "mutex" => os.ev[f].ptr # os.cur
  BY <1>1, <1>2 DEF MayWait
<1>5. \A e \in Event : MayUse(e) => os.prioCur > os.ev[e].pip  BY <1>1, <1>3 DEF MayUse
<1>6. ASSUME NEW t, MayMove(t) PROVE \A f \in Event : os.ev[f].type = "mutex" => os.ev[f].ptr # t
  BY <1>1, <1>2, <1>6 DEF MayMove
<1>7. ASSUME NEW t, MayStop(t) PROVE \A f \in Event : os.ev[f].type = "mutex" =>
                        os.ev[f].ptr # t /\ os.tcb[t].event # f
  BY <1>1, <1>6, <1>7 DEF MayStop, Mutexes
<1>8. ASSUME NEW t, MayChange(t)
      PROVE  os.tcb[t].in = "no" /\ os.lock = 0
                        /\ \A f \in Event : os.ev[f].type = "mutex" => os.ev[f].ptr # t
  BY <1>1, <1>6, <1>8 DEF MayChange
<1>9. \A e \in Event, b \in BOOLEAN : MayDelete(e, b) =>
                        os.ev[e].ptr = Nil \/ (b /\ os.ev[e].ptr = os.cur)
  BY <1>1 DEF MayDelete
<1> QED BY <1>4, <1>5, <1>6, <1>7, <1>8, <1>9

(* The services of semaphores, with the rules in force.                    *)
LEMMA SemCallOK ==
    ASSUME Rules = AllRules, KInv(os), SemCall PROVE KInv(os')
<1>1. PICK e \in Event :
        \/ /\ os.ev[e].type = "unused" /\ "sem" \in sc.kinds
           /\ \E cnt \in 0 .. 1 : Do(OSSemCreate(os, e, cnt))
        \/ /\ os.ev[e].type = "sem"
           /\ \/ Blocking /\ \E d \in 0 .. MaxTimeout : Do(OSSemPend(os, e, d))
              \/ Do(OSSemPost(os, e))
              \/ Do(OSSemAccept(os, e))
              \/ \E cnt \in 0 .. MaxCnt : Do(OSSemSet(os, e, cnt))
              \/ \E b \in BOOLEAN : Do(PendAbort(os, e, b))
              \/ \E b \in BOOLEAN : Do(Del(os, e, b))
  BY DEF SemCall
<1>2. CASE os.ev[e].type = "unused" /\ \E cnt \in 0 .. 1 : Do(OSSemCreate(os, e, cnt))
  BY <1>2, SemCreateOK DEF Do
<1>3. CASE os.ev[e].type = "sem" /\ Blocking /\ \E d \in 0 .. MaxTimeout : Do(OSSemPend(os, e, d))
  <2>1. PICK d \in 0 .. MaxTimeout : os' = OSSemPend(os, e, d)  BY <1>3 DEF Do
  <2>2. d \in Nat  BY KernelAssumption
  <2>3. \A f \in Event : os.ev[f].type = "mutex" => os.ev[f].ptr # os.cur
    BY <1>3, RulesSay DEF Blocking
  <2> QED BY <1>3, <2>1, <2>2, <2>3, SemPendOK DEF Blocking, Calls
<1>4. CASE os.ev[e].type = "sem" /\ Do(OSSemPost(os, e))  BY <1>4, SemPostOK DEF Do
<1>5. CASE os.ev[e].type = "sem" /\ Do(OSSemAccept(os, e))  BY <1>5, SemAcceptOK DEF Do
<1>6. CASE os.ev[e].type = "sem" /\ \E cnt \in 0 .. MaxCnt : Do(OSSemSet(os, e, cnt))
  BY <1>6, SemSetOK DEF Do
<1>7. CASE os.ev[e].type = "sem" /\ \E b \in BOOLEAN : Do(PendAbort(os, e, b))
  BY <1>7, PendAbortOK DEF Do
<1>8. CASE os.ev[e].type = "sem" /\ \E b \in BOOLEAN : Do(Del(os, e, b))
  BY <1>8, DelOK DEF Do
<1> QED BY <1>1, <1>2, <1>3, <1>4, <1>5, <1>6, <1>7, <1>8

(* The services of mailboxes.                                              *)
LEMMA MboxCallOK ==
    ASSUME Rules = AllRules, KInv(os), MboxCall PROVE KInv(os')
<1>1. PICK e \in Event :
        \/ /\ os.ev[e].type = "unused" /\ "mbox" \in sc.kinds
           /\ \E m \in Message \cup {Nil} : Do(OSMboxCreate(os, e, m))
        \/ /\ os.ev[e].type = "mbox"
           /\ \/ Blocking /\ \E d \in 0 .. MaxTimeout : Do(OSMboxPend(os, e, d))
              \/ \E m \in Message : Do(OSMboxPost(os, e, m))
              \/ \E m \in Message, b, n \in BOOLEAN : Do(OSMboxPostOpt(os, e, m, b, n))
              \/ Do(OSMboxAccept(os, e))
              \/ \E b \in BOOLEAN : Do(PendAbort(os, e, b))
              \/ \E b \in BOOLEAN : Do(Del(os, e, b))
  BY DEF MboxCall
<1>2. CASE os.ev[e].type = "unused" /\ \E m \in Message \cup {Nil} : Do(OSMboxCreate(os, e, m))
  BY <1>2, MboxCreateOK DEF Do
<1>3. CASE os.ev[e].type = "mbox" /\ Blocking /\ \E d \in 0 .. MaxTimeout : Do(OSMboxPend(os, e, d))
  <2>1. PICK d \in 0 .. MaxTimeout : os' = OSMboxPend(os, e, d)  BY <1>3 DEF Do
  <2>2. d \in Nat  BY KernelAssumption
  <2>3. \A f \in Event : os.ev[f].type = "mutex" => os.ev[f].ptr # os.cur
    BY <1>3, RulesSay DEF Blocking
  <2> QED BY <1>3, <2>1, <2>2, <2>3, MboxPendOK DEF Blocking, Calls
<1>4. CASE os.ev[e].type = "mbox" /\ \E m \in Message : Do(OSMboxPost(os, e, m))
  BY <1>4, MboxPostOK DEF Do
<1>5. CASE os.ev[e].type = "mbox" /\ Do(OSMboxAccept(os, e))  BY <1>5, MboxAcceptOK DEF Do
<1>6. CASE os.ev[e].type = "mbox" /\ \E m \in Message, b, n \in BOOLEAN : Do(OSMboxPostOpt(os, e, m, b, n))
  BY <1>6, MboxPostOptOK DEF Do
<1>7. CASE os.ev[e].type = "mbox" /\ \E b \in BOOLEAN : Do(PendAbort(os, e, b))
  BY <1>7, PendAbortOK DEF Do
<1>8. CASE os.ev[e].type = "mbox" /\ \E b \in BOOLEAN : Do(Del(os, e, b))
  BY <1>8, DelOK DEF Do
<1> QED BY <1>1, <1>2, <1>3, <1>4, <1>5, <1>6, <1>7, <1>8

(* The services of mutexes.                                                *)
LEMMA MutexCallOK ==
    ASSUME Rules = AllRules, KInv(os), MutexCall PROVE KInv(os')
<1>1. PICK e \in Event :
        \/ /\ os.ev[e].type = "unused" /\ "mutex" \in sc.kinds
           /\ \E pip \in 0 .. Lowest - 1 : Do(OSMutexCreate(os, e, pip))
        \/ /\ os.ev[e].type = "mutex"
           /\ \/ Blocking /\ MayUse(e) /\ \E d \in 0 .. MaxTimeout : Do(OSMutexPend(os, e, d))
              \/ MayWait /\ MayUse(e) /\ Do(OSMutexAccept(os, e))
              \/ Do(OSMutexPost(os, e))
              \/ \E b \in BOOLEAN : MayDelete(e, b) /\ Do(OSMutexDel(os, e, b))
  BY DEF MutexCall
<1>2. CASE os.ev[e].type = "unused" /\ \E pip \in 0 .. Lowest - 1 : Do(OSMutexCreate(os, e, pip))
  <2>1. PICK pip \in 0 .. Lowest - 1 : os' = OSMutexCreate(os, e, pip)  BY <1>2 DEF Do
  <2>2. pip \in Prio /\ pip < Lowest  BY OsCoreAssumption DEF Prio
  <2> QED BY <1>2, <2>1, <2>2, MutexCreateOK
<1>3. CASE os.ev[e].type = "mutex" /\ Blocking /\ MayUse(e) /\ \E d \in 0 .. MaxTimeout : Do(OSMutexPend(os, e, d))
  <2>1. PICK d \in 0 .. MaxTimeout : os' = OSMutexPend(os, e, d)  BY <1>3 DEF Do
  <2>2. d \in Nat  BY KernelAssumption
  <2>3. \A f \in Event : os.ev[f].type = "mutex" => os.ev[f].ptr # os.cur
    BY <1>3, RulesSay DEF Blocking
  <2>4. os.prioCur > os.ev[e].pip  BY <1>3, RulesSay
  <2> QED BY <1>3, <2>1, <2>2, <2>3, <2>4, MutexPendOK DEF Blocking, Calls
<1>4. CASE os.ev[e].type = "mutex" /\ MayWait /\ MayUse(e) /\ Do(OSMutexAccept(os, e))
  <2>1. \A f \in Event : os.ev[f].type = "mutex" => os.ev[f].ptr # os.cur
    BY <1>4, RulesSay
  <2>2. os.prioCur > os.ev[e].pip  BY <1>4, RulesSay
  <2>3. os.cur \in Task /\ Cur(os).in = "no"  BY DEF MutexCall, Calls
  <2> QED BY <1>4, <2>1, <2>2, <2>3, MutexAcceptOK DEF Do
<1>5. CASE os.ev[e].type = "mutex" /\ Do(OSMutexPost(os, e))  BY <1>5, MutexPostOK DEF Do
<1>6. CASE os.ev[e].type = "mutex" /\ \E b \in BOOLEAN : MayDelete(e, b) /\ Do(OSMutexDel(os, e, b))
  <2>1. PICK b \in BOOLEAN : MayDelete(e, b) /\ os' = OSMutexDel(os, e, b)  BY <1>6 DEF Do
  <2>2. os.ev[e].ptr = Nil \/ (b /\ os.ev[e].ptr = os.cur)  BY <2>1, RulesSay
  <2> QED BY <1>6, <2>1, <2>2, MutexDelOK
<1> QED BY <1>1, <1>2, <1>3, <1>4, <1>5, <1>6

(* The services of event flags.                                            *)
LEMMA FlagCallOK ==
    ASSUME Rules = AllRules, KInv(os), FlagCall PROVE KInv(os')
<1>1. CASE os.grp.type = "unused" /\ \E flags \in SUBSET Flag : Do(OSFlagCreate(os, flags))
  BY <1>1, FlagCreateOK DEF Do
<1>2. CASE os.grp.type = "flag" /\ Blocking /\ \E n \in Waits, d \in 0 .. MaxTimeout : Do(OSFlagPend(os, n, d))
  <2>1. PICK n \in Waits, d \in 0 .. MaxTimeout : os' = OSFlagPend(os, n, d)
    BY <1>2 DEF Do
  <2>2. d \in Nat /\ n \in Node  BY KernelAssumption
  <2>3. \A f \in Event : os.ev[f].type = "mutex" => os.ev[f].ptr # os.cur
    BY <1>2, RulesSay DEF Blocking
  <2> QED BY <1>2, <2>1, <2>2, <2>3, FlagPendOK DEF Blocking, Calls
<1>3. CASE \E n \in Waits : Do(OSFlagAccept(os, n))
  <2>1. PICK n \in Waits : os' = OSFlagAccept(os, n)  BY <1>3 DEF Do
  <2>2. n \in Node  BY KernelAssumption
  <2> QED BY <2>1, <2>2, FlagAcceptOK
<1>4. CASE \E f \in SUBSET Flag \ {{}}, b \in BOOLEAN : Do(OSFlagPost(os, f, b))
  BY <1>4, FlagPostOK DEF Do
<1>5. CASE \E b \in BOOLEAN : Do(OSFlagDel(os, b))
  BY <1>5, FlagDelOK DEF Do
<1> QED BY <1>1, <1>2, <1>3, <1>4, <1>5 DEF FlagCall

(* The services that manage tasks.                                         *)
LEMMA TaskCallOK ==
    ASSUME Rules = AllRules, KInv(os), sc \in Scenarios, TaskCall PROVE KInv(os')
<1>1. ASSUME NEW t \in DOMAIN sc.start \ os.list, NEW p \in 0 .. Lowest - 1, Do(OSTaskCreate(os, t, p))
      PROVE  KInv(os')
  <2>1. t \in Task /\ t \notin os.list  BY KernelAssumption
  <2>2. p \in Prio  BY OsCoreAssumption DEF Prio
  <2> QED BY <1>1, <2>1, <2>2, TaskCreateOK DEF Do
<1>2. ASSUME NEW p \in 0 .. Lowest - 1, Exists(os, p),
             \/ MayStop(os.tbl[p]) /\ (os.tbl[p] = os.cur => os.lock = 0) /\ Do(OSTaskDel(os, p))
             \/ MayStop(os.tbl[p]) /\ (os.tbl[p] = os.cur => os.lock = 0) /\ Do(OSTaskSuspend(os, p))
             \/ Do(OSTaskResume(os, p))
             \/ Do(OSTimeDlyResume(os, p))
             \/ /\ MayChange(os.tbl[p])
                /\ \E new \in 0 .. Lowest - 1 : Do(OSTaskChangePrio(os, p, new))
      PROVE  KInv(os')
  <2>1. p \in Prio /\ p < Lowest  BY OsCoreAssumption DEF Prio
  <2>2. CASE MayStop(os.tbl[p]) /\ (os.tbl[p] = os.cur => os.lock = 0) /\ Do(OSTaskDel(os, p))
    <3>1. \A f \in Event : os.ev[f].type = "mutex" => os.ev[f].ptr # os.tbl[p]
      BY <2>2, RulesSay
    <3> QED BY <1>2, <2>1, <2>2, <3>1, TaskDelOK DEF Do
  <2>3. CASE MayStop(os.tbl[p]) /\ (os.tbl[p] = os.cur => os.lock = 0) /\ Do(OSTaskSuspend(os, p))
    <3>1. \A f \in Event : os.ev[f].type = "mutex" => os.ev[f].ptr # os.tbl[p] /\ os.tcb[os.tbl[p]].event # f
      BY <2>3, RulesSay
    <3> QED BY <1>2, <2>1, <2>3, <3>1, TaskSuspendOK DEF Do
  <2>4. CASE Do(OSTaskResume(os, p))  BY <1>2, <2>1, <2>4, TaskResumeOK DEF Do
  <2>5. CASE Do(OSTimeDlyResume(os, p))  BY <1>2, <2>1, <2>5, TimeDlyResumeOK DEF Do
  <2>6. CASE MayChange(os.tbl[p]) /\ \E new \in 0 .. Lowest - 1 : Do(OSTaskChangePrio(os, p, new))
    <3>1. PICK new \in 0 .. Lowest - 1 : os' = OSTaskChangePrio(os, p, new)
      BY <2>6 DEF Do
    <3>2. new \in Prio  BY OsCoreAssumption DEF Prio
    <3>3. os.tcb[os.tbl[p]].in = "no" /\ os.lock = 0
          /\ \A f \in Event : os.ev[f].type = "mutex" => os.ev[f].ptr # os.tbl[p]
      BY <2>6, RulesSay
    <3> QED BY <1>2, <2>1, <3>1, <3>2, <3>3, ChangePrioOK
  <2> QED BY <1>2, <2>2, <2>3, <2>4, <2>5, <2>6
<1> QED BY <1>1, <1>2 DEF TaskCall

(* Interrupts keep no rules.                                               *)
LEMMA InterruptOK ==
    ASSUME KInv(os), Interrupt PROVE KInv(os')
<1>1. CASE Do(OSIntExit(OSTimeTick(os)))  BY <1>1, TickOK DEF Do
<1>2. ASSUME NEW e \in Event, os.ev[e].type = "sem", Do(OSIntExit(OSSemPost(os, e))) PROVE KInv(os')
  BY <1>2, SemPostOK, IntExitOK DEF Do
<1>3. ASSUME NEW e \in Event, os.ev[e].type = "mbox", NEW m \in Message, Do(OSIntExit(OSMboxPost(os, e, m)))
      PROVE KInv(os')
  BY <1>3, MboxPostOK, IntExitOK DEF Do
<1>4. ASSUME NEW f \in SUBSET Flag \ {{}}, NEW b \in BOOLEAN, Do(OSIntExit(OSFlagPost(os, f, b)))
      PROVE KInv(os')
  <2>1. KInv(OSFlagPost(os, f, b))  BY FlagPostOK
  <2> QED BY <1>4, <2>1, IntExitOK DEF Do
<1> QED BY <1>1, <1>2, <1>3, <1>4 DEF Interrupt

(* Every step preserves the invariant.                                     *)
LEMMA KernelStep ==
    ASSUME Rules = AllRules, KernelInv, [KernelNext]_kernelVars
    PROVE  KernelInv'
<1>1. sc' = sc /\ sc' \in Scenarios
  BY
  DEF KernelInv, KernelNext, kernelVars, Do, SemCall, MboxCall, MutexCall, FlagCall,
      TaskCall,
         DelayCall, LockCall, Resume, Interrupt
<1>2. KInv(os) /\ sc \in Scenarios  BY DEF KernelInv
<1>3. ASSUME SemCall PROVE KInv(os')  BY <1>2, <1>3, SemCallOK
<1>4. ASSUME MboxCall PROVE KInv(os')  BY <1>2, <1>4, MboxCallOK
<1>5. ASSUME MutexCall PROVE KInv(os')  BY <1>2, <1>5, MutexCallOK
<1>6. ASSUME FlagCall PROVE KInv(os')  BY <1>2, <1>6, FlagCallOK
<1>7. ASSUME TaskCall PROVE KInv(os')  BY <1>2, <1>7, TaskCallOK
<1>8. ASSUME DelayCall PROVE KInv(os')
  <2>1. PICK d \in 1 .. MaxTimeout : os' = OSTimeDly(os, d)  BY <1>8 DEF DelayCall, Do
  <2>2. d \in Nat /\ d > 0  BY KernelAssumption
  <2>3. os.lock = 0 /\ Calls  BY <1>8 DEF DelayCall
  <2> QED BY <1>2, <2>1, <2>2, <2>3, TimeDlyOK DEF Calls
<1>9. ASSUME LockCall PROVE KInv(os')
  <2>1. CASE os' = OSSchedLock(os)  BY <1>2, <2>1, SchedLockOK
  <2>2. CASE os.lock > 0 /\ os' = OSSchedUnlock(os)  BY <1>2, <2>2, SchedUnlockOK
  <2> QED BY <1>9, <2>1, <2>2 DEF LockCall, Do
<1>10. ASSUME Resume PROVE KInv(os')
  <2>1. CASE Cur(os).in = "event" /\ os' = PendReturns(os)
    BY <1>2, <1>10, <2>1, PendReturnsOK DEF Resume
  <2>2. CASE Cur(os).in = "flag" /\ os' = OSFlagPendReturns(os)
    BY <1>2, <1>10, <2>2, FlagPendReturnsOK DEF Resume
  <2> QED BY <1>10, <2>1, <2>2 DEF Resume, Do
<1>11. ASSUME Interrupt PROVE KInv(os')  BY <1>2, <1>11, InterruptOK
<1>12. ASSUME UNCHANGED kernelVars PROVE KInv(os')
  <2>1. os' = os  BY <1>12 DEF kernelVars
  <2> QED BY <1>2, <2>1
<1>13. KInv(os')
  BY <1>3, <1>4, <1>5, <1>6, <1>7, <1>8, <1>9, <1>10, <1>11, <1>12 DEF KernelNext
<1> QED BY <1>1, <1>13 DEF KernelInv

-----------------------------------------------------------------------------
(* For every set of tasks and events, every number of priorities and every *)
(* length of a timeout: callers that keep the rules never take the kernel  *)
(* out of its invariant, whatever the order of their calls and of the      *)
(* interrupts.                                                             *)
THEOREM KernelInvariant ==
    ASSUME Rules = AllRules
    PROVE  KernelSpec => []KernelInv
<1>1. KernelInit => KernelInv  BY StartOK DEF KernelInit, KernelInv
<1>2. KernelInv /\ [KernelNext]_kernelVars => KernelInv'  BY KernelStep
<1> QED BY <1>1, <1>2, PTL DEF KernelSpec

(* A task's control block agrees at every time with the ready table and    *)
(* the wait lists that OS_Sched, the posts and the tick work on: a task is *)
(* in the ready table exactly if nothing holds it back, and in a wait list *)
(* exactly if it is inside a Pend there and nothing has been posted to it. *)
THEOREM TablesCorrect ==
    ASSUME Rules = AllRules
    PROVE  KernelSpec => []TablesExact
<1>1. ASSUME KernelInv PROVE TablesExact
  <2>1. Base(os) /\ Tables(os) /\ os \in KState  BY <1>1 DEF KernelInv, KInv, Base
  <2>2. \A t \in os.list : TaskOK(os, t)  BY <2>1 DEF Tables
  <2>3. ReadyExact
    <3>1. ASSUME NEW t \in os.list
          PROVE  /\ os.tcb[t].prio \in os.rdy <=> (os.tcb[t].stat = {} /\ os.tcb[t].dly = 0)
                 /\ os.tbl[os.tcb[t].prio] = t
      BY <2>2 DEF TaskOK, Able
    <3>2. \A p \in os.rdy : os.tbl[p] \in os.list /\ os.tcb[os.tbl[p]].prio = p
      BY <2>1 DEF Tables, Home
    <3> QED BY <3>1, <3>2 DEF ReadyExact
  <2>4. ASSUME NEW e \in Event
        PROVE  os.ev[e].wait = {os.tcb[t].prio : t \in {u \in os.list :
                            os.tcb[u].in = "event" /\ os.tcb[u].event = e /\ StillWaits(u)}}
    <3> DEFINE S == {u \in os.list : os.tcb[u].in = "event" /\ os.tcb[u].event = e /\ StillWaits(u)}
    <3>1. \A t \in os.list : t \in S <=> os.tcb[t].prio \in os.ev[e].wait
      BY <2>2 DEF TaskOK, WaitsFor, Still, StillWaits
    <3>2. \A p \in os.ev[e].wait : os.tbl[p] \in os.list /\ os.tcb[os.tbl[p]].prio = p
      BY <2>1 DEF Tables, Home
    <3>3. S \subseteq os.list  OBVIOUS
    <3> HIDE DEF S
    <3>4. os.ev[e].wait = {os.tcb[t].prio : t \in S}  BY <3>1, <3>2, <3>3
    <3> QED BY <3>4 DEF S
  <2>5. os.grp.wait = {t \in os.list : os.tcb[t].in = "flag" /\ StillWaits(t)}
    <3>1. os.grp.wait \subseteq os.list  BY <2>1 DEF Tables
    <3>2. \A t \in os.list : t \in os.grp.wait <=> (os.tcb[t].in = "flag" /\ StillWaits(t))
      BY <2>2 DEF TaskOK, WaitsFlag, Still, StillWaits
    <3> QED BY <3>1, <3>2
  <2>6. WaitListsExact  BY <2>4, <2>5 DEF WaitListsExact
  <2> QED BY <2>3, <2>6 DEF TablesExact
<1> QED BY <1>1, KernelInvariant, PTL

(* The processor runs the most urgent ready task whenever OSSchedLock is   *)
(* not held and the last service did not leave OS_Sched out.               *)
THEOREM SchedulerCorrect ==
    ASSUME Rules = AllRules
    PROVE  KernelSpec => []RunsHighest
<1>1. ASSUME KernelInv PROVE RunsHighest
  <2>1. Base(os) /\ CurOK(os) /\ Runs(os)  BY <1>1 DEF KernelInv, KInv
  <2>2. os.tbl[os.prioCur] = os.cur  BY <2>1, CurIs
  <2> QED BY <2>1, <2>2 DEF Runs, RunsHighest
<1> QED BY <1>1, KernelInvariant, PTL

(* Nobody waits for a semaphore that counts, a mailbox that has a message, *)
(* a mutex that has no owner, or flags that are set: no post is lost       *)
(* between the steps of a Pend, the tick and a resume.                     *)
THEOREM NobodySleeps ==
    ASSUME Rules = AllRules
    PROVE  KernelSpec => []NoSleepOnAvailable
<1>1. ASSUME KernelInv PROVE NoSleepOnAvailable
  <2>1. Awaits(os) /\ os \in KState  BY <1>1 DEF KernelInv, KInv, Base
  <2>2. ASSUME NEW e \in Event, os.ev[e].wait # {}
        PROVE  \/ os.ev[e].type = "sem" /\ os.ev[e].cnt = 0
               \/ os.ev[e].type = "mbox" /\ os.ev[e].ptr = Nil
               \/ os.ev[e].type = "mutex" /\ os.ev[e].ptr # Nil
    <3>1. AwaitOK(os, e)  BY <2>1 DEF Awaits
    <3>2. os.ev[e].type \in {"unused", "sem", "mbox", "mutex"}  BY <2>1 DEF KState, ECB
    <3> QED BY <2>2, <3>1, <3>2 DEF AwaitOK
  <2>3. GroupOK(os)  BY <2>1 DEF Awaits
  <2> QED BY <2>2, <2>3 DEF NoSleepOnAvailable, GroupOK
<1> QED BY <1>1, KernelInvariant, PTL

(* While a task waits for a mutex that is more urgent than its owner was,  *)
(* the owner runs at the PIP of OSMutexCreate, and nobody runs there who   *)
(* does not own that mutex.                                                *)
THEOREM InversionCorrect ==
    ASSUME Rules = AllRules
    PROVE  KernelSpec => []InversionBounded
<1>1. ASSUME KernelInv PROVE InversionBounded
  <2>1. Tables(os) /\ Mutual(os) /\ Awaits(os) /\ os \in KState
    BY <1>1 DEF KernelInv, KInv, Base
  <2>2. ASSUME NEW e \in Mutexes, os.ev[e].ptr # Nil
        PROVE  /\ os.ev[e].ptr \in os.list
               /\ os.tcb[os.ev[e].ptr].prio \in {os.ev[e].cnt, os.ev[e].pip}
               /\ (\E p \in os.ev[e].wait : p < os.ev[e].cnt) => os.tcb[os.ev[e].ptr].prio = os.ev[e].pip
    <3>1. e \in Event /\ os.ev[e].type = "mutex"  BY DEF Mutexes
    <3>2. OwnerOK(os, e)  BY <2>1, <2>2, <3>1 DEF Mutual, MutexOK
    <3>3. Lifted(os, e)  BY <2>1, <2>2, <3>1 DEF Awaits, AwaitOK
    <3>4. os.ev[e].ptr \in os.list /\ os.tcb[os.ev[e].ptr].prio \in {os.ev[e].cnt, os.ev[e].pip}
      BY <3>2 DEF OwnerOK
    <3> QED BY <3>3, <3>4 DEF Lifted
  <2>3. ASSUME NEW t \in os.list, NEW e \in Mutexes, os.tcb[t].prio = os.ev[e].pip
        PROVE  os.ev[e].ptr = t
    <3>1. e \in Event /\ os.ev[e].type = "mutex"  BY DEF Mutexes
    <3>2. os.tbl[os.ev[e].pip] = t  BY <2>1, <2>3 DEF Tables, TaskOK
    <3>3. t # Reserved  BY <2>1, OsCoreAssumption DEF KState
    <3>4. os.tbl[os.ev[e].pip] = Reserved \/ os.tbl[os.ev[e].pip] = os.ev[e].ptr
      BY <2>1, <3>1, PipSlot
    <3> QED BY <3>2, <3>3, <3>4
  <2> QED BY <2>2, <2>3 DEF InversionBounded
<1> QED BY <1>1, KernelInvariant, PTL
=============================================================================

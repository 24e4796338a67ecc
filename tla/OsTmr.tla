------------------------------- MODULE OsTmr -------------------------------
(***************************************************************************)
(* The software timers of uC/OS-II, demo/UCOSII/CORE/os_tmr.c, and the     *)
(* tick hook that drives them, demo/UCOSII/PORT/os_cpu_c.c.                *)
(*                                                                         *)
(* Running timers hang from the spokes of a wheel.  The timer task visits  *)
(* the spoke of each new time with the scheduler locked, so no other task  *)
(* calls a timer service meanwhile; the callbacks it runs do.  It reads    *)
(* the successor of a timer before it runs the timer's callback.  A list   *)
(* of timers is a sequence; OSTmrNext is read off the sequence a timer is  *)
(* in.                                                                     *)
(***************************************************************************)
EXTENDS Integers, Sequences, FiniteSets, Functions

CONSTANTS
    Tmr,            \* OSTmrTbl
    OS_TMR_CFG_WHEEL_SIZE,
    OSTmrTimeMax,   \* OSTmrTime counts modulo this, 2^32 in the code
    TicksPerSignal, \* OS_TICKS_PER_SEC / OS_TMR_CFG_TICKS_PER_SEC
    Settings,       \* bound: the <<delay, period>> pairs timers are created with
    MaxSignal,      \* bound: signals the timer task is behind
    MaxCalls,       \* bound: services one callback calls
    NoTmr,          \* the null pointer
    CallbackOwn     \* TRUE: a callback stops or deletes no timer but its own

ASSUME OsTmrAssumption ==
    /\ OS_TMR_CFG_WHEEL_SIZE \in Nat \ {0} /\ TicksPerSignal \in Nat \ {0}
    /\ OSTmrTimeMax \in Nat \ {0}
    /\ \A s \in Settings : /\ s \in (0 .. OSTmrTimeMax - 1) \X (0 .. OSTmrTimeMax - 1)
                           /\ s[1] + s[2] > 0
    /\ MaxSignal \in Nat /\ MaxCalls \in Nat
    /\ IsFiniteSet(Tmr) /\ NoTmr \notin Tmr /\ CallbackOwn \in BOOLEAN

VARIABLES
    tmr,        \* per timer: state, match, dly, period (0 for one shot)
    wheel,      \* OSTmrWheelTbl
    tmrFree,    \* OSTmrFreeList
    OSTmrTime,
    OSTmrCtr,   \* ticks since the last signal
    signals,    \* the count of OSTmrSemSignal
    walk        \* the timer task: waiting, visiting a timer, in its callback

tmrVars == <<tmr, wheel, tmrFree, OSTmrTime, OSTmrCtr, signals, walk>>

Spoke == 0 .. OS_TMR_CFG_WHEEL_SIZE - 1
Waiting == [at |-> NoTmr, next |-> NoTmr, in |-> "pend", calls |-> 0]
Blank == [state |-> "unused", match |-> 0, dly |-> 0, period |-> 0]

TmrInit ==
    /\ tmr = [t \in Tmr |-> Blank]
    /\ wheel = [i \in Spoke |-> <<>>]
    /\ tmrFree = CHOOSE s \in Injection(1 .. Cardinality(Tmr), Tmr) : TRUE
    /\ OSTmrTime = 0 /\ OSTmrCtr = 0 /\ signals = 0
    /\ walk = Waiting

-----------------------------------------------------------------------------
SpokeOf(match) == match % OS_TMR_CFG_WHEEL_SIZE

(* OSTmrNext: in the list the timer is in, if any.                         *)
After(s, t) == {s[i + 1] : i \in {j \in 1 .. Len(s) - 1 : s[j] = t}}
OSTmrNext(w, t) ==
    LET succ == UNION {After(w[i], t) : i \in Spoke} \cup After(tmrFree, t)
    IN  IF succ = {} THEN NoTmr ELSE CHOOSE u \in succ : TRUE

(* A list without a timer: those behind it move up.                        *)
Without(s, t) ==
    IF t \notin Range(s) THEN s
    ELSE LET p == CHOOSE i \in 1 .. Len(s) : s[i] = t
         IN  [i \in 1 .. Len(s) - 1 |-> IF i < p THEN s[i] ELSE s[i + 1]]

(* OSTmr_Link puts the timer at the head of the spoke of its time.         *)
OSTmr_Link(w, t, match) == [w EXCEPT ![SpokeOf(match)] = <<t>> \o w[SpokeOf(match)]]
OSTmr_Unlink(w, t) ==
    [w EXCEPT ![SpokeOf(tmr[t].match)] = Without(w[SpokeOf(tmr[t].match)], t)]

Match(ticks) == (OSTmrTime + ticks) % OSTmrTimeMax

(* A task calls a service with the timer task waiting, a callback while it *)
(* runs.                                                                   *)
MayCall ==
    \/ walk.in = "pend" /\ UNCHANGED walk
    \/ /\ walk.in = "callback" /\ walk.calls < MaxCalls
       /\ walk' = [walk EXCEPT !.calls = walk.calls + 1]

MayTouch(t) == walk.in = "callback" /\ CallbackOwn => walk.at = t

OSTmrCreate(dly, period) ==
    /\ MayCall
    /\ tmrFree # <<>>
    /\ tmr' = [tmr EXCEPT ![Head(tmrFree)] =
                [state |-> "stopped", match |-> 0, dly |-> dly, period |-> period]]
    /\ tmrFree' = Tail(tmrFree)
    /\ UNCHANGED <<wheel, OSTmrTime, OSTmrCtr, signals>>

(* OSTmrStart, also of a timer that runs: it starts again.                 *)
OSTmrStart(t) ==
    /\ MayCall
    /\ tmr[t].state # "unused"
    /\ tmr[t].state = "running" => MayTouch(t)
    /\ LET match == Match(IF tmr[t].dly = 0 THEN tmr[t].period ELSE tmr[t].dly)
           off == IF tmr[t].state = "running" THEN OSTmr_Unlink(wheel, t) ELSE wheel
       IN  /\ wheel' = OSTmr_Link(off, t, match)
           /\ tmr' = [tmr EXCEPT ![t].state = "running", ![t].match = match]
    /\ UNCHANGED <<tmrFree, OSTmrTime, OSTmrCtr, signals>>

(* OSTmrStop; the callback that OS_TMR_OPT_CALLBACK asks for runs in the   *)
(* caller, whose further calls are steps of their own.                     *)
OSTmrStop(t) ==
    /\ MayCall /\ MayTouch(t)
    /\ tmr[t].state = "running"
    /\ wheel' = OSTmr_Unlink(wheel, t)
    /\ tmr' = [tmr EXCEPT ![t].state = "stopped"]
    /\ UNCHANGED <<tmrFree, OSTmrTime, OSTmrCtr, signals>>

OSTmrDel(t) ==
    /\ MayCall /\ MayTouch(t)
    /\ tmr[t].state # "unused"
    /\ wheel' = IF tmr[t].state = "running" THEN OSTmr_Unlink(wheel, t) ELSE wheel
    /\ tmr' = [tmr EXCEPT ![t] = Blank]
    /\ tmrFree' = <<t>> \o tmrFree
    /\ UNCHANGED <<OSTmrTime, OSTmrCtr, signals>>

(* OSTimeTickHook: every TicksPerSignal ticks OSTmrSignal posts the        *)
(* semaphore of the timer task.                                            *)
OSTimeTickHook ==
    /\ signals < MaxSignal
    /\ LET full == OSTmrCtr + 1 >= TicksPerSignal
       IN  /\ OSTmrCtr' = IF full THEN 0 ELSE OSTmrCtr + 1
           /\ signals' = IF full THEN signals + 1 ELSE signals
    /\ UNCHANGED <<tmr, wheel, tmrFree, OSTmrTime, walk>>

(* OSTmr_Task takes a signal: the time goes on and the walk begins.        *)
OSTmr_TaskWakes ==
    /\ walk.in = "pend" /\ signals > 0
    /\ signals' = signals - 1
    /\ OSTmrTime' = (OSTmrTime + 1) % OSTmrTimeMax
    /\ LET spoke == wheel[SpokeOf(OSTmrTime')]
       IN  walk' = IF spoke = <<>> THEN Waiting ELSE [Waiting EXCEPT !.at = Head(spoke), !.in = "visit"]
    /\ UNCHANGED <<tmr, wheel, tmrFree, OSTmrCtr>>

(* The walk goes on with the timer that was next.                          *)
GoesOn(next) == IF next = NoTmr THEN Waiting ELSE [Waiting EXCEPT !.at = next, !.in = "visit"]

(* OSTmr_Task visits a timer: one whose time it is leaves the wheel, or    *)
(* hangs anew if it is periodic, and its callback runs.                    *)
OSTmr_TaskVisits ==
    /\ walk.in = "visit"
    /\ LET t == walk.at
           next == OSTmrNext(wheel, t)
           off == OSTmr_Unlink(wheel, t)
           again == Match(tmr[t].period)
       IN  IF tmr[t].match # OSTmrTime
           THEN walk' = GoesOn(next) /\ UNCHANGED <<tmr, wheel>>
           ELSE /\ walk' = [walk EXCEPT !.next = next, !.in = "callback"]
                /\ IF tmr[t].period > 0
                   THEN /\ wheel' = OSTmr_Link(off, t, again)
                        /\ tmr' = [tmr EXCEPT ![t].match = again]
                   ELSE /\ wheel' = off
                        /\ tmr' = [tmr EXCEPT ![t].state = "completed"]
    /\ UNCHANGED <<tmrFree, OSTmrTime, OSTmrCtr, signals>>

(* Mutant: the successor is read after the callback, when a periodic timer *)
(* already hangs from another spoke.                                       *)
CallbackReturns_LateNext ==
    /\ walk.in = "callback"
    /\ walk' = GoesOn(OSTmrNext(wheel, walk.at))
    /\ UNCHANGED <<tmr, wheel, tmrFree, OSTmrTime, OSTmrCtr, signals>>

CallbackReturns ==
    /\ walk.in = "callback"
    /\ walk' = GoesOn(walk.next)
    /\ UNCHANGED <<tmr, wheel, tmrFree, OSTmrTime, OSTmrCtr, signals>>

TmrTask == OSTmr_TaskWakes \/ OSTmr_TaskVisits \/ CallbackReturns

TmrNext ==
    \/ \E s \in Settings : OSTmrCreate(s[1], s[2])
    \/ \E t \in Tmr : OSTmrStart(t) \/ OSTmrStop(t) \/ OSTmrDel(t)
    \/ OSTimeTickHook
    \/ TmrTask

TmrSpec == TmrInit /\ [][TmrNext]_tmrVars

-----------------------------------------------------------------------------
(* Every running timer hangs from the spoke of its time, once, and no      *)
(* other timer hangs from the wheel; the free list holds the unused ones.  *)
WheelExact ==
    /\ \A i \in Spoke : \A t \in Tmr :
        Cardinality({j \in 1 .. Len(wheel[i]) : wheel[i][j] = t}) =
            IF tmr[t].state = "running" /\ SpokeOf(tmr[t].match) = i THEN 1 ELSE 0
    /\ Range(tmrFree) = {t \in Tmr : tmr[t].state = "unused"}
    /\ Len(tmrFree) = Cardinality(Range(tmrFree))

(* No running timer is missed: when the timer task waits again, the time   *)
(* of each lies ahead, no further than the delay or period it was given.   *)
NoneMissed ==
    walk.in = "pend" => \A t \in Tmr : tmr[t].state = "running" =>
        LET left == (tmr[t].match - OSTmrTime) % OSTmrTimeMax
        IN  left > 0 /\ (left <= tmr[t].dly \/ left <= tmr[t].period)

(* The timer services and the callbacks, whatever they start, stop and     *)
(* delete during a walk, leave the wheel exact, and no expiry is missed.   *)
TimersExact == WheelExact /\ NoneMissed
=============================================================================

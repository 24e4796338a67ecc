---------------------------- MODULE DatahubTimer ----------------------------
(***************************************************************************)
(* The timer interface the SDK is given (USER/DatahubTimer.c).  A timer is *)
(* one word, the value of OSTime at which it ends; OSTime counts ticks in  *)
(* a word of its own and wraps round.  The SDK sets a timer, then asks     *)
(* whether it has expired and how long it has left.                        *)
(*                                                                         *)
(* due is the deadline as it was asked for, in ticks from now and without  *)
(* any wrapping; it is what the two answers are compared with.             *)
(***************************************************************************)
EXTENDS Integers

CONSTANTS
    H,                 \* half the range of a word: 2^31
    OS_TICKS_PER_SEC,
    MsPerSec,          \* 1000
    Millis,            \* timeouts given to countdown_ms
    Seconds            \* timeouts given to countdown

U == 2 * H

(* A timeout fits if its conversion to ticks does not overflow a word and  *)
(* gives less than half its range: under 6 hours for countdown_ms, under   *)
(* 124 days for countdown.                                                 *)
ASSUME TimerAssumption ==
    /\ H \in Nat \ {0} /\ OS_TICKS_PER_SEC \in Nat \ {0} /\ MsPerSec \in Nat \ {0}
    /\ MsPerSec \div OS_TICKS_PER_SEC \in Nat \ {0}
    /\ H > 1
    /\ Millis \subseteq Nat /\ Seconds \subseteq Nat
    /\ \A t \in Millis :
          /\ t * OS_TICKS_PER_SEC < U
          /\ (t * OS_TICKS_PER_SEC) \div MsPerSec \in 0 .. (H - 1)
    /\ \A s \in Seconds : s * OS_TICKS_PER_SEC \in 0 .. (H - 1)

VARIABLES
    OSTime,
    end,     \* timer->end
    set,     \* 1 once the timer has been set, 0 after InitTimer
    due      \* history: ticks to the deadline; stops at -H

timerVars == <<OSTime, end, set, due>>

Word(n) == n % U
Signed(w) == IF w < H THEN w ELSE w - U

MsPerTick == MsPerSec \div OS_TICKS_PER_SEC

TimerInit == OSTime \in 0 .. (U - 1) /\ end = 0 /\ set = 0 /\ due = 0

-----------------------------------------------------------------------------
(* The difference end - now as the code stores it in an int.               *)
Res == Signed(Word(end - OSTime))

(* Mutant: compares the words instead of their difference.                 *)
expired_Compare == OSTime >= end

expired == Res <= 0

left_ms == IF Res < 0 THEN 0 ELSE Signed((Res * MsPerTick) % U)

(* countdown_ms: at least one tick.                                        *)
Count(t) ==
    LET c == Word(t * OS_TICKS_PER_SEC) \div MsPerSec
    IN  IF c = 0 THEN 1 ELSE c

countdown_ms(t) ==
    /\ end' = Word(OSTime + Count(t))
    /\ set' = 1
    /\ due' = LET c == (t * OS_TICKS_PER_SEC) \div MsPerSec
              IN  IF c = 0 THEN 1 ELSE c
    /\ UNCHANGED OSTime

countdown(s) ==
    /\ end' = Word(OSTime + Word(s * OS_TICKS_PER_SEC))
    /\ set' = 1
    /\ due' = s * OS_TICKS_PER_SEC
    /\ UNCHANGED OSTime

InitTimer ==
    /\ end' = 0 /\ set' = 0 /\ due' = 0
    /\ UNCHANGED OSTime

(* OSTimeTick increments the word; a deadline passed by H ticks or more is *)
(* only known to be long past.                                             *)
Tick ==
    /\ OSTime' = Word(OSTime + 1)
    /\ due' = IF set = 1 /\ due > 0 - H THEN due - 1 ELSE due
    /\ UNCHANGED <<end, set>>

TimerCall ==
    \/ \E t \in Millis : countdown_ms(t)
    \/ \E s \in Seconds : countdown(s)
    \/ InitTimer

TimerNext == TimerCall \/ Tick

TimerSpec == TimerInit /\ [][TimerNext]_timerVars

-----------------------------------------------------------------------------
(* The variables keep their ranges.                                        *)
TimerTypeOK ==
    /\ OSTime \in 0 .. (U - 1)
    /\ end \in 0 .. (U - 1)
    /\ set \in {0, 1}
    /\ due \in (0 - H) .. (H - 1)

(* expired answers yes exactly when the time asked for has passed, at any  *)
(* value of the tick counter and across its wrap, until H ticks after the  *)
(* deadline (124 days).                                                    *)
ExpiredExact == set = 1 /\ due > 0 - H => (expired <=> due <= 0)

(* left_ms is the time to the deadline in ms, 0 once it has passed, as     *)
(* long as that number of ms fits an int.                                  *)
LeftExact ==
    set = 1 /\ due > 0 - H /\ due * MsPerTick < H =>
        left_ms = IF due < 0 THEN 0 ELSE due * MsPerTick

(* Both answers of the timer are right.                                    *)
TimerExact == ExpiredExact /\ LeftExact
=============================================================================

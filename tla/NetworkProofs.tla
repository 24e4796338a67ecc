--------------------------- MODULE NetworkProofs ---------------------------
(***************************************************************************)
(* Proofs about the timer interface and the network interface.             *)
(*                                                                         *)
(* The answers of the timer functions are right for every width of the     *)
(* tick counter, every tick rate and all timeouts that fit: the inductive  *)
(* invariant says that the word end and OSTime + due are equal up to one   *)
(* turn of the counter.                                                    *)
(*                                                                         *)
(* The network interface uses the timer only through its functions, so     *)
(* this holds in every behaviour of the two.  An invariant of the two      *)
(* together, NetInv, gives the rest: what ConnectNetwork takes it gives    *)
(* back, and ucos_read delivers the stream in step and blocks no longer    *)
(* than the bounds say.                                                    *)
(***************************************************************************)
EXTENDS Network, SequenceTheorems, TLAPS


Linked ==
    set = 1 /\ due > 0 - H =>
        \/ end = OSTime + due
        \/ end = OSTime + due + U
        \/ end = OSTime + due - U

TimerInv == TimerTypeOK /\ Linked

-----------------------------------------------------------------------------
(* Word on each turn of the counter it is applied to.                      *)
LEMMA WordTurns ==
    ASSUME NEW n \in Int
    PROVE  /\ Word(n) \in 0 .. (U - 1)
           /\ n \in 0 .. (U - 1) => Word(n) = n
           /\ n \in U .. (2 * U - 1) => Word(n) = n - U
           /\ n \in (0 - U) .. (0 - 1) => Word(n) = n + U
<1>1. U \in Nat \ {0}  BY TimerAssumption DEF U
<1>2. n % U \in 0 .. (U - 1)  BY <1>1
<1>3. n \in 0 .. (U - 1) => n % U = n  BY <1>1
<1>4. n \in U .. (2 * U - 1) => n % U = n - U  BY <1>1
<1>5. n \in (0 - U) .. (0 - 1) => n % U = n + U  BY <1>1
<1> QED BY <1>2, <1>3, <1>4, <1>5 DEF Word

(* Setting end to c ticks from now links it to the deadline c.             *)
LEMMA SetLinks ==
    ASSUME TimerTypeOK, NEW c \in 0 .. (H - 1),
           end' = Word(OSTime + c), set' = 1, due' = c, UNCHANGED OSTime
    PROVE  TimerInv'
<1>1. H \in Nat \ {0} /\ U = 2 * H  BY TimerAssumption DEF U
<1>2. OSTime \in 0 .. (U - 1)  BY DEF TimerTypeOK
<1> DEFINE n == OSTime + c
<1>3. n \in 0 .. (U - 1) \/ n \in U .. (2 * U - 1)
  BY <1>1, <1>2
<1>4. n \in Int /\ end' = Word(n)  BY <1>1, <1>2
<1> HIDE DEF n
<1>5. end' \in 0 .. (U - 1) /\ (end' = n \/ end' = n - U)
  BY <1>3, <1>4, WordTurns
<1>6. end' = OSTime + c \/ end' = OSTime + c - U  BY <1>1, <1>2, <1>5 DEF n
<1>7. TimerTypeOK'  BY <1>1, <1>2, <1>5 DEF TimerTypeOK
<1>8. Linked'  BY <1>1, <1>2, <1>6 DEF Linked, U
<1> QED BY <1>7, <1>8 DEF TimerInv

(* The conversion of countdown_ms gives the count that was asked for.      *)
LEMMA CountFits ==
    ASSUME NEW t \in Millis
    PROVE  LET c == (t * OS_TICKS_PER_SEC) \div MsPerSec
           IN  /\ Count(t) = IF c = 0 THEN 1 ELSE c
               /\ Count(t) \in 0 .. (H - 1)
<1> DEFINE p == t * OS_TICKS_PER_SEC
<1>1. t \in Nat /\ OS_TICKS_PER_SEC \in Nat  BY TimerAssumption
<1>2. p \in Nat  BY <1>1
<1>3. p < U  BY TimerAssumption
<1>4. p \in 0 .. (U - 1)  BY <1>2, <1>3, TimerAssumption DEF U
<1>5. Word(p) = p  BY <1>2, <1>4, WordTurns
<1>6. p \div MsPerSec \in 0 .. (H - 1)  BY TimerAssumption
<1>7. H \in Nat /\ H > 1  BY TimerAssumption
<1> HIDE DEF p
<1>8. /\ Count(t) = IF p \div MsPerSec = 0 THEN 1 ELSE p \div MsPerSec
  BY <1>5 DEF Count, p
<1>9. Count(t) \in 0 .. (H - 1)
  <2>1. CASE p \div MsPerSec = 0  BY <2>1, <1>7, <1>8
  <2>2. CASE p \div MsPerSec # 0  BY <2>2, <1>6, <1>8
  <2> QED BY <2>1, <2>2
<1> QED BY <1>8, <1>9 DEF p

-----------------------------------------------------------------------------
(* No timer is set at the start.                                          *)
LEMMA TimerInitInv == TimerInit => TimerInv
<1> SUFFICES ASSUME TimerInit PROVE TimerInv  OBVIOUS
<1>1. H \in Nat \ {0} /\ U = 2 * H  BY TimerAssumption DEF U
<1>2. TimerTypeOK  BY <1>1 DEF TimerInit, TimerTypeOK
<1>3. Linked  BY DEF TimerInit, Linked
<1> QED BY <1>2, <1>3 DEF TimerInv

(* Every call sets end and the deadline together; a tick moves both by    *)
(* one, also where the counter wraps.                                      *)
LEMMA TimerNextInv == TimerInv /\ [TimerNext]_timerVars => TimerInv'
<1> SUFFICES ASSUME TimerInv, [TimerNext]_timerVars PROVE TimerInv'  OBVIOUS
<1>1. H \in Nat \ {0} /\ U = 2 * H  BY TimerAssumption DEF U
<1>2. TimerTypeOK /\ Linked  BY DEF TimerInv
<1>3. CASE \E t \in Millis : countdown_ms(t)
  <2>1. PICK t \in Millis : countdown_ms(t)  BY <1>3
  <2>2. Count(t) \in 0 .. (H - 1)  BY CountFits
  <2>3. /\ end' = Word(OSTime + Count(t)) /\ set' = 1 /\ due' = Count(t)
        /\ UNCHANGED OSTime
    BY <2>1, CountFits DEF countdown_ms
  <2> QED BY <1>2, <2>2, <2>3, SetLinks
<1>4. CASE \E s \in Seconds : countdown(s)
  <2>1. PICK s \in Seconds : countdown(s)  BY <1>4
  <2> DEFINE c == s * OS_TICKS_PER_SEC
  <2>2. c \in 0 .. (H - 1)  BY TimerAssumption
  <2>3. /\ end' = Word(OSTime + Word(c)) /\ set' = 1 /\ due' = c
        /\ UNCHANGED OSTime
    BY <2>1 DEF countdown
  <2> HIDE DEF c
  <2>4. c \in Int /\ c \in 0 .. (U - 1)  BY <1>1, <2>2
  <2>5. Word(c) = c  BY <2>4, WordTurns
  <2> QED BY <1>2, <2>2, <2>3, <2>5, SetLinks
<1>5. CASE InitTimer
  <2>1. TimerTypeOK'  BY <1>1, <1>2, <1>5 DEF InitTimer, TimerTypeOK
  <2>2. Linked'  BY <1>5 DEF InitTimer, Linked
  <2> QED BY <2>1, <2>2 DEF TimerInv
<1>6. CASE Tick
  <2>1. OSTime \in 0 .. (U - 1) /\ end \in 0 .. (U - 1) /\ due \in (0 - H) .. (H - 1)
    BY <1>2 DEF TimerTypeOK
  <2>2. /\ OSTime' \in 0 .. (U - 1)
        /\ OSTime' = OSTime + 1 \/ OSTime' = OSTime + 1 - U
    <3> DEFINE n == OSTime + 1
    <3>1. n \in 0 .. (U - 1) \/ n \in U .. (2 * U - 1)  BY <1>1, <2>1
    <3>2. n \in Int /\ OSTime' = Word(n)  BY <1>1, <1>6, <2>1 DEF Tick
    <3> HIDE DEF n
    <3>3. OSTime' \in 0 .. (U - 1) /\ (OSTime' = n \/ OSTime' = n - U)
      BY <3>1, <3>2, WordTurns
    <3> QED BY <1>1, <2>1, <3>3 DEF n
  <2>3. U \in Int /\ OSTime \in Int /\ OSTime' \in Int /\ end \in Int /\ due \in Int
    BY <1>1, <2>1, <2>2
  <2>4. TimerTypeOK'  BY <1>1, <1>2, <1>6, <2>2 DEF Tick, TimerTypeOK
  <2>5. Linked'
    <3> SUFFICES ASSUME set' = 1, due' > 0 - H
                 PROVE  \/ end' = OSTime' + due'
                        \/ end' = OSTime' + due' + U
                        \/ end' = OSTime' + due' - U
      BY DEF Linked, U
    <3>1. set = 1 /\ end' = end /\ due > 0 - H /\ due' = due - 1
      BY <1>1, <1>6, <2>1 DEF Tick
    <3>2. \/ end = OSTime + due
          \/ end = OSTime + due + U
          \/ end = OSTime + due - U
      BY <1>2, <3>1 DEF Linked
    <3>3. CASE OSTime' = OSTime + 1  BY <2>3, <3>1, <3>2, <3>3
    <3>4. CASE OSTime' = OSTime + 1 - U
      <4>1. OSTime = U - 1 /\ OSTime' = 0  BY <1>1, <2>1, <2>2, <3>4
      <4> QED BY <1>1, <2>1, <2>3, <3>1, <3>2, <4>1
    <3> QED BY <2>2, <3>3, <3>4
  <2> QED BY <2>4, <2>5 DEF TimerInv
<1>7. CASE UNCHANGED timerVars
  BY <1>2, <1>7 DEF timerVars, TimerInv, TimerTypeOK, Linked
<1> QED BY <1>3, <1>4, <1>5, <1>6, <1>7 DEF TimerNext, TimerCall

(* The word and the deadline stay linked, whatever calls the SDK makes.    *)
THEOREM TimerInvariant == TimerSpec => []TimerInv
<1> QED BY TimerInitInv, TimerNextInv, PTL DEF TimerSpec

-----------------------------------------------------------------------------
(* The signed difference is the deadline itself.                           *)
LEMMA ResIsDue ==
    ASSUME TimerInv, set = 1, due > 0 - H
    PROVE  Res = due /\ due \in Int
<1>1. H \in Nat \ {0} /\ U = 2 * H  BY TimerAssumption DEF U
<1>2. OSTime \in 0 .. (U - 1) /\ end \in 0 .. (U - 1) /\ due \in (1 - H) .. (H - 1)
  BY <1>1 DEF TimerInv, TimerTypeOK
<1>3. \/ end - OSTime = due
      \/ end - OSTime = due + U
      \/ end - OSTime = due - U
  BY <1>1, <1>2 DEF TimerInv, Linked
<1>4. end - OSTime \in Int  BY <1>1, <1>2
<1>5. end - OSTime \in 0 .. (U - 1) \/ end - OSTime \in (0 - U) .. (0 - 1)
  BY <1>1, <1>2
<1>6. Word(end - OSTime) = due \/ Word(end - OSTime) = due + U
  <2>1. CASE end - OSTime \in 0 .. (U - 1)
    <3>1. Word(end - OSTime) = end - OSTime  BY <1>4, <2>1, WordTurns
    <3> QED BY <1>1, <1>2, <1>3, <2>1, <3>1
  <2>2. CASE end - OSTime \in (0 - U) .. (0 - 1)
    <3>1. Word(end - OSTime) = end - OSTime + U  BY <1>4, <2>2, WordTurns
    <3> QED BY <1>1, <1>2, <1>3, <2>2, <3>1
  <2> QED BY <1>5, <2>1, <2>2
<1>7. Word(end - OSTime) \in 0 .. (U - 1)  BY <1>4, WordTurns
<1> QED BY <1>1, <1>2, <1>6, <1>7 DEF Res, Signed

(* For every width of the tick counter and every start value of it,        *)
(* expired answers yes exactly when the time asked of countdown or         *)
(* countdown_ms has passed, up to half a turn of the counter later.        *)
THEOREM ExpiredCorrect == TimerSpec => []ExpiredExact
<1>1. TimerInv => ExpiredExact  BY ResIsDue DEF ExpiredExact, expired
<1> QED BY <1>1, TimerInvariant, PTL

(* left_ms is the time to that deadline, 0 after it, as long as the number *)
(* of ms fits an int.                                                      *)
THEOREM LeftCorrect == TimerSpec => []LeftExact
<1>1. ASSUME TimerInv, set = 1, due > 0 - H, due * MsPerTick < H
      PROVE  left_ms = IF due < 0 THEN 0 ELSE due * MsPerTick
  <2>1. H \in Nat \ {0} /\ U = 2 * H /\ MsPerTick \in Nat
    BY TimerAssumption DEF U, MsPerTick
  <2>2. Res = due /\ due \in Int  BY <1>1, ResIsDue
  <2>3. CASE due < 0  BY <2>2, <2>3 DEF left_ms
  <2>4. CASE due >= 0
    <3> DEFINE p == due * MsPerTick
    <3>1. p \in Nat  BY <2>1, <2>2, <2>4
    <3>2. p < H  BY <1>1
    <3>3. left_ms = Signed(Word(p))
      BY <2>2, <2>4 DEF left_ms, Word
    <3> HIDE DEF p
    <3>4. p \in 0 .. (U - 1)  BY <2>1, <3>1, <3>2
    <3>5. Word(p) = p  BY <3>1, <3>4, WordTurns
    <3>6. left_ms = p  BY <3>2, <3>3, <3>5 DEF Signed
    <3> QED BY <2>2, <2>4, <3>6 DEF p
  <2> QED BY <2>2, <2>3, <2>4
<1>2. TimerInv => LeftExact  BY <1>1 DEF LeftExact
<1> QED BY <1>2, TimerInvariant, PTL

(* Together: both answers of the timer functions are exact.                *)
THEOREM TimerCorrect == TimerSpec => []TimerExact
<1>1. ExpiredExact /\ LeftExact => TimerExact  BY DEF TimerExact
<1> QED BY <1>1, ExpiredCorrect, LeftCorrect, PTL

-----------------------------------------------------------------------------
(* The network interface.                                                  *)

(* Every step of data_thread, the peer or the clock is a step of the timer *)
(* or leaves it alone.                                                     *)
LEMMA StepIsTimerStep == [Next]_vars => [TimerNext]_timerVars
<1> SUFFICES ASSUME [Next]_vars PROVE [TimerNext]_timerVars  OBVIOUS
<1>1. CASE data_thread
  <2>1. CASE Resolve \/ Socket \/ ConnectFails \/ Connected \/ ucos_disconnect
    BY <2>1 DEF Resolve, Socket, ConnectFails, Connected, ucos_disconnect
  <2>2. CASE \E n \in Lens : ucos_read(n)
    BY <2>2 DEF ucos_read
  <2>3. CASE (\E n \in Lens : RecvData(n)) \/ RecvFails
    BY <2>3 DEF RecvData, RecvFails
  <2>4. CASE ucos_write
    BY <2>4 DEF ucos_write
  <2>5. CASE pc = "idle" /\ TimerCall /\ UNCHANGED <<sockVars, streamVars, readVars, histVars, pc>>
    BY <2>5 DEF TimerNext
  <2> QED BY <1>1, <2>1, <2>2, <2>3, <2>4, <2>5 DEF data_thread
<1>2. CASE Peer
  BY <1>2 DEF Peer
<1>3. CASE Clock
  BY <1>3 DEF Clock, TimerNext
<1>4. CASE UNCHANGED vars
  BY <1>4 DEF vars
<1> QED BY <1>1, <1>2, <1>3, <1>4 DEF Next

(* The composition of the network and the timer interface implements the   *)
(* specification of the timer alone.                                       *)
THEOREM ImplementsTimer == Spec => TimerSpec
<1>1. Init => TimerInit  BY DEF Init
<1> QED BY <1>1, StepIsTimerStep, PTL DEF Spec, TimerSpec

(* expired and left_ms answer exactly whatever the SDK does with both      *)
(* interfaces: no read, write or connection disturbs a running timer.      *)
THEOREM NetworkTimerCorrect == Spec => []TimerExact
<1> QED BY ImplementsTimer, TimerCorrect, PTL

-----------------------------------------------------------------------------
(***************************************************************************)
(* The invariant.  A part of it for the resources of ConnectNetwork, one   *)
(* for the state of ucos_read, and the two bounds on how long it blocks:   *)
(* BlockBounded is not inductive, for it must be known that what is left   *)
(* of the running recv fits too.                                           *)
(***************************************************************************)
Reading == {"recv", "timeout"}

Resources ==
    /\ pc = "socket" => netdb = MEMP_NUM_NETDB - 1 /\ connected = 0 /\ open = {}
    /\ pc = "connect" => connected = 0 /\ open = {socket}
    /\ pc # "socket" => netdb = MEMP_NUM_NETDB
    /\ pc \notin {"socket", "connect"} => open = IF connected = 1 THEN {socket} ELSE {}

ReadState ==
    /\ buffer \in Seq(Nat) /\ given \in Seq(Nat)
    /\ pc \in Reading => connected = 1 /\ len \in Lens /\ bytes < len
    /\ pc \notin Reading => /\ len = 0 /\ bytes = 0 /\ buffer = <<>>
                           /\ wait = 0 /\ dly = 0 /\ blocked = 0
    /\ pc = "recv" /\ wait > 0 => dly > 0

BlockAndRest == wait > 0 => blocked + dly <= (bytes + 1) * wait

NetInv ==
    /\ TimerInv /\ TypeOK /\ Resources /\ ReadState
    /\ StreamInStep /\ FirstByteByDeadline /\ BlockAndRest

-----------------------------------------------------------------------------
(* Arithmetic of the conversions.                                          *)

(* A remainder is below the modulus and no larger than the number.         *)
LEMMA ModBound ==
    ASSUME NEW a \in Nat, NEW b \in Nat \ {0}
    PROVE  a % b \in 0 .. (b - 1) /\ a % b \in Nat /\ a % b <= a
<1>1. a % b \in 0 .. (b - 1)  OBVIOUS
<1>2. CASE a < b
  <2>1. a % b = a  BY <1>2
  <2> QED BY <1>1, <2>1
<1>3. CASE a >= b  BY <1>1, <1>3
<1> QED BY <1>2, <1>3

(* A quotient is bounded by what bounds the number.                        *)
LEMMA DivBound ==
    ASSUME NEW a \in Nat, NEW b \in Nat \ {0}, NEW d \in Nat, a <= d * b
    PROVE  a \div b \in Nat /\ a \div b <= d
<1> DEFINE q == a \div b
<1>1. q \in Nat /\ b * q <= a  OBVIOUS
<1> HIDE DEF q
<1>2. ASSUME q > d PROVE FALSE
  <2>1. q >= d + 1  BY <1>1, <1>2
  <2>2. b * q >= b * (d + 1)  BY <1>1, <2>1
  <2>3. b * (d + 1) = d * b + b  OBVIOUS
  <2>4. b * q \in Nat /\ d * b \in Nat  BY <1>1
  <2> QED BY <1>1, <2>2, <2>3, <2>4
<1> QED BY <1>1, <1>2 DEF q

(* The ticks of one tick's worth of ms are at most one tick.               *)
LEMMA TickRoundTrip == MsPerTick \in Nat /\ MsPerTick * OS_TICKS_PER_SEC <= MsPerSec
<1>1. OS_TICKS_PER_SEC \in Nat \ {0} /\ MsPerSec \in Nat  BY TimerAssumption
<1> QED BY <1>1 DEF MsPerTick

(* A word and its signed reading are the same word.                        *)
LEMMA WordOfSigned ==
    ASSUME NEW w \in 0 .. (U - 1)
    PROVE  Signed(w) \in Int /\ Word(Signed(w)) = w
<1>1. H \in Nat \ {0} /\ U = 2 * H  BY TimerAssumption DEF U
<1>2. CASE w < H
  <2>1. Signed(w) = w  BY <1>2 DEF Signed
  <2> QED BY <1>1, <2>1, WordTurns
<1>3. CASE ~(w < H)
  <2>1. Signed(w) = w - U  BY <1>3 DEF Signed
  <2>2. w - U \in Int /\ w - U \in (0 - U) .. (0 - 1)  BY <1>1
  <2>3. Word(w - U) = w - U + U  BY <2>2, WordTurns
  <2> QED BY <1>1, <2>1, <2>2, <2>3
<1> QED BY <1>2, <1>3

(* The way from a deadline to ms and back to the ticks of a pend never     *)
(* adds a tick, though left_ms may overflow, the product may overflow      *)
(* again, and the pend keeps only the low bits.                            *)
LEMMA PendWithinDue ==
    ASSUME TimerInv, set = 1
    PROVE  /\ PendTicks(left_ms) \in 0 .. (PendMax - 1)
           /\ PendTicks(left_ms) > 0 /\ due > 0 - H => PendTicks(left_ms) <= due
<1> DEFINE w == Word(left_ms)
           c == Word(w * OS_TICKS_PER_SEC) \div MsPerSec
<1>1. /\ H \in Nat \ {0} /\ U = 2 * H /\ U \in Nat \ {0}
      /\ OS_TICKS_PER_SEC \in Nat \ {0} /\ MsPerSec \in Nat \ {0} /\ PendMax \in Nat \ {0}
  BY TimerAssumption, NetworkAssumption DEF U
<1>2. Res \in Int
  <2>1. end - OSTime \in Int  BY <1>1 DEF TimerInv, TimerTypeOK
  <2>2. Word(end - OSTime) \in 0 .. (U - 1)  BY <2>1, WordTurns
  <2> QED BY <2>2, WordOfSigned DEF Res
<1>3. MsPerTick \in Nat /\ MsPerTick * OS_TICKS_PER_SEC <= MsPerSec  BY TickRoundTrip
<1>4. Res < 0 => left_ms = 0  BY DEF left_ms
<1>5. Res >= 0 => w = (Res * MsPerTick) % U
  <2> SUFFICES ASSUME Res >= 0 PROVE w = (Res * MsPerTick) % U  OBVIOUS
  <2>1. left_ms = Signed((Res * MsPerTick) % U)  BY <1>2 DEF left_ms
  <2>2. Res * MsPerTick \in Nat  BY <1>2, <1>3
  <2>3. (Res * MsPerTick) % U \in 0 .. (U - 1)  BY <1>1, <2>2, ModBound
  <2> QED BY <2>1, <2>3, WordOfSigned
<1>6. Res < 0 => w = 0  BY <1>1, <1>4, WordTurns
<1>7. w \in Nat
  <2>1. CASE Res < 0  BY <1>6, <2>1
  <2>2. CASE Res >= 0
    <3>1. Res * MsPerTick \in Nat  BY <1>2, <1>3, <2>2
    <3>2. (Res * MsPerTick) % U \in Nat  BY <1>1, <3>1, ModBound
    <3> QED BY <1>5, <2>2, <3>2
  <2> QED BY <1>2, <2>1, <2>2
<1>8. w * OS_TICKS_PER_SEC \in Nat  BY <1>1, <1>7
<1>9. Word(w * OS_TICKS_PER_SEC) \in Nat /\ Word(w * OS_TICKS_PER_SEC) <= w * OS_TICKS_PER_SEC
  <2> DEFINE p == w * OS_TICKS_PER_SEC
  <2>1. p \in Nat  BY <1>8
  <2> HIDE DEF p
  <2>2. p % U \in Nat /\ p % U <= p  BY <1>1, <2>1, ModBound
  <2> QED BY <2>2 DEF p, Word
<1>10. c \in Nat  BY <1>1, <1>9
<1>11. PendTicks(left_ms) = IF w = 0 THEN 0 ELSE (IF c = 0 THEN 1 ELSE c) % PendMax
  BY DEF PendTicks
<1>12. ASSUME NEW d \in Nat, Res = d, w # 0
       PROVE  d >= 1 /\ c <= d
  <2>1. d * MsPerTick \in Nat  BY <1>3
  <2>2. w = (d * MsPerTick) % U  BY <1>5, <1>12
  <2>3. w <= d * MsPerTick  BY <1>1, <2>1, <2>2, ModBound
  <2>4. d >= 1
    <3> SUFFICES ASSUME d = 0 PROVE FALSE  OBVIOUS
    <3>1. d * MsPerTick = 0  BY <1>3
    <3> QED BY <1>7, <1>12, <2>3, <3>1
  <2>5. w * OS_TICKS_PER_SEC <= (d * MsPerTick) * OS_TICKS_PER_SEC
    BY <1>1, <1>7, <2>1, <2>3
  <2>6. (d * MsPerTick) * OS_TICKS_PER_SEC = d * (MsPerTick * OS_TICKS_PER_SEC)
    BY <1>1, <1>3
  <2>7. d * (MsPerTick * OS_TICKS_PER_SEC) <= d * MsPerSec
    <3> DEFINE m == MsPerTick * OS_TICKS_PER_SEC
    <3>1. m \in Nat /\ m <= MsPerSec  BY <1>1, <1>3
    <3> HIDE DEF m
    <3>2. d * m <= d * MsPerSec  BY <1>1, <3>1
    <3> QED BY <3>2 DEF m
  <2> DEFINE v == Word(w * OS_TICKS_PER_SEC)
  <2>8. v \in Nat /\ v <= d * MsPerSec
    <3>1. (d * MsPerTick) * OS_TICKS_PER_SEC \in Nat /\ d * MsPerSec \in Nat  BY <1>1, <2>1
    <3> QED BY <1>8, <1>9, <2>5, <2>6, <2>7, <3>1
  <2> HIDE DEF v
  <2>9. v \div MsPerSec <= d  BY <1>1, <2>8, DivBound
  <2> QED BY <2>4, <2>9 DEF v
<1> HIDE DEF w, c
<1>13. (IF c = 0 THEN 1 ELSE c) \in Nat  BY <1>10
<1>14. PendTicks(left_ms) \in 0 .. (PendMax - 1)
  <2>1. CASE w = 0  BY <1>1, <1>11, <2>1
  <2>2. CASE w # 0  BY <1>1, <1>11, <1>13, <2>2, ModBound
  <2> QED BY <2>1, <2>2
<1>15. ASSUME PendTicks(left_ms) > 0, due > 0 - H PROVE PendTicks(left_ms) <= due
  <2>1. Res = due /\ due \in Int  BY <1>15, ResIsDue
  <2>2. w # 0  BY <1>11, <1>15
  <2>3. due \in Nat  BY <1>6, <2>1, <2>2
  <2>4. due >= 1 /\ c <= due  BY <1>12, <2>1, <2>2, <2>3
  <2> DEFINE e == IF c = 0 THEN 1 ELSE c
  <2>5. e \in Nat /\ e <= due  BY <1>10, <2>3, <2>4
  <2>6. PendTicks(left_ms) = e % PendMax  BY <1>11, <2>2
  <2> HIDE DEF e
  <2>7. e % PendMax <= e /\ e % PendMax \in Nat  BY <1>1, <2>5, ModBound
  <2> QED BY <2>3, <2>5, <2>6, <2>7
<1> QED BY <1>14, <1>15

-----------------------------------------------------------------------------
(* The stream: bytes 1 .. t followed by the n bytes that recv delivers     *)
(* next are bytes 1 .. t + n.                                              *)
LEMMA StreamGrows ==
    ASSUME NEW t \in Nat, NEW n \in Nat
    PROVE  /\ [i \in 1 .. n |-> t + i] \in Seq(Nat)
           /\ Len([i \in 1 .. n |-> t + i]) = n
           /\ [i \in 1 .. t |-> i] \o [i \in 1 .. n |-> t + i] = [i \in 1 .. (t + n) |-> i]
<1> DEFINE a == [i \in 1 .. t |-> i]
           b == [i \in 1 .. n |-> t + i]
           c == [i \in 1 .. (t + n) |-> i]
<1>1. a \in Seq(Nat) /\ Len(a) = t  OBVIOUS
<1>2. b \in Seq(Nat) /\ Len(b) = n  OBVIOUS
<1>3. c \in Seq(Nat) /\ Len(c) = t + n  OBVIOUS
<1>4. /\ a \o b \in Seq(Nat) /\ Len(a \o b) = t + n
      /\ \A i \in 1 .. t + n : (a \o b)[i] = IF i <= t THEN a[i] ELSE b[i - t]
  BY <1>1, <1>2, ConcatProperties
<1>5. \A i \in 1 .. t + n : (a \o b)[i] = c[i]
  <2> SUFFICES ASSUME NEW i \in 1 .. t + n PROVE (a \o b)[i] = i  OBVIOUS
  <2>1. CASE i <= t  BY <1>4, <2>1
  <2>2. CASE i > t
    <3>1. i - t \in 1 .. n  BY <2>2
    <3> QED BY <1>4, <2>2, <3>1
  <2> QED BY <2>1, <2>2
<1> HIDE DEF a, b, c
<1>6. a \o b = c  BY <1>3, <1>4, <1>5, SeqEqual
<1> QED BY <1>2, <1>6 DEF a, b, c

(* Outside of ucos_read nothing is blocked.                                *)
LEMMA NotReading ==
    ASSUME ReadState', pc' \notin Reading
    PROVE  FirstByteByDeadline' /\ BlockAndRest'
<1>1. pc' # "recv" /\ wait' = 0  BY DEF ReadState, Reading
<1> QED BY <1>1 DEF FirstByteByDeadline, Blocked, BlockAndRest

(* Before the first call.                                                  *)
LEMMA NetInitInv == Init => NetInv
<1> SUFFICES ASSUME Init PROVE NetInv  OBVIOUS
<1>1. TimerInv  BY TimerInitInv DEF Init
<1>2. TypeOK
  <2>1. NUM_SOCKETS \in Nat \ {0} /\ MEMP_NUM_NETDB \in Nat /\ PendMax \in Nat \ {0}
        /\ MaxBytes \in Nat /\ BlockCap \in Nat
    BY NetworkAssumption
  <2>2. TimerTypeOK  BY <1>1 DEF TimerInv
  <2> QED BY <2>1, <2>2 DEF Init, TypeOK
<1>3. Resources  BY DEF Init, Resources
<1>4. ReadState  BY DEF Init, ReadState, Reading
<1>5. StreamInStep
  <2>1. given \o buffer = <<>> /\ taken = 0 /\ pc = "idle"  BY DEF Init
  <2>2. [i \in 1 .. 0 |-> i] = <<>>  OBVIOUS
  <2> QED BY <2>1, <2>2 DEF StreamInStep
<1>6. FirstByteByDeadline /\ BlockAndRest
  BY DEF Init, FirstByteByDeadline, Blocked, BlockAndRest
<1> QED BY <1>1, <1>2, <1>3, <1>4, <1>5, <1>6 DEF NetInv

(* Connecting and disconnecting, a write and the calls of the timer: no    *)
(* read is running, and the stream starts anew or stays as it is.          *)
LEMMA CallStep ==
    ASSUME NetInv, TimerInv',
           \/ Resolve \/ Socket \/ ConnectFails \/ Connected \/ ucos_disconnect \/ ucos_write
           \/ pc = "idle" /\ TimerCall /\ UNCHANGED <<sockVars, streamVars, readVars, histVars, pc>>
    PROVE  NetInv'
<1>1. /\ NUM_SOCKETS \in Nat \ {0} /\ MEMP_NUM_NETDB \in Nat \ {0} /\ PendMax \in Nat \ {0}
      /\ MaxBytes \in Nat /\ BlockCap \in Nat
  BY NetworkAssumption
<1>2. TypeOK  BY DEF NetInv
<1>3. Resources  BY DEF NetInv
<1>4. ReadState  BY DEF NetInv
<1>5. StreamInStep  BY DEF NetInv
<1>6. /\ pc \notin Reading /\ pc' \notin Reading
      /\ UNCHANGED readVars
  BY DEF Resolve, Socket, ConnectFails, Connected, ucos_disconnect, ucos_write, Reading
<1>7. /\ len = 0 /\ bytes = 0 /\ buffer = <<>> /\ wait = 0 /\ dly = 0 /\ blocked = 0
      /\ UNCHANGED <<len, bytes, buffer, wait, dly, blocked>>
  BY <1>4, <1>6 DEF ReadState, readVars
<1>8. TimerTypeOK'  BY DEF TimerInv
<1>9. CASE /\ UNCHANGED <<sockVars, streamVars, histVars>>
           /\ pc \notin {"socket", "connect"} /\ pc' \in {"idle", "write"}
           /\ connected = 1 \/ pc' = "idle"
  <2>1. TypeOK'  BY <1>2, <1>7, <1>8, <1>9 DEF TypeOK, sockVars, streamVars, histVars
  <2>2. Resources'  BY <1>3, <1>9 DEF Resources, sockVars
  <2>3. ReadState'  BY <1>4, <1>6, <1>7, <1>9 DEF ReadState, Reading, histVars
  <2>4. StreamInStep'  BY <1>5, <1>7, <1>9 DEF StreamInStep, histVars
  <2> QED BY <1>6, <2>1, <2>2, <2>3, <2>4, NotReading DEF NetInv
<1>10. CASE Resolve
  <2>1. CASE UNCHANGED <<netdb, pc>>
    BY <1>9, <1>10, <2>1 DEF Resolve, sockVars
  <2>2. CASE netdb > 0 /\ netdb' = netdb - 1 /\ pc' = "socket"
    <3>1. /\ pc = "idle" /\ connected = 0 /\ UNCHANGED <<socket, open, connected>>
          /\ UNCHANGED <<streamVars, histVars>>
      BY <1>10 DEF Resolve
    <3>2. netdb = MEMP_NUM_NETDB /\ open = {}  BY <1>3, <3>1 DEF Resources
    <3>3. TypeOK'  BY <1>1, <1>2, <1>7, <1>8, <2>2, <3>1, <3>2 DEF TypeOK, streamVars, histVars
    <3>4. Resources'  BY <2>2, <3>1, <3>2 DEF Resources
    <3>5. ReadState'  BY <1>4, <1>6, <1>7, <2>2, <3>1 DEF ReadState, Reading, histVars
    <3>6. StreamInStep'  BY <1>5, <1>7, <2>2, <3>1 DEF StreamInStep, histVars
    <3> QED BY <1>6, <3>3, <3>4, <3>5, <3>6, NotReading DEF NetInv
  <2> QED BY <1>10, <2>1, <2>2 DEF Resolve
<1>11. CASE Socket
  <2>1. /\ pc = "socket" /\ netdb' = netdb + 1 /\ connected' = connected
        /\ UNCHANGED <<streamVars, histVars>>
    BY <1>11 DEF Socket
  <2>2. netdb = MEMP_NUM_NETDB - 1 /\ connected = 0 /\ open = {}
    BY <1>3, <2>1 DEF Resources
  <2>3. netdb' = MEMP_NUM_NETDB  BY <1>1, <2>1, <2>2
  <2>4. \/ /\ socket' = 0 - 1 /\ pc' = "idle" /\ open' = {}
        \/ /\ socket' \in 0 .. (NUM_SOCKETS - 1) /\ pc' = "connect" /\ open' = {socket'}
    <3>1. alloc_socket \in 0 .. (NUM_SOCKETS - 1)
      <4>1. 0 \in (0 .. (NUM_SOCKETS - 1)) \ open  BY <1>1, <2>2
      <4>2. \A j \in 0 .. (0 - 1) : j \in open  OBVIOUS
      <4> QED BY <4>1, <4>2 DEF alloc_socket
    <3> QED BY <1>11, <2>2, <3>1 DEF Socket
  <2>5. StreamInStep'
    <3>1. pc' # "recv"  BY <1>6 DEF Reading
    <3> QED BY <1>5, <1>7, <2>1, <3>1 DEF StreamInStep, histVars
  <2>6. ReadState'  BY <1>4, <1>6, <1>7, <2>1 DEF ReadState, Reading, histVars
  <2>7. Resources'  BY <2>1, <2>2, <2>3, <2>4 DEF Resources
  <2>8. TypeOK'
    <3>1. /\ pc' \in {"idle", "connect"} /\ open' \subseteq 0 .. (NUM_SOCKETS - 1)
          /\ socket' \in (0 - 1) .. (NUM_SOCKETS - 1)
      <4>1. CASE socket' = 0 - 1 /\ pc' = "idle" /\ open' = {}  BY <1>1, <4>1
      <4>2. CASE /\ socket' \in 0 .. (NUM_SOCKETS - 1) /\ pc' = "connect"
                 /\ open' = {socket'}
        BY <1>1, <4>2
      <4> QED BY <2>4, <4>1, <4>2
    <3> QED BY <1>1, <1>2, <1>7, <1>8, <2>1, <2>3, <3>1 DEF TypeOK, streamVars, histVars
  <2> QED BY <1>6, <2>5, <2>6, <2>7, <2>8, NotReading DEF NetInv
<1>12. CASE ConnectFails
  <2>1. /\ pc = "connect" /\ pc' = "idle" /\ open' = open \ {socket}
        /\ UNCHANGED <<socket, netdb, connected, streamVars, histVars>>
    BY <1>12 DEF ConnectFails
  <2>2. open = {socket} /\ connected = 0 /\ netdb = MEMP_NUM_NETDB
    BY <1>3, <2>1 DEF Resources
  <2>3. open' = {}  BY <2>1, <2>2
  <2>4. TypeOK'  BY <1>1, <1>2, <1>7, <1>8, <2>1, <2>3 DEF TypeOK, streamVars, histVars
  <2>5. Resources'  BY <2>1, <2>2, <2>3 DEF Resources
  <2>6. ReadState'  BY <1>4, <1>6, <1>7, <2>1 DEF ReadState, Reading, histVars
  <2>7. StreamInStep'  BY <1>5, <1>7, <2>1 DEF StreamInStep, histVars
  <2> QED BY <1>6, <2>4, <2>5, <2>6, <2>7, NotReading DEF NetInv
<1>13. CASE Connected \/ ucos_disconnect
  <2>1. /\ pc' = "idle" /\ sent' = 0 /\ taken' = 0 /\ given' = <<>> /\ longFailed' = 0
        /\ peer' \in {"up", "closed"} /\ connected' \in {0, 1} /\ UNCHANGED <<socket, netdb>>
    BY <1>13 DEF Connected, ucos_disconnect
  <2>2. /\ open' = IF connected' = 1 THEN {socket} ELSE {}
        /\ open' \subseteq open
        /\ netdb = MEMP_NUM_NETDB
    <3>1. CASE Connected  BY <1>3, <3>1 DEF Connected, Resources
    <3>2. CASE ucos_disconnect  BY <1>3, <3>2 DEF ucos_disconnect, Resources
    <3> QED BY <1>13, <3>1, <3>2
  <2>3. TypeOK'  BY <1>1, <1>2, <1>7, <1>8, <2>1, <2>2 DEF TypeOK
  <2>4. Resources'  BY <2>1, <2>2 DEF Resources
  <2>5. ReadState'  BY <1>4, <1>6, <1>7, <2>1 DEF ReadState, Reading
  <2>6. StreamInStep'
    <3>1. given' \o buffer' = <<>>  BY <1>7, <2>1
    <3>2. [i \in 1 .. 0 |-> i] = <<>>  OBVIOUS
    <3> QED BY <2>1, <3>1, <3>2 DEF StreamInStep
  <2> QED BY <1>6, <2>3, <2>4, <2>5, <2>6, NotReading DEF NetInv
<1>14. CASE ucos_write
  BY <1>9, <1>14 DEF ucos_write
<1>15. CASE pc = "idle" /\ TimerCall /\ UNCHANGED <<sockVars, streamVars, readVars, histVars, pc>>
  BY <1>9, <1>15
<1> QED BY <1>10, <1>11, <1>12, <1>13, <1>14, <1>15

(* The start of a read: its time is what left_ms says.                     *)
LEMMA ReadStep ==
    ASSUME NetInv, TimerInv', NEW n \in Lens, ucos_read(n)
    PROVE  NetInv'
<1>1. PendMax \in Nat \ {0} /\ BlockCap \in Nat /\ n \in Nat \ {0}
  BY NetworkAssumption
<1>2. TypeOK  BY DEF NetInv
<1>3. Resources  BY DEF NetInv
<1>4. ReadState  BY DEF NetInv
<1>5. StreamInStep  BY DEF NetInv
<1>6. /\ pc = "idle" /\ connected = 1 /\ set = 1 /\ pc' = "recv" /\ buffer' = <<>>
      /\ UNCHANGED <<sockVars, streamVars, histVars>>
  BY DEF ucos_read
<1>7. /\ len' = n /\ bytes' = 0 /\ blocked' = 0
      /\ wait' = PendTicks(left_ms) /\ dly' = wait' /\ UNCHANGED due
  BY DEF ucos_read, timerVars
<1>8. /\ wait' \in 0 .. (PendMax - 1)
      /\ wait' > 0 /\ due > 0 - H => wait' <= due
  BY <1>6, <1>7, PendWithinDue DEF NetInv
<1>9. buffer = <<>>  BY <1>4, <1>6 DEF ReadState, Reading
<1>10. TimerTypeOK'  BY DEF TimerInv
<1>11. TypeOK'
  BY <1>1, <1>2, <1>6, <1>7, <1>8, <1>10 DEF TypeOK, sockVars, streamVars, histVars
<1>12. Resources'  BY <1>3, <1>6 DEF Resources, sockVars
<1>13. ReadState'  BY <1>1, <1>4, <1>6, <1>7, <1>8 DEF ReadState, Reading, sockVars, histVars
<1>14. StreamInStep'  BY <1>1, <1>5, <1>6, <1>7, <1>9 DEF StreamInStep, histVars
<1>15. FirstByteByDeadline'  BY <1>7, <1>8 DEF FirstByteByDeadline
<1>16. BlockAndRest'
  <2>1. wait' \in Nat  BY <1>8
  <2> QED BY <1>7, <2>1 DEF BlockAndRest
<1> QED BY <1>11, <1>12, <1>13, <1>14, <1>15, <1>16 DEF NetInv

(* A read ends: nothing of it is left.                                     *)
LEMMA ReturnStep ==
    ASSUME NetInv, TimerInv', pc \in Reading, Return,
           UNCHANGED <<sockVars, streamVars>>,
           taken' \in 0 .. sent, given' \in Seq(Nat), longFailed' \in {0, 1},
           longFailed' = 0 => given' = [i \in 1 .. taken' |-> i]
    PROVE  NetInv'
<1>1. PendMax \in Nat \ {0} /\ BlockCap \in Nat  BY NetworkAssumption
<1>2. TypeOK  BY DEF NetInv
<1>3. Resources  BY DEF NetInv
<1>4. /\ pc' = "idle" /\ len' = 0 /\ bytes' = 0 /\ buffer' = <<>>
      /\ wait' = 0 /\ dly' = 0 /\ blocked' = 0
  BY DEF Return
<1>5. TimerTypeOK'  BY DEF TimerInv
<1>6. TypeOK'  BY <1>1, <1>2, <1>4, <1>5 DEF TypeOK, sockVars, streamVars
<1>7. Resources'  BY <1>3, <1>4 DEF Resources, Reading, sockVars
<1>8. ReadState'  BY <1>4 DEF ReadState, Reading
<1>9. StreamInStep'
  <2>1. given' \o buffer' = given'  BY <1>4, ConcatEmptySeq
  <2> QED BY <1>4, <2>1 DEF StreamInStep
<1> QED BY <1>4, <1>6, <1>7, <1>8, <1>9, NotReading DEF NetInv, Reading

(* recv delivers bytes: the read ends or goes on with its time anew.       *)
LEMMA RecvStep ==
    ASSUME NetInv, TimerInv', NEW n \in Lens, RecvData(n)
    PROVE  NetInv'
<1>1. n \in Nat \ {0} /\ Lens \subseteq Nat \ {0}  BY NetworkAssumption
<1>2. TypeOK  BY DEF NetInv
<1>3. Resources  BY DEF NetInv
<1>4. ReadState  BY DEF NetInv
<1>5. StreamInStep  BY DEF NetInv
<1>6. BlockAndRest  BY DEF NetInv
<1> DEFINE x == [i \in 1 .. n |-> taken + i]
           buf == buffer \o x
<1>7. /\ pc = "recv" /\ n <= sent - taken /\ n <= len - bytes /\ taken' = taken + n
      /\ UNCHANGED <<timerVars, sockVars, streamVars>>
  BY DEF RecvData
<1>8. /\ taken \in Nat /\ sent \in Nat /\ len \in Nat /\ bytes \in Nat /\ Len(buffer) = bytes
      /\ wait \in Nat /\ dly \in Nat /\ blocked \in Nat
      /\ buffer \in Seq(Nat) /\ given \in Seq(Nat)
  BY <1>2, <1>4, NetworkAssumption DEF TypeOK, ReadState
<1>9. taken' \in 0 .. sent  BY <1>1, <1>7, <1>8
<1>x. x \in Seq(Nat) /\ Len(x) = n
  <2>1. [i \in 1 .. n |-> taken + i] \in Seq(Nat)  BY <1>1, <1>8, StreamGrows
  <2>2. Len([i \in 1 .. n |-> taken + i]) = n  BY <1>1, <1>8, StreamGrows
  <2> QED BY <2>1, <2>2
<1>g. [i \in 1 .. taken |-> i] \o x = [i \in 1 .. taken + n |-> i]
  BY <1>1, <1>8, StreamGrows
<1> HIDE DEF x
<1>10. buf \in Seq(Nat) /\ Len(buf) = bytes + n
  <2>1. buffer \o x \in Seq(Nat)  BY <1>8, <1>x, ConcatProperties
  <2>2. Len(buffer \o x) = Len(buffer) + Len(x)  BY <1>8, <1>x, ConcatProperties
  <2> QED BY <1>8, <1>x, <2>1, <2>2
<1>11. given \o buf \in Seq(Nat)  BY <1>8, <1>10, ConcatProperties
<1>12. longFailed = 0 => given \o buf = [i \in 1 .. taken' |-> i]
  <2> SUFFICES ASSUME longFailed = 0 PROVE given \o buf = [i \in 1 .. taken' |-> i]
    OBVIOUS
  <2>1. given \o buffer = [i \in 1 .. taken |-> i]  BY <1>5 DEF StreamInStep
  <2>2. (given \o buffer) \o x = given \o (buffer \o x)
    BY <1>8, <1>x, ConcatAssociative
  <2> QED BY <1>7, <1>g, <2>1, <2>2
<1> HIDE DEF buf
<1>13. longFailed \in {0, 1}  BY <1>2 DEF TypeOK
<1>14. CASE bytes + n = len
  <2>1. Return /\ given' = given \o buf /\ UNCHANGED longFailed
    BY <1>14 DEF RecvData, Received, ReturnData, buf, x
  <2> QED BY <1>7, <1>9, <1>11, <1>12, <1>13, <2>1, ReturnStep DEF Reading
<1>15. CASE bytes + n # len
  <2>1. /\ bytes' = bytes + n /\ buffer' = buf /\ dly' = wait
        /\ UNCHANGED <<len, wait, blocked, given, longFailed, pc>>
    BY <1>15 DEF RecvData, Received, buf, x
  <2>2. bytes' < len /\ bytes' \in 0 .. len  BY <1>1, <1>7, <1>8, <1>15, <2>1
  <2>3. TimerTypeOK'  BY DEF TimerInv
  <2>4. TypeOK'
    BY <1>2, <1>7, <1>8, <1>9, <1>10, <2>1, <2>2, <2>3 DEF TypeOK, sockVars, streamVars
  <2>5. Resources'  BY <1>3, <1>7, <2>1 DEF Resources, sockVars
  <2>6. ReadState'
    BY <1>4, <1>7, <1>8, <1>10, <2>1, <2>2 DEF ReadState, Reading, sockVars
  <2>7. StreamInStep'  BY <1>12, <2>1, <2>2 DEF StreamInStep
  <2>8. FirstByteByDeadline'
    <3>1. bytes' # 0  BY <1>1, <1>8, <2>1
    <3> QED BY <3>1 DEF FirstByteByDeadline
  <2>9. BlockAndRest'
    <3> SUFFICES ASSUME wait > 0 PROVE blocked + wait <= (bytes + n + 1) * wait
      BY <1>8, <2>1 DEF BlockAndRest
    <3>1. blocked + dly <= (bytes + 1) * wait  BY <1>6 DEF BlockAndRest
    <3>2. (bytes + n + 1) * wait = (bytes + 1) * wait + n * wait  BY <1>1, <1>8
    <3>3. n * wait >= wait /\ n * wait \in Nat /\ (bytes + 1) * wait \in Nat  BY <1>1, <1>8
    <3> QED BY <1>8, <3>1, <3>2, <3>3
  <2> QED BY <2>4, <2>5, <2>6, <2>7, <2>8, <2>9 DEF NetInv
<1> QED BY <1>14, <1>15

(* recv fails: a read of one byte has taken nothing.                       *)
LEMMA FailStep ==
    ASSUME NetInv, TimerInv', RecvFails
    PROVE  NetInv'
<1>1. TypeOK  BY DEF NetInv
<1>2. ReadState  BY DEF NetInv
<1>3. StreamInStep  BY DEF NetInv
<1>4. /\ pc \in Reading /\ Return /\ UNCHANGED <<sockVars, streamVars>>
      /\ taken' = taken /\ given' = given
  BY DEF RecvFails, ReturnFailed, Reading
<1>5. longFailed' = IF len > 1 THEN 1 ELSE longFailed  BY DEF RecvFails, ReturnFailed
<1>6. longFailed' \in {0, 1}  BY <1>1, <1>5 DEF TypeOK
<1>7. ASSUME longFailed' = 0 PROVE given = [i \in 1 .. taken |-> i]
  <2>1. longFailed = 0 /\ ~(len > 1)  BY <1>5, <1>7
  <2>2. len \in Nat /\ bytes \in Nat /\ bytes < len
    BY <1>1, <1>2, <1>4, NetworkAssumption DEF TypeOK, ReadState
  <2>3. bytes = 0  BY <2>1, <2>2
  <2>4. buffer = <<>>
    <3>1. buffer \in Seq(Nat) /\ Len(buffer) = 0  BY <1>1, <1>2, <2>3 DEF TypeOK, ReadState
    <3> QED BY <3>1, EmptySeq
  <2>5. given \o buffer = given  BY <1>2, <2>4, ConcatEmptySeq DEF ReadState
  <2> QED BY <1>3, <2>1, <2>5 DEF StreamInStep
<1>8. taken' \in 0 .. sent /\ given' \in Seq(Nat)  BY <1>1, <1>2, <1>4 DEF TypeOK, ReadState
<1> QED BY <1>4, <1>6, <1>7, <1>8, ReturnStep

(* The peer sends or goes: that never makes a recv block.                  *)
LEMMA PeerStep ==
    ASSUME NetInv, TimerInv', Peer
    PROVE  NetInv'
<1>1. TypeOK  BY DEF NetInv
<1>2. /\ peer = "up" /\ UNCHANGED <<timerVars, sockVars, readVars, histVars, pc>>
      /\ peer' \in {"up", "closed", "reset"} /\ sent \in Nat /\ taken \in 0 .. sent
  BY <1>1 DEF Peer, TypeOK
<1>3. sent' \in 0 .. MaxBytes /\ taken \in 0 .. sent' /\ (sent' = sent \/ sent' = sent + 1)
  <2>1. MaxBytes \in Nat  BY NetworkAssumption
  <2>2. CASE sent < MaxBytes /\ sent' = sent + 1  BY <1>2, <2>1, <2>2
  <2>3. CASE sent' = sent  BY <1>1, <1>2, <2>3 DEF TypeOK
  <2> QED BY <2>2, <2>3 DEF Peer
<1>4. TypeOK'
  <2>1. TimerTypeOK'  BY DEF TimerInv
  <2> QED BY <1>1, <1>2, <1>3, <2>1 DEF TypeOK, sockVars, readVars, histVars
<1>5. Resources' /\ ReadState' /\ StreamInStep' /\ BlockAndRest'
  BY <1>2 DEF NetInv, Resources, ReadState, StreamInStep, BlockAndRest,
              sockVars, readVars, histVars
<1>6. FirstByteByDeadline'
  <2>1. ASSUME Blocked' PROVE Blocked
    <3>1. sent' = taken /\ pc = "recv"  BY <1>2, <2>1 DEF Blocked, histVars
    <3>2. sent = taken  BY <1>2, <1>3, <3>1
    <3> QED BY <1>2, <3>1, <3>2 DEF Blocked
  <2> QED BY <1>2, <2>1 DEF NetInv, FirstByteByDeadline, readVars, timerVars
<1> QED BY <1>4, <1>5, <1>6 DEF NetInv

(* One tick more blocked, one tick less to wait.                           *)
LEMMA BlockedAndRest ==
    ASSUME NEW b \in Nat, NEW c \in Nat, NEW d \in Nat, NEW m \in Nat, b + d <= m, c <= b + 1
    PROVE  c + (d - 1) <= m
OBVIOUS

(* A tick takes one from the deadline and one from what is left of recv.   *)
LEMMA ClockStep ==
    ASSUME NetInv, TimerInv', Clock
    PROVE  NetInv'
<1>1. TypeOK  BY DEF NetInv
<1>2. ReadState  BY DEF NetInv
<1>3. /\ wait \in Nat /\ dly \in 0 .. wait /\ dly \in Nat /\ blocked \in 0 .. BlockCap
      /\ bytes \in Nat /\ BlockCap \in Nat
  BY <1>1, NetworkAssumption DEF TypeOK
<1>4. UNCHANGED <<sockVars, streamVars, histVars, len, bytes, buffer, wait>>  BY DEF Clock
<1>5. TimerTypeOK'  BY DEF TimerInv
<1>6. CASE ~Blocked
  <2>1. UNCHANGED <<blocked, dly, pc>>  BY <1>6 DEF Clock
  <2>2. TypeOK'  BY <1>1, <1>4, <1>5, <2>1 DEF TypeOK, sockVars, streamVars, histVars
  <2>3. Resources' /\ ReadState' /\ StreamInStep' /\ BlockAndRest'
    BY <1>4, <2>1 DEF NetInv, Resources, ReadState, StreamInStep, BlockAndRest, sockVars, histVars
  <2>4. ~Blocked'  BY <1>4, <1>6, <2>1 DEF Blocked, streamVars, histVars
  <2> QED BY <2>2, <2>3, <2>4 DEF NetInv, FirstByteByDeadline
<1>7. CASE Blocked
  <2>1. pc = "recv"  BY <1>7 DEF Blocked
  <2>2. /\ blocked' = IF blocked < BlockCap THEN blocked + 1 ELSE blocked
        /\ dly' = IF dly > 0 THEN dly - 1 ELSE dly
        /\ pc' = IF dly = 1 THEN "timeout" ELSE pc
    BY <1>7 DEF Clock
  <2>3. dly' \in 0 .. wait /\ dly' \in Nat /\ blocked' \in 0 .. BlockCap /\ blocked' <= blocked + 1
    <3>1. CASE blocked < BlockCap /\ dly > 0  BY <1>3, <2>2, <3>1
    <3>2. CASE blocked < BlockCap /\ ~(dly > 0)  BY <1>3, <2>2, <3>2
    <3>3. CASE ~(blocked < BlockCap) /\ dly > 0  BY <1>3, <2>2, <3>3
    <3>4. CASE ~(blocked < BlockCap) /\ ~(dly > 0)  BY <1>3, <2>2, <3>4
    <3> QED BY <3>1, <3>2, <3>3, <3>4
  <2>4. pc' \in Reading  BY <2>1, <2>2 DEF Reading
  <2>5. TypeOK'
    BY <1>1, <1>4, <1>5, <2>3, <2>4 DEF TypeOK, Reading, sockVars, streamVars, histVars
  <2>6. Resources'  BY <1>4, <2>1, <2>4 DEF NetInv, Resources, Reading, sockVars
  <2>7. wait > 0 => dly > 0  BY <1>2, <2>1 DEF ReadState
  <2>8. ReadState'
    <3>1. pc' = "recv" /\ wait > 0 => dly' > 0
      <4> SUFFICES ASSUME pc' = "recv", wait > 0 PROVE dly' > 0  OBVIOUS
      <4>1. dly # 1 /\ dly > 0  BY <2>2, <2>7
      <4>2. dly' = dly - 1  BY <2>2, <4>1
      <4> QED BY <1>3, <4>1, <4>2
    <3> QED BY <1>2, <1>4, <2>1, <2>4, <3>1 DEF ReadState, Reading, sockVars, histVars
  <2>9. StreamInStep'  BY <1>4, <2>1, <2>4 DEF NetInv, StreamInStep, Reading, histVars
  <2>10. BlockAndRest'
    <3> SUFFICES ASSUME wait > 0 PROVE blocked' + dly' <= (bytes + 1) * wait
      BY <1>4 DEF BlockAndRest
    <3> DEFINE m == (bytes + 1) * wait
    <3>1. blocked + dly <= m  BY DEF NetInv, BlockAndRest
    <3>2. dly' = dly - 1  BY <2>2, <2>7
    <3>3. m \in Nat /\ blocked \in Nat /\ blocked' \in Nat  BY <1>3, <2>3
    <3>4. dly \in Nat /\ blocked' <= blocked + 1  BY <1>3, <2>3
    <3> HIDE DEF m
    <3>5. blocked' + dly' <= m  BY <3>1, <3>2, <3>3, <3>4, BlockedAndRest
    <3> QED BY <3>5 DEF m
  <2>11. FirstByteByDeadline'
    <3> SUFFICES ASSUME bytes = 0, wait > 0, due' > 0 - H PROVE dly' <= due'
      BY <1>4 DEF FirstByteByDeadline
    <3>1. due \in Int /\ H \in Nat  BY <1>1, TimerAssumption DEF TypeOK, TimerTypeOK
    <3>2. due > 0 - H /\ due' >= due - 1 /\ due' \in Int
      <4>1. CASE set = 1 /\ due > 0 - H /\ due' = due - 1  BY <3>1, <4>1
      <4>2. CASE due' = due  BY <3>1, <4>2
      <4> QED BY <4>1, <4>2 DEF Clock, Tick
    <3>3. dly <= due  BY <1>7, <3>2 DEF NetInv, FirstByteByDeadline
    <3>4. dly' = dly - 1  BY <2>2, <2>7
    <3> QED BY <1>3, <3>1, <3>2, <3>3, <3>4
  <2> QED BY <2>5, <2>6, <2>8, <2>9, <2>10, <2>11 DEF NetInv
<1> QED BY <1>6, <1>7

(* Every step of data_thread, the peer and the clock keeps the invariant.  *)
LEMMA NetNextInv == NetInv /\ [Next]_vars => NetInv'
<1> SUFFICES ASSUME NetInv, [Next]_vars PROVE NetInv'  OBVIOUS
<1>1. TimerInv'  BY StepIsTimerStep, TimerNextInv DEF NetInv
<1>2. CASE data_thread
  <2>1. CASE \E n \in Lens : ucos_read(n)  BY <1>1, <2>1, ReadStep
  <2>2. CASE \E n \in Lens : RecvData(n)  BY <1>1, <2>2, RecvStep
  <2> QED BY <1>1, <1>2, <2>1, <2>2, CallStep, FailStep DEF data_thread
<1>3. CASE Peer  BY <1>1, <1>3, PeerStep
<1>4. CASE Clock  BY <1>1, <1>4, ClockStep
<1>5. CASE UNCHANGED vars
  BY <1>1, <1>5 DEF NetInv, vars, timerVars, sockVars, streamVars, readVars, histVars, TypeOK,
      TimerTypeOK, Resources, ReadState, StreamInStep, FirstByteByDeadline, Blocked, BlockAndRest
<1> QED BY <1>2, <1>3, <1>4, <1>5 DEF Next

(* The invariant of the network interface and its timer, for every number  *)
(* of sockets, every tick rate and every width of the counters.            *)
THEOREM NetworkInvariant == Spec => []NetInv
<1> QED BY NetInitInv, NetNextInv, PTL DEF Spec

(* For every number of sockets and addrinfo structures: ConnectNetwork     *)
(* gives back all it took when it fails, wherever it fails, and            *)
(* ucos_disconnect gives back the one socket.                              *)
THEOREM SocketsCorrect == Spec => []SocketsAccounted
<1>1. NetInv => SocketsAccounted  BY DEF NetInv, Resources, SocketsAccounted
<1> QED BY <1>1, NetworkInvariant, PTL

(* For every tick rate, width of the counters, length of reads and         *)
(* behaviour of the peer: the reads give the stream in step, the first     *)
(* byte is waited for until the deadline at most, and each byte costs at   *)
(* most one timeout.                                                       *)
THEOREM ReadsCorrect == Spec => []ReadsExact
<1>1. NetInv => BlockBounded
  <2> SUFFICES ASSUME NetInv, wait > 0 PROVE blocked <= (bytes + 1) * wait
    BY DEF BlockBounded
  <2>1. blocked + dly <= (bytes + 1) * wait  BY DEF NetInv, BlockAndRest
  <2>2. wait \in Nat /\ dly \in Nat /\ blocked \in Nat /\ bytes \in Nat
    BY NetworkAssumption DEF NetInv, TypeOK
  <2>3. (bytes + 1) * wait \in Nat  BY <2>2
  <2> QED BY <2>1, <2>2, <2>3
<1>2. NetInv => ReadsExact  BY <1>1 DEF NetInv, ReadsExact
<1> QED BY <1>2, NetworkInvariant, PTL
=============================================================================

---------------------------- MODULE TcpipProofs -----------------------------
(***************************************************************************)
(* Two results about what runs in lwIP's tcpip_thread.                     *)
(*                                                                         *)
(* For every set of handlers, every interval and every width of the clock: *)
(* the list of timeouts of lwIP (timers.c) is exact, and no handler the    *)
(* stack depends on drops out of it.                                       *)
(*                                                                         *)
(* For every scenario, every size of the buffers, of the windows and of    *)
(* the sequence numbers: the receive window of a TCP connection is what    *)
(* the data not read yet leaves of it (tcp_in.c, tcp.c).                   *)
(*                                                                         *)
(* The times in the list are sums, and the list of sys_timeouts_init and   *)
(* the queue of unacknowledged segments are built by recursion; what is    *)
(* said of them is proved by induction, in the form that a set of numbers  *)
(* has a least element.                                                    *)
(***************************************************************************)
EXTENDS Timers, Tcp, SequenceTheorems, FunctionTheorems, FiniteSetTheorems, TLAPS

-----------------------------------------------------------------------------
(* Induction.                                                              *)
LEMMA NatLess == IsWellFoundedOn({r \in Nat \X Nat : r[1] < r[2]}, Nat)
BY NatLessThanWellFounded DEF OpToRel

(* A set of natural numbers that is not empty has a least element.         *)
LEMMA Least ==
    ASSUME NEW T \in SUBSET Nat, T # {}
    PROVE  \E x \in T : \A y \in T : x <= y
<1> DEFINE R == {r \in Nat \X Nat : r[1] < r[2]}
<1>1. IsWellFoundedOn(R, Nat)  BY NatLess
<1>2. PICK x \in T : \A y \in T : ~(<<y, x>> \in R)
  <2> HIDE DEF R
  <2> QED BY <1>1, WFMin
<1>3. ASSUME NEW y \in T PROVE x <= y
  <2>1. <<y, x>> \notin R  BY <1>2
  <2> QED BY <2>1
<1> QED BY <1>3

(* What holds of 0 and goes from n to n + 1 holds up to N.                 *)
LEMMA UpTo ==
    ASSUME NEW N \in Nat, NEW P \in SUBSET Nat, 0 \in P,
           \A n \in 1 .. N : n - 1 \in P => n \in P
    PROVE  \A n \in 0 .. N : n \in P
<1> SUFFICES ASSUME ~(\A n \in 0 .. N : n \in P) PROVE FALSE  OBVIOUS
<1> DEFINE T == (0 .. N) \ P
<1>1. T \in SUBSET Nat /\ T # {}  OBVIOUS
<1>2. PICK n \in T : \A y \in T : n <= y  BY <1>1, Least
<1>3. n # 0 /\ n \in 0 .. N  OBVIOUS
<1>4. n - 1 \in 0 .. N /\ n \in 1 .. N /\ ~(n <= n - 1)  BY <1>3
<1>5. n - 1 \in P  BY <1>2, <1>4
<1> QED BY <1>4, <1>5

Solves(g, X, a, N, D) ==
    g \in [0 .. N -> X] /\ g[0] = a /\ \A n \in 1 .. N : g[n] = D[<<g[n - 1], n>>]

(* A recursion over 0 .. N has a solution.                                 *)
LEMMA Recursion ==
    ASSUME NEW X, NEW a \in X, NEW N \in Nat, NEW D \in [X \X (1 .. N) -> X]
    PROVE  \E g : Solves(g, X, a, N, D)
<1> DEFINE Sol(m) == \E g \in [0 .. m -> X] :
                        g[0] = a /\ \A n \in 1 .. m : g[n] = D[<<g[n - 1], n>>]
           P == {m \in Nat : m <= N => Sol(m)}
<1>1. 0 \in P
  <2> DEFINE g == [i \in 0 .. 0 |-> a]
  <2>1. g \in [0 .. 0 -> X] /\ g[0] = a /\ \A n \in 1 .. 0 : g[n] = D[<<g[n - 1], n>>]  OBVIOUS
  <2> QED BY <2>1
<1>2. ASSUME NEW m \in 1 .. N, m - 1 \in P PROVE m \in P
  <2>1. PICK f \in [0 .. m - 1 -> X] :
             f[0] = a /\ \A n \in 1 .. m - 1 : f[n] = D[<<f[n - 1], n>>]
    BY <1>2
  <2> DEFINE g == [i \in 0 .. m |-> IF i = m THEN D[<<f[m - 1], m>>] ELSE f[i]]
  <2>2. m - 1 \in 0 .. m - 1 /\ 0 \in 0 .. m - 1 /\ m # 0  OBVIOUS
  <2>3. D[<<f[m - 1], m>>] \in X  BY <2>1, <2>2
  <2>4. \A i \in 0 .. m : i # m => i \in 0 .. m - 1  OBVIOUS
  <2>5. g \in [0 .. m -> X]  BY <2>1, <2>3, <2>4
  <2>6. g[0] = a  BY <2>1, <2>2
  <2>7. ASSUME NEW n \in 1 .. m PROVE g[n] = D[<<g[n - 1], n>>]
    <3>1. n - 1 \in 0 .. m - 1 /\ n - 1 # m /\ n \in 0 .. m /\ n - 1 \in 0 .. m  OBVIOUS
    <3>2. g[n - 1] = f[n - 1]  BY <3>1
    <3>3. CASE n = m  BY <3>1, <3>2, <3>3
    <3>4. CASE n # m
      <4>1. n \in 1 .. m - 1 /\ g[n] = f[n]  BY <3>1, <3>4
      <4> QED BY <2>1, <3>2, <4>1
    <3> QED BY <3>3, <3>4
  <2> HIDE DEF g
  <2>8. Sol(m)  BY <2>5, <2>6, <2>7
  <2> QED BY <2>8
<1> HIDE DEF P
<1>3. P \in SUBSET Nat  BY DEF P
<1>4. \A n \in 0 .. N : n \in P  BY <1>1, <1>2, <1>3, UpTo
<1>5. Sol(N)  BY <1>4 DEF P
<1> QED BY <1>5 DEF Solves

-----------------------------------------------------------------------------
(* The list.                                                               *)
Entry == [h : Handlers, t : Int]

(* The time of the first i entries adds one entry at a time.               *)
LEMMA TotalIs ==
    ASSUME NEW l \in Seq(Entry)
    PROVE  /\ Total(l, 0) = 0 /\ \A i \in 0 .. Len(l) : Total(l, i) \in Int
           /\ \A i \in 1 .. Len(l) : Total(l, i) = Total(l, i - 1) + l[i].t
<1> DEFINE N == Len(l)
           D == [p \in Int \X (1 .. N) |-> p[1] + l[p[2]].t]
<1>1. N \in Nat /\ 0 \in Int /\ \A n \in 1 .. N : l[n].t \in Int
  <2>1. \A n \in 1 .. N : l[n] \in Entry  OBVIOUS
  <2> QED BY <2>1 DEF Entry
<1>2. D \in [Int \X (1 .. N) -> Int]  BY <1>1
<1>3. PICK g : Solves(g, Int, 0, N, D)
  <2> HIDE DEF D, N
  <2> QED BY <1>1, <1>2, Recursion
<1>3a. g \in [0 .. N -> Int] /\ g[0] = 0 /\ \A n \in 1 .. N : g[n] = D[<<g[n - 1], n>>]
  BY <1>3 DEF Solves
<1>4. ASSUME NEW n \in 1 .. N PROVE g[n] = g[n - 1] + l[n].t
  <2>1. n - 1 \in 0 .. N  BY <1>1
  <2>2. <<g[n - 1], n>> \in Int \X (1 .. N)  BY <1>3a, <2>1
  <2> QED BY <1>3a, <2>2
<1> HIDE DEF N
<1>5. ASSUME NEW i \in 0 .. N PROVE Total(l, i) = g[i]
  <2> DEFINE s[j \in 0 .. i] == IF j = 0 THEN 0 ELSE s[j - 1] + l[j].t
             f == [j \in 0 .. i |-> g[j]]
             P == {n \in Nat : n <= i => s[n] = g[n]}
  <2>1. \A j \in 0 .. i : j \in 0 .. N /\ (j # 0 => j \in 1 .. N /\ j - 1 \in 0 .. i)  BY <1>1
  <2>2. \A j \in 0 .. i : f[j] = IF j = 0 THEN 0 ELSE f[j - 1] + l[j].t  BY <1>3a, <1>4, <2>1
  <2>3. f = [j \in 0 .. i |-> IF j = 0 THEN 0 ELSE f[j - 1] + l[j].t]
    <3>1. f = [j \in 0 .. i |-> f[j]]  OBVIOUS
    <3> HIDE DEF f
    <3> QED BY <2>2, <3>1
  <2>4. s = [j \in 0 .. i |-> IF j = 0 THEN 0 ELSE s[j - 1] + l[j].t]
    <3> HIDE DEF f
    <3> QED BY <2>3
  <2>5. Total(l, i) = s[i]  BY DEF Total
  <2> HIDE DEF s
  <2>6. 0 \in P  BY <1>1, <1>3a, <2>4
  <2>7. ASSUME NEW n \in 1 .. i, n - 1 \in P PROVE n \in P
    <3>1. n \in 0 .. i /\ n # 0 /\ n \in 1 .. N /\ n - 1 <= i /\ n \in Nat  BY <1>1
    <3>2. s[n] = s[n - 1] + l[n].t  BY <2>4, <3>1
    <3>3. s[n - 1] = g[n - 1]  BY <2>7, <3>1
    <3>4. g[n] = g[n - 1] + l[n].t  BY <1>4, <3>1
    <3> QED BY <3>1, <3>2, <3>3, <3>4
  <2> HIDE DEF P
  <2>8. \A n \in 0 .. i : n \in P
    <3>1. P \in SUBSET Nat /\ i \in Nat  BY <1>1 DEF P
    <3> QED BY <2>6, <2>7, <3>1, UpTo
  <2>9. i \in P /\ i <= i  BY <1>1, <2>8
  <2> QED BY <2>5, <2>9 DEF P
<1>6. 0 \in 0 .. N /\ \A i \in 1 .. N : i \in 0 .. N /\ i - 1 \in 0 .. N  BY <1>1
<1> QED BY <1>3a, <1>4, <1>5, <1>6 DEF N

(* The list l is right for what is left of each handler's time, r: no      *)
(* handler is in it twice, each time is counted from the entry before.     *)
Single(l) == \A i, j \in 1 .. Len(l) : l[i].h = l[j].h => i = j
Deltas(l, r) ==
    \A i \in 1 .. Len(l) :
        l[i].t \in Nat /\ l[i].t = r[l[i].h] - (IF i = 1 THEN 0 ELSE r[l[i - 1].h])
ListOK(l, r) ==
    /\ l \in Seq(Entry) /\ r \in [Handlers -> Int] /\ Single(l) /\ Deltas(l, r)
    /\ \A h \in Handlers : /\ r[h] = None \/ r[h] \in 0 .. Interval[h]
                           /\ r[h] # None <=> Has(l, h)

(* What an entry of a list in order is.                                    *)
LEMMA EntryIs ==
    ASSUME NEW l, NEW r, ListOK(l, r)
    PROVE  /\ Len(l) \in Nat
           /\ \A i \in 1 .. Len(l) : /\ l[i] \in Entry /\ l[i].h \in Handlers /\ l[i].t \in Nat
                                     /\ Has(l, l[i].h) /\ r[l[i].h] \in 0 .. Interval[l[i].h]
                                     /\ r[l[i].h] \in Nat /\ r[l[i].h] # None
<1>1. l \in Seq(Entry) /\ Len(l) \in Nat  BY DEF ListOK
<1> SUFFICES ASSUME NEW i \in 1 .. Len(l)
             PROVE  /\ l[i] \in Entry /\ l[i].h \in Handlers /\ l[i].t \in Nat
                    /\ Has(l, l[i].h) /\ r[l[i].h] \in 0 .. Interval[l[i].h]
                    /\ r[l[i].h] \in Nat /\ r[l[i].h] # None
  BY <1>1
<1>2. l[i] \in Entry  BY <1>1
<1>3. l[i].h \in Handlers /\ l[i].t \in Nat  BY <1>2 DEF Entry, ListOK, Deltas
<1>4. Has(l, l[i].h)  BY DEF Has
<1>5. r[l[i].h] \in 0 .. Interval[l[i].h]  BY <1>3, <1>4 DEF ListOK
<1>6. Interval[l[i].h] \in Nat  BY <1>3, TimersAssumption
<1>7. r[l[i].h] \in Nat /\ r[l[i].h] # None  BY <1>5, <1>6 DEF None
<1> QED BY <1>2, <1>3, <1>4, <1>5, <1>7

(* The times up to an entry add up to what is left of its handler's time.  *)
LEMMA TotalRem ==
    ASSUME NEW l, NEW r, ListOK(l, r), NEW i \in 1 .. Len(l)
    PROVE  Total(l, i) = r[l[i].h]
<1> DEFINE P == {n \in Nat : n \in 1 .. Len(l) => Total(l, n) = r[l[n].h]}
<1>1. l \in Seq(Entry) /\ Len(l) \in Nat  BY DEF ListOK
<1>2. ASSUME NEW n \in 1 .. Len(l), n - 1 \in P PROVE n \in P
  <2>1. Total(l, n) = Total(l, n - 1) + l[n].t /\ Total(l, 0) = 0 /\ n \in Nat  BY <1>1, TotalIs
  <2>2. l[n].t = r[l[n].h] - (IF n = 1 THEN 0 ELSE r[l[n - 1].h]) /\ l[n].t \in Nat  BY DEF ListOK, Deltas
  <2>3. r[l[n].h] \in Nat  BY EntryIs
  <2>4. CASE n = 1  BY <2>1, <2>2, <2>3, <2>4
  <2>5. CASE n # 1
    <3>1. n - 1 \in 1 .. Len(l)  BY <1>1, <2>5
    <3>2. Total(l, n - 1) = r[l[n - 1].h] /\ r[l[n - 1].h] \in Nat  BY <1>2, <3>1, EntryIs
    <3> QED BY <2>1, <2>2, <2>3, <2>5, <3>2
  <2> QED BY <2>4, <2>5
<1>3. 0 \in P  BY <1>1
<1> HIDE DEF P
<1>4. P \in SUBSET Nat  BY DEF P
<1>5. \A n \in 0 .. Len(l) : n \in P  BY <1>1, <1>2, <1>3, <1>4, UpTo
<1> QED BY <1>1, <1>5 DEF P

(* The first entry is due first.                                           *)
LEMMA FirstLeast ==
    ASSUME NEW l, NEW r, ListOK(l, r), NEW i \in 1 .. Len(l)
    PROVE  l[1].t <= r[l[i].h]
<1> DEFINE P == {n \in Nat : n \in 1 .. Len(l) => l[1].t <= r[l[n].h]}
<1>1. Len(l) \in Nat /\ 1 \in 1 .. Len(l)  BY EntryIs
<1>2. ASSUME NEW n \in 1 .. Len(l), n - 1 \in P PROVE n \in P
  <2>1. l[n].t = r[l[n].h] - (IF n = 1 THEN 0 ELSE r[l[n - 1].h]) /\ n \in Nat  BY DEF ListOK, Deltas
  <2>2. r[l[n].h] \in Nat /\ l[n].t \in Nat /\ l[1].t \in Nat  BY <1>1, EntryIs
  <2>3. CASE n = 1  BY <2>1, <2>2, <2>3
  <2>4. CASE n # 1
    <3>1. n - 1 \in 1 .. Len(l)  BY <1>1, <2>4
    <3>2. l[1].t <= r[l[n - 1].h] /\ r[l[n - 1].h] \in Nat  BY <1>2, <3>1, EntryIs
    <3> QED BY <2>1, <2>2, <2>4, <3>2
  <2> QED BY <2>3, <2>4
<1>3. 0 \in P  BY <1>1
<1> HIDE DEF P
<1>4. P \in SUBSET Nat  BY DEF P
<1>5. \A n \in 0 .. Len(l) : n \in P  BY <1>1, <1>2, <1>3, <1>4, UpTo
<1> QED BY <1>1, <1>5 DEF P

(* The walk of sys_timeout stops somewhere, and at the first such place.   *)
LEMMA PlaceIs ==
    ASSUME NEW l \in Seq(Entry), NEW ms
    PROVE  /\ Place(l, ms) \in 0 .. Len(l) /\ Stops(l, ms, Place(l, ms))
           /\ \A j \in 0 .. Place(l, ms) - 1 : ~Stops(l, ms, j)
<1> DEFINE T == {i \in 0 .. Len(l) : Stops(l, ms, i)}
<1>1. Len(l) \in Nat  OBVIOUS
<1>2. Len(l) \in T  BY <1>1 DEF Stops
<1>3. T \in SUBSET Nat /\ T # {}  BY <1>1, <1>2
<1>4. PICK k \in T : \A y \in T : k <= y  BY <1>3, Least
<1>5. ASSUME NEW j \in 0 .. k - 1 PROVE ~Stops(l, ms, j)
  <2>1. j \in 0 .. Len(l) /\ ~(k <= j)  BY <1>1
  <2> QED BY <1>4, <2>1
<1>6. \E i \in 0 .. Len(l) : Stops(l, ms, i) /\ \A j \in 0 .. i - 1 : ~Stops(l, ms, j)
  BY <1>5
<1> QED BY <1>6 DEF Place

(* sys_timeout puts in a handler that is not in the list.                  *)
LEMMA InsertOK ==
    ASSUME NEW l, NEW r, ListOK(l, r), NEW h \in Handlers, ~Has(l, h)
    PROVE  LET v == Inserted(l, h)
           IN  /\ ListOK(v, [r EXCEPT ![h] = Interval[h]]) /\ Len(v) = Len(l) + 1
               /\ \A x \in Handlers : Has(v, x) <=> x = h \/ Has(l, x)
<1> DEFINE v == Inserted(l, h)
           ms == Interval[h]
           k == Place(l, ms)
           t == ms - Total(l, k)
           q == [r EXCEPT ![h] = ms]
           n == Len(l)
<1>1. l \in Seq(Entry) /\ n \in Nat /\ ms \in Nat \ {0} /\ r \in [Handlers -> Int]
  BY TimersAssumption DEF ListOK
<1>2. k \in 0 .. n /\ Stops(l, ms, k) /\ \A j \in 0 .. k - 1 : ~Stops(l, ms, j)
  BY <1>1, PlaceIs
<1>3. v = [i \in 1 .. n + 1 |->
             CASE i <= k -> l[i]
               [] i = k + 1 -> [h |-> h, t |-> t]
               [] i = k + 2 -> [h |-> l[k + 1].h, t |-> l[k + 1].t - t]
               [] OTHER -> l[i - 1]]
  BY DEF Inserted
<1> HIDE DEF v, k, n, ms
<1>4. Total(l, k) \in Int /\ Total(l, 0) = 0  BY <1>1, <1>2, TotalIs DEF n
<1>5. t \in Nat /\ (k = 0 => t = ms) /\ (k # 0 => t = ms - r[l[k].h])
  <2>1. CASE k = 0  BY <1>1, <1>4, <2>1
  <2>2. CASE k # 0
    <3>1. k \in 1 .. n /\ k - 1 \in 0 .. k - 1 /\ k - 1 # n /\ k - 1 + 1 = k  BY <1>1, <1>2, <2>2
    <3>2. ~(l[k].t > ms - Total(l, k - 1))  BY <1>2, <3>1 DEF Stops, n
    <3>3. Total(l, k) = Total(l, k - 1) + l[k].t /\ Total(l, k - 1) \in Int  BY <1>1, <3>1, TotalIs DEF n
    <3>4. l[k].t \in Nat /\ Total(l, k) = r[l[k].h]  BY <3>1, EntryIs, TotalRem DEF n
    <3>5. t \in Nat  BY <1>1, <1>4, <3>2, <3>3, <3>4
    <3> QED BY <2>2, <3>4, <3>5
  <2> QED BY <2>1, <2>2
<1>6. k # n => l[k + 1].t - t \in Nat /\ k + 1 \in 1 .. n
  <2> SUFFICES ASSUME k # n PROVE l[k + 1].t - t \in Nat /\ k + 1 \in 1 .. n  OBVIOUS
  <2>1. k + 1 \in 1 .. n  BY <1>1, <1>2
  <2>2. l[k + 1].t > ms - Total(l, k)  BY <1>2 DEF Stops, n
  <2>3. l[k + 1].t \in Nat  BY <2>1, EntryIs DEF n
  <2> QED BY <1>5, <2>1, <2>2, <2>3
<1> HIDE DEF t
(* Where each entry of the new list comes from.                            *)
<1>7. /\ \A i \in 1 .. n + 1 : i <= k => v[i] = l[i] /\ i \in 1 .. n
      /\ k + 1 \in 1 .. n + 1 /\ v[k + 1] = [h |-> h, t |-> t]
      /\ \A i \in 1 .. n + 1 : i = k + 2 => v[i] = [h |-> l[k + 1].h, t |-> l[k + 1].t - t] /\ k # n
      /\ \A i \in 1 .. n + 1 : i > k + 2 => v[i] = l[i - 1] /\ i - 1 \in 1 .. n /\ i - 2 \in 1 .. n
  <2>1. ASSUME NEW i \in 1 .. n + 1, i <= k PROVE v[i] = l[i] /\ i \in 1 .. n  BY <1>1, <1>2, <1>3, <2>1
  <2>2. k + 1 \in 1 .. n + 1 /\ ~(k + 1 <= k)  BY <1>1, <1>2
  <2>3. v[k + 1] = [h |-> h, t |-> t]
    <3>1. ASSUME NEW i \in 1 .. n + 1, i = k + 1 PROVE v[i] = [h |-> h, t |-> t]
      <4>1. ~(i <= k) /\ i # k + 2  BY <1>1, <1>2, <3>1
      <4> QED BY <1>3, <3>1, <4>1
    <3> QED BY <2>2, <3>1
  <2>4. ASSUME NEW i \in 1 .. n + 1, i = k + 2
        PROVE  v[i] = [h |-> l[k + 1].h, t |-> l[k + 1].t - t] /\ k # n
    <3>1. ~(i <= k) /\ i # k + 1 /\ k # n  BY <1>1, <1>2, <2>4
    <3> QED BY <1>3, <2>4, <3>1
  <2>5. ASSUME NEW i \in 1 .. n + 1, i > k + 2
        PROVE  v[i] = l[i - 1] /\ i - 1 \in 1 .. n /\ i - 2 \in 1 .. n
    <3>1. /\ ~(i <= k) /\ i # k + 1 /\ i # k + 2 /\ i - 1 \in 1 .. n /\ i - 2 \in 1 .. n
      BY <1>1, <1>2, <2>5
    <3> QED BY <1>3, <3>1
  <2> QED BY <2>1, <2>2, <2>3, <2>4, <2>5
<1>8. \A i \in 1 .. n : l[i].h \in Handlers /\ l[i].t \in Nat /\ l[i] \in Entry /\ l[i].h # h
  BY EntryIs DEF n
<1>9. \A i \in 1 .. n + 1 : i <= k \/ i = k + 1 \/ i = k + 2 \/ i > k + 2  BY <1>1, <1>2
<1>10. ASSUME NEW i \in 1 .. n + 1
       PROVE  /\ v[i] \in Entry /\ v[i].t \in Nat
              /\ (i <= k => v[i].h = l[i].h) /\ (i = k + 1 => v[i].h = h)
              /\ (i > k + 1 => v[i].h = l[i - 1].h)
  <2>1. CASE i <= k
    <3>1. v[i] = l[i] /\ i \in 1 .. n /\ i # k + 1 /\ ~(i > k + 1)  BY <1>1, <1>2, <1>7, <2>1
    <3> QED BY <1>8, <3>1
  <2>2. CASE i = k + 1
    <3>1. v[i] = [h |-> h, t |-> t] /\ ~(i <= k) /\ ~(i > k + 1)  BY <1>1, <1>2, <1>7, <2>2
    <3> QED BY <1>5, <3>1 DEF Entry
  <2>3. CASE i = k + 2
    <3>1. v[i] = [h |-> l[k + 1].h, t |-> l[k + 1].t - t] /\ k # n  BY <1>7, <2>3
    <3>2. i - 1 = k + 1 /\ ~(i <= k) /\ i # k + 1  BY <1>1, <1>2, <2>3
    <3> QED BY <1>6, <1>8, <3>1, <3>2 DEF Entry
  <2>4. CASE i > k + 2
    <3>1. v[i] = l[i - 1] /\ i - 1 \in 1 .. n /\ ~(i <= k) /\ i # k + 1  BY <1>1, <1>2, <1>7, <2>4
    <3> QED BY <1>8, <3>1
  <2> QED BY <1>9, <2>1, <2>2, <2>3, <2>4
<1>11. v \in Seq(Entry) /\ Len(v) = n + 1
  <2>1. v = [i \in 1 .. n + 1 |-> v[i]]  BY <1>3
  <2>2. v \in [1 .. n + 1 -> Entry]  BY <1>10, <2>1
  <2> QED BY <1>1, <2>2
<1>12. Single(v)
  <2> SUFFICES ASSUME NEW i \in 1 .. n + 1, NEW j \in 1 .. n + 1, v[i].h = v[j].h PROVE i = j
    BY <1>11 DEF Single
  <2> DEFINE From(x) == IF x <= k THEN x ELSE x - 1
  <2>1. \A x \in 1 .. n + 1 : x # k + 1 => From(x) \in 1 .. n /\ v[x].h = l[From(x)].h
    <3> SUFFICES ASSUME NEW x \in 1 .. n + 1, x # k + 1
                 PROVE  From(x) \in 1 .. n /\ v[x].h = l[From(x)].h
      OBVIOUS
    <3>1. CASE x <= k  BY <1>7, <1>10, <3>1
    <3>2. CASE x > k + 1
      <4>1. ~(x <= k) /\ x - 1 \in 1 .. n  BY <1>1, <1>2, <3>2
      <4> QED BY <1>10, <3>2, <4>1
    <3> QED BY <1>1, <1>2, <3>1, <3>2
  <2>2. CASE i = k + 1 \/ j = k + 1  BY <1>8, <1>10, <2>1, <2>2
  <2>3. CASE i # k + 1 /\ j # k + 1
    <3>1. From(i) = From(j)  BY <2>1, <2>3 DEF ListOK, Single, n
    <3> QED BY <1>1, <1>2, <2>3, <3>1
  <2> QED BY <2>2, <2>3
<1>13. q \in [Handlers -> Int] /\ q[h] = ms /\ \A x \in Handlers : x # h => q[x] = r[x]
  BY <1>1
<1> HIDE DEF q
<1>14. Deltas(v, q)
  <2> SUFFICES ASSUME NEW i \in 1 .. n + 1
               PROVE  v[i].t = q[v[i].h] - (IF i = 1 THEN 0 ELSE q[v[i - 1].h])
    BY <1>10, <1>11 DEF Deltas
  <2>1. \A j \in 1 .. n : /\ l[j].t = r[l[j].h] - (IF j = 1 THEN 0 ELSE r[l[j - 1].h])
                          /\ q[l[j].h] = r[l[j].h] /\ r[l[j].h] \in Nat
    BY <1>8, <1>13, EntryIs DEF ListOK, Deltas, n
  <2>2. CASE i <= k
    <3>1. v[i] = l[i] /\ i \in 1 .. n  BY <1>7, <2>2
    <3>2. CASE i = 1  BY <2>1, <3>1, <3>2
    <3>3. CASE i # 1
      <4>1. i - 1 \in 1 .. n + 1 /\ i - 1 <= k /\ i - 1 \in 1 .. n  BY <1>1, <1>2, <2>2, <3>1, <3>3
      <4>2. v[i - 1] = l[i - 1]  BY <1>7, <4>1
      <4> QED BY <2>1, <3>1, <3>3, <4>1, <4>2
    <3> QED BY <3>2, <3>3
  <2>3. CASE i = k + 1
    <3>1. v[i].h = h /\ v[i].t = t  BY <1>7, <2>3
    <3>2. CASE k = 0  BY <1>1, <1>5, <1>13, <2>3, <3>1, <3>2
    <3>3. CASE k # 0
      <4>1. i # 1 /\ i - 1 = k /\ k \in 1 .. n + 1 /\ k <= k  BY <1>1, <1>2, <2>3, <3>3
      <4>2. v[i - 1] = l[k] /\ k \in 1 .. n  BY <1>7, <4>1
      <4> QED BY <1>5, <1>13, <2>1, <3>1, <3>3, <4>1, <4>2
    <3> QED BY <3>2, <3>3
  <2>4. CASE i = k + 2
    <3>1. v[i].h = l[k + 1].h /\ v[i].t = l[k + 1].t - t /\ k + 1 \in 1 .. n  BY <1>6, <1>7, <2>4
    <3>2. i # 1 /\ i - 1 = k + 1  BY <1>1, <1>2, <2>4
    <3>3. v[i - 1].h = h  BY <1>7, <3>2
    <3>4. q[v[i].h] = r[l[k + 1].h] /\ q[v[i - 1].h] = ms /\ r[l[k + 1].h] \in Nat
      BY <1>13, <2>1, <3>1, <3>3
    <3>5. l[k + 1].t = r[l[k + 1].h] - (IF k = 0 THEN 0 ELSE r[l[k].h])
      <4> DEFINE j == k + 1
      <4>1. j \in 1 .. n /\ j - 1 = k /\ (j = 1 <=> k = 0)  BY <1>1, <1>2, <3>1
      <4> HIDE DEF j
      <4>2. l[j].t = r[l[j].h] - (IF j = 1 THEN 0 ELSE r[l[j - 1].h])  BY <2>1, <4>1
      <4>3. l[j].t = r[l[j].h] - (IF k = 0 THEN 0 ELSE r[l[k].h])  BY <4>1, <4>2
      <4> QED BY <4>3 DEF j
    <3>6. CASE k = 0  BY <1>1, <1>5, <3>1, <3>2, <3>4, <3>5, <3>6
    <3>7. CASE k # 0
      <4>1. k \in 1 .. n  BY <1>1, <1>2, <3>7
      <4>2. r[l[k].h] \in Nat  BY <2>1, <4>1
      <4>3. l[k + 1].t = r[l[k + 1].h] - r[l[k].h] /\ t = ms - r[l[k].h]
        BY <1>5, <3>5, <3>7
      <4>4. r[l[k + 1].h] - r[l[k].h] - (ms - r[l[k].h]) = r[l[k + 1].h] - ms
        BY <1>1, <3>4, <4>2
      <4>5. v[i].t = r[l[k + 1].h] - ms  BY <3>1, <4>3, <4>4
      <4> QED BY <3>2, <3>4, <4>5
    <3> QED BY <3>6, <3>7
  <2>5. CASE i > k + 2
    <3>1. v[i] = l[i - 1] /\ i - 1 \in 1 .. n /\ i - 2 \in 1 .. n /\ i # 1 /\ i - 1 # 1
          /\ i - 1 - 1 = i - 2 /\ i - 1 \in 1 .. n + 1 /\ i - 1 > k + 1
      BY <1>1, <1>2, <1>7, <2>5
    <3>2. v[i - 1].h = l[i - 2].h  BY <1>10, <3>1
    <3>3. l[i - 1].t = r[l[i - 1].h] - r[l[i - 2].h]  BY <2>1, <3>1
    <3> QED BY <2>1, <3>1, <3>2, <3>3
  <2> QED BY <1>9, <2>2, <2>3, <2>4, <2>5
<1>15. ASSUME NEW x \in Handlers PROVE Has(v, x) <=> x = h \/ Has(l, x)
  <2>1. ASSUME Has(v, x) PROVE x = h \/ Has(l, x)
    <3>1. PICK i \in 1 .. n + 1 : v[i].h = x  BY <1>11, <2>1 DEF Has
    <3>2. CASE i <= k  BY <1>7, <1>10, <3>1, <3>2 DEF Has, n
    <3>3. CASE i = k + 1  BY <1>10, <3>1, <3>3
    <3>4. CASE i > k + 1
      <4>1. i - 1 \in 1 .. n  BY <1>1, <1>2, <3>4
      <4> QED BY <1>10, <3>1, <3>4, <4>1 DEF Has, n
    <3> QED BY <1>9, <1>1, <1>2, <3>2, <3>3, <3>4
  <2>2. ASSUME Has(l, x) PROVE Has(v, x)
    <3>1. PICK i \in 1 .. n : l[i].h = x  BY <2>2 DEF Has, n
    <3>2. CASE i <= k
      <4>1. i \in 1 .. n + 1  BY <1>1
      <4> QED BY <1>10, <1>11, <3>1, <3>2, <4>1 DEF Has
    <3>3. CASE ~(i <= k)
      <4>1. i + 1 \in 1 .. n + 1 /\ i + 1 > k + 1 /\ i + 1 - 1 = i  BY <1>1, <1>2, <3>3
      <4> QED BY <1>10, <1>11, <3>1, <4>1 DEF Has
    <3> QED BY <3>2, <3>3
  <2>3. Has(v, h)  BY <1>7, <1>10, <1>11 DEF Has
  <2> QED BY <2>1, <2>2, <2>3
<1>16. ListOK(v, q)
  <2>1. ASSUME NEW x \in Handlers
        PROVE  (q[x] = None \/ q[x] \in 0 .. Interval[x]) /\ (q[x] # None <=> Has(v, x))
    <3>1. CASE x = h
      <4>1. q[x] = ms /\ ms # None /\ ms \in 0 .. ms  BY <1>1, <1>13, <3>1 DEF None
      <4> QED BY <1>15, <3>1, <4>1 DEF ms
    <3>2. CASE x # h  BY <1>13, <1>15, <3>2 DEF ListOK
    <3> QED BY <3>1, <3>2
  <2> QED BY <1>11, <1>12, <1>13, <1>14, <2>1 DEF ListOK
<1> QED BY <1>11, <1>15, <1>16 DEF v, q, ms, n

(* sys_untimeout takes an entry out.                                       *)
LEMMA RemoveOK ==
    ASSUME NEW l, NEW r, ListOK(l, r), NEW k \in 1 .. Len(l)
    PROVE  LET v == Removed(l, k)
           IN  /\ ListOK(v, [r EXCEPT ![l[k].h] = None]) /\ Len(v) = Len(l) - 1
               /\ \A x \in Handlers : Has(v, x) <=> x # l[k].h /\ Has(l, x)
<1> DEFINE v == Removed(l, k)
           n == Len(l)
           h == l[k].h
           q == [r EXCEPT ![h] = None]
<1>1. l \in Seq(Entry) /\ n \in Nat /\ k \in 1 .. n /\ n - 1 \in Nat /\ r \in [Handlers -> Int]
  BY DEF ListOK
<1>2. v = [i \in 1 .. n - 1 |->
             CASE i < k -> l[i]
               [] i = k -> [h |-> l[k + 1].h, t |-> l[k + 1].t + l[k].t]
               [] OTHER -> l[i + 1]]
  BY DEF Removed
<1> HIDE DEF v, n
<1>3. \A i \in 1 .. n : l[i] \in Entry /\ l[i].h \in Handlers /\ l[i].t \in Nat /\ r[l[i].h] \in Nat
  BY EntryIs DEF n
<1>4. \A i, j \in 1 .. n : l[i].h = l[j].h => i = j  BY DEF ListOK, Single, n
<1>5. h \in Handlers /\ \A i \in 1 .. n : i # k => l[i].h # h  BY <1>1, <1>3, <1>4
<1> HIDE DEF h
<1>6. ASSUME NEW i \in 1 .. n - 1
      PROVE  /\ i \in 1 .. n /\ i + 1 \in 1 .. n
             /\ (i < k => v[i] = l[i]) /\ (i > k => v[i] = l[i + 1])
             /\ (i = k => v[i] = [h |-> l[k + 1].h, t |-> l[k + 1].t + l[k].t])
  <2>1. i \in 1 .. n /\ i + 1 \in 1 .. n  BY <1>1
  <2>2. CASE i < k  BY <1>1, <1>2, <2>1, <2>2
  <2>3. CASE i = k  BY <1>1, <1>2, <2>1, <2>3
  <2>4. CASE i > k
    <3>1. ~(i < k) /\ i # k  BY <1>1, <2>4
    <3> QED BY <1>2, <2>1, <3>1
  <2> QED BY <1>1, <2>2, <2>3, <2>4
<1> DEFINE From(i) == IF i < k THEN i ELSE i + 1
<1>7. ASSUME NEW i \in 1 .. n - 1
      PROVE  From(i) \in 1 .. n /\ From(i) # k /\ v[i].h = l[From(i)].h /\ v[i] \in Entry /\ v[i].t \in Nat
  <2>1. CASE i < k
    <3>1. v[i] = l[i] /\ From(i) = i /\ i # k /\ i \in 1 .. n  BY <1>1, <1>6, <2>1
    <3> QED BY <1>3, <3>1
  <2>2. CASE i = k
    <3>1. v[i] = [h |-> l[k + 1].h, t |-> l[k + 1].t + l[k].t] /\ From(i) = k + 1 /\ k + 1 \in 1 .. n
          /\ k + 1 # k
      BY <1>1, <1>6, <2>2
    <3>2. l[k + 1].h \in Handlers /\ l[k + 1].t + l[k].t \in Nat  BY <1>1, <1>3, <3>1
    <3> QED BY <3>1, <3>2 DEF Entry
  <2>3. CASE i > k
    <3>1. v[i] = l[i + 1] /\ From(i) = i + 1 /\ i + 1 # k /\ i + 1 \in 1 .. n  BY <1>1, <1>6, <2>3
    <3> QED BY <1>3, <3>1
  <2> QED BY <1>1, <2>1, <2>2, <2>3
<1>8. v \in Seq(Entry) /\ Len(v) = n - 1
  <2>1. v = [i \in 1 .. n - 1 |-> v[i]]  BY <1>2
  <2>2. v \in [1 .. n - 1 -> Entry]  BY <1>7, <2>1
  <2> QED BY <1>1, <2>2
<1>9. Single(v)
  <2> SUFFICES ASSUME NEW i \in 1 .. n - 1, NEW j \in 1 .. n - 1, v[i].h = v[j].h PROVE i = j
    BY <1>8 DEF Single
  <2>1. From(i) = From(j)  BY <1>4, <1>7
  <2> QED BY <1>1, <2>1
<1>10. q \in [Handlers -> Int] /\ q[h] = None /\ \A x \in Handlers : x # h => q[x] = r[x]
  BY <1>1, <1>5 DEF None
<1> HIDE DEF q
<1>11. Deltas(v, q)
  <2> SUFFICES ASSUME NEW i \in 1 .. n - 1
               PROVE  v[i].t = q[v[i].h] - (IF i = 1 THEN 0 ELSE q[v[i - 1].h])
    BY <1>7, <1>8 DEF Deltas
  <2>1. \A j \in 1 .. n : l[j].t = r[l[j].h] - (IF j = 1 THEN 0 ELSE r[l[j - 1].h])
    BY DEF ListOK, Deltas, n
  <2>2. \A j \in 1 .. n : j # k => q[l[j].h] = r[l[j].h]  BY <1>3, <1>5, <1>10
  <2>3. CASE i < k
    <3>1. v[i] = l[i] /\ i \in 1 .. n /\ i # k  BY <1>1, <1>6, <2>3
    <3>2. CASE i = 1  BY <2>1, <2>2, <3>1, <3>2
    <3>3. CASE i # 1
      <4>1. i - 1 \in 1 .. n - 1 /\ i - 1 < k /\ i - 1 # k /\ i - 1 \in 1 .. n  BY <1>1, <2>3, <3>3
      <4>2. v[i - 1] = l[i - 1]  BY <1>6, <4>1
      <4> QED BY <2>1, <2>2, <3>1, <3>3, <4>1, <4>2
    <3> QED BY <3>2, <3>3
  <2>4. CASE i = k
    <3> DEFINE j == k + 1
    <3>1. j \in 1 .. n /\ j # 1 /\ j - 1 = k /\ j # k  BY <1>1, <2>4
    <3>2. v[i].h = l[j].h /\ v[i].t = l[j].t + l[k].t  BY <1>6, <2>4
    <3> HIDE DEF j
    <3>3. l[j].t = r[l[j].h] - r[l[k].h]  BY <2>1, <3>1
    <3>4. q[v[i].h] = r[l[j].h]  BY <2>2, <3>1, <3>2
    <3>5. r[l[j].h] \in Nat /\ r[l[k].h] \in Nat  BY <1>1, <1>3, <3>1
    <3>6. CASE k = 1
      <4>1. l[k].t = r[l[k].h]  BY <1>1, <1>3, <2>1, <3>6
      <4> QED BY <2>4, <3>2, <3>3, <3>4, <3>5, <3>6, <4>1
    <3>7. CASE k # 1
      <4>1. k - 1 \in 1 .. n /\ k - 1 # k /\ k - 1 \in 1 .. n - 1 /\ k - 1 < k  BY <1>1, <3>7
      <4>2. v[k - 1] = l[k - 1] /\ q[l[k - 1].h] = r[l[k - 1].h] /\ r[l[k - 1].h] \in Nat
        BY <1>3, <1>6, <2>2, <4>1
      <4>3. l[k].t = r[l[k].h] - r[l[k - 1].h]  BY <1>1, <2>1, <3>7
      <4> QED BY <2>4, <3>2, <3>3, <3>4, <3>5, <3>7, <4>2, <4>3
    <3> QED BY <3>6, <3>7
  <2>5. CASE i > k
    <3> DEFINE j == i + 1
    <3>1. j \in 1 .. n /\ j # 1 /\ j - 1 = i /\ j # k /\ i # k /\ i \in 1 .. n /\ i # 1
          /\ i - 1 \in 1 .. n - 1 /\ ~(i - 1 < k) /\ i - 1 + 1 = i
      BY <1>1, <2>5
    <3>2. v[i] = l[j]  BY <1>6, <2>5
    <3> HIDE DEF j
    <3>3. l[j].t = r[l[j].h] - r[l[i].h]  BY <2>1, <3>1
    <3>4. v[i - 1].h = l[i].h  BY <1>7, <3>1
    <3> QED BY <2>2, <3>1, <3>2, <3>3, <3>4
  <2> QED BY <1>1, <2>3, <2>4, <2>5
<1>12. ASSUME NEW x \in Handlers PROVE Has(v, x) <=> x # h /\ Has(l, x)
  <2>1. ASSUME Has(v, x) PROVE x # h /\ Has(l, x)
    <3>1. PICK i \in 1 .. n - 1 : v[i].h = x  BY <1>8, <2>1 DEF Has
    <3>2. From(i) \in 1 .. n /\ From(i) # k /\ l[From(i)].h = x  BY <1>7, <3>1
    <3> QED BY <1>5, <3>2 DEF Has, n
  <2>2. ASSUME x # h, Has(l, x) PROVE Has(v, x)
    <3>1. PICK j \in 1 .. n : l[j].h = x  BY <2>2 DEF Has, n
    <3>2. j # k  BY <2>2, <3>1 DEF h
    <3>3. CASE j < k
      <4>1. j \in 1 .. n - 1  BY <1>1, <3>3
      <4>2. v[j] = l[j]  BY <1>6, <3>3, <4>1
      <4> QED BY <1>8, <3>1, <4>1, <4>2 DEF Has
    <3>4. CASE j > k
      <4>1. j - 1 \in 1 .. n - 1 /\ ~(j - 1 < k) /\ j - 1 + 1 = j  BY <1>1, <3>4
      <4>2. v[j - 1].h = l[j].h  BY <1>7, <4>1
      <4> QED BY <1>8, <3>1, <4>1, <4>2 DEF Has
    <3> QED BY <1>1, <3>2, <3>3, <3>4
  <2> QED BY <2>1, <2>2
<1>13. ListOK(v, q)
  <2>1. ASSUME NEW x \in Handlers
        PROVE  (q[x] = None \/ q[x] \in 0 .. Interval[x]) /\ (q[x] # None <=> Has(v, x))
    <3>1. CASE x = h  BY <1>10, <1>12, <3>1
    <3>2. CASE x # h  BY <1>10, <1>12, <3>2 DEF ListOK
    <3> QED BY <3>1, <3>2
  <2> QED BY <1>8, <1>9, <1>10, <1>11, <2>1 DEF ListOK
<1> QED BY <1>8, <1>12, <1>13 DEF v, q, h, n

(* Time goes by for all.                                                   *)
Less(r, d) == [h \in Handlers |-> IF r[h] = None THEN None ELSE r[h] - d]

(* A time that has passed for all is taken from what is left of each.      *)
LEMMA LessIs ==
    ASSUME NEW l, NEW r, ListOK(l, r), l # <<>>, NEW d \in 0 .. l[1].t
    PROVE  /\ Less(r, d) \in [Handlers -> Int]
           /\ \A h \in Handlers : /\ r[h] = None => Less(r, d)[h] = None
                                  /\ r[h] # None => /\ Less(r, d)[h] = r[h] - d
                                                    /\ Less(r, d)[h] \in 0 .. Interval[h]
                                                    /\ Less(r, d)[h] # None
<1>1. r \in [Handlers -> Int] /\ l \in Seq(Entry) /\ Len(l) \in Nat /\ 1 \in 1 .. Len(l)  BY DEF ListOK
<1>2. l[1].t \in Nat  BY <1>1, EntryIs
<1>3. d \in Nat /\ d <= l[1].t  BY <1>2
<1>4. Less(r, d) \in [Handlers -> Int]  BY <1>1, <1>3 DEF Less, None
<1>5. ASSUME NEW h \in Handlers, r[h] # None
      PROVE  Less(r, d)[h] = r[h] - d /\ r[h] - d \in 0 .. Interval[h] /\ r[h] - d # None
  <2>1. PICK i \in 1 .. Len(l) : l[i].h = h  BY <1>5 DEF ListOK, Has
  <2>2. l[1].t <= r[h]  BY <2>1, FirstLeast
  <2>3. r[h] \in 0 .. Interval[h] /\ Interval[h] \in Nat  BY <1>5, TimersAssumption DEF ListOK
  <2>4. r[h] - d \in 0 .. Interval[h]  BY <1>2, <1>3, <2>2, <2>3
  <2> QED BY <1>5, <2>3, <2>4 DEF Less, None
<1>6. ASSUME NEW h \in Handlers, r[h] = None PROVE Less(r, d)[h] = None  BY <1>6 DEF Less
<1> QED BY <1>4, <1>5, <1>6

(* sys_timeouts_mbox_fetch takes the time waited off the first entry.      *)
LEMMA LessOK ==
    ASSUME NEW l, NEW r, ListOK(l, r), l # <<>>, NEW d \in 0 .. l[1].t
    PROVE  LET v == [l EXCEPT ![1] = [h |-> l[1].h, t |-> l[1].t - d]]
           IN  /\ ListOK(v, Less(r, d)) /\ Len(v) = Len(l)
               /\ \A x \in Handlers : Has(v, x) <=> Has(l, x)
<1> DEFINE n == Len(l)
           e == [h |-> l[1].h, t |-> l[1].t - d]
           v == [l EXCEPT ![1] = e]
           q == Less(r, d)
<1>1. l \in Seq(Entry) /\ n \in Nat /\ 1 \in 1 .. n  BY DEF ListOK
<1>2. \A i \in 1 .. n : l[i] \in Entry /\ l[i].h \in Handlers /\ l[i].t \in Nat /\ r[l[i].h] \in Nat
                        /\ r[l[i].h] # None
  BY EntryIs
<1>3. e \in Entry /\ e.h = l[1].h /\ e.t = l[1].t - d /\ e.t \in Nat /\ d \in Nat  BY <1>1, <1>2 DEF Entry
<1> HIDE DEF e
<1>4. v \in Seq(Entry) /\ Len(v) = n /\ v[1] = e /\ \A i \in 1 .. n : i # 1 => v[i] = l[i]
  BY <1>1, <1>3
<1> HIDE DEF v, n, q
<1>5. \A i \in 1 .. n : v[i].h = l[i].h /\ v[i].t \in Nat /\ v[i].t = l[i].t - (IF i = 1 THEN d ELSE 0)
  <2> SUFFICES ASSUME NEW i \in 1 .. n
               PROVE  v[i].h = l[i].h /\ v[i].t \in Nat /\ v[i].t = l[i].t - (IF i = 1 THEN d ELSE 0)
    OBVIOUS
  <2>1. CASE i = 1  BY <1>3, <1>4, <2>1
  <2>2. CASE i # 1  BY <1>2, <1>4, <2>2
  <2> QED BY <2>1, <2>2
<1>6. q \in [Handlers -> Int] /\ \A i \in 1 .. n : q[l[i].h] = r[l[i].h] - d
  BY <1>2, LessIs DEF q
<1>7. Deltas(v, q)
  <2> SUFFICES ASSUME NEW i \in 1 .. n
               PROVE  v[i].t = q[v[i].h] - (IF i = 1 THEN 0 ELSE q[v[i - 1].h])
    BY <1>4, <1>5 DEF Deltas
  <2>1. l[i].t = r[l[i].h] - (IF i = 1 THEN 0 ELSE r[l[i - 1].h])  BY DEF ListOK, Deltas, n
  <2>2. CASE i = 1  BY <1>2, <1>3, <1>5, <1>6, <2>1, <2>2
  <2>3. CASE i # 1
    <3>1. i - 1 \in 1 .. n  BY <1>1, <2>3
    <3>2. q[v[i].h] = r[l[i].h] - d /\ q[v[i - 1].h] = r[l[i - 1].h] - d  BY <1>5, <1>6, <3>1
    <3>3. r[l[i].h] \in Nat /\ r[l[i - 1].h] \in Nat /\ v[i].t = l[i].t /\ l[i].t \in Nat
      BY <1>2, <1>4, <2>3, <3>1
    <3> QED BY <1>3, <2>1, <2>3, <3>2, <3>3
  <2> QED BY <2>2, <2>3
<1>8. Single(v)  BY <1>4, <1>5 DEF ListOK, Single, n
<1>9. \A x : Has(v, x) <=> Has(l, x)  BY <1>4, <1>5 DEF Has, n
<1>10. ListOK(v, q)
  <2>1. ASSUME NEW x \in Handlers
        PROVE  (q[x] = None \/ q[x] \in 0 .. Interval[x]) /\ (q[x] # None <=> Has(v, x))
    BY <1>9, LessIs DEF q, ListOK
  <2> QED BY <1>4, <1>6, <1>7, <1>8, <2>1 DEF ListOK
<1> QED BY <1>4, <1>9, <1>10 DEF v, q, n, e

(* The first entry leaves the list when its time has come.                 *)
LEMMA ExpireOK ==
    ASSUME NEW l, NEW r, ListOK(l, r), l # <<>>
    PROVE  /\ ListOK(Tail(l), [Less(r, l[1].t) EXCEPT ![l[1].h] = None]) /\ Len(Tail(l)) = Len(l) - 1
           /\ \A x \in Handlers : Has(Tail(l), x) <=> x # l[1].h /\ Has(l, x)
<1> DEFINE n == Len(l)
           v == Tail(l)
           h == l[1].h
           d == l[1].t
           q == [Less(r, d) EXCEPT ![h] = None]
<1>1. l \in Seq(Entry) /\ n \in Nat /\ 1 \in 1 .. n  BY DEF ListOK
<1>2. \A i \in 1 .. n : l[i] \in Entry /\ l[i].h \in Handlers /\ l[i].t \in Nat /\ r[l[i].h] \in Nat
                        /\ r[l[i].h] # None
  BY EntryIs
<1>3. \A i, j \in 1 .. n : l[i].h = l[j].h => i = j  BY DEF ListOK, Single
<1>4. v \in Seq(Entry) /\ Len(v) = n - 1 /\ \A i \in 1 .. n - 1 : v[i] = l[i + 1] /\ i + 1 \in 1 .. n
  BY <1>1
<1>5. h \in Handlers /\ d \in 0 .. l[1].t /\ d \in Nat /\ r[h] = d
  <2>1. h \in Handlers /\ d \in Nat /\ r[h] \in Nat  BY <1>1, <1>2
  <2>2. d = r[h] - 0  BY <1>1 DEF ListOK, Deltas
  <2> QED BY <2>1, <2>2
<1> HIDE DEF v, n, d
<1>6. /\ Less(r, d) \in [Handlers -> Int]
      /\ \A x \in Handlers : /\ r[x] = None => Less(r, d)[x] = None
                             /\ r[x] # None => /\ Less(r, d)[x] = r[x] - d
                                               /\ Less(r, d)[x] \in 0 .. Interval[x]
                                               /\ Less(r, d)[x] # None
  BY <1>5, LessIs
<1> HIDE DEF h
<1>7. q \in [Handlers -> Int] /\ q[h] = None /\ \A x \in Handlers : x # h => q[x] = Less(r, d)[x]
  BY <1>5, <1>6 DEF None
<1> HIDE DEF q
<1>8. \A i \in 1 .. n : i # 1 => l[i].h # h /\ q[l[i].h] = r[l[i].h] - d
  <2> SUFFICES ASSUME NEW i \in 1 .. n, i # 1 PROVE l[i].h # h /\ q[l[i].h] = r[l[i].h] - d
    OBVIOUS
  <2>1. l[i].h # h  BY <1>1, <1>3 DEF h
  <2> QED BY <1>2, <1>6, <1>7, <2>1
<1>9. Single(v)
  <2> SUFFICES ASSUME NEW i \in 1 .. n - 1, NEW j \in 1 .. n - 1, v[i].h = v[j].h PROVE i = j
    BY <1>4 DEF Single
  <2>1. i + 1 = j + 1  BY <1>3, <1>4
  <2> QED BY <2>1
<1>10. Deltas(v, q)
  <2> SUFFICES ASSUME NEW i \in 1 .. n - 1
               PROVE  v[i].t \in Nat /\ v[i].t = q[v[i].h] - (IF i = 1 THEN 0 ELSE q[v[i - 1].h])
    BY <1>4 DEF Deltas
  <2> DEFINE j == i + 1
  <2>1. v[i] = l[j] /\ j \in 1 .. n /\ j # 1 /\ j - 1 = i /\ i \in 1 .. n  BY <1>1, <1>4
  <2> HIDE DEF j
  <2>2. l[j].t = r[l[j].h] - r[l[i].h] /\ l[j].t \in Nat  BY <2>1 DEF ListOK, Deltas, n
  <2>3. q[v[i].h] = r[l[j].h] - d  BY <1>8, <2>1
  <2>4. r[l[i].h] \in Nat /\ r[l[j].h] \in Nat  BY <1>2, <2>1
  <2>5. CASE i = 1
    <3>1. r[l[i].h] = d  BY <1>5, <2>5 DEF h
    <3> QED BY <2>1, <2>2, <2>3, <2>5, <3>1
  <2>6. CASE i # 1
    <3>1. i - 1 \in 1 .. n - 1 /\ i - 1 + 1 = i  BY <1>1, <2>6
    <3>2. v[i - 1] = l[i]  BY <1>4, <3>1
    <3>3. q[v[i - 1].h] = r[l[i].h] - d  BY <1>8, <2>1, <2>6, <3>2
    <3> QED BY <1>5, <2>1, <2>2, <2>3, <2>4, <2>6, <3>3
  <2> QED BY <2>5, <2>6
<1>11. ASSUME NEW x \in Handlers PROVE Has(v, x) <=> x # h /\ Has(l, x)
  <2>1. ASSUME Has(v, x) PROVE x # h /\ Has(l, x)
    <3>1. PICK i \in 1 .. n - 1 : v[i].h = x  BY <1>4, <2>1 DEF Has
    <3>2. i + 1 \in 1 .. n /\ l[i + 1].h = x /\ i + 1 # 1  BY <1>4, <3>1
    <3> QED BY <1>8, <3>2 DEF Has, n
  <2>2. ASSUME x # h, Has(l, x) PROVE Has(v, x)
    <3>1. PICK j \in 1 .. n : l[j].h = x  BY <2>2 DEF Has, n
    <3>2. j # 1  BY <2>2, <3>1 DEF h
    <3>3. j - 1 \in 1 .. n - 1 /\ j - 1 + 1 = j  BY <1>1, <3>2
    <3>4. v[j - 1] = l[j]  BY <1>4, <3>3
    <3> QED BY <1>4, <3>1, <3>3, <3>4 DEF Has
  <2> QED BY <2>1, <2>2
<1>12. ListOK(v, q)
  <2>1. ASSUME NEW x \in Handlers
        PROVE  (q[x] = None \/ q[x] \in 0 .. Interval[x]) /\ (q[x] # None <=> Has(v, x))
    <3>1. CASE x = h  BY <1>7, <1>11, <3>1
    <3>2. CASE x # h  BY <1>6, <1>7, <1>11, <3>2 DEF ListOK
    <3> QED BY <3>1, <3>2
  <2> QED BY <1>4, <1>7, <1>9, <1>10, <2>1 DEF ListOK
<1> QED BY <1>4, <1>11, <1>12 DEF v, q, h, n, d

-----------------------------------------------------------------------------
(* What the theorem is stated under: an entry of the pool for every        *)
(* handler (8 for the 5 periodic ones and TCP in this build), and no       *)
(* interval of more ticks than a u16_t holds (the longest has 12000).      *)
Fits ==
    /\ PoolSize >= Len(Periodic) + 1 + Cardinality(App)
    /\ \A h \in Handlers : Interval[h] * OS_TICKS_PER_SEC < U16 * MsPerSec

(* The periodic handlers are the entries of a sequence that is not empty.  *)
LEMMA PeriodicIs ==
    /\ Periodic \in Seq(PeriodicSet) /\ Len(Periodic) \in Nat \ {0}
    /\ \A i \in 1 .. Len(Periodic) : Periodic[i] \in PeriodicSet /\ Periodic[i] \in Handlers
    /\ \A h \in PeriodicSet : \E i \in 1 .. Len(Periodic) : Periodic[i] = h
<1>1. Periodic \in Seq(PeriodicSet) /\ Periodic # <<>>  BY TimersAssumption
<1>2. Len(Periodic) \in Nat \ {0}  BY <1>1
<1> QED BY <1>1, <1>2 DEF PeriodicSet, Handlers

(* There is a pool entry for every handler.                                *)
LEMMA HandlersCount ==
    ASSUME Fits
    PROVE  IsFiniteSet(Handlers) /\ Cardinality(Handlers) <= PoolSize /\ Cardinality(Handlers) \in Nat
<1> DEFINE N == Len(Periodic)
           S == PeriodicSet
           U == PeriodicSet \cup {Tcp}
<1>1. N \in Nat /\ Periodic \in [1 .. N -> S] /\ \A h \in S : \E i \in 1 .. N : Periodic[i] = h
  BY PeriodicIs
<1>2. IsFiniteSet(1 .. N) /\ Cardinality(1 .. N) = N
  <2>1. IsFiniteSet(1 .. N) /\ Cardinality(1 .. N) = IF 1 > N THEN 0 ELSE N - 1 + 1  BY <1>1, FS_Interval
  <2> QED BY <1>1, <2>1
<1>3. Periodic \in Surjection(1 .. N, S)  BY <1>1, Fun_IsSurj
<1>4. IsFiniteSet(S) /\ Cardinality(S) <= N
  <2> HIDE DEF N, S
  <2> QED BY <1>2, <1>3, FS_Surjection
<1>5. IsFiniteSet(U) /\ Cardinality(U) = IF Tcp \in S THEN Cardinality(S) ELSE Cardinality(S) + 1
  BY <1>4, FS_AddElement
<1>6. IsFiniteSet(App)  BY TimersAssumption
<1> HIDE DEF N, S, U
<1>7. IsFiniteSet(U \cup App) /\ Cardinality(U \cup App) = Cardinality(U) + Cardinality(App) - Cardinality(U \cap App)
  BY <1>5, <1>6, FS_Union
<1>8. IsFiniteSet(U \cap App)  BY <1>5, FS_Subset
<1>9. /\ Cardinality(S) \in Nat /\ Cardinality(U) \in Nat /\ Cardinality(App) \in Nat
      /\ Cardinality(U \cap App) \in Nat /\ Cardinality(U \cup App) \in Nat
  BY <1>4, <1>5, <1>6, <1>7, <1>8, FS_CardinalityType
<1>10. PoolSize >= N + 1 + Cardinality(App) /\ PoolSize \in Nat  BY TimersAssumption DEF Fits, N
<1>11. Cardinality(U \cup App) <= PoolSize  BY <1>1, <1>4, <1>5, <1>7, <1>9, <1>10
<1> QED BY <1>7, <1>9, <1>11 DEF U, S, Handlers

(* A handler that is not in the list finds a free entry.                   *)
LEMMA RoomFor ==
    ASSUME Fits, NEW l, NEW r, ListOK(l, r), NEW h \in Handlers, ~Has(l, h)
    PROVE  Len(l) < PoolSize
<1> DEFINE n == Len(l)
           S == Handlers \ {h}
           f == [i \in 1 .. n |-> l[i].h]
<1>1. n \in Nat /\ \A i \in 1 .. n : l[i].h \in S  BY EntryIs
<1>2. f \in [1 .. n -> S] /\ \A i, j \in 1 .. n : f[i] = f[j] => i = j  BY <1>1 DEF ListOK, Single
<1>3. f \in Injection(1 .. n, S)
  <2> HIDE DEF f, S, n
  <2> QED BY <1>2, Fun_IsInj
<1>4. Cardinality(1 .. n) = n
  <2>1. Cardinality(1 .. n) = IF 1 > n THEN 0 ELSE n - 1 + 1  BY <1>1, FS_Interval
  <2> QED BY <1>1, <2>1
<1>5. IsFiniteSet(Handlers) /\ Cardinality(Handlers) <= PoolSize /\ Cardinality(Handlers) \in Nat
  BY HandlersCount
<1>6. IsFiniteSet(S) /\ Cardinality(S) = Cardinality(Handlers) - 1  BY <1>5, FS_RemoveElement
<1>7. n <= Cardinality(S)
  <2> HIDE DEF f, S, n
  <2> QED BY <1>3, <1>4, <1>6, FS_Injection
<1>8. PoolSize \in Nat  BY TimersAssumption
<1> QED BY <1>1, <1>5, <1>6, <1>7, <1>8

-----------------------------------------------------------------------------
(* The list that sys_timeouts_init builds.                                 *)
Given(n) ==
    [h \in Handlers |-> IF \E i \in 1 .. n : Periodic[i] = h THEN Interval[h] ELSE None]
Built(l, n) == ListOK(l, Given(n)) /\ Len(l) = n

(* The list before the first of the periodic handlers is put in.           *)
LEMMA BuiltFirst == Built(<<>>, 0)
<1>1. Given(0) \in [Handlers -> Int] /\ \A h \in Handlers : Given(0)[h] = None  BY DEF Given, None
<1>2. <<>> \in Seq(Entry) /\ Len(<<>>) = 0  OBVIOUS
<1>3. Single(<<>>) /\ Deltas(<<>>, Given(0)) /\ \A h : ~Has(<<>>, h)  BY DEF Single, Deltas, Has
<1> QED BY <1>1, <1>2, <1>3 DEF Built, ListOK

(* The next of the periodic handlers is put in.                            *)
LEMMA BuiltNext ==
    ASSUME NEW n \in 1 .. Len(Periodic), NEW l, Built(l, n - 1)
    PROVE  Built(Inserted(l, Periodic[n]), n)
<1> DEFINE h == Periodic[n]
<1>1. h \in Handlers /\ Len(Periodic) \in Nat  BY PeriodicIs
<1>2. \A i \in 1 .. n - 1 : Periodic[i] # h
  <2>1. \A i \in 1 .. n - 1 : i \in 1 .. Len(Periodic) /\ i # n  BY <1>1
  <2> QED BY <2>1, TimersAssumption
<1>3. Given(n - 1)[h] = None  BY <1>1, <1>2 DEF Given
<1>4. ListOK(l, Given(n - 1)) /\ Len(l) = n - 1  BY DEF Built
<1>5. ~Has(l, h)  BY <1>1, <1>3, <1>4 DEF ListOK
<1>6. Given(n) = [Given(n - 1) EXCEPT ![h] = Interval[h]]
  <2>1. n \in 1 .. n /\ \A i \in 1 .. n : i = n \/ i \in 1 .. n - 1  BY <1>1
  <2>2. \A i \in 1 .. n - 1 : i \in 1 .. n  BY <1>1
  <2>3. \A x \in Handlers : x # h =>
           ((\E i \in 1 .. n : Periodic[i] = x) <=> (\E i \in 1 .. n - 1 : Periodic[i] = x))
    BY <2>1, <2>2
  <2>4. \E i \in 1 .. n : Periodic[i] = h  BY <2>1
  <2> QED BY <1>1, <2>3, <2>4 DEF Given
<1> HIDE DEF h
<1>7. ListOK(Inserted(l, h), Given(n)) /\ Len(Inserted(l, h)) = n - 1 + 1  BY <1>1, <1>4, <1>5, <1>6, InsertOK
<1>8. n - 1 + 1 = n  BY <1>1
<1> QED BY <1>7, <1>8 DEF Built, h

(* All periodic handlers, one after the other.                             *)
LEMMA BuiltAll ==
    ASSUME NEW f, f[0] = <<>>,
           \A n \in 1 .. Len(Periodic) : Built(f[n - 1], n - 1) => f[n] = Inserted(f[n - 1], Periodic[n])
    PROVE  \A n \in 0 .. Len(Periodic) : Built(f[n], n)
<1> DEFINE N == Len(Periodic)
           P == {n \in Nat : n <= N => Built(f[n], n)}
<1>1. N \in Nat  BY PeriodicIs
<1>2. 0 \in P  BY BuiltFirst
<1>3. ASSUME NEW n \in 1 .. N, n - 1 \in P PROVE n \in P
  <2>1. n - 1 <= N /\ n \in Nat  BY <1>1
  <2>2. Built(f[n - 1], n - 1)  BY <1>3, <2>1
  <2>3. Built(f[n], n)  BY <2>2, BuiltNext
  <2> QED BY <2>1, <2>3
<1> HIDE DEF P
<1>4. P \in SUBSET Nat  BY DEF P
<1>5. \A n \in 0 .. N : n \in P  BY <1>1, <1>2, <1>3, <1>4, UpTo
<1> QED BY <1>1, <1>5 DEF P

(* The list that sys_timeouts_init leaves.                                 *)
LEMMA InitList == Built(sys_timeouts_init, Len(Periodic))
<1> DEFINE N == Len(Periodic)
           X == Seq(Entry)
           New(l, n) == Inserted(l, Periodic[n])
           D == [p \in X \X (1 .. N) |-> IF New(p[1], p[2]) \in X THEN New(p[1], p[2]) ELSE <<>>]
           l[i \in 0 .. N] == IF i = 0 THEN <<>> ELSE Inserted(l[i - 1], Periodic[i])
<1>1. N \in Nat /\ <<>> \in X  BY PeriodicIs
<1>2. D \in [X \X (1 .. N) -> X]
  <2> HIDE DEF New, X
  <2> QED BY <1>1
<1>3. PICK g : Solves(g, X, <<>>, N, D)
  <2> HIDE DEF D, N, X
  <2> QED BY <1>1, <1>2, Recursion
<1>4. g \in [0 .. N -> X] /\ g[0] = <<>> /\ \A n \in 1 .. N : g[n] = D[<<g[n - 1], n>>]
  BY <1>3 DEF Solves
<1>5. ASSUME NEW n \in 1 .. N, Built(g[n - 1], n - 1) PROVE g[n] = Inserted(g[n - 1], Periodic[n])
  <2>1. n - 1 \in 0 .. N  BY <1>1
  <2>2. <<g[n - 1], n>> \in X \X (1 .. N)  BY <1>4, <2>1
  <2>3. Built(New(g[n - 1], n), n)  BY <1>5, BuiltNext
  <2>4. New(g[n - 1], n) \in X  BY <2>3 DEF Built, ListOK
  <2> HIDE DEF New, X
  <2>5. g[n] = New(g[n - 1], n)  BY <1>4, <2>2, <2>4
  <2> QED BY <2>5 DEF New
<1>6. \A n \in 0 .. N : Built(g[n], n)  BY <1>4, <1>5, BuiltAll
<1>7. \A n \in 1 .. N : n - 1 \in 0 .. N  BY <1>1
<1>8. \A n \in 1 .. N : g[n] = Inserted(g[n - 1], Periodic[n])  BY <1>5, <1>6, <1>7
<1> HIDE DEF N
<1>9. g = [i \in 0 .. N |-> IF i = 0 THEN <<>> ELSE Inserted(g[i - 1], Periodic[i])]
  <2>1. \A i \in 0 .. N : g[i] = IF i = 0 THEN <<>> ELSE Inserted(g[i - 1], Periodic[i])
    <3>1. \A i \in 0 .. N : i # 0 => i \in 1 .. N  BY <1>1
    <3> QED BY <1>4, <1>8, <3>1
  <2>2. g = [i \in 0 .. N |-> g[i]]  BY <1>4
  <2> QED BY <2>1, <2>2
<1>10. l = [i \in 0 .. N |-> IF i = 0 THEN <<>> ELSE Inserted(l[i - 1], Periodic[i])]  BY <1>9
<1>11. sys_timeouts_init = l[N]  BY DEF sys_timeouts_init, N
<1> HIDE DEF l
<1>12. l[0] = <<>> /\ \A n \in 1 .. N : l[n] = Inserted(l[n - 1], Periodic[n])
  <2>1. 0 \in 0 .. N /\ \A n \in 1 .. N : n \in 0 .. N /\ n # 0  BY <1>1
  <2> QED BY <1>10, <2>1
<1>13. \A n \in 0 .. N : Built(l[n], n)  BY <1>12, BuiltAll DEF N
<1>14. N \in 0 .. N  BY <1>1
<1> QED BY <1>11, <1>13, <1>14 DEF N

-----------------------------------------------------------------------------
(* The inductive invariant.  Of the list: it is in order, with the free    *)
(* entries it is the pool, and it has every handler the stack relies on.   *)
ListInv ==
    /\ ListOK(next_timeout, rem) /\ free \in Nat /\ free + Len(next_timeout) = PoolSize
    /\ \A h \in PeriodicSet : Has(next_timeout, h)
    /\ tcpip_tcp_timer_active \in 0 .. 1 /\ pcbs \in 0 .. 1 /\ TcpTimerRuns

(* Of the wait: OSQPend is given a number of ticks it can count, and so    *)
(* many may still come as the bound allows.                                *)
WaitInv ==
    /\ OSTime \in 0 .. U32 - 1 /\ start \in 0 .. U32 - 1
    /\ mbox \in 0 .. MboxSize /\ left \in 0 .. U16 - 1 /\ time_needed \in 0 .. U32
    /\ pc \in {"again", "pend", "wait", "timedout", "got", "handle"}
    /\ waited \in 0 .. MaxWaited + U16
    /\ pc = "pend" => left >= 1 /\ waited <= MaxWaited
    /\ pc = "wait" => left >= 1 /\ waited + left <= MaxWaited + U16 - 1

(* sys_timeout finds a free entry for a handler that is not listed.        *)
LEMMA SysTimeout ==
    ASSUME Fits, NEW l, NEW r, ListOK(l, r), NEW f \in Nat, f + Len(l) = PoolSize,
           NEW h \in Handlers, ~Has(l, h), sys_timeout(l, f, r, h)
    PROVE  /\ ListOK(next_timeout', rem') /\ free' \in Nat /\ free' + Len(next_timeout') = PoolSize
           /\ \A x \in Handlers : Has(next_timeout', x) <=> x = h \/ Has(l, x)
<1>1. Len(l) \in Nat /\ Len(l) < PoolSize /\ PoolSize \in Nat
  BY RoomFor, EntryIs, TimersAssumption
<1>2. f # 0  BY <1>1
<1>3. next_timeout' = Inserted(l, h) /\ free' = f - 1 /\ rem' = [r EXCEPT ![h] = Interval[h]]
  BY <1>2 DEF sys_timeout
<1> DEFINE v == Inserted(l, h)
<1>4. /\ ListOK(v, [r EXCEPT ![h] = Interval[h]]) /\ Len(v) = Len(l) + 1
      /\ \A x \in Handlers : Has(v, x) <=> x = h \/ Has(l, x)
  BY InsertOK
<1> HIDE DEF v
<1>5. f - 1 \in Nat /\ (f - 1) + (Len(l) + 1) = PoolSize  BY <1>1, <1>2
<1> QED BY <1>3, <1>4, <1>5 DEF v

(* The three kinds of handlers.                                            *)
LEMMA Kinds ==
    /\ Tcp \in Handlers /\ PeriodicSet \subseteq Handlers /\ App \subseteq Handlers
    /\ Tcp \notin PeriodicSet /\ Tcp \notin App
    /\ \A h \in App : h \notin PeriodicSet /\ h # Tcp
BY TimersAssumption DEF Handlers

(* The list has a first entry: there is a periodic handler.                *)
LEMMA NeverEmpty ==
    ASSUME ListInv
    PROVE  /\ next_timeout # <<>> /\ next_timeout \in Seq(Entry) /\ Len(next_timeout) \in Nat
           /\ Head(next_timeout) = next_timeout[1] /\ 1 \in 1 .. Len(next_timeout)
<1>1. next_timeout \in Seq(Entry) /\ Len(next_timeout) \in Nat  BY DEF ListInv, ListOK
<1>2. PICK h \in PeriodicSet : TRUE  BY PeriodicIs
<1>3. Has(next_timeout, h)  BY DEF ListInv
<1>4. 1 \in 1 .. Len(next_timeout)  BY <1>1, <1>3 DEF Has
<1> QED BY <1>1, <1>4

(* The first timeout expires and its handler runs.                         *)
LEMMA ExpireList ==
    ASSUME Fits, ListInv, Expire
    PROVE  ListInv'
<1> DEFINE h == next_timeout[1].h
           d == next_timeout[1].t
           l == Tail(next_timeout)
           r == [Less(rem, d) EXCEPT ![h] = None]
           f == free + 1
<1>1. next_timeout # <<>> /\ Head(next_timeout) = next_timeout[1] /\ Len(next_timeout) \in Nat
      /\ 1 \in 1 .. Len(next_timeout)
  BY NeverEmpty
<1>2. ListOK(next_timeout, rem)  BY DEF ListInv
<1>3. h \in Handlers /\ Has(next_timeout, h)  BY <1>1, <1>2, EntryIs
<1>4. /\ ListOK(l, r) /\ Len(l) = Len(next_timeout) - 1
      /\ \A x \in Handlers : Has(l, x) <=> x # h /\ Has(next_timeout, x)
  BY <1>1, <1>2, ExpireOK
<1>5. f \in Nat /\ f + Len(l) = PoolSize  BY <1>1, <1>4 DEF ListInv
<1>6. Passed(d) = Less(rem, d)  BY DEF Passed, Less
<1>7. Handler(h, l, f, r)  BY <1>1, <1>6 DEF Expire
<1> HIDE DEF h, d, l, r, f
<1>8. ~Has(l, h)  BY <1>3, <1>4
<1>9. CASE h = Tcp /\ tcpip_tcp_timer(l, f, r)
  <2>1. /\ tcpip_tcp_timer_active = 1 /\ pcbs \in 0 .. 1
        /\ \A x \in PeriodicSet : x \in Handlers /\ x # Tcp /\ Has(next_timeout, x)
    BY <1>3, <1>9, Kinds DEF ListInv, TcpTimerRuns
  <2>2. CASE pcbs' = 1 /\ sys_timeout(l, f, r, Tcp) /\ UNCHANGED tcpip_tcp_timer_active
    <3>1. /\ ListOK(next_timeout', rem') /\ free' \in Nat /\ free' + Len(next_timeout') = PoolSize
          /\ \A x \in Handlers : Has(next_timeout', x) <=> x = Tcp \/ Has(l, x)
      BY <1>3, <1>4, <1>5, <1>8, <1>9, <2>2, SysTimeout
    <3>2. \A x \in PeriodicSet : Has(next_timeout', x)  BY <1>4, <1>9, <2>1, <3>1
    <3>3. Has(next_timeout', Tcp)  BY <3>1, Kinds
    <3> QED BY <2>1, <2>2, <3>1, <3>2, <3>3 DEF ListInv, TcpTimerRuns
  <2>3. CASE pcbs' = 0 /\ tcpip_tcp_timer_active' = 0 /\ next_timeout' = l /\ free' = f /\ rem' = r
    <3>1. \A x \in PeriodicSet : Has(l, x)  BY <1>4, <1>9, <2>1
    <3> QED BY <1>4, <1>5, <1>8, <1>9, <2>3, <3>1 DEF ListInv, TcpTimerRuns
  <2> QED BY <1>9, <2>2, <2>3 DEF tcpip_tcp_timer
<1>10. CASE h \in PeriodicSet /\ sys_timeout(l, f, r, h) /\ UNCHANGED <<tcpip_tcp_timer_active, pcbs>>
  <2>1. /\ ListOK(next_timeout', rem') /\ free' \in Nat /\ free' + Len(next_timeout') = PoolSize
        /\ \A x \in Handlers : Has(next_timeout', x) <=> x = h \/ Has(l, x)
    BY <1>3, <1>4, <1>5, <1>8, <1>10, SysTimeout
  <2>2. h # Tcp  BY <1>10, Kinds
  <2>3. \A x \in Handlers : Has(next_timeout', x) <=> Has(next_timeout, x)  BY <1>3, <1>4, <2>1
  <2> QED BY <1>10, <2>1, <2>3, Kinds DEF ListInv, TcpTimerRuns
<1>11. CASE /\ h \in App /\ next_timeout' = l /\ free' = f /\ rem' = r
            /\ UNCHANGED <<tcpip_tcp_timer_active, pcbs>>
  <2>1. \A x \in PeriodicSet : x \in Handlers /\ x # h  BY <1>11, Kinds
  <2>2. Tcp \in Handlers /\ Tcp # h  BY <1>11, Kinds
  <2>3. \A x \in PeriodicSet : Has(l, x)  BY <1>4, <2>1 DEF ListInv
  <2>4. Has(l, Tcp) <=> Has(next_timeout, Tcp)  BY <1>4, <2>2
  <2> QED BY <1>4, <1>5, <1>11, <2>3, <2>4 DEF ListInv, TcpTimerRuns
<1> QED BY <1>7, <1>9, <1>10, <1>11 DEF Handler


-----------------------------------------------------------------------------
(* The times of the port.                                                  *)
LEMMA Product ==
    ASSUME NEW a \in Nat, NEW b \in Nat, NEW c \in Nat, a <= b
    PROVE  a * c <= b * c /\ a * c \in Nat /\ b * c \in Nat /\ a * c = c * a
<1>1. b - a \in Nat  OBVIOUS
<1>2. (b - a) * c \in Nat /\ (b - a) * c = b * c - a * c  BY <1>1
<1> QED BY <1>2

(* Quotients and remainders.                                               *)
LEMMA DivMod ==
    ASSUME NEW x \in Nat, NEW m \in Nat \ {0}
    PROVE  /\ x % m \in 0 .. m - 1 /\ x % m <= x
           /\ x \div m \in Nat /\ m * (x \div m) <= x /\ x \div m <= x
<1>1. x % m \in 0 .. m - 1  OBVIOUS
<1>2. x % m <= x
  <2>1. CASE x < m
    <3>1. x % m = x  BY <2>1
    <3> QED BY <3>1
  <2>2. CASE x >= m  BY <1>1, <2>2
  <2> QED BY <2>1, <2>2
<1> DEFINE q == x \div m
<1>3. q \in Nat /\ m * q <= x  OBVIOUS
<1> HIDE DEF q
<1>4. 1 * q <= m * q /\ m * q \in Nat /\ 1 * q = q  BY <1>3, Product
<1>5. q <= x  BY <1>3, <1>4
<1> QED BY <1>1, <1>2, <1>3, <1>5 DEF q

(* What OSQPend is asked to wait is at least a tick and can be counted.    *)
LEMMA TicksIs ==
    ASSUME Fits, NEW h \in Handlers, NEW ms \in 1 .. Interval[h]
    PROVE  Ticks(ms) \in 1 .. U16 - 1
<1> DEFINE x == ms * OS_TICKS_PER_SEC
           y == x % U32
           n == y \div MsPerSec
           m == IF n < 1 THEN 1 ELSE n
<1>1. /\ Interval[h] \in Nat /\ OS_TICKS_PER_SEC \in Nat /\ MsPerSec \in Nat \ {0}
      /\ U32 \in Nat \ {0} /\ U16 \in Nat /\ U16 >= 2
  BY TimersAssumption
<1>2. ms \in Nat /\ ms # 0 /\ ms <= Interval[h]  BY <1>1
<1>3. x \in Nat /\ x <= Interval[h] * OS_TICKS_PER_SEC /\ Interval[h] * OS_TICKS_PER_SEC \in Nat
  BY <1>1, <1>2, Product
<1>4. Interval[h] * OS_TICKS_PER_SEC < U16 * MsPerSec /\ U16 * MsPerSec \in Nat  BY <1>1 DEF Fits
<1> HIDE DEF x
<1>5. y \in Nat /\ y <= x
  <2>1. y \in 0 .. U32 - 1 /\ y <= x  BY <1>1, <1>3, DivMod
  <2> QED BY <1>1, <2>1
<1> HIDE DEF y
<1>6. n \in Nat /\ MsPerSec * n <= y  BY <1>1, <1>5, DivMod
<1> HIDE DEF n
<1>7. n < U16
  <2>1. SUFFICES ASSUME U16 <= n PROVE FALSE  BY <1>1, <1>6
  <2>2. U16 * MsPerSec <= n * MsPerSec /\ n * MsPerSec = MsPerSec * n /\ n * MsPerSec \in Nat
    BY <1>1, <1>6, <2>1, Product
  <2> QED BY <1>3, <1>4, <1>5, <1>6, <2>2
<1>8. m \in 1 .. U16 - 1  BY <1>1, <1>6, <1>7
<1> HIDE DEF m
<1>9. m % U16 = m  BY <1>1, <1>8
<1> QED BY <1>2, <1>8, <1>9 DEF Ticks, m, n, y, x

(* What sys_arch_mbox_fetch returns is at least a millisecond.             *)
LEMMA WaitedIs ==
    ASSUME NEW old \in 0 .. U32 - 1, NEW new \in 0 .. U32 - 1
    PROVE  Waited(old, new) \in 1 .. U32
<1> DEFINE n == IF new > old THEN new - old ELSE U32 - 1 - old + new
           x == n * MsPerSec
           y == x % U32
           q == y \div OS_TICKS_PER_SEC
<1>1. U32 \in Nat \ {0} /\ MsPerSec \in Nat /\ OS_TICKS_PER_SEC \in Nat \ {0}  BY TimersAssumption
<1>2. n \in Nat  BY <1>1
<1> HIDE DEF n
<1>3. x \in Nat  BY <1>1, <1>2, Product
<1> HIDE DEF x
<1>4. y \in 0 .. U32 - 1  BY <1>1, <1>3, DivMod
<1> HIDE DEF y
<1>5. q \in Nat /\ q <= y  BY <1>1, <1>4, DivMod
<1> HIDE DEF q
<1>6. q + 1 \in 1 .. U32  BY <1>1, <1>4, <1>5
<1> QED BY <1>6 DEF Waited, q, y, x, n

-----------------------------------------------------------------------------
(* A message moves the first timeout nearer.                               *)
LEMMA GotList ==
    ASSUME ListInv, WaitInv, Got
    PROVE  ListInv'
<1> DEFINE n == Waited(start, OSTime)
           d == IF n < First THEN n ELSE First
           v == [next_timeout EXCEPT ![1] = [h |-> next_timeout[1].h, t |-> next_timeout[1].t - d]]
<1>1. next_timeout # <<>> /\ Head(next_timeout) = next_timeout[1] /\ Len(next_timeout) \in Nat
      /\ 1 \in 1 .. Len(next_timeout)
  BY NeverEmpty
<1>2. ListOK(next_timeout, rem)  BY DEF ListInv
<1>3. First = next_timeout[1].t /\ First \in Nat  BY <1>1, <1>2, EntryIs DEF First
<1>4. n \in Nat  BY WaitedIs DEF WaitInv
<1>5. next_timeout' = [next_timeout EXCEPT ![1] = [h |-> Head(next_timeout).h, t |-> First - d]]
      /\ rem' = Passed(d) /\ UNCHANGED <<free, tcpip_tcp_timer_active, pcbs>>
  BY <1>1 DEF Got
<1> HIDE DEF n
<1>6. d \in 0 .. next_timeout[1].t  BY <1>3, <1>4
<1> HIDE DEF d
<1>7. next_timeout' = v  BY <1>1, <1>3, <1>5
<1>8. /\ ListOK(v, Less(rem, d)) /\ Len(v) = Len(next_timeout)
      /\ \A x \in Handlers : Has(v, x) <=> Has(next_timeout, x)
  BY <1>1, <1>2, <1>6, LessOK
<1>9. rem' = Less(rem, d)  BY <1>5 DEF Passed, Less
<1> HIDE DEF v
<1>10. \A x \in PeriodicSet : Has(v, x)  BY <1>8, Kinds DEF ListInv
<1>11. Has(v, Tcp) <=> Has(next_timeout, Tcp)  BY <1>8, Kinds
<1> QED BY <1>5, <1>7, <1>8, <1>9, <1>10, <1>11 DEF ListInv, TcpTimerRuns

(* What a message does to the list.                                        *)
LEMMA MessageList ==
    ASSUME Fits, ListInv, Message
    PROVE  ListInv'
<1>1. /\ ListOK(next_timeout, rem) /\ free \in Nat /\ free + Len(next_timeout) = PoolSize
      /\ tcpip_tcp_timer_active \in 0 .. 1 /\ pcbs \in 0 .. 1
  BY DEF ListInv
<1>2. CASE UNCHANGED lst
  BY <1>2 DEF lst, ListInv, TcpTimerRuns, Has
<1>3. CASE pcbs' = 0 /\ UNCHANGED <<next_timeout, free, tcpip_tcp_timer_active, rem>>
  BY <1>3 DEF ListInv, TcpTimerRuns, Has
<1>4. CASE pcbs' = 1 /\ tcp_timer_needed
  <2>1. CASE tcpip_tcp_timer_active = 0
    <3>1. tcpip_tcp_timer_active' = 1 /\ sys_timeout(next_timeout, free, rem, Tcp)
      BY <1>4, <2>1 DEF tcp_timer_needed
    <3>2. ~Has(next_timeout, Tcp)  BY <2>1 DEF ListInv, TcpTimerRuns
    <3>3. /\ ListOK(next_timeout', rem') /\ free' \in Nat /\ free' + Len(next_timeout') = PoolSize
          /\ \A x \in Handlers : Has(next_timeout', x) <=> x = Tcp \/ Has(next_timeout, x)
      BY <1>1, <3>1, <3>2, Kinds, SysTimeout
    <3>4. \A x \in PeriodicSet : Has(next_timeout', x)  BY <3>3, Kinds DEF ListInv
    <3>5. Has(next_timeout', Tcp)  BY <3>3, Kinds
    <3> QED BY <1>4, <3>1, <3>3, <3>4, <3>5 DEF ListInv, TcpTimerRuns
  <2>2. CASE tcpip_tcp_timer_active = 1
    <3>1. UNCHANGED <<tcpip_tcp_timer_active, next_timeout, free, rem>>
      BY <1>4, <2>2 DEF tcp_timer_needed
    <3> QED BY <1>4, <2>2, <3>1 DEF ListInv, TcpTimerRuns, Has
  <2> QED BY <1>1, <2>1, <2>2
<1>5. ASSUME NEW h \in App, ~Has(next_timeout, h), sys_timeout(next_timeout, free, rem, h),
             UNCHANGED <<tcpip_tcp_timer_active, pcbs>>
      PROVE  ListInv'
  <2>1. h \in Handlers /\ h # Tcp  BY Kinds
  <2>2. /\ ListOK(next_timeout', rem') /\ free' \in Nat /\ free' + Len(next_timeout') = PoolSize
        /\ \A x \in Handlers : Has(next_timeout', x) <=> x = h \/ Has(next_timeout, x)
    BY <1>1, <1>5, <2>1, SysTimeout
  <2>3. \A x \in PeriodicSet : Has(next_timeout', x)  BY <2>2, Kinds DEF ListInv
  <2>4. Has(next_timeout', Tcp) <=> Has(next_timeout, Tcp)  BY <2>1, <2>2, Kinds
  <2> QED BY <1>1, <1>5, <2>2, <2>3, <2>4 DEF ListInv, TcpTimerRuns
<1>6. ASSUME NEW h \in App, sys_untimeout(h), UNCHANGED <<tcpip_tcp_timer_active, pcbs>>
      PROVE  ListInv'
  <2>1. h \in Handlers /\ h # Tcp /\ h \notin PeriodicSet  BY Kinds
  <2>2. CASE Has(next_timeout, h)
    <3> DEFINE k == CHOOSE i \in 1 .. Len(next_timeout) : next_timeout[i].h = h
               v == Removed(next_timeout, k)
    <3>1. k \in 1 .. Len(next_timeout) /\ next_timeout[k].h = h  BY <2>2 DEF Has
    <3>2. next_timeout' = v /\ free' = free + 1 /\ rem' = [rem EXCEPT ![h] = None]
      BY <1>6, <2>2 DEF sys_untimeout
    <3> HIDE DEF k
    <3>3. /\ ListOK(v, [rem EXCEPT ![h] = None]) /\ Len(v) = Len(next_timeout) - 1
          /\ \A x \in Handlers : Has(v, x) <=> x # h /\ Has(next_timeout, x)
      BY <1>1, <3>1, RemoveOK
    <3> HIDE DEF v
    <3>4. Len(next_timeout) \in Nat  BY NeverEmpty
    <3>5. \A x \in PeriodicSet : Has(v, x)  BY <2>1, <3>3, Kinds DEF ListInv
    <3>6. Has(v, Tcp) <=> Has(next_timeout, Tcp)  BY <2>1, <3>3, Kinds
    <3>7. free' \in Nat /\ free' + Len(v) = PoolSize  BY <1>1, <3>2, <3>3, <3>4
    <3> QED BY <1>1, <1>6, <3>2, <3>3, <3>5, <3>6, <3>7 DEF ListInv, TcpTimerRuns
  <2>3. CASE ~Has(next_timeout, h)
    <3>1. UNCHANGED <<next_timeout, free, rem>>  BY <1>6, <2>3 DEF sys_untimeout
    <3> QED BY <1>6, <3>1 DEF ListInv, TcpTimerRuns, Has
  <2> QED BY <2>2, <2>3
<1> QED BY <1>2, <1>3, <1>4, <1>5, <1>6 DEF Message

-----------------------------------------------------------------------------
(* The steps of the thread, of the other tasks and of the clock.           *)

(* An expiry leaves the clock and the mailbox alone.                       *)
LEMMA ExpireWait ==
    ASSUME WaitInv, Expire
    PROVE  WaitInv'
<1>1. U32 \in Nat \ {0} /\ U16 \in Nat \ {0}  BY TimersAssumption
<1>2. pc' = "again" /\ start' = 0 /\ left' = 0 /\ UNCHANGED <<OSTime, mbox, time_needed, waited>>
  BY DEF Expire
<1> QED BY <1>1, <1>2 DEF WaitInv

(* The thread is about to wait for the first timeout.                      *)
LEMMA AgainWaitInv ==
    ASSUME Fits, ListInv, WaitInv, AgainWait
    PROVE  ListInv' /\ WaitInv'
<1>1. ListInv'  BY DEF AgainWait, lst, ListInv, TcpTimerRuns, Has
<1>2. /\ next_timeout # <<>> /\ Head(next_timeout) = next_timeout[1]
      /\ 1 \in 1 .. Len(next_timeout)
  BY NeverEmpty
<1> DEFINE h == next_timeout[1].h
<1>3. ListOK(next_timeout, rem)  BY DEF ListInv
<1>4. First = next_timeout[1].t /\ First \in Nat /\ h \in Handlers /\ rem[h] \in 0 .. Interval[h]
  BY <1>2, <1>3, EntryIs DEF First
<1>5. First <= rem[h]  BY <1>2, <1>3, <1>4, FirstLeast
<1>6. First > 0  BY <1>2 DEF AgainWait
<1>7. Interval[h] \in Nat  BY <1>4, TimersAssumption
<1> HIDE DEF h
<1>8. First \in 1 .. Interval[h]  BY <1>4, <1>5, <1>6, <1>7
<1>9. Ticks(First) \in 1 .. U16 - 1  BY <1>4, <1>8, TicksIs
<1>10. left' \in 1 .. U16 - 1 /\ waited' = 0 /\ pc' = "pend" /\ start' = OSTime
       /\ UNCHANGED <<OSTime, mbox, time_needed>>
  BY <1>9 DEF AgainWait
<1>11. MaxWaited \in Nat /\ U16 \in Nat  BY TimersAssumption
<1>12. WaitInv'  BY <1>10, <1>11 DEF WaitInv
<1> QED BY <1>1, <1>12

(* It takes a message or waits.                                            *)
LEMMA PendInv ==
    ASSUME ListInv, WaitInv, OSQPend
    PROVE  ListInv' /\ WaitInv'
<1>1. ListInv'  BY DEF OSQPend, lst, ListInv, TcpTimerRuns, Has
<1>2. pc = "pend" /\ UNCHANGED <<OSTime, start, left, time_needed, waited>>  BY DEF OSQPend
<1>3. MaxWaited \in Nat /\ U16 \in Nat /\ MboxSize \in Nat  BY TimersAssumption
<1>4. left \in 1 .. U16 - 1 /\ waited \in 0 .. MaxWaited  BY <1>2, <1>3 DEF WaitInv
<1>5. CASE mbox > 0 /\ mbox' = mbox - 1 /\ pc' = "got"  BY <1>1, <1>2, <1>3, <1>5 DEF WaitInv
<1>6. CASE mbox = 0 /\ pc' = "wait" /\ UNCHANGED mbox
  <2>1. waited + left <= MaxWaited + U16 - 1  BY <1>3, <1>4
  <2>2. WaitInv'  BY <1>2, <1>4, <1>6, <2>1 DEF WaitInv
  <2> QED BY <1>1, <2>2
<1> QED BY <1>5, <1>6 DEF OSQPend

(* A message has ended the wait.                                           *)
LEMMA GotWait ==
    ASSUME WaitInv, Got
    PROVE  WaitInv'
<1>1. Waited(start, OSTime) \in 1 .. U32  BY WaitedIs DEF WaitInv
<1>2. /\ time_needed' = Waited(start, OSTime) /\ pc' = "handle" /\ start' = 0 /\ left' = 0
      /\ UNCHANGED <<OSTime, mbox, waited>>
  BY DEF Got
<1>3. U32 \in Nat \ {0} /\ U16 \in Nat \ {0}  BY TimersAssumption
<1> QED BY <1>1, <1>2, <1>3 DEF WaitInv

(* The message is handled.                                                 *)
LEMMA MessageWait ==
    ASSUME WaitInv, Message
    PROVE  WaitInv'
<1>1. pc' = "again" /\ time_needed' = 0 /\ UNCHANGED <<OSTime, mbox, start, left, waited>>
  BY DEF Message
<1>2. U32 \in Nat \ {0}  BY TimersAssumption
<1> QED BY <1>1, <1>2 DEF WaitInv

(* A message arrives.                                                      *)
LEMMA PostInv ==
    ASSUME ListInv, WaitInv, Post
    PROVE  ListInv' /\ WaitInv'
<1>1. ListInv'  BY DEF Post, lst, ListInv, TcpTimerRuns, Has
<1>2. UNCHANGED <<OSTime, start, left, time_needed, waited>>  BY DEF Post
<1>3. MboxSize \in Nat  BY TimersAssumption
<1>4. CASE pc = "wait" /\ pc' = "got" /\ UNCHANGED mbox  BY <1>1, <1>2, <1>4 DEF WaitInv
<1>5. CASE pc # "wait" /\ mbox < MboxSize /\ mbox' = mbox + 1 /\ UNCHANGED pc
  BY <1>1, <1>2, <1>3, <1>5 DEF WaitInv
<1> QED BY <1>4, <1>5 DEF Post

(* A tick: the wait ends with the last one of it.                          *)
LEMMA TickInv ==
    ASSUME ListInv, WaitInv, Tick
    PROVE  ListInv' /\ WaitInv'
<1>1. ListInv'  BY DEF Tick, lst, ListInv, TcpTimerRuns, Has
<1>2. /\ pc # "wait" => waited < MaxWaited
      /\ waited' = waited + 1 /\ OSTime' = (OSTime + 1) % U32
      /\ UNCHANGED <<mbox, start, time_needed>>
  BY DEF Tick
<1>3. MaxWaited \in Nat /\ U16 \in Nat \ {0} /\ U32 \in Nat \ {0}  BY TimersAssumption
<1>4. OSTime' \in 0 .. U32 - 1
  <2>1. OSTime + 1 \in Nat  BY <1>3 DEF WaitInv
  <2> QED BY <1>2, <1>3, <2>1, DivMod
<1>5. waited \in Nat /\ left \in 0 .. U16 - 1  BY <1>3 DEF WaitInv
<1>6. CASE pc = "wait" /\ left > 1 /\ left' = left - 1 /\ UNCHANGED pc
  <2>1. waited + left <= MaxWaited + U16 - 1  BY <1>6 DEF WaitInv
  <2>2. waited' \in 0 .. MaxWaited + U16 /\ left' \in 1 .. U16 - 1
        /\ waited' + left' <= MaxWaited + U16 - 1
    BY <1>2, <1>3, <1>5, <1>6, <2>1
  <2> QED BY <1>1, <1>2, <1>3, <1>4, <1>6, <2>2 DEF WaitInv
<1>7. CASE pc = "wait" /\ left = 1 /\ left' = 0 /\ pc' = "timedout"
  <2>1. waited + left <= MaxWaited + U16 - 1  BY <1>7 DEF WaitInv
  <2>2. waited' \in 0 .. MaxWaited + U16  BY <1>2, <1>3, <1>5, <1>7, <2>1
  <2> QED BY <1>1, <1>2, <1>3, <1>4, <1>7, <2>2 DEF WaitInv
<1>8. CASE (pc = "wait" => left = 0) /\ UNCHANGED <<left, pc>>
  <2>1. pc # "wait"  BY <1>8 DEF WaitInv
  <2>2. waited' \in 0 .. MaxWaited  BY <1>2, <1>3, <1>5, <2>1
  <2>3. waited' \in 0 .. MaxWaited + U16 /\ waited' <= MaxWaited  BY <1>3, <2>2
  <2> QED BY <1>1, <1>2, <1>4, <1>8, <2>1, <2>3 DEF WaitInv
<1> QED BY <1>6, <1>7, <1>8 DEF Tick

(* Every step keeps the invariant.                                         *)
LEMMA TimersNext ==
    ASSUME Fits, ListInv, WaitInv, [Next]_vars
    PROVE  ListInv' /\ WaitInv'
<1>1. CASE AgainDue  BY <1>1, ExpireList, ExpireWait DEF AgainDue
<1>2. CASE AgainWait  BY <1>2, AgainWaitInv
<1>3. CASE OSQPend  BY <1>3, PendInv
<1>4. CASE TimedOut  BY <1>4, ExpireList, ExpireWait DEF TimedOut
<1>5. CASE Got  BY <1>5, GotList, GotWait
<1>6. CASE Message  BY <1>6, MessageList, MessageWait
<1>7. CASE Post  BY <1>7, PostInv
<1>8. CASE Tick  BY <1>8, TickInv
<1>9. CASE UNCHANGED vars
  <2>1. ListInv'  BY <1>9 DEF vars, lst, ListInv, TcpTimerRuns, Has
  <2>2. WaitInv'  BY <1>9 DEF vars, WaitInv
  <2> QED BY <2>1, <2>2
<1> QED BY <1>1, <1>2, <1>3, <1>4, <1>5, <1>6, <1>7, <1>8, <1>9 DEF Next, Thread

(* sys_timeouts_init has listed the periodic handlers and no other.        *)
LEMMA TimersInit ==
    ASSUME Init
    PROVE  ListInv /\ WaitInv
<1> DEFINE N == Len(Periodic)
<1>1. N \in Nat /\ N <= PoolSize /\ PoolSize \in Nat  BY PeriodicIs, TimersAssumption
<1>2. ListOK(next_timeout, Given(N)) /\ Len(next_timeout) = N  BY InitList DEF Init, Built
<1>3. \A h \in Handlers : (\E i \in 1 .. N : Periodic[i] = h) <=> h \in PeriodicSet
  BY DEF PeriodicSet
<1>4. rem = Given(N)  BY <1>3 DEF Init, Given
<1>5. \A h \in PeriodicSet : Has(next_timeout, h)
  <2> SUFFICES ASSUME NEW h \in PeriodicSet PROVE Has(next_timeout, h)  OBVIOUS
  <2>1. h \in Handlers /\ Interval[h] \in Nat  BY Kinds, TimersAssumption
  <2>2. rem[h] # None  BY <2>1 DEF Init, None
  <2> QED BY <1>2, <1>4, <2>1, <2>2 DEF ListOK
<1>6. ~Has(next_timeout, Tcp)
  <2>1. Tcp \in Handlers /\ rem[Tcp] = None  BY Kinds DEF Init
  <2> QED BY <1>2, <1>4, <2>1 DEF ListOK
<1>7. free \in Nat /\ free + Len(next_timeout) = PoolSize  BY <1>1, <1>2 DEF Init
<1>8. ListInv
  <2>1. ListOK(next_timeout, rem)  BY <1>2, <1>4
  <2>2. tcpip_tcp_timer_active = 0 /\ pcbs = 0  BY DEF Init
  <2>3. tcpip_tcp_timer_active \in 0 .. 1 /\ pcbs \in 0 .. 1  BY <2>2
  <2>4. TcpTimerRuns  BY <1>6, <2>2 DEF TcpTimerRuns
  <2> QED BY <1>5, <1>7, <2>1, <2>3, <2>4 DEF ListInv
<1>9. U32 \in Nat \ {0} /\ U16 \in Nat \ {0} /\ MaxWaited \in Nat /\ MboxSize \in Nat
  BY TimersAssumption
<1>10. WaitInv  BY <1>9 DEF Init, WaitInv
<1> QED BY <1>8, <1>10

(* The invariant implies what the run checks.                              *)
LEMMA InvIsExact ==
    ASSUME ListInv, WaitInv
    PROVE  TimeoutsExact
<1>1. ListOK(next_timeout, rem)  BY DEF ListInv
<1>2. TypeOK
  <2>1. \A i \in 1 .. Len(next_timeout) :
            next_timeout[i].h \in Handlers /\ next_timeout[i].t \in Nat
    BY <1>1, EntryIs
  <2>2. free >= 0 /\ free + Len(next_timeout) = PoolSize  BY DEF ListInv
  <2> QED BY <2>1, <2>2 DEF TypeOK, ListInv, WaitInv
<1>3. \A i \in 1 .. Len(next_timeout) : Total(next_timeout, i) = rem[next_timeout[i].h]
  BY <1>1, TotalRem
<1>4. \A h \in Handlers : rem[h] # None <=> Has(next_timeout, h)  BY <1>1 DEF ListOK
<1>5. PeriodicRegistered
  <2> SUFFICES ASSUME NEW h \in PeriodicSet
               PROVE  \E i \in 1 .. Len(next_timeout) :
                          /\ next_timeout[i].h = h
                          /\ \A j \in 1 .. Len(next_timeout) : next_timeout[j].h = h => j = i
    BY DEF PeriodicRegistered
  <2>1. PICK i \in 1 .. Len(next_timeout) : next_timeout[i].h = h  BY DEF ListInv, Has
  <2>2. \A j \in 1 .. Len(next_timeout) : next_timeout[j].h = h => j = i
    BY <1>1, <2>1 DEF ListOK, Single
  <2> QED BY <2>1, <2>2
<1>6. TcpTimerRuns  BY DEF ListInv
<1> QED BY <1>2, <1>3, <1>4, <1>5, <1>6 DEF TimeoutsExact, DeltasExact

(* The list of timeouts (timers.c) is exact in every state, for every set  *)
(* of handlers and intervals: the times up to an entry add up to what is   *)
(* left of its handler's interval through every sys_timeout, sys_untimeout,*)
(* expiry and message, however ticks and messages come between; and        *)
(* neither a periodic handler nor the needed TCP timer drops out of it.    *)
(* Fits is what the configuration gives: a pool entry for each handler and *)
(* intervals OSQPend can count in 16 bits.                                 *)
THEOREM TimeoutsCorrect == Fits /\ Spec => []TimeoutsExact
<1> SUFFICES ASSUME Fits PROVE Spec => []TimeoutsExact  OBVIOUS
<1>1. Init => ListInv /\ WaitInv  BY TimersInit
<1>2. ListInv /\ WaitInv /\ [Next]_vars => (ListInv /\ WaitInv)'  BY TimersNext
<1>3. ListInv /\ WaitInv => TimeoutsExact  BY InvIsExact
<1> QED BY <1>1, <1>2, <1>3, PTL DEF Spec
-----------------------------------------------------------------------------
(* Numbers, queues and pieces.                                             *)
LEMMA MaxOf ==
    ASSUME NEW n \in Nat, NEW T \in SUBSET (0 .. n), 0 \in T
    PROVE  Max(T) \in T /\ \A y \in T : y <= Max(T)
<1> DEFINE U == {n - t : t \in T}
<1>1. U \in SUBSET Nat /\ U # {}  OBVIOUS
<1>2. PICK u \in U : \A v \in U : u <= v  BY <1>1, Least
<1>3. PICK x \in T : u = n - x  OBVIOUS
<1>4. ASSUME NEW y \in T PROVE x >= y
  <2>1. n - y \in U  OBVIOUS
  <2>2. u <= n - y  BY <1>2, <2>1
  <2> QED BY <1>3, <2>2
<1>5. \E z \in T : \A y \in T : z >= y  BY <1>4
<1>6. Max(T) \in T /\ \A y \in T : Max(T) >= y  BY <1>5 DEF Max
<1> QED BY <1>6

LEMMA MinOf ==
    ASSUME NEW a \in Int, NEW b \in Int
    PROVE  /\ Min({a, b}) \in {a, b}
           /\ Min({a, b}) <= a /\ Min({a, b}) <= b
           /\ Min({a, b}) \in Int
<1>1. \E x \in {a, b} : \A y \in {a, b} : x <= y  OBVIOUS
<1>2. Min({a, b}) \in {a, b} /\ \A y \in {a, b} : Min({a, b}) <= y  BY <1>1 DEF Min
<1> QED BY <1>2

LEMMA MaxOfTwo ==
    ASSUME NEW a \in Nat, NEW b \in Nat
    PROVE  Max({a, b}) \in Nat /\ a <= Max({a, b}) /\ b <= Max({a, b})
<1>1. \E x \in {a, b} : \A y \in {a, b} : x >= y  OBVIOUS
<1>2. Max({a, b}) \in {a, b} /\ \A y \in {a, b} : Max({a, b}) >= y  BY <1>1 DEF Max
<1> QED BY <1>2

LEMMA NumType == \A x \in Int : Num(x) \in Nat
BY TcpPcbAssumption DEF Num

(* The parts of a queue are queues.                                        *)
LEMMA PartType ==
    ASSUME NEW S, NEW q \in Seq(S), NEW m \in Nat, NEW n \in Nat, n <= Len(q)
    PROVE  SubSeq(q, m + 1, n) \in Seq(S)
BY SubSeqProperties

LEMMA LeadingType ==
    ASSUME NEW S, NEW q \in Seq(S), NEW G
    PROVE  /\ Leading(q, G) \in 0 .. Len(q)
           /\ \A n \in 0 .. Len(q) : 1 .. n \subseteq G => n <= Leading(q, G)
           /\ 1 .. Leading(q, G) \subseteq G
<1> DEFINE T == {n \in 0 .. Len(q) : 1 .. n \subseteq G}
<1>1. T \in SUBSET (0 .. Len(q)) /\ 0 \in T /\ Len(q) \in Nat  OBVIOUS
<1>2. Max(T) \in T /\ \A y \in T : y <= Max(T)  BY <1>1, MaxOf
<1>3. Leading(q, G) = Max(T)  BY DEF Leading
<1> HIDE DEF T
<1>4. \A n : n \in T <=> n \in 0 .. Len(q) /\ 1 .. n \subseteq G  BY DEF T
<1> QED BY <1>2, <1>3, <1>4

LEMMA ReplaceType ==
    ASSUME NEW S, NEW q \in Seq(S), NEW t \in S
    PROVE  ReplaceAt(q, Len(q), t) \in Seq(S)
<1> DEFINE r == [q EXCEPT ![Len(q)] = t]
<1>1. Len(q) \in Nat /\ q \in [1 .. Len(q) -> S]  OBVIOUS
<1>2. r \in [1 .. Len(q) -> S]  BY <1>1
<1>3. r \in Seq(S)
  <2> HIDE DEF r
  <2> QED BY <1>1, <1>2, SeqDef
<1> QED BY <1>3 DEF ReplaceAt

LEMMA InsertAtIs ==
    ASSUME NEW q, NEW i, NEW t
    PROVE  InsertAt(q, i, t) = SubSeq(q, 1, i - 1) \o <<t>> \o SubSeq(q, i, Len(q))
BY DEF InsertAt

LEMMA InsertType ==
    ASSUME NEW S, NEW q \in Seq(S), NEW t \in S
    PROVE  Insert(q, t) \in Seq(S)
<1> DEFINE k == Leading(q, {i \in 1 .. Len(q) : TCP_SEQ_LT(q[i].seq, t.seq)})
<1>1. k \in 0 .. Len(q)  BY LeadingType
<1> HIDE DEF k
<1>2. PICK j : j = k + 1  OBVIOUS
<1>3. Insert(q, t) = InsertAt(q, j, t)  BY <1>2, Zenon DEF Insert, k
<1>4. Insert(q, t) = SubSeq(q, 1, j - 1) \o <<t>> \o SubSeq(q, j, Len(q))  BY <1>3, InsertAtIs
<1>5. j - 1 = k /\ k \in Nat /\ Len(q) \in Nat /\ 0 + 1 = 1  BY <1>1, <1>2
<1>6. SubSeq(q, 0 + 1, k) \in Seq(S)  BY <1>1, <1>5, PartType
<1>7. SubSeq(q, k + 1, Len(q)) \in Seq(S)  BY <1>5, PartType
<1>8. <<t>> \in Seq(S)  OBVIOUS
<1>9. SubSeq(q, 1, j - 1) \in Seq(S) /\ SubSeq(q, j, Len(q)) \in Seq(S)
  BY <1>2, <1>5, <1>6, <1>7
<1> QED BY <1>4, <1>8, <1>9

LEMMA FileType ==
    ASSUME NEW S, NEW q \in Seq(S), NEW t \in S
    PROVE  File(q, t) \in Seq(S)
BY InsertType DEF File

LEMMA FileAllIs ==
    ASSUME NEW S, NEW q \in Seq(S), NEW new \in Seq(S)
    PROVE  \E f : /\ FileAll(q, new) = f[Len(new)]
                  /\ \A i \in 0 .. Len(new) :
                        f[i] = IF i = 0 THEN q ELSE File(f[i - 1], new[i])
<1> DEFINE N == Len(new)
           F(f) == [i \in 0 .. N |-> IF i = 0 THEN q ELSE File(f[i - 1], new[i])]
           filed == CHOOSE f : f = F(f)
           D == [x \in Seq(S) \X (1 .. N) |-> File(x[1], new[x[2]])]
<1>1. N \in Nat  OBVIOUS
<1>2. D \in [Seq(S) \X (1 .. N) -> Seq(S)]
  <2>1. ASSUME NEW x \in Seq(S) \X (1 .. N) PROVE File(x[1], new[x[2]]) \in Seq(S)
    <3>1. x[1] \in Seq(S) /\ new[x[2]] \in S  OBVIOUS
    <3> QED BY <3>1, FileType
  <2> QED BY <2>1
<1>3. PICK g : Solves(g, Seq(S), q, N, D)  BY <1>1, <1>2, Recursion
<1>4. g \in [0 .. N -> Seq(S)] /\ g[0] = q
      /\ \A n \in 1 .. N : g[n] = D[<<g[n - 1], n>>]
  BY <1>3 DEF Solves
<1>5. g = F(g)
  <2>1. ASSUME NEW i \in 0 .. N
        PROVE  g[i] = IF i = 0 THEN q ELSE File(g[i - 1], new[i])
    <3>1. CASE i = 0  BY <1>4, <3>1
    <3>2. CASE i # 0
      <4>1. i \in 1 .. N /\ i - 1 \in 0 .. N  BY <1>1, <3>2
      <4>2. g[i - 1] \in Seq(S)  BY <1>4, <4>1
      <4>3. <<g[i - 1], i>> \in Seq(S) \X (1 .. N)  BY <4>1, <4>2
      <4>4. D[<<g[i - 1], i>>] = File(g[i - 1], new[i])  BY <4>3
      <4>5. g[i] = D[<<g[i - 1], i>>]  BY <1>4, <4>1
      <4> QED BY <3>2, <4>4, <4>5
    <3> QED BY <3>1, <3>2
  <2> QED BY <1>4, <2>1
<1>6. filed = F(filed)  BY <1>5
<1>7. FileAll(q, new) = filed[N]  BY DEF FileAll
<1> HIDE DEF filed
<1>8. \A i \in 0 .. N : filed[i] = IF i = 0 THEN q ELSE File(filed[i - 1], new[i])
  BY <1>6
<1> QED BY <1>7, <1>8

LEMMA FileAllType ==
    ASSUME NEW S, NEW q \in Seq(S), NEW new \in Seq(S)
    PROVE  FileAll(q, new) \in Seq(S)
<1> DEFINE N == Len(new)
<1>1. N \in Nat  OBVIOUS
<1>2. PICK filed : /\ FileAll(q, new) = filed[N]
                   /\ \A i \in 0 .. N :
                         filed[i] = IF i = 0 THEN q ELSE File(filed[i - 1], new[i])
  BY FileAllIs
<1> DEFINE P == {n \in Nat : n <= N => filed[n] \in Seq(S)}
<1>3. 0 \in P  BY <1>1, <1>2
<1>4. ASSUME NEW n \in 1 .. N, n - 1 \in P PROVE n \in P
  <2>1. filed[n - 1] \in Seq(S) /\ new[n] \in S /\ n \in 0 .. N /\ n # 0
    BY <1>1, <1>4
  <2>2. filed[n] = File(filed[n - 1], new[n])  BY <1>2, <2>1
  <2>3. filed[n] \in Seq(S)  BY <2>1, <2>2, FileType
  <2> QED BY <2>1, <2>3
<1>5. P \in SUBSET Nat  OBVIOUS
<1> HIDE DEF P
<1>6. \A n \in 0 .. N : n \in P  BY <1>1, <1>3, <1>4, <1>5, UpTo
<1>7. N \in P /\ N \in 0 .. N  BY <1>1, <1>6
<1> QED BY <1>2, <1>7 DEF P

LEMMA FileAllOne ==
    ASSUME NEW t
    PROVE  FileAll(<<>>, <<t>>) = <<t>>
<1>1. <<>> \in Seq({t}) /\ <<t>> \in Seq({t}) /\ Len(<<t>>) = 1 /\ <<t>>[1] = t  OBVIOUS
<1>2. PICK f : /\ FileAll(<<>>, <<t>>) = f[Len(<<t>>)]
               /\ \A i \in 0 .. Len(<<t>>) :
                     f[i] = IF i = 0 THEN <<>> ELSE File(f[i - 1], <<t>>[i])
  <2> DEFINE a == <<>>
             b == <<t>>
  <2>1. a \in Seq({t}) /\ b \in Seq({t})  BY <1>1
  <2> HIDE DEF a, b
  <2>2. \E f : /\ FileAll(a, b) = f[Len(b)]
               /\ \A i \in 0 .. Len(b) : f[i] = IF i = 0 THEN a ELSE File(f[i - 1], b[i])
    BY <2>1, FileAllIs
  <2> QED BY <2>2 DEF a, b
<1>3. f[0] = <<>> /\ f[1] = File(f[0], t)
  <2>1. 0 \in 0 .. Len(<<t>>) /\ 1 \in 0 .. Len(<<t>>) /\ 1 - 1 = 0  BY <1>1
  <2> QED BY <1>1, <1>2, <2>1
<1>4. File(<<>>, t) = <<t>>  BY DEF File
<1> QED BY <1>1, <1>2, <1>3, <1>4

Cells(lens) == UNION {{i} \X (1 .. lens[i]) : i \in DOMAIN lens}

LEMMA CellsIn ==
    ASSUME NEW lens \in Seq(Nat), NEW c
    PROVE  c \in Cells(lens) <=> \E i \in 1 .. Len(lens) : \E k \in 1 .. lens[i] : c = <<i, k>>
BY DEF Cells

(* The pieces of a mailbox hold so many units, which grow by the length of *)
(* a piece put behind them and shrink by that of the one taken in front.   *)
LEMMA TotalEmpty == IsFiniteSet(Cells(<<>>)) /\ UnitsIn(<<>>) = 0
<1>1. Cells(<<>>) = {}  BY DEF Cells
<1> QED BY <1>1, FS_EmptySet DEF UnitsIn, Cells

LEMMA Row ==
    ASSUME NEW i, NEW n \in Nat
    PROVE  IsFiniteSet({i} \X (1 .. n)) /\ Cardinality({i} \X (1 .. n)) = n
<1> DEFINE f == [k \in 1 .. n |-> <<i, k>>]
<1>1. f \in Bijection(1 .. n, {i} \X (1 .. n))
  BY DEF Bijection, Injection, Surjection, IsInjective
<1>2. ExistsBijection(1 .. n, {i} \X (1 .. n))  BY <1>1 DEF ExistsBijection
<1>3. IsFiniteSet(1 .. n) /\ Cardinality(1 .. n) = n  BY FS_Interval
<1> QED BY <1>2, <1>3, FS_Bijection

LEMMA TotalAppend ==
    ASSUME NEW lens \in Seq(Nat), NEW n \in Nat, IsFiniteSet(Cells(lens))
    PROVE  /\ IsFiniteSet(Cells(Append(lens, n)))
           /\ UnitsIn(Append(lens, n)) = UnitsIn(lens) + n
           /\ UnitsIn(lens) \in Nat
<1> DEFINE m == Len(lens) + 1
           R == {m} \X (1 .. n)
           new == Append(lens, n)
<1>1. new \in Seq(Nat) /\ Len(new) = m /\ new[m] = n /\ \A i \in 1 .. Len(lens) : new[i] = lens[i]
  OBVIOUS
<1>2. Cells(new) = Cells(lens) \cup R
  <2>1. ASSUME NEW c PROVE c \in Cells(new) <=> c \in Cells(lens) \/ c \in R
    <3>1. c \in Cells(new) <=> \E i \in 1 .. m : \E k \in 1 .. new[i] : c = <<i, k>>
      <4> HIDE DEF new
      <4>1. c \in Cells(new) <=> \E i \in 1 .. Len(new) : \E k \in 1 .. new[i] : c = <<i, k>>
        BY <1>1, CellsIn
      <4> QED BY <1>1, <4>1
    <3>2. c \in Cells(lens) <=> \E i \in 1 .. Len(lens) : \E k \in 1 .. lens[i] : c = <<i, k>>
      BY CellsIn
    <3>3. c \in R <=> \E k \in 1 .. n : c = <<m, k>>  OBVIOUS
    <3>4. \A i : i \in 1 .. m <=> i \in 1 .. Len(lens) \/ i = m  OBVIOUS
    <3> QED BY <1>1, <3>1, <3>2, <3>3, <3>4
  <2> QED BY <2>1
<1>3. Cells(lens) \cap R = {}
  <2> SUFFICES ASSUME NEW c, c \in Cells(lens), c \in R PROVE FALSE  OBVIOUS
  <2>1. PICK i \in 1 .. Len(lens) : \E k \in 1 .. lens[i] : c = <<i, k>>  BY CellsIn
  <2> QED BY <2>1
<1>4. IsFiniteSet(R) /\ Cardinality(R) = n  BY Row
<1>5. Cardinality({}) = 0  BY FS_EmptySet
<1>6. Cardinality(Cells(lens)) \in Nat  BY FS_CardinalityType
<1>7. /\ IsFiniteSet(Cells(new))
      /\ Cardinality(Cells(new)) = Cardinality(Cells(lens)) + n - 0
  <2> HIDE DEF R, new
  <2>1. /\ IsFiniteSet(Cells(lens) \cup R)
        /\ Cardinality(Cells(lens) \cup R)
             = Cardinality(Cells(lens)) + Cardinality(R) - Cardinality(Cells(lens) \cap R)
    BY <1>4, FS_Union
  <2> QED BY <1>2, <1>3, <1>4, <1>5, <2>1
<1>8. UnitsIn(new) = Cardinality(Cells(new)) /\ UnitsIn(lens) = Cardinality(Cells(lens))
  BY DEF UnitsIn, Cells
<1> QED BY <1>6, <1>7, <1>8

LEMMA TotalTail ==
    ASSUME NEW lens \in Seq(Nat), lens # <<>>, IsFiniteSet(Cells(lens))
    PROVE  /\ IsFiniteSet(Cells(Tail(lens)))
           /\ UnitsIn(lens) = Head(lens) + UnitsIn(Tail(lens))
           /\ UnitsIn(Tail(lens)) \in Nat /\ Head(lens) \in Nat /\ Tail(lens) \in Seq(Nat)
<1> DEFINE R == {1} \X (1 .. lens[1])
           C == Cells(lens) \ R
           rest == Tail(lens)
           f == [c \in C |-> <<c[1] - 1, c[2]>>]
<1>1. rest \in Seq(Nat) /\ Len(rest) = Len(lens) - 1 /\ Len(lens) \in Nat \ {0}
      /\ Head(lens) = lens[1] /\ lens[1] \in Nat
      /\ \A i \in 1 .. Len(rest) : rest[i] = lens[i + 1]
  OBVIOUS
<1>2. \A c : c \in C <=> \E i \in 2 .. Len(lens) : \E k \in 1 .. lens[i] : c = <<i, k>>
  <2> SUFFICES ASSUME NEW c
               PROVE  c \in C <=> \E i \in 2 .. Len(lens) : \E k \in 1 .. lens[i] : c = <<i, k>>
    OBVIOUS
  <2>1. c \in Cells(lens) <=> \E i \in 1 .. Len(lens) : \E k \in 1 .. lens[i] : c = <<i, k>>
    BY CellsIn
  <2>2. c \in R <=> \E k \in 1 .. lens[1] : c = <<1, k>>  OBVIOUS
  <2>3. \A i : i \in 1 .. Len(lens) <=> i \in 2 .. Len(lens) \/ i = 1  BY <1>1
  <2>4. \A i \in 2 .. Len(lens) : i # 1  OBVIOUS
  <2> QED BY <2>1, <2>2, <2>3, <2>4
<1>3. \A c : c \in Cells(rest) <=> \E i \in 1 .. Len(rest) : \E k \in 1 .. rest[i] : c = <<i, k>>
  <2> HIDE DEF rest
  <2> QED BY <1>1, CellsIn
<1>4. f \in Bijection(C, Cells(rest))
  <2> HIDE DEF C, rest
  <2>1. ASSUME NEW c \in C PROVE f[c] \in Cells(rest)
    <3>1. PICK i \in 2 .. Len(lens) : \E k \in 1 .. lens[i] : c = <<i, k>>  BY <1>2
    <3>2. PICK k \in 1 .. lens[i] : c = <<i, k>>  BY <3>1
    <3>3. i - 1 \in 1 .. Len(rest) /\ rest[i - 1] = lens[i]  BY <1>1
    <3>4. f[c] = <<i - 1, k>>  BY <3>2
    <3> QED BY <1>3, <3>3, <3>4
  <2>2. ASSUME NEW a \in C, NEW b \in C, f[a] = f[b] PROVE a = b
    <3>1. PICK i \in 2 .. Len(lens) : \E k \in 1 .. lens[i] : a = <<i, k>>  BY <1>2
    <3>2. PICK k \in 1 .. lens[i] : a = <<i, k>>  BY <3>1
    <3>3. PICK j \in 2 .. Len(lens) : \E l \in 1 .. lens[j] : b = <<j, l>>  BY <1>2
    <3>4. PICK l \in 1 .. lens[j] : b = <<j, l>>  BY <3>3
    <3>5. f[a] = <<i - 1, k>> /\ f[b] = <<j - 1, l>>  BY <3>2, <3>4
    <3>6. i - 1 = j - 1 /\ k = l  BY <2>2, <3>5
    <3>7. i = j  BY <3>6
    <3> QED BY <3>2, <3>4, <3>6, <3>7
  <2>3. ASSUME NEW d \in Cells(rest) PROVE \E c \in C : f[c] = d
    <3>1. PICK i \in 1 .. Len(rest) : \E k \in 1 .. rest[i] : d = <<i, k>>  BY <1>3
    <3>2. PICK k \in 1 .. rest[i] : d = <<i, k>>  BY <3>1
    <3>3. i + 1 \in 2 .. Len(lens) /\ rest[i] = lens[i + 1] /\ i + 1 - 1 = i  BY <1>1
    <3>4. <<i + 1, k>> \in C  BY <1>2, <3>3
    <3>5. f[<<i + 1, k>>] = d  BY <3>2, <3>3, <3>4
    <3> QED BY <3>4, <3>5
  <2>4. f \in [C -> Cells(rest)]  BY <2>1
  <2> HIDE DEF f
  <2> QED BY <2>2, <2>3, <2>4 DEF Bijection, Injection, Surjection, IsInjective
<1>5. ExistsBijection(C, Cells(rest))
  <2> HIDE DEF f, C, rest
  <2> QED BY <1>4 DEF ExistsBijection
<1>6. IsFiniteSet(C)
  <2>1. C \in SUBSET Cells(lens)  OBVIOUS
  <2> HIDE DEF C
  <2> QED BY <2>1, FS_Subset
<1>7. IsFiniteSet(Cells(rest)) /\ Cardinality(Cells(rest)) = Cardinality(C)
  <2> HIDE DEF C, rest
  <2> QED BY <1>5, <1>6, FS_Bijection
<1>8. IsFiniteSet(R) /\ Cardinality(R) = lens[1]  BY <1>1, Row
<1>9. Cells(lens) = C \cup R /\ C \cap R = {}
  <2>1. ASSUME NEW c, c \in R PROVE c \in Cells(lens)
    <3>1. PICK k \in 1 .. lens[1] : c = <<1, k>>  BY <2>1
    <3>2. 1 \in 1 .. Len(lens)  BY <1>1
    <3> QED BY <3>1, <3>2, CellsIn
  <2> QED BY <2>1
<1>10. Cardinality(Cells(lens)) = Cardinality(C) + lens[1] - 0
  <2> HIDE DEF C, R
  <2>1. Cardinality(C \cup R) = Cardinality(C) + Cardinality(R) - Cardinality(C \cap R)
    BY <1>6, <1>8, FS_Union
  <2> QED BY <1>8, <1>9, <2>1, FS_EmptySet
<1>11. UnitsIn(lens) = Cardinality(Cells(lens)) /\ UnitsIn(rest) = Cardinality(Cells(rest))
  BY DEF UnitsIn, Cells
<1>12. Cardinality(Cells(rest)) \in Nat  BY <1>7, FS_CardinalityType
<1> HIDE DEF C, R, f, rest
<1> QED BY <1>1, <1>7, <1>10, <1>11, <1>12 DEF rest

-----------------------------------------------------------------------------
(* The types of control blocks and segments.                               *)
PcbFields ==
    {"state", "opt", "rxclosed", "ack", "infr", "finq", "memerr", "rcv_nxt", "rcv_wnd",
     "rcv_ann_wnd", "edge", "snd_nxt", "lastack", "snd_lbb", "snd_buf", "snd_wnd",
     "snd_wnd_max", "snd_wl1", "snd_wl2", "cwnd", "ssthresh", "dupacks", "nrtx",
     "rtime", "persist", "unsent", "unacked", "refused", "out"}

States(h) ==
    {"CLOSED", "ESTABLISHED", "FIN_WAIT_1", "FIN_WAIT_2", "CLOSE_WAIT", "CLOSING",
     "LAST_ACK", "TIME_WAIT"}
    \cup IF h = "client" THEN {"SYN_SENT"} ELSE {"LISTEN", "SYN_RCVD"}

Options == [mss : Nat \ {0}, wnd : Nat \ {0}, buf : Nat \ {0}]
Pieces == [data : Seq(Nat), fin : BOOLEAN]
Size(piece) == Len(piece.data) + IF piece.fin THEN 1 ELSE 0

(* A segment on a queue is no longer than tcp_write makes it, and a client *)
(* that has connected has no SYN to send.                                  *)
Limit(opt, max) == Min({opt.mss, max \div 2})
Segments(h, state, limit) ==
    {s \in [seq : Int, data : Seq(Nat), syn : BOOLEAN, fin : BOOLEAN] :
        /\ Len(s.data) <= limit
        /\ h = "client" /\ state # "SYN_SENT" => ~s.syn}

(* What a host sends: the SYN of the client acknowledges nothing.          *)
Packets(h) ==
    {s \in [seq : Int, data : Seq(Nat), syn : BOOLEAN, fin : BOOLEAN, isack : BOOLEAN,
            rst : BOOLEAN, ack : Int, wnd : Nat] :
        h = "client" /\ s.syn => ~s.isack}

QueueOk(h, p) ==
    LET S == Segments(h, p.state, Limit(p.opt, p.snd_wnd_max))
    IN  p.unsent \in Seq(S) /\ p.unacked \in Seq(S)

PcbOk(h, p) ==
    /\ DOMAIN p = PcbFields
    /\ p.state \in States(h)
    /\ p.opt \in Options
    /\ p.rxclosed \in BOOLEAN
    /\ p.rcv_nxt \in Int /\ p.edge \in Int
    /\ p.snd_nxt \in Int /\ p.lastack \in Int /\ p.snd_lbb \in Int /\ p.snd_buf \in Int
    /\ p.rcv_wnd \in Nat /\ p.rcv_ann_wnd \in Nat /\ p.snd_wnd_max \in Nat
    /\ p.refused \in Pieces
    /\ QueueOk(h, p)
    /\ p.out \in Seq(Packets(h))

(* The function that makes q of p leaves the receive side alone...         *)
Same(p, q) ==
    /\ q.state = p.state /\ q.opt = p.opt /\ q.rxclosed = p.rxclosed
    /\ q.rcv_wnd = p.rcv_wnd /\ q.refused = p.refused

(* ... and has nothing to send.                                            *)
Idle(p, q) ==
    p.unsent = <<>> => /\ q.unsent = <<>> /\ q.unacked = p.unacked
                       /\ q.lastack = p.lastack /\ q.snd_wnd = p.snd_wnd

LEMMA LimitType ==
    ASSUME NEW opt \in Options, NEW max \in Nat
    PROVE  Limit(opt, max) \in Nat
<1>1. opt.mss \in Int /\ max \div 2 \in Int /\ opt.mss >= 0 /\ max \div 2 >= 0  BY DEF Options
<1>2. Min({opt.mss, max \div 2}) \in {opt.mss, max \div 2}  BY <1>1, MinOf
<1> QED BY <1>1, <1>2 DEF Limit

LEMMA LimitGrows ==
    ASSUME NEW opt \in Options, NEW max \in Nat, NEW more \in Nat, max <= more
    PROVE  Limit(opt, max) <= Limit(opt, more)
<1>1. opt.mss \in Int /\ max \div 2 \in Int /\ more \div 2 \in Int /\ max \div 2 <= more \div 2
  BY DEF Options
<1>2. Min({opt.mss, max \div 2}) <= opt.mss /\ Min({opt.mss, max \div 2}) <= max \div 2
      /\ Min({opt.mss, more \div 2}) \in {opt.mss, more \div 2}
      /\ Min({opt.mss, max \div 2}) \in Int
  BY <1>1, MinOf
<1> QED BY <1>1, <1>2 DEF Limit

LEMMA AckNow ==
    ASSUME NEW h, NEW p, PcbOk(h, p)
    PROVE  /\ PcbOk(h, tcp_ack_now(p)) /\ Same(p, tcp_ack_now(p)) /\ Idle(p, tcp_ack_now(p))
           /\ PcbOk(h, tcp_ack(p)) /\ Same(p, tcp_ack(p))
BY DEF PcbOk, QueueOk, Same, Idle, tcp_ack_now, tcp_ack, PcbFields

LEMMA EmitOk ==
    ASSUME NEW h, NEW p, PcbOk(h, p), NEW segs \in Seq(Packets(h))
    PROVE  PcbOk(h, Emit(p, segs)) /\ Same(p, Emit(p, segs)) /\ Idle(p, Emit(p, segs))
<1>0. p.rcv_nxt + p.rcv_ann_wnd \in Int  BY DEF PcbOk
<1>1. Num(p.rcv_nxt + p.rcv_ann_wnd) \in Int  BY <1>0, NumType
<1> QED BY <1>1 DEF PcbOk, QueueOk, Same, Idle, Emit, PcbFields

LEMMA WireOk ==
    ASSUME NEW h, NEW p, PcbOk(h, p), NEW seq \in Int, NEW data \in Seq(Nat),
           NEW syn \in BOOLEAN, NEW fin \in BOOLEAN, NEW isack \in BOOLEAN,
           h = "client" /\ syn => ~isack
    PROVE  Wire(p, seq, data, syn, fin, isack) \in Packets(h)
BY DEF Wire, Packets, PcbOk

LEMMA RstOk ==
    ASSUME NEW h, NEW p, PcbOk(h, p), NEW seq \in Int, NEW ack \in Int
    PROVE  PcbOk(h, tcp_rst(p, seq, ack)) /\ Same(p, tcp_rst(p, seq, ack))
           /\ Idle(p, tcp_rst(p, seq, ack))
<1> DEFINE s == [seq |-> seq, data |-> <<>>, syn |-> FALSE, fin |-> FALSE, isack |-> TRUE,
                 rst |-> TRUE, ack |-> ack, wnd |-> p.opt.wnd]
<1>0. p.opt.wnd \in Nat  BY DEF PcbOk, Options
<1>1. s \in Packets(h)  BY <1>0 DEF Packets
<1>2. tcp_rst(p, seq, ack) = [p EXCEPT !.out = Append(@, s)]  BY DEF tcp_rst
<1> HIDE DEF s
<1>3. Append(p.out, s) \in Seq(Packets(h))  BY <1>1 DEF PcbOk
<1> QED BY <1>2, <1>3 DEF PcbOk, QueueOk, Same, Idle, PcbFields

LEMMA EmptyAckOk ==
    ASSUME NEW h, NEW p, PcbOk(h, p)
    PROVE  PcbOk(h, tcp_send_empty_ack(p)) /\ Same(p, tcp_send_empty_ack(p))
           /\ Idle(p, tcp_send_empty_ack(p))
<1> DEFINE q == [p EXCEPT !.ack = {}]
           w == Wire(p, p.snd_nxt, <<>>, FALSE, FALSE, TRUE)
<1>1. PcbOk(h, q) /\ Same(p, q) /\ Idle(p, q)  BY DEF PcbOk, QueueOk, Same, Idle, PcbFields
<1>2. p.snd_nxt \in Int /\ <<>> \in Seq(Nat)  BY DEF PcbOk
<1>3. w \in Packets(h)  BY <1>2, WireOk
<1>5. tcp_send_empty_ack(p) = Emit(q, <<w>>)  BY DEF tcp_send_empty_ack
<1> HIDE DEF q, w
<1>4. <<w>> \in Seq(Packets(h))  BY <1>3
<1>6. PcbOk(h, Emit(q, <<w>>)) /\ Same(q, Emit(q, <<w>>)) /\ Idle(q, Emit(q, <<w>>))
  BY <1>1, <1>4, EmitOk
<1> QED BY <1>1, <1>5, <1>6 DEF Same, Idle

LEMMA SendsType ==
    ASSUME NEW h, NEW p, PcbOk(h, p)
    PROVE  Sends(p) \in 0 .. Len(p.unsent)
<1> DEFINE S == Segments(h, p.state, Limit(p.opt, p.snd_wnd_max))
           wnd == Min({p.snd_wnd, p.cwnd})
           Goes(i) == /\ Num(p.unsent[i].seq - p.lastack + Len(p.unsent[i].data)) <= wnd
                      /\ NagleAllows(p, i) \/ p.memerr \/ p.finq
           G == {i \in 1 .. Len(p.unsent) : Goes(i)}
<1>1. p.unsent \in Seq(S)  BY DEF PcbOk, QueueOk
<1>2. Sends(p) = Leading(p.unsent, G)  BY Zenon DEF Sends
<1> HIDE DEF G, S
<1> QED BY <1>1, <1>2, LeadingType

LEMMA LengthIs ==
    ASSUME NEW s, Len(s.data) \in Nat
    PROVE  /\ s.syn \/ s.fin => TCP_TCPLEN(s) = Len(s.data) + 1
           /\ ~(s.syn \/ s.fin) => TCP_TCPLEN(s) = Len(s.data)
<1>1. CASE s.syn \/ s.fin  BY <1>1 DEF TCP_TCPLEN
<1>2. CASE ~(s.syn \/ s.fin)  BY <1>2 DEF TCP_TCPLEN
<1> QED BY <1>1, <1>2

LEMMA EndType ==
    ASSUME NEW h, NEW st, NEW m, NEW s \in Segments(h, st, m)
    PROVE  EndOf(s) \in Int /\ TCP_TCPLEN(s) \in Nat
<1>1. s.seq \in Int /\ Len(s.data) \in Nat /\ s.syn \in BOOLEAN /\ s.fin \in BOOLEAN
  BY DEF Segments
<1>2. TCP_TCPLEN(s) \in Nat  BY <1>1, LengthIs
<1>3. s.seq + TCP_TCPLEN(s) \in Int  BY <1>1, <1>2
<1> QED BY <1>2, <1>3, NumType DEF EndOf

LEMMA OutputOk ==
    ASSUME NEW h, NEW p, PcbOk(h, p)
    PROVE  PcbOk(h, tcp_output(p)) /\ Same(p, tcp_output(p)) /\ Idle(p, tcp_output(p))
<1> DEFINE S == Segments(h, p.state, Limit(p.opt, p.snd_wnd_max))
           n == Sends(p)
           sent == SubSeq(p.unsent, 1, n)
           synced == p.state # "SYN_SENT"
           wire == [i \in 1 .. n |-> Wire(p, sent[i].seq, sent[i].data, sent[i].syn,
                                          sent[i].fin, synced)]
           last == EndOf(sent[n])
           q == [p EXCEPT !.memerr = FALSE]
           e == Emit(p, wire)
           t == [e EXCEPT !.unsent = SubSeq(@, n + 1, Len(@)),
                          !.unacked = FileAll(@, sent),
                          !.snd_nxt = IF TCP_SEQ_LT(@, last) THEN last ELSE @,
                          !.ack = IF synced THEN {} ELSE @,
                          !.rtime = TRUE, !.memerr = FALSE]
<1>1. tcp_output(p) = IF OnlyAck(p) THEN tcp_send_empty_ack(p) ELSE IF n = 0 THEN q ELSE t
  BY DEF tcp_output
<1>2. CASE OnlyAck(p)  BY <1>1, <1>2, EmptyAckOk
<1>3. CASE ~OnlyAck(p) /\ n = 0
  <2>1. PcbOk(h, q) /\ Same(p, q) /\ Idle(p, q)
    BY DEF PcbOk, QueueOk, Same, Idle, PcbFields
  <2> QED BY <1>1, <1>3, <2>1
<1>4. CASE ~OnlyAck(p) /\ n # 0
  <2>1. n \in 1 .. Len(p.unsent) /\ n \in Nat /\ Len(p.unsent) \in Nat
    <3>1. n \in 0 .. Len(p.unsent)  BY SendsType
    <3>2. Len(p.unsent) \in Nat  BY DEF PcbOk, QueueOk
    <3> QED BY <1>4, <3>1, <3>2
  <2> HIDE DEF n
  <2>2. p.unsent \in Seq(S) /\ p.unacked \in Seq(S)  BY DEF PcbOk, QueueOk
  <2> HIDE DEF S
  <2>3. sent \in Seq(S) /\ Len(sent) = n /\ \A i \in 1 .. n : sent[i] \in S
    <3>1. SubSeq(p.unsent, 0 + 1, n) \in Seq(S)  BY <2>1, <2>2, PartType
    <3>2. SubSeq(p.unsent, 1, n) \in Seq(S) /\ Len(SubSeq(p.unsent, 1, n)) = n
      BY <2>1, <2>2, <3>1
    <3> QED BY <3>2
  <2> HIDE DEF sent
  <2>4. wire \in Seq(Packets(h))
    <3>1. ASSUME NEW i \in 1 .. n
          PROVE  Wire(p, sent[i].seq, sent[i].data, sent[i].syn, sent[i].fin, synced)
                   \in Packets(h)
      <4>1. sent[i] \in S  BY <2>3
      <4>2. /\ sent[i].seq \in Int /\ sent[i].data \in Seq(Nat)
            /\ sent[i].syn \in BOOLEAN /\ sent[i].fin \in BOOLEAN
            /\ h = "client" /\ sent[i].syn => ~synced
        BY <4>1 DEF S, Segments
      <4>3. synced \in BOOLEAN  OBVIOUS
      <4> HIDE DEF synced
      <4> QED BY <4>2, <4>3, WireOk
    <3> HIDE DEF synced
    <3> QED BY <2>1, <3>1
  <2> HIDE DEF wire
  <2>5. PcbOk(h, e) /\ Same(p, e) /\ e.unsent = p.unsent /\ e.unacked = p.unacked
    <3>1. PcbOk(h, e) /\ Same(p, e)  BY <2>4, EmitOk
    <3>2. e.unsent = p.unsent /\ e.unacked = p.unacked  BY DEF Emit, PcbOk, PcbFields
    <3> QED BY <3>1, <3>2
  <2> HIDE DEF e
  <2>6. SubSeq(p.unsent, n + 1, Len(p.unsent)) \in Seq(S)  BY <2>1, <2>2, PartType
  <2>7. FileAll(p.unacked, sent) \in Seq(S)  BY <2>2, <2>3, FileAllType
  <2>8. last \in Int  BY <2>1, <2>3, EndType DEF S
  <2> HIDE DEF last, synced
  <2>9. DOMAIN e = PcbFields /\ e.snd_nxt \in Int  BY <2>5 DEF PcbOk
  <2>10. /\ t.unsent = SubSeq(p.unsent, n + 1, Len(p.unsent))
         /\ t.unacked = FileAll(p.unacked, sent)
         /\ t.snd_nxt \in Int
         /\ DOMAIN t = PcbFields
         /\ \A f \in PcbFields \ {"unsent", "unacked", "snd_nxt", "ack", "rtime", "memerr"} :
               t[f] = e[f]
    BY <2>5, <2>8, <2>9 DEF PcbFields
  <2> HIDE DEF t
  <2>11. /\ t.state = e.state /\ t.opt = e.opt /\ t.rxclosed = e.rxclosed
         /\ t.rcv_nxt = e.rcv_nxt /\ t.edge = e.edge /\ t.lastack = e.lastack
         /\ t.snd_lbb = e.snd_lbb /\ t.snd_buf = e.snd_buf /\ t.rcv_wnd = e.rcv_wnd
         /\ t.rcv_ann_wnd = e.rcv_ann_wnd /\ t.snd_wnd_max = e.snd_wnd_max
         /\ t.refused = e.refused /\ t.out = e.out
    BY <2>10 DEF PcbFields
  <2>12. Same(p, t)  BY <2>5, <2>11 DEF Same
  <2>13. QueueOk(h, t)
    <3>1. t.state = p.state /\ t.opt = p.opt /\ t.snd_wnd_max = p.snd_wnd_max
      <4>1. e.snd_wnd_max = p.snd_wnd_max  BY DEF e, Emit, PcbOk, PcbFields
      <4> QED BY <2>11, <2>12, <4>1 DEF Same
    <3> QED BY <2>6, <2>7, <2>10, <3>1 DEF QueueOk, S
  <2>14. PcbOk(h, t)  BY <2>5, <2>10, <2>11, <2>13 DEF PcbOk
  <2>15. Idle(p, t)  BY <2>1 DEF Idle
  <2> QED BY <1>1, <1>4, <2>12, <2>14, <2>15
<1> QED BY <1>2, <1>3, <1>4

-----------------------------------------------------------------------------
(* Queueing and sending again.                                             *)

(* The queues alone have changed.                                          *)
LEMMA NewQueues ==
    ASSUME NEW h, NEW p, PcbOk(h, p), NEW q,
           DOMAIN q = PcbFields, Same(p, q), q.snd_wnd_max = p.snd_wnd_max,
           q.rcv_nxt = p.rcv_nxt, q.edge = p.edge, q.rcv_ann_wnd = p.rcv_ann_wnd,
           q.snd_nxt = p.snd_nxt, q.lastack = p.lastack,
           q.snd_lbb \in Int, q.snd_buf \in Int, q.out = p.out,
           q.unsent \in Seq(Segments(h, p.state, Limit(p.opt, p.snd_wnd_max))),
           q.unacked \in Seq(Segments(h, p.state, Limit(p.opt, p.snd_wnd_max)))
    PROVE  PcbOk(h, q)
BY DEF PcbOk, QueueOk, Same

LEMMA EnqueueOk ==
    ASSUME NEW h, NEW p, PcbOk(h, p), NEW syn \in BOOLEAN, NEW fin \in BOOLEAN,
           h = "client" /\ p.state # "SYN_SENT" => ~syn
    PROVE  /\ PcbOk(h, tcp_enqueue_flags(p, syn, fin)) /\ Same(p, tcp_enqueue_flags(p, syn, fin))
           /\ tcp_enqueue_flags(p, syn, fin).unsent
                = Append(p.unsent, [seq |-> p.snd_lbb, data |-> <<>>, syn |-> syn, fin |-> fin])
<1> DEFINE s == [seq |-> p.snd_lbb, data |-> <<>>, syn |-> syn, fin |-> fin]
           S == Segments(h, p.state, Limit(p.opt, p.snd_wnd_max))
           q == [p EXCEPT !.unsent = Append(@, s), !.snd_lbb = Num(@ + 1), !.snd_buf = @ - 1,
                          !.finq = @ \/ fin]
<1>1. q = tcp_enqueue_flags(p, syn, fin)  BY DEF tcp_enqueue_flags
<1>2. Limit(p.opt, p.snd_wnd_max) \in Nat  BY LimitType DEF PcbOk
<1>3. s \in S
  <2>1. p.snd_lbb \in Int /\ <<>> \in Seq(Nat) /\ Len(<<>>) = 0  BY DEF PcbOk
  <2> QED BY <1>2, <2>1 DEF Segments
<1> HIDE DEF s
<1>4. p.unsent \in Seq(S) /\ p.unacked \in Seq(S)  BY DEF PcbOk, QueueOk
<1> HIDE DEF S
<1>5. Append(p.unsent, s) \in Seq(S)  BY <1>3, <1>4
<1>6. p.snd_lbb + 1 \in Int /\ p.snd_buf - 1 \in Int  BY DEF PcbOk
<1>7. Num(p.snd_lbb + 1) \in Int  BY <1>6, NumType
<1>8. /\ DOMAIN q = PcbFields /\ Same(p, q) /\ q.snd_wnd_max = p.snd_wnd_max
      /\ q.rcv_nxt = p.rcv_nxt /\ q.edge = p.edge /\ q.rcv_ann_wnd = p.rcv_ann_wnd
      /\ q.snd_nxt = p.snd_nxt /\ q.lastack = p.lastack
      /\ q.snd_lbb \in Int /\ q.snd_buf \in Int /\ q.out = p.out
      /\ q.unsent = Append(p.unsent, s) /\ q.unacked = p.unacked
  BY <1>6, <1>7 DEF PcbOk, Same, PcbFields
<1> HIDE DEF q
<1>9. PcbOk(h, q)  BY <1>4, <1>5, <1>8, NewQueues DEF S
<1> QED BY <1>1, <1>8, <1>9 DEF s

LEMMA SendFinOk ==
    ASSUME NEW h, NEW p, PcbOk(h, p)
    PROVE  PcbOk(h, tcp_send_fin(p)) /\ Same(p, tcp_send_fin(p))
<1>1. CASE ~Piggybacks(p)  BY <1>1, EnqueueOk DEF tcp_send_fin
<1>2. CASE Piggybacks(p)
  <2> DEFINE S == Segments(h, p.state, Limit(p.opt, p.snd_wnd_max))
             s == [Last(p.unsent) EXCEPT !.fin = TRUE]
             q == [p EXCEPT !.unsent = ReplaceAt(@, Len(@), s), !.finq = TRUE]
  <2>1. tcp_send_fin(p) = q
    <3>1. DOMAIN p = PcbFields  BY DEF PcbOk
    <3> QED BY <1>2, <3>1 DEF tcp_send_fin, PcbFields
  <2>2. p.unsent \in Seq(S) /\ p.unacked \in Seq(S)  BY DEF PcbOk, QueueOk
  <2>3. p.unsent # <<>>  BY <1>2 DEF Piggybacks
  <2>4. Last(p.unsent) \in S
    <3> HIDE DEF S
    <3> QED BY <2>2, <2>3 DEF Last
  <2>5. s \in S  BY <2>4 DEF Segments
  <2> HIDE DEF s, S
  <2>6. ReplaceAt(p.unsent, Len(p.unsent), s) \in Seq(S)  BY <2>2, <2>5, ReplaceType
  <2>7. /\ DOMAIN q = PcbFields /\ Same(p, q) /\ q.snd_wnd_max = p.snd_wnd_max
        /\ q.rcv_nxt = p.rcv_nxt /\ q.edge = p.edge /\ q.rcv_ann_wnd = p.rcv_ann_wnd
        /\ q.snd_nxt = p.snd_nxt /\ q.lastack = p.lastack
        /\ q.snd_lbb \in Int /\ q.snd_buf \in Int /\ q.out = p.out
        /\ q.unsent = ReplaceAt(p.unsent, Len(p.unsent), s) /\ q.unacked = p.unacked
    BY DEF PcbOk, Same, PcbFields
  <2> HIDE DEF q
  <2>8. PcbOk(h, q)  BY <2>2, <2>6, <2>7, NewQueues DEF S
  <2> QED BY <2>1, <2>7, <2>8
<1> QED BY <1>1, <1>2

LEMMA WriteOk ==
    ASSUME NEW h, NEW p, PcbOk(h, p), NEW data \in Seq(Nat), mss_local(p) > 0
    PROVE  PcbOk(h, tcp_write(p, data)) /\ Same(p, tcp_write(p, data))
<1> DEFINE m == mss_local(p)
           open == p.unsent # <<>> /\ Last(p.unsent).data # <<>>
           pos == IF open THEN Min({m - Len(Last(p.unsent).data), Len(data)}) ELSE 0
           grown == [Last(p.unsent) EXCEPT !.data = @ \o SubSeq(data, 1, pos)]
           filled == IF pos = 0 THEN p.unsent ELSE ReplaceAt(p.unsent, Len(p.unsent), grown)
           segs == (Len(data) - pos + m - 1) \div m
           From(i) == pos + (i - 1) * m
           Seg(i) == [seq |-> Num(p.snd_lbb + From(i)), syn |-> FALSE, fin |-> FALSE,
                      data |-> SubSeq(data, From(i) + 1, Min({From(i) + m, Len(data)}))]
           new == [i \in 1 .. segs |-> Seg(i)]
           q == [p EXCEPT !.unsent = filled \o new,
                          !.snd_lbb = Num(@ + Len(data)), !.snd_buf = @ - Len(data)]
           S == Segments(h, p.state, Limit(p.opt, p.snd_wnd_max))
<1>1. tcp_write(p, data) = q  BY Zenon DEF tcp_write
<1>2. m = Limit(p.opt, p.snd_wnd_max) /\ m \in Nat \ {0} /\ p.snd_lbb \in Int /\ p.snd_buf \in Int
  <2>1. m = Limit(p.opt, p.snd_wnd_max)  BY DEF mss_local, Limit
  <2>2. m \in Nat  BY <2>1, LimitType DEF PcbOk
  <2> QED BY <2>1, <2>2 DEF PcbOk
<1> HIDE DEF m
<1>3. p.unsent \in Seq(S) /\ p.unacked \in Seq(S)  BY DEF PcbOk, QueueOk
<1>4. ASSUME open
      PROVE  /\ Last(p.unsent) \in S /\ Last(p.unsent).data \in Seq(Nat)
             /\ Len(Last(p.unsent).data) \in Nat /\ Len(Last(p.unsent).data) <= m
  <2>1. Last(p.unsent) \in S
    <3> HIDE DEF S
    <3> QED BY <1>3, <1>4 DEF Last
  <2> QED BY <1>2, <2>1 DEF Segments
<1>5. /\ pos \in Nat /\ pos <= Len(data) /\ Len(data) \in Nat
      /\ pos # 0 => open /\ Len(Last(p.unsent).data) + pos <= m
  <2>0. Len(data) \in Nat  OBVIOUS
  <2>1. CASE ~open  BY <2>0, <2>1
  <2>2. CASE open
    <3> DEFINE a == m - Len(Last(p.unsent).data)
    <3>1. a \in Int /\ a >= 0 /\ Len(Last(p.unsent).data) + a = m  BY <1>2, <1>4, <2>2
    <3>2. pos = Min({a, Len(data)})  BY <2>2
    <3> HIDE DEF a, pos, open
    <3>3. pos \in {a, Len(data)} /\ pos <= a /\ pos <= Len(data)
      <4> DEFINE b == Len(data)
      <4>1. b \in Int /\ pos = Min({a, b})  BY <2>0, <3>2
      <4> HIDE DEF b
      <4>2. pos \in {a, b} /\ pos <= a /\ pos <= b  BY <3>1, <4>1, MinOf
      <4> QED BY <4>2 DEF b
    <3> QED BY <1>4, <2>0, <2>2, <3>1, <3>3
  <2> QED BY <2>1, <2>2
<1> HIDE DEF pos, open
<1>6. filled \in Seq(S)
  <2>1. CASE pos = 0  BY <1>3, <2>1
  <2>2. CASE pos # 0
    <3>1. SubSeq(data, 0 + 1, pos) \in Seq(Nat) /\ Len(SubSeq(data, 1, pos)) = pos
      BY <1>5, PartType
    <3>2. Last(p.unsent).data \o SubSeq(data, 1, pos) \in Seq(Nat)
          /\ Len(Last(p.unsent).data \o SubSeq(data, 1, pos)) = Len(Last(p.unsent).data) + pos
      <4> DEFINE x == Last(p.unsent).data
                 y == SubSeq(data, 1, pos)
      <4>1. x \in Seq(Nat) /\ y \in Seq(Nat) /\ Len(y) = pos
        BY <1>4, <1>5, <2>2, <3>1
      <4> HIDE DEF x, y
      <4>2. x \o y \in Seq(Nat) /\ Len(x \o y) = Len(x) + Len(y)  BY <4>1, ConcatProperties
      <4> QED BY <4>1, <4>2 DEF x, y
    <3>3. grown \in S  BY <1>2, <1>4, <1>5, <2>2, <3>2 DEF Segments
    <3> HIDE DEF grown, S
    <3>4. ReplaceAt(p.unsent, Len(p.unsent), grown) \in Seq(S)  BY <1>3, <3>3, ReplaceType
    <3> QED BY <2>2, <3>4
  <2> QED BY <2>1, <2>2
<1> HIDE DEF filled
<1>7. segs \in Nat /\ \A i \in 1 .. segs : From(i) \in Nat /\ From(i) < Len(data)
  <2> DEFINE d == Len(data) - pos
  <2>1. d \in Nat /\ m \in Nat \ {0}  BY <1>2, <1>5
  <2>2. segs = (d + m - 1) \div m  OBVIOUS
  <2> HIDE DEF d, segs
  <2>3. segs \in Nat /\ segs * m <= d + m - 1  BY <2>1, <2>2
  <2>4. ASSUME NEW i \in 1 .. segs PROVE (i - 1) * m \in Nat /\ (i - 1) * m < d
    <3>1. i - 1 \in Nat /\ segs - i \in Nat /\ i * m = (i - 1) * m + m  BY <2>1, <2>3
    <3>2. (i - 1) * m \in Nat /\ (segs - i) * m \in Nat  BY <2>1, <3>1
    <3>3. segs * m = (segs - i) * m + i * m  BY <2>1, <2>3, <3>1
    <3> QED BY <2>1, <2>3, <3>1, <3>2, <3>3
  <2> QED BY <1>5, <2>3, <2>4 DEF d
<1>8. ASSUME NEW i \in 1 .. segs PROVE Seg(i) \in S
  <2> DEFINE from == From(i)
  <2>1. from \in Nat /\ from < Len(data)  BY <1>7
  <2>2. Seg(i) = [seq |-> Num(p.snd_lbb + from), syn |-> FALSE, fin |-> FALSE,
                  data |-> SubSeq(data, from + 1, Min({from + m, Len(data)}))]
    OBVIOUS
  <2> HIDE DEF from
  <2> DEFINE to == Min({from + m, Len(data)})
  <2>3. to \in Nat /\ to <= Len(data) /\ to <= from + m /\ from <= to
    <3>1. from + m \in Int /\ Len(data) \in Int  BY <1>2, <2>1
    <3>2. to \in {from + m, Len(data)} /\ to <= Len(data) /\ to <= from + m
      BY <3>1, MinOf
    <3> HIDE DEF to
    <3> QED BY <1>2, <2>1, <3>2
  <2> HIDE DEF to
  <2>4. SubSeq(data, from + 1, to) \in Seq(Nat) /\ Len(SubSeq(data, from + 1, to)) = to - from
    BY <2>1, <2>3, PartType
  <2>5. p.snd_lbb + from \in Int  BY <1>2, <2>1
  <2>6. Num(p.snd_lbb + from) \in Int  BY <1>2, <2>1, TcpPcbAssumption DEF Num
  <2>7. to - from <= m  BY <1>2, <2>1, <2>3
  <2> HIDE DEF Seg
  <2>8. Seg(i) \in [seq : Int, data : Seq(Nat), syn : BOOLEAN, fin : BOOLEAN]
        /\ Seg(i).data = SubSeq(data, from + 1, to) /\ Seg(i).syn = FALSE
    <3> DEFINE n == Num(p.snd_lbb + from)
               d == SubSeq(data, from + 1, to)
    <3>1. n \in Int /\ d \in Seq(Nat)  BY <2>4, <2>6
    <3>2. Seg(i) = [seq |-> n, syn |-> FALSE, fin |-> FALSE, data |-> d]  BY <2>2, Zenon DEF to
    <3> HIDE DEF n, d
    <3>3. Seg(i) \in [seq : Int, data : Seq(Nat), syn : BOOLEAN, fin : BOOLEAN]
          /\ Seg(i).data = d /\ Seg(i).syn = FALSE
      BY <3>1, <3>2
    <3> QED BY <3>3 DEF d
  <2> QED BY <1>2, <2>4, <2>7, <2>8 DEF Segments
<1> HIDE DEF segs, Seg
<1>9. new \in Seq(S)
  <2> HIDE DEF S
  <2> QED BY <1>7, <1>8
<1> HIDE DEF new
<1>10. filled \o new \in Seq(S)
  <2> HIDE DEF S
  <2> QED BY <1>6, <1>9
<1>11. p.snd_lbb + Len(data) \in Int /\ p.snd_buf - Len(data) \in Int  BY <1>2, <1>5
<1>12. Num(p.snd_lbb + Len(data)) \in Int  BY <1>2, <1>5, TcpPcbAssumption DEF Num
<1>13. /\ DOMAIN q = PcbFields /\ Same(p, q) /\ q.snd_wnd_max = p.snd_wnd_max
       /\ q.rcv_nxt = p.rcv_nxt /\ q.edge = p.edge /\ q.rcv_ann_wnd = p.rcv_ann_wnd
       /\ q.snd_nxt = p.snd_nxt /\ q.lastack = p.lastack
       /\ q.snd_lbb \in Int /\ q.snd_buf \in Int /\ q.out = p.out
       /\ q.unsent = filled \o new /\ q.unacked = p.unacked
  BY <1>11, <1>12 DEF PcbOk, Same, PcbFields
<1> HIDE DEF q
<1>14. PcbOk(h, q)  BY <1>3, <1>10, <1>13, NewQueues
<1> QED BY <1>1, <1>13, <1>14

LEMMA FittingType ==
    ASSUME NEW h, NEW p, PcbOk(h, p), NEW data \in Seq(Nat), HasRoom(p, data)
    PROVE  Fitting(p, data) \in Seq(Nat)
<1> DEFINE n == Min({p.snd_buf, Len(data)})
<1>0. p.snd_buf > 0 /\ p.snd_buf \in Int  BY DEF HasRoom, PcbOk
<1>1. Len(data) \in Nat /\ Len(data) \in Int  OBVIOUS
<1>2. n \in {p.snd_buf, Len(data)} /\ n <= Len(data)  BY <1>0, <1>1, MinOf
<1>3. n \in Nat  BY <1>0, <1>1, <1>2
<1>4. Fitting(p, data) = SubSeq(data, 1, n)  BY DEF Fitting
<1> HIDE DEF n
<1>5. SubSeq(data, 0 + 1, n) \in Seq(Nat)  BY <1>1, <1>2, <1>3, PartType
<1> QED BY <1>4, <1>5

LEMMA WriteMoreOk ==
    ASSUME NEW h, NEW p, PcbOk(h, p), NEW data \in Seq(Nat)
    PROVE  PcbOk(h, do_writemore(p, data)) /\ Same(p, do_writemore(p, data))
<1> DEFINE w == Queued(p, data)
           e == [p EXCEPT !.memerr = @ \/ p.snd_buf > 0]
           q == IF HasRoom(p, data) THEN w ELSE e
<1>1. do_writemore(p, data) = tcp_output(q)  BY DEF do_writemore
<1>2. CASE HasRoom(p, data)
  <2>1. mss_local(p) > 0 /\ p.snd_buf > 0 /\ p.snd_buf \in Int  BY <1>2 DEF HasRoom, PcbOk
  <2>2. Fitting(p, data) \in Seq(Nat)  BY <1>2, FittingType
  <2>3. PcbOk(h, w) /\ Same(p, w)  BY <2>1, <2>2, WriteOk DEF Queued
  <2> HIDE DEF w
  <2>4. PcbOk(h, tcp_output(w)) /\ Same(w, tcp_output(w))  BY <2>3, OutputOk
  <2> QED BY <1>1, <1>2, <2>3, <2>4 DEF Same
<1>3. CASE ~HasRoom(p, data)
  <2>1. PcbOk(h, e) /\ Same(p, e)  BY DEF PcbOk, QueueOk, Same, PcbFields
  <2> HIDE DEF e
  <2>2. PcbOk(h, tcp_output(e)) /\ Same(e, tcp_output(e))  BY <2>1, OutputOk
  <2> QED BY <1>1, <1>3, <2>1, <2>2 DEF Same
<1> QED BY <1>2, <1>3

LEMMA RexmitRtoOk ==
    ASSUME NEW h, NEW p, PcbOk(h, p)
    PROVE  PcbOk(h, tcp_rexmit_rto(p)) /\ Same(p, tcp_rexmit_rto(p))
<1> DEFINE S == Segments(h, p.state, Limit(p.opt, p.snd_wnd_max))
           q == [p EXCEPT !.unsent = p.unacked \o @, !.unacked = <<>>,
                          !.nrtx = (@ + 1) % RtxSpace]
<1>1. CASE p.unacked = <<>>  BY <1>1 DEF tcp_rexmit_rto, Same
<1>2. CASE p.unacked # <<>>
  <2>1. tcp_rexmit_rto(p) = tcp_output(q)  BY <1>2 DEF tcp_rexmit_rto
  <2>2. p.unsent \in Seq(S) /\ p.unacked \in Seq(S)  BY DEF PcbOk, QueueOk
  <2>3. p.unacked \o p.unsent \in Seq(S) /\ <<>> \in Seq(S)
    <3> HIDE DEF S
    <3> QED BY <2>2
  <2>4. /\ DOMAIN q = PcbFields /\ Same(p, q) /\ q.snd_wnd_max = p.snd_wnd_max
        /\ q.rcv_nxt = p.rcv_nxt /\ q.edge = p.edge /\ q.rcv_ann_wnd = p.rcv_ann_wnd
        /\ q.snd_nxt = p.snd_nxt /\ q.lastack = p.lastack
        /\ q.snd_lbb \in Int /\ q.snd_buf \in Int /\ q.out = p.out
        /\ q.unsent = p.unacked \o p.unsent /\ q.unacked = <<>>
    BY DEF PcbOk, Same, PcbFields
  <2> HIDE DEF q
  <2>5. PcbOk(h, q)  BY <2>3, <2>4, NewQueues
  <2>6. PcbOk(h, tcp_output(q)) /\ Same(q, tcp_output(q))  BY <2>5, OutputOk
  <2> QED BY <2>1, <2>4, <2>6 DEF Same
<1> QED BY <1>1, <1>2

LEMMA RexmitOk ==
    ASSUME NEW h, NEW p, PcbOk(h, p)
    PROVE  PcbOk(h, tcp_rexmit(p)) /\ Same(p, tcp_rexmit(p))
<1> DEFINE S == Segments(h, p.state, Limit(p.opt, p.snd_wnd_max))
           q == [p EXCEPT !.unsent = Insert(@, p.unacked[1]), !.unacked = Tail(@),
                          !.nrtx = (@ + 1) % RtxSpace]
<1>1. CASE p.unacked = <<>>  BY <1>1 DEF tcp_rexmit, Same
<1>2. CASE p.unacked # <<>>
  <2>1. tcp_rexmit(p) = q  BY <1>2 DEF tcp_rexmit
  <2>2. p.unsent \in Seq(S) /\ p.unacked \in Seq(S)  BY DEF PcbOk, QueueOk
  <2> HIDE DEF S
  <2>3. p.unacked[1] \in S /\ Tail(p.unacked) \in Seq(S)  BY <1>2, <2>2
  <2>4. Insert(p.unsent, p.unacked[1]) \in Seq(S)  BY <2>2, <2>3, InsertType
  <2>5. /\ DOMAIN q = PcbFields /\ Same(p, q) /\ q.snd_wnd_max = p.snd_wnd_max
        /\ q.rcv_nxt = p.rcv_nxt /\ q.edge = p.edge /\ q.rcv_ann_wnd = p.rcv_ann_wnd
        /\ q.snd_nxt = p.snd_nxt /\ q.lastack = p.lastack
        /\ q.snd_lbb \in Int /\ q.snd_buf \in Int /\ q.out = p.out
        /\ q.unsent = Insert(p.unsent, p.unacked[1]) /\ q.unacked = Tail(p.unacked)
    BY DEF PcbOk, Same, PcbFields
  <2> HIDE DEF q
  <2>6. PcbOk(h, q)  BY <2>3, <2>4, <2>5, NewQueues DEF S
  <2> QED BY <2>1, <2>5, <2>6
<1> QED BY <1>1, <1>2

LEMMA RexmitFastOk ==
    ASSUME NEW h, NEW p, PcbOk(h, p)
    PROVE  PcbOk(h, tcp_rexmit_fast(p)) /\ Same(p, tcp_rexmit_fast(p))
<1>1. CASE p.unacked = <<>> \/ p.infr  BY <1>1 DEF tcp_rexmit_fast, Same
<1>2. CASE ~(p.unacked = <<>> \/ p.infr)
  <2> DEFINE q == tcp_rexmit(p)
             th == Half(p, Min({p.cwnd, p.snd_wnd}))
             cw == Min({th + 3 * p.opt.mss, MaxCwnd})
             t == [q EXCEPT !.ssthresh = th, !.infr = TRUE, !.cwnd = cw]
  <2>1. tcp_rexmit_fast(p) = t  BY <1>2, Zenon DEF tcp_rexmit_fast
  <2>2. PcbOk(h, q) /\ Same(p, q)  BY RexmitOk
  <2> HIDE DEF q, th, cw
  <2>3. PcbOk(h, t) /\ Same(q, t)  BY <2>2 DEF PcbOk, QueueOk, Same, PcbFields
  <2> QED BY <2>1, <2>2, <2>3 DEF Same
<1> QED BY <1>1, <1>2

LEMMA TimeoutOk ==
    ASSUME NEW h, NEW p, PcbOk(h, p)
    PROVE  PcbOk(h, RexmitTimeout(p)) /\ Same(p, RexmitTimeout(p))
<1> DEFINE th == Half(p, Min({p.cwnd, p.snd_wnd}))
           q == [p EXCEPT !.ssthresh = th, !.cwnd = p.opt.mss]
<1>1. RexmitTimeout(p) = tcp_rexmit_rto(q)  BY Zenon DEF RexmitTimeout
<1> HIDE DEF th
<1>2. PcbOk(h, q) /\ Same(p, q)  BY DEF PcbOk, QueueOk, Same, PcbFields
<1> HIDE DEF q
<1>3. PcbOk(h, tcp_rexmit_rto(q)) /\ Same(q, tcp_rexmit_rto(q))  BY <1>2, RexmitRtoOk
<1> QED BY <1>1, <1>2, <1>3 DEF Same

LEMMA ProbeOk ==
    ASSUME NEW h, NEW p, PcbOk(h, p)
    PROVE  /\ PcbOk(h, tcp_zero_window_probe(p)) /\ Same(p, tcp_zero_window_probe(p))
           /\ Idle(p, tcp_zero_window_probe(p))
<1> DEFINE S == Segments(h, p.state, Limit(p.opt, p.snd_wnd_max))
           queue == p.unacked \o p.unsent
           s == queue[1]
           isfin == s.fin /\ s.data = <<>>
           data == IF isfin THEN <<>> ELSE SubSeq(s.data \o <<0>>, 1, 1)
           w == Wire(p, s.seq, data, FALSE, isfin, TRUE)
<1>1. tcp_zero_window_probe(p) = IF queue = <<>> THEN p ELSE Emit(p, <<w>>)
  BY Zenon DEF tcp_zero_window_probe
<1>2. CASE queue = <<>>  BY <1>1, <1>2 DEF Same, Idle
<1>3. CASE queue # <<>>
  <2>1. queue \in Seq(S)
    <3>1. p.unsent \in Seq(S) /\ p.unacked \in Seq(S)  BY DEF PcbOk, QueueOk
    <3> HIDE DEF S
    <3> QED BY <3>1
  <2> HIDE DEF queue
  <2>2. s \in S
    <3> HIDE DEF S
    <3> QED BY <1>3, <2>1
  <2>3. s.seq \in Int /\ s.data \in Seq(Nat) /\ s.fin \in BOOLEAN  BY <2>2 DEF Segments
  <2> HIDE DEF s
  <2>4. data \in Seq(Nat)
    <3>1. s.data \o <<0>> \in Seq(Nat) /\ Len(s.data \o <<0>>) >= 1
          /\ Len(s.data \o <<0>>) \in Nat
      BY <2>3
    <3>2. SubSeq(s.data \o <<0>>, 0 + 1, 1) \in Seq(Nat)  BY <3>1, PartType
    <3> QED BY <3>2
  <2>5. isfin \in BOOLEAN  BY <2>3
  <2> HIDE DEF data, isfin
  <2>6. w \in Packets(h)  BY <2>3, <2>4, <2>5, WireOk
  <2> HIDE DEF w
  <2>7. <<w>> \in Seq(Packets(h))  BY <2>6
  <2> QED BY <1>1, <1>3, <2>7, EmitOk
<1> QED BY <1>2, <1>3

-----------------------------------------------------------------------------
(* The receive window, opening and closing.                                *)
LEMMA UpdateAnnOk ==
    ASSUME NEW h, NEW p, PcbOk(h, p)
    PROVE  LET q == tcp_update_rcv_ann_wnd(p) IN PcbOk(h, q) /\ Same(p, q) /\ Idle(p, q)
<1> DEFINE w == IF Inflates(p) THEN p.rcv_wnd
                ELSE IF TCP_SEQ_LT(p.edge, p.rcv_nxt) THEN 0 ELSE Num(p.edge - p.rcv_nxt)
           q == [p EXCEPT !.rcv_ann_wnd = w]
<1>1. tcp_update_rcv_ann_wnd(p) = q  BY DEF tcp_update_rcv_ann_wnd
<1>2. w \in Nat
  <2>1. p.edge - p.rcv_nxt \in Int /\ p.rcv_wnd \in Nat  BY DEF PcbOk
  <2>2. Num(p.edge - p.rcv_nxt) \in Nat  BY <2>1, NumType
  <2> QED BY <2>1, <2>2
<1> HIDE DEF w
<1>3. PcbOk(h, q) /\ Same(p, q) /\ Idle(p, q)  BY <1>2 DEF PcbOk, QueueOk, Same, Idle, PcbFields
<1> QED BY <1>1, <1>3

(* Only the window has changed.                                            *)
SameButWindow(p, q) ==
    q.state = p.state /\ q.opt = p.opt /\ q.rxclosed = p.rxclosed /\ q.refused = p.refused

LEMMA RecvedOk ==
    ASSUME NEW h, NEW p, PcbOk(h, p), NEW len \in Nat
    PROVE  LET q == tcp_recved(p, len)
           IN  /\ PcbOk(h, q) /\ SameButWindow(p, q) /\ Idle(p, q)
               /\ p.rcv_wnd + len <= p.opt.wnd => q.rcv_wnd = p.rcv_wnd + len
<1> DEFINE w == Min({p.rcv_wnd + len, p.opt.wnd})
           q == [p EXCEPT !.rcv_wnd = w]
           inflation == IF Inflates(q) THEN Num(q.rcv_nxt + q.rcv_wnd - q.edge) ELSE 0
           r == tcp_update_rcv_ann_wnd(q)
           a == tcp_ack_now(r)
           o == tcp_output(a)
<1>1. tcp_recved(p, len) = IF inflation >= p.opt.wnd \div 4 THEN o ELSE r
  <2>1. q = [p EXCEPT !.rcv_wnd = Min({@ + len, p.opt.wnd})]  OBVIOUS
  <2> QED BY <2>1, Zenon DEF tcp_recved
<1>2. w \in Nat /\ (p.rcv_wnd + len <= p.opt.wnd => w = p.rcv_wnd + len)
  <2> DEFINE x == p.rcv_wnd + len
             y == p.opt.wnd
  <2>0. p.rcv_wnd \in Nat /\ p.opt \in Options  BY DEF PcbOk
  <2>1. x \in Nat /\ y \in Nat /\ w = Min({x, y})  BY <2>0 DEF Options
  <2> HIDE DEF x, y, w
  <2>2. w \in {x, y} /\ w <= x /\ w <= y  BY <2>1, MinOf
  <2>3. w \in Nat /\ (x <= y => w = x)  BY <2>1, <2>2
  <2> QED BY <2>3 DEF x, y
<1> HIDE DEF w
<1>3. PcbOk(h, q) /\ SameButWindow(p, q) /\ Idle(p, q) /\ q.rcv_wnd = w
  BY <1>2 DEF PcbOk, QueueOk, SameButWindow, Idle, PcbFields
<1> HIDE DEF q
<1>4. PcbOk(h, r) /\ Same(q, r) /\ Idle(q, r)  BY <1>3, UpdateAnnOk
<1> HIDE DEF r
<1>5. PcbOk(h, a) /\ Same(r, a) /\ Idle(r, a)  BY <1>4, AckNow
<1> HIDE DEF a
<1>6. PcbOk(h, o) /\ Same(a, o) /\ Idle(a, o)  BY <1>5, OutputOk
<1> HIDE DEF o, inflation
<1>7. PcbOk(h, r) /\ SameButWindow(p, r) /\ Idle(p, r) /\ r.rcv_wnd = w
  BY <1>3, <1>4 DEF Same, SameButWindow, Idle
<1>8. PcbOk(h, o) /\ SameButWindow(p, o) /\ Idle(p, o) /\ o.rcv_wnd = w
  BY <1>5, <1>6, <1>7 DEF Same, SameButWindow, Idle
<1> QED BY <1>1, <1>2, <1>7, <1>8

LEMMA AllocOk ==
    ASSUME NEW h, NEW opt \in Options, NEW iss \in Int
    PROVE  PcbOk(h, tcp_alloc(opt, iss))
<1> DEFINE p == tcp_alloc(opt, iss)
<1>1. NoData \in Pieces  BY DEF NoData, Pieces
<1>2. opt.wnd \in Nat /\ opt.buf \in Int  BY DEF Options
<1>3. /\ DOMAIN p = PcbFields /\ p.state = "CLOSED" /\ p.opt = opt /\ p.rxclosed = FALSE
      /\ p.rcv_nxt = 0 /\ p.edge = 0 /\ p.snd_nxt = iss /\ p.lastack = iss
      /\ p.snd_lbb = iss /\ p.snd_buf = opt.buf /\ p.rcv_wnd = opt.wnd
      /\ p.rcv_ann_wnd = opt.wnd /\ p.snd_wnd_max = 0 /\ p.refused = NoData
      /\ p.unsent = <<>> /\ p.unacked = <<>> /\ p.out = <<>>
  BY DEF tcp_alloc, PcbFields
<1> HIDE DEF p
<1>4. QueueOk(h, p)  BY <1>3 DEF QueueOk
<1>5. p.state \in States(h)  BY <1>3 DEF States
<1>6. p.out \in Seq(Packets(h))  BY <1>3
<1>7. /\ p.opt \in Options /\ p.rxclosed \in BOOLEAN /\ p.rcv_nxt \in Int /\ p.edge \in Int
      /\ p.snd_nxt \in Int /\ p.lastack \in Int /\ p.snd_lbb \in Int /\ p.snd_buf \in Int
      /\ p.rcv_wnd \in Nat /\ p.rcv_ann_wnd \in Nat /\ p.snd_wnd_max \in Nat
      /\ p.refused \in Pieces /\ DOMAIN p = PcbFields
  <2>1. p.rxclosed \in BOOLEAN  BY <1>3
  <2>2. p.refused \in Pieces /\ DOMAIN p = PcbFields /\ p.opt \in Options  BY <1>1, <1>3
  <2>3. p.rcv_nxt \in Int /\ p.edge \in Int /\ p.snd_wnd_max \in Nat  BY <1>3
  <2>4. p.snd_nxt \in Int /\ p.lastack \in Int /\ p.snd_lbb \in Int  BY <1>3
  <2>5. p.snd_buf \in Int  BY <1>2, <1>3
  <2>6. p.rcv_wnd \in Nat /\ p.rcv_ann_wnd \in Nat  BY <1>2, <1>3
  <2> QED BY <2>1, <2>2, <2>3, <2>4, <2>5, <2>6
<1>8. PcbOk(h, p)  BY <1>4, <1>5, <1>6, <1>7 DEF PcbOk
<1> QED BY <1>8 DEF p

LEMMA GoneOk ==
    ASSUME NEW h, NEW p, PcbOk(h, p)
    PROVE  PcbOk(h, Gone(p)) /\ Gone(p).state = "CLOSED" /\ Gone(p).opt = p.opt
<1> DEFINE a == tcp_alloc(p.opt, 0)
           q == [a EXCEPT !.out = p.out]
<1>1. Gone(p) = q  BY DEF Gone
<1>2. PcbOk(h, a)
  <2>1. p.opt \in Options /\ 0 \in Int  BY DEF PcbOk
  <2> QED BY <2>1, AllocOk
<1>3. a.state = "CLOSED" /\ a.opt = p.opt  BY DEF tcp_alloc
<1> HIDE DEF a
<1>4. PcbOk(h, q) /\ q.state = a.state /\ q.opt = a.opt
  BY <1>2 DEF PcbOk, QueueOk, PcbFields
<1> QED BY <1>1, <1>3, <1>4

LEMMA NobodyOk ==
    ASSUME NEW h \in Host, NEW opt \in Options
    PROVE  /\ PcbOk(h, Nobody(h, opt)) /\ Nobody(h, opt).opt = opt
           /\ Nobody(h, opt).state \in {"CLOSED", "LISTEN"}
           /\ Nobody(h, opt).state = "LISTEN" => h = "server"
<1> DEFINE a == tcp_alloc(opt, 0)
           st == IF h = "client" THEN "CLOSED" ELSE "LISTEN"
           q == [a EXCEPT !.state = st]
<1>1. Nobody(h, opt) = q  BY DEF Nobody
<1>2. PcbOk(h, a)  BY AllocOk
<1>3. a.unsent = <<>> /\ a.unacked = <<>> /\ a.opt = opt  BY DEF tcp_alloc
<1>4. st \in States(h) /\ st \in {"CLOSED", "LISTEN"} /\ (st = "LISTEN" => h = "server")
  BY DEF Host, States
<1> HIDE DEF a, st
<1>5. /\ DOMAIN q = PcbFields /\ q.state = st
      /\ \A f \in PcbFields \ {"state"} : q[f] = a[f]
  BY <1>2 DEF PcbOk, PcbFields
<1> HIDE DEF q
<1>6. /\ q.opt = a.opt /\ q.rxclosed = a.rxclosed /\ q.rcv_nxt = a.rcv_nxt /\ q.edge = a.edge
      /\ q.snd_nxt = a.snd_nxt /\ q.lastack = a.lastack /\ q.snd_lbb = a.snd_lbb
      /\ q.snd_buf = a.snd_buf /\ q.rcv_wnd = a.rcv_wnd /\ q.rcv_ann_wnd = a.rcv_ann_wnd
      /\ q.snd_wnd_max = a.snd_wnd_max /\ q.refused = a.refused /\ q.unsent = a.unsent
      /\ q.unacked = a.unacked /\ q.out = a.out
  BY <1>5 DEF PcbFields
<1>7. QueueOk(h, q)  BY <1>3, <1>6 DEF QueueOk
<1>8. PcbOk(h, q)  BY <1>2, <1>4, <1>5, <1>6, <1>7 DEF PcbOk
<1> QED BY <1>1, <1>3, <1>4, <1>5, <1>6, <1>8

(* While it connects a client has sent its SYN and queued nothing else.    *)
SynOk(p) ==
    p.state = "SYN_SENT" =>
        /\ p.unsent = <<>> /\ Len(p.unacked) = 1
        /\ p.unacked[1].seq = p.lastack /\ p.unacked[1].data = <<>>
        /\ p.snd_wnd \in Nat

LEMMA SynSends ==
    ASSUME NEW h, NEW p, PcbOk(h, p), p.state = "SYN_SENT", p.unacked = <<>>,
           NEW s, p.unsent = <<s>>, s.seq = p.lastack, s.data = <<>>,
           p.snd_wnd \in Nat, p.cwnd \in Nat
    PROVE  SynOk(tcp_output(p))
<1> DEFINE wnd == Min({p.snd_wnd, p.cwnd})
           Goes(i) == /\ Num(p.unsent[i].seq - p.lastack + Len(p.unsent[i].data)) <= wnd
                      /\ NagleAllows(p, i) \/ p.memerr \/ p.finq
           G == {i \in 1 .. Len(p.unsent) : Goes(i)}
           S == Segments(h, p.state, Limit(p.opt, p.snd_wnd_max))
<1>1. wnd \in Nat
  <2>0. p.snd_wnd \in Int /\ p.cwnd \in Int  OBVIOUS
  <2>1. wnd \in {p.snd_wnd, p.cwnd}  BY <2>0, MinOf
  <2> QED BY <2>1
<1>2. Num(p.unsent[1].seq - p.lastack + Len(p.unsent[1].data)) = 0
  <2>1. p.unsent[1] = s /\ Len(<<>>) = 0 /\ p.lastack \in Int  BY DEF PcbOk
  <2>2. p.unsent[1].seq - p.lastack + Len(p.unsent[1].data) = 0  BY <2>1
  <2> QED BY <2>2, TcpPcbAssumption DEF Num
<1>3. NagleAllows(p, 1)  BY DEF NagleAllows
<1>4. Len(p.unsent) = 1 /\ p.unsent \in Seq(S)  BY DEF PcbOk, QueueOk
<1>5. 1 \in G  BY <1>1, <1>2, <1>3, <1>4
<1>6. Sends(p) = Leading(p.unsent, G)  BY Zenon DEF Sends
<1>7. ~OnlyAck(p)
  <2>1. p.unsent # <<>>  OBVIOUS
  <2> QED BY <1>1, <1>2, <2>1 DEF OnlyAck
<1> HIDE DEF G, S, wnd
<1>8. Sends(p) = 1
  <2>1. Leading(p.unsent, G) \in 0 .. Len(p.unsent)
        /\ \A n \in 0 .. Len(p.unsent) : 1 .. n \subseteq G => n <= Leading(p.unsent, G)
    BY <1>4, LeadingType
  <2>2. 1 .. 1 \subseteq G /\ 1 \in 0 .. Len(p.unsent)  BY <1>4, <1>5
  <2>3. 1 <= Leading(p.unsent, G)  BY <2>1, <2>2
  <2> QED BY <1>4, <1>6, <2>1, <2>3
<1> DEFINE n == Sends(p)
           sent == SubSeq(p.unsent, 1, n)
           synced == p.state # "SYN_SENT"
           wire == [i \in 1 .. n |-> Wire(p, sent[i].seq, sent[i].data, sent[i].syn,
                                          sent[i].fin, synced)]
           last == EndOf(sent[n])
           e == Emit(p, wire)
           t == [e EXCEPT !.unsent = SubSeq(@, n + 1, Len(@)),
                          !.unacked = FileAll(@, sent),
                          !.snd_nxt = IF TCP_SEQ_LT(@, last) THEN last ELSE @,
                          !.ack = IF synced THEN {} ELSE @,
                          !.rtime = TRUE, !.memerr = FALSE]
<1>9. tcp_output(p) = t
  <2>1. tcp_output(p) = IF OnlyAck(p) THEN tcp_send_empty_ack(p)
                        ELSE IF n = 0 THEN [p EXCEPT !.memerr = FALSE] ELSE t
    BY DEF tcp_output
  <2>2. n # 0  BY <1>8
  <2> QED BY <1>7, <2>1, <2>2
<1>10. sent = <<s>>
  <2>1. sent = SubSeq(<<s>>, 1, 1)  BY <1>8
  <2>2. SubSeq(<<s>>, 1, 1) = <<s>>
    <3> DEFINE b == <<s>>
    <3>1. b \in Seq({s}) /\ Len(b) = 1  OBVIOUS
    <3> HIDE DEF b
    <3>2. SubSeq(b, 1, Len(b)) = b  BY <3>1, SubSeqFull
    <3> QED BY <3>1, <3>2 DEF b
  <2> QED BY <2>1, <2>2
<1>15. n = 1  BY <1>8
<1> HIDE DEF n, sent, wire, last, synced
<1>11. /\ DOMAIN e = PcbFields /\ e.unsent = <<s>> /\ e.unacked = <<>>
       /\ e.lastack = p.lastack /\ e.snd_wnd = p.snd_wnd /\ e.state = p.state
  BY DEF Emit, PcbOk, PcbFields
<1> HIDE DEF e
<1>12. t.unsent = SubSeq(<<s>>, 1 + 1, Len(<<s>>)) /\ t.unacked = FileAll(<<>>, sent)
       /\ t.lastack = e.lastack /\ t.snd_wnd = e.snd_wnd
       /\ t.state = e.state
  BY <1>11, <1>15 DEF PcbFields
<1> HIDE DEF t
<1>13. SubSeq(<<s>>, 1 + 1, Len(<<s>>)) = <<>>  OBVIOUS
<1>14. t.unacked = <<s>>  BY <1>10, <1>12, FileAllOne
<1>16. Len(<<s>>) = 1 /\ <<s>>[1] = s  OBVIOUS
<1>17. SynOk(t)  BY <1>11, <1>12, <1>13, <1>14, <1>16 DEF SynOk
<1> QED BY <1>9, <1>17

LEMMA SynStays ==
    ASSUME NEW p, NEW q, SynOk(p), Same(p, q), Idle(p, q)
    PROVE  SynOk(q)
BY DEF SynOk, Same, Idle

LEMMA ConnectOk ==
    ASSUME NEW opt \in Options, NEW iss \in Int
    PROVE  LET p == Nobody("client", opt)
               q == tcp_connect(p, iss)
           IN  /\ PcbOk("client", q) /\ SynOk(q)
               /\ q.state = "SYN_SENT" /\ q.opt = opt /\ q.refused = NoData
               /\ q.rcv_wnd = opt.wnd
<1> DEFINE p == Nobody("client", opt)
           lbb == Num(iss - 1)
           th == 10 * opt.mss
           q == [p EXCEPT !.snd_nxt = iss, !.lastack = lbb, !.snd_lbb = lbb,
                          !.snd_wnd = opt.wnd, !.ssthresh = th]
           s == [seq |-> lbb, data |-> <<>>, syn |-> TRUE, fin |-> FALSE]
           r == [tcp_enqueue_flags(q, TRUE, FALSE) EXCEPT !.state = "SYN_SENT"]
<1>1. PcbOk("client", p) /\ p.opt = opt  BY NobodyOk DEF Host
<1>2. tcp_connect(p, iss) = tcp_output(r)
  <2> HIDE DEF p
  <2>1. p.opt = opt  BY <1>1
  <2> QED BY <2>1 DEF tcp_connect
<1>3. lbb \in Int  BY TcpPcbAssumption DEF Num
<1>4. /\ p.refused = NoData /\ p.rcv_wnd = opt.wnd /\ p.unsent = <<>> /\ p.unacked = <<>>
      /\ p.cwnd = 1
  BY DEF Nobody, tcp_alloc
<1> HIDE DEF p, lbb, th
<1>5. /\ DOMAIN q = PcbFields /\ q.lastack = lbb /\ q.snd_lbb = lbb /\ q.snd_nxt = iss
      /\ q.snd_wnd = opt.wnd /\ q.unsent = p.unsent /\ q.unacked = p.unacked /\ q.cwnd = p.cwnd
      /\ q.opt = p.opt /\ q.rxclosed = p.rxclosed /\ q.rcv_nxt = p.rcv_nxt /\ q.edge = p.edge
      /\ q.snd_buf = p.snd_buf /\ q.rcv_wnd = p.rcv_wnd /\ q.rcv_ann_wnd = p.rcv_ann_wnd
      /\ q.snd_wnd_max = p.snd_wnd_max /\ q.refused = p.refused /\ q.out = p.out
  BY <1>1 DEF PcbOk, PcbFields
<1> HIDE DEF q
<1>6. /\ DOMAIN r = PcbFields /\ r.state = "SYN_SENT" /\ r.snd_lbb = Num(q.snd_lbb + 1)
      /\ r.unsent = Append(q.unsent, [seq |-> q.snd_lbb, data |-> <<>>, syn |-> TRUE,
                                      fin |-> FALSE])
      /\ r.snd_buf = q.snd_buf - 1
      /\ r.unacked = q.unacked /\ r.lastack = q.lastack /\ r.snd_wnd = q.snd_wnd
      /\ r.cwnd = q.cwnd
      /\ r.opt = q.opt /\ r.rxclosed = q.rxclosed /\ r.rcv_nxt = q.rcv_nxt /\ r.edge = q.edge
      /\ r.snd_nxt = q.snd_nxt /\ r.rcv_wnd = q.rcv_wnd /\ r.rcv_ann_wnd = q.rcv_ann_wnd
      /\ r.snd_wnd_max = q.snd_wnd_max /\ r.refused = q.refused /\ r.out = q.out
  BY <1>5 DEF tcp_enqueue_flags, PcbFields
<1> HIDE DEF r
<1>7. Limit(opt, p.snd_wnd_max) \in Nat  BY <1>1, LimitType DEF PcbOk
<1>8. r.unsent = <<s>>  BY <1>4, <1>5, <1>6
<1>9. s.seq = lbb /\ s.data = <<>>  OBVIOUS
<1>10. QueueOk("client", r)
  <2> DEFINE S == Segments("client", r.state, Limit(r.opt, r.snd_wnd_max))
  <2>1. s \in S
    <3>1. <<>> \in Seq(Nat) /\ Len(<<>>) = 0  OBVIOUS
    <3>2. Limit(r.opt, r.snd_wnd_max) = Limit(opt, p.snd_wnd_max)  BY <1>1, <1>5, <1>6
    <3> QED BY <1>3, <1>6, <1>7, <3>1, <3>2 DEF Segments
  <2> HIDE DEF S, s
  <2>2. r.unsent \in Seq(S) /\ r.unacked \in Seq(S)  BY <1>4, <1>5, <1>6, <1>8, <2>1
  <2> QED BY <2>2 DEF QueueOk, S
<1> HIDE DEF s
<1>11. r.snd_lbb \in Int /\ r.snd_buf \in Int
  <2>1. p.snd_buf \in Int  BY <1>1 DEF PcbOk
  <2> QED BY <1>3, <1>5, <1>6, <2>1, TcpPcbAssumption DEF Num
<1>12. "SYN_SENT" \in States("client")  BY DEF States
<1>13. PcbOk("client", r)
  BY <1>1, <1>3, <1>5, <1>6, <1>10, <1>11, <1>12 DEF PcbOk
<1>14. opt.wnd \in Nat  BY DEF Options
<1>15. SynOk(tcp_output(r))
  <2>1. r.snd_wnd \in Nat /\ r.cwnd \in Nat /\ r.unacked = <<>> /\ s.seq = r.lastack
    BY <1>4, <1>5, <1>6, <1>9, <1>14
  <2> QED BY <1>6, <1>8, <1>9, <1>13, <2>1, SynSends
<1>16. PcbOk("client", tcp_output(r)) /\ Same(r, tcp_output(r))  BY <1>13, OutputOk
<1> QED BY <1>1, <1>2, <1>4, <1>5, <1>6, <1>15, <1>16 DEF Same, p

(* A control block in another state, of a client that has connected or of  *)
(* the server.                                                             *)
LEMMA NewState ==
    ASSUME NEW h \in Host, NEW p, PcbOk(h, p), p.state # "SYN_SENT",
           NEW st \in States(h), st # "SYN_SENT"
    PROVE  LET q == [p EXCEPT !.state = st]
           IN  /\ PcbOk(h, q) /\ q.state = st /\ q.opt = p.opt /\ q.rxclosed = p.rxclosed
               /\ q.rcv_wnd = p.rcv_wnd /\ q.refused = p.refused
<1> DEFINE q == [p EXCEPT !.state = st]
<1>1. /\ DOMAIN q = PcbFields /\ q.state = st
      /\ q.opt = p.opt /\ q.rxclosed = p.rxclosed /\ q.rcv_nxt = p.rcv_nxt /\ q.edge = p.edge
      /\ q.snd_nxt = p.snd_nxt /\ q.lastack = p.lastack /\ q.snd_lbb = p.snd_lbb
      /\ q.snd_buf = p.snd_buf /\ q.rcv_wnd = p.rcv_wnd /\ q.rcv_ann_wnd = p.rcv_ann_wnd
      /\ q.snd_wnd_max = p.snd_wnd_max /\ q.refused = p.refused /\ q.unsent = p.unsent
      /\ q.unacked = p.unacked /\ q.out = p.out
  BY DEF PcbOk, PcbFields
<1> HIDE DEF q
<1>2. Segments(h, st, Limit(p.opt, p.snd_wnd_max))
        = Segments(h, p.state, Limit(p.opt, p.snd_wnd_max))
  BY DEF Segments
<1>3. QueueOk(h, q)  BY <1>1, <1>2 DEF QueueOk, PcbOk
<1>4. PcbOk(h, q)  BY <1>1, <1>3 DEF PcbOk
<1> QED BY <1>1, <1>4 DEF q

LEMMA PurgeOk ==
    ASSUME NEW h, NEW p, PcbOk(h, p)
    PROVE  LET q == tcp_pcb_purge(p)
           IN  PcbOk(h, q) /\ q.state = p.state /\ q.opt = p.opt /\ q.rxclosed = p.rxclosed
<1> DEFINE q == [p EXCEPT !.refused = NoData, !.rtime = FALSE,
                          !.unsent = <<>>, !.unacked = <<>>]
<1>1. NoData \in Pieces  BY DEF NoData, Pieces
<1>2. PcbOk(h, q) /\ q.state = p.state /\ q.opt = p.opt /\ q.rxclosed = p.rxclosed
  BY <1>1 DEF PcbOk, QueueOk, PcbFields
<1> HIDE DEF q
<1>3. tcp_pcb_purge(p) = IF p.state \in {"CLOSED", "TIME_WAIT", "LISTEN"} THEN p ELSE q
  BY DEF tcp_pcb_purge, q
<1> QED BY <1>2, <1>3

LEMMA CloseOk ==
    ASSUME NEW h \in Host, NEW p, PcbOk(h, p), p.state \notin {"CLOSED", "LISTEN"},
           NEW rst \in BOOLEAN
    PROVE  LET q == tcp_close_shutdown(p, rst)
           IN  /\ PcbOk(h, q) /\ q.opt = p.opt /\ q.state # "SYN_SENT"
               /\ q.rxclosed = p.rxclosed \/ q.state = "CLOSED"
               /\ \/ q.state \in {"CLOSED", "TIME_WAIT"}
                  \/ q.rcv_wnd = p.rcv_wnd /\ q.refused = p.refused
<1> DEFINE next == CASE p.state \in {"SYN_RCVD", "ESTABLISHED"} -> "FIN_WAIT_1"
                     [] p.state = "CLOSE_WAIT" -> "LAST_ACK"
                     [] OTHER -> p.state
           unread == /\ rst /\ p.state \in {"ESTABLISHED", "CLOSE_WAIT"}
                     /\ p.refused # NoData \/ p.rcv_wnd # p.opt.wnd
           answered == tcp_rst(p, p.snd_nxt, p.rcv_nxt)
           reset == tcp_pcb_purge(answered)
           waits == [reset EXCEPT !.state = "TIME_WAIT"]
           held == [p EXCEPT !.memerr = @ \/ QueueLen(p) >= TCP_SND_QUEUELEN]
           fin == tcp_send_fin(p)
           moved == [fin EXCEPT !.state = next]
           sent == tcp_output(moved)
           Ok(q) == /\ PcbOk(h, q) /\ q.opt = p.opt /\ q.state # "SYN_SENT"
                    /\ q.rxclosed = p.rxclosed \/ q.state = "CLOSED"
                    /\ \/ q.state \in {"CLOSED", "TIME_WAIT"}
                       \/ q.rcv_wnd = p.rcv_wnd /\ q.refused = p.refused
<1>1. tcp_close_shutdown(p, rst) =
        IF unread THEN IF p.state = "CLOSE_WAIT" THEN Gone(reset) ELSE waits
        ELSE IF p.state \in {"CLOSED", "SYN_SENT"} THEN Gone(p)
        ELSE IF next = p.state THEN p
        ELSE IF ~Piggybacks(p) /\ ~CanEnqueue(p) THEN held ELSE sent
  BY Zenon DEF tcp_close_shutdown
<1>2. PcbOk(h, reset) /\ reset.opt = p.opt /\ reset.state = p.state /\ reset.rxclosed = p.rxclosed
  <2>1. p.snd_nxt \in Int /\ p.rcv_nxt \in Int  BY DEF PcbOk
  <2>2. PcbOk(h, answered) /\ Same(p, answered)  BY <2>1, RstOk
  <2> HIDE DEF answered
  <2> QED BY <2>2, PurgeOk DEF Same
<1> HIDE DEF reset
<1>3. PcbOk(h, Gone(reset)) /\ Gone(reset).state = "CLOSED" /\ Gone(reset).opt = p.opt
  BY <1>2, GoneOk
<1>4. PcbOk(h, Gone(p)) /\ Gone(p).state = "CLOSED" /\ Gone(p).opt = p.opt
  BY GoneOk
<1>5. p.state \in {"ESTABLISHED", "CLOSE_WAIT"} => Ok(waits)
  <2>1. "TIME_WAIT" \in States(h)  BY DEF States
  <2> QED BY <1>2, <2>1, NewState
<1> HIDE DEF waits
<1>6. PcbOk(h, held) /\ Same(p, held)  BY DEF PcbOk, QueueOk, Same, PcbFields
<1> HIDE DEF held
<1>7. next \in States(h) /\ (p.state # "SYN_SENT" => next # "SYN_SENT")
  <2>1. p.state \in States(h) /\ "FIN_WAIT_1" \in States(h) /\ "LAST_ACK" \in States(h)
    BY DEF States, PcbOk
  <2>2. CASE p.state \in {"SYN_RCVD", "ESTABLISHED"}
    <3>1. next = "FIN_WAIT_1"  BY <2>2
    <3> QED BY <2>1, <3>1
  <2>3. CASE p.state = "CLOSE_WAIT"
    <3>1. next = "LAST_ACK"  BY <2>3
    <3> QED BY <2>1, <3>1
  <2>4. CASE p.state \notin {"SYN_RCVD", "ESTABLISHED", "CLOSE_WAIT"}
    <3>1. next = p.state  BY <2>4
    <3> QED BY <2>1, <3>1
  <2> QED BY <2>2, <2>3, <2>4
<1> HIDE DEF next
<1>8. p.state # "SYN_SENT" => Ok(sent)
  <2> SUFFICES ASSUME p.state # "SYN_SENT" PROVE Ok(sent)  OBVIOUS
  <2>1. PcbOk(h, fin) /\ Same(p, fin)  BY SendFinOk
  <2> HIDE DEF fin
  <2>2. /\ PcbOk(h, moved) /\ moved.state = next /\ moved.opt = fin.opt
        /\ moved.rxclosed = fin.rxclosed /\ moved.rcv_wnd = fin.rcv_wnd
        /\ moved.refused = fin.refused
    BY <1>7, <2>1, NewState DEF Same
  <2> HIDE DEF moved
  <2>3. PcbOk(h, sent) /\ Same(moved, sent)  BY <2>2, OutputOk
  <2> HIDE DEF sent
  <2> QED BY <1>7, <2>1, <2>2, <2>3 DEF Same
<1> HIDE DEF sent
<1>9. p.state # "SYN_SENT" => Ok(p) /\ Ok(held)  BY <1>6 DEF Same
<1>10. Ok(Gone(p)) /\ Ok(Gone(reset))  BY <1>3, <1>4
<1>11. unread => p.state \in {"ESTABLISHED", "CLOSE_WAIT"}  OBVIOUS
<1> HIDE DEF Ok, unread
<1>12. Ok(tcp_close_shutdown(p, rst))  BY <1>1, <1>5, <1>8, <1>9, <1>10, <1>11
<1> QED BY <1>12 DEF Ok

-----------------------------------------------------------------------------
(* A segment arrives.                                                      *)
LEMMA UpdateWindowOk ==
    ASSUME NEW h, NEW p, PcbOk(h, p), NEW g, NEW s \in Packets(g)
    PROVE  PcbOk(h, UpdateWindow(p, s)) /\ Same(p, UpdateWindow(p, s))
<1> DEFINE max == Max({p.snd_wnd_max, s.wnd})
           zero == s.wnd = 0
           q == [p EXCEPT !.snd_wnd = s.wnd, !.snd_wnd_max = max, !.snd_wl1 = s.seq,
                          !.snd_wl2 = s.ack, !.persist = zero]
           S == Segments(h, p.state, Limit(p.opt, p.snd_wnd_max))
           T == Segments(h, p.state, Limit(p.opt, max))
<1>1. UpdateWindow(p, s) = IF ~WindowNews(p, s) THEN p ELSE q  BY DEF UpdateWindow
<1>2. max \in Nat /\ p.snd_wnd_max <= max
  <2>1. p.snd_wnd_max \in Nat /\ s.wnd \in Nat  BY DEF PcbOk, Packets
  <2> QED BY <2>1, MaxOfTwo
<1> HIDE DEF max, zero
<1>3. Limit(p.opt, p.snd_wnd_max) <= Limit(p.opt, max)
  <2>1. p.opt \in Options /\ p.snd_wnd_max \in Nat  BY DEF PcbOk
  <2> QED BY <1>2, <2>1, LimitGrows
<1>4. Limit(p.opt, p.snd_wnd_max) \in Nat /\ Limit(p.opt, max) \in Nat
  <2>1. p.opt \in Options /\ p.snd_wnd_max \in Nat  BY DEF PcbOk
  <2> QED BY <1>2, <2>1, LimitType
<1>5. S \subseteq T
  <2> SUFFICES ASSUME NEW x \in S PROVE x \in T  OBVIOUS
  <2>1. Len(x.data) \in Nat  BY DEF Segments
  <2> QED BY <1>3, <1>4, <2>1 DEF Segments
<1>6. p.unsent \in Seq(T) /\ p.unacked \in Seq(T)
  <2>1. p.unsent \in Seq(S) /\ p.unacked \in Seq(S)  BY DEF PcbOk, QueueOk
  <2> HIDE DEF S, T
  <2> QED BY <1>5, <2>1, SeqMonotonic
<1>7. /\ DOMAIN q = PcbFields /\ q.state = p.state /\ q.snd_wnd_max = max
      /\ q.opt = p.opt /\ q.rxclosed = p.rxclosed /\ q.rcv_nxt = p.rcv_nxt /\ q.edge = p.edge
      /\ q.snd_nxt = p.snd_nxt /\ q.lastack = p.lastack /\ q.snd_lbb = p.snd_lbb
      /\ q.snd_buf = p.snd_buf /\ q.rcv_wnd = p.rcv_wnd /\ q.rcv_ann_wnd = p.rcv_ann_wnd
      /\ q.refused = p.refused /\ q.unsent = p.unsent
      /\ q.unacked = p.unacked /\ q.out = p.out
  BY DEF PcbOk, PcbFields
<1> HIDE DEF q
<1>8. QueueOk(h, q)  BY <1>6, <1>7 DEF QueueOk
<1>9. PcbOk(h, q) /\ Same(p, q)  BY <1>2, <1>7, <1>8 DEF PcbOk, Same
<1>10. Same(p, p)  BY DEF Same
<1> QED BY <1>1, <1>9, <1>10

LEMMA DuplicateOk ==
    ASSUME NEW h, NEW p, PcbOk(h, p)
    PROVE  PcbOk(h, CountDuplicate(p)) /\ Same(p, CountDuplicate(p))
<1> DEFINE n == Min({p.dupacks + 1, 4})
           q == [p EXCEPT !.dupacks = n]
           w == Min({q.cwnd + p.opt.mss, MaxCwnd})
           t == [q EXCEPT !.cwnd = w]
<1>1. CountDuplicate(p) = CASE p.dupacks >= 3 -> t
                            [] p.dupacks = 2 -> tcp_rexmit_fast(q)
                            [] OTHER -> q
  BY DEF CountDuplicate
<1> HIDE DEF n
<1>2. PcbOk(h, q) /\ Same(p, q)  BY DEF PcbOk, QueueOk, Same, PcbFields
<1> HIDE DEF q, w
<1>3. PcbOk(h, t) /\ Same(q, t)  BY <1>2 DEF PcbOk, QueueOk, Same, PcbFields
<1> HIDE DEF t
<1>4. PcbOk(h, tcp_rexmit_fast(q)) /\ Same(q, tcp_rexmit_fast(q))  BY <1>2, RexmitFastOk
<1>5. Same(p, t) /\ Same(p, tcp_rexmit_fast(q))  BY <1>2, <1>3, <1>4 DEF Same
<1> QED BY <1>1, <1>2, <1>3, <1>4, <1>5

LEMMA AckNewOk ==
    ASSUME NEW h, NEW p, PcbOk(h, p), NEW g, NEW s \in Packets(g)
    PROVE  PcbOk(h, AckNew(p, s)) /\ Same(p, AckNew(p, s))
<1> DEFINE kept == Unacknowledged(p.unacked, s.ack)
           w == Opened(p)
           some == kept # <<>>
           freed == Num(s.ack - p.lastack)
           q == [p EXCEPT !.infr = FALSE, !.nrtx = 0, !.dupacks = 0, !.cwnd = w,
                          !.snd_buf = @ + freed, !.lastack = s.ack,
                          !.unacked = kept, !.rtime = some]
           S == Segments(h, p.state, Limit(p.opt, p.snd_wnd_max))
           G == {i \in 1 .. Len(p.unacked) : TCP_SEQ_LEQ(EndOf(p.unacked[i]), s.ack)}
<1>1. AckNew(p, s) = q  BY DEF AckNew
<1>2. p.unsent \in Seq(S) /\ p.unacked \in Seq(S)  BY DEF PcbOk, QueueOk
<1>3. kept = SubSeq(p.unacked, Leading(p.unacked, G) + 1, Len(p.unacked))
  BY Zenon DEF Unacknowledged
<1> HIDE DEF G, S
<1>4. kept \in Seq(S)
  <2>1. Leading(p.unacked, G) \in Nat /\ Len(p.unacked) \in Nat
    <3>1. Len(p.unacked) \in Nat  BY <1>2
    <3>2. Leading(p.unacked, G) \in 0 .. Len(p.unacked)  BY <1>2, LeadingType
    <3> QED BY <3>1, <3>2
  <2>2. SubSeq(p.unacked, Leading(p.unacked, G) + 1, Len(p.unacked)) \in Seq(S)
    BY <1>2, <2>1, PartType
  <2> QED BY <1>3, <2>2
<1> HIDE DEF kept, w, some
<1>5. s.ack \in Int /\ freed \in Int
  <2>1. s.ack \in Int /\ p.lastack \in Int  BY DEF PcbOk, Packets
  <2> QED BY <2>1, TcpPcbAssumption DEF Num
<1> HIDE DEF freed
<1>6. p.snd_buf + freed \in Int  BY <1>5 DEF PcbOk
<1>7. /\ DOMAIN q = PcbFields /\ q.state = p.state /\ q.snd_wnd_max = p.snd_wnd_max
      /\ q.opt = p.opt /\ q.rxclosed = p.rxclosed /\ q.rcv_nxt = p.rcv_nxt /\ q.edge = p.edge
      /\ q.snd_nxt = p.snd_nxt /\ q.lastack = s.ack /\ q.snd_lbb = p.snd_lbb
      /\ q.snd_buf = p.snd_buf + freed /\ q.rcv_wnd = p.rcv_wnd
      /\ q.rcv_ann_wnd = p.rcv_ann_wnd
      /\ q.refused = p.refused /\ q.unsent = p.unsent /\ q.unacked = kept /\ q.out = p.out
  BY DEF PcbOk, PcbFields
<1> HIDE DEF q
<1>8. QueueOk(h, q)  BY <1>2, <1>4, <1>7 DEF QueueOk, S
<1>9. PcbOk(h, q) /\ Same(p, q)  BY <1>5, <1>6, <1>7, <1>8 DEF PcbOk, Same
<1> QED BY <1>1, <1>9

LEMMA AckUnsentOk ==
    ASSUME NEW h, NEW p, PcbOk(h, p), NEW s
    PROVE  PcbOk(h, AckUnsent(p, s)) /\ Same(p, AckUnsent(p, s))
<1> DEFINE S == Segments(h, p.state, Limit(p.opt, p.snd_wnd_max))
           G == {i \in 1 .. Len(p.unsent) :
                    TCP_SEQ_BETWEEN(s.ack, EndOf(p.unsent[i]), p.snd_nxt)}
           kept == SubSeq(p.unsent, Leading(p.unsent, G) + 1, Len(p.unsent))
           q == [p EXCEPT !.unsent = kept]
<1>1. AckUnsent(p, s) = q  BY DEF AckUnsent
<1>2. p.unsent \in Seq(S) /\ p.unacked \in Seq(S)  BY DEF PcbOk, QueueOk
<1> HIDE DEF G, S
<1>3. kept \in Seq(S)
  <2>1. Leading(p.unsent, G) \in Nat /\ Len(p.unsent) \in Nat
    <3>1. Len(p.unsent) \in Nat  BY <1>2
    <3>2. Leading(p.unsent, G) \in 0 .. Len(p.unsent)  BY <1>2, LeadingType
    <3> QED BY <3>1, <3>2
  <2> QED BY <1>2, <2>1, PartType
<1> HIDE DEF kept
<1>4. /\ DOMAIN q = PcbFields /\ Same(p, q) /\ q.snd_wnd_max = p.snd_wnd_max
      /\ q.rcv_nxt = p.rcv_nxt /\ q.edge = p.edge /\ q.rcv_ann_wnd = p.rcv_ann_wnd
      /\ q.snd_nxt = p.snd_nxt /\ q.lastack = p.lastack
      /\ q.snd_lbb \in Int /\ q.snd_buf \in Int /\ q.out = p.out
      /\ q.unsent = kept /\ q.unacked = p.unacked
  BY DEF PcbOk, Same, PcbFields
<1> HIDE DEF q
<1>5. PcbOk(h, q)  BY <1>2, <1>3, <1>4, NewQueues DEF S
<1> QED BY <1>1, <1>4, <1>5

LEMMA AcknowledgeOk ==
    ASSUME NEW h, NEW old, NEW p, PcbOk(h, p), NEW g, NEW s \in Packets(g)
    PROVE  PcbOk(h, Acknowledge(old, p, s)) /\ Same(p, Acknowledge(old, p, s))
<1> DEFINE z == [p EXCEPT !.dupacks = 0]
           q == CASE DuplicateAck(old, p, s) -> CountDuplicate(p)
                  [] TCP_SEQ_LEQ(s.ack, p.lastack) /\ ~DuplicateAck(old, p, s) -> z
                  [] /\ ~TCP_SEQ_LEQ(s.ack, p.lastack)
                     /\ TCP_SEQ_BETWEEN(s.ack, p.lastack + 1, p.snd_nxt) -> AckNew(p, s)
                  [] OTHER -> p
<1>1. Acknowledge(old, p, s) = AckUnsent(q, s)  BY DEF Acknowledge
<1>2. PcbOk(h, z) /\ Same(p, z)  BY DEF PcbOk, QueueOk, Same, PcbFields
<1> HIDE DEF z
<1>3. PcbOk(h, CountDuplicate(p)) /\ Same(p, CountDuplicate(p))  BY DuplicateOk
<1>4. PcbOk(h, AckNew(p, s)) /\ Same(p, AckNew(p, s))  BY AckNewOk
<1>5. Same(p, p)  BY DEF Same
<1>6. PcbOk(h, q) /\ Same(p, q)
  <2> HIDE DEF Same
  <2>1. q \in {CountDuplicate(p), z, AckNew(p, s), p}  OBVIOUS
  <2> HIDE DEF q
  <2> QED BY <1>2, <1>3, <1>4, <1>5, <2>1
<1> HIDE DEF q
<1>7. PcbOk(h, AckUnsent(q, s)) /\ Same(q, AckUnsent(q, s))  BY <1>6, AckUnsentOk
<1> QED BY <1>1, <1>6, <1>7 DEF Same

LEMMA PacketType ==
    ASSUME NEW g, NEW s \in Packets(g)
    PROVE  /\ s.seq \in Int /\ s.ack \in Int /\ s.wnd \in Nat /\ s.data \in Seq(Nat)
           /\ Len(s.data) \in Nat /\ s.syn \in BOOLEAN /\ s.fin \in BOOLEAN
           /\ TCP_TCPLEN(s) \in Nat /\ Num(s.seq + TCP_TCPLEN(s)) \in Int
<1>1. /\ s.seq \in Int /\ s.ack \in Int /\ s.wnd \in Nat /\ s.data \in Seq(Nat)
      /\ s.syn \in BOOLEAN /\ s.fin \in BOOLEAN
  BY DEF Packets
<1>2. Len(s.data) \in Nat  BY <1>1
<1>3. TCP_TCPLEN(s) \in Nat  BY <1>2, LengthIs
<1>4. s.seq + TCP_TCPLEN(s) \in Int  BY <1>1, <1>3
<1> QED BY <1>1, <1>2, <1>3, <1>4, NumType

LEMMA TrimFrontOk ==
    ASSUME NEW h, NEW p, PcbOk(h, p), NEW g, NEW s \in Packets(g)
    PROVE  TrimFront(p, s) \in Packets(g) /\ TrimFront(p, s).syn = s.syn
<1> DEFINE m == Num(p.rcv_nxt - s.seq)
           data == SubSeq(s.data, m + 1, Len(s.data))
           t == [s EXCEPT !.seq = p.rcv_nxt, !.data = data]
<1>1. /\ p.rcv_nxt \in Int /\ s.seq \in Int /\ s.data \in Seq(Nat) /\ Len(s.data) \in Nat
      /\ s.fin \in BOOLEAN
  BY PacketType DEF PcbOk
<1>2. m \in Nat
  <2>1. p.rcv_nxt - s.seq \in Int  BY <1>1
  <2> QED BY <2>1, NumType
<1>3. TrimFront(p, s) \in {s, t}  BY DEF TrimFront
<1> HIDE DEF m
<1>4. data \in Seq(Nat)  BY <1>1, <1>2, PartType
<1> HIDE DEF data
<1>5. t \in Packets(g) /\ t.syn = s.syn  BY <1>1, <1>4 DEF Packets
<1> QED BY <1>3, <1>5

LEMMA TrimBackOk ==
    ASSUME NEW h, NEW p, PcbOk(h, p), NEW g, NEW s \in Packets(g), ~s.syn
    PROVE  LET t == TrimBack(p, s)
           IN  /\ t \in Packets(g) /\ ~t.syn
               /\ TCP_TCPLEN(t) <= p.rcv_wnd
               /\ TCP_TCPLEN(t) = Size([data |-> t.data, fin |-> t.fin])
<1> DEFINE n == Min({p.rcv_wnd, Len(s.data)})
           data == SubSeq(s.data, 1, n)
           u == [s EXCEPT !.fin = FALSE, !.data = data]
           t == TrimBack(p, s)
<1>1. /\ p.rcv_wnd \in Nat /\ s.seq \in Int /\ s.data \in Seq(Nat) /\ Len(s.data) \in Nat
      /\ s.fin \in BOOLEAN /\ TCP_TCPLEN(s) \in Nat
  BY PacketType DEF PcbOk
<1>2. n \in Nat /\ n <= p.rcv_wnd /\ n <= Len(s.data)
  <2>1. p.rcv_wnd \in Int /\ Len(s.data) \in Int  BY <1>1
  <2>2. n \in {p.rcv_wnd, Len(s.data)} /\ n <= p.rcv_wnd /\ n <= Len(s.data)  BY <2>1, MinOf
  <2> QED BY <1>1, <2>2
<1>3. t = IF TCP_TCPLEN(s) > p.rcv_wnd THEN u ELSE s  BY DEF TrimBack
<1> HIDE DEF n, t
<1>4. data \in Seq(Nat) /\ Len(data) = n
  <2>1. SubSeq(s.data, 0 + 1, n) \in Seq(Nat)  BY <1>1, <1>2, PartType
  <2>2. Len(data) = n  BY <1>1, <1>2
  <2> QED BY <2>1, <2>2
<1> HIDE DEF data
<1>5. u \in Packets(g) /\ u.syn = s.syn /\ u.data = data /\ u.fin = FALSE
  BY <1>1, <1>4 DEF Packets
<1> HIDE DEF u
<1>7. t \in Packets(g) /\ ~t.syn  BY <1>3, <1>5
<1>8. Len(t.data) \in Nat  BY <1>7, PacketType
<1>9. TCP_TCPLEN(t) = Size([data |-> t.data, fin |-> t.fin])
  <2> DEFINE piece == [data |-> t.data, fin |-> t.fin]
  <2>1. Size(piece) = Len(t.data) + IF t.fin THEN 1 ELSE 0  BY DEF Size
  <2>2. TCP_TCPLEN(t) = Len(t.data) + IF t.fin THEN 1 ELSE 0
    <3>1. CASE t.fin
      <4>1. TCP_TCPLEN(t) = Len(t.data) + 1  BY <1>8, <3>1, LengthIs
      <4> QED BY <3>1, <4>1
    <3>2. CASE ~t.fin
      <4>1. TCP_TCPLEN(t) = Len(t.data)  BY <1>7, <1>8, <3>2, LengthIs
      <4> QED BY <1>8, <3>2, <4>1
    <3> QED BY <3>1, <3>2
  <2> QED BY <2>1, <2>2
<1>10. TCP_TCPLEN(t) <= p.rcv_wnd
  <2>1. CASE TCP_TCPLEN(s) > p.rcv_wnd
    <3>1. t.data = data /\ t.fin = FALSE  BY <1>3, <1>5, <2>1
    <3>2. TCP_TCPLEN(t) = Len(t.data)  BY <1>7, <1>8, <3>1, LengthIs
    <3> QED BY <1>2, <1>4, <3>1, <3>2
  <2>2. CASE ~(TCP_TCPLEN(s) > p.rcv_wnd)  BY <1>1, <1>3, <2>2
  <2> QED BY <2>1, <2>2
<1> QED BY <1>7, <1>9, <1>10 DEF t

(* What handling a segment has made of the control block p: the window is  *)
(* smaller by what was accepted.                                           *)
Handles(h, p, r) ==
    /\ DOMAIN r = {"p", "recv", "flags"}
    /\ PcbOk(h, r.p) /\ SameButWindow(p, r.p)
    /\ r.recv \in Pieces /\ r.p.rcv_wnd + Size(r.recv) = p.rcv_wnd

LEMMA NothingSize == NoData \in Pieces /\ Size(NoData) = 0
BY DEF NoData, Pieces, Size

LEMMA PieceSize ==
    ASSUME NEW piece \in Pieces
    PROVE  /\ Size(piece) \in Nat /\ Len(piece.data) \in Nat
           /\ Size(piece) = Len(piece.data) + IF piece.fin THEN 1 ELSE 0
BY DEF Pieces, Size

(* A control block that was only acknowledged or sent from.                *)
LEMMA HandlesSame ==
    ASSUME NEW h, NEW p, NEW r, Handles(h, p, r), NEW q, PcbOk(h, q), Same(r.p, q)
    PROVE  LET x == [r EXCEPT !.p = q]
           IN  Handles(h, p, x) /\ x.p = q /\ x.recv = r.recv /\ x.flags = r.flags
BY DEF Handles, Same, SameButWindow

LEMMA InOrderOk ==
    ASSUME NEW h, NEW r, PcbOk(h, r.p), DOMAIN r = {"p", "recv", "flags"},
           NEW g, NEW s \in Packets(g), ~s.syn
    PROVE  Handles(h, r.p, InOrder(r, s)) /\ InOrder(r, s).flags = r.flags
<1> DEFINE p == r.p
           t == TrimBack(p, s)
           n == TCP_TCPLEN(t)
           end == EndOf(t)
           q == [p EXCEPT !.rcv_nxt = end, !.rcv_wnd = @ - n]
           u == tcp_ack(tcp_update_rcv_ann_wnd(q))
           piece == [data |-> t.data, fin |-> t.fin]
           x == [r EXCEPT !.p = u, !.recv = piece]
<1>1. InOrder(r, s) = x  BY DEF InOrder
<1>2. t \in Packets(g) /\ n <= p.rcv_wnd /\ n = Size(piece)  BY TrimBackOk
<1>3. end \in Int /\ n \in Nat /\ piece \in Pieces
  BY <1>2, PacketType DEF EndOf, Pieces
<1> HIDE DEF piece, n, end, t
<1>4. PcbOk(h, q) /\ SameButWindow(p, q) /\ q.rcv_wnd = p.rcv_wnd - n
  <2>1. p.rcv_wnd - n \in Nat  BY <1>2, <1>3 DEF PcbOk
  <2> QED BY <1>3, <2>1 DEF PcbOk, QueueOk, SameButWindow, PcbFields
<1> HIDE DEF q
<1>5. PcbOk(h, tcp_update_rcv_ann_wnd(q)) /\ Same(q, tcp_update_rcv_ann_wnd(q))
  BY <1>4, UpdateAnnOk
<1>6. PcbOk(h, u) /\ Same(tcp_update_rcv_ann_wnd(q), u)  BY <1>5, AckNow
<1>7. SameButWindow(p, u) /\ u.rcv_wnd = p.rcv_wnd - n
  BY <1>4, <1>5, <1>6 DEF Same, SameButWindow
<1> HIDE DEF u
<1>8. x.p = u /\ x.recv = piece /\ DOMAIN x = {"p", "recv", "flags"} /\ x.flags = r.flags
  OBVIOUS
<1> HIDE DEF x
<1>9. p.rcv_wnd \in Nat  BY DEF PcbOk
<1>10. u.rcv_wnd + Size(piece) = p.rcv_wnd  BY <1>2, <1>3, <1>7, <1>9
<1> QED BY <1>1, <1>3, <1>6, <1>7, <1>8, <1>10 DEF Handles

LEMMA TakeDataOk ==
    ASSUME NEW h, NEW r, PcbOk(h, r.p), DOMAIN r = {"p", "recv", "flags"}, r.recv = NoData,
           NEW g, NEW s \in Packets(g), ~s.syn
    PROVE  Handles(h, r.p, TakeData(r, s)) /\ TakeData(r, s).flags = r.flags
<1> DEFINE p == r.p
           t == TrimFront(p, s)
           q == IF TCP_SEQ_LT(t.seq, p.rcv_nxt) THEN tcp_ack_now(p) ELSE p
           b == [r EXCEPT !.p = q]
           e == tcp_send_empty_ack(q)
           c == [r EXCEPT !.p = e]
<1>1. TakeData(r, s) = IF InWindow(q, t.seq) /\ t.seq = q.rcv_nxt THEN InOrder(b, t) ELSE c
  BY DEF TakeData
<1>2. t \in Packets(g) /\ ~t.syn  BY TrimFrontOk
<1>3. PcbOk(h, q) /\ Same(p, q)  BY AckNow DEF Same
<1> HIDE DEF t, q
<1>4. PcbOk(h, e) /\ Same(q, e)  BY <1>3, EmptyAckOk
<1> HIDE DEF e
<1>5. /\ b.p = q /\ DOMAIN b = {"p", "recv", "flags"} /\ b.flags = r.flags
      /\ c.p = e /\ DOMAIN c = {"p", "recv", "flags"} /\ c.flags = r.flags
      /\ c.recv = NoData
  OBVIOUS
<1> HIDE DEF b, c
<1>6. Handles(h, q, InOrder(b, t)) /\ InOrder(b, t).flags = r.flags
  BY <1>2, <1>3, <1>5, InOrderOk
<1>7. Handles(h, p, InOrder(b, t))  BY <1>3, <1>6 DEF Handles, Same, SameButWindow
<1>8. p.rcv_wnd + 0 = p.rcv_wnd /\ e.rcv_wnd = p.rcv_wnd
  BY <1>3, <1>4 DEF PcbOk, Same
<1>9. Handles(h, p, c)
  BY <1>3, <1>4, <1>5, <1>8, NothingSize DEF Handles, Same, SameButWindow
<1> QED BY <1>1, <1>5, <1>6, <1>7, <1>9

LEMMA ReceiveOk ==
    ASSUME NEW h, NEW r, PcbOk(h, r.p), DOMAIN r = {"p", "recv", "flags"}, r.recv = NoData,
           NEW g, NEW s \in Packets(g), ~s.syn
    PROVE  /\ Handles(h, r.p, tcp_receive(r, s)) /\ tcp_receive(r, s).flags = r.flags
           /\ TCP_TCPLEN(s) = 0 => tcp_receive(r, s).recv = NoData
<1> DEFINE p == r.p
           w == UpdateWindow(p, s)
           k == Acknowledge(p, w, s)
           q == IF s.isack THEN k ELSE p
           b == [r EXCEPT !.p = q]
           e == IF InWindow(q, s.seq) THEN q ELSE tcp_ack_now(q)
           c == [r EXCEPT !.p = e]
<1>1. tcp_receive(r, s) = IF TCP_TCPLEN(s) > 0 /\ q.state \in BeforeCloseWait
                          THEN TakeData(b, s) ELSE c
  BY DEF tcp_receive
<1>2. PcbOk(h, w) /\ Same(p, w)  BY UpdateWindowOk
<1> HIDE DEF w
<1>3. PcbOk(h, k) /\ Same(w, k)  BY <1>2, AcknowledgeOk
<1> HIDE DEF k
<1>4. PcbOk(h, q) /\ Same(p, q)  BY <1>2, <1>3 DEF Same
<1> HIDE DEF q
<1>5. PcbOk(h, e) /\ Same(q, e)  BY <1>4, AckNow DEF Same
<1> HIDE DEF e
<1>6. /\ b.p = q /\ DOMAIN b = {"p", "recv", "flags"} /\ b.flags = r.flags /\ b.recv = NoData
      /\ c.p = e /\ DOMAIN c = {"p", "recv", "flags"} /\ c.flags = r.flags
      /\ c.recv = NoData
  OBVIOUS
<1> HIDE DEF b, c
<1>7. Handles(h, q, TakeData(b, s)) /\ TakeData(b, s).flags = r.flags
  BY <1>4, <1>6, TakeDataOk
<1>8. Handles(h, p, TakeData(b, s))  BY <1>4, <1>7 DEF Handles, Same, SameButWindow
<1>9. p.rcv_wnd + 0 = p.rcv_wnd /\ e.rcv_wnd = p.rcv_wnd
  BY <1>4, <1>5 DEF PcbOk, Same
<1>10. Handles(h, p, c)
  BY <1>4, <1>5, <1>6, <1>9, NothingSize DEF Handles, Same, SameButWindow
<1> QED BY <1>1, <1>6, <1>7, <1>8, <1>10

(* What tcp_process has made of the control block p.  In TIME_WAIT nothing *)
(* is received any more.                                                   *)
Settles(h, p, r) ==
    /\ DOMAIN r = {"p", "recv", "flags"}
    /\ PcbOk(h, r.p) /\ r.p.opt = p.opt /\ r.p.rxclosed = p.rxclosed
    /\ r.p.state \notin {"CLOSED", "LISTEN"} /\ SynOk(r.p)
    /\ r.recv \in Pieces
    /\ \/ r.p.state = "TIME_WAIT"
       \/ r.p.refused = p.refused /\ r.p.rcv_wnd + Size(r.recv) = p.rcv_wnd

LEMMA HandlesSettles ==
    ASSUME NEW h, NEW p, NEW r, Handles(h, p, r),
           p.state \notin {"CLOSED", "LISTEN", "SYN_SENT"}
    PROVE  Settles(h, p, r)
BY DEF Handles, Settles, SameButWindow, SynOk

LEMMA MovesOk ==
    ASSUME NEW h \in Host, NEW p, NEW r, Handles(h, p, r), p.state # "SYN_SENT",
           NEW q, PcbOk(h, q), Same(r.p, q),
           NEW st \in States(h), st \notin {"CLOSED", "LISTEN", "SYN_SENT"}
    PROVE  LET x == [r EXCEPT !.p = [q EXCEPT !.state = st]]
           IN  Settles(h, p, x) /\ x.recv = r.recv /\ x.flags = r.flags
<1> DEFINE t == [q EXCEPT !.state = st]
           x == [r EXCEPT !.p = t]
<1>1. q.state # "SYN_SENT"  BY DEF Handles, SameButWindow, Same
<1>2. /\ PcbOk(h, t) /\ t.state = st /\ t.opt = q.opt /\ t.rxclosed = q.rxclosed
      /\ t.rcv_wnd = q.rcv_wnd /\ t.refused = q.refused
  BY <1>1, NewState
<1> HIDE DEF t
<1>3. DOMAIN x = {"p", "recv", "flags"} /\ x.p = t /\ x.recv = r.recv /\ x.flags = r.flags
  BY DEF Handles
<1> HIDE DEF x
<1>4. Settles(h, p, x)  BY <1>2, <1>3 DEF Handles, Settles, SameButWindow, Same, SynOk
<1> QED BY <1>3, <1>4 DEF x, t

LEMMA TimeWaitOk ==
    ASSUME NEW h \in Host, NEW p, NEW r, Handles(h, p, r), p.state # "SYN_SENT"
    PROVE  LET x == TimeWait(r)
           IN  Settles(h, p, x) /\ x.recv = r.recv /\ x.flags = r.flags
<1> DEFINE q == tcp_pcb_purge(r.p)
           t == [q EXCEPT !.state = "TIME_WAIT"]
           x == [r EXCEPT !.p = t]
<1>1. TimeWait(r) = x  BY DEF TimeWait
<1>2. PcbOk(h, q) /\ q.state = r.p.state /\ q.opt = r.p.opt /\ q.rxclosed = r.p.rxclosed
  BY PurgeOk DEF Handles
<1>3. q.state # "SYN_SENT" /\ q.opt = p.opt /\ q.rxclosed = p.rxclosed
  BY <1>2 DEF Handles, SameButWindow
<1> HIDE DEF q
<1>4. "TIME_WAIT" \in States(h)  BY DEF States
<1>5. PcbOk(h, t) /\ t.state = "TIME_WAIT" /\ t.opt = q.opt /\ t.rxclosed = q.rxclosed
  BY <1>2, <1>3, <1>4, NewState
<1> HIDE DEF t
<1>6. DOMAIN x = {"p", "recv", "flags"} /\ x.p = t /\ x.recv = r.recv /\ x.flags = r.flags
  BY DEF Handles
<1> HIDE DEF x
<1>7. Settles(h, p, x)  BY <1>3, <1>5, <1>6 DEF Handles, Settles, SynOk
<1> QED BY <1>1, <1>6, <1>7

LEMMA AckedTimeWaitOk ==
    ASSUME NEW h \in Host, NEW p, NEW r, Handles(h, p, r), p.state # "SYN_SENT"
    PROVE  LET x == TimeWait([r EXCEPT !.p = tcp_ack_now(@)])
           IN  Settles(h, p, x) /\ x.recv = r.recv /\ x.flags = r.flags
<1> DEFINE k == tcp_ack_now(r.p)
           a == [r EXCEPT !.p = k]
<1>1. PcbOk(h, k) /\ Same(r.p, k)  BY AckNow DEF Handles
<1> HIDE DEF k
<1>2. Handles(h, p, a) /\ a.recv = r.recv /\ a.flags = r.flags  BY <1>1, HandlesSame
<1> HIDE DEF a
<1>3. LET x == TimeWait(a) IN Settles(h, p, x) /\ x.recv = a.recv /\ x.flags = a.flags
  BY <1>2, TimeWaitOk
<1>4. [r EXCEPT !.p = tcp_ack_now(@)] = a  BY DEF a, k
<1> QED BY <1>2, <1>3, <1>4

LEMMA CloseWaitOk ==
    ASSUME NEW h \in Host, NEW p, NEW r, Handles(h, p, r),
           p.state \notin {"CLOSED", "LISTEN", "SYN_SENT"}
    PROVE  LET x == CloseWaitOnFin(r)
           IN  Settles(h, p, x) /\ x.recv = r.recv /\ x.flags = r.flags
<1> DEFINE k == tcp_ack_now(r.p)
           x == [r EXCEPT !.p = [k EXCEPT !.state = "CLOSE_WAIT"]]
<1>1. CloseWaitOnFin(r) = IF GotFin(r) THEN x ELSE r  BY DEF CloseWaitOnFin
<1>2. PcbOk(h, k) /\ Same(r.p, k)  BY AckNow DEF Handles
<1> HIDE DEF k
<1>3. "CLOSE_WAIT" \in States(h)  BY DEF States
<1>4. Settles(h, p, x) /\ x.recv = r.recv /\ x.flags = r.flags  BY <1>2, <1>3, MovesOk
<1>5. Settles(h, p, r)  BY HandlesSettles
<1> QED BY <1>1, <1>4, <1>5

LEMMA FinWait1Ok ==
    ASSUME NEW h \in Host, NEW p, NEW r, Handles(h, p, r),
           p.state \notin {"CLOSED", "LISTEN", "SYN_SENT"}, NEW s
    PROVE  LET x == FinWait1(r, s)
           IN  Settles(h, p, x) /\ x.recv = r.recv /\ x.flags = r.flags
<1> DEFINE k == tcp_ack_now(r.p)
           x == [r EXCEPT !.p = [k EXCEPT !.state = "CLOSING"]]
           y == [r EXCEPT !.p = [r.p EXCEPT !.state = "FIN_WAIT_2"]]
           z == [r EXCEPT !.p.state = "FIN_WAIT_2"]
           w == TimeWait([r EXCEPT !.p = tcp_ack_now(@)])
<1>1. FinWait1(r, s) \in {w, x, z, r}
  BY DEF FinWait1
<1>2. z = y  BY DEF Handles
<1>3. PcbOk(h, k) /\ Same(r.p, k)  BY AckNow DEF Handles
<1> HIDE DEF k
<1>4. "CLOSING" \in States(h) /\ "FIN_WAIT_2" \in States(h)  BY DEF States
<1>5. Settles(h, p, x) /\ x.recv = r.recv /\ x.flags = r.flags  BY <1>3, <1>4, MovesOk
<1>6. Settles(h, p, y) /\ y.recv = r.recv /\ y.flags = r.flags
  <2>1. PcbOk(h, r.p) /\ Same(r.p, r.p)  BY DEF Handles, Same
  <2> QED BY <1>4, <2>1, MovesOk
<1>7. Settles(h, p, w) /\ w.recv = r.recv /\ w.flags = r.flags  BY AckedTimeWaitOk
<1>8. Settles(h, p, r)  BY HandlesSettles
<1> HIDE DEF x, y, z, w
<1> QED BY <1>1, <1>2, <1>5, <1>6, <1>7, <1>8

LEMMA TransitionOk ==
    ASSUME NEW h \in Host, NEW p, NEW r, Handles(h, p, r), NEW st,
           p.state \notin {"CLOSED", "LISTEN", "SYN_SENT"}, NEW s
    PROVE  LET x == Transition(st, r, s) IN Settles(h, p, x) /\ x.recv = r.recv
<1> DEFINE u == CloseWaitOnFin(r)
           v == FinWait1(r, s)
           w == TimeWait([r EXCEPT !.p = tcp_ack_now(@)])
           x == TimeWait(r)
           y == [r EXCEPT !.flags = {"CLOSED"}]
<1>1. Transition(st, r, s) \in {u, v, w, x, y, r}  BY DEF Transition
<1>2. Settles(h, p, u) /\ u.recv = r.recv  BY CloseWaitOk
<1>3. Settles(h, p, v) /\ v.recv = r.recv  BY FinWait1Ok
<1>4. Settles(h, p, w) /\ w.recv = r.recv  BY AckedTimeWaitOk
<1>5. Settles(h, p, x) /\ x.recv = r.recv  BY TimeWaitOk
<1>6. Settles(h, p, r)  BY HandlesSettles
<1>7. Settles(h, p, y) /\ y.recv = r.recv
  <2>1. y.p = r.p /\ y.recv = r.recv /\ DOMAIN y = {"p", "recv", "flags"}  BY DEF Handles
  <2> HIDE DEF y
  <2> QED BY <1>6, <2>1 DEF Settles
<1> HIDE DEF u, v, w, x, y
<1> QED BY <1>1, <1>2, <1>3, <1>4, <1>5, <1>6, <1>7

LEMMA ReplyOk ==
    ASSUME NEW h, NEW p, NEW r, Handles(h, p, r), NEW g, NEW s \in Packets(g)
    PROVE  /\ Handles(h, p, Reply(r, s)) /\ Reply(r, s).recv = r.recv
           /\ Idle(r.p, Reply(r, s).p) /\ Same(r.p, Reply(r, s).p)
<1> DEFINE end == Num(s.seq + TCP_TCPLEN(s))
           q == tcp_rst(r.p, s.ack, end)
           x == [r EXCEPT !.p = q]
<1>1. Reply(r, s) = x  BY DEF Reply
<1>2. s.ack \in Int /\ end \in Int  BY PacketType
<1> HIDE DEF end
<1>3. PcbOk(h, q) /\ Same(r.p, q) /\ Idle(r.p, q)  BY <1>2, RstOk DEF Handles
<1> HIDE DEF q
<1>4. Handles(h, p, x) /\ x.p = q /\ x.recv = r.recv  BY <1>3, HandlesSame
<1> QED BY <1>1, <1>3, <1>4

LEMMA SynSentOk ==
    ASSUME NEW h, NEW r, PcbOk(h, r.p), DOMAIN r = {"p", "recv", "flags"}, r.recv = NoData,
           r.p.state = "SYN_SENT", SynOk(r.p), NEW g, NEW s \in Packets(g)
    PROVE  Settles(h, r.p, SynSent(r, s)) /\ SynSent(r, s).recv = NoData
<1> DEFINE p == r.p
           nxt == Num(s.seq + 1)
           wl1 == Num(s.seq - 1)
           th == 10 * p.opt.mss
           cw == InitialCwnd(p, p.cwnd)
           more == Len(p.unacked) > 1
           kept == Tail(p.unacked)
           t == [p EXCEPT !.snd_buf = @ + 1, !.rcv_nxt = nxt, !.edge = nxt,
                          !.lastack = s.ack, !.snd_wnd = s.wnd, !.snd_wnd_max = s.wnd,
                          !.snd_wl1 = wl1, !.state = "ESTABLISHED", !.ssthresh = th,
                          !.cwnd = cw, !.unacked = kept, !.rtime = more,
                          !.nrtx = IF more THEN 0 ELSE @]
           k == tcp_ack_now(t)
           x == [r EXCEPT !.p = k]
           y == Reply(r, s)
<1>1. SynSent(r, s) \in {x, y, r}  BY DEF SynSent
<1>2. s.ack \in Int /\ s.wnd \in Nat /\ nxt \in Int
  <2>1. s.seq \in Int /\ s.ack \in Int /\ s.wnd \in Nat  BY PacketType
  <2>2. s.seq + 1 \in Int  BY <2>1
  <2> QED BY <2>1, <2>2, NumType
<1>3. kept = <<>> /\ p.unsent = <<>>
  <2> DEFINE S == Segments(h, p.state, Limit(p.opt, p.snd_wnd_max))
  <2>1. p.unacked \in Seq(S) /\ Len(p.unacked) = 1 /\ p.unsent = <<>>
    BY DEF PcbOk, QueueOk, SynOk
  <2> HIDE DEF S
  <2>2. p.unacked # <<>>
    <3>1. Len(<<>>) = 0 /\ 0 # 1  OBVIOUS
    <3> QED BY <2>1, <3>1, Zenon
  <2>3. Tail(p.unacked) \in Seq(S) /\ Len(Tail(p.unacked)) = 0
    BY <2>1, <2>2, HeadTailProperties
  <2>4. Tail(p.unacked) = <<>>  BY <2>3, EmptySeq
  <2> QED BY <2>1, <2>4
<1> HIDE DEF nxt, wl1, th, cw, more, kept
<1>4. /\ DOMAIN t = PcbFields /\ t.state = "ESTABLISHED" /\ t.opt = p.opt
      /\ t.rxclosed = p.rxclosed /\ t.rcv_nxt = nxt /\ t.edge = nxt /\ t.snd_nxt = p.snd_nxt
      /\ t.lastack = s.ack /\ t.snd_lbb = p.snd_lbb /\ t.snd_buf = p.snd_buf + 1
      /\ t.rcv_wnd = p.rcv_wnd /\ t.rcv_ann_wnd = p.rcv_ann_wnd /\ t.snd_wnd_max = s.wnd
      /\ t.refused = p.refused /\ t.unsent = p.unsent /\ t.unacked = kept /\ t.out = p.out
  BY DEF PcbOk, PcbFields
<1> HIDE DEF t
<1>5. QueueOk(h, t)  BY <1>3, <1>4 DEF QueueOk
<1>6. t.state \in States(h)  BY <1>4 DEF States
<1>7. t.snd_buf \in Int  BY <1>4 DEF PcbOk
<1>8. PcbOk(h, t)  BY <1>2, <1>4, <1>5, <1>6, <1>7 DEF PcbOk
<1>9. PcbOk(h, k) /\ Same(t, k)  BY <1>8, AckNow
<1> HIDE DEF k
<1>10. x.p = k /\ x.recv = NoData /\ DOMAIN x = {"p", "recv", "flags"}  OBVIOUS
<1> HIDE DEF x
<1>11. p.rcv_wnd + 0 = p.rcv_wnd  BY DEF PcbOk
<1>12. Settles(h, p, x)
  BY <1>4, <1>9, <1>10, <1>11, NothingSize DEF Settles, Same, SynOk
<1>13. Handles(h, p, r)  BY <1>11, NothingSize DEF Handles, SameButWindow
<1>14. Settles(h, p, r)  BY <1>13 DEF Handles, Settles, SameButWindow
<1>15. /\ Handles(h, p, y) /\ y.recv = NoData /\ Idle(p, y.p) /\ Same(p, y.p)
  BY <1>13, ReplyOk
<1>16. SynOk(y.p)  BY <1>15, SynStays
<1> HIDE DEF y
<1>17. Settles(h, p, y)  BY <1>15, <1>16 DEF Handles, Settles, SameButWindow
<1> QED BY <1>1, <1>10, <1>12, <1>14, <1>15, <1>17

LEMMA SynRcvdOk ==
    ASSUME NEW h \in Host, NEW r, PcbOk(h, r.p), DOMAIN r = {"p", "recv", "flags"},
           r.recv = NoData, r.p.state = "SYN_RCVD", NEW s \in Packets(Peer(h))
    PROVE  LET x == SynRcvd(r, s)
           IN  /\ Settles(h, r.p, x)
               /\ TCP_TCPLEN(s) = 0 => x.recv = NoData
<1> DEFINE p == r.p
           e == [p EXCEPT !.state = "ESTABLISHED"]
           b == [r EXCEPT !.p.state = "ESTABLISHED"]
           q == tcp_receive(b, s)
           cw == InitialCwnd(p, p.cwnd)
           f == [q EXCEPT !.p.cwnd = cw]
           u == CloseWaitOnFin(f)
           v == Reply(r, s)
           w == [r EXCEPT !.p = tcp_rexmit(@)]
<1>1. /\ SynRcvd(r, s) \in {u, v, w, r}
      /\ ~s.isack => SynRcvd(r, s) \in {v, w, r}
  BY DEF SynRcvd
<1>2. p.rcv_wnd + 0 = p.rcv_wnd  BY DEF PcbOk
<1>3. Handles(h, p, r)  BY <1>2, NothingSize DEF Handles, SameButWindow
<1>4. Settles(h, p, r)  BY <1>3, HandlesSettles
<1>5. Settles(h, p, v) /\ v.recv = NoData  BY <1>3, ReplyOk, HandlesSettles
<1>6. Settles(h, p, w) /\ w.recv = NoData
  <2> DEFINE k == tcp_rexmit(p)
  <2>1. PcbOk(h, k) /\ Same(p, k)  BY RexmitOk
  <2> HIDE DEF k
  <2>2. [r EXCEPT !.p = k].recv = NoData /\ Handles(h, p, [r EXCEPT !.p = k])
    BY <1>3, <2>1, HandlesSame
  <2>3. w = [r EXCEPT !.p = k]  BY DEF k
  <2> QED BY <2>2, <2>3, HandlesSettles
<1>7. ASSUME s.isack
      PROVE  Settles(h, p, u) /\ (TCP_TCPLEN(s) = 0 => u.recv = NoData)
  <2>1. h = "server" /\ Peer(h) = "client"  BY DEF PcbOk, States, Host, Peer
  <2>2. ~s.syn  BY <1>7, <2>1 DEF Packets
  <2>3. /\ PcbOk(h, e) /\ e.state = "ESTABLISHED" /\ e.opt = p.opt
        /\ e.rxclosed = p.rxclosed /\ e.rcv_wnd = p.rcv_wnd /\ e.refused = p.refused
    <3>1. "ESTABLISHED" \in States(h)  BY DEF States
    <3> QED BY <3>1, NewState
  <2>4. b.p = e /\ DOMAIN b = {"p", "recv", "flags"} /\ b.recv = NoData  OBVIOUS
  <2> HIDE DEF b, e
  <2>5. Handles(h, e, q) /\ (TCP_TCPLEN(s) = 0 => q.recv = NoData)
    BY <2>2, <2>3, <2>4, ReceiveOk
  <2> HIDE DEF q, cw
  <2>6. Handles(h, e, f) /\ f.recv = q.recv
    <3> DEFINE c == [q.p EXCEPT !.cwnd = cw]
    <3>1. PcbOk(h, c) /\ Same(q.p, c)
      BY <2>5 DEF Handles, PcbOk, QueueOk, Same, PcbFields
    <3>2. f = [q EXCEPT !.p = c]  BY <2>5 DEF Handles
    <3> HIDE DEF c, f
    <3> QED BY <2>5, <3>1, <3>2, HandlesSame
  <2> HIDE DEF f
  <2>7. Settles(h, e, u) /\ u.recv = f.recv  BY <2>3, <2>6, CloseWaitOk
  <2>8. Settles(h, p, u)  BY <2>3, <2>7 DEF Settles
  <2> QED BY <2>5, <2>6, <2>7, <2>8
<1>8. s.isack \in BOOLEAN  BY DEF Packets
<1> HIDE DEF u, v, w
<1>9. CASE s.isack  BY <1>1, <1>4, <1>5, <1>6, <1>7, <1>9
<1>10. CASE ~s.isack  BY <1>1, <1>4, <1>5, <1>6, <1>10
<1> QED BY <1>9, <1>10

LEMMA ProcessOk ==
    ASSUME NEW h \in Host, NEW p, PcbOk(h, p), SynOk(p),
           p.state \notin {"CLOSED", "LISTEN"}, NEW s \in Packets(Peer(h))
    PROVE  LET x == tcp_process(Handling(p), s)
           IN  /\ Settles(h, p, x)
               /\ TCP_TCPLEN(s) = 0 => x.recv = NoData
<1> DEFINE r == Handling(p)
           u == [r EXCEPT !.flags = {"RESET"}]
           v == [r EXCEPT !.p = tcp_ack_now(@)]
           w == SynSent(r, s)
           x == SynRcvd(r, s)
           y == Transition(p.state, tcp_receive(r, s), s)
<1>1. r.p = p /\ r.recv = NoData /\ DOMAIN r = {"p", "recv", "flags"}  BY DEF Handling
<1>2. r.p.state = p.state /\ s.rst \in BOOLEAN /\ s.syn \in BOOLEAN  BY <1>1 DEF Packets
<1> HIDE DEF r
<1>3. p.rcv_wnd + 0 = p.rcv_wnd  BY DEF PcbOk
<1>4. Handles(h, p, r)  BY <1>1, <1>3, NothingSize DEF Handles, SameButWindow
<1>5. Settles(h, p, r)  BY <1>1, <1>4 DEF Handles, Settles, SameButWindow
<1>6. Settles(h, p, u) /\ u.recv = NoData
  <2>1. u.p = r.p /\ u.recv = r.recv /\ DOMAIN u = {"p", "recv", "flags"}  BY <1>1
  <2> HIDE DEF u
  <2> QED BY <1>1, <1>5, <2>1 DEF Settles
<1>7. CASE s.rst
  <2>1. tcp_process(r, s) \in {u, r}  BY <1>7 DEF tcp_process
  <2> HIDE DEF u
  <2> QED BY <1>1, <1>5, <1>6, <2>1 DEF r
<1>8. CASE ~s.rst /\ s.syn /\ p.state \notin {"SYN_SENT", "SYN_RCVD"}
  <2>1. tcp_process(r, s) = v  BY <1>2, <1>8 DEF tcp_process
  <2> DEFINE k == tcp_ack_now(p)
  <2>2. PcbOk(h, k) /\ Same(p, k)  BY AckNow
  <2>3. v = [r EXCEPT !.p = k]  BY <1>1
  <2> HIDE DEF k, v
  <2>4. Handles(h, p, v) /\ v.recv = NoData  BY <1>1, <1>4, <2>2, <2>3, HandlesSame
  <2>5. Settles(h, p, v)  BY <1>8, <2>4, HandlesSettles
  <2> QED BY <2>1, <2>4, <2>5 DEF r
<1>9. CASE ~s.rst /\ p.state = "SYN_SENT"
  <2>1. tcp_process(r, s) = w  BY <1>2, <1>9 DEF tcp_process
  <2>2. Settles(h, p, w) /\ w.recv = NoData  BY <1>1, <1>9, SynSentOk
  <2> QED BY <2>1, <2>2 DEF r
<1>10. CASE ~s.rst /\ p.state = "SYN_RCVD"
  <2>1. tcp_process(r, s) = x  BY <1>2, <1>10 DEF tcp_process
  <2>2. Settles(h, p, x) /\ (TCP_TCPLEN(s) = 0 => x.recv = NoData)  BY <1>1, <1>10, SynRcvdOk
  <2> QED BY <2>1, <2>2 DEF r
<1>11. CASE ~s.rst /\ ~s.syn /\ p.state \notin {"SYN_SENT", "SYN_RCVD"}
  <2> DEFINE c == tcp_receive(r, s)
  <2>1. tcp_process(r, s) = y  BY <1>2, <1>11 DEF tcp_process
  <2>2. Handles(h, p, c) /\ (TCP_TCPLEN(s) = 0 => c.recv = NoData)
    BY <1>1, <1>11, ReceiveOk
  <2> HIDE DEF c
  <2>3. Settles(h, p, y) /\ y.recv = c.recv
    <3>1. LET z == Transition(p.state, c, s) IN Settles(h, p, z) /\ z.recv = c.recv
      BY <1>11, <2>2, TransitionOk
    <3> QED BY <3>1 DEF c
  <2> QED BY <2>1, <2>2, <2>3 DEF r
<1> QED BY <1>2, <1>7, <1>8, <1>9, <1>10, <1>11

LEMMA TimeWaitInputOk ==
    ASSUME NEW h, NEW p, PcbOk(h, p), NEW g, NEW s \in Packets(g)
    PROVE  LET q == tcp_timewait_input(p, s) IN PcbOk(h, q) /\ Same(p, q)
<1> DEFINE end == Num(s.seq + TCP_TCPLEN(s))
           k == tcp_ack_now(p)
<1>1. s.ack \in Int /\ end \in Int  BY PacketType
<1>2. tcp_timewait_input(p, s) \in {p, tcp_rst(p, s.ack, end), tcp_output(k)}
  BY DEF tcp_timewait_input
<1> HIDE DEF end
<1>3. PcbOk(h, tcp_rst(p, s.ack, end)) /\ Same(p, tcp_rst(p, s.ack, end))  BY <1>1, RstOk
<1>4. PcbOk(h, k) /\ Same(p, k)  BY AckNow
<1> HIDE DEF k
<1>5. PcbOk(h, tcp_output(k)) /\ Same(k, tcp_output(k))  BY <1>4, OutputOk
<1>6. Same(p, tcp_output(k)) /\ Same(p, p)  BY <1>4, <1>5 DEF Same
<1> QED BY <1>2, <1>3, <1>5, <1>6

LEMMA NoPcbInputOk ==
    ASSUME NEW h, NEW p, PcbOk(h, p), NEW g, NEW s \in Packets(g)
    PROVE  LET q == NoPcbInput(p, s) IN PcbOk(h, q) /\ Same(p, q)
<1> DEFINE end == Num(s.seq + TCP_TCPLEN(s))
<1>1. s.ack \in Int /\ end \in Int  BY PacketType
<1>2. NoPcbInput(p, s) \in {p, tcp_rst(p, s.ack, end)}  BY DEF NoPcbInput
<1> HIDE DEF end
<1>3. PcbOk(h, tcp_rst(p, s.ack, end)) /\ Same(p, tcp_rst(p, s.ack, end))  BY <1>1, RstOk
<1> QED BY <1>2, <1>3 DEF Same

(* A listener answers, or makes the control block of a new connection.     *)
LEMMA ListenOk ==
    ASSUME NEW p, PcbOk("server", p), NEW g, NEW s \in Packets(g), NEW iss \in Int
    PROVE  LET q == tcp_listen_input(p, s, iss)
               fresh == s.syn /\ ~s.isack /\ ~s.rst
           IN  /\ PcbOk("server", q) /\ q.opt = p.opt
               /\ ~fresh => Same(p, q)
               /\ fresh => /\ q.state = "SYN_RCVD" /\ q.rcv_wnd = q.opt.wnd
                           /\ q.refused = NoData
<1> DEFINE end == Num(s.seq + TCP_TCPLEN(s))
           fresh == s.syn /\ ~s.isack /\ ~s.rst
           a == tcp_alloc(p.opt, iss)
           nxt == Num(s.seq + 1)
           wl1 == Num(s.seq - 1)
           t == [a EXCEPT !.state = "SYN_RCVD", !.rcv_nxt = nxt, !.edge = nxt,
                          !.snd_wnd = s.wnd, !.snd_wnd_max = s.wnd, !.ssthresh = s.wnd,
                          !.snd_wl1 = wl1]
           f == tcp_enqueue_flags(t, TRUE, FALSE)
<1>1. s.ack \in Int /\ end \in Int /\ nxt \in Int /\ s.wnd \in Nat
  <2>1. s.ack \in Int /\ end \in Int /\ s.wnd \in Nat /\ s.seq \in Int  BY PacketType
  <2>2. s.seq + 1 \in Int  BY <2>1
  <2> QED BY <2>1, <2>2, NumType
<1>2. /\ fresh => tcp_listen_input(p, s, iss) = tcp_output(f)
      /\ ~fresh => tcp_listen_input(p, s, iss) \in {p, tcp_rst(p, s.ack, end)}
  <2>1. s.syn \in BOOLEAN /\ s.isack \in BOOLEAN /\ s.rst \in BOOLEAN  BY DEF Packets
  <2>2. CASE s.rst  BY <2>2 DEF tcp_listen_input
  <2>3. CASE ~s.rst /\ s.isack  BY <2>3 DEF tcp_listen_input
  <2>4. CASE ~s.rst /\ ~s.isack /\ s.syn  BY <2>4 DEF tcp_listen_input
  <2>5. CASE ~s.rst /\ ~s.isack /\ ~s.syn  BY <2>5 DEF tcp_listen_input
  <2> QED BY <2>1, <2>2, <2>3, <2>4, <2>5
<1> HIDE DEF end, nxt, wl1
<1>3. PcbOk("server", tcp_rst(p, s.ack, end)) /\ Same(p, tcp_rst(p, s.ack, end))
  BY <1>1, RstOk
<1>4. PcbOk("server", a)  BY AllocOk DEF PcbOk
<1>5. /\ a.unsent = <<>> /\ a.unacked = <<>> /\ a.opt = p.opt /\ a.rcv_wnd = p.opt.wnd
      /\ a.refused = NoData
  BY DEF tcp_alloc
<1> HIDE DEF a
<1>6. /\ DOMAIN t = PcbFields /\ t.state = "SYN_RCVD" /\ t.opt = a.opt
      /\ t.rxclosed = a.rxclosed /\ t.rcv_nxt = nxt /\ t.edge = nxt /\ t.snd_nxt = a.snd_nxt
      /\ t.lastack = a.lastack /\ t.snd_lbb = a.snd_lbb /\ t.snd_buf = a.snd_buf
      /\ t.rcv_wnd = a.rcv_wnd /\ t.rcv_ann_wnd = a.rcv_ann_wnd /\ t.snd_wnd_max = s.wnd
      /\ t.refused = a.refused /\ t.unsent = a.unsent /\ t.unacked = a.unacked
      /\ t.out = a.out
  BY <1>4 DEF PcbOk, PcbFields
<1> HIDE DEF t
<1>7. QueueOk("server", t)  BY <1>5, <1>6 DEF QueueOk
<1>8. t.state \in States("server")  BY <1>6 DEF States
<1>9. PcbOk("server", t)  BY <1>1, <1>4, <1>6, <1>7, <1>8 DEF PcbOk
<1>10. PcbOk("server", f) /\ Same(t, f)
  <2>1. PICK syn \in BOOLEAN, fin \in BOOLEAN : syn = TRUE /\ fin = FALSE  OBVIOUS
  <2>2. "server" = "client" /\ t.state # "SYN_SENT" => ~syn  OBVIOUS
  <2>3. PcbOk("server", tcp_enqueue_flags(t, syn, fin)) /\ Same(t, tcp_enqueue_flags(t, syn, fin))
    BY <1>9, <2>2, EnqueueOk
  <2> QED BY <2>1, <2>3
<1> HIDE DEF f
<1>11. PcbOk("server", tcp_output(f)) /\ Same(f, tcp_output(f))  BY <1>10, OutputOk
<1>12. CASE fresh
  BY <1>2, <1>5, <1>6, <1>10, <1>11, <1>12 DEF Same
<1>13. CASE ~fresh
  <2> HIDE DEF fresh
  <2>1. PcbOk("server", tcp_listen_input(p, s, iss)) /\ Same(p, tcp_listen_input(p, s, iss))
    BY <1>2, <1>3, <1>13 DEF Same
  <2> QED BY <1>13, <2>1 DEF Same, fresh
<1> QED BY <1>12, <1>13

-----------------------------------------------------------------------------
(* The applications, and the window between them and the control blocks.   *)
AppOk(a) ==
    /\ DOMAIN a = {"sent", "got", "mbox", "eof", "err", "open"}
    /\ a.sent \in Nat
    /\ a.mbox \in Seq(Nat) /\ IsFiniteSet(Cells(a.mbox))

Receives(p) == p.state \notin {"CLOSED", "LISTEN", "TIME_WAIT"} /\ ~p.rxclosed

Accounted(p, a) == Receives(p) => p.rcv_wnd + UnitsIn(a.mbox) + Size(p.refused) = p.opt.wnd

Consistent(h, p, a) == PcbOk(h, p) /\ SynOk(p) /\ AppOk(a) /\ Accounted(p, a)

LEMMA NewAppOk ==
    ASSUME NEW a, AppOk(a)
    PROVE  /\ AppOk(NewApp) /\ AppOk(Renewed(a))
           /\ UnitsIn(NewApp.mbox) = 0 /\ UnitsIn(Renewed(a).mbox) = 0
<1>1. /\ NewApp.mbox = <<>> /\ NewApp.sent = 0
      /\ DOMAIN NewApp = {"sent", "got", "mbox", "eof", "err", "open"}
  BY DEF NewApp
<1>2. /\ Renewed(a).mbox = <<>> /\ Renewed(a).sent = a.sent
      /\ DOMAIN Renewed(a) = {"sent", "got", "mbox", "eof", "err", "open"}
  BY <1>1 DEF Renewed
<1>3. <<>> \in Seq(Nat) /\ 0 \in Nat  OBVIOUS
<1> QED BY <1>1, <1>2, <1>3, TotalEmpty DEF AppOk

LEMMA TotalType ==
    ASSUME NEW a, AppOk(a)
    PROVE  UnitsIn(a.mbox) \in Nat
BY TotalAppend DEF AppOk

LEMMA DeliverOk ==
    ASSUME NEW a, AppOk(a), NEW data \in Seq(Nat), NEW eof
    PROVE  LET d == [Deliver(a, data) EXCEPT !.eof = eof]
           IN  AppOk(d) /\ UnitsIn(d.mbox) = UnitsIn(a.mbox) + Len(data)
<1> DEFINE m == Append(a.mbox, Len(data))
           g == a.got \o data
           b == [a EXCEPT !.got = g, !.mbox = m]
           c == Deliver(a, data)
           d == [c EXCEPT !.eof = eof]
<1>1. c = IF data = <<>> THEN a ELSE b  BY DEF Deliver
<1>2. a.mbox \in Seq(Nat) /\ Len(data) \in Nat /\ IsFiniteSet(Cells(a.mbox))  BY DEF AppOk
<1>3. IsFiniteSet(Cells(m)) /\ UnitsIn(m) = UnitsIn(a.mbox) + Len(data) /\ UnitsIn(a.mbox) \in Nat
  BY <1>2, TotalAppend
<1>4. m \in Seq(Nat)  BY <1>2
<1> HIDE DEF m, g
<1>5. /\ DOMAIN b = {"sent", "got", "mbox", "eof", "err", "open"}
      /\ b.mbox = m /\ b.sent = a.sent
  BY DEF AppOk
<1> HIDE DEF b
<1>6. AppOk(b)  BY <1>3, <1>4, <1>5 DEF AppOk
<1>7. AppOk(c) /\ UnitsIn(c.mbox) = UnitsIn(a.mbox) + Len(data)
  <2>1. CASE data = <<>>
    <3>1. c = a /\ Len(data) = 0  BY <1>1, <2>1
    <3> QED BY <1>3, <3>1
  <2>2. CASE data # <<>>  BY <1>1, <1>3, <1>5, <1>6, <2>2
  <2> QED BY <2>1, <2>2
<1> HIDE DEF c
<1>8. /\ DOMAIN d = {"sent", "got", "mbox", "eof", "err", "open"}
      /\ d.mbox = c.mbox /\ d.sent = c.sent
  BY <1>7 DEF AppOk
<1> HIDE DEF d
<1>9. AppOk(d) /\ UnitsIn(d.mbox) = UnitsIn(a.mbox) + Len(data)  BY <1>7, <1>8 DEF AppOk
<1> QED BY <1>9 DEF d, c

LEMMA FinSeenOk ==
    ASSUME NEW h, NEW p, PcbOk(h, p), SynOk(p)
    PROVE  LET q == FinSeen(p)
           IN  /\ PcbOk(h, q) /\ SynOk(q) /\ SameButWindow(p, q)
               /\ p.rcv_wnd # p.opt.wnd => q.rcv_wnd = p.rcv_wnd + 1
<1> DEFINE q == [p EXCEPT !.rcv_wnd = @ + 1]
<1>1. FinSeen(p) = IF p.rcv_wnd # p.opt.wnd THEN q ELSE p  BY DEF FinSeen
<1>2. PcbOk(h, q) /\ SameButWindow(p, q) /\ q.rcv_wnd = p.rcv_wnd + 1
  BY DEF PcbOk, QueueOk, SameButWindow, PcbFields
<1>3. q.state = p.state /\ q.unsent = p.unsent /\ q.unacked = p.unacked
      /\ q.lastack = p.lastack /\ q.snd_wnd = p.snd_wnd
  BY DEF PcbOk, PcbFields
<1> HIDE DEF q
<1>4. SynOk(q)  BY <1>3 DEF SynOk
<1>5. SameButWindow(p, p)  BY DEF SameButWindow
<1> QED BY <1>1, <1>2, <1>4, <1>5

(* tcp_process_refused_data                                                *)
LEMMA PresentedOk ==
    ASSUME NEW h, NEW p, NEW a, Consistent(h, p, a)
    PROVE  LET x == Presented(p, a)
           IN  /\ Consistent(h, x.p, x.a) /\ x.p.state = p.state /\ x.p.opt = p.opt
               /\ x.p.rxclosed = p.rxclosed
<1> DEFINE x == Presented(p, a)
           q == [p EXCEPT !.refused = NoData]
           t == IF p.refused.fin THEN FinSeen(q) ELSE q
           eof == Deliver(a, p.refused.data).eof \/ p.refused.fin
           d == [Deliver(a, p.refused.data) EXCEPT !.eof = eof]
<1>1. CASE p.refused = NoData \/ ~Room(a)
  <2>1. x.p = p /\ x.a = a  BY <1>1 DEF Presented
  <2> QED BY <2>1
<1>2. CASE ~(p.refused = NoData \/ ~Room(a))
  <2>1. x.p = t /\ x.a = d
    <3>1. x = [p |-> t, a |-> d]  BY <1>2 DEF Presented
    <3> HIDE DEF x, t, d
    <3> QED BY <3>1
  <2>2. p.refused \in Pieces /\ PcbOk(h, p) /\ SynOk(p) /\ AppOk(a) /\ Accounted(p, a)
    BY DEF Consistent, PcbOk
  <2>3. p.refused.data \in Seq(Nat) /\ p.refused.fin \in BOOLEAN  BY <2>2 DEF Pieces
  <2>4. AppOk(d) /\ UnitsIn(d.mbox) = UnitsIn(a.mbox) + Len(p.refused.data)
    <3> HIDE DEF eof
    <3> QED BY <2>2, <2>3, DeliverOk
  <2> HIDE DEF d, x
  <2>5. PcbOk(h, q) /\ q.state = p.state /\ q.opt = p.opt /\ q.rxclosed = p.rxclosed
        /\ q.rcv_wnd = p.rcv_wnd /\ q.refused = NoData /\ q.unsent = p.unsent
        /\ q.unacked = p.unacked /\ q.lastack = p.lastack /\ q.snd_wnd = p.snd_wnd
    BY <2>2, NothingSize DEF PcbOk, QueueOk, PcbFields
  <2> HIDE DEF q
  <2>6. SynOk(q)  BY <2>2, <2>5 DEF SynOk
  <2>7. /\ PcbOk(h, FinSeen(q)) /\ SynOk(FinSeen(q)) /\ SameButWindow(q, FinSeen(q))
        /\ q.rcv_wnd # q.opt.wnd => FinSeen(q).rcv_wnd = q.rcv_wnd + 1
    BY <2>5, <2>6, FinSeenOk
  <2>8. /\ PcbOk(h, t) /\ SynOk(t) /\ t.state = p.state /\ t.opt = p.opt
        /\ t.rxclosed = p.rxclosed /\ t.refused = NoData
    BY <2>5, <2>6, <2>7 DEF SameButWindow
  <2>9. Accounted(t, d)
    <3> SUFFICES ASSUME Receives(p)
                 PROVE  t.rcv_wnd + UnitsIn(d.mbox) + Size(t.refused) = t.opt.wnd
      BY <2>8 DEF Accounted, Receives
    <3>1. p.rcv_wnd + UnitsIn(a.mbox) + Size(p.refused) = p.opt.wnd  BY <2>2 DEF Accounted
    <3>2. /\ p.rcv_wnd \in Nat /\ UnitsIn(a.mbox) \in Nat /\ Len(p.refused.data) \in Nat
          /\ Size(p.refused) = Len(p.refused.data) + IF p.refused.fin THEN 1 ELSE 0
      BY <2>2, TotalType, PieceSize DEF PcbOk
    <3>3. CASE p.refused.fin
      <4>1. p.rcv_wnd # p.opt.wnd  BY <3>1, <3>2, <3>3
      <4>2. t.rcv_wnd = p.rcv_wnd + 1  BY <2>5, <2>7, <3>3, <4>1
      <4> HIDE DEF t
      <4>3. Size(p.refused) = Len(p.refused.data) + 1 /\ Size(t.refused) = 0
        BY <2>8, <3>2, <3>3, NothingSize
      <4>4. t.opt = p.opt /\ UnitsIn(d.mbox) = UnitsIn(a.mbox) + Len(p.refused.data)
        BY <2>4, <2>8
      <4>5. p.rcv_wnd \in Nat /\ UnitsIn(a.mbox) \in Nat /\ Len(p.refused.data) \in Nat
        BY <3>2
      <4>6. p.rcv_wnd + UnitsIn(a.mbox) + (Len(p.refused.data) + 1) = t.opt.wnd
        BY <3>1, <4>3, <4>4
      <4>7. p.rcv_wnd + 1 + (UnitsIn(a.mbox) + Len(p.refused.data)) + 0 = t.opt.wnd
        <5>1. \A x1 \in Nat, x2 \in Nat, x3 \in Nat :
                 x1 + 1 + (x2 + x3) + 0 = x1 + x2 + (x3 + 1)
          OBVIOUS
        <5> QED BY <4>5, <4>6, <5>1
      <4> QED BY <4>2, <4>3, <4>4, <4>7
    <3>4. CASE ~p.refused.fin
      <4>1. t.rcv_wnd = p.rcv_wnd  BY <2>5, <3>4
      <4> HIDE DEF t
      <4> QED BY <2>4, <2>8, <3>1, <3>2, <3>4, <4>1, NothingSize
    <3> QED BY <3>3, <3>4
  <2> HIDE DEF t
  <2>10. Consistent(h, t, d)  BY <2>4, <2>8, <2>9 DEF Consistent
  <2> QED BY <2>1, <2>8, <2>10 DEF x
<1> QED BY <1>1, <1>2

(* A control block that only sends keeps its account...                    *)
LEMMA SendsConsistent ==
    ASSUME NEW h, NEW p, NEW a, Consistent(h, p, a), NEW q, PcbOk(h, q), Same(p, q), SynOk(q)
    PROVE  Consistent(h, q, a)
BY DEF Consistent, Accounted, Receives, Same

(* ... and one that is gone or in TIME_WAIT has none.                      *)
LEMMA ClosedConsistent ==
    ASSUME NEW h, NEW q, NEW a, AppOk(a), PcbOk(h, q),
           q.state \in {"CLOSED", "LISTEN", "TIME_WAIT"}
    PROVE  Consistent(h, q, a)
BY DEF Consistent, Accounted, Receives, SynOk

LEMMA CallbacksOk ==
    ASSUME NEW h, NEW p, NEW a, Consistent(h, p, a), NEW r, Settles(h, p, r),
           p.state \notin {"CLOSED", "LISTEN", "TIME_WAIT"},
           r.recv = NoData \/ p.refused = NoData
    PROVE  LET x == Callbacks(r, a)
           IN  Consistent(h, x.p, x.a) /\ x.p.opt = p.opt
<1> DEFINE x == Callbacks(r, a)
           v == r.p
           data == r.recv.data
           fin == r.recv.fin
           taken == data = <<>> \/ Room(a)
           told == fin /\ taken
           u == [v EXCEPT !.refused = r.recv]
           q == IF ~taken THEN u ELSE IF fin THEN FinSeen(v) ELSE v
           b == IF taken THEN Deliver(a, data) ELSE a
           eof == b.eof \/ told
           d == [b EXCEPT !.eof = eof]
           gone == [p |-> Gone(v), a |-> [a EXCEPT !.err =
                                             @ \/ "RESET" \in r.flags \/ ~v.rxclosed]]
           refuse == [p |-> Gone(tcp_rst(v, v.snd_nxt, v.rcv_nxt)),
                      a |-> [a EXCEPT !.err = TRUE]]
           normal == [p |-> tcp_output(q), a |-> d]
<1>1. x \in {gone, refuse, normal}  BY DEF Callbacks
<1>2. AppOk(a) /\ PcbOk(h, v) /\ v.opt = p.opt /\ r.recv \in Pieces /\ SynOk(v)
  BY DEF Consistent, Settles
<1>3. Consistent(h, gone.p, gone.a) /\ gone.p.opt = p.opt
  <2>1. PcbOk(h, Gone(v)) /\ Gone(v).state = "CLOSED" /\ Gone(v).opt = v.opt
    BY <1>2, GoneOk
  <2>2. AppOk(gone.a)  BY <1>2 DEF AppOk
  <2>3. gone.p = Gone(v)  OBVIOUS
  <2> HIDE DEF gone
  <2> QED BY <1>2, <2>1, <2>2, <2>3, ClosedConsistent
<1>4. Consistent(h, refuse.p, refuse.a) /\ refuse.p.opt = p.opt
  <2> DEFINE w == tcp_rst(v, v.snd_nxt, v.rcv_nxt)
  <2>1. PcbOk(h, w) /\ Same(v, w)
    <3>1. v.snd_nxt \in Int /\ v.rcv_nxt \in Int  BY <1>2 DEF PcbOk
    <3> QED BY <1>2, <3>1, RstOk
  <2>2. refuse.p = Gone(w)  OBVIOUS
  <2> HIDE DEF w
  <2>3. PcbOk(h, Gone(w)) /\ Gone(w).state = "CLOSED" /\ Gone(w).opt = v.opt
    BY <2>1, GoneOk DEF Same
  <2>4. AppOk(refuse.a)  BY <1>2 DEF AppOk
  <2> HIDE DEF refuse
  <2> QED BY <1>2, <2>2, <2>3, <2>4, ClosedConsistent
<1>5. Consistent(h, normal.p, normal.a) /\ normal.p.opt = p.opt
  <2>1. data \in Seq(Nat) /\ fin \in BOOLEAN /\ Len(data) \in Nat  BY <1>2 DEF Pieces
  <2>2. /\ AppOk(d)
        /\ taken => UnitsIn(d.mbox) = UnitsIn(a.mbox) + Len(data)
        /\ ~taken => UnitsIn(d.mbox) = UnitsIn(a.mbox)
    <3>1. CASE taken
      <4>1. d = [Deliver(a, data) EXCEPT !.eof = eof]  BY <3>1
      <4> HIDE DEF eof, data, d, b
      <4> QED BY <1>2, <2>1, <3>1, <4>1, DeliverOk
    <3>2. CASE ~taken
      <4>1. d = [a EXCEPT !.eof = eof]  BY <3>2
      <4> HIDE DEF eof, d, taken
      <4>2. AppOk(d) /\ d.mbox = a.mbox  BY <1>2, <4>1 DEF AppOk
      <4> QED BY <3>2, <4>2
    <3> QED BY <3>1, <3>2
  <2>3. /\ PcbOk(h, u) /\ u.state = v.state /\ u.opt = v.opt /\ u.rxclosed = v.rxclosed
        /\ u.rcv_wnd = v.rcv_wnd /\ u.refused = r.recv /\ u.unsent = v.unsent
        /\ u.unacked = v.unacked /\ u.lastack = v.lastack /\ u.snd_wnd = v.snd_wnd
    BY <1>2 DEF PcbOk, QueueOk, PcbFields
  <2> HIDE DEF u
  <2>4. SynOk(u)  BY <1>2, <2>3 DEF SynOk
  <2>5. /\ PcbOk(h, FinSeen(v)) /\ SynOk(FinSeen(v)) /\ SameButWindow(v, FinSeen(v))
        /\ v.rcv_wnd # v.opt.wnd => FinSeen(v).rcv_wnd = v.rcv_wnd + 1
    BY <1>2, FinSeenOk
  <2>6. /\ PcbOk(h, q) /\ SynOk(q) /\ q.state = v.state /\ q.opt = v.opt
        /\ q.rxclosed = v.rxclosed
    <3> HIDE DEF taken, fin, data
    <3> QED BY <1>2, <2>3, <2>4, <2>5 DEF SameButWindow
  <2>7. Accounted(q, d)
    <3> SUFFICES ASSUME Receives(v)
                 PROVE  q.rcv_wnd + UnitsIn(d.mbox) + Size(q.refused) = v.opt.wnd
      BY <2>6 DEF Accounted, Receives
    <3>1. v.refused = p.refused /\ v.rcv_wnd + Size(r.recv) = p.rcv_wnd /\ Receives(p)
      BY DEF Settles, Receives
    <3>2. p.rcv_wnd + UnitsIn(a.mbox) + Size(p.refused) = p.opt.wnd
      BY <3>1 DEF Consistent, Accounted
    <3>3. /\ p.rcv_wnd \in Nat /\ v.rcv_wnd \in Nat /\ UnitsIn(a.mbox) \in Nat
          /\ Size(p.refused) \in Nat
          /\ Size(r.recv) = Len(data) + IF fin THEN 1 ELSE 0
      BY <1>2, TotalType, PieceSize DEF PcbOk, Consistent
    <3>4. CASE ~taken
      <4>1. q = u /\ data # <<>>  BY <3>4
      <4>2. r.recv # NoData  BY <4>1 DEF NoData
      <4>3. Size(p.refused) = 0  BY <4>2, NothingSize
      <4>4. Size(q.refused) = Size(r.recv) /\ q.rcv_wnd = v.rcv_wnd  BY <2>3, <4>1
      <4> HIDE DEF q, d, v, data, fin, taken
      <4> QED BY <1>2, <2>1, <2>2, <3>1, <3>2, <3>3, <3>4, <4>3, <4>4
    <3>5. CASE taken /\ fin
      <4>1. q = FinSeen(v)  BY <3>5
      <4>2. v.rcv_wnd # v.opt.wnd
        <5> HIDE DEF q, d, v, data, fin, taken
        <5> QED BY <1>2, <2>1, <3>1, <3>2, <3>3, <3>5
      <4>3. q.rcv_wnd = v.rcv_wnd + 1 /\ q.refused = p.refused
        BY <2>5, <3>1, <4>1, <4>2 DEF SameButWindow
      <4>4. Size(r.recv) = Len(data) + 1 /\ UnitsIn(d.mbox) = UnitsIn(a.mbox) + Len(data)
        <5> HIDE DEF q, d, v, data, fin, taken
        <5> QED BY <2>2, <3>3, <3>5
      <4> HIDE DEF q, d, v, data, fin, taken
      <4>5. /\ p.rcv_wnd \in Nat /\ v.rcv_wnd \in Nat /\ UnitsIn(a.mbox) \in Nat
            /\ Size(p.refused) \in Nat /\ Len(data) \in Nat
        BY <2>1, <3>3
      <4>6. v.rcv_wnd + (Len(data) + 1) + UnitsIn(a.mbox) + Size(p.refused) = v.opt.wnd
        BY <1>2, <3>1, <3>2, <4>4
      <4>7. v.rcv_wnd + 1 + (UnitsIn(a.mbox) + Len(data)) + Size(p.refused) = v.opt.wnd
        BY <4>5, <4>6
      <4> QED BY <4>3, <4>4, <4>7
    <3>6. CASE taken /\ ~fin
      <4>1. q = v  BY <3>6
      <4>2. q.rcv_wnd = v.rcv_wnd /\ q.refused = p.refused  BY <3>1, <4>1
      <4> HIDE DEF q, d, v, data, fin, taken
      <4> QED BY <1>2, <2>1, <2>2, <3>1, <3>2, <3>3, <3>6, <4>2
    <3> QED BY <3>4, <3>5, <3>6
  <2> HIDE DEF q, d
  <2>8. Consistent(h, q, d)  BY <2>2, <2>6, <2>7 DEF Consistent
  <2>9. PcbOk(h, tcp_output(q)) /\ Same(q, tcp_output(q)) /\ Idle(q, tcp_output(q))
    BY <2>6, OutputOk
  <2>10. SynOk(tcp_output(q))  BY <2>6, <2>9, SynStays
  <2>11. Consistent(h, tcp_output(q), d)  BY <2>8, <2>9, <2>10, SendsConsistent
  <2>12. normal.p = tcp_output(q) /\ normal.a = d  OBVIOUS
  <2> HIDE DEF normal
  <2> QED BY <1>2, <2>6, <2>9, <2>11, <2>12 DEF Same
<1> HIDE DEF gone, refuse, normal, x
<1>6. Consistent(h, x.p, x.a) /\ x.p.opt = p.opt  BY <1>1, <1>3, <1>4, <1>5
<1> QED BY <1>6 DEF x

LEMMA ActiveInputOk ==
    ASSUME NEW h \in Host, NEW p, NEW a, Consistent(h, p, a),
           p.state \notin {"CLOSED", "LISTEN", "TIME_WAIT"}, NEW s \in Packets(Peer(h))
    PROVE  LET x == ActiveInput(p, a, s)
           IN  Consistent(h, x.p, x.a) /\ x.p.opt = p.opt
<1> DEFINE f == Presented(p, a)
           r == tcp_process(Handling(f.p), s)
           x == Callbacks(r, f.a)
<1>1. ActiveInput(p, a, s) = IF f.p.refused # NoData /\ TCP_TCPLEN(s) > 0 THEN f ELSE x
  BY DEF ActiveInput
<1>2. Consistent(h, f.p, f.a) /\ f.p.state = p.state /\ f.p.opt = p.opt  BY PresentedOk
<1> HIDE DEF f
<1>3. PcbOk(h, f.p) /\ SynOk(f.p)  BY <1>2 DEF Consistent
<1>4. Settles(h, f.p, r) /\ (TCP_TCPLEN(s) = 0 => r.recv = NoData)
  BY <1>2, <1>3, ProcessOk
<1> HIDE DEF r
<1>5. TCP_TCPLEN(s) \in Nat  BY PacketType
<1>6. CASE f.p.refused # NoData /\ TCP_TCPLEN(s) > 0  BY <1>1, <1>2, <1>6
<1>7. CASE ~(f.p.refused # NoData /\ TCP_TCPLEN(s) > 0)
  <2>1. r.recv = NoData \/ f.p.refused = NoData  BY <1>4, <1>5, <1>7
  <2>2. Consistent(h, x.p, x.a) /\ x.p.opt = f.p.opt  BY <1>2, <1>4, <2>1, CallbacksOk
  <2> HIDE DEF x
  <2> QED BY <1>1, <1>2, <1>7, <2>2
<1> QED BY <1>6, <1>7

(* The SYN that is sent again is the only segment of the queues.           *)
LEMMA TimeoutSyn ==
    ASSUME NEW h, NEW p, PcbOk(h, p), SynOk(p), p.state = "SYN_SENT"
    PROVE  SynOk(RexmitTimeout(p))
<1> DEFINE th == Half(p, Min({p.cwnd, p.snd_wnd}))
           q == [p EXCEPT !.ssthresh = th, !.cwnd = p.opt.mss]
           t == [q EXCEPT !.unsent = q.unacked \o @, !.unacked = <<>>,
                          !.nrtx = (@ + 1) % RtxSpace]
           S == Segments(h, p.state, Limit(p.opt, p.snd_wnd_max))
           s == p.unacked[1]
<1>1. RexmitTimeout(p) = tcp_rexmit_rto(q)  BY DEF RexmitTimeout
<1>2. /\ p.unsent = <<>> /\ p.unacked \in Seq(S) /\ Len(p.unacked) = 1
      /\ s.seq = p.lastack /\ s.data = <<>> /\ p.snd_wnd \in Nat
  BY DEF PcbOk, QueueOk, SynOk
<1>3. p.opt.mss \in Nat  BY DEF PcbOk, Options
<1> HIDE DEF th, S
<1>4. PcbOk(h, q) /\ Same(p, q)  BY DEF PcbOk, QueueOk, Same, PcbFields
<1>5. /\ q.unsent = <<>> /\ q.unacked = p.unacked /\ q.lastack = p.lastack
      /\ q.snd_wnd = p.snd_wnd /\ q.cwnd = p.opt.mss
  BY <1>2 DEF PcbOk, PcbFields
<1>6. p.unacked = <<s>> /\ p.unacked # <<>>
  <2> DEFINE u == p.unacked
  <2>1. u \in Seq(S) /\ Len(u) = 1  BY <1>2
  <2> HIDE DEF u
  <2>2. u = <<u[1]>> /\ u # <<>>  BY <2>1
  <2> QED BY <2>2 DEF u
<1> HIDE DEF s
<1>7. p.unacked \o <<>> = p.unacked
  <2>1. p.unacked \in Seq(S)  BY <1>2
  <2> QED BY <2>1, ConcatEmptySeq
<1> HIDE DEF q
<1>8. tcp_rexmit_rto(q) = tcp_output(t)  BY <1>5, <1>6 DEF tcp_rexmit_rto
<1>9. /\ DOMAIN t = PcbFields /\ Same(q, t) /\ t.snd_wnd_max = q.snd_wnd_max
      /\ t.rcv_nxt = q.rcv_nxt /\ t.edge = q.edge /\ t.rcv_ann_wnd = q.rcv_ann_wnd
      /\ t.snd_nxt = q.snd_nxt /\ t.lastack = q.lastack
      /\ t.snd_lbb \in Int /\ t.snd_buf \in Int /\ t.out = q.out
      /\ t.unsent = q.unacked \o q.unsent /\ t.unacked = <<>>
      /\ t.snd_wnd = q.snd_wnd /\ t.cwnd = q.cwnd
  BY <1>4 DEF PcbOk, Same, PcbFields
<1> HIDE DEF t
<1>10. t.unsent = p.unacked  BY <1>5, <1>7, <1>9
<1>11. PcbOk(h, t)
  <2>1. /\ t.unsent \in Seq(Segments(h, q.state, Limit(q.opt, q.snd_wnd_max)))
        /\ t.unacked \in Seq(Segments(h, q.state, Limit(q.opt, q.snd_wnd_max)))
    BY <1>4, <1>5, <1>9, <1>10 DEF PcbOk, QueueOk
  <2> QED BY <1>4, <1>9, <2>1, NewQueues
<1>12. /\ t.state = "SYN_SENT" /\ t.unsent = <<s>> /\ s.seq = t.lastack
       /\ t.snd_wnd \in Nat /\ t.cwnd \in Nat
  BY <1>2, <1>3, <1>4, <1>5, <1>6, <1>9, <1>10 DEF Same
<1>13. SynOk(tcp_output(t))
  <2>1. s.data = <<>> /\ t.unacked = <<>>  BY <1>2, <1>9
  <2> QED BY <1>11, <1>12, <2>1, SynSends
<1> QED BY <1>1, <1>8, <1>13

-----------------------------------------------------------------------------
(* The invariant.                                                          *)
ScenarioOk ==
    /\ {"opt", "units", "chunk", "accepted"} \subseteq DOMAIN sc
    /\ sc.opt \in Options /\ sc.units \in [Host -> Nat] /\ sc.chunk \subseteq Nat
    /\ sc.accepted \in Nat

Underway(lines) == DOMAIN lines = Host /\ \A h \in Host : lines[h] \in Seq(Packets(Peer(h)))

HostOk(h, p, a) ==
    /\ Consistent(h, p, a) /\ p.opt = sc.opt
    /\ h = "client" /\ p.state = "CLOSED" => p = Nobody("client", sc.opt)

WindowInv ==
    /\ ScenarioOk /\ Underway(net)
    /\ DOMAIN pcb = Host /\ DOMAIN app = Host
    /\ \A h \in Host : HostOk(h, pcb[h], app[h])

LEMMA WindowInitially == TcpInit => WindowInv
<1> SUFFICES ASSUME TcpInit PROVE WindowInv  OBVIOUS
<1>1. sc \in [opt : [mss : Nat \ {0}, wnd : Nat \ {0}, buf : Nat \ {0}],
              units : [{"client", "server"} -> Nat], chunk : SUBSET (Nat \ {0}),
              mbox : Nat \ {0}, loss : Nat, dup : Nat, late : Nat, early : Nat,
              restart : Nat, close : SUBSET {"close", "shutdown"},
              accepted : {0}, restarted : {FALSE}]
  BY TcpAssumption DEF TcpInit
<1>5. ScenarioOk
  <2>1. /\ {"opt", "units", "chunk", "accepted"} \subseteq DOMAIN sc /\ sc.accepted = 0
        /\ sc.opt \in Options /\ sc.units \in [Host -> Nat] /\ sc.chunk \subseteq Nat
    BY <1>1 DEF Options, Host
  <2> QED BY <2>1 DEF ScenarioOk
<1>6. Underway(net)  BY DEF TcpInit, Underway
<1>7. DOMAIN pcb = Host /\ DOMAIN app = Host  BY DEF TcpInit
<1>8. ASSUME NEW h \in Host PROVE HostOk(h, pcb[h], app[h])
  <2>1. pcb[h] = Nobody(h, sc.opt) /\ app[h] = NewApp  BY DEF TcpInit
  <2>2. /\ PcbOk(h, pcb[h]) /\ pcb[h].opt = sc.opt
        /\ pcb[h].state \in {"CLOSED", "LISTEN"}
    BY <1>5, <2>1, NobodyOk DEF ScenarioOk
  <2>3. AppOk(NewApp)
    <3>1. /\ NewApp.mbox = <<>> /\ NewApp.sent = 0
          /\ DOMAIN NewApp = {"sent", "got", "mbox", "eof", "err", "open"}
      BY DEF NewApp
    <3>2. <<>> \in Seq(Nat) /\ 0 \in Nat  OBVIOUS
    <3> QED BY <3>1, <3>2, TotalEmpty DEF AppOk
  <2>4. Consistent(h, pcb[h], app[h])  BY <2>1, <2>2, <2>3, ClosedConsistent
  <2> QED BY <2>1, <2>2, <2>4 DEF HostOk
<1> QED BY <1>5, <1>6, <1>7, <1>8 DEF WindowInv

(* The invariant gives the property.                                       *)
LEMMA WindowFollows == WindowInv => WindowAccounted
<1> SUFFICES ASSUME WindowInv, NEW h \in Host, Active(h), ~pcb[h].rxclosed
             PROVE  pcb[h].rcv_wnd + UnitsIn(app[h].mbox) + Len(pcb[h].refused.data)
                      + (IF pcb[h].refused.fin THEN 1 ELSE 0) = pcb[h].opt.wnd
  BY DEF WindowAccounted
<1>1. Consistent(h, pcb[h], app[h])  BY DEF WindowInv, HostOk
<1> DEFINE p == pcb[h]
           extra == IF p.refused.fin THEN 1 ELSE 0
<1>2. p.rcv_wnd + UnitsIn(app[h].mbox) + Size(p.refused) = p.opt.wnd
  BY <1>1 DEF Consistent, Accounted, Receives, Active
<1>3. /\ p.rcv_wnd \in Nat /\ UnitsIn(app[h].mbox) \in Nat /\ p.refused \in Pieces
  BY <1>1, TotalType DEF Consistent, PcbOk
<1>4. Len(p.refused.data) \in Nat /\ Size(p.refused) = Len(p.refused.data) + extra
  BY <1>3, PieceSize
<1>5. extra \in Nat  OBVIOUS
<1>6. p.rcv_wnd + UnitsIn(app[h].mbox) + Len(p.refused.data) + extra = p.opt.wnd
  <2> DEFINE t == UnitsIn(app[h].mbox)
             n == Len(p.refused.data)
  <2> HIDE DEF extra, t, n, p
  <2>1. p.rcv_wnd + t + (n + extra) = p.opt.wnd  BY <1>2, <1>4 DEF t, n
  <2>2. p.rcv_wnd \in Nat /\ t \in Nat /\ n \in Nat  BY <1>3, <1>4 DEF t, n
  <2>3. p.rcv_wnd + t + n + extra = p.opt.wnd  BY <1>5, <2>1, <2>2
  <2> QED BY <2>3 DEF t, n
<1> QED BY <1>6 DEF extra

LEMMA CarryType ==
    ASSUME NEW S, NEW under \in Seq(S), NEW segs \in Seq(S)
    PROVE  Carry(under, segs) \in Seq(S)
<1> DEFINE all == under \o segs
           n == Min({Capacity, Len(all)})
<1>1. all \in Seq(S) /\ Len(all) \in Nat  OBVIOUS
<1>2. Carry(under, segs) = SubSeq(all, 1, n)  BY DEF Carry
<1> HIDE DEF all
<1>3. n \in Nat /\ n <= Len(all)
  <2>1. Capacity \in Nat /\ Capacity \in Int /\ Len(all) \in Int  BY <1>1, TcpAssumption
  <2>2. n \in {Capacity, Len(all)} /\ n <= Len(all)  BY <2>1, MinOf
  <2> QED BY <1>1, <2>1, <2>2
<1> HIDE DEF n
<1>4. SubSeq(all, 0 + 1, n) \in Seq(S)  BY <1>1, <1>3, PartType
<1> QED BY <1>2, <1>4

(* What a handler leaves behind is as the invariant says if the control    *)
(* block it has worked on is.                                              *)
LEMMA DoneOk ==
    ASSUME WindowInv, NEW h \in Host, NEW p, NEW a, NEW under, Done(h, p, a, under),
           Consistent(h, p, a), p.opt = sc.opt, Underway(under),
           ScenarioOk', sc'.opt = sc.opt
    PROVE  WindowInv'
<1> DEFINE e == [p EXCEPT !.out = <<>>]
           q == IF p.state = "CLOSED" THEN Nobody(h, p.opt) ELSE e
<1>1. /\ pcb' = [pcb EXCEPT ![h] = q] /\ app' = [app EXCEPT ![h] = a]
      /\ net' = [under EXCEPT ![Peer(h)] = Carry(@, p.out)]
  BY DEF Done
<1>2. PcbOk(h, p) /\ SynOk(p) /\ AppOk(a) /\ Accounted(p, a) /\ p.opt \in Options
  BY DEF Consistent, PcbOk
<1>3. Consistent(h, q, a) /\ q.opt = sc.opt
      /\ (h = "client" /\ q.state = "CLOSED" => q = Nobody("client", sc.opt))
  <2>1. CASE p.state = "CLOSED"
    <3>1. q = Nobody(h, sc.opt)  BY <2>1
    <3> HIDE DEF q
    <3>2. PcbOk(h, q) /\ q.opt = sc.opt /\ q.state \in {"CLOSED", "LISTEN"}
      BY <1>2, <3>1, NobodyOk
    <3> QED BY <1>2, <3>1, <3>2, ClosedConsistent
  <2>2. CASE p.state # "CLOSED"
    <3>1. q = e  BY <2>2
    <3>2. /\ PcbOk(h, e) /\ Same(p, e) /\ e.unsent = p.unsent /\ e.unacked = p.unacked
          /\ e.lastack = p.lastack /\ e.snd_wnd = p.snd_wnd
      BY <1>2 DEF PcbOk, QueueOk, Same, PcbFields
    <3> HIDE DEF e, q
    <3>3. SynOk(e)  BY <1>2, <3>2 DEF SynOk, Same
    <3>4. Consistent(h, e, a)  BY <3>2, <3>3, SendsConsistent
    <3> QED BY <2>2, <3>1, <3>2, <3>4 DEF Same
  <2> QED BY <2>1, <2>2
<1> HIDE DEF q
<1>4. DOMAIN pcb' = Host /\ DOMAIN app' = Host  BY <1>1 DEF WindowInv
<1>5. ASSUME NEW g \in Host PROVE HostOk(g, pcb[g], app[g])'
  <2>1. CASE g = h
    <3>1. pcb'[g] = q /\ app'[g] = a  BY <1>1, <2>1 DEF WindowInv
    <3> QED BY <1>3, <2>1, <3>1 DEF HostOk
  <2>2. CASE g # h
    <3>1. pcb'[g] = pcb[g] /\ app'[g] = app[g]  BY <1>1, <2>2 DEF WindowInv
    <3> QED BY <3>1 DEF HostOk, WindowInv
  <2> QED BY <2>1, <2>2
<1>6. Underway(net)'
  <2>1. DOMAIN net' = Host  BY <1>1 DEF Underway
  <2>2. Peer(h) \in Host /\ Peer(Peer(h)) = h  BY DEF Host, Peer
  <2>3. net'[Peer(h)] \in Seq(Packets(h))
    <3>1. under[Peer(h)] \in Seq(Packets(h))  BY <2>2 DEF Underway
    <3>2. p.out \in Seq(Packets(h))  BY <1>2 DEF PcbOk
    <3>3. net'[Peer(h)] = Carry(under[Peer(h)], p.out)  BY <1>1, <2>2 DEF Underway
    <3> QED BY <3>1, <3>2, <3>3, CarryType
  <2>4. ASSUME NEW g \in Host PROVE net'[g] \in Seq(Packets(Peer(g)))
    <3>1. CASE g = Peer(h)  BY <2>2, <2>3, <3>1
    <3>2. CASE g # Peer(h)
      <4>1. net'[g] = under[g]  BY <1>1, <3>2 DEF Underway
      <4> QED BY <4>1 DEF Underway
    <3> QED BY <3>1, <3>2
  <2> QED BY <2>1, <2>4 DEF Underway
<1> QED BY <1>4, <1>5, <1>6 DEF WindowInv

LEMMA HostIs ==
    ASSUME WindowInv, NEW h \in Host
    PROVE  /\ Consistent(h, pcb[h], app[h]) /\ PcbOk(h, pcb[h]) /\ SynOk(pcb[h])
           /\ AppOk(app[h]) /\ pcb[h].opt = sc.opt /\ Underway(net)
BY DEF WindowInv, HostOk, Consistent

(* A control block that has only sent.                                     *)
LEMMA OnlySends ==
    ASSUME WindowInv, NEW h \in Host, NEW q, PcbOk(h, q), Same(pcb[h], q), SynOk(q),
           NEW a, AppOk(a), UnitsIn(a.mbox) = UnitsIn(app[h].mbox),
           Done(h, q, a, net), ScenarioOk', sc'.opt = sc.opt
    PROVE  WindowInv'
<1>1. Consistent(h, pcb[h], app[h]) /\ pcb[h].opt = sc.opt /\ Underway(net)  BY HostIs
<1>2. Consistent(h, q, app[h])  BY <1>1, SendsConsistent
<1>3. Consistent(h, q, a)  BY <1>2 DEF Consistent, Accounted
<1>4. q.opt = sc.opt  BY <1>1 DEF Same
<1> QED BY <1>1, <1>3, <1>4, DoneOk

(* A control block that is gone.                                           *)
LEMMA GivenUp ==
    ASSUME WindowInv, NEW h \in Host, NEW a, AppOk(a), Done(h, Gone(pcb[h]), a, net),
           ScenarioOk', sc'.opt = sc.opt
    PROVE  WindowInv'
<1> DEFINE q == Gone(pcb[h])
<1>1. PcbOk(h, pcb[h]) /\ pcb[h].opt = sc.opt /\ Underway(net)  BY HostIs
<1>2. PcbOk(h, q) /\ q.state = "CLOSED" /\ q.opt = pcb[h].opt  BY <1>1, GoneOk
<1> HIDE DEF q
<1>3. Consistent(h, q, a)  BY <1>2, ClosedConsistent
<1>4. Done(h, q, a, net)  BY DEF q
<1>5. q.opt = sc.opt  BY <1>1, <1>2
<1> QED BY <1>1, <1>3, <1>4, <1>5, DoneOk

LEMMA Unchanged ==
    ASSUME WindowInv, UNCHANGED sc
    PROVE  ScenarioOk' /\ sc'.opt = sc.opt
BY DEF WindowInv, ScenarioOk

(* An application's record with another field set.                         *)
LEMMA AppKept ==
    ASSUME NEW a, AppOk(a), NEW x
    PROVE  /\ AppOk([a EXCEPT !.err = x]) /\ [a EXCEPT !.err = x].mbox = a.mbox
           /\ AppOk([a EXCEPT !.open = x]) /\ [a EXCEPT !.open = x].mbox = a.mbox
BY DEF AppOk

LEMMA WindowConnect == WindowInv /\ Connect => WindowInv'
<1> SUFFICES ASSUME WindowInv, Connect PROVE WindowInv'  OBVIOUS
<1> DEFINE h == "client"
           q == tcp_connect(pcb[h], ClientIss)
<1>1. h \in Host  BY DEF Host
<1>2. NoPcb(h) /\ app[h] = NewApp /\ Done(h, q, app[h], net) /\ UNCHANGED sc  BY DEF Connect
<1>3. PcbOk(h, pcb[h]) /\ AppOk(app[h]) /\ Underway(net)  BY <1>1, HostIs
<1>4. pcb[h].state = "CLOSED"  BY <1>2, <1>3 DEF NoPcb, PcbOk, States
<1>5. pcb[h] = Nobody("client", sc.opt)  BY <1>1, <1>4 DEF WindowInv, HostOk
<1>6. sc.opt \in Options /\ ClientIss \in Int
  BY TcpAssumption, TcpPcbAssumption DEF WindowInv, ScenarioOk
<1>7. /\ PcbOk("client", q) /\ SynOk(q) /\ q.state = "SYN_SENT" /\ q.opt = sc.opt
      /\ q.refused = NoData /\ q.rcv_wnd = sc.opt.wnd
  BY <1>5, <1>6, ConnectOk
<1> HIDE DEF q
<1>8. Consistent(h, q, app[h])
  <2>1. UnitsIn(app[h].mbox) = 0  BY <1>2, <1>3, NewAppOk
  <2>2. sc.opt.wnd + 0 + 0 = sc.opt.wnd  BY <1>6 DEF Options
  <2>3. Accounted(q, app[h])  BY <1>7, <2>1, <2>2, NothingSize DEF Accounted
  <2> QED BY <1>3, <1>7, <2>3 DEF Consistent
<1>9. ScenarioOk' /\ sc'.opt = sc.opt  BY <1>2, Unchanged
<1> QED BY <1>1, <1>2, <1>3, <1>7, <1>8, <1>9, DoneOk

LEMMA WindowWrite ==
    ASSUME WindowInv, NEW h \in Host, NEW n \in sc.chunk, Write(h, n)
    PROVE  WindowInv'
<1> DEFINE p == pcb[h]
           u == Units(sc.units[h])
           data == SubSeq(u, app[h].sent + 1, app[h].sent + n)
           k == IF HasRoom(p, data) THEN Len(Fitting(p, data)) ELSE 0
           q == do_writemore(p, data)
           a == [app[h] EXCEPT !.sent = @ + k]
<1>1. /\ p.state \in {"ESTABLISHED", "CLOSE_WAIT"} /\ app[h].sent + n <= sc.units[h]
      /\ Done(h, q, a, net) /\ UNCHANGED sc
  BY DEF Write
<1>2. PcbOk(h, p) /\ AppOk(app[h])  BY HostIs
<1>3. n \in Nat /\ sc.units[h] \in Nat /\ app[h].sent \in Nat
  BY <1>2 DEF WindowInv, ScenarioOk, AppOk
<1>4. data \in Seq(Nat)
  <2>1. u \in Seq(Nat) /\ Len(u) = sc.units[h]  BY <1>3 DEF Units
  <2> DEFINE m == app[h].sent
             e == app[h].sent + n
  <2>2. m \in Nat /\ e \in Nat /\ e <= Len(u)  BY <1>1, <1>3, <2>1
  <2> HIDE DEF u, e, m
  <2>3. SubSeq(u, m + 1, e) \in Seq(Nat)  BY <2>1, <2>2, PartType
  <2> QED BY <2>3 DEF m, e
<1> HIDE DEF data
<1>5. k \in Nat
  <2>1. CASE HasRoom(p, data)
    <3>1. Fitting(p, data) \in Seq(Nat)  BY <1>2, <1>4, <2>1, FittingType
    <3>2. Len(Fitting(p, data)) \in Nat  BY <3>1
    <3> QED BY <2>1, <3>2
  <2>2. CASE ~HasRoom(p, data)  BY <2>2
  <2> QED BY <2>1, <2>2
<1> HIDE DEF k
<1>6. PcbOk(h, q) /\ Same(p, q)  BY <1>2, <1>4, WriteMoreOk
<1> HIDE DEF q
<1>7. SynOk(q)  BY <1>1, <1>6 DEF SynOk, Same
<1>8. AppOk(a) /\ a.mbox = app[h].mbox
  <2>1. app[h].sent + k \in Nat  BY <1>3, <1>5
  <2> QED BY <1>2, <2>1 DEF AppOk
<1> HIDE DEF a
<1>9. ScenarioOk' /\ sc'.opt = sc.opt  BY <1>1, Unchanged
<1> QED BY <1>1, <1>6, <1>7, <1>8, <1>9, OnlySends

LEMMA WindowRead ==
    ASSUME WindowInv, NEW h \in Host, Read(h)
    PROVE  WindowInv'
<1> DEFINE p == pcb[h]
           len == Head(app[h].mbox)
           t == tcp_recved(p, len)
           q == IF NoPcb(h) THEN p ELSE t
           rest == Tail(app[h].mbox)
           a == [app[h] EXCEPT !.mbox = rest]
<1>1. app[h].mbox # <<>> /\ Done(h, q, a, net) /\ UNCHANGED sc  BY DEF Read, CanRead
<1>2. /\ Consistent(h, p, app[h]) /\ PcbOk(h, p) /\ SynOk(p) /\ AppOk(app[h])
      /\ p.opt = sc.opt /\ Underway(net)
  BY HostIs
<1>3. /\ IsFiniteSet(Cells(rest)) /\ UnitsIn(app[h].mbox) = len + UnitsIn(rest)
      /\ UnitsIn(rest) \in Nat /\ len \in Nat /\ rest \in Seq(Nat)
  BY <1>1, <1>2, TotalTail DEF AppOk
<1> HIDE DEF len, rest
<1>4. AppOk(a) /\ a.mbox = rest  BY <1>2, <1>3 DEF AppOk
<1> HIDE DEF a
<1>5. /\ PcbOk(h, t) /\ SameButWindow(p, t) /\ Idle(p, t)
      /\ p.rcv_wnd + len <= p.opt.wnd => t.rcv_wnd = p.rcv_wnd + len
  BY <1>2, <1>3, RecvedOk
<1> HIDE DEF t
<1>6. ScenarioOk' /\ sc'.opt = sc.opt  BY <1>1, Unchanged
<1>7. CASE NoPcb(h)
  <2>1. q = p  BY <1>7
  <2>2. Consistent(h, p, a)  BY <1>2, <1>4, <1>7, ClosedConsistent DEF NoPcb
  <2> QED BY <1>1, <1>2, <1>6, <2>1, <2>2, DoneOk
<1>8. CASE ~NoPcb(h)
  <2>1. q = t  BY <1>8
  <2>2. SynOk(t)  BY <1>2, <1>5 DEF SynOk, Idle, SameButWindow
  <2>3. Accounted(t, a)
    <3> SUFFICES ASSUME Receives(p)
                 PROVE  t.rcv_wnd + UnitsIn(rest) + Size(p.refused) = p.opt.wnd
      BY <1>4, <1>5 DEF Accounted, Receives, SameButWindow
    <3> DEFINE m == UnitsIn(rest)
               z == Size(p.refused)
    <3>1. p.rcv_wnd + (len + m) + z = p.opt.wnd  BY <1>2, <1>3 DEF Consistent, Accounted
    <3>2. p.rcv_wnd \in Nat /\ z \in Nat /\ m \in Nat
      BY <1>2, <1>3, PieceSize DEF PcbOk
    <3> HIDE DEF m, z, p
    <3>3. p.rcv_wnd + len <= p.opt.wnd  BY <1>3, <3>1, <3>2
    <3>4. t.rcv_wnd = p.rcv_wnd + len  BY <1>5, <3>3
    <3>5. p.rcv_wnd + len + m + z = p.opt.wnd  BY <1>3, <3>1, <3>2
    <3> QED BY <3>4, <3>5 DEF m, z
  <2>4. Consistent(h, t, a) /\ t.opt = sc.opt
    BY <1>2, <1>4, <1>5, <2>2, <2>3 DEF Consistent, SameButWindow
  <2> QED BY <1>1, <1>2, <1>6, <2>1, <2>4, DoneOk
<1> QED BY <1>7, <1>8

LEMMA WindowClose ==
    ASSUME WindowInv, NEW h \in Host, Close(h)
    PROVE  WindowInv'
<1> DEFINE p == [pcb[h] EXCEPT !.rxclosed = TRUE]
           q == tcp_close_shutdown(p, TRUE)
<1>1. PICK outcome : /\ Done(h, q, [app[h] EXCEPT !.mbox = <<>>, !.open = outcome], net)
                     /\ UNCHANGED sc
  BY DEF Close, tcp_close
<1>2. ~NoPcb(h)  BY DEF Close
<1> DEFINE a == [app[h] EXCEPT !.mbox = <<>>, !.open = outcome]
<1>3. PcbOk(h, pcb[h]) /\ AppOk(app[h]) /\ pcb[h].opt = sc.opt /\ Underway(net)  BY HostIs
<1>4. PcbOk(h, p) /\ p.state = pcb[h].state /\ p.opt = pcb[h].opt /\ p.rxclosed
  BY <1>3 DEF PcbOk, QueueOk, PcbFields
<1> HIDE DEF p
<1>5. /\ PcbOk(h, q) /\ q.opt = p.opt /\ q.state # "SYN_SENT"
      /\ q.rxclosed = p.rxclosed \/ q.state = "CLOSED"
  <2>1. PICK rst \in BOOLEAN : rst = TRUE  OBVIOUS
  <2>2. p.state \notin {"CLOSED", "LISTEN"}  BY <1>2, <1>4 DEF NoPcb
  <2>3. LET t == tcp_close_shutdown(p, rst)
        IN  /\ PcbOk(h, t) /\ t.opt = p.opt /\ t.state # "SYN_SENT"
            /\ t.rxclosed = p.rxclosed \/ t.state = "CLOSED"
    BY <1>4, <2>2, CloseOk
  <2> QED BY <2>1, <2>3
<1> HIDE DEF q
<1>6. AppOk(a)
  <2>1. /\ DOMAIN a = {"sent", "got", "mbox", "eof", "err", "open"}
        /\ a.sent = app[h].sent /\ a.mbox = <<>>
    BY <1>3 DEF AppOk
  <2>2. <<>> \in Seq(Nat)  OBVIOUS
  <2> QED BY <1>3, <2>1, <2>2, TotalEmpty DEF AppOk
<1> HIDE DEF a
<1>7. Consistent(h, q, a)  BY <1>4, <1>5, <1>6 DEF Consistent, Accounted, Receives, SynOk
<1>8. ScenarioOk' /\ sc'.opt = sc.opt  BY <1>1, Unchanged
<1>9. Done(h, q, a, net) /\ q.opt = sc.opt  BY <1>1, <1>3, <1>4, <1>5 DEF a
<1> QED BY <1>3, <1>7, <1>8, <1>9, DoneOk

LEMMA WindowShutdown ==
    ASSUME WindowInv, NEW h \in Host, Shutdown(h)
    PROVE  WindowInv'
<1> DEFINE p == pcb[h]
           q == tcp_close_shutdown(p, FALSE)
<1>1. PICK outcome : /\ Done(h, q, [app[h] EXCEPT !.open = outcome], net)
                     /\ UNCHANGED sc
  BY DEF Shutdown, tcp_shutdown
<1>2. p.state \in {"ESTABLISHED", "CLOSE_WAIT"}  BY DEF Shutdown
<1> DEFINE a == [app[h] EXCEPT !.open = outcome]
<1>3. /\ Consistent(h, p, app[h]) /\ PcbOk(h, p) /\ AppOk(app[h]) /\ p.opt = sc.opt
      /\ Underway(net)
  BY HostIs
<1>4. /\ PcbOk(h, q) /\ q.opt = p.opt /\ q.state # "SYN_SENT"
      /\ q.rxclosed = p.rxclosed \/ q.state = "CLOSED"
      /\ \/ q.state \in {"CLOSED", "TIME_WAIT"}
         \/ q.rcv_wnd = p.rcv_wnd /\ q.refused = p.refused
  <2>1. PICK rst \in BOOLEAN : rst = FALSE  OBVIOUS
  <2>2. p.state \notin {"CLOSED", "LISTEN"}  BY <1>2
  <2>3. LET t == tcp_close_shutdown(p, rst)
        IN  /\ PcbOk(h, t) /\ t.opt = p.opt /\ t.state # "SYN_SENT"
            /\ t.rxclosed = p.rxclosed \/ t.state = "CLOSED"
            /\ \/ t.state \in {"CLOSED", "TIME_WAIT"}
               \/ t.rcv_wnd = p.rcv_wnd /\ t.refused = p.refused
    <3> HIDE DEF p
    <3> QED BY <1>3, <2>2, CloseOk
  <2> QED BY <2>1, <2>3
<1> HIDE DEF q
<1>5. AppOk(a) /\ a.mbox = app[h].mbox  BY <1>3, AppKept
<1> HIDE DEF a
<1>6. Consistent(h, q, a)
  BY <1>2, <1>3, <1>4, <1>5 DEF Consistent, Accounted, Receives, SynOk
<1>7. ScenarioOk' /\ sc'.opt = sc.opt  BY <1>1, Unchanged
<1>8. Done(h, q, a, net) /\ q.opt = sc.opt  BY <1>1, <1>3, <1>4 DEF a
<1> QED BY <1>3, <1>6, <1>7, <1>8, DoneOk

LEMMA RemoveType ==
    ASSUME NEW S, NEW q \in Seq(S), NEW i \in 1 .. Len(q)
    PROVE  RemoveAt(q, i) \in Seq(S)
<1> DEFINE m == i - 1
<1>1. m \in Nat /\ i \in Nat /\ Len(q) \in Nat /\ m <= Len(q)  OBVIOUS
<1>2. RemoveAt(q, i) = SubSeq(q, 1, m) \o SubSeq(q, i + 1, Len(q))  BY DEF RemoveAt
<1> HIDE DEF m
<1>3. SubSeq(q, 0 + 1, m) \in Seq(S)  BY <1>1, PartType
<1>4. SubSeq(q, i + 1, Len(q)) \in Seq(S)  BY <1>1, PartType
<1>5. SubSeq(q, 1, m) \in Seq(S)  BY <1>3
<1> QED BY <1>2, <1>4, <1>5, ConcatProperties

(* tcp_input: a segment for a connection, a listener or nobody.            *)
LEMMA InputOk ==
    ASSUME WindowInv, NEW h \in Host, NEW s \in Packets(Peer(h)), NEW under, Underway(under),
           tcp_input(h, s, under), ScenarioOk', sc'.opt = sc.opt
    PROVE  WindowInv'
<1> DEFINE p == pcb[h]
           fresh == p.state = "LISTEN" /\ s.syn /\ ~s.isack /\ ~s.rst
           q == CASE p.state = "TIME_WAIT" -> tcp_timewait_input(p, s)
                  [] p.state = "CLOSED" -> NoPcbInput(p, s)
                  [] p.state = "LISTEN" -> tcp_listen_input(p, s, tcp_next_iss)
           a == IF fresh THEN Renewed(app[h]) ELSE app[h]
           x == [p |-> q, a |-> a]
           y == ActiveInput(p, app[h], s)
           r == IF p.state \in {"CLOSED", "LISTEN", "TIME_WAIT"} THEN x ELSE y
<1>1. Done(h, r.p, r.a, under)  BY DEF tcp_input
<1>2. /\ Consistent(h, p, app[h]) /\ PcbOk(h, p) /\ AppOk(app[h]) /\ p.opt = sc.opt
  BY HostIs
<1>3. CASE p.state \notin {"CLOSED", "LISTEN", "TIME_WAIT"}
  <2>1. r = y  BY <1>3
  <2>2. Consistent(h, y.p, y.a) /\ y.p.opt = p.opt  BY <1>2, <1>3, ActiveInputOk
  <2> HIDE DEF y, r
  <2> QED BY <1>1, <1>2, <2>1, <2>2, DoneOk
<1>4. CASE p.state \in {"CLOSED", "TIME_WAIT"}
  <2>1. r = x  BY <1>4
  <2>2. x.p = q /\ x.a = app[h]  BY <1>4
  <2>3. q \in {tcp_timewait_input(p, s), NoPcbInput(p, s)}  BY <1>4
  <2> HIDE DEF x, r, q
  <2>4. PcbOk(h, tcp_timewait_input(p, s)) /\ Same(p, tcp_timewait_input(p, s))
    BY <1>2, TimeWaitInputOk
  <2>5. PcbOk(h, NoPcbInput(p, s)) /\ Same(p, NoPcbInput(p, s))
    BY <1>2, NoPcbInputOk
  <2>6. PcbOk(h, q) /\ Same(p, q)  BY <2>3, <2>4, <2>5
  <2>7. Consistent(h, q, app[h]) /\ q.opt = sc.opt
    BY <1>2, <1>4, <2>6, ClosedConsistent DEF Same
  <2> QED BY <1>1, <2>1, <2>2, <2>7, DoneOk
<1>5. CASE p.state = "LISTEN"
  <2>1. r = x  BY <1>5
  <2>2. x.p = q /\ x.a = a /\ q = tcp_listen_input(p, s, tcp_next_iss)  BY <1>5
  <2>3. h = "server"  BY <1>2, <1>5 DEF PcbOk, States, Host
  <2>4. tcp_next_iss \in Int
    <3>1. sc.accepted \in Nat /\ ServerIss \in Nat /\ IssStep \in Nat
      BY TcpAssumption, TcpPcbAssumption DEF WindowInv, ScenarioOk
    <3>2. ServerIss + sc.accepted * IssStep \in Int  BY <3>1
    <3> QED BY <3>2, NumType DEF tcp_next_iss
  <2> HIDE DEF x, r, q
  <2>5. /\ PcbOk(h, q) /\ q.opt = p.opt
        /\ ~(s.syn /\ ~s.isack /\ ~s.rst) => Same(p, q)
        /\ (s.syn /\ ~s.isack /\ ~s.rst) =>
              q.state = "SYN_RCVD" /\ q.rcv_wnd = q.opt.wnd /\ q.refused = NoData
    BY <1>2, <2>2, <2>3, <2>4, ListenOk
  <2>6. Consistent(h, q, a)
    <3>1. CASE fresh
      <4>1. a = Renewed(app[h])  BY <3>1
      <4>2. AppOk(a) /\ UnitsIn(a.mbox) = 0  BY <1>2, <4>1, NewAppOk
      <4>3. q.opt.wnd + 0 + 0 = q.opt.wnd  BY <2>5 DEF PcbOk, Options
      <4>4. Accounted(q, a)  BY <2>5, <3>1, <4>2, <4>3, NothingSize DEF Accounted
      <4>5. SynOk(q)  BY <2>5, <3>1 DEF SynOk
      <4> QED BY <2>5, <4>2, <4>4, <4>5 DEF Consistent
    <3>2. CASE ~fresh
      <4>1. a = app[h] /\ Same(p, q)  BY <1>5, <2>5, <3>2
      <4> HIDE DEF a
      <4>2. q.state = "LISTEN"  BY <1>5, <4>1 DEF Same
      <4> QED BY <1>2, <2>5, <4>1, <4>2, ClosedConsistent
    <3> QED BY <3>1, <3>2
  <2> HIDE DEF a
  <2> QED BY <1>1, <1>2, <2>1, <2>2, <2>5, <2>6, DoneOk
<1> QED BY <1>3, <1>4, <1>5

LEMMA WindowReceive ==
    ASSUME WindowInv, NEW h \in Host, Receive(h)
    PROVE  WindowInv'
<1>1. PICK i \in 1 .. Len(net[h]), copy \in BOOLEAN : Arrives(h, i, copy)  BY DEF Receive
<1> DEFINE kept == IF copy THEN net ELSE [net EXCEPT ![h] = RemoveAt(@, i)]
           s == net[h][i]
<1>2. Underway(net)  BY HostIs
<1>3. net[h] \in Seq(Packets(Peer(h)))  BY <1>2 DEF Underway
<1>4. s \in Packets(Peer(h))  BY <1>3
<1>5. tcp_input(h, s, kept)  BY <1>1 DEF Arrives
<1>6. Underway(kept)
  <2>1. RemoveAt(net[h], i) \in Seq(Packets(Peer(h)))  BY <1>3, RemoveType
  <2> QED BY <1>2, <2>1 DEF Underway
<1> HIDE DEF kept, s
<1>7. ScenarioOk' /\ sc'.opt = sc.opt
  <2> DEFINE late == IF i > 1 THEN sc.late - 1 ELSE sc.late
             dup == IF copy THEN sc.dup - 1 ELSE sc.dup
             more == IF pcb[h].state = "LISTEN" /\ pcb'[h].state = "SYN_RCVD"
                     THEN sc.accepted + 1 ELSE sc.accepted
  <2>1. sc' = [sc EXCEPT !.late = late, !.dup = dup, !.accepted = more]
    BY <1>1 DEF Arrives
  <2>2. more \in Nat  BY DEF WindowInv, ScenarioOk
  <2> HIDE DEF late, dup, more
  <2> QED BY <2>1, <2>2 DEF WindowInv, ScenarioOk
<1> QED BY <1>4, <1>5, <1>6, <1>7, InputOk

LEMMA WindowLose ==
    ASSUME WindowInv, NEW h \in Host, Lose(h)
    PROVE  WindowInv'
<1>1. PICK i \in 1 .. Len(net[h]) : net' = [net EXCEPT ![h] = RemoveAt(@, i)]  BY DEF Lose
<1>2. Underway(net)  BY HostIs
<1>3. Underway(net)'
  <2>1. net[h] \in Seq(Packets(Peer(h)))  BY <1>2 DEF Underway
  <2>2. RemoveAt(net[h], i) \in Seq(Packets(Peer(h)))  BY <2>1, RemoveType
  <2> QED BY <1>1, <1>2, <2>2 DEF Underway
<1>4. sc' = [sc EXCEPT !.loss = @ - 1] /\ pcb' = pcb /\ app' = app  BY DEF Lose
<1>5. ScenarioOk' /\ sc'.opt = sc.opt  BY <1>4 DEF WindowInv, ScenarioOk
<1> QED BY <1>3, <1>4, <1>5 DEF WindowInv, HostOk

LEMMA WindowRestart == WindowInv /\ Restart => WindowInv'
<1> SUFFICES ASSUME WindowInv, Restart PROVE WindowInv'  OBVIOUS
<1> DEFINE h == "server"
<1>1. /\ pcb' = [pcb EXCEPT ![h] = Nobody(h, sc.opt)]
      /\ app' = [app EXCEPT ![h] = Renewed(app[h])]
      /\ sc' = [sc EXCEPT !.restart = @ - 1, !.restarted = TRUE] /\ net' = net
  BY DEF Restart
<1>2. h \in Host  BY DEF Host
<1>3. ScenarioOk' /\ sc'.opt = sc.opt /\ sc.opt \in Options
  BY <1>1 DEF WindowInv, ScenarioOk
<1>4. /\ PcbOk(h, Nobody(h, sc.opt)) /\ Nobody(h, sc.opt).opt = sc.opt
      /\ Nobody(h, sc.opt).state \in {"CLOSED", "LISTEN"}
  BY <1>2, <1>3, NobodyOk
<1>5. AppOk(Renewed(app[h]))
  <2>1. AppOk(app[h])  BY <1>2, HostIs
  <2> QED BY <2>1, NewAppOk
<1>6. Consistent(h, Nobody(h, sc.opt), Renewed(app[h]))  BY <1>4, <1>5, ClosedConsistent
<1>7. ASSUME NEW g \in Host PROVE HostOk(g, pcb[g], app[g])'
  <2>1. CASE g = h
    <3>1. pcb'[g] = Nobody(h, sc.opt) /\ app'[g] = Renewed(app[h])
      BY <1>1, <1>2, <2>1 DEF WindowInv
    <3> QED BY <1>3, <1>4, <1>6, <2>1, <3>1 DEF HostOk
  <2>2. CASE g # h
    <3>1. pcb'[g] = pcb[g] /\ app'[g] = app[g]  BY <1>1, <2>2 DEF WindowInv
    <3> QED BY <1>3, <3>1 DEF HostOk, WindowInv
  <2> QED BY <2>1, <2>2
<1> QED BY <1>1, <1>3, <1>7 DEF WindowInv, Underway

LEMMA WindowRetransmit ==
    ASSUME WindowInv, NEW h \in Host, Retransmit(h)
    PROVE  WindowInv'
<1> DEFINE p == pcb[h]
           u == tcp_zero_window_probe(p)
           v == RexmitTimeout(p)
           q == IF p.persist THEN u ELSE v
<1>1. Expires /\ Done(h, q, app[h], net)  BY DEF Retransmit
<1>2. PcbOk(h, p) /\ SynOk(p) /\ AppOk(app[h])  BY HostIs
<1>3. ScenarioOk' /\ sc'.opt = sc.opt
  <2>1. UNCHANGED sc \/ sc' = [sc EXCEPT !.early = @ - 1]  BY <1>1 DEF Expires
  <2> QED BY <2>1 DEF WindowInv, ScenarioOk
<1>4. PcbOk(h, u) /\ Same(p, u) /\ Idle(p, u)  BY <1>2, ProbeOk
<1>5. SynOk(u)  BY <1>2, <1>4, SynStays
<1>6. PcbOk(h, v) /\ Same(p, v)  BY <1>2, TimeoutOk
<1>7. SynOk(v)
  <2>1. CASE p.state = "SYN_SENT"  BY <1>2, <2>1, TimeoutSyn
  <2>2. CASE p.state # "SYN_SENT"  BY <1>6, <2>2 DEF SynOk, Same
  <2> QED BY <2>1, <2>2
<1> HIDE DEF u, v
<1>8. PcbOk(h, q) /\ Same(p, q) /\ SynOk(q)  BY <1>4, <1>5, <1>6, <1>7
<1> HIDE DEF q
<1> QED BY <1>1, <1>2, <1>3, <1>8, OnlySends

LEMMA WindowGiveUp ==
    ASSUME WindowInv, NEW h \in Host, GiveUp(h) \/ TimeWaitOver(h)
    PROVE  WindowInv'
<1>1. AppOk(app[h])  BY HostIs
<1>2. UNCHANGED sc  BY DEF GiveUp, TimeWaitOver
<1>3. ScenarioOk' /\ sc'.opt = sc.opt  BY <1>2, Unchanged
<1>4. CASE GiveUp(h)
  <2> DEFINE a == [app[h] EXCEPT !.err = TRUE]
  <2>1. AppOk(a) /\ Done(h, Gone(pcb[h]), a, net)  BY <1>1, <1>4, AppKept DEF GiveUp
  <2> HIDE DEF a
  <2> QED BY <1>3, <2>1, GivenUp
<1>5. CASE TimeWaitOver(h)
  <2>1. Done(h, Gone(pcb[h]), app[h], net)  BY <1>5 DEF TimeWaitOver
  <2> QED BY <1>1, <1>3, <2>1, GivenUp
<1> QED BY <1>4, <1>5

LEMMA WindowPoll ==
    ASSUME WindowInv, NEW h \in Host, Poll(h)
    PROVE  WindowInv'
<1> DEFINE p == pcb[h]
           q == tcp_output(p)
<1>1. Done(h, q, app[h], net) /\ UNCHANGED sc  BY DEF Poll
<1>2. PcbOk(h, p) /\ SynOk(p) /\ AppOk(app[h])  BY HostIs
<1>3. ScenarioOk' /\ sc'.opt = sc.opt  BY <1>1, Unchanged
<1>4. PcbOk(h, q) /\ Same(p, q) /\ Idle(p, q)  BY <1>2, OutputOk
<1>5. SynOk(q)  BY <1>2, <1>4, SynStays
<1> HIDE DEF q
<1> QED BY <1>1, <1>2, <1>3, <1>4, <1>5, OnlySends

LEMMA WindowFast ==
    ASSUME WindowInv, NEW h \in Host, tcp_fasttmr(h)
    PROVE  WindowInv'
<1> DEFINE p == pcb[h]
           k == tcp_ack_now(p)
           t == tcp_output(k)
           u == [t EXCEPT !.ack = {}]
           q == IF "delay" \in p.ack THEN u ELSE p
           r == Presented(q, app[h])
<1>1. Done(h, r.p, r.a, net) /\ UNCHANGED sc  BY DEF tcp_fasttmr
<1>2. /\ Consistent(h, p, app[h]) /\ PcbOk(h, p) /\ SynOk(p) /\ p.opt = sc.opt
      /\ Underway(net)
  BY HostIs
<1>3. ScenarioOk' /\ sc'.opt = sc.opt  BY <1>1, Unchanged
<1>4. PcbOk(h, k) /\ Same(p, k) /\ Idle(p, k)  BY <1>2, AckNow
<1>5. SynOk(k)  BY <1>2, <1>4, SynStays
<1> HIDE DEF k
<1>6. PcbOk(h, t) /\ Same(k, t) /\ Idle(k, t)  BY <1>4, OutputOk
<1>7. SynOk(t)  BY <1>5, <1>6, SynStays
<1> HIDE DEF t
<1>8. PcbOk(h, u) /\ Same(t, u) /\ Idle(t, u)
  BY <1>6 DEF PcbOk, QueueOk, Same, Idle, PcbFields
<1>9. SynOk(u)  BY <1>7, <1>8, SynStays
<1> HIDE DEF u
<1>10. Same(p, u)  BY <1>4, <1>6, <1>8 DEF Same
<1>11. Consistent(h, u, app[h])  BY <1>2, <1>8, <1>9, <1>10, SendsConsistent
<1>12. Consistent(h, q, app[h]) /\ q.opt = sc.opt  BY <1>2, <1>10, <1>11 DEF Same
<1> HIDE DEF q
<1>13. Consistent(h, r.p, r.a) /\ r.p.opt = sc.opt  BY <1>12, PresentedOk
<1> HIDE DEF r
<1> QED BY <1>1, <1>2, <1>3, <1>13, DoneOk

LEMMA WindowStep == WindowInv /\ [TcpNext]_tcpVars => WindowInv'
<1> SUFFICES ASSUME WindowInv, [TcpNext]_tcpVars PROVE WindowInv'  OBVIOUS
<1>1. CASE Connect  BY <1>1, WindowConnect
<1>2. CASE Restart  BY <1>2, WindowRestart
<1>3. ASSUME NEW h \in Host, \E n \in sc.chunk : Write(h, n) PROVE WindowInv'
  BY <1>3, WindowWrite
<1>4. ASSUME NEW h \in Host, Read(h) PROVE WindowInv'  BY <1>4, WindowRead
<1>5. ASSUME NEW h \in Host, Close(h) PROVE WindowInv'  BY <1>5, WindowClose
<1>6. ASSUME NEW h \in Host, Shutdown(h) PROVE WindowInv'  BY <1>6, WindowShutdown
<1>7. ASSUME NEW h \in Host, Receive(h) PROVE WindowInv'  BY <1>7, WindowReceive
<1>8. ASSUME NEW h \in Host, Lose(h) PROVE WindowInv'  BY <1>8, WindowLose
<1>9. ASSUME NEW h \in Host, Retransmit(h) PROVE WindowInv'  BY <1>9, WindowRetransmit
<1>10. ASSUME NEW h \in Host, GiveUp(h) \/ TimeWaitOver(h) PROVE WindowInv'
  BY <1>10, WindowGiveUp
<1>11. ASSUME NEW h \in Host, Poll(h) PROVE WindowInv'  BY <1>11, WindowPoll
<1>12. ASSUME NEW h \in Host, tcp_fasttmr(h) PROVE WindowInv'  BY <1>12, WindowFast
<1>13. CASE UNCHANGED tcpVars
  <2>1. pcb' = pcb /\ app' = app /\ net' = net /\ sc' = sc  BY <1>13 DEF tcpVars
  <2> QED BY <2>1 DEF WindowInv, ScenarioOk, Underway, HostOk
<1> QED BY <1>1, <1>2, <1>3, <1>4, <1>5, <1>6, <1>7, <1>8, <1>9, <1>10, <1>11, <1>12, <1>13
        DEF TcpNext

(* The receive window is what the buffers leave of TCP_WND, whatever the   *)
(* network does to the segments and whatever the applications do: each     *)
(* unit that tcp_receive takes from it is given back once, by tcp_recved   *)
(* or by the report of the FIN, and a piece of data that was refused and   *)
(* presented again (tcp_process_refused_data) counts once.                 *)
THEOREM WindowExact == TcpSpec => []WindowAccounted
<1>1. TcpInit => WindowInv  BY WindowInitially
<1>2. WindowInv /\ [TcpNext]_tcpVars => WindowInv'  BY WindowStep
<1>3. WindowInv => WindowAccounted  BY WindowFollows
<1> QED BY <1>1, <1>2, <1>3, PTL DEF TcpSpec
=============================================================================

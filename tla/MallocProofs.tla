---------------------------- MODULE MallocProofs ----------------------------
(***************************************************************************)
(* The allocator of malloc.c is correct for every table size, block size   *)
(* and set of request sizes: its table always describes what the callers   *)
(* hold, no two callers share a block, and it implements Pool.             *)
(*                                                                         *)
(* The start of the program on such a bank, for all sizes: what is lost is *)
(* lost in whole groups, and only by the error returns.                    *)
(***************************************************************************)
EXTENDS Malloc, Boot, FiniteSetTheorems, FunctionTheorems, TLAPS

(* The inductive invariant.  TableIsLive and LiveDisjoint are not inductive *)
(* without ScanInv: that the run about to be marked is free is a fact the   *)
(* loop of mymem_malloc accumulates over its iterations.                    *)
Inv == MallocTypeOK /\ LiveDisjoint /\ TableIsLive /\ ScanInv

(* What callers ask for is a positive number of blocks.                     *)
LEMMA CountsPositive == \A n \in Counts : n \in Nat /\ n > 0
BY MallocAssumption DEF Counts

(* A request's block count is one of Counts.                                *)
LEMMA NmembCount == \A s \in Sizes \ {0} : Nmemb(s) \in Counts
BY DEF Counts

(* Marking a free run of the table adds exactly one allocation.             *)
LEMMA MarkRun ==
    ASSUME NEW map \in [Cell -> Nat], NEW L \in SUBSET Block,
           Disjoint(L), Describes(map, L),
           NEW o \in Cell, NEW n \in Counts, o + n <= MemTblSize,
           \A i \in o .. o + n - 1 : map[i] = 0
    PROVE  LET b == [at |-> o, n |-> n]
           IN  /\ b \in Block
               /\ b \notin L
               /\ \A c \in L : Cells(c) \cap Cells(b) = {}
               /\ Write(map, o, n, n) \in [Cell -> Nat]
               /\ Disjoint(L \cup {b})
               /\ Describes(Write(map, o, n, n), L \cup {b})
<1> DEFINE b == [at |-> o, n |-> n]
<1> DEFINE m == Write(map, o, n, n)
<1>0. n \in Nat /\ n > 0 /\ MemTblSize \in Nat
  BY CountsPositive, MallocAssumption
<1>1. b \in Block /\ b.at = o /\ b.n = n
  BY DEF Block
<1>2. Cells(b) = o .. o + n - 1 /\ Cells(b) \subseteq Cell
  BY <1>0, <1>1 DEF Cells, Cell
<1>3. ASSUME NEW c \in L PROVE Cells(c) \cap Cells(b) = {}
  <2>1. \A i \in Cells(c) : map[i] = c.n
    BY DEF Describes
  <2>2. c.n > 0 /\ c.n \in Nat
    BY CountsPositive DEF Block
  <2> QED BY <1>2, <2>1, <2>2
<1>4. o \in Cells(b)
  BY <1>0, <1>2 DEF Cell
<1>5. b \notin L
  BY <1>3, <1>4
<1>6. m \in [Cell -> Nat] /\ \A i \in Cell : m[i] = IF i \in Cells(b) THEN n ELSE map[i]
  BY <1>0, <1>2 DEF Write
<1>7. Disjoint(L \cup {b})
  BY <1>2, <1>3 DEF Disjoint
<1>8. Describes(m, L \cup {b})
  <2>1. ASSUME NEW c \in L \cup {b}, NEW i \in Cells(c) PROVE m[i] = c.n
    <3>1. CASE c = b
      BY <1>1, <1>2, <1>6, <3>1
    <3>2. CASE c \in L
      <4>1. i \in Cell /\ i \notin Cells(b)
        BY <1>3, <3>2 DEF Disjoint
      <4> QED BY <1>6, <3>2, <4>1 DEF Describes
    <3> QED BY <3>1, <3>2
  <2>2. ASSUME NEW i \in Cell, m[i] # 0 PROVE \E c \in L \cup {b} : i \in Cells(c)
    BY <1>6, <2>2 DEF Describes
  <2> QED BY <2>1, <2>2 DEF Describes
<1> HIDE DEF b, m
<1> QED BY <1>1, <1>3, <1>5, <1>6, <1>7, <1>8 DEF b, m

(* Freeing an allocation removes exactly that one.                          *)
LEMMA ClearRun ==
    ASSUME NEW map \in [Cell -> Nat], NEW L \in SUBSET Block,
           Disjoint(L), Describes(map, L), NEW p \in L
    PROVE  /\ Clear(map, p.at) \in [Cell -> Nat]
           /\ Disjoint(L \ {p})
           /\ Describes(Clear(map, p.at), L \ {p})
<1> DEFINE m == Clear(map, p.at)
<1>1. p.at \in Cell /\ p.n \in Nat /\ p.n > 0
  BY CountsPositive DEF Block
<1>2. p.at \in Cells(p)
  BY <1>1 DEF Cells, Cell
<1>3. map[p.at] = p.n
  BY <1>2 DEF Describes
<1>4. m \in [Cell -> Nat] /\ \A i \in Cell : m[i] = IF i \in Cells(p) THEN 0 ELSE map[i]
  BY <1>1, <1>3 DEF Clear, Write, Cells
<1>5. Disjoint(L \ {p})
  BY DEF Disjoint
<1>6. Describes(m, L \ {p})
  <2>1. ASSUME NEW c \in L \ {p}, NEW i \in Cells(c) PROVE m[i] = c.n
    <3>1. i \in Cell /\ i \notin Cells(p)
      BY DEF Disjoint
    <3> QED BY <1>4, <3>1 DEF Describes
  <2>2. ASSUME NEW i \in Cell, m[i] # 0 PROVE \E c \in L \ {p} : i \in Cells(c)
    BY <1>4, <2>2 DEF Describes
  <2> QED BY <2>1, <2>2 DEF Describes
<1> HIDE DEF m
<1> QED BY <1>4, <1>5, <1>6 DEF m

(* Initially the pool is empty and no call is in progress.                  *)
LEMMA InitInv == MallocInit => Inv
<1> SUFFICES ASSUME MallocInit PROVE Inv
  OBVIOUS
<1>1. MallocTypeOK
  BY MallocAssumption DEF MallocInit, MallocTypeOK, Cleared, Idle, NoRequest, Cell
<1>2. LiveDisjoint
  BY DEF MallocInit, LiveDisjoint, Disjoint
<1>3. TableIsLive
  BY DEF MallocInit, TableIsLive, Describes, Cleared
<1>4. ScanInv
  BY DEF MallocInit, ScanInv, Idle
<1> QED BY <1>1, <1>2, <1>3, <1>4 DEF Inv

(* The entry of mymem_malloc preserves the invariant.                       *)
LEMMA EnterInv ==
    ASSUME Inv, NEW op \in {"malloc", "realloc"}, NEW ptr \in live \cup {NULL},
           NEW sz \in Sizes, Enter(op, ptr, sz)
    PROVE  Inv'
<1> USE MallocAssumption
<1>1. memmap' \in [Cell -> Nat] /\ live' = live /\ memrdy' = 1
  BY DEF Inv, MallocTypeOK, Enter, Cleared
<1>2. Describes(memmap', live)
  <2>1. CASE memrdy = 0
    BY <2>1 DEF Inv, ScanInv, Describes, Enter, Cleared
  <2>2. CASE memrdy # 0
    BY <2>2 DEF Inv, TableIsLive, Enter
  <2> QED BY <2>1, <2>2
<1>2a. call = Idle
  BY DEF Enter
<1>3. CASE sz = 0
  <2>1. UNCHANGED <<call, size, offset, cmemb, live, ret>>
    BY <1>3 DEF Enter
  <2>2. MallocTypeOK'
    BY <1>1, <2>1 DEF Inv, MallocTypeOK
  <2>3. ScanInv'
    BY <1>1, <1>2a, <2>1 DEF Inv, ScanInv
  <2> QED BY <1>1, <1>2, <2>1, <2>2, <2>3 DEF Inv, LiveDisjoint, TableIsLive
<1>4. CASE sz # 0
  <2>1. /\ call' = [op |-> op, ptr |-> ptr]
        /\ size' = sz
        /\ offset' = MemTblSize - 1
        /\ cmemb' = 0
        /\ ret' = ret
    BY <1>4 DEF Enter
  <2>2. MallocTypeOK'
    BY <1>1, <2>1 DEF Inv, MallocTypeOK
  <2>3. Nmemb(sz) \in Nat /\ Nmemb(sz) > 0
    BY <1>4
  <2>4. ScanInv'
    <3>1. call' # Idle /\ call'.ptr = ptr
      BY <2>1 DEF Idle
    <3>2. ptr # NULL => ptr \in live
      OBVIOUS
    <3> QED BY <1>1, <1>4, <2>1, <2>3, <3>1, <3>2 DEF ScanInv, Cell
  <2> QED BY <1>1, <1>2, <2>2, <2>4 DEF Inv, LiveDisjoint, TableIsLive
<1> QED BY <1>3, <1>4

(* An iteration that does not complete a run moves the frontier down by one *)
(* entry and rules out the run that starts there.                           *)
LEMMA ScanStepInv ==
    ASSUME Inv, Scan
    PROVE  Inv'
<1> USE MallocAssumption
<1>0. /\ offset \in Cell /\ cmemb \in Nat
      /\ memmap \in [Cell -> Nat]
      /\ size \in Sizes \ {0}
      /\ call # Idle
  BY DEF Inv, MallocTypeOK, Scan, Cell, ScanInv
<1>1. Nmemb(size) \in Nat /\ Nmemb(size) > 0
  BY <1>0
<1>2. /\ cmemb < Nmemb(size)
      /\ offset + 1 + cmemb <= MemTblSize
      /\ \A i \in offset + 1 .. offset + cmemb : memmap[i] = 0
      /\ offset + 1 + cmemb = MemTblSize \/ memmap[offset + 1 + cmemb] # 0
      /\ \A a \in Cell :
           a > offset /\ a + Nmemb(size) <= MemTblSize =>
               \E i \in a .. a + Nmemb(size) - 1 : memmap[i] # 0
  BY <1>0 DEF Inv, ScanInv
<1>3. /\ offset' = offset - 1
      /\ cmemb' = IF memmap[offset] = 0 THEN cmemb + 1 ELSE 0
      /\ cmemb' # Nmemb(size)
      /\ UNCHANGED <<memrdy, memmap, call, size, live, ret>>
  BY DEF Scan, Run
<1>4. MallocTypeOK'
  BY <1>0, <1>2, <1>3 DEF Inv, MallocTypeOK, Cell
<1>5. cmemb' < Nmemb(size) /\ offset' + 1 + cmemb' <= MemTblSize
  BY <1>0, <1>1, <1>2, <1>3 DEF Cell
<1>6. /\ \A i \in offset' + 1 .. offset' + cmemb' : memmap[i] = 0
      /\ offset' + 1 + cmemb' = MemTblSize \/ memmap[offset' + 1 + cmemb'] # 0
  BY <1>0, <1>2, <1>3 DEF Cell
<1>7. ASSUME NEW a \in Cell, a > offset', a + Nmemb(size) <= MemTblSize
      PROVE  \E i \in a .. a + Nmemb(size) - 1 : memmap[i] # 0
  <2>1. CASE a > offset
    BY <1>2, <1>7, <2>1
  <2>2. CASE a = offset /\ memmap[offset] # 0
    BY <1>0, <1>1, <2>2 DEF Cell
  <2>3. CASE a = offset /\ memmap[offset] = 0
    \* The run at offset has length cmemb + 1 < nmemb, and it ends at a used
    \* entry: otherwise cmemb had been longer.
    <3>1. cmemb + 1 < Nmemb(size) /\ offset + 1 + cmemb < MemTblSize
      BY <1>0, <1>1, <1>2, <1>3, <1>7, <2>3 DEF Cell
    <3> QED BY <1>0, <1>1, <1>2, <1>7, <2>3, <3>1 DEF Cell
  <2> QED BY <1>0, <1>3, <1>7, <2>1, <2>2, <2>3 DEF Cell
<1>8. ScanInv'
  BY <1>0, <1>3, <1>5, <1>6, <1>7 DEF Inv, ScanInv
<1> QED BY <1>3, <1>4, <1>8 DEF Inv, LiveDisjoint, TableIsLive

(* The iteration that completes a run hands out entries that are free; a    *)
(* reallocation then frees the block its caller gave up.                    *)
LEMMA FoundInv ==
    ASSUME Inv, Found
    PROVE  Inv'
<1> USE MallocAssumption
<1> DEFINE b == [at |-> offset, n |-> Nmemb(size)]
<1> DEFINE m == Write(memmap, offset, Nmemb(size), Nmemb(size))
<1>0. /\ offset \in Cell /\ cmemb \in Nat
      /\ memmap \in [Cell -> Nat]
      /\ size \in Sizes \ {0}
      /\ live \in SUBSET Block
      /\ call # Idle
  BY DEF Inv, MallocTypeOK, Found, Cell, ScanInv
<1>1. Nmemb(size) \in Nat /\ Nmemb(size) > 0 /\ Nmemb(size) \in Counts
  BY <1>0, NmembCount
<1>2. /\ offset + Nmemb(size) <= MemTblSize
      /\ \A i \in offset .. offset + Nmemb(size) - 1 : memmap[i] = 0
  <2>1. memmap[offset] = 0 /\ Nmemb(size) = cmemb + 1
    BY <1>0, <1>1 DEF Found, Run
  <2>2. /\ offset + 1 + cmemb <= MemTblSize
        /\ \A i \in offset + 1 .. offset + cmemb : memmap[i] = 0
    BY <1>0 DEF Inv, ScanInv
  <2> QED BY <1>0, <2>1, <2>2 DEF Cell
<1>3. /\ b \in Block
      /\ b \notin live
      /\ \A c \in live : Cells(c) \cap Cells(b) = {}
      /\ m \in [Cell -> Nat]
      /\ Disjoint(live \cup {b})
      /\ Describes(m, live \cup {b})
  BY <1>0, <1>1, <1>2, MarkRun DEF Inv, LiveDisjoint, TableIsLive
<1>4. /\ memmap' = FreeTable(m, call.ptr)
      /\ live' = (live \ {call.ptr}) \cup {b}
      /\ ret' = [ok |-> 1, n |-> b.n, at |-> b.at]
      /\ call' = Idle /\ size' = 0 /\ offset' = -1 /\ cmemb' = 0
      /\ memrdy' = memrdy
  BY DEF Found, Return
<1>5. b.at \in Cell /\ b.n \in Counts
  BY <1>0, <1>1
<1>6. memrdy = 1 /\ (call.ptr # NULL => call.ptr \in live)
  BY <1>0 DEF Inv, ScanInv
<1> HIDE DEF b, m
<1>7. /\ memmap' \in [Cell -> Nat]
      /\ live' \subseteq Block
      /\ Disjoint(live')
      /\ Describes(memmap', live')
  <2>1. CASE call.ptr = NULL
    <3>1. NULL \notin live
      BY <1>0 DEF NULL, Block, Cell
    <3>2. live' = live \cup {b} /\ memmap' = m
      BY <1>4, <2>1, <3>1 DEF FreeTable
    <3> QED BY <1>0, <1>3, <3>2
  <2>2. CASE call.ptr # NULL
    <3>1. call.ptr \in live
      BY <1>6, <2>2
    <3>2. live' = (live \cup {b}) \ {call.ptr} /\ memmap' = Clear(m, call.ptr.at)
      BY <1>3, <1>4, <2>2, <3>1 DEF FreeTable
    <3>3. live \cup {b} \in SUBSET Block /\ call.ptr \in live \cup {b}
      BY <1>0, <1>3, <3>1
    <3> QED BY <1>3, <3>2, <3>3, ClearRun
  <2> QED BY <2>1, <2>2
<1>8. MallocTypeOK'
  BY <1>4, <1>5, <1>7 DEF Inv, MallocTypeOK, Idle, Cell
<1>9. ScanInv'
  BY <1>4, <1>6 DEF ScanInv, Idle
<1> QED BY <1>7, <1>8, <1>9 DEF Inv, LiveDisjoint, TableIsLive

(* myfree of a pointer the caller holds, or of NULL, preserves it.          *)
LEMMA FreeInv ==
    ASSUME Inv, NEW ptr \in live \cup {NULL}, myfree(ptr)
    PROVE  Inv'
<1> USE MallocAssumption
<1>0. memmap \in [Cell -> Nat] /\ live \in SUBSET Block
  BY DEF Inv, MallocTypeOK
<1>1. NULL \notin live
  BY <1>0 DEF NULL, Block, Cell
<1>2. /\ memmap' \in [Cell -> Nat]
      /\ Disjoint(live')
      /\ Describes(memmap', live')
  <2>1. CASE ptr = NULL
    <3>1. memmap' = memmap /\ live' = live
      BY <1>1, <2>1 DEF myfree, FreeTable
    <3> QED BY <1>0, <3>1 DEF Inv, LiveDisjoint, TableIsLive
  <2>2. CASE ptr \in live
    <3>1. memmap' = Clear(memmap, ptr.at) /\ live' = live \ {ptr}
      BY <1>1, <2>2 DEF myfree, FreeTable
    <3> QED BY <1>0, <2>2, <3>1, ClearRun DEF Inv, LiveDisjoint, TableIsLive
  <2> QED BY <2>1, <2>2
<1>3. /\ live' \subseteq live
      /\ ret' \in {ret, NoRequest}
      /\ call = Idle
      /\ UNCHANGED <<memrdy, call, size, offset, cmemb>>
  BY DEF myfree
<1>4. MallocTypeOK'
  BY <1>2, <1>3 DEF Inv, MallocTypeOK, NoRequest, Cell
<1>5. ScanInv'
  BY <1>3 DEF Inv, ScanInv, Idle
<1> QED BY <1>2, <1>4, <1>5 DEF Inv, LiveDisjoint, TableIsLive

(* Every step preserves the invariant.                                      *)
LEMMA NextInv == Inv /\ [MallocNext]_mallocVars => Inv'
<1> SUFFICES ASSUME Inv, [MallocNext]_mallocVars PROVE Inv'
  OBVIOUS
<1> USE MallocAssumption
<1>1. CASE mymem_init
  <2>1. live = {}
    BY <1>1 DEF Inv, ScanInv, mymem_init
  <2>2. memmap' \in [Cell -> Nat] /\ Describes(memmap', live)
    BY <1>1, <2>1 DEF mymem_init, Cleared, Describes
  <2>3. MallocTypeOK'
    BY <1>1, <2>2 DEF Inv, MallocTypeOK, mymem_init
  <2>4. ScanInv'
    BY <1>1 DEF Inv, ScanInv, mymem_init
  <2>5. live' = live
    BY <1>1 DEF mymem_init
  <2> QED BY <2>2, <2>3, <2>4, <2>5 DEF Inv, LiveDisjoint, TableIsLive
<1>2. ASSUME NEW sz \in Sizes, mymalloc(sz) PROVE Inv'
  BY <1>2, EnterInv DEF mymalloc
<1>3. ASSUME NEW sz \in Sizes, NEW ptr \in live \cup {NULL}, myrealloc(ptr, sz)
      PROVE  Inv'
  BY <1>3, EnterInv DEF myrealloc
<1>4. CASE Scan
  BY <1>4, ScanStepInv
<1>5. CASE Found
  BY <1>5, FoundInv
<1>6. CASE NotFound
  <2>1. ret' = [ok |-> 0, n |-> Nmemb(size), at |-> 0] /\ size \in Sizes \ {0}
    BY <1>6 DEF Inv, MallocTypeOK, ScanInv, NotFound
  <2>2. MallocTypeOK'
    BY <1>6, <2>1, NmembCount DEF Inv, MallocTypeOK, NotFound, Return, Idle, Cell
  <2>3. ScanInv'
    BY <1>6 DEF Inv, ScanInv, NotFound, Return, Idle
  <2>4. UNCHANGED <<memmap, live>>
    BY <1>6 DEF NotFound
  <2> QED BY <2>2, <2>3, <2>4 DEF Inv, LiveDisjoint, TableIsLive
<1>7. ASSUME NEW ptr \in live \cup {NULL}, myfree(ptr) PROVE Inv'
  BY <1>7, FreeInv
<1>8. CASE UNCHANGED mallocVars
  BY <1>8 DEF mallocVars, Inv, MallocTypeOK, LiveDisjoint, TableIsLive, ScanInv
<1> QED BY <1>1, <1>2, <1>3, <1>4, <1>5, <1>6, <1>7, <1>8 DEF MallocNext

(* The invariant holds in every reachable state.                            *)
LEMMA Invariance == MallocSpec => []Inv
BY InitInv, NextInv, PTL DEF MallocSpec

(* The scan of mymem_malloc stays inside the table.                         *)
THEOREM TypeCorrect == MallocSpec => []MallocTypeOK
<1>1. Inv => MallocTypeOK
  BY DEF Inv
<1> QED BY <1>1, Invariance, PTL

(* mymalloc and myrealloc never hand out a block that is still in use.      *)
THEOREM NoOverlap == MallocSpec => []LiveDisjoint
<1>1. Inv => LiveDisjoint
  BY DEF Inv
<1> QED BY <1>1, Invariance, PTL

(* memmap marks a block used exactly while a caller holds it.               *)
THEOREM TableCorrect == MallocSpec => []TableIsLive
<1>1. Inv => TableIsLive
  BY DEF Inv
<1> QED BY <1>1, Invariance, PTL

(* A run fits between the live allocations exactly when the table shows it  *)
(* free.                                                                    *)
LEMMA FitsIsFree ==
    ASSUME Inv, NEW a \in Cell, NEW n \in Counts
    PROVE  P!Fits(live, a, n) <=>
              /\ a + n <= MemTblSize
              /\ \A i \in a .. a + n - 1 : memmap[i] = 0
<1> USE MallocAssumption
<1>0. n \in Nat /\ n > 0 /\ memmap \in [Cell -> Nat] /\ live \in SUBSET Block
  BY CountsPositive DEF Inv, MallocTypeOK
<1>1. ASSUME P!Fits(live, a, n)
      PROVE  a + n <= MemTblSize /\ \A i \in a .. a + n - 1 : memmap[i] = 0
  <2>1. a + n <= MemTblSize
    BY <1>1 DEF P!Fits
  <2>2. ASSUME NEW i \in a .. a + n - 1 PROVE memmap[i] = 0
    <3>1. i \in Cell
      BY <1>0, <2>1 DEF Cell
    <3>2. \A b \in live : i \notin Cells(b)
      BY <1>1 DEF P!Fits, P!Cells, Cells
    <3> QED BY <3>1, <3>2 DEF Inv, TableIsLive, Describes
  <2> QED BY <2>1, <2>2
<1>2. ASSUME a + n <= MemTblSize, \A i \in a .. a + n - 1 : memmap[i] = 0
      PROVE  P!Fits(live, a, n)
  <2>1. ASSUME NEW b \in live PROVE Cells(b) \cap (a .. a + n - 1) = {}
    <3>1. \A i \in Cells(b) : memmap[i] = b.n
      BY DEF Inv, TableIsLive, Describes
    <3>2. b.n \in Nat /\ b.n > 0
      BY <1>0, CountsPositive DEF Block
    <3> QED BY <1>2, <3>1, <3>2
  <2> QED BY <1>2, <2>1 DEF P!Fits, P!Cells, Cells, Cell
<1> QED BY <1>1, <1>2

(* The completing iteration of the scan is Pool's grant.                    *)
LEMMA FoundRefines ==
    ASSUME Inv, Found
    PROVE  P!Next
<1> USE MallocAssumption
<1> DEFINE n == Nmemb(size)
<1>0. /\ offset \in Cell /\ cmemb \in Nat
      /\ size \in Sizes \ {0}
      /\ live \in SUBSET Block
      /\ call # Idle
  BY DEF Inv, MallocTypeOK, Found, Cell, ScanInv
<1>1. n \in Nat /\ n > 0 /\ n \in Counts
  BY <1>0, NmembCount
<1>2. memmap[offset] = 0 /\ n = cmemb + 1
  BY <1>0, <1>1 DEF Found, Run
<1>3. /\ offset + 1 + cmemb <= MemTblSize
      /\ \A i \in offset + 1 .. offset + cmemb : memmap[i] = 0
      /\ \A a \in Cell :
           a > offset /\ a + n <= MemTblSize =>
               \E i \in a .. a + n - 1 : memmap[i] # 0
      /\ call.ptr # NULL => call.ptr \in live
  BY <1>0 DEF Inv, ScanInv
<1>4. /\ live' = (live \ {call.ptr}) \cup {[at |-> offset, n |-> n]}
      /\ ret' = [ok |-> 1, n |-> n, at |-> offset]
  BY DEF Found
<1> HIDE DEF n
<1>5. P!Fits(live, offset, n)
  <2>1. offset + n <= MemTblSize /\ \A i \in offset .. offset + n - 1 : memmap[i] = 0
    BY <1>0, <1>1, <1>2, <1>3 DEF Cell
  <2> QED BY <1>0, <1>1, <2>1, FitsIsFree
<1>6. ASSUME NEW a \in Cell, P!Fits(live, a, n) PROVE a <= offset
  <2>1. a + n <= MemTblSize /\ \A i \in a .. a + n - 1 : memmap[i] = 0
    BY <1>1, <1>6, FitsIsFree
  <2> QED BY <1>0, <1>3, <2>1 DEF Cell
<1>7. P!HighestFit(live, offset, n)
  BY <1>5, <1>6 DEF P!HighestFit, Cell
<1>8. ASSUME NEW old, live' = (live \ old) \cup {[at |-> offset, n |-> n]}
      PROVE  P!Allocate(n, old)
  BY <1>0, <1>4, <1>7, <1>8 DEF P!Allocate, P!Granted, Cell
<1>9. CASE call.ptr = NULL
  <2>1. live \ {NULL} = live \ {}
    BY <1>0 DEF NULL, Block, Cell
  <2> QED BY <1>1, <1>4, <1>8, <1>9, <2>1 DEF P!Next
<1>10. CASE call.ptr # NULL
  <2>1. P!Allocate(n, {call.ptr})
    BY <1>4, <1>8
  <2> QED BY <1>1, <1>3, <1>10, <2>1 DEF P!Next
<1> QED BY <1>9, <1>10

(* A scan that runs out is Pool's refusal: nothing of that length is free.  *)
LEMMA NotFoundRefines ==
    ASSUME Inv, NotFound
    PROVE  P!Next
<1> USE MallocAssumption
<1> DEFINE n == Nmemb(size)
<1>0. size \in Sizes \ {0} /\ call # Idle /\ offset = -1
  BY DEF Inv, MallocTypeOK, ScanInv, NotFound
<1>1. n \in Counts
  BY <1>0, NmembCount
<1>2. \A a \in Cell :
         a > offset /\ a + n <= MemTblSize =>
             \E i \in a .. a + n - 1 : memmap[i] # 0
  BY <1>0 DEF Inv, ScanInv
<1>3. ret' = [ok |-> 0, n |-> n, at |-> 0] /\ live' = live
  BY DEF NotFound
<1> HIDE DEF n
<1>4. ASSUME NEW a \in Cell, P!Fits(live, a, n) PROVE FALSE
  <2>1. a + n <= MemTblSize /\ \A i \in a .. a + n - 1 : memmap[i] = 0
    BY <1>1, <1>4, FitsIsFree
  <2> QED BY <1>0, <1>2, <2>1 DEF Cell
<1>5. P!Refuse(n)
  BY <1>3, <1>4 DEF P!Refuse, P!Refused, Cell
<1> QED BY <1>1, <1>5 DEF P!Next

(* malloc.c implements Pool: every grant is the highest free run and a      *)
(* refusal means there is none.                                             *)
THEOREM ImplementsPool == MallocSpec => PoolSpec
<1>1. MallocInit => P!Init
  BY DEF MallocInit, P!Init, NoRequest, P!NoRequest, P!Refused
<1>2. Inv /\ [MallocNext]_mallocVars => [P!Next]_<<live, ret>>
  <2> SUFFICES ASSUME Inv, [MallocNext]_mallocVars PROVE P!Next \/ UNCHANGED <<live, ret>>
    OBVIOUS
  <2>1. CASE mymem_init \/ Scan \/ UNCHANGED mallocVars
    BY <2>1 DEF mymem_init, Scan, mallocVars
  <2>2. ASSUME NEW sz \in Sizes, NEW ptr, mymalloc(sz) \/ myrealloc(ptr, sz)
        PROVE  UNCHANGED <<live, ret>>
    BY <2>2 DEF mymalloc, myrealloc, Enter
  <2>3. CASE Found
    BY <2>3, FoundRefines
  <2>4. CASE NotFound
    BY <2>4, NotFoundRefines
  <2>5. ASSUME NEW ptr \in live \cup {NULL}, myfree(ptr)
        PROVE  P!Next \/ UNCHANGED <<live, ret>>
    <3>1. CASE ptr = NULL
      <4>1. NULL \notin live
        BY MallocAssumption DEF Inv, MallocTypeOK, NULL, Block, Cell
      <4> QED BY <2>5, <3>1, <4>1 DEF myfree
    <3>2. CASE ptr # NULL
      <4>1. P!Release(ptr)
        BY <2>5, <3>2 DEF myfree, P!Release, NoRequest, P!NoRequest, P!Refused
      <4> QED BY <3>2, <4>1 DEF P!Next
    <3> QED BY <3>1, <3>2
  <2> QED BY <2>1, <2>2, <2>3, <2>4, <2>5 DEF MallocNext
<1> QED BY <1>1, <1>2, Invariance, PTL DEF MallocSpec, PoolSpec, P!Spec

-----------------------------------------------------------------------------
(* The start of the program.  The buffers:                                 *)
LEMMA EthIs ==
    /\ EthSet = {"DMARxDscrTab", "DMATxDscrTab", "Rx_Buff", "Tx_Buff"}
    /\ LwipSet = {"memp_memory", "ram_heap", "TCPIP_THREAD_TASK_STK", "LWIP_DHCP_TASK_STK"}
    /\ EthBuffers[1] = "DMARxDscrTab" /\ EthBuffers[2] = "DMATxDscrTab"
    /\ EthBuffers[3] = "Rx_Buff" /\ EthBuffers[4] = "Tx_Buff"
    /\ LwipBuffers[1] = "memp_memory" /\ LwipBuffers[2] = "ram_heap"
    /\ LwipBuffers[3] = "TCPIP_THREAD_TASK_STK" /\ LwipBuffers[4] = "LWIP_DHCP_TASK_STK"
<1>1. 1 .. 4 = {1, 2, 3, 4}  OBVIOUS
<1>2. EthSet = {EthBuffers[1], EthBuffers[2], EthBuffers[3], EthBuffers[4]}  BY <1>1 DEF EthSet
<1>3. LwipSet = {LwipBuffers[1], LwipBuffers[2], LwipBuffers[3], LwipBuffers[4]}  BY <1>1 DEF
      LwipSet
<1>4. /\ EthBuffers[1] = "DMARxDscrTab" /\ EthBuffers[2] = "DMATxDscrTab"
      /\ EthBuffers[3] = "Rx_Buff" /\ EthBuffers[4] = "Tx_Buff"
      /\ LwipBuffers[1] = "memp_memory" /\ LwipBuffers[2] = "ram_heap"
      /\ LwipBuffers[3] = "TCPIP_THREAD_TASK_STK" /\ LwipBuffers[4] = "LWIP_DHCP_TASK_STK"
  BY DEF EthBuffers, LwipBuffers
<1> QED BY <1>2, <1>3, <1>4

(* The buffers asked for before the k-th of a group.                       *)
EthTo(k) == {EthBuffers[i] : i \in 1 .. k - 1}
LwipTo(k) == {LwipBuffers[i] : i \in 1 .. k - 1}

(* One more buffer of the Ethernet group.                                  *)
LEMMA EthStep ==
    ASSUME NEW k \in 1 .. 4
    PROVE  /\ EthTo(k + 1) = EthTo(k) \cup {EthBuffers[k]} /\ EthBuffers[k] \notin EthTo(k)
           /\ EthBuffers[k] \in EthSet
<1>1. EthTo(k + 1) = EthTo(k) \cup {EthBuffers[k]}
  <2>1. 1 .. (k + 1) - 1 = (1 .. k - 1) \cup {k}  OBVIOUS
  <2> QED BY <2>1 DEF EthTo
<1>2. \A i \in 1 .. 4 : EthBuffers[i] = EthBuffers[k] => i = k  BY EthIs
<1>3. \A i \in 1 .. k - 1 : i \in 1 .. 4 /\ i # k  OBVIOUS
<1> QED BY <1>1, <1>2, <1>3 DEF EthTo, EthSet

(* One more buffer of the group of lwIP.                                   *)
LEMMA LwipStep ==
    ASSUME NEW k \in 1 .. 4
    PROVE  /\ LwipTo(k + 1) = LwipTo(k) \cup {LwipBuffers[k]} /\ LwipBuffers[k] \notin LwipTo(k)
           /\ LwipBuffers[k] \in LwipSet
<1>1. LwipTo(k + 1) = LwipTo(k) \cup {LwipBuffers[k]}
  <2>1. 1 .. (k + 1) - 1 = (1 .. k - 1) \cup {k}  OBVIOUS
  <2> QED BY <2>1 DEF LwipTo
<1>2. \A i \in 1 .. 4 : LwipBuffers[i] = LwipBuffers[k] => i = k  BY EthIs
<1>3. \A i \in 1 .. k - 1 : i \in 1 .. 4 /\ i # k  OBVIOUS
<1> QED BY <1>1, <1>2, <1>3 DEF LwipTo, LwipSet

(* Before the first and after the last buffer of a group.                  *)
LEMMA Ends ==
    /\ EthTo(1) = {} /\ EthTo(5) = EthSet /\ LwipTo(1) = {} /\ LwipTo(5) = LwipSet
<1>1. 1 .. 1 - 1 = {} /\ 1 .. 5 - 1 = 1 .. 4  OBVIOUS
<1> QED BY <1>1 DEF EthTo, LwipTo, EthSet, LwipSet

-----------------------------------------------------------------------------
(* The blocks the buffers of a set take.                                   *)
Part(H, p) == IF p \in H THEN need[p] ELSE 0
Sum4(H, a, b, c, d) == Part(H, a) + Part(H, b) + Part(H, c) + Part(H, d)
TakenEth(H) == Sum4(H, "DMARxDscrTab", "DMATxDscrTab", "Rx_Buff", "Tx_Buff")
TakenLwip(H) ==
    Sum4(H, "memp_memory", "ram_heap", "TCPIP_THREAD_TASK_STK", "LWIP_DHCP_TASK_STK")
Taken(H) == TakenEth(H) + TakenLwip(H) + Part(H, "mbox")

NeedOK == need \in [Pointer -> Nat \ {0}]

FourOf(a, b, c, d) ==
    /\ {a, b, c, d} \subseteq Pointer
    /\ a # b /\ a # c /\ a # d /\ b # c /\ b # d /\ c # d

(* One more buffer, of this group or of another one.                       *)
SumStep(H, p, a, b, c, d) ==
    LET s == need[a] + need[b] + need[c] + need[d]
        t == Sum4(H, a, b, c, d)
        u == Sum4(H \cup {p}, a, b, c, d)
    IN  /\ s \in Nat \ {0} /\ t \in Nat /\ t <= s
        /\ p \in {a, b, c, d} => u = t + need[p] /\ t + need[p] <= s
        /\ p \notin {a, b, c, d} => u = t

(* The sum of a group steps so.                                            *)
LEMMA Sum4Is ==
    ASSUME NeedOK, NEW H, NEW p \in Pointer, p \notin H,
           NEW a, NEW b, NEW c, NEW d, FourOf(a, b, c, d)
    PROVE  SumStep(H, p, a, b, c, d)
<1> DEFINE G == H \cup {p}
<1>1. \A q \in Pointer : need[q] \in Nat /\ need[q] > 0  BY DEF NeedOK
<1>2. \A q \in Pointer : /\ Part(H, q) \in Nat /\ Part(H, q) <= need[q]
                         /\ q = p => Part(H, q) = 0 /\ Part(G, q) = need[q]
                         /\ q # p => Part(G, q) = Part(H, q)
  BY <1>1 DEF Part
<1>3. a \in Pointer /\ b \in Pointer /\ c \in Pointer /\ d \in Pointer  BY DEF FourOf
<1> HIDE DEF G
<1>4. CASE p \notin {a, b, c, d}  BY <1>1, <1>2, <1>3, <1>4 DEF SumStep, Sum4, G
<1>5. CASE p = a  BY <1>1, <1>2, <1>3, <1>5 DEF SumStep, Sum4, G, FourOf
<1>6. CASE p = b  BY <1>1, <1>2, <1>3, <1>6 DEF SumStep, Sum4, G, FourOf
<1>7. CASE p = c  BY <1>1, <1>2, <1>3, <1>7 DEF SumStep, Sum4, G, FourOf
<1>8. CASE p = d  BY <1>1, <1>2, <1>3, <1>8 DEF SumStep, Sum4, G, FourOf
<1> QED BY <1>4, <1>5, <1>6, <1>7, <1>8

(* One more buffer takes its blocks, and all of them no more than a call.  *)
LEMMA TakenIs ==
    ASSUME NeedOK, NEW H, NEW p \in Pointer, p \notin H
    PROVE  /\ Taken(H) \in Nat /\ Taken(H \cup {p}) = Taken(H) + need[p]
           /\ Taken(H) + need[p] <= PerCall + need["mbox"]
           /\ PerCall \in Nat \ {0} /\ need["mbox"] \in Nat
<1> DEFINE G == H \cup {p}
           E == need["DMARxDscrTab"] + need["DMATxDscrTab"] + need["Rx_Buff"] + need["Tx_Buff"]
           L == need["memp_memory"] + need["ram_heap"] + need["TCPIP_THREAD_TASK_STK"]
                + need["LWIP_DHCP_TASK_STK"]
           m == need["mbox"]
<1>1. /\ FourOf("DMARxDscrTab", "DMATxDscrTab", "Rx_Buff", "Tx_Buff")
      /\ FourOf("memp_memory", "ram_heap", "TCPIP_THREAD_TASK_STK", "LWIP_DHCP_TASK_STK")
  BY EthIs DEF FourOf, Pointer
<1>2. /\ E \in Nat \ {0} /\ TakenEth(H) \in Nat /\ TakenEth(H) <= E
      /\ p \in EthSet => TakenEth(G) = TakenEth(H) + need[p] /\ TakenEth(H) + need[p] <= E
      /\ p \notin EthSet => TakenEth(G) = TakenEth(H)
  <2>1. SumStep(H, p, "DMARxDscrTab", "DMATxDscrTab", "Rx_Buff", "Tx_Buff")  BY <1>1, Sum4Is
  <2> QED BY <2>1, EthIs DEF SumStep, TakenEth
<1>3. /\ L \in Nat \ {0} /\ TakenLwip(H) \in Nat /\ TakenLwip(H) <= L
      /\ p \in LwipSet => TakenLwip(G) = TakenLwip(H) + need[p] /\ TakenLwip(H) + need[p] <= L
      /\ p \notin LwipSet => TakenLwip(G) = TakenLwip(H)
  <2>1. SumStep(H, p, "memp_memory", "ram_heap", "TCPIP_THREAD_TASK_STK", "LWIP_DHCP_TASK_STK")
    BY <1>1, Sum4Is
  <2> QED BY <2>1, EthIs DEF SumStep, TakenLwip
<1>4. m \in Nat /\ need[p] \in Nat  BY DEF NeedOK, Pointer
<1>5. /\ Part(H, "mbox") \in Nat /\ Part(H, "mbox") <= m
      /\ p = "mbox" => Part(H, "mbox") = 0 /\ Part(G, "mbox") = m
      /\ p # "mbox" => Part(G, "mbox") = Part(H, "mbox")
  BY <1>4 DEF Part
<1>6. PerCall = E + L
  <2>1. \A q \in Pointer : need[q] \in Nat  BY DEF NeedOK
  <2> QED BY <2>1, EthIs DEF PerCall, Pointer
<1> HIDE DEF G, E, L, m
<1>7. CASE p \in EthSet
  <2>1. p \notin LwipSet /\ p # "mbox"  BY <1>7, EthIs
  <2> QED BY <1>2, <1>3, <1>4, <1>5, <1>6, <1>7, <2>1 DEF Taken, G, m
<1>8. CASE p \in LwipSet
  <2>1. p \notin EthSet /\ p # "mbox"  BY <1>8, EthIs
  <2> QED BY <1>2, <1>3, <1>4, <1>5, <1>6, <1>8, <2>1 DEF Taken, G, m
<1>9. CASE p = "mbox"
  <2>1. p \notin EthSet /\ p \notin LwipSet  BY <1>9, EthIs
  <2> QED BY <1>2, <1>3, <1>4, <1>5, <1>6, <1>9, <2>1 DEF Taken, G, m
<1> QED BY <1>7, <1>8, <1>9 DEF Pointer

-----------------------------------------------------------------------------
(* The bank: allocations that lie in it and do not overlap.                *)
Blk == {b \in [at : 0 .. NBlocks - 1, n : Nat \ {0}] : b.at + b.n <= NBlocks}
BankOK(B) ==
    B \subseteq Blk /\ \A b, c \in B : b # c => Bank!Cells(b) \cap Bank!Cells(c) = {}

(* What an allocation in the bank is.                                      *)
LEMMA BlkIs ==
    ASSUME NEW b \in Blk
    PROVE  /\ b.at \in Nat /\ b.n \in Nat /\ b.n > 0 /\ b.at + b.n <= NBlocks /\ NBlocks \in Nat
           /\ b.at \in 0 .. NBlocks - 1 /\ b.at \in Bank!Cells(b)
           /\ \A i \in Bank!Cells(b) : i \in Nat /\ i >= b.at
           /\ b # NullPtr
<1>1. /\ b.at \in Nat /\ b.n \in Nat /\ b.n > 0 /\ b.at + b.n <= NBlocks /\ NBlocks \in Nat
      /\ b.at \in 0 .. NBlocks - 1
  BY BootAssumption DEF Blk
<1>2. b # NullPtr  BY <1>1 DEF NullPtr
<1> QED BY <1>1, <1>2 DEF Bank!Cells

(* Every allocation has a first block of its own.                          *)
LEMMA BankFinite ==
    ASSUME NEW B, BankOK(B)
    PROVE  IsFiniteSet(B) /\ Cardinality(B) \in Nat /\ Cardinality(B) <= NBlocks
<1> DEFINE S == 0 .. NBlocks - 1
           f == [b \in B |-> b.at]
<1>1. \A b \in B : b \in Blk /\ b.at \in S  BY BlkIs DEF BankOK
<1>2. \A b, c \in B : f[b] = f[c] => b = c
  <2> SUFFICES ASSUME NEW b \in B, NEW c \in B, f[b] = f[c], b # c PROVE FALSE  OBVIOUS
  <2>1. b.at \in Bank!Cells(b) /\ c.at \in Bank!Cells(c) /\ b.at = c.at  BY <1>1, BlkIs
  <2>2. Bank!Cells(b) \cap Bank!Cells(c) = {}  BY DEF BankOK
  <2> QED BY <2>1, <2>2
<1>3. f \in [B -> S]  BY <1>1
<1>4. f \in Injection(B, S)  BY <1>2, <1>3 DEF Injection, IsInjective
<1>5. NBlocks \in Nat \ {0}  BY BootAssumption
<1>6. IsFiniteSet(S) /\ Cardinality(S) = NBlocks
  <2>1. 0 \in Int /\ NBlocks - 1 \in Int  BY <1>5
  <2>2. IsFiniteSet(S) /\ Cardinality(S) = IF 0 > NBlocks - 1 THEN 0 ELSE (NBlocks - 1) - 0 + 1
    BY <2>1, FS_Interval
  <2> QED BY <1>5, <2>2
<1> HIDE DEF S, f
<1>7. IsFiniteSet(B) /\ Cardinality(B) <= Cardinality(S)  BY <1>4, <1>6, FS_Injection
<1>8. Cardinality(B) \in Nat  BY <1>7, FS_CardinalityType
<1> QED BY <1>6, <1>7, <1>8

(* What the pointers of H, those of the buffers this call of               *)
(* lwip_comm_init has asked for, hold of the bank; the rest of it is what  *)
(* earlier calls have left there.                                          *)
Mine(H) ==
    /\ DOMAIN pointer = Pointer /\ pointer = [p \in Pointer |-> pointer[p]]
    /\ \A p \in Pointer : pointer[p] = NullPtr \/ (pointer[p] \in Blk /\ pointer[p].n = need[p])
    /\ \A p \in H : pointer[p] # NullPtr => pointer[p] \in bank
    /\ \A p, q \in H : p # q /\ pointer[p] # NullPtr => pointer[p] # pointer[q]

Old(H) == bank \ {pointer[p] : p \in H}

Counted(H) == \E e \in Nat : e >= fails /\ Cardinality(Old(H)) = 4 * (e + fails)

(* Before the first failure of the PHY the bank is filled from the top.    *)
Snug(H) ==
    /\ Old(H) = {} /\ \A p \in H : pointer[p] # NullPtr
    /\ \A b \in bank : b.at >= NBlocks - Taken(H)

Roomy == fails = 0 /\ Tolerated >= 0

Own(H) ==
    /\ NeedOK /\ BankOK(bank) /\ H \subseteq Pointer /\ Mine(H) /\ Counted(H)
    /\ Roomy => Snug(H)

(* A bank that is filled from the top has room for the next buffer.        *)
LEMMA Room ==
    ASSUME NEW H, Own(H), Roomy, NEW p \in Pointer, p \notin H
    PROVE  LET c == NBlocks - Taken(H) - need[p]
           IN  c \in 0 .. NBlocks - 1 /\ Bank!Fits(bank, c, need[p])
<1> DEFINE n == need[p]
           t == Taken(H)
           c == NBlocks - t - n
<1>1. NeedOK /\ Snug(H) /\ BankOK(bank)  BY DEF Own
<1>2. n \in Nat /\ n > 0 /\ NBlocks \in Nat  BY <1>1, BootAssumption DEF NeedOK
<1>3. /\ t \in Nat /\ t + n <= PerCall + need["mbox"]
      /\ PerCall \in Nat \ {0} /\ need["mbox"] \in Nat
  BY <1>1, TakenIs
<1>4. \A b \in bank : b.at >= NBlocks - t  BY <1>1 DEF Snug
<1> HIDE DEF n, t
<1>5. PerCall + need["mbox"] <= NBlocks
  <2> DEFINE x == NBlocks - need["mbox"]
             d == PerCall
  <2>1. x \in Int /\ d \in Nat \ {0}  BY <1>2, <1>3
  <2>2. x \div d >= 1  BY <2>1 DEF Roomy, Tolerated
  <2> HIDE DEF x, d
  <2>3. x >= d
    <3>1. CASE x >= 0
      <4>1. x < d => x \div d = 0  BY <2>1, <3>1
      <4> QED BY <2>1, <2>2, <4>1
    <3>2. CASE x < 0
      <4>1. x \div d < 1  BY <2>1, <3>2
      <4>2. x \div d \in Int  BY <2>1
      <4> QED BY <2>2, <4>1, <4>2
    <3> QED BY <2>1, <3>1, <3>2
  <2> QED BY <1>2, <1>3, <2>3 DEF x, d
<1>6. c \in 0 .. NBlocks - 1 /\ c + n <= NBlocks /\ c + n = NBlocks - t  BY <1>2, <1>3, <1>5
<1>7. ASSUME NEW b \in bank PROVE Bank!Cells(b) \cap (c .. c + n - 1) = {}
  <2>1. b \in Blk  BY <1>1 DEF BankOK
  <2>2. \A i \in Bank!Cells(b) : i \in Nat /\ i >= b.at  BY <2>1, BlkIs
  <2>3. b.at \in Nat  BY <2>1, BlkIs
  <2> QED BY <1>2, <1>4, <1>6, <2>2, <2>3
<1>8. Bank!Fits(bank, c, n)  BY <1>6, <1>7 DEF Bank!Fits
<1> QED BY <1>6, <1>8 DEF c, n, t

(* One mymalloc, granted or refused.                                       *)
LEMMA RequestOwn ==
    ASSUME NEW H, Own(H), NEW p \in Pointer, p \notin H, Request(p), UNCHANGED <<need, fails>>
    PROVE  Own(H \cup {p})'
<1> DEFINE n == need[p]
           G == H \cup {p}
           X == {pointer[q] : q \in H}
<1>1. NeedOK /\ BankOK(bank) /\ H \subseteq Pointer /\ Mine(H) /\ Counted(H) /\ (Roomy => Snug(H))
  BY DEF Own
<1>2. n \in Nat /\ n > 0 /\ NBlocks \in Nat  BY <1>1, BootAssumption DEF NeedOK
<1>3. NeedOK' /\ (Roomy' <=> Roomy) /\ Taken(G)' = Taken(G) /\ G \subseteq Pointer
  BY <1>1 DEF NeedOK, Roomy, Tolerated, PerCall, Taken, TakenEth, TakenLwip, Sum4, Part
<1>4. Taken(G) = Taken(H) + n /\ Taken(H) \in Nat  BY <1>1, TakenIs
<1>5. DOMAIN pointer = Pointer  BY <1>1 DEF Mine
<1>6. \A b \in bank : b \in Blk /\ b # NullPtr /\ b.at \in Nat  BY <1>1, BlkIs DEF BankOK
<1>7. CASE Bank!Refuse(n) /\ pointer' = [pointer EXCEPT ![p] = NullPtr]
  <2>1. bank' = bank /\ ~\E a \in 0 .. NBlocks - 1 : Bank!Fits(bank, a, n)  BY <1>7 DEF Bank!Refuse
  <2>2. ~Roomy  BY <2>1, Room
  <2>3. pointer'[p] = NullPtr /\ \A q \in Pointer : q # p => pointer'[q] = pointer[q]  BY <1>5, <1>7
  <2>4. \A q \in H : q # p /\ q \in Pointer /\ pointer'[q] = pointer[q]  BY <1>1, <2>3
  <2>5. {pointer'[q] : q \in G} = X \cup {NullPtr}  BY <2>3, <2>4
  <2>6. Old(G)' = Old(H)  BY <1>6, <2>1, <2>5 DEF Old
  <2>7. Counted(G)'  BY <1>1, <2>6 DEF Counted
  <2>8. BankOK(bank)'  BY <1>1, <2>1 DEF BankOK, Bank!Cells
  <2>9. Mine(G)'
    <3>1. (DOMAIN pointer = Pointer /\ pointer = [q \in Pointer |-> pointer[q]])'  BY <1>5, <1>7
    <3>2. \A q \in Pointer : pointer'[q] = NullPtr \/ (pointer'[q] \in Blk /\ pointer'[q].n =
          need'[q])
      BY <1>1, <2>3 DEF Mine
    <3>3. \A q \in G : pointer'[q] # NullPtr => pointer'[q] \in bank'  BY <1>1, <2>1, <2>3, <2>4
          DEF Mine
    <3>4. \A q, r \in G : q # r /\ pointer'[q] # NullPtr => pointer'[q] # pointer'[r]
      BY <1>1, <2>3, <2>4 DEF Mine
    <3> QED BY <3>1, <3>2, <3>3, <3>4 DEF Mine
  <2> QED BY <1>3, <2>2, <2>7, <2>8, <2>9 DEF Own
<1>8. CASE /\ Bank!Allocate(n, {})
           /\ pointer' = [pointer EXCEPT ![p] = [at |-> request'.at, n |-> request'.n]]
  <2>1. PICK a \in 0 .. NBlocks - 1 :
            /\ Bank!HighestFit(bank, a, n)
            /\ bank' = (bank \ {}) \cup {[at |-> a, n |-> n]}
            /\ request' = Bank!Granted([at |-> a, n |-> n])
    BY <1>8 DEF Bank!Allocate
  <2> DEFINE b == [at |-> a, n |-> n]
  <2>2. b.at = a /\ b.n = n /\ [at |-> request'.at, n |-> request'.n] = b  BY <2>1 DEF Bank!Granted
  <2>3. /\ a + n <= NBlocks /\ \A c \in bank : Bank!Cells(c) \cap (a .. a + n - 1) = {}
        /\ \A c \in 0 .. NBlocks - 1 : Bank!Fits(bank, c, n) => c <= a
    BY <2>1 DEF Bank!HighestFit, Bank!Fits
  <2>4. b \in Blk  BY <1>2, <2>3 DEF Blk
  <2>5. Bank!Cells(b) = a .. a + n - 1 /\ a \in Bank!Cells(b)  BY <1>2, <2>2 DEF Bank!Cells
  <2>6. b \notin bank  BY <2>3, <2>5
  <2>7. bank' = bank \cup {b}  BY <2>1
  <2>8. pointer' = [pointer EXCEPT ![p] = b]  BY <1>8, <2>2
  <2>9. b # NullPtr  BY <2>4, BlkIs
  <2> HIDE DEF b
  <2>10. pointer'[p] = b /\ \A q \in Pointer : q # p => pointer'[q] = pointer[q]  BY <1>5, <2>8
  <2>11. \A q \in H : q # p /\ q \in Pointer /\ pointer'[q] = pointer[q]  BY <1>1, <2>10
  <2>12. {pointer'[q] : q \in G} = X \cup {b}  BY <2>10, <2>11
  <2>13. Old(G)' = Old(H)  BY <2>6, <2>7, <2>12 DEF Old
  <2>14. Counted(G)'  BY <1>1, <2>13 DEF Counted
  <2>15. BankOK(bank)'
    <3>1. \A c \in bank' : c \in Blk  BY <1>6, <2>4, <2>7
    <3>2. \A c, d \in bank' : c # d => Bank!Cells(c) \cap Bank!Cells(d) = {}
      <4> SUFFICES ASSUME NEW c \in bank', NEW d \in bank', c # d
                   PROVE  Bank!Cells(c) \cap Bank!Cells(d) = {}
        OBVIOUS
      <4>1. CASE c \in bank /\ d \in bank  BY <1>1, <4>1 DEF BankOK
      <4>2. CASE c = b  BY <2>3, <2>5, <2>7, <4>2
      <4>3. CASE d = b  BY <2>3, <2>5, <2>7, <4>3
      <4> QED BY <2>7, <4>1, <4>2, <4>3
    <3> QED BY <3>1, <3>2 DEF BankOK, Bank!Cells
  <2>16. Mine(G)'
    <3>1. (DOMAIN pointer = Pointer /\ pointer = [q \in Pointer |-> pointer[q]])'  BY <1>5, <2>8
    <3>2. \A q \in Pointer : pointer'[q] = NullPtr \/ (pointer'[q] \in Blk /\ pointer'[q].n =
          need'[q])
      BY <1>1, <2>2, <2>4, <2>10 DEF Mine
    <3>3. \A q \in G : pointer'[q] # NullPtr => pointer'[q] \in bank'
      BY <1>1, <2>7, <2>10, <2>11 DEF Mine
    <3>4. \A q, r \in G : q # r /\ pointer'[q] # NullPtr => pointer'[q] # pointer'[r]
      <4>1. \A q \in H : pointer'[q] # b  BY <1>1, <2>6, <2>9, <2>11 DEF Mine
      <4> QED BY <1>1, <2>10, <2>11, <4>1 DEF Mine
    <3> QED BY <3>1, <3>2, <3>3, <3>4 DEF Mine
  <2>17. ASSUME Roomy PROVE Snug(G)'
    <3>1. Snug(H)  BY <1>1, <2>17
    <3>2. NBlocks - Taken(H) - n \in 0 .. NBlocks - 1 /\ Bank!Fits(bank, NBlocks - Taken(H) - n, n)
      BY <2>17, Room
    <3>3. a >= NBlocks - Taken(G)  BY <1>2, <1>4, <2>3, <3>2
    <3>4. \A c \in bank' : c.at >= NBlocks - Taken(G)
      <4>1. \A c \in bank : c.at >= NBlocks - Taken(G)  BY <1>2, <1>4, <1>6, <3>1 DEF Snug
      <4> QED BY <2>2, <2>7, <3>3, <4>1
    <3>5. Old(G)' = {}  BY <2>13, <3>1 DEF Snug
    <3>6. \A q \in G : pointer'[q] # NullPtr  BY <2>9, <2>10, <2>11, <3>1 DEF Snug
    <3> QED BY <1>3, <3>4, <3>5, <3>6 DEF Snug
  <2> QED BY <1>3, <2>14, <2>15, <2>16, <2>17 DEF Own
<1> QED BY <1>7, <1>8 DEF Request

-----------------------------------------------------------------------------
(* The ends of a call of lwip_comm_init.                                   *)

(* The groups have no buffer in common.                                    *)
LEMMA Groups ==
    /\ EthSet \subseteq Pointer /\ LwipSet \subseteq Pointer /\ "mbox" \in Pointer
    /\ \A p \in EthSet : p \notin LwipSet /\ p # "mbox"
    /\ \A p \in LwipSet : p \notin EthSet /\ p # "mbox"
    /\ EthSet \cup LwipSet \cup {"mbox"} = Pointer
BY EthIs DEF Pointer

Full(S) == \A p \in S : pointer[p] # NullPtr

FourNew(S, a, b, c, d) ==
    /\ a \notin S /\ b \notin S /\ c \notin S /\ d \notin S
    /\ a # b /\ a # c /\ a # d /\ b # c /\ b # d /\ c # d

(* Four different elements more.                                           *)
LEMMA FourMore ==
    ASSUME NEW S, IsFiniteSet(S), NEW a, NEW b, NEW c, NEW d, FourNew(S, a, b, c, d)
    PROVE  /\ IsFiniteSet(S \cup {a, b, c, d})
           /\ Cardinality(S \cup {a, b, c, d}) = Cardinality(S) + 4
<1> DEFINE S1 == S \cup {a}
           S2 == S1 \cup {b}
           S3 == S2 \cup {c}
           S4 == S3 \cup {d}
<1>0. Cardinality(S) \in Nat  BY FS_CardinalityType
<1>1. IsFiniteSet(S1) /\ Cardinality(S1) = Cardinality(S) + 1  BY FS_AddElement DEF FourNew
<1>2. b \notin S1 /\ c \notin S1 \cup {b} /\ d \notin S1 \cup {b} \cup {c}  BY DEF FourNew
<1>3. S4 = S \cup {a, b, c, d}  OBVIOUS
<1> HIDE DEF S1
<1>4. IsFiniteSet(S2) /\ Cardinality(S2) = Cardinality(S1) + 1  BY <1>1, <1>2, FS_AddElement
<1>5. c \notin S2  BY <1>2
<1>6. d \notin S2 \cup {c}  BY <1>2
<1> HIDE DEF S2
<1>7. IsFiniteSet(S3) /\ Cardinality(S3) = Cardinality(S2) + 1  BY <1>4, <1>5, FS_AddElement
<1>8. d \notin S3  BY <1>6
<1> HIDE DEF S3
<1>9. IsFiniteSet(S4) /\ Cardinality(S4) = Cardinality(S3) + 1  BY <1>7, <1>8, FS_AddElement
<1>10. Cardinality(S4) = Cardinality(S) + 4  BY <1>0, <1>1, <1>4, <1>7, <1>9
<1> HIDE DEF S4
<1> QED BY <1>3, <1>9, <1>10

(* The pointers of a group whose four requests were all granted.           *)
LEMMA GroupCount ==
    ASSUME NEW H, Mine(H), NEW S, S = EthSet \/ S = LwipSet, S \subseteq H, Full(S),
           NEW R, IsFiniteSet(R), \A p \in S : pointer[p] \notin R
    PROVE  LET E == {pointer[p] : p \in S}
           IN  IsFiniteSet(R \cup E) /\ Cardinality(R \cup E) = Cardinality(R) + 4
<1> DEFINE E == {pointer[p] : p \in S}
           Four(w, x, y, z) == /\ S = {w, x, y, z}
                               /\ w # x /\ w # y /\ w # z /\ x # y /\ x # z /\ y # z
<1>1. \E w, x, y, z : Four(w, x, y, z)
  <2>1. CASE S = EthSet
    <3>1. Four("DMARxDscrTab", "DMATxDscrTab", "Rx_Buff", "Tx_Buff")  BY <2>1, EthIs
    <3> QED BY <3>1
  <2>2. CASE S = LwipSet
    <3>1. Four("memp_memory", "ram_heap", "TCPIP_THREAD_TASK_STK", "LWIP_DHCP_TASK_STK")
      BY <2>2, EthIs
    <3> QED BY <3>1
  <2> QED BY <2>1, <2>2
<1>2. PICK w, x, y, z : Four(w, x, y, z)  BY <1>1
<1>3. E = {pointer[w], pointer[x], pointer[y], pointer[z]}  BY <1>2
<1>4. \A p, q \in S : p # q => pointer[p] # pointer[q]  BY DEF Mine, Full
<1>5. /\ pointer[w] # pointer[x] /\ pointer[w] # pointer[y] /\ pointer[w] # pointer[z]
      /\ pointer[x] # pointer[y] /\ pointer[x] # pointer[z] /\ pointer[y] # pointer[z]
  BY <1>2, <1>4
<1>6. pointer[w] \notin R /\ pointer[x] \notin R /\ pointer[y] \notin R /\ pointer[z] \notin R
  BY <1>2
<1>7. /\ IsFiniteSet(R \cup {pointer[w], pointer[x], pointer[y], pointer[z]})
      /\ Cardinality(R \cup {pointer[w], pointer[x], pointer[y], pointer[z]}) = Cardinality(R) + 4
  <2>1. FourNew(R, pointer[w], pointer[x], pointer[y], pointer[z])  BY <1>5, <1>6 DEF FourNew
  <2> QED BY <2>1, FourMore
<1> QED BY <1>3, <1>7

(* What is left of the bank is a bank, and nothing of it is this call's.   *)
LEMMA NewCall ==
    ASSUME NeedOK, BankOK(bank), NEW H, Mine(H), bank' \subseteq bank,
           pointer' = pointer, need' = need, Counted({})', ~Roomy'
    PROVE  Own({})'
<1>1. NeedOK'  BY DEF NeedOK
<1>2. BankOK(bank)'  BY DEF BankOK, Bank!Cells
<1>3. Mine({})'  BY DEF Mine
<1> QED BY <1>1, <1>2, <1>3 DEF Own

(* To a new call everything in the bank is old.                            *)
LEMMA OldEmpty == Old({})' = bank'
BY DEF Old

(* ETH_Mem_Malloc gives its group back.                                    *)
LEMMA EthFails ==
    ASSUME Own(EthSet), \E p \in EthSet : pointer[p] = NullPtr, FreeAll(EthSet),
           UNCHANGED <<need, fails>>
    PROVE  Own({})'
<1>1. NeedOK /\ BankOK(bank) /\ Mine(EthSet) /\ Counted(EthSet)  BY DEF Own
<1>2. bank' = Old(EthSet) /\ pointer' = pointer  BY DEF FreeAll, Old
<1>3. ~Roomy'  BY DEF Own, Snug, Roomy, Tolerated, PerCall
<1>4. Counted({})'  BY <1>1, <1>2, OldEmpty DEF Counted
<1>5. bank' \subseteq bank  BY <1>2 DEF Old
<1> QED BY <1>1, <1>2, <1>3, <1>4, <1>5, NewCall

(* lwip_comm_mem_malloc gives its group back and leaves the other.         *)
LEMMA LwipFails ==
    ASSUME Own(EthSet \cup LwipSet), Full(EthSet), \E p \in LwipSet : pointer[p] = NullPtr,
           FreeAll(LwipSet), UNCHANGED <<need, fails>>, fails \in Nat
    PROVE  Own({})'
<1> DEFINE H == EthSet \cup LwipSet
           E == {pointer[p] : p \in EthSet}
<1>1. NeedOK /\ BankOK(bank) /\ Mine(H) /\ Counted(H)  BY DEF Own
<1>2. bank' = bank \ {pointer[p] : p \in LwipSet} /\ pointer' = pointer  BY DEF FreeAll
<1>3. \A p \in EthSet : /\ pointer[p] \in bank
                        /\ \A q \in LwipSet : pointer[q] # pointer[p]
  BY <1>1, Groups DEF Mine, Full
<1>4. bank' = Old(H) \cup E  BY <1>2, <1>3 DEF Old
<1>5. IsFiniteSet(Old(H))
  <2>1. IsFiniteSet(bank) /\ Old(H) \subseteq bank  BY <1>1, BankFinite DEF Old
  <2> QED BY <2>1, FS_Subset
<1>6. Cardinality(bank') = Cardinality(Old(H)) + 4
  <2>1. \A p \in EthSet : pointer[p] \notin Old(H)  BY DEF Old
  <2>2. EthSet \subseteq H  OBVIOUS
  <2> QED BY <1>1, <1>4, <1>5, <2>1, <2>2, GroupCount
<1>7. Counted({})'
  <2>1. fails' = fails  OBVIOUS
  <2>2. PICK e \in Nat : e >= fails /\ Cardinality(Old(H)) = 4 * (e + fails)  BY <1>1 DEF Counted
  <2>3. e + 1 \in Nat /\ e + 1 >= fails' /\ Cardinality(Old({}))' = 4 * ((e + 1) + fails')
    BY <1>6, <2>1, <2>2, OldEmpty
  <2> QED BY <2>3 DEF Counted
<1>8. ~Roomy'  BY DEF Own, Snug, Roomy, Tolerated, PerCall
<1> QED BY <1>1, <1>2, <1>7, <1>8, NewCall

(* LAN8720_Init fails: both groups are left.                               *)
LEMMA PhyFails ==
    ASSUME Own(EthSet \cup LwipSet), Full(EthSet), Full(LwipSet), fails \in Nat,
           fails' = fails + 1, UNCHANGED <<need, pointer, bank>>
    PROVE  Own({})'
<1> DEFINE H == EthSet \cup LwipSet
           E == {pointer[p] : p \in EthSet}
           L == {pointer[p] : p \in LwipSet}
<1>1. NeedOK /\ BankOK(bank) /\ Mine(H) /\ Counted(H)  BY DEF Own
<1>2. bank = (Old(H) \cup E) \cup L  BY <1>1 DEF Old, Mine, Full
<1>3. IsFiniteSet(Old(H))
  <2>1. IsFiniteSet(bank) /\ Old(H) \subseteq bank  BY <1>1, BankFinite DEF Old
  <2> QED BY <2>1, FS_Subset
<1>4. IsFiniteSet(Old(H) \cup E) /\ Cardinality(Old(H) \cup E) = Cardinality(Old(H)) + 4
  <2>1. \A p \in EthSet : pointer[p] \notin Old(H)  BY DEF Old
  <2>2. EthSet \subseteq H  OBVIOUS
  <2> QED BY <1>1, <1>3, <2>1, <2>2, GroupCount
<1>5. Cardinality(bank) = Cardinality(Old(H) \cup E) + 4
  <2>1. \A p \in LwipSet : pointer[p] \notin Old(H) \cup E
    BY <1>1, Groups DEF Old, Mine, Full
  <2>2. LwipSet \subseteq H  OBVIOUS
  <2> QED BY <1>1, <1>2, <1>4, <2>1, <2>2, GroupCount
<1>6. Counted({})'
  <2>1. PICK e \in Nat : e >= fails /\ Cardinality(Old(H)) = 4 * (e + fails)  BY <1>1 DEF Counted
  <2>2. Old({})' = bank  BY OldEmpty
  <2>3. e + 1 \in Nat /\ e + 1 >= fails' /\ Cardinality(bank) = 4 * ((e + 1) + fails')
    BY <1>4, <1>5, <2>1
  <2> QED BY <2>2, <2>3 DEF Counted
<1>7. ~Roomy'  BY DEF Roomy
<1> QED BY <1>1, <1>6, <1>7, NewCall

-----------------------------------------------------------------------------
(* The inductive invariant: what is held at each step of main.             *)
Where ==
    \/ \E k \in 1 .. 5 : step = At("eth", k) /\ Own(EthTo(k))
    \/ \E k \in 1 .. 5 : step = At("lwip", k) /\ Own(EthSet \cup LwipTo(k)) /\ Full(EthSet)
    \/ /\ step \in {At("phy", 0), At("tcpip", 0)}
       /\ Own(EthSet \cup LwipSet) /\ Full(EthSet) /\ Full(LwipSet)
    \/ step = At("fault", 0) /\ Own(Pointer)
    \/ /\ step \in {At("netif", 0), At("tasks", 0), At("running", 0), At("booted", 0)}
       /\ Own(Pointer) /\ Full(Pointer)

BootInv ==
    /\ need \in Needs /\ fails \in 0 .. MaxPhyFailures
    /\ tasks \subseteq {"tcpip", "data", "start", "dhcp"} /\ Where

(* The parts of a step.                                                    *)
LEMMA AtIs == \A ph, k : At(ph, k).phase = ph /\ At(ph, k).k = k
BY DEF At

(* Where a step of each kind starts.                                       *)
LEMMA Phases ==
    ASSUME Where
    PROVE  /\ step.phase = "eth" =>
                 step.k \in 1 .. 5 /\ step = At("eth", step.k) /\ Own(EthTo(step.k))
           /\ step.phase = "lwip" =>
                 /\ step.k \in 1 .. 5 /\ step = At("lwip", step.k)
                 /\ Own(EthSet \cup LwipTo(step.k)) /\ Full(EthSet)
           /\ step.phase \in {"phy", "tcpip"} =>
                 Own(EthSet \cup LwipSet) /\ Full(EthSet) /\ Full(LwipSet)
           /\ step.phase \in {"netif", "tasks", "running"} => Own(Pointer) /\ Full(Pointer)
<1>1. ASSUME NEW k \in 1 .. 5, step = At("eth", k), Own(EthTo(k))
      PROVE  step.phase = "eth" /\ step.k = k
  BY <1>1, AtIs
<1>2. ASSUME NEW k \in 1 .. 5, step = At("lwip", k), Own(EthSet \cup LwipTo(k)), Full(EthSet)
      PROVE  step.phase = "lwip" /\ step.k = k
  BY <1>2, AtIs
<1>3. CASE \E k \in 1 .. 5 : step = At("eth", k) /\ Own(EthTo(k))
  BY <1>1, <1>3
<1>4. CASE \E k \in 1 .. 5 : step = At("lwip", k) /\ Own(EthSet \cup LwipTo(k)) /\ Full(EthSet)
  BY <1>2, <1>4
<1>5. CASE /\ step \in {At("phy", 0), At("tcpip", 0)}
           /\ Own(EthSet \cup LwipSet) /\ Full(EthSet) /\ Full(LwipSet)
  <2>1. step.phase \in {"phy", "tcpip"}  BY <1>5, AtIs
  <2> QED BY <1>5, <2>1
<1>6. CASE step = At("fault", 0) /\ Own(Pointer)
  <2>1. step.phase = "fault"  BY <1>6, AtIs
  <2> QED BY <2>1
<1>7. CASE /\ step \in {At("netif", 0), At("tasks", 0), At("running", 0), At("booted", 0)}
           /\ Own(Pointer) /\ Full(Pointer)
  <2>1. step.phase \in {"netif", "tasks", "running", "booted"}  BY <1>7, AtIs
  <2> QED BY <1>7, <2>1
<1> QED BY <1>3, <1>4, <1>5, <1>6, <1>7 DEF Where

(* A request sets one pointer.                                             *)
LEMMA RequestOthers ==
    ASSUME NEW H, Own(H), NEW p \in Pointer, Request(p)
    PROVE  \A q \in Pointer : q # p => pointer'[q] = pointer[q]
<1>1. DOMAIN pointer = Pointer  BY DEF Own, Mine
<1> QED BY <1>1 DEF Request

(* Own depends on four variables.                                          *)
LEMMA SameOwn ==
    ASSUME NEW H, Own(H), UNCHANGED <<need, pointer, bank, fails>>
    PROVE  Own(H)'
<1>1. NeedOK' /\ (Roomy' <=> Roomy) /\ Taken(H)' = Taken(H)
  BY DEF Own, NeedOK, Roomy, Tolerated, PerCall, Taken, TakenEth, TakenLwip, Sum4, Part
<1>2. BankOK(bank)' /\ Mine(H)' /\ Old(H)' = Old(H)
  BY DEF Own, BankOK, Mine, Old, Bank!Cells
<1>3. Counted(H)'  BY <1>2 DEF Own, Counted
<1>4. Roomy => Snug(H)'  BY <1>1, <1>2 DEF Own, Snug
<1> QED BY <1>1, <1>2, <1>3, <1>4 DEF Own

(* Full depends on the pointers.                                           *)
LEMMA SameFull ==
    ASSUME NEW S, Full(S), UNCHANGED pointer
    PROVE  Full(S)'
BY DEF Full

(* main calls lwip_comm_init again.                                        *)
LEMMA AgainWhere ==
    ASSUME Own({})', step' = Again
    PROVE  Where'
<1>1. Own(EthTo(1))'  BY Ends
<1>2. step' = At("eth", 1)  BY DEF Again
<1> QED BY <1>1, <1>2 DEF Where

-----------------------------------------------------------------------------
(* The steps.                                                              *)

(* A request of ETH_Mem_Malloc.                                            *)
LEMMA EthAllocInv ==
    ASSUME BootInv, EthAlloc
    PROVE  BootInv'
<1>1. step.phase = "eth" /\ step.k <= 4  BY DEF EthAlloc
<1>2. Where  BY DEF BootInv
<1>3. PICK k \in 1 .. 5 : k = step.k /\ Own(EthTo(k))  BY <1>1, <1>2, Phases
<1>4. k \in 1 .. 4  BY <1>1, <1>3
<1>5. /\ Request(EthBuffers[k]) /\ step' = At("eth", k + 1) /\ UNCHANGED <<need, fails, tasks>>
  BY <1>3 DEF EthAlloc
<1>6. /\ EthTo(k + 1) = EthTo(k) \cup {EthBuffers[k]} /\ EthBuffers[k] \notin EthTo(k)
      /\ EthBuffers[k] \in Pointer
  BY <1>4, EthStep, Groups
<1>7. Own(EthTo(k) \cup {EthBuffers[k]})'  BY <1>3, <1>5, <1>6, RequestOwn
<1>8. Own(EthTo(k + 1))'  BY <1>6, <1>7
<1>9. k + 1 \in 1 .. 5  BY <1>4
<1>10. Where'  BY <1>5, <1>8, <1>9 DEF Where
<1> QED BY <1>5, <1>10 DEF BootInv

(* The end of ETH_Mem_Malloc.                                              *)
LEMMA EthAllocatedInv ==
    ASSUME BootInv, EthAllocated
    PROVE  BootInv'
<1>1. step = At("eth", 5) /\ UNCHANGED <<need, fails, tasks>>  BY DEF EthAllocated
<1>2. Own(EthSet)
  <2>1. step.phase = "eth" /\ step.k = 5  BY <1>1, AtIs
  <2> QED BY <2>1, Phases, Ends DEF BootInv
<1>3. CASE (\E p \in EthSet : pointer[p] = NullPtr) /\ FreeAll(EthSet) /\ step' = Again
  <2>1. Own({})'  BY <1>1, <1>2, <1>3, EthFails
  <2> QED BY <1>1, <1>3, <2>1, AgainWhere DEF BootInv
<1>4. CASE /\ \A p \in EthSet : pointer[p] # NullPtr
           /\ step' = At("lwip", 1) /\ UNCHANGED <<pointer, bank, request>>
  <2>1. Own(EthSet)' /\ Full(EthSet)'
    BY <1>1, <1>2, <1>4, SameOwn, SameFull DEF Full
  <2>2. EthSet \cup LwipTo(1) = EthSet  BY Ends
  <2>3. Own(EthSet \cup LwipTo(1))'  BY <2>1, <2>2
  <2>4. Where'  BY <1>4, <2>1, <2>3 DEF Where
  <2> QED BY <1>1, <2>4 DEF BootInv
<1> QED BY <1>3, <1>4 DEF EthAllocated

(* A request of lwip_comm_mem_malloc.                                      *)
LEMMA LwipAllocInv ==
    ASSUME BootInv, LwipAlloc
    PROVE  BootInv'
<1>1. step.phase = "lwip" /\ step.k <= 4  BY DEF LwipAlloc
<1>2. Where  BY DEF BootInv
<1>3. PICK k \in 1 .. 5 : k = step.k /\ Own(EthSet \cup LwipTo(k)) /\ Full(EthSet)
  BY <1>1, <1>2, Phases
<1>4. k \in 1 .. 4  BY <1>1, <1>3
<1> DEFINE p == LwipBuffers[k]
           H == EthSet \cup LwipTo(k)
<1>5. /\ Request(p) /\ step' = At("lwip", k + 1) /\ UNCHANGED <<need, fails, tasks>>
  BY <1>3 DEF LwipAlloc
<1>6. /\ LwipTo(k + 1) = LwipTo(k) \cup {p} /\ p \notin LwipTo(k) /\ p \in LwipSet
  BY <1>4, LwipStep
<1>7. p \in Pointer /\ p \notin EthSet /\ \A q \in EthSet : q \in Pointer /\ q # p
  BY <1>6, Groups
<1> HIDE DEF p
<1>8. Own(H)  BY <1>3
<1>9. p \notin H /\ H \cup {p} = EthSet \cup LwipTo(k + 1)  BY <1>6, <1>7
<1> HIDE DEF H
<1>10. Own(H \cup {p})'  BY <1>5, <1>7, <1>8, <1>9, RequestOwn
<1>11. Own(EthSet \cup LwipTo(k + 1))'  BY <1>9, <1>10
<1>12. Full(EthSet)'
  <2>1. \A q \in EthSet : pointer'[q] = pointer[q]  BY <1>5, <1>7, <1>8, RequestOthers
  <2> QED BY <1>3, <2>1 DEF Full
<1>13. k + 1 \in 1 .. 5  BY <1>4
<1>14. Where'  BY <1>5, <1>11, <1>12, <1>13 DEF Where
<1> QED BY <1>5, <1>14 DEF BootInv

(* The end of lwip_comm_mem_malloc.                                        *)
LEMMA LwipAllocatedInv ==
    ASSUME BootInv, LwipAllocated
    PROVE  BootInv'
<1>1. step = At("lwip", 5) /\ UNCHANGED <<need, fails, tasks>> /\ fails \in Nat
  BY BootAssumption DEF LwipAllocated, BootInv
<1>2. Own(EthSet \cup LwipSet) /\ Full(EthSet)
  <2>1. step.phase = "lwip" /\ step.k = 5  BY <1>1, AtIs
  <2> QED BY <2>1, Phases, Ends DEF BootInv
<1>3. CASE (\E p \in LwipSet : pointer[p] = NullPtr) /\ FreeAll(LwipSet) /\ step' = Again
  <2>1. Own({})'  BY <1>1, <1>2, <1>3, LwipFails
  <2> QED BY <1>1, <1>3, <2>1, AgainWhere DEF BootInv
<1>4. CASE /\ \A p \in LwipSet : pointer[p] # NullPtr
           /\ step' = At("phy", 0) /\ UNCHANGED <<pointer, bank, request>>
  <2>1. Own(EthSet \cup LwipSet)' /\ Full(EthSet)' /\ Full(LwipSet)'
    BY <1>1, <1>2, <1>4, SameOwn, SameFull DEF Full
  <2>2. Where'  BY <1>4, <2>1 DEF Where
  <2> QED BY <1>1, <2>2 DEF BootInv
<1> QED BY <1>3, <1>4 DEF LwipAllocated

(* LAN8720_Init, with either result.                                       *)
LEMMA PhyInv ==
    ASSUME BootInv, LAN8720_Init
    PROVE  BootInv'
<1>1. step.phase = "phy" /\ UNCHANGED <<need, pointer, bank, request, tasks>>  BY DEF LAN8720_Init
<1>2. Own(EthSet \cup LwipSet) /\ Full(EthSet) /\ Full(LwipSet)  BY <1>1, Phases DEF BootInv
<1>3. fails \in Nat /\ MaxPhyFailures \in Nat  BY BootAssumption DEF BootInv
<1>4. CASE step' = At("tcpip", 0) /\ UNCHANGED fails
  <2>1. Own(EthSet \cup LwipSet)' /\ Full(EthSet)' /\ Full(LwipSet)'
    BY <1>1, <1>2, <1>4, SameOwn, SameFull
  <2>2. Where'  BY <1>4, <2>1 DEF Where
  <2> QED BY <1>1, <1>4, <2>2 DEF BootInv
<1>5. CASE fails < MaxPhyFailures /\ fails' = fails + 1 /\ step' = Again
  <2>1. Own({})'  BY <1>1, <1>2, <1>3, <1>5, PhyFails
  <2>2. Where'  BY <1>5, <2>1, AgainWhere
  <2>3. fails' \in 0 .. MaxPhyFailures  BY <1>3, <1>5
  <2> QED BY <1>1, <2>2, <2>3 DEF BootInv
<1> QED BY <1>4, <1>5 DEF LAN8720_Init

(* The mailbox of tcpip_thread.                                            *)
LEMMA TcpipInv ==
    ASSUME BootInv, tcpip_init
    PROVE  BootInv'
<1> DEFINE H == EthSet \cup LwipSet
<1>1. step.phase = "tcpip" /\ Request("mbox") /\ UNCHANGED <<need, fails>>  BY DEF tcpip_init
<1>2. Own(H) /\ Full(EthSet) /\ Full(LwipSet)  BY <1>1, Phases DEF BootInv
<1>3. "mbox" \in Pointer /\ "mbox" \notin H /\ H \cup {"mbox"} = Pointer  BY Groups
<1>4. \A q \in H : q \in Pointer /\ q # "mbox" /\ pointer[q] # NullPtr  BY <1>2, Groups DEF Full
<1> HIDE DEF H
<1>5. Own(H \cup {"mbox"})'  BY <1>1, <1>2, <1>3, RequestOwn
<1>6. Own(Pointer)'  BY <1>3, <1>5
<1>7. \A q \in H : pointer'[q] # NullPtr  BY <1>1, <1>2, <1>3, <1>4, RequestOthers
<1>8. tasks' \subseteq {"tcpip", "data", "start", "dhcp"}  BY DEF tcpip_init, BootInv
<1>9. Where'
  <2>1. CASE pointer'["mbox"] = NullPtr
    <3>1. step' = At("fault", 0)  BY <2>1 DEF tcpip_init
    <3> QED BY <1>6, <3>1 DEF Where
  <2>2. CASE pointer'["mbox"] # NullPtr
    <3>1. step' = At("netif", 0)  BY <2>2 DEF tcpip_init
    <3>2. Full(Pointer)'  BY <1>3, <1>7, <2>2 DEF Full
    <3> QED BY <1>6, <3>1, <3>2 DEF Where
  <2> QED BY <2>1, <2>2
<1> QED BY <1>1, <1>8, <1>9 DEF BootInv

(* The steps that only create tasks.                                       *)
LEMMA StartInv ==
    ASSUME BootInv, netif_add \/ OSStart \/ start_task
    PROVE  BootInv'
<1>1. /\ step.phase \in {"netif", "tasks", "running"}
      /\ step' \in {At("tasks", 0), At("running", 0), At("booted", 0)}
      /\ UNCHANGED <<need, pointer, bank, fails>>
      /\ tasks' \subseteq {"tcpip", "data", "start", "dhcp"}
  BY DEF netif_add, OSStart, start_task, BootInv
<1>2. Own(Pointer) /\ Full(Pointer)  BY <1>1, Phases DEF BootInv
<1>3. Own(Pointer)' /\ Full(Pointer)'  BY <1>1, <1>2, SameOwn, SameFull
<1>4. Where'  BY <1>1, <1>3 DEF Where
<1> QED BY <1>1, <1>4 DEF BootInv

(* A step of another part.                                                 *)
LEMMA BootStutter ==
    ASSUME BootInv, UNCHANGED bootVars
    PROVE  BootInv'
<1>1. UNCHANGED <<step, need, pointer, bank, request, fails, tasks>>  BY DEF bootVars
<1>2. \A H : Own(H) => Own(H)'
  <2> SUFFICES ASSUME NEW H, Own(H) PROVE Own(H)'  OBVIOUS
  <2> QED BY <1>1, SameOwn
<1>3. \A S : Full(S) => Full(S)'  BY <1>1 DEF Full
<1>4. Where'
  <2>1. CASE \E k \in 1 .. 5 : step = At("eth", k) /\ Own(EthTo(k))
    <3>1. PICK k \in 1 .. 5 : step = At("eth", k) /\ Own(EthTo(k))  BY <2>1
    <3>2. step' = At("eth", k) /\ Own(EthTo(k))'  BY <1>1, <1>2, <3>1
    <3> QED BY <3>2 DEF Where
  <2>2. CASE \E k \in 1 .. 5 : step = At("lwip", k) /\ Own(EthSet \cup LwipTo(k)) /\ Full(EthSet)
    <3>1. PICK k \in 1 .. 5 : step = At("lwip", k) /\ Own(EthSet \cup LwipTo(k)) /\ Full(EthSet)
      BY <2>2
    <3>2. step' = At("lwip", k) /\ Own(EthSet \cup LwipTo(k))' /\ Full(EthSet)'
      BY <1>1, <1>2, <1>3, <3>1
    <3> QED BY <3>2 DEF Where
  <2>3. CASE /\ step \in {At("phy", 0), At("tcpip", 0)}
             /\ Own(EthSet \cup LwipSet) /\ Full(EthSet) /\ Full(LwipSet)
    <3>1. Own(EthSet \cup LwipSet)' /\ Full(EthSet)' /\ Full(LwipSet)'  BY <1>2, <1>3, <2>3
    <3> QED BY <1>1, <2>3, <3>1 DEF Where
  <2>4. CASE step = At("fault", 0) /\ Own(Pointer)
    <3>1. Own(Pointer)'  BY <1>2, <2>4
    <3> QED BY <1>1, <2>4, <3>1 DEF Where
  <2>5. CASE /\ step \in {At("netif", 0), At("tasks", 0), At("running", 0), At("booted", 0)}
             /\ Own(Pointer) /\ Full(Pointer)
    <3>1. Own(Pointer)' /\ Full(Pointer)'  BY <1>2, <1>3, <2>5
    <3> QED BY <1>1, <2>5, <3>1 DEF Where
  <2> QED BY <2>1, <2>2, <2>3, <2>4, <2>5 DEF BootInv, Where
<1> QED BY <1>1, <1>4 DEF BootInv

(* Every step keeps the invariant.                                         *)
LEMMA BootNextInv ==
    ASSUME BootInv, [BootNext]_bootVars
    PROVE  BootInv'
<1>1. CASE EthAlloc  BY <1>1, EthAllocInv
<1>2. CASE EthAllocated  BY <1>2, EthAllocatedInv
<1>3. CASE LwipAlloc  BY <1>3, LwipAllocInv
<1>4. CASE LwipAllocated  BY <1>4, LwipAllocatedInv
<1>5. CASE LAN8720_Init  BY <1>5, PhyInv
<1>6. CASE tcpip_init  BY <1>6, TcpipInv
<1>7. CASE netif_add \/ OSStart \/ start_task  BY <1>7, StartInv
<1>8. CASE UNCHANGED bootVars  BY <1>8, BootStutter
<1> QED BY <1>1, <1>2, <1>3, <1>4, <1>5, <1>6, <1>7, <1>8 DEF BootNext

(* Nothing is held at the start.                                           *)
LEMMA BootInitInv ==
    ASSUME BootInit
    PROVE  BootInv
<1>1. /\ step = At("eth", 1) /\ need \in Needs /\ fails = 0 /\ tasks = {}
      /\ pointer = [p \in Pointer |-> NullPtr] /\ bank = {}
  BY DEF BootInit, Bank!Init
<1>2. NeedOK /\ fails \in 0 .. MaxPhyFailures  BY <1>1, BootAssumption DEF NeedOK
<1>3. BankOK(bank)  BY <1>1 DEF BankOK
<1>4. Mine({})  BY <1>1 DEF Mine
<1>5. Old({}) = {}  BY <1>1 DEF Old
<1>6. Counted({})
  <2>1. Cardinality(Old({})) = 4 * (0 + fails) /\ 0 >= fails /\ 0 \in Nat  BY <1>1, <1>5,
        FS_EmptySet
  <2> QED BY <2>1 DEF Counted
<1>7. Snug({})  BY <1>1, <1>5 DEF Snug
<1>8. Own({})  BY <1>2, <1>3, <1>4, <1>6, <1>7 DEF Own
<1>9. Own(EthTo(1))  BY <1>8, Ends
<1>10. Where  BY <1>1, <1>9 DEF Where
<1> QED BY <1>1, <1>2, <1>10 DEF BootInv

(* Whatever is held, nothing is out of reach before the PHY has failed.    *)
LEMMA OwnNoLeak ==
    ASSUME NEW H, Own(H)
    PROVE  OnlyFailuresLeak
<1> SUFFICES ASSUME Roomy PROVE Lost = {}  BY DEF OnlyFailuresLeak, Roomy
<1>1. Old(H) = {} /\ H \subseteq Pointer /\ BankOK(bank)  BY DEF Own, Snug
<1>2. ASSUME NEW b \in bank PROVE b \in Reachable
  <2>1. b # NullPtr  BY <1>1, BlkIs DEF BankOK
  <2>2. \E p \in H : pointer[p] = b  BY <1>1 DEF Old
  <2> QED BY <1>1, <2>1, <2>2 DEF Reachable
<1> QED BY <1>2 DEF Lost

(* The ranges of the pointers and of the bank.                             *)
LEMMA OwnTyped ==
    ASSUME NEW H, Own(H)
    PROVE  /\ DOMAIN pointer = Pointer
           /\ \A p \in Pointer : pointer[p] = NullPtr \/ pointer[p].n = need[p]
           /\ \A b \in bank : b.at \in 0 .. NBlocks - 1 /\ b.at + b.n <= NBlocks
<1>1. Mine(H) /\ BankOK(bank)  BY DEF Own
<1>2. \A b \in bank : b.at \in 0 .. NBlocks - 1 /\ b.at + b.n <= NBlocks  BY <1>1, BlkIs DEF BankOK
<1> QED BY <1>1, <1>2 DEF Mine

(* The invariant implies what the run checks.                              *)
LEMMA BootInvExact ==
    ASSUME BootInv
    PROVE  BootMemory
<1>1. \E H : Own(H)  BY DEF BootInv, Where
<1>2. OnlyFailuresLeak  BY <1>1, OwnNoLeak
<1>3. BootTypeOK
  <2>1. /\ DOMAIN pointer = Pointer
        /\ \A p \in Pointer : pointer[p] = NullPtr \/ pointer[p].n = need[p]
        /\ \A b \in bank : b.at \in 0 .. NBlocks - 1 /\ b.at + b.n <= NBlocks
    BY <1>1, OwnTyped
  <2>2. \E ph \in {"eth", "lwip", "phy", "tcpip", "netif", "tasks", "running", "booted", "fault"} :
          \E k \in 0 .. 5 : step = At(ph, k)
    BY DEF BootInv, Where
  <2>3. step \in [phase : {"eth", "lwip", "phy", "tcpip", "netif", "tasks", "running", "booted",
                           "fault"}, k : 0 .. 5]
    BY <2>2 DEF At
  <2> QED BY <2>1, <2>3 DEF BootTypeOK, BootInv
<1>4. ASSUME step = Again
      PROVE  \E e \in 0 .. NBlocks : e >= fails /\ Cardinality(bank) = 4 * (e + fails)
  <2>1. step.phase = "eth" /\ step.k = 1  BY <1>4, AtIs DEF Again
  <2>2. Own({})  BY <2>1, Phases, Ends DEF BootInv
  <2>3. Old({}) = bank  BY DEF Old
  <2>4. PICK e \in Nat : e >= fails /\ Cardinality(bank) = 4 * (e + fails)
    BY <2>2, <2>3 DEF Own, Counted
  <2>5. Cardinality(bank) <= NBlocks /\ NBlocks \in Nat /\ fails \in Nat
    BY <2>2, BankFinite, BootAssumption DEF Own, BootInv
  <2>6. e \in 0 .. NBlocks  BY <2>4, <2>5
  <2> QED BY <2>4, <2>6
<1>5. StartedWithMemory
  <2> SUFFICES ASSUME step.phase \in {"netif", "tasks", "running", "booted"}
               PROVE  /\ \A p \in Pointer : pointer[p] \in bank
                      /\ \A p, q \in Pointer : p # q =>
                            Bank!Cells(pointer[p]) \cap Bank!Cells(pointer[q]) = {}
    BY DEF StartedWithMemory
  <2>1. Own(Pointer) /\ Full(Pointer)
    <3>1. \A k : step # At("eth", k) /\ step # At("lwip", k)  BY AtIs
    <3>2. step # At("phy", 0) /\ step # At("tcpip", 0) /\ step # At("fault", 0)  BY AtIs
    <3> QED BY <3>1, <3>2 DEF BootInv, Where
  <2>2. Mine(Pointer) /\ BankOK(bank)  BY <2>1 DEF Own
  <2>3. \A p \in Pointer : pointer[p] \in bank  BY <2>1, <2>2 DEF Mine, Full
  <2>4. \A p, q \in Pointer : p # q => pointer[p] # pointer[q]  BY <2>1, <2>2 DEF Mine, Full
  <2> QED BY <2>2, <2>3, <2>4 DEF BankOK
<1> QED BY <1>2, <1>3, <1>4, <1>5 DEF BootMemory, LossIsWholeGroups

(* The memory of the start (main.c, lwip_comm.c), for every size of the    *)
(* bank, all sizes of the buffers and any number of failures of the PHY:   *)
(* the error returns of lwip_comm_init lose whole groups of buffers and    *)
(* nothing is lost before the PHY has failed if the bank holds one call;   *)
(* when the tasks start each has memory that nothing else has.             *)
THEOREM BootCorrect == BootSpec => []BootMemory
<1>1. BootInit => BootInv  BY BootInitInv
<1>2. BootInv /\ [BootNext]_bootVars => BootInv'  BY BootNextInv
<1>3. BootInv => BootMemory  BY BootInvExact
<1> QED BY <1>1, <1>2, <1>3, PTL DEF BootSpec
=============================================================================

-------------------------------- MODULE Pool --------------------------------
(***************************************************************************)
(* What the block allocator of demo/MALLOC/malloc.c promises its callers,  *)
(* for one memory bank: a request for n blocks either yields a run of n    *)
(* blocks that no live allocation covers, the one that starts highest, or  *)
(* fails because there is no such run.  A caller frees what it holds.      *)
(*                                                                         *)
(* The module has no counterpart in the code: module Malloc, which models  *)
(* malloc.c, implements it, and module Boot uses it.                       *)
(***************************************************************************)
EXTENDS Integers

CONSTANTS
    NBlocks,    \* MEM1_ALLOC_TABLE_SIZE: blocks in the bank
    Counts      \* the block counts callers ask for

VARIABLES
    live,   \* the allocations callers hold
    last    \* the outcome of the latest request

Block == [at : 0 .. NBlocks - 1, n : Counts]

Cells(b) == b.at .. b.at + b.n - 1

(* No allocation of L covers a block of the run of n blocks at a.          *)
Fits(L, a, n) ==
    /\ a \in 0 .. NBlocks - 1
    /\ a + n <= NBlocks
    /\ \A b \in L : Cells(b) \cap (a .. a + n - 1) = {}

HighestFit(L, a, n) ==
    /\ Fits(L, a, n)
    /\ \A c \in 0 .. NBlocks - 1 : Fits(L, c, n) => c <= a

Granted(b) == [ok |-> 1, n |-> b.n, at |-> b.at]
Refused(n) == [ok |-> 0, n |-> n, at |-> 0]
NoRequest == Refused(0)

Init ==
    /\ live = {}
    /\ last = NoRequest

(* A caller's request for n blocks, giving up the allocations in old when  *)
(* it succeeds (old is empty for an allocation, one block for a            *)
(* reallocation).                                                          *)
Allocate(n, old) ==
    \E a \in 0 .. NBlocks - 1 :
        LET b == [at |-> a, n |-> n]
        IN  /\ HighestFit(live, a, n)
            /\ live' = (live \ old) \cup {b}
            /\ last' = Granted(b)

Refuse(n) ==
    /\ ~ \E a \in 0 .. NBlocks - 1 : Fits(live, a, n)
    /\ last' = Refused(n)
    /\ UNCHANGED live

Release(b) ==
    /\ live' = live \ {b}
    /\ last' = NoRequest

Next ==
    \/ \E n \in Counts :
          \/ Allocate(n, {})
          \/ \E b \in live : Allocate(n, {b})
          \/ Refuse(n)
    \/ \E b \in live : Release(b)

Spec == Init /\ [][Next]_<<live, last>>
=============================================================================

------------------------------- MODULE Malloc -------------------------------
(***************************************************************************)
(* The block allocator of demo/MALLOC/malloc.c, one bank (the banks share  *)
(* nothing but the code, and the program uses SRAMIN only).                *)
(*                                                                         *)
(* mymem_malloc scans the table memmap from the top for a run of free      *)
(* entries, one iteration of its loop per step here, and writes the length *)
(* of the run into each entry of it; mymem_free reads that length back and *)
(* clears as many entries.  The callers are part of the model only as the  *)
(* set of allocations they hold: a caller frees or reallocates a pointer   *)
(* it holds, or NULL.  Calls do not overlap: malloc.c has no lock, and the *)
(* specification is that of callers that never preempt each other inside   *)
(* it.                                                                     *)
(***************************************************************************)
EXTENDS Integers

CONSTANTS
    MemTblSize,  \* memtblsize[memx]
    BlkSize,     \* memblksize[memx]
    Sizes,       \* the sizes, in bytes, that callers ask for
    U16          \* 2^16: nmemb is a u16

(* mymem_malloc: the number of blocks that hold size bytes.                *)
Nmemb(size) == (size \div BlkSize + (IF size % BlkSize = 0 THEN 0 ELSE 1)) % U16

ASSUME MallocAssumption ==
    /\ MemTblSize \in Nat \ {0}
    /\ BlkSize \in Nat \ {0}
    /\ U16 \in Nat \ {0}
    /\ MemTblSize < U16
    /\ Sizes \subseteq Nat
    \* No caller comes near 2 MB, where the count of blocks loses its top bits.
    /\ \A s \in Sizes \ {0} :
          Nmemb(s) \in Nat \ {0} /\ Nmemb(s) * BlkSize >= s

VARIABLES
    memrdy,   \* mallco_dev.memrdy
    memmap,   \* mallco_dev.memmap
    call,     \* the call in progress: its kind and, for myrealloc, ptr
    size,     \* its parameter size
    offset,   \* loop variable of mymem_malloc, in blocks
    cmemb,    \* length of the free run that ends at offset + 1
    live,     \* what the callers hold
    ret       \* outcome of the latest mymem_malloc (size 0 excluded)

mallocVars == <<memrdy, memmap, call, size, offset, cmemb, live, ret>>

Cell == 0 .. MemTblSize - 1

NULL == [at |-> -1, n |-> 0]
Idle == [op |-> "idle", ptr |-> NULL]
NoRequest == [ok |-> 0, n |-> 0, at |-> 0]

Cleared == [i \in Cell |-> 0]

MallocInit ==
    /\ memrdy = 0
    /\ memmap = Cleared
    /\ call = Idle
    /\ size = 0
    /\ offset = -1
    /\ cmemb = 0
    /\ live = {}
    /\ ret = NoRequest

-----------------------------------------------------------------------------
(* The table after `nmemb' entries from o on are written with v.           *)
Write(map, o, n, v) == [i \in Cell |-> IF i \in o .. o + n - 1 THEN v ELSE map[i]]

(* Mutant: one entry is cleared, whatever the length of the run.           *)
Clear_One(map, o) == Write(map, o, 1, 0)

(* mymem_free on an initialised bank: as many entries are cleared as the   *)
(* first one says.                                                         *)
Clear(map, o) == Write(map, o, map[o], 0)

(* myfree: NULL is ignored.  (A bank that is not ready would be            *)
(* initialised instead, but then no caller holds a pointer into it.)       *)
FreeTable(map, ptr) == IF ptr = NULL THEN map ELSE Clear(map, ptr.at)

(* main calls mymem_init once, before anything is allocated.               *)
mymem_init ==
    /\ memrdy = 0
    /\ call = Idle
    /\ memmap' = Cleared
    /\ memrdy' = 1
    /\ UNCHANGED <<call, size, offset, cmemb, live, ret>>

(* The head of mymem_malloc: a bank not ready is initialised; size 0 asks  *)
(* for nothing and yields 0xFFFFFFFF, which the callers turn into NULL.    *)
Enter(op, ptr, sz) ==
    /\ call = Idle
    /\ memrdy' = 1
    /\ memmap' = IF memrdy = 0 THEN Cleared ELSE memmap
    /\ \/ sz = 0 /\ UNCHANGED <<call, size, offset, cmemb, live, ret>>
       \/ /\ sz # 0
          /\ call' = [op |-> op, ptr |-> ptr]
          /\ size' = sz
          /\ offset' = MemTblSize - 1
          /\ cmemb' = 0
          /\ UNCHANGED <<live, ret>>

mymalloc(sz) == Enter("malloc", NULL, sz)

myrealloc(ptr, sz) == Enter("realloc", ptr, sz)

(* cmemb after the entry at offset is looked at.                           *)
Run == IF memmap[offset] = 0 THEN cmemb + 1 ELSE 0

Return ==
    /\ call' = Idle
    /\ size' = 0
    /\ offset' = -1
    /\ cmemb' = 0

(* One iteration of the loop of mymem_malloc that does not complete a run. *)
Scan ==
    /\ call # Idle
    /\ offset >= 0
    /\ Run # Nmemb(size)
    /\ offset' = offset - 1
    /\ cmemb' = Run
    /\ UNCHANGED <<memrdy, memmap, call, size, live, ret>>

(* The iteration that completes it: the run is marked and the call ends;   *)
(* myrealloc has copied the contents and frees the old block.              *)
Found ==
    LET b == [at |-> offset, n |-> Nmemb(size)]
    IN  /\ call # Idle
        /\ offset >= 0
        /\ Run = Nmemb(size)
        /\ memmap' = FreeTable(Write(memmap, offset, Nmemb(size), Nmemb(size)), call.ptr)
        /\ live' = (live \ {call.ptr}) \cup {b}
        /\ ret' = [ok |-> 1, n |-> b.n, at |-> b.at]
        /\ Return
        /\ UNCHANGED memrdy

(* Mutant: the loop test is offset > 0, so entry 0 is never looked at.     *)
NotFound_SkipZero ==
    /\ call # Idle
    /\ offset <= 0
    /\ ret' = [ok |-> 0, n |-> Nmemb(size), at |-> 0]
    /\ Return
    /\ UNCHANGED <<memrdy, memmap, live>>

(* The loop runs out: 0xFFFFFFFF, and neither caller touches the table.    *)
NotFound ==
    /\ call # Idle
    /\ offset < 0
    /\ ret' = [ok |-> 0, n |-> Nmemb(size), at |-> 0]
    /\ Return
    /\ UNCHANGED <<memrdy, memmap, live>>

(* myfree of a pointer the caller holds, or of NULL.                       *)
myfree(ptr) ==
    /\ call = Idle
    /\ memmap' = FreeTable(memmap, ptr)
    /\ live' = live \ {ptr}
    /\ ret' = IF ptr = NULL THEN ret ELSE NoRequest
    /\ UNCHANGED <<memrdy, call, size, offset, cmemb>>

MallocNext ==
    \/ mymem_init
    \/ \E sz \in Sizes :
          \/ mymalloc(sz)
          \/ \E ptr \in live \cup {NULL} : myrealloc(ptr, sz)
    \/ Scan
    \/ Found
    \/ NotFound
    \/ \E ptr \in live \cup {NULL} : myfree(ptr)

MallocSpec == MallocInit /\ [][MallocNext]_mallocVars

-----------------------------------------------------------------------------
Cells(b) == b.at .. b.at + b.n - 1

Counts == {Nmemb(s) : s \in Sizes \ {0}}

Block == [at : Cell, n : Counts]

(* The variables keep their ranges; in particular the scan of mymem_malloc *)
(* never leaves the table and its u16 counter cannot wrap.                 *)
MallocTypeOK ==
    /\ memrdy \in 0 .. 1
    /\ memmap \in [Cell -> Nat]
    /\ live \subseteq Block
    /\ call \in [op : {"idle", "malloc", "realloc"}, ptr : Block \cup {NULL}]
    /\ size \in Sizes \cup {0}
    /\ offset \in -1 .. MemTblSize - 1
    /\ cmemb \in 0 .. MemTblSize
    /\ ret \in [ok : 0 .. 1, n : Counts \cup {0}, at : Cell]

(* Allocations that lie in the pool and do not overlap.                    *)
Disjoint(L) ==
    /\ \A b \in L : Cells(b) \subseteq Cell
    /\ \A a, b \in L : a # b => Cells(a) \cap Cells(b) = {}

(* Each entry of the table holds the length of the allocation that covers  *)
(* it, and 0 when none does.                                               *)
Describes(map, L) ==
    /\ \A b \in L : \A i \in Cells(b) : map[i] = b.n
    /\ \A i \in Cell : map[i] # 0 => \E b \in L : i \in Cells(b)

(* Two callers never hold the same block, and nobody holds a block beyond  *)
(* the end of the pool (mymem_malloc only hands out a run it saw free, and *)
(* every mymem_free clears exactly the run it was given).                  *)
LiveDisjoint == Disjoint(live)

(* The table is the truth about the callers, so no block is ever leaked by *)
(* the allocator and none is free while somebody uses it.                  *)
TableIsLive == Describes(memmap, live)

(* myrealloc copies the old contents ("copy the old memory's contents to   *)
(* the new memory", malloc.c:172): when the new block has been found, the  *)
(* size bytes that mymemcpy reads from ptr lie inside the old block.       *)
ReallocCopiesOldOnly ==
    call.op = "realloc" /\ call.ptr # NULL /\ offset >= 0 =>
        (Run = Nmemb(size) => size <= call.ptr.n * BlkSize)

(* What the scan knows: the cmemb entries after offset are free and the    *)
(* run cannot be extended upwards, so no run of nmemb entries starts above *)
(* offset.                                                                 *)
ScanInv ==
    /\ memrdy = 0 => live = {}
    /\ call.ptr # NULL => call.ptr \in live
    /\ call = Idle => size = 0 /\ offset = -1 /\ cmemb = 0
    /\ call # Idle =>
         /\ memrdy = 1
         /\ size # 0
         /\ cmemb < Nmemb(size)
         /\ offset + 1 + cmemb <= MemTblSize
         /\ \A i \in offset + 1 .. offset + cmemb : memmap[i] = 0
         /\ \/ offset + 1 + cmemb = MemTblSize
            \/ memmap[offset + 1 + cmemb] # 0
         /\ \A a \in Cell :
              a > offset /\ a + Nmemb(size) <= MemTblSize =>
                  \E i \in a .. a + Nmemb(size) - 1 : memmap[i] # 0

-----------------------------------------------------------------------------
(* malloc.c gives its callers what Pool promises: every grant is the       *)
(* highest run of free blocks and a request is refused only when there is  *)
(* no run of that length, however fragmented the table is.                 *)
P == INSTANCE Pool WITH NBlocks <- MemTblSize, live <- live, last <- ret
PoolSpec == P!Spec
=============================================================================

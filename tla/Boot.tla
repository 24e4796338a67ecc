-------------------------------- MODULE Boot --------------------------------
(***************************************************************************)
(* The start of the program: main (demo/USER/main.c), lwip_comm_init and   *)
(* the allocations it makes (demo/LWIP_APP/lwip_comm.c, lan8720.c), and    *)
(* start_task.                                                             *)
(*                                                                         *)
(* main calls lwip_comm_init until it returns 0.  Each call allocates four *)
(* buffers for the Ethernet driver and four for lwIP from the SRAMIN bank, *)
(* which is the Pool that malloc.c implements, and then brings up the PHY. *)
(* One step is one mymalloc, one group of myfree calls or one of the other *)
(* calls main makes.  Nothing else runs before OSStart.                    *)
(***************************************************************************)
EXTENDS Integers, FiniteSets

CONSTANTS
    NBlocks,          \* MEM1_ALLOC_TABLE_SIZE
    Needs,            \* possible sizes of the buffers, in blocks: memp_memory's
                      \* is only known at run time (memp_get_memorysize)
    MaxPhyFailures    \* bound: calls of LAN8720_Init that fail

EthBuffers == <<"DMARxDscrTab", "DMATxDscrTab", "Rx_Buff", "Tx_Buff">>
LwipBuffers == <<"memp_memory", "ram_heap", "TCPIP_THREAD_TASK_STK",
                 "LWIP_DHCP_TASK_STK">>
EthSet == {EthBuffers[i] : i \in 1 .. 4}
LwipSet == {LwipBuffers[i] : i \in 1 .. 4}
Pointer == EthSet \cup LwipSet \cup {"mbox"}

ASSUME BootAssumption ==
    /\ NBlocks \in Nat \ {0}
    /\ MaxPhyFailures \in Nat
    /\ Needs \subseteq [Pointer -> Nat \ {0}]

VARIABLES
    step,      \* where main is: a phase and, in an allocation phase, an index
    need,    \* blocks each buffer takes
    pointer,     \* the global pointers
    bank,    \* the bank: allocations not freed
    request,    \* the bank: outcome of the latest request
    fails,   \* calls of LAN8720_Init that failed
    tasks    \* tasks created

bootVars == <<step, need, pointer, bank, request, fails, tasks>>

Bank == INSTANCE Pool WITH Counts <- Nat \ {0}, live <- bank, last <- request

NullPtr == [at |-> -1, n |-> 0]

At(ph, k) == [phase |-> ph, k |-> k]

BootInit ==
    /\ step = At("eth", 1)
    /\ need \in Needs
    /\ pointer = [p \in Pointer |-> NullPtr]
    /\ Bank!Init
    /\ fails = 0
    /\ tasks = {}

-----------------------------------------------------------------------------
(* p = mymalloc(SRAMIN, ...): the pointer is overwritten in either case.   *)
Request(p) ==
    \/ /\ Bank!Allocate(need[p], {})
       /\ pointer' = [pointer EXCEPT ![p] = [at |-> request'.at, n |-> request'.n]]
    \/ /\ Bank!Refuse(need[p])
       /\ pointer' = [pointer EXCEPT ![p] = NullPtr]

(* myfree of each pointer of a set; NULL is ignored.                       *)
FreeAll(ps) ==
    /\ bank' = bank \ {pointer[p] : p \in ps}
    /\ request' = Bank!NoRequest
    /\ UNCHANGED pointer

(* lwip_comm_init returned an error: main calls it again at once.          *)
Again == At("eth", 1)

EthAlloc ==
    /\ step.phase = "eth"
    /\ step.k <= 4
    /\ Request(EthBuffers[step.k])
    /\ step' = At("eth", step.k + 1)
    /\ UNCHANGED <<need, fails, tasks>>

(* Mutant: the test looks at a pointer of the other group.                 *)
EthAllocated_WrongPointer ==
    /\ step = At("eth", 5)
    /\ \/ /\ pointer["memp_memory"] = NullPtr
          /\ FreeAll(EthSet)
          /\ step' = Again
       \/ /\ pointer["memp_memory"] # NullPtr
          /\ step' = At("lwip", 1)
          /\ UNCHANGED <<pointer, bank, request>>
    /\ UNCHANGED <<need, fails, tasks>>

(* The end of ETH_Mem_Malloc.                                              *)
EthAllocated ==
    /\ step = At("eth", 5)
    /\ \/ /\ \E p \in EthSet : pointer[p] = NullPtr
          /\ FreeAll(EthSet)
          /\ step' = Again
       \/ /\ \A p \in EthSet : pointer[p] # NullPtr
          /\ step' = At("lwip", 1)
          /\ UNCHANGED <<pointer, bank, request>>
    /\ UNCHANGED <<need, fails, tasks>>

LwipAlloc ==
    /\ step.phase = "lwip"
    /\ step.k <= 4
    /\ Request(LwipBuffers[step.k])
    /\ step' = At("lwip", step.k + 1)
    /\ UNCHANGED <<need, fails, tasks>>

(* Mutant: the failure path forgets one of the four buffers.               *)
LwipAllocated_KeepStack ==
    /\ step = At("lwip", 5)
    /\ \/ /\ \E p \in LwipSet : pointer[p] = NullPtr
          /\ FreeAll(LwipSet \ {"TCPIP_THREAD_TASK_STK"})
          /\ step' = Again
       \/ /\ \A p \in LwipSet : pointer[p] # NullPtr
          /\ step' = At("phy", 0)
          /\ UNCHANGED <<pointer, bank, request>>
    /\ UNCHANGED <<need, fails, tasks>>

(* The end of lwip_comm_mem_malloc.  On failure lwip_comm_init returns 1   *)
(* and the four Ethernet buffers stay allocated.                           *)
LwipAllocated ==
    /\ step = At("lwip", 5)
    /\ \/ /\ \E p \in LwipSet : pointer[p] = NullPtr
          /\ FreeAll(LwipSet)
          /\ step' = Again
       \/ /\ \A p \in LwipSet : pointer[p] # NullPtr
          /\ step' = At("phy", 0)
          /\ UNCHANGED <<pointer, bank, request>>
    /\ UNCHANGED <<need, fails, tasks>>

(* LAN8720_Init: ETH_Init waits for a link and gives up after PHY_READ_TO  *)
(* reads.  On failure lwip_comm_init returns 2 and frees nothing.          *)
LAN8720_Init ==
    /\ step.phase = "phy"
    /\ \/ step' = At("tcpip", 0) /\ UNCHANGED fails
       \/ /\ fails < MaxPhyFailures
          /\ fails' = fails + 1
          /\ step' = Again
    /\ UNCHANGED <<need, pointer, bank, request, tasks>>

(* tcpip_init: the mailbox of tcpip_thread (sys_mbox_new clears it before  *)
(* it tests the pointer, so a refused request is a write through NULL),    *)
(* then the thread.                                                        *)
tcpip_init ==
    /\ step.phase = "tcpip"
    /\ Request("mbox")
    /\ step' = IF pointer'["mbox"] = NullPtr THEN At("fault", 0) ELSE At("netif", 0)
    /\ tasks' = IF pointer'["mbox"] = NullPtr THEN tasks ELSE tasks \cup {"tcpip"}
    /\ UNCHANGED <<need, fails>>

(* netif_add calls ethernetif_init, which always returns ERR_OK, so        *)
(* lwip_comm_init returns 0.                                               *)
netif_add ==
    /\ step.phase = "netif"
    /\ step' = At("tasks", 0)
    /\ UNCHANGED <<need, pointer, bank, request, fails, tasks>>

(* create_datahub_task, the creation of start_task, OSStart.               *)
OSStart ==
    /\ step.phase = "tasks"
    /\ tasks' = tasks \cup {"data", "start"}
    /\ step' = At("running", 0)
    /\ UNCHANGED <<need, pointer, bank, request, fails>>

(* start_task, the highest priority: it creates the DHCP task on the stack *)
(* allocated above and suspends itself for good.                           *)
start_task ==
    /\ step.phase = "running"
    /\ tasks' = (tasks \ {"start"}) \cup {"dhcp"}
    /\ step' = At("booted", 0)
    /\ UNCHANGED <<need, pointer, bank, request, fails>>

BootNext ==
    \/ EthAlloc \/ EthAllocated \/ LwipAlloc \/ LwipAllocated
    \/ LAN8720_Init \/ tcpip_init \/ netif_add \/ OSStart \/ start_task

BootSpec == BootInit /\ [][BootNext]_bootVars

(* main is the only thread until OSStart and start_task the most urgent    *)
(* one after it: neither can be kept from running.                         *)
BootFairSpec == BootSpec /\ WF_bootVars(BootNext)

-----------------------------------------------------------------------------
(* Blocks one call of lwip_comm_init takes.                                *)
PerCall ==
    need["DMARxDscrTab"] + need["DMATxDscrTab"] + need["Rx_Buff"] + need["Tx_Buff"]
    + need["memp_memory"] + need["ram_heap"] + need["TCPIP_THREAD_TASK_STK"]
    + need["LWIP_DHCP_TASK_STK"]

(* PHY failures the bank has room for, when the mailbox must fit as well.  *)
Tolerated == (NBlocks - need["mbox"]) \div PerCall - 1

(* The variables keep their ranges.                                        *)
BootTypeOK ==
    /\ step \in [phase : {"eth", "lwip", "phy", "tcpip", "netif", "tasks",
                        "running", "booted", "fault"}, k : 0 .. 5]
    /\ need \in Needs
    /\ DOMAIN pointer = Pointer
    /\ \A p \in Pointer : pointer[p] = NullPtr \/ pointer[p].n = need[p]
    /\ \A b \in bank : b.at \in 0 .. NBlocks - 1 /\ b.at + b.n <= NBlocks
    /\ fails \in 0 .. MaxPhyFailures
    /\ tasks \subseteq {"tcpip", "data", "start", "dhcp"}

Reachable == {pointer[p] : p \in Pointer} \ {NullPtr}

Lost == bank \ Reachable

(* While no call of LAN8720_Init has failed and the bank is large enough   *)
(* for one call, no allocation is out of reach of the pointers: only the   *)
(* paths that return 2, and those that return 1 after it, lose memory.     *)
OnlyFailuresLeak == fails = 0 /\ Tolerated >= 0 => Lost = {}

(* What the error returns of lwip_comm_init leave behind are whole groups: *)
(* four Ethernet buffers each time lwip_comm_mem_malloc or LAN8720_Init    *)
(* failed and four lwIP buffers each time LAN8720_Init did.  The release   *)
(* paths never keep part of a group and never free a block of another      *)
(* call, so main always retries from a state of that shape.                *)
LossIsWholeGroups ==
    /\ BootTypeOK
    /\ step = Again => \E e \in 0 .. NBlocks :
                         e >= fails /\ Cardinality(bank) = 4 * (e + fails)

(* When the tasks start, every global pointer refers to a live allocation  *)
(* of the right size and the two stacks do not overlap anything.           *)
StartedWithMemory ==
    step.phase \in {"netif", "tasks", "running", "booted"} =>
        /\ \A p \in Pointer : pointer[p] \in bank
        /\ \A p, q \in Pointer : p # q =>
              Bank!Cells(pointer[p]) \cap Bank!Cells(pointer[q]) = {}

(* The bank through all failures and retries of lwip_comm_init: what is    *)
(* lost is lost in whole groups and only by the error returns, and the     *)
(* tasks start on memory that is theirs.                                   *)
BootMemory == OnlyFailuresLeak /\ LossIsWholeGroups /\ StartedWithMemory

(* Boot completes if the PHY fails no more often than the bank tolerates;  *)
(* with the sizes of this repository that is not once (see the README).    *)
BootCompletes == <>(fails > Tolerated \/ step = At("booted", 0))

(* main.c:47 calls lwip_comm_init until it succeeds, and its code 2 stands *)
(* for a LAN8720 failure (lwip_comm.c:127): once the PHY answers, which it *)
(* does after at most MaxPhyFailures calls here, the program starts.       *)
BootRecovers == <>(step = At("booted", 0))
=============================================================================

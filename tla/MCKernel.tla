------------------------------ MODULE MCKernel ------------------------------
(***************************************************************************)
(* uC/OS-II and its software timers, which share no state here: a behavior *)
(* is one of the kernel or one of the timers.                              *)
(*                                                                         *)
(* The kernel: three tasks that create, delete, suspend, resume and        *)
(* re-prioritise each other while they use a semaphore or a mutex; two     *)
(* that do so with a mailbox, with event flags and with one event control  *)
(* block that is a semaphore, a mailbox and a mutex in turn; and three     *)
(* that only use a mailbox or event flags.  The timers: three of them, one *)
(* shot or periodic, two spokes, a time that wraps at 4.                   *)
(***************************************************************************)
EXTENDS Kernel, OsTmr, TLC

CONSTANTS a, b, c

VARIABLE part
mcVars == <<kernelVars, tmrVars, part>>

MCTwo == a :> 1 @@ b :> 3
MCThree == a :> 1 @@ b :> 2 @@ c :> 3

MCScenarios ==
    {[kinds |-> {k, "manage"}, start |-> MCThree] : k \in {"sem", "mutex"}}
    \cup {[kinds |-> {k, "manage"}, start |-> MCTwo] : k \in {"mbox", "flag"}}
    \cup {[kinds |-> {"sem", "mbox", "mutex", "manage"}, start |-> MCTwo]}
    \cup {[kinds |-> {k}, start |-> MCThree] : k \in {"mbox", "flag"}}

MCWaits == {[flags |-> {1}, type |-> "SET_ANY", consume |-> TRUE],
            [flags |-> {1, 2}, type |-> "SET_ALL", consume |-> FALSE],
            [flags |-> {1, 2}, type |-> "CLR_ANY", consume |-> FALSE],
            [flags |-> {2}, type |-> "CLR_ALL", consume |-> TRUE]}

MCSettings == {<<1, 0>>, <<2, 0>>, <<1, 2>>}

MCInit ==
    /\ part \in {"kernel", "timers"}
    /\ KernelInit /\ TmrInit
    /\ part = "timers" => sc = CHOOSE x \in Scenarios : TRUE

MCNext ==
    /\ UNCHANGED part
    /\ \/ part = "kernel" /\ KernelNext /\ UNCHANGED tmrVars
       \/ part = "timers" /\ TmrNext /\ UNCHANGED kernelVars

MCSpec == MCInit /\ [][MCNext]_mcVars
=============================================================================

------------------------------ MODULE MsgQueue ------------------------------
(***************************************************************************)
(* What a message queue of uC/OS-II promises: a bounded sequence of        *)
(* messages from which each message leaves once, the oldest first, and, as *)
(* long as a task waits, each new message goes to the most urgent waiter.  *)
(* Time does not occur: a waiter may give up at any moment.                *)
(*                                                                         *)
(* Module OsQueue, which models demo/UCOSII/CORE/os_q.c, implements it.    *)
(***************************************************************************)
EXTENDS Integers, Sequences

CONSTANTS
    Size,    \* capacity
    Task,    \* a set of numbers, the tasks' priorities: 0 is most urgent
    Msg,
    NoMsg

VARIABLES
    items,     \* messages in the queue, oldest first
    waiting,   \* tasks that wait for a message
    hand       \* the message handed to a task that has not run since

MostUrgent(t, S) == t \in S /\ \A u \in S : t <= u

Init ==
    /\ items = <<>>
    /\ waiting = {}
    /\ hand = [t \in Task |-> NoMsg]

(* A message for a waiter.                                                 *)
Give(m, t) ==
    /\ MostUrgent(t, waiting)
    /\ waiting' = waiting \ {t}
    /\ hand' = [hand EXCEPT ![t] = m]
    /\ UNCHANGED items

(* A message for the queue, at its end or at its front.                    *)
Put(m) ==
    /\ waiting = {}
    /\ Len(items) < Size
    /\ items' \in {Append(items, m), <<m>> \o items}
    /\ UNCHANGED <<waiting, hand>>

Take ==
    /\ items # <<>>
    /\ items' = Tail(items)
    /\ UNCHANGED <<waiting, hand>>

Wait(t) ==
    /\ items = <<>>
    /\ t \notin waiting
    /\ hand[t] = NoMsg
    /\ waiting' = waiting \cup {t}
    /\ UNCHANGED <<items, hand>>

Collect(t) ==
    /\ hand' = [hand EXCEPT ![t] = NoMsg]
    /\ UNCHANGED <<items, waiting>>

(* Some waiters give up.                                                   *)
GiveUp(S) ==
    /\ waiting' = waiting \ S
    /\ UNCHANGED <<items, hand>>

(* The queue is emptied; its waiters may be sent away.                     *)
Clear ==
    /\ items' = <<>>
    /\ waiting' \in {waiting, {}}
    /\ UNCHANGED hand

Next ==
    \/ \E m \in Msg : Put(m) \/ \E t \in Task : Give(m, t)
    \/ Take
    \/ \E t \in Task : Wait(t) \/ Collect(t)
    \/ \E S \in SUBSET Task : GiveUp(S)
    \/ Clear

Spec == Init /\ [][Next]_<<items, waiting, hand>>
=============================================================================

------------------------------- MODULE OsFlag -------------------------------
(***************************************************************************)
(* Event flags of uC/OS-II, demo/UCOSII/CORE/os_flag.c.  A group is a      *)
(* record of its type, its flags, the tasks in its wait list and a history *)
(* field, quiet: no wait has consumed a flag since the last post.          *)
(***************************************************************************)
EXTENDS OsCore

NoGroup == [type |-> "unused", flags |-> {}, wait |-> {}, quiet |-> TRUE]

(* The flags of a node that are as the node wants them, and whether they   *)
(* are enough.                                                             *)
FlagsRdy(flags, node) ==
    IF node.type \in {"SET_ALL", "SET_ANY"} THEN node.flags \cap flags
    ELSE node.flags \ flags
Satisfied(flags, node) ==
    IF node.type \in {"SET_ALL", "CLR_ALL"} THEN FlagsRdy(flags, node) = node.flags
    ELSE FlagsRdy(flags, node) # {}

(* OS_FLAG_CONSUME: the flags a wait was satisfied by are turned back.     *)
Consume(s, node, rdy) ==
    IF ~node.consume \/ rdy = {} THEN s
    ELSE [s EXCEPT !.grp = [@ EXCEPT !.quiet = FALSE,
                                     !.flags = IF node.type \in {"SET_ALL", "SET_ANY"}
                                               THEN s.grp.flags \ rdy ELSE s.grp.flags \cup rdy]]

OSFlagCreate(s, flags) ==
    [s EXCEPT !.grp = [NoGroup EXCEPT !.type = "flag", !.flags = flags]]

OSFlagAccept(s, node) ==
    IF Satisfied(s.grp.flags, node) THEN Consume(s, node, FlagsRdy(s.grp.flags, node)) ELSE s

(* OS_FlagBlock.                                                           *)
OS_FlagBlock(s, node, timeout) ==
    [s EXCEPT !.tcb[s.cur] = [@ EXCEPT !.stat = Cur(s).stat \cup {"flag"}, !.pend = "ok",
                                       !.dly = timeout, !.node = node, !.in = "flag"],
              !.grp.wait = @ \cup {s.cur},
              !.rdy = @ \ {Cur(s).prio}]

OSFlagPend(s, node, timeout) ==
    LET rdy == FlagsRdy(s.grp.flags, node)
    IN  IF Satisfied(s.grp.flags, node)
        THEN Consume(s, node, rdy)
        ELSE OS_Sched(OS_FlagBlock(s, node, timeout))

(* The rest of OSFlagPend, when the task runs again: OS_FlagUnlink if it   *)
(* timed out, and else the flags the post found are consumed, only now.    *)
(* (The flags stay in the task's control block, where only                 *)
(* OSFlagPendGetFlagsRdy reads them after this.)                           *)
OSFlagPendReturns(s) ==
    LET t == Cur(s)
        back == [s EXCEPT !.tcb[s.cur] = [@ EXCEPT !.pend = "ok", !.in = "no", !.node = NoNode,
                                                  !.flagsRdy = {}]]
    IN  IF t.pend # "ok"
        THEN [back EXCEPT !.tcb[s.cur].stat = {}, !.grp.wait = @ \ {s.cur}]
        ELSE Consume(back, t.node, t.flagsRdy)

(* OS_FlagTaskRdy for the tasks of DOMAIN rdy, each with the flags it gets. *)
OS_FlagTaskRdy(s, rdy) ==
    LET W == DOMAIN rdy
        left(t) == s.tcb[t].stat \ {"flag"}
    IN  [s EXCEPT
            !.tcb = [t \in DOMAIN @ |-> IF t \notin W THEN @[t] ELSE
                [@[t] EXCEPT !.dly = 0, !.flagsRdy = rdy[t], !.stat = left(t), !.pend = "ok"]],
            !.rdy = @ \cup {s.tcb[t].prio : t \in {u \in W : left(u) = {}}},
            !.grp.wait = @ \ W]

(* OSFlagPost: OS_FLAG_SET or OS_FLAG_CLR, and every waiter that is        *)
(* satisfied now is readied.                                               *)
OSFlagPost(s, flags, set) ==
    LET now == IF set THEN s.grp.flags \cup flags ELSE s.grp.flags \ flags
        posted == [s EXCEPT !.grp = [@ EXCEPT !.flags = now, !.quiet = TRUE]]
        W == {t \in s.grp.wait : Satisfied(now, s.tcb[t].node)}
        readied == OS_FlagTaskRdy(posted, [t \in W |-> FlagsRdy(now, s.tcb[t].node)])
    IN  IF \E t \in W : readied.tcb[t].stat = {} THEN OS_Sched(readied) ELSE readied

OSFlagDel(s, always) ==
    LET gone(k) == [k EXCEPT !.grp = NoGroup]
    IN  IF s.grp.wait = {} THEN gone(s)
        ELSE IF always THEN OS_Sched(gone(OS_FlagTaskRdy(s, [t \in s.grp.wait |-> {}])))
        ELSE s
=============================================================================

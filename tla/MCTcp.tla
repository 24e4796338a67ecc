------------------------------- MODULE MCTcp --------------------------------
(***************************************************************************)
(* A connection in a number of scenarios, each with one kind of trouble:   *)
(* closing and shutting down with a loss, losses up to giving up, segments *)
(* repeated and overtaken, timers that expire early, a restart of the      *)
(* server, a mailbox that refuses data, a window filled by several         *)
(* segments, a segment that grows while it waits, a full send buffer.      *)
(* Sequence numbers wrap after the second unit of a stream.                *)
(***************************************************************************)
EXTENDS Tcp

MCBase == [opt |-> [mss |-> 1, wnd |-> 2, buf |-> 4],
           units |-> [client |-> 2, server |-> 0], chunk |-> {1}, mbox |-> 1,
           loss |-> 1, dup |-> 0, late |-> 0, early |-> 0, restart |-> 0,
           close |-> {"close"}, accepted |-> 0, restarted |-> FALSE]
MCOpen == [MCBase EXCEPT !.close = {}]

MCScenarios ==
    {MCBase,
     [MCBase EXCEPT !.units = [client |-> 1, server |-> 1]],
     [MCBase EXCEPT !.units.client = 1, !.close = {"close", "shutdown"}],
     [MCBase EXCEPT !.units.client = 1, !.loss = 0, !.dup = 1],
     [MCBase EXCEPT !.opt.wnd = 4, !.opt.buf = 2, !.mbox = 2, !.units.client = 3,
                    !.loss = 0],
     [MCOpen EXCEPT !.units.client = 1, !.loss = 3],
     [MCOpen EXCEPT !.units.client = 2, !.loss = 0, !.dup = 1, !.late = 1],
     [MCOpen EXCEPT !.units = [client |-> 1, server |-> 1], !.early = 1],
     [MCOpen EXCEPT !.units.client = 3, !.loss = 2, !.early = 1],
     [MCOpen EXCEPT !.units.client = 1, !.restart = 1, !.early = 1, !.dup = 1],
     [MCOpen EXCEPT !.opt.wnd = 4, !.mbox = 4, !.units.client = 4],
     [MCOpen EXCEPT !.opt.mss = 2, !.opt.wnd = 4, !.chunk = {1, 2},
                    !.units.client = 5, !.loss = 0, !.early = 1]}

\* One host may shut down while the other still sends; nothing is lost.
MCCloseScenarios ==
    {[MCBase EXCEPT !.units = [client |-> 2, server |-> 1], !.loss = 0,
                    !.close = {"shutdown"}]}

\* Segments of up to half the window, and one loss.
MCStallScenarios ==
    {[MCOpen EXCEPT !.opt.mss = 2, !.opt.wnd = 4, !.chunk = {1, 2}, !.units.client = 5]}
=============================================================================

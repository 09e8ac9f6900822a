----------------------------- MODULE MCPollLoop -----------------------------
(***************************************************************************)
(* Small instances of PollLoop.                                            *)
(***************************************************************************)
EXTENDS PollLoop

\* Events are interchangeable; epoll instances are not (see Absent).
EventSymmetry == Permutations(Event)

\* Everything but outcome, which no action reads.  A run that checks only
\* invariants, and none that is about outcome, may tell states apart by it.
NoOutcome == <<kernelVars, ev, poll, lost, loopVars>>

\* Timeouts for ep:wait: a quarter of a second is less than a millisecond when
\* Milli is 2, and five seconds are more milliseconds than IntMax.
Forever     == {-1}
Finite      == {1}
AllTimeouts == {-1, 1, 20}

=============================================================================

---------------------------- MODULE MCPollEvent ----------------------------
(***************************************************************************)
(* Small instances of PollEvent.  The .cfg files choose the kinds of       *)
(* event, the modes and the discipline of the application.                 *)
(***************************************************************************)
EXTENDS PollEvent, TLC

\* Events are interchangeable; epoll instances are not (see Absent).
EventSymmetry == Permutations(Event)

=============================================================================

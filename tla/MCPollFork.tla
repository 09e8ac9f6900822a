----------------------------- MODULE MCPollFork -----------------------------
(***************************************************************************)
(* A small instance of PollFork: a timer, a one-shot trigger and a file.   *)
(***************************************************************************)
EXTENDS PollFork

=============================================================================

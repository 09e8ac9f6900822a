------------------------------ MODULE Notifier ------------------------------
(***************************************************************************)
(* What ep:wait and ep:consume promise, on top of the table of watched     *)
(* pairs and without a kernel, batches or descriptors: consume returns an  *)
(* event that is watched and that something has occurred for, or nil, and  *)
(* says whether it has unregistered it (src/README.md, ep:consume).        *)
(* PollLoop implements it (see PromiseSpec there).                         *)
(***************************************************************************)
EXTENDS WatchTable

CONSTANT NoEvent    \* not one of Event

VARIABLES
    due,            \* watched events that something has occurred for since
                    \* the last delivery took it
    phase,          \* the call that is running
    returned        \* what the last step returned to the application

notifierVars == <<tableVars, due, phase, returned>>

Nil == [ev |-> NoEvent, disabled |-> FALSE]
Calls == {"idle", "consume", "wait", "epoll_wait", "renew"}

NotifierInit ==
    /\ Init
    /\ due = {} /\ phase = "idle" /\ returned = Nil

SameTable == UNCHANGED tableVars

\* What has occurred for other events stays due.
OnlyFor(e) == due' \ {e} = due \ {e}

\* Calls that register, unregister or move one event, whatever has occurred.
Register(e) ==
    /\ phase = "idle"
    /\ Changes(e) /\ Sized'
    /\ OnlyFor(e)
    /\ e \in due' => on'[e]
    /\ phase' = phase /\ returned' = Nil

\* Something occurs for a watched event, at any time.
Occur(e) ==
    /\ on[e]
    /\ due' = due \cup {e}
    /\ SameTable
    /\ phase' = phase /\ returned' = Nil

\* consume or a cleanup takes what has occurred for e, some or all of it, and
\* unregisters e or not.
Take(e, disabled) ==
    /\ on[e] /\ e \in due
    /\ IF disabled THEN Unwatch(e) /\ Sized' ELSE SameTable
    /\ due' \in {due, due \ {e}}
    /\ disabled => e \notin due'

Deliver(e, disabled) ==
    /\ phase = "consume"
    /\ Take(e, disabled)
    /\ phase' = "idle" /\ returned' = [ev |-> e, disabled |-> disabled]

\* Only wait and renew throw away what has occurred; that does not end them.
Discard(e) ==
    /\ phase \in {"wait", "renew"}
    /\ \E disabled \in BOOLEAN : Take(e, disabled)
    /\ phase' = phase /\ returned' = Nil

\* A call begins, goes on or ends, and nothing else.
Proceed ==
    /\ SameTable /\ due' = due
    /\ phase' \in Calls /\ returned' = Nil

NotifierNext ==
    \/ \E e \in Event : \/ Register(e) \/ Occur(e) \/ Discard(e)
                        \/ \E disabled \in BOOLEAN : Deliver(e, disabled)
    \/ Proceed

NotifierSpec == NotifierInit /\ [][NotifierNext]_notifierVars

=============================================================================

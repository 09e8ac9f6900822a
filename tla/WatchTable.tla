----------------------------- MODULE WatchTable -----------------------------
(***************************************************************************)
(* What an epoll instance promises, without descriptors, tables or         *)
(* failing system calls: an event is managed by its type and a unique      *)
(* identifier (src/README.md, ev:watch), and #ep is the number of events   *)
(* that are registered.  PollEvent implements it (see TableSpec there).    *)
(***************************************************************************)
EXTENDS Naturals, FiniteSets

CONSTANTS
    Poll, Event,
    Pair,           \* type and identifier
    NoPair          \* of an event without a type; not one of Pair

VARIABLES
    pair,           \* the pair of each event
    home,           \* the instance of each event
    on,             \* is it watched there?
    size            \* #ep

tableVars == <<pair, home, on, size>>

\* The size always follows from the rest.
Sized ==
    size = [p \in Poll |-> Cardinality({e \in Event : on[e] /\ home[e] = p})]

Init ==
    /\ pair = [e \in Event |-> NoPair]
    /\ home \in [Event -> Poll]
    /\ on = [e \in Event |-> FALSE]
    /\ Sized

Unused(e, p, k) ==
    \A d \in Event \ {e} : on[d] => <<home[d], pair[d]>> # <<p, k>>

Becomes(e, k, p, watched) ==
    /\ pair' = [pair EXCEPT ![e] = k]
    /\ home' = [home EXCEPT ![e] = p]
    /\ on' = [on EXCEPT ![e] = watched]

\* An event gets a type and is watched, or is watched again under the pair it
\* has: only if nobody else is.
Watch(e) ==
    LET k == pair'[e] IN
    /\ ~on[e]
    /\ k \in Pair /\ pair[e] \in {NoPair, k}
    /\ Unused(e, home[e], k)
    /\ Becomes(e, k, home[e], TRUE)

\* It keeps its pair.
Unwatch(e) ==
    /\ on[e]
    /\ Becomes(e, pair[e], home[e], FALSE)

\* A watched event is watched in its new home too, if that can be done.
Move(e, p) ==
    \/ on[e] /\ Unused(e, p, pair[e]) /\ Becomes(e, pair[e], p, TRUE)
    \/ Becomes(e, pair[e], p, FALSE)

\* The event loses its type, or is not needed any more.
Forget(e, p) == Becomes(e, NoPair, p, FALSE)

Changes(e) ==
    \/ Watch(e) \/ Unwatch(e)
    \/ \E p \in Poll : Move(e, p) \/ Forget(e, p)

Next == (\E e \in Event : Changes(e)) /\ Sized'

Spec == Init /\ [][Next]_tableVars

=============================================================================

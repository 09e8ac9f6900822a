------------------------------ MODULE PollFork ------------------------------
(***************************************************************************)
(* A process that forks while it has an epoll instance with events.  The   *)
(* child has a copy of every poll_t and poll_event_t, and its descriptors  *)
(* refer to the same files: the same timerfds and eventfds, and the same   *)
(* epoll object, whose interest list belongs to both processes until one   *)
(* of them calls ep:renew (src/epoll.c).                                   *)
(*                                                                         *)
(* Here each event has its type and its own descriptor already, so watch,  *)
(* unwatch and renew (src/common.c) are what is left of PollEvent, and an  *)
(* interest list is a set of events: the numbers and files by which the    *)
(* kernel tells entries apart are the same in both processes.  A wait may  *)
(* report any part of what is ready; an application's file may be ready    *)
(* and may have hung up at any time.                                       *)
(***************************************************************************)
EXTENDS FiniteSets, Naturals

CONSTANTS
    Event,          \* the events that were created before the fork
    Oneshot,        \* those of them that are one-shot
    Timer,          \* those that are timers: their read() blocks
    Trigger,        \* those that are triggers: their read() answers EAGAIN
    RenewsFirst,    \* does the child call nothing before its ep:renew succeeds?
    ForksDrained    \* does the application fork only when no slot is left
                    \* that unregisters its event?

ASSUME ForkAssumption ==
    /\ IsFiniteSet(Event)
    /\ Oneshot \subseteq Event
    /\ Timer \subseteq Event /\ Trigger \subseteq Event \ Timer
    /\ {RenewsFirst, ForksDrained} \subseteq BOOLEAN

Process == {"parent", "child"}

\* The events whose descriptor the library created.
Counter == Timer \cup Trigger

\* Epoll objects: with one more than there are processes one is always unused.
Object == 0 .. 2

Slot == [ev : Event, hup : BOOLEAN]

VARIABLES
    alive,      \* the processes that run
    enabled,    \* the events each process believes to be watched (its evset)
    epoll,      \* the epoll object that p->fd refers to in each process
    interest,   \* the interest list of each epoll object
    batch,      \* what each process has not yet consumed
    call,       \* is the process inside ep:renew?
    ready,      \* timers and triggers whose counter is not 0
    renewed,    \* history: processes whose epoll object is their own
    lost        \* history: watched events that need ev:renew, after a fork or
                \* ep:renew

vars == <<alive, enabled, epoll, interest, batch, call, ready, renewed, lost>>

\* An epoll object that no process refers to has been closed: ep:renew leaks
\* none.
TypeOK ==
    /\ \A o \in Object : interest[o] # {} => \E q \in alive : epoll[q] = o
    /\ alive \subseteq Process /\ renewed \subseteq Process
    /\ enabled \in [Process -> SUBSET Event]
    /\ epoll \in [Process -> Object]
    /\ interest \in [Object -> SUBSET Event]
    /\ batch \in [Process -> SUBSET Slot]
    /\ call \in [Process -> {"idle", "renew"}]
    /\ ready \subseteq Counter
    /\ lost \in [Process -> SUBSET Event]

Init ==
    /\ alive = {"parent"} /\ renewed = {"parent"}
    /\ enabled = [q \in Process |-> {}]
    /\ epoll = [q \in Process |-> 0]
    /\ interest = [o \in Object |-> {}]
    /\ batch = [q \in Process |-> {}]
    /\ call = [q \in Process |-> "idle"]
    /\ ready = {}
    /\ lost = [q \in Process |-> {}]

\* Fault: ep:renew does not close the descriptor it replaces.
KeptOpen(intr, procs, ep) == intr

\* The kernel drops an epoll object that no process refers to.
Kept(intr, procs, ep) ==
    [o \in Object |-> IF \E q \in procs : ep[q] = o THEN intr[o] ELSE {}]

MayCall(q) ==
    /\ q \in alive /\ call[q] = "idle"
    /\ RenewsFirst => q \in renewed

-----------------------------------------------------------------------------
(* ev:watch, ev:unwatch and ev:renew in process q *)

Added(q, e)   == [interest EXCEPT ![epoll[q]] = @ \cup {e}]
Removed(q, e) == [interest EXCEPT ![epoll[q]] = @ \ {e}]

\* epoll_ctl answers EEXIST if the list has the event, the other process's.
Watch(q, e) ==
    /\ MayCall(q)
    /\ e \notin enabled[q] /\ e \notin interest[epoll[q]]
    /\ enabled' = [enabled EXCEPT ![q] = @ \cup {e}]
    /\ interest' = Added(q, e)
    /\ UNCHANGED <<alive, epoll, batch, call, ready, renewed, lost>>

UnwatchedIn(q, e) ==
    /\ enabled' = [enabled EXCEPT ![q] = @ \ {e}]
    /\ interest' = Removed(q, e)
    /\ lost' = [lost EXCEPT ![q] = @ \ {e}]

Unwatch(q, e) ==
    /\ MayCall(q) /\ e \in enabled[q]
    /\ UnwatchedIn(q, e)
    /\ UNCHANGED <<alive, epoll, batch, call, ready, renewed>>

\* Fault: ENOENT is an error, and nothing is registered.
RenewedIntrNot(q, e) == Removed(q, e)

\* The entry is deleted, which may answer ENOENT, and added.
RenewedIntr(q, e) == Added(q, e)

RenewEvent(q, e) ==
    /\ MayCall(q) /\ e \in enabled[q]
    /\ interest' = RenewedIntr(q, e)
    /\ lost' = [lost EXCEPT ![q] = @ \ {e}]
    /\ UNCHANGED <<alive, enabled, epoll, batch, call, ready, renewed>>

-----------------------------------------------------------------------------
(* ep:consume, ep:wait and ep:renew in process q *)

Unregisters(s) == s.ev \in Oneshot \/ s.hup

\* read() of the descriptor of e, which both processes share.
Drain(q, e, error) ==
    \/ /\ e \notin Counter /\ ~error
       /\ UNCHANGED ready
    \/ /\ e \in ready /\ ~error
       /\ ready' = ready \ {e}
    \/ /\ e \in Trigger \ ready /\ error
       /\ UNCHANGED ready

\* check_event_status, for consume and for the cleanup of wait and renew, which
\* an error ends.
Deliver(q) ==
    /\ q \in alive
    /\ MayCall(q) \/ call[q] = "renew"
    /\ \E s \in batch[q], error \in BOOLEAN :
        /\ batch' = [batch EXCEPT ![q] = @ \ {s}]
        /\ IF s.ev \in enabled[q]
           THEN /\ IF Unregisters(s) THEN UnwatchedIn(q, s.ev)
                                     ELSE UNCHANGED <<enabled, interest, lost>>
                /\ IF s.hup THEN ~error /\ UNCHANGED ready
                            ELSE Drain(q, s.ev, error)
           ELSE ~error /\ UNCHANGED <<enabled, interest, lost, ready>>
        /\ call' = [call EXCEPT ![q] = IF error THEN "idle" ELSE @]
    /\ UNCHANGED <<alive, epoll, renewed>>

\* The cleanup of wait is a number of deliveries.  Nothing is reported after a
\* timeout, or at once if nothing is registered.
Wait(q) ==
    /\ MayCall(q) /\ batch[q] = {}
    /\ \E R \in SUBSET (interest[epoll[q]] \ (Counter \ ready)) :
          \E H \in SUBSET (R \ Counter) :
             batch' = [batch EXCEPT ![q] = {[ev |-> e, hup |-> e \in H] : e \in R}]
    /\ UNCHANGED <<alive, enabled, epoll, interest, call, ready, renewed, lost>>

CallRenew(q) ==
    /\ q \in alive /\ call[q] = "idle"
    /\ call' = [call EXCEPT ![q] = "renew"]
    /\ UNCHANGED <<alive, enabled, epoll, interest, batch, ready, renewed, lost>>

\* Fault: p->fd keeps its value.
RenewedEpollNot(q, o) == epoll

\* The new object replaces the one p->fd refers to.
RenewedEpoll(q, o) == [epoll EXCEPT ![q] = o]

FinishRenew(q) ==
    /\ q \in alive /\ call[q] = "renew" /\ batch[q] = {}
    /\ call' = [call EXCEPT ![q] = "idle"]
    /\ \/ \E o \in Object :
             /\ \A r \in alive : epoll[r] # o
             /\ \A n \in 0 .. o - 1 : \E r \in alive : epoll[r] = n
             /\ epoll' = RenewedEpoll(q, o)
             /\ interest' = Kept(interest, alive, epoll')
             /\ lost' = [lost EXCEPT ![q] = enabled[q]]
             /\ renewed' = renewed \cup {q}
       \/ UNCHANGED <<epoll, interest, lost, renewed>>              \* EMFILE
    /\ UNCHANGED <<alive, enabled, batch, ready>>

-----------------------------------------------------------------------------
(* fork, exit, and what happens outside *)

Fork ==
    /\ alive = {"parent"} /\ call["parent"] = "idle"
    /\ ForksDrained => \A s \in batch["parent"] : ~Unregisters(s)
    /\ alive' = Process
    /\ enabled' = [enabled EXCEPT !["child"] = enabled["parent"]]
    /\ epoll' = [epoll EXCEPT !["child"] = epoll["parent"]]
    /\ batch' = [batch EXCEPT !["child"] = batch["parent"]]
    /\ lost' = [lost EXCEPT !["child"] = enabled["parent"]]
    /\ UNCHANGED <<interest, call, ready, renewed>>

\* Fault: an event that is collected is unregistered.
CollectedIntrDel(q) == [interest EXCEPT ![epoll[q]] = @ \ enabled[q]]

\* __gc of the events and of the instance only closes descriptors.
CollectedIntr(q) == interest

\* The process ends: its Lua state is closed, or it is killed at any point.
Exit(q) ==
    /\ q \in alive
    /\ alive' = alive \ {q}
    /\ renewed' = IF q = "child" THEN renewed \ {q} ELSE renewed
    /\ interest' = Kept(CollectedIntr(q), alive', epoll)
    /\ enabled' = [enabled EXCEPT ![q] = {}]
    /\ epoll' = [epoll EXCEPT ![q] = 0]
    /\ batch' = [batch EXCEPT ![q] = {}]
    /\ call' = [call EXCEPT ![q] = "idle"]
    /\ lost' = [lost EXCEPT ![q] = {}]
    /\ UNCHANGED ready

Occurs(e) ==
    /\ e \in Counter
    /\ ready' = ready \cup {e}
    /\ UNCHANGED <<alive, enabled, epoll, interest, batch, call, renewed, lost>>

Next ==
    \/ \E q \in Process :
          \/ \E e \in Event : Watch(q, e) \/ Unwatch(q, e) \/ RenewEvent(q, e)
          \/ Deliver(q) \/ Wait(q) \/ CallRenew(q) \/ FinishRenew(q)
          \/ Exit(q)
    \/ Fork
    \/ \E e \in Event : Occurs(e)

Spec == Init /\ [][Next]_vars

-----------------------------------------------------------------------------
(* Properties *)

\* Whatever the child does, and whenever it ends, the kernel goes on watching
\* for the parent what the parent watches; and in the child renewing the
\* instance and then an event (README, ep:renew) restores the event.
ArmedInBoth ==
    \A q \in alive : enabled[q] \ lost[q] \subseteq interest[epoll[q]]

\* Neither process is woken for an event that it does not watch itself: not for
\* one that only the other process has registered.
NoneOfTheOther ==
    \A q \in alive \cap renewed : interest[epoll[q]] \subseteq enabled[q]

=============================================================================

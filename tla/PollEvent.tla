----------------------------- MODULE PollEvent -----------------------------
(***************************************************************************)
(* The registration half of lua-epoll: poll_event_t and the tables of      *)
(* poll_t (src/common.c), the five functions that turn an event into a     *)
(* read, write, signal, timer or trigger event (src/read.c ... trigger.c), *)
(* and the calls of src/epoll.c that create, renew and collect instances.  *)
(* Module PollLoop adds waiting and consuming.                             *)
(*                                                                         *)
(* The library runs inside one Lua state: each call is one action, made of *)
(* everything the C function does until it returns or throws.              *)
(***************************************************************************)
EXTENDS EpollKernel

CONSTANTS
    NoEvent,         \* a nil slot of a table
    Udata, NoUdata,  \* user data values; no reference (LUA_NOREF)
    Signo, TimerId,  \* signal numbers and timer identifiers in use
    Kinds,           \* the kinds of event the application creates
    Modes,           \* the trigger modes it sets
    CtlAddMayFail,   \* can epoll_ctl(ADD) run out of memory or watches?
    ClosesUsed,      \* does it close descriptors that its events still name?
    Rewatches,       \* does it re-watch an event whose place is taken?
    Borrows          \* does it pass as_read and as_write descriptors that
                     \* the library opened, such as trigger:ident()?

FdKind == {"read", "write"}
Kind   == FdKind \cup {"signal", "timer", "trigger"}
Mode   == {"level", "edge", "oneshot"}
Ident  == Fd \cup Signo \cup TimerId
Pair   == Kind \X Ident

ASSUME EventAssumption ==
    /\ NoEvent \notin Event
    /\ NoUdata \notin Udata
    /\ Signo \subseteq Nat /\ TimerId \subseteq Int
    /\ Kinds \subseteq Kind /\ Modes \subseteq Mode
    /\ {CtlAddMayFail, ClosesUsed, Rewatches, Borrows} \subseteq BOOLEAN

VARIABLES
    ev,         \* poll_event_t of each event instance
    poll,       \* poll_t of each epoll instance
    outcome,    \* how the last call ended; "env" after a step of no call
    lost        \* history: enabled events whose kernel entry the
                \* application took away (ep:renew, close)

vars == <<file, owner, interest, ev, poll, outcome, lost>>

EventRec == [mt : {"none", "event"} \cup Kind,   \* its metatable
             p : Poll, enabled : BOOLEAN, ident : Ident,
             filter : {"none"} \cup Kind, events : SUBSET Flag, fd : Fd,
             udata : Udata \cup {NoUdata}]

\* evset is indexed by descriptor; flag stands for the five ref_evset_<kind>
\* tables, indexed by identifier.
PollRec == [open : BOOLEAN, evset : [Fd -> Event \cup {NoEvent}],
            flag : SUBSET Pair, nreg : Int]

TypeOK ==
    /\ KernelTypeOK
    /\ ev \in [Event -> EventRec]
    /\ poll \in [Poll -> PollRec]
    /\ outcome \in {"ok", "false", "error", "throw", "env"}
    /\ lost \subseteq Event

Fresh(p) == [mt |-> "event", p |-> p, enabled |-> FALSE, ident |-> 0,
             filter |-> "none", events |-> {}, fd |-> 0, udata |-> NoUdata]
Absent   == [Fresh(CHOOSE p \in Poll : TRUE) EXCEPT !.mt = "none"]

NewPollRec(open) == [open |-> open, evset |-> [f \in Fd |-> NoEvent],
                     flag |-> {}, nreg |-> 0]

Init ==
    /\ KernelInit
    /\ ev = [e \in Event |-> Absent]
    /\ poll = [p \in Poll |-> NewPollRec(FALSE)]
    /\ outcome = "env"
    /\ lost = {}

-----------------------------------------------------------------------------
(* Which methods each metatable has; calling another is a Lua error. *)

ModeMethod     == [level |-> "as_level", edge |-> "as_edge",
                   oneshot |-> "as_oneshot"]
ModeMethods    == {ModeMethod[m] : m \in Mode}
EventMethods   == {"renew", "as_read", "as_write", "as_signal", "as_timer",
                   "as_trigger"} \cup ModeMethods
TypedMethods   == {"renew", "revert", "watch", "unwatch", "udata"}
                    \cup ModeMethods
TriggerMethods == TypedMethods \cup {"trigger"}

Has(e, m) ==
    \/ ev[e].mt = "event" /\ m \in EventMethods
    \/ ev[e].mt \in Kind \ {"trigger"} /\ m \in TypedMethods
    \/ ev[e].mt = "trigger" /\ m \in TriggerMethods

\* Every return value the model keeps: did the call succeed, answer false,
\* return an error or raise a Lua error?
Return(o) == outcome' = o

RefusedCall ==
    /\ Return("error")
    /\ UNCHANGED <<file, owner, interest, ev, poll, lost>>

-----------------------------------------------------------------------------
(* The tables of poll_t.  r is the poll_event_t of event e. *)

EvsetAdd(pl, e, r) ==
    [pl EXCEPT !.evset[r.fd] = e,
               !.nreg = @ + 1,
               !.flag = @ \cup {<<r.filter, r.ident>>}]

\* Fault: the flag of the pair is never cleared.
EvsetDelKeepsFlag(pl, r) ==
    [pl EXCEPT !.evset[r.fd] = NoEvent, !.nreg = @ - 1]

\* Fault: the identifier is cleared in the flag tables of all kinds.
EvsetDelAllKinds(pl, r) ==
    IF pl.evset[r.fd] = NoEvent
    THEN pl
    ELSE [pl EXCEPT !.evset[r.fd] = NoEvent,
                    !.nreg = @ - 1,
                    !.flag = @ \ {<<k, r.ident>> : k \in Kind}]

EvsetDel(pl, r) ==
    IF pl.evset[r.fd] = NoEvent
    THEN pl
    ELSE [pl EXCEPT !.evset[r.fd] = NoEvent,
                    !.nreg = @ - 1,
                    !.flag = @ \ {<<r.filter, r.ident>>}]

\* Fault: the pair is not looked up.
GetFlagNever(e, kind, id) == FALSE

GetFlag(e, kind, id) == <<kind, id>> \in poll[ev[e].p].flag

-----------------------------------------------------------------------------
(* poll_watch_event and poll_unwatch_event *)

\* Fault: nothing is taken back.
RolledBackNot(pl, e, r) == EvsetAdd(pl, e, r)

\* Fault: the slot is cleared but still counted.
RolledBackCounted(pl, e, r) ==
    [EvsetDel(EvsetAdd(pl, e, r), r) EXCEPT !.nreg = @ + 1]

\* What a failed epoll_ctl(ADD) leaves of the registration.
RolledBack(pl, e, r) == EvsetDel(EvsetAdd(pl, e, r), r)

Conflict(r, polls) == polls[r.p].evset[r.fd] # NoEvent

\* Watch r = ev[e] from the tables polls and the interest lists intr, with the
\* descriptor table ff.  On success the caller leaves e as good, on failure as
\* bad.  luaL_error leaves e as r.  An event is watched only when disabled: the
\* callers test r.enabled or have just cleared it.
PollWatch(e, r, polls, intr, ff, good, bad) ==
    \/ /\ ~Conflict(r, polls)
       /\ AddAccepted(intr, r.p, r.fd, ff, r.events)
       /\ ev' = [ev EXCEPT ![e] = [good EXCEPT !.enabled = TRUE]]
       /\ poll' = [polls EXCEPT ![r.p] = EvsetAdd(@, e, r)]
       /\ interest' = CtlAdd(intr, r.p, r.fd, ff, r.events)
       /\ Return("ok")
    \/ /\ ~Conflict(r, polls)
       /\ CtlAddMayFail \/ ~AddAccepted(intr, r.p, r.fd, ff, r.events)
       /\ ev' = [ev EXCEPT ![e] = bad]
       /\ poll' = [polls EXCEPT ![r.p] = RolledBack(@, e, r)]
       /\ interest' = intr
       /\ Return("error")
    \/ /\ Conflict(r, polls)
       /\ ev' = [ev EXCEPT ![e] = r]
       /\ poll' = polls
       /\ interest' = intr
       /\ Return("throw")

\* Fault: unwatching forgets the identifier.
DisabledForgets(e) == [ev[e] EXCEPT !.enabled = FALSE, !.ident = 0]

Disabled(e) == [ev[e] EXCEPT !.enabled = FALSE]

\* What unwatching the enabled event e does to the tables and the kernel.
UnwatchedPoll(e) == [poll EXCEPT ![ev[e].p] = EvsetDel(@, ev[e])]

\* Fault: the kernel is not told.
UnwatchedIntrNot(e) == interest

UnwatchedIntr(e) == CtlDel(interest, ev[e].p, ev[e].fd)

\* Nobody else of instance p holds the (kind, identifier) pair or the
\* descriptor of e.
Free(e, p) ==
    \A d \in Event \ {e} :
        ev[d].enabled /\ ev[d].p = p =>
            /\ ev[d].fd # ev[e].fd
            /\ <<ev[d].filter, ev[d].ident>> # <<ev[e].filter, ev[e].ident>>

-----------------------------------------------------------------------------
(* ep:new_event, ev:as_read, ev:as_write, ev:as_signal, ev:as_timer,       *)
(* ev:as_trigger                                                           *)

NewEvent(e, p) ==
    /\ ev[e].mt = "none" /\ poll[p].open
    /\ ev' = [ev EXCEPT ![e] = Fresh(p)]
    /\ Return("ok")
    /\ UNCHANGED <<kernelVars, poll, lost>>

\* Fault: as_read ... as_timer set the registered flags instead of adding.
AsksOnly(flags, dir) == {dir}

Asks(flags, dir) == flags \cup {dir}

\* udata is stored only when the argument is given.
Keep(r, u) == IF u = NoUdata THEN r ELSE [r EXCEPT !.udata = u]

\* The descriptors opened by the call: ff is the table that has them.  They
\* are closed again when watching fails, but not when it throws.
Opened(e, f, ff) ==
    IF outcome' = "error"
    THEN UNCHANGED <<file, owner>>
    ELSE file' = ff /\ owner' = [owner EXCEPT ![f] = e]

\* The application passes any number, or only its own and closed ones.
AsFd(e, kind, other, dir, f, u) ==
    /\ Borrows \/ owner[f] \in {"user", "none"}
    /\ \/ /\ \/ GetFlag(e, kind, f)                                 \* EEXIST
             \/ GetFlag(e, other, f) /\ file[f] = NoFile            \* EBADF
             \/ GetFlag(e, other, f) /\ \A d \in Fd : ~Lowest(d)    \* EMFILE
          /\ RefusedCall
       \/ /\ ~GetFlag(e, kind, f) /\ ~GetFlag(e, other, f)
          /\ LET r == [ev[e] EXCEPT !.ident = f, !.filter = kind,
                                    !.events = Asks(@, dir), !.fd = f]
             IN  PollWatch(e, r, poll, interest, file,
                           Keep([r EXCEPT !.mt = kind], u), r)
          /\ UNCHANGED <<file, owner, lost>>
       \/ /\ ~GetFlag(e, kind, f) /\ GetFlag(e, other, f)
          /\ file[f] # NoFile
          /\ \E d \in Fd :
                LET ff == [file EXCEPT ![d] = file[f]]
                    r  == [ev[e] EXCEPT !.ident = f, !.filter = kind,
                                        !.events = Asks(@, dir), !.fd = d]
                IN  /\ Lowest(d)
                    /\ PollWatch(e, r, poll, interest, ff,
                                 Keep([r EXCEPT !.mt = kind], u), r)
                    /\ Opened(e, d, ff)
          /\ UNCHANGED lost

AsRead(e, f, u) ==
    Has(e, "as_read") /\ AsFd(e, "read", "write", "IN", f, u)

AsWrite(e, f, u) ==
    Has(e, "as_write") /\ AsFd(e, "write", "read", "OUT", f, u)

\* as_signal and as_timer watch a descriptor of their own.
AsOwnFd(e, kind, id, type, u) ==
    \/ GetFlag(e, kind, id) /\ RefusedCall                          \* EEXIST
    \/ (\A d \in Fd : ~Lowest(d)) /\ RefusedCall                    \* EMFILE
    \/ /\ ~GetFlag(e, kind, id)
       /\ \E d \in Fd :
             LET ff == [file EXCEPT ![d] = <<type, d>>]
                 r  == [ev[e] EXCEPT !.ident = id, !.filter = kind,
                                     !.events = Asks(@, "IN"), !.fd = d]
             IN  /\ Lowest(d)
                 /\ PollWatch(e, r, poll, interest, ff,
                              Keep([r EXCEPT !.mt = kind], u), r)
                 /\ Opened(e, d, ff)
       /\ UNCHANGED lost

\* Numbers outside Signo (EINVAL) change nothing, as EEXIST does.
AsSignal(e, signo, u) ==
    Has(e, "as_signal") /\ AsOwnFd(e, "signal", signo, "signalfd", u)

\* Negative intervals (EINVAL) change nothing, as EEXIST does.
AsTimer(e, id, u) ==
    Has(e, "as_timer") /\ AsOwnFd(e, "timer", id, "timerfd", u)

\* as_trigger stores udata first, overwrites the registered flags, and
\* clears what it set when watching fails.
AsTrigger(e, u) ==
    /\ Has(e, "as_trigger")
    /\ \/ /\ \A d \in Fd : ~Lowest(d)                               \* EMFILE
          /\ ev' = [ev EXCEPT ![e] = Keep(@, u)]
          /\ Return("error")
          /\ UNCHANGED <<kernelVars, poll>>
       \/ \E d \in Fd :
             LET ff == [file EXCEPT ![d] = <<"eventfd", d>>]
                 r  == [Keep(ev[e], u) EXCEPT !.ident = d,
                           !.filter = "trigger", !.events = {"IN"}, !.fd = d]
             IN  /\ Lowest(d)
                 /\ PollWatch(e, r, poll, interest, ff,
                              [r EXCEPT !.mt = "trigger"],
                              [r EXCEPT !.ident = 0, !.filter = "none",
                                        !.events = {}, !.fd = 0])
                 /\ Opened(e, d, ff)
    /\ UNCHANGED lost

-----------------------------------------------------------------------------
(* ev:watch, ev:unwatch, ev:renew, ev:revert, __gc *)

Watch(e) ==
    /\ Has(e, "watch")
    /\ Rewatches \/ Free(e, ev[e].p)
    /\ \/ /\ ev[e].enabled
          /\ Return("false")
          /\ UNCHANGED <<interest, ev, poll>>
       \/ /\ ~ev[e].enabled
          /\ PollWatch(e, ev[e], poll, interest, file, ev[e], ev[e])
    /\ UNCHANGED <<file, owner, lost>>

Unwatch(e) ==
    /\ Has(e, "unwatch")
    /\ \/ /\ ~ev[e].enabled
          /\ Return("false")
          /\ UNCHANGED <<interest, ev, poll, lost>>
       \/ /\ ev[e].enabled
          /\ ev' = [ev EXCEPT ![e] = Disabled(e)]
          /\ poll' = UnwatchedPoll(e)
          /\ interest' = UnwatchedIntr(e)
          /\ lost' = lost \ {e}
          /\ Return(IF DelRefused(ev[e].fd) THEN "error" ELSE "ok")
    /\ UNCHANGED <<file, owner>>

\* ev:renew([ep]); without an argument p is the instance the event is in.
RenewEvent(e, p) ==
    /\ Has(e, "renew") /\ poll[p].open
    /\ Rewatches \/ Free(e, p)
    /\ \/ /\ ~ev[e].enabled
          /\ ev' = [ev EXCEPT ![e].p = p]
          /\ Return("ok")
          /\ UNCHANGED <<interest, poll>>
       \/ /\ ev[e].enabled /\ DelRefused(ev[e].fd)
          /\ ev' = [ev EXCEPT ![e] = Disabled(e)]
          /\ poll' = UnwatchedPoll(e)
          /\ interest' = UnwatchedIntr(e)
          /\ Return("error")
       \/ /\ ev[e].enabled /\ ~DelRefused(ev[e].fd)
          /\ LET r == [Disabled(e) EXCEPT !.p = p]
             IN  PollWatch(e, r, UnwatchedPoll(e), UnwatchedIntr(e), file, r, r)
    /\ lost' = lost \ {e}
    /\ UNCHANGED <<file, owner>>

\* Fault: the descriptor is closed even when it is the application's.
ClosesFdAlways(r) == r.filter # "none"

\* Fault: nothing is closed.
ClosesFdNever(r) == FALSE

\* event_closefd closes a duplicate, or the descriptor the event created.
ClosesFd(r) ==
    \/ r.filter \in FdKind /\ r.fd # r.ident
    \/ r.filter \in Kind \ FdKind

\* Fault: reg_evt still holds the -1 of event_closefd.
RevertedKeepsFd(r) ==
    [Fresh(r.p) EXCEPT !.ident = r.ident, !.fd = IF ClosesFd(r) THEN -1 ELSE r.fd]

\* Fault: the user data stays.
RevertedKeepsUdata(r) == [Fresh(r.p) EXCEPT !.ident = r.ident, !.udata = r.udata]

Reverted(r) == [Fresh(r.p) EXCEPT !.ident = r.ident]

Revert(e) ==
    /\ Has(e, "revert")
    /\ poll' = IF ev[e].enabled THEN UnwatchedPoll(e) ELSE poll
    /\ lost' = lost \ {e}
    /\ \/ /\ ev[e].enabled /\ DelRefused(ev[e].fd)
          /\ ev' = [ev EXCEPT ![e] = Disabled(e)]
          /\ interest' = UnwatchedIntr(e)
          /\ Return("error")
          /\ UNCHANGED <<file, owner>>
       \/ /\ ~(ev[e].enabled /\ DelRefused(ev[e].fd))
          /\ ev' = [ev EXCEPT ![e] = Reverted(@)]
          /\ CloseFrom(IF ev[e].enabled THEN UnwatchedIntr(e) ELSE interest,
                       IF ClosesFd(ev[e]) THEN {ev[e].fd} ELSE {})
          /\ Return("ok")

\* An event that some evset holds is reachable and is not collected.
Gc(e) ==
    /\ ev[e].mt # "none"
    /\ \A p \in Poll, f \in Fd : poll[p].evset[f] # e
    /\ ev' = [ev EXCEPT ![e] = Absent]
    /\ CloseFrom(interest, IF ClosesFd(ev[e]) THEN {ev[e].fd} ELSE {})
    /\ Return("ok")
    /\ UNCHANGED <<poll, lost>>

-----------------------------------------------------------------------------
(* ev:as_level, ev:as_edge, ev:as_oneshot, ev:udata *)

\* Fault: level overwrites the registered flags.
ModeFlagsOverwrites(mode, flags) ==
    CASE mode = "level"   -> {"EXCLUSIVE"}
      [] mode = "edge"    -> (flags \ {"ONESHOT"}) \cup {"ET", "EXCLUSIVE"}
      [] mode = "oneshot" -> (flags \ {"ET", "EXCLUSIVE"}) \cup {"ONESHOT"}

\* Fault: one-shot does not clear the flags of the other modes.
ModeFlagsKeeps(mode, flags) ==
    CASE mode = "level"   -> (flags \ {"ONESHOT", "ET"}) \cup {"EXCLUSIVE"}
      [] mode = "edge"    -> (flags \ {"ONESHOT"}) \cup {"ET", "EXCLUSIVE"}
      [] mode = "oneshot" -> flags \cup {"ONESHOT"}

ModeFlags(mode, flags) ==
    CASE mode = "level"   -> (flags \ {"ONESHOT", "ET"}) \cup {"EXCLUSIVE"}
      [] mode = "edge"    -> (flags \ {"ONESHOT"}) \cup {"ET", "EXCLUSIVE"}
      [] mode = "oneshot" -> (flags \ {"ET", "EXCLUSIVE"}) \cup {"ONESHOT"}

\* Fault: a watched event is not refused.
SetModeAnyTime(e, mode) ==
    /\ Has(e, ModeMethod[mode])
    /\ ev' = [ev EXCEPT ![e].events = ModeFlags(mode, @)]
    /\ Return("ok")
    /\ UNCHANGED <<kernelVars, poll, lost>>

SetMode(e, mode) ==
    /\ Has(e, ModeMethod[mode])
    /\ \/ ev[e].enabled /\ RefusedCall                         \* EINPROGRESS
       \/ /\ ~ev[e].enabled
          /\ ev' = [ev EXCEPT ![e].events = ModeFlags(mode, @)]
          /\ Return("ok")
          /\ UNCHANGED <<kernelVars, poll, lost>>

\* What is_level, is_edge and is_oneshot answer.
IsLevel(e)   == ev[e].events \subseteq {"IN", "OUT", "EXCLUSIVE"}
IsEdge(e)    == "ET" \in ev[e].events
IsOneshot(e) == "ONESHOT" \in ev[e].events

SetUdata(e, u) ==
    /\ Has(e, "udata")
    /\ ev' = [ev EXCEPT ![e].udata = u]
    /\ Return("ok")
    /\ UNCHANGED <<kernelVars, poll, lost>>

-----------------------------------------------------------------------------
(* epoll.new, ep:renew with no event left to consume, __gc *)

NewPoll(p) ==
    /\ ~poll[p].open
    /\ \/ /\ poll' = [poll EXCEPT ![p] = NewPollRec(TRUE)]
          /\ interest' = [interest EXCEPT ![p] = {}]
          /\ Return("ok")
          /\ UNCHANGED <<file, owner, ev, lost>>
       \/ RefusedCall                                               \* EMFILE

\* A new epoll descriptor has an empty interest list; the tables stay.
RenewPoll(p) ==
    /\ poll[p].open
    /\ \/ /\ interest' = [interest EXCEPT ![p] = {}]
          /\ lost' = lost \cup {e \in Event : ev[e].enabled /\ ev[e].p = p}
          /\ Return("ok")
          /\ UNCHANGED <<file, owner, ev, poll>>
       \/ RefusedCall                                               \* EMFILE

\* Every event keeps a reference to its instance.
GcPoll(p) ==
    /\ poll[p].open
    /\ \A e \in Event : ev[e].mt # "none" => ev[e].p # p
    /\ poll' = [poll EXCEPT ![p] = NewPollRec(FALSE)]
    /\ interest' = [interest EXCEPT ![p] = {}]
    /\ Return("ok")
    /\ UNCHANGED <<file, owner, ev, lost>>

-----------------------------------------------------------------------------
(* The application's own descriptors *)

UserOpen(x, f) ==
    /\ \A g \in Fd : file[g] # x
    /\ Lowest(f)
    /\ file' = [file EXCEPT ![f] = x]
    /\ owner' = [owner EXCEPT ![f] = "user"]
    /\ Return("env")
    /\ UNCHANGED <<interest, ev, poll, lost>>

\* The read and write events on number f, or on a duplicate of it.
Using(f) == {e \in Event : ev[e].mt \in FdKind /\ f \in {ev[e].fd, ev[e].ident}}

UserClose(f) ==
    /\ owner[f] = "user"
    /\ ClosesUsed \/ Using(f) = {}
    /\ CloseFrom(interest, {f})
    /\ lost' = lost \cup {e \in Event : ev[e].enabled /\ ev[e].fd = f}
    /\ Return("env")
    /\ UNCHANGED <<ev, poll>>

-----------------------------------------------------------------------------
Data == Udata \cup {NoUdata}

As(e, u) ==
    \/ "read"    \in Kinds /\ \E f \in Fd : AsRead(e, f, u)
    \/ "write"   \in Kinds /\ \E f \in Fd : AsWrite(e, f, u)
    \/ "signal"  \in Kinds /\ \E s \in Signo : AsSignal(e, s, u)
    \/ "timer"   \in Kinds /\ \E t \in TimerId : AsTimer(e, t, u)
    \/ "trigger" \in Kinds /\ AsTrigger(e, u)

Call(e) ==
    \/ \E u \in Data : As(e, u)
    \/ \E p \in Poll : NewEvent(e, p)
    \/ Watch(e)
    \/ Unwatch(e)
    \/ Revert(e)
    \/ Gc(e)
    \/ \E m \in Modes : SetMode(e, m)
    \/ Udata # {} /\ \E u \in Data : SetUdata(e, u)

Renew(e) == \E p \in Poll : RenewEvent(e, p)

PollCall(p) == NewPoll(p) \/ GcPoll(p)

User == \E f \in Fd : UserClose(f) \/ \E x \in UserFile : UserOpen(x, f)

Next ==
    \/ \E e \in Event : Call(e) \/ Renew(e)
    \/ \E p \in Poll : PollCall(p) \/ RenewPoll(p)
    \/ User

Spec == Init /\ [][Next]_vars

-----------------------------------------------------------------------------
(* What holds whatever the application does and whichever call fails *)

\* Slot f of an instance's evset holds exactly the event that believes to be
\* watched there: no watched event is missing from the table (it would never
\* be delivered, and would be collected), and none is left behind.  The claim
\* is about evset_add, poll_evset_del and their order with epoll_ctl.
EvsetExact ==
    \A p \in Poll, f \in Fd, e \in Event :
        poll[p].evset[f] = e <=> ev[e].enabled /\ ev[e].p = p /\ ev[e].fd = f

\* #ep is the number of watched events: nreg++ and nreg-- never drift from the
\* table, through failed calls, re-watches and moves between instances.  wait
\* sizes its event list with it and does not wait at all when it is 0.
NregExact ==
    \A p \in Poll :
        poll[p].nreg = Cardinality({f \in Fd : poll[p].evset[f] # NoEvent})

\* A (kind, identifier) pair is refused as already registered only while an
\* event of that instance watches it: no flag outlives its event.
FlagBacked ==
    \A p \in Poll : \A k \in poll[p].flag :
        \E e \in Event : /\ ev[e].enabled /\ ev[e].p = p
                         /\ <<ev[e].filter, ev[e].ident>> = k

\* A watched event has the metatable of its filter and asks for its direction,
\* though the metatable is changed last and a failed call leaves the rest set.
WatchedIsTyped ==
    \A e \in Event :
        ev[e].enabled =>
            /\ ev[e].mt = ev[e].filter
            /\ (IF ev[e].filter = "write" THEN "OUT" ELSE "IN") \in ev[e].events

\* Exactly one of is_level, is_edge and is_oneshot answers true, and
\* EPOLLEXCLUSIVE, which the kernel refuses beside EPOLLONESHOT, never meets it:
\* whichever modes were set before, and whatever a failed call left behind.
ModesExclusive ==
    \A e \in Event :
        /\ IsLevel(e) <=> ~IsEdge(e) /\ ~IsOneshot(e)
        /\ IsOneshot(e) => ~IsEdge(e) /\ "EXCLUSIVE" \notin ev[e].events

-----------------------------------------------------------------------------
(* What holds while the application keeps to the discipline that the       *)
(* constants state                                                         *)

\* README: an event is managed by its type and a unique identifier pair.
UniquePair ==
    \A d, e \in Event :
        /\ d # e /\ ev[d].enabled /\ ev[e].enabled /\ ev[d].p = ev[e].p
        => <<ev[d].filter, ev[d].ident>> # <<ev[e].filter, ev[e].ident>>

\* The other direction of FlagBacked: no call takes the flag of a pair from the
\* event that is watched under it, be it a failed registration, or another
\* event of the same number or kind, so that the pair stays refused.
WatchedIsFlagged ==
    \A e \in Event :
        ev[e].enabled => <<ev[e].filter, ev[e].ident>> \in poll[ev[e].p].flag

\* The luaL_error "[BUG] invalid implementation" of poll_watch_event is not
\* reached.
NoThrow == outcome # "throw"

\* Every descriptor the library opened is the one that its event closes when
\* it is reverted or collected.
NoLeak ==
    \A f \in Fd :
        owner[f] \in Event =>
            LET r == ev[owner[f]] IN r.mt # "none" /\ r.fd = f /\ ClosesFd(r)

\* A call closes only the descriptor of the event it is made on, and leaves
\* that event unwatched: never one of the application or of another event.
ClosesOnlyItsOwn ==
    \A f \in Fd :
        file[f] # NoFile /\ file'[f] = NoFile /\ outcome' # "env" =>
            \E e \in Event : /\ owner[f] = e /\ ev[e].fd = f
                             /\ ev'[e] # ev[e] /\ ~ev'[e].enabled
NoForeignClose == [][ClosesOnlyItsOwn]_vars

\* The kernel watches what the event says: same descriptor, same flags.
Armed ==
    \A e \in Event \ lost :
        ev[e].enabled =>
            Entry(ev[e].fd, file, ev[e].events) \in interest[ev[e].p]

\* Everything the kernel watches finds its event in the evset, with the flags
\* it was registered with: consume never meets a descriptor without owner.
NoForgotten ==
    \A p \in Poll : \A i \in interest[p] :
        /\ i.file = file[i.fd]
        /\ \E e \in Event : poll[p].evset[i.fd] = e /\ ev[e].events = i.events

\* The trigger mode chosen before as_read ... as_timer is the one registered,
\* and a call that fails leaves it as it was, for the next one.
ModeOf(flags) == flags \cap {"ET", "ONESHOT", "EXCLUSIVE"}
ModeSurvives ==
    \A e \in Event :
        ev[e].mt = "event" /\ (ev'[e].mt \in Kind \/ outcome' \in {"error", "throw"}) =>
            ModeOf(ev'[e].events) = ModeOf(ev[e].events)
ModeKept == [][ModeSurvives]_vars

\* The calls implement the table of watched pairs that the README describes:
\* whatever goes wrong inside them, an event is watched under one pair that
\* nobody else of the instance has, keeps it until it is reverted or collected,
\* moves to another instance with it, and #ep counts what is watched.
NoPair == <<"none", 0>>
PairOf(e) == IF ev[e].mt \in Kind THEN <<ev[e].filter, ev[e].ident>> ELSE NoPair

Table == INSTANCE WatchTable WITH
    pair <- [e \in Event |-> PairOf(e)],
    home <- [e \in Event |-> ev[e].p],
    on   <- [e \in Event |-> ev[e].enabled],
    size <- [p \in Poll |-> poll[p].nreg]
TableSpec == Table!Spec

\* An event that is not registered keeps no user data: the call that failed
\* to register it has not stored it, revert has released it.
UdataReleased == \A e \in Event : ev[e].mt = "event" => ev[e].udata = NoUdata

=============================================================================

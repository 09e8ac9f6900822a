---------------------------- MODULE TypingProofs ----------------------------
(***************************************************************************)
(* Proofs about PollEvent, for every instance and an application without   *)
(* any discipline: what an event keeps when it gets a type or fails to get *)
(* one.  as_trigger is left out: it overwrites the flags and stores the    *)
(* user data before it can fail.                                           *)
(***************************************************************************)
EXTENDS PollEventProofs

NoTrigger == "trigger" \notin Kinds

Failed == outcome' \in {"error", "throw"}

\* From record r to record g: user data that an event without a type has was
\* there before, and the mode chosen for it survives its typing and a call
\* that fails.
Settles(r, g) ==
    /\ g.mt = "event" => \/ g.udata = NoUdata
                         \/ r.mt = "event" /\ g.udata = r.udata
    /\ r.mt = "event" /\ (g.mt \in Kind \/ Failed) =>
           ModeOf(g.events) = ModeOf(r.events)

\* A step that changes event e at most, and that in such a way.
Settled(e) ==
    /\ \A d \in Event \ {e} : ev'[d] = ev[d]
    /\ Settles(ev[e], ev'[e])

-----------------------------------------------------------------------------
(* Every action settles *)

\* Nothing changes.
LEMMA SettlesSame == \A r : Settles(r, r)
BY DEF Settles, Kind, FdKind

\* The direction that as_read and as_write ask for is not a mode.
LEMMA AsksKeepsMode ==
    \A flags : ModeOf(Asks(flags, "IN")) = ModeOf(flags)
               /\ ModeOf(Asks(flags, "OUT")) = ModeOf(flags)
BY DEF ModeOf, Asks

\* as_read ... as_timer, which hand the record r to poll_watch_event.
LEMMA AsSettles ==
    ASSUME IInv, NEW e \in Event, ev[e].mt = "event", NEW kind \in Kind, NEW id, NEW d,
           NEW u, NEW dir \in {"IN", "OUT"}, NEW ff,
           NEW r, r = [ev[e] EXCEPT !.ident = id, !.filter = kind,
                                    !.events = Asks(@, dir), !.fd = d],
           PollWatch(e, r, poll, interest, ff, Keep([r EXCEPT !.mt = kind], u), r)
    PROVE  Settled(e)
<1>0. ev[e] \in EventRec /\ ev \in [Event -> EventRec]
  BY IInvFacts
<1>1. /\ r.mt = "event" /\ r.udata = ev[e].udata
      /\ r.events = Asks(ev[e].events, dir)
      /\ DOMAIN r = DOMAIN ev[e]
  BY <1>0 DEF EventRec
<1>2. PICK g : g = [Keep([r EXCEPT !.mt = kind], u) EXCEPT !.enabled = TRUE]  OBVIOUS
<1>3. g.mt = kind /\ g.events = r.events
  BY <1>0, <1>2 DEF Keep, EventRec
<1>4. ModeOf(g.events) = ModeOf(ev[e].events)
  BY <1>1, <1>3, AsksKeepsMode
<1>5. Settles(ev[e], g) /\ Settles(ev[e], r)
  BY <1>1, <1>3, <1>4 DEF Settles, Kind, FdKind
<1>6. ev' = [ev EXCEPT ![e] = g] \/ ev' = [ev EXCEPT ![e] = r]
  BY <1>2 DEF PollWatch
<1> QED
  BY <1>0, <1>5, <1>6 DEF Settled

\* The five functions but as_trigger.
LEMMA TypingSettles ==
    ASSUME NoTrigger, IInv, NEW e \in Event, NEW u \in Data, As(e, u)
    PROVE  Settled(e)
<1>1. ev[e].mt = "event"
  BY MethodFacts DEF As, AsRead, AsWrite, AsSignal, AsTimer, NoTrigger
<1>2. CASE UNCHANGED ev
  BY <1>2, SettlesSame DEF Settled
<1>3. ASSUME NEW kind \in FdKind, NEW other, NEW dir \in {"IN", "OUT"}, NEW f \in Fd,
             AsFd(e, kind, other, dir, f, u)
      PROVE  Settled(e)
  BY <1>1, <1>2, <1>3, AsSettles DEF AsFd, RefusedCall, Kind
<1>4. ASSUME NEW kind \in {"signal", "timer"}, NEW id, NEW type,
             AsOwnFd(e, kind, id, type, u)
      PROVE  Settled(e)
  BY <1>1, <1>2, <1>4, AsSettles DEF AsOwnFd, RefusedCall, Kind
<1> QED
  BY <1>3, <1>4 DEF As, AsRead, AsWrite, AsSignal, AsTimer, NoTrigger, FdKind

\* Every call on one event.
LEMMA CallSettles ==
    ASSUME NoTrigger, IInv, NEW e \in Event, Call(e) \/ Renew(e)
    PROVE  Settled(e)
<1>0. ev[e] \in EventRec /\ ev \in [Event -> EventRec] /\ ev[e].p \in Poll
  BY IInvFacts DEF EventRec
<1>1. CASE UNCHANGED ev
  BY <1>1, SettlesSame DEF Settled
<1>2. ASSUME NEW g, g.mt = ev[e].mt, g.udata = ev[e].udata, ev' = [ev EXCEPT ![e] = g],
             g.events = ev[e].events \/ outcome' = "ok"
      PROVE  Settled(e)
  BY <1>0, <1>2 DEF Settled, Settles, Failed, Kind, FdKind
<1>3. ASSUME NEW g, g.mt = "none" \/ (g.mt = "event" /\ g.udata = NoUdata),
             ev' = [ev EXCEPT ![e] = g], outcome' = "ok"
      PROVE  Settled(e)
  BY <1>0, <1>3 DEF Settled, Settles, Failed, Kind, FdKind
<1>4. ASSUME NEW r \in EventRec, r.mt = ev[e].mt, r.udata = ev[e].udata,
             r.events = ev[e].events, NEW polls, NEW intr, PollWatch(e, r, polls, intr, file, r, r)
      PROVE  Settled(e)
  <2>1. PICK g : g = [r EXCEPT !.enabled = TRUE]  OBVIOUS
  <2>2. g.mt = r.mt /\ g.udata = r.udata /\ g.events = r.events
    BY <2>1 DEF EventRec
  <2>3. ev' = [ev EXCEPT ![e] = g] \/ ev' = [ev EXCEPT ![e] = r]
    BY <1>4, <2>1 DEF PollWatch
  <2> QED
    BY <1>2, <1>4, <2>2, <2>3
<1>5. PICK h : h = Disabled(e)  OBVIOUS
<1>6. /\ h \in EventRec /\ h.mt = ev[e].mt /\ h.udata = ev[e].udata
      /\ h.events = ev[e].events
  BY <1>0, <1>5 DEF Disabled, EventRec
<1>7. CASE Watch(e)
  BY <1>0, <1>1, <1>4, <1>7 DEF Watch
<1>8. CASE Unwatch(e)
  BY <1>1, <1>2, <1>5, <1>6, <1>8 DEF Unwatch
<1>9. ASSUME NEW p \in Poll, RenewEvent(e, p) PROVE Settled(e)
  <2>1. PICK r : r = [h EXCEPT !.p = p]  OBVIOUS
  <2>2. /\ r \in EventRec /\ r.mt = ev[e].mt /\ r.udata = ev[e].udata
        /\ r.events = ev[e].events
    BY <1>6, <2>1 DEF EventRec
  <2>3. CASE ev' = [ev EXCEPT ![e].p = p]
    <3>1. PICK g : g = [ev[e] EXCEPT !.p = p]  OBVIOUS
    <3>2. g.mt = ev[e].mt /\ g.udata = ev[e].udata /\ g.events = ev[e].events
      BY <1>0, <3>1 DEF EventRec
    <3> QED
      BY <1>2, <2>3, <3>1, <3>2
  <2>4. CASE ev' = [ev EXCEPT ![e] = h]
    BY <1>2, <1>6, <2>4
  <2>5. CASE PollWatch(e, r, UnwatchedPoll(e), UnwatchedIntr(e), file, r, r)
    BY <1>4, <2>2, <2>5
  <2> QED
    BY <1>5, <1>9, <2>1, <2>3, <2>4, <2>5 DEF RenewEvent
<1>10. CASE Revert(e)
  <2>1. PICK g : g = Reverted(ev[e])  OBVIOUS
  <2>2. g.mt = "event" /\ g.udata = NoUdata
    BY <2>1 DEF Reverted, Fresh
  <2>3. ev' = [ev EXCEPT ![e] = h] \/ (ev' = [ev EXCEPT ![e] = g] /\ outcome' = "ok")
    BY <1>5, <1>10, <2>1 DEF Revert, Return
  <2> QED
    BY <1>2, <1>3, <1>6, <2>2, <2>3
<1>11. CASE Gc(e)
  <2>1. PICK g : g = Absent  OBVIOUS
  <2>2. g.mt = "none"
    BY <2>1 DEF Absent, Fresh
  <2>3. ev' = [ev EXCEPT ![e] = g] /\ outcome' = "ok"
    BY <1>11, <2>1 DEF Gc, Return
  <2> QED
    BY <1>3, <2>2, <2>3
<1>12. ASSUME NEW p \in Poll, NewEvent(e, p) PROVE Settled(e)
  <2>1. Fresh(p).mt = "event" /\ Fresh(p).udata = NoUdata
    BY DEF Fresh
  <2> QED
    BY <1>3, <1>12, <2>1 DEF NewEvent, Return
<1>13. ASSUME NEW m \in Modes, SetMode(e, m) PROVE Settled(e)
  <2>1. PICK g : g = [ev[e] EXCEPT !.events = ModeFlags(m, ev[e].events)]  OBVIOUS
  <2>2. g.mt = ev[e].mt /\ g.udata = ev[e].udata
    BY <1>0, <2>1 DEF EventRec
  <2>3. UNCHANGED ev \/ (ev' = [ev EXCEPT ![e] = g] /\ outcome' = "ok")
    BY <1>13, <2>1 DEF SetMode, RefusedCall, Return
  <2> QED
    BY <1>1, <1>2, <2>2, <2>3
<1>14. ASSUME NEW u \in Data, SetUdata(e, u) PROVE Settled(e)
  <2>1. ev[e].mt \in Kind
    BY <1>14, MethodFacts DEF SetUdata
  <2> QED
    BY <1>0, <1>14, <2>1 DEF SetUdata, Settled, Settles, EventRec, Kind, FdKind
<1> QED
  BY <1>7, <1>8, <1>9, <1>10, <1>11, <1>12, <1>13, <1>14, TypingSettles DEF Call, Renew

\* Every step.
LEMMA NextSettles ==
    ASSUME NoTrigger, IInv, [Next]_vars
    PROVE  UNCHANGED ev \/ \E e \in Event : Settled(e)
<1>1. ASSUME NEW p \in Poll, PollCall(p) \/ RenewPoll(p) PROVE UNCHANGED ev
  BY <1>1 DEF PollCall, NewPoll, GcPoll, RenewPoll, RefusedCall
<1>2. CASE User
  BY <1>2 DEF User, UserOpen, UserClose
<1>3. CASE UNCHANGED vars
  BY <1>3 DEF vars
<1> QED
  BY <1>1, <1>2, <1>3, CallSettles DEF Next

-----------------------------------------------------------------------------
(* The theorems *)

\* An event that is not registered keeps no user data, whichever call failed
\* to register it.
THEOREM UdataIsReleased == ASSUME NoTrigger PROVE Spec => []UdataReleased
<1>1. Init => UdataReleased
  <2> SUFFICES ASSUME Init, NEW e \in Event PROVE ev[e].mt # "event"
    BY DEF UdataReleased
  <2>1. PICK p \in Poll : TRUE
    BY KernelAssumption
  <2> QED
    BY <2>1, FreshFacts DEF Init
<1>2. IInv /\ UdataReleased /\ [Next]_vars => UdataReleased'
  <2> SUFFICES ASSUME IInv, UdataReleased, [Next]_vars PROVE UdataReleased'
    OBVIOUS
  <2>1. CASE UNCHANGED ev
    BY <2>1 DEF UdataReleased
  <2>2. ASSUME NEW e \in Event, Settled(e) PROVE UdataReleased'
    BY <2>2 DEF UdataReleased, Settled, Settles
  <2> QED
    BY <2>1, <2>2, NextSettles
<1> QED
  BY <1>1, <1>2, Invariance, PTL DEF Spec

\* The trigger mode chosen for an event is the one it is registered with, and
\* the one it still has after a call that failed to register it.
THEOREM ModeIsKept == ASSUME NoTrigger PROVE Spec => ModeKept
<1>1. ASSUME IInv, [Next]_vars PROVE [ModeSurvives]_vars
  <2>1. CASE UNCHANGED ev
    BY <2>1 DEF ModeSurvives, Kind, FdKind
  <2>2. ASSUME NEW e \in Event, Settled(e) PROVE ModeSurvives
    BY <2>2 DEF ModeSurvives, Settled, Settles, Failed, Kind, FdKind
  <2> QED
    BY <1>1, <2>1, <2>2, NextSettles
<1> QED
  BY <1>1, Invariance, PTL DEF Spec, ModeKept

=============================================================================

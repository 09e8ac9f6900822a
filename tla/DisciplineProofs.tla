-------------------------- MODULE DisciplineProofs --------------------------
(***************************************************************************)
(* Proofs about PollEvent, for every set of events, instances, descriptors *)
(* and files, and for an application that keeps to a part of a discipline. *)
(* While it does not watch an event again in a place that another one has  *)
(* taken, pairs are unique. While it neither closes a descriptor that an   *)
(* event names nor registers one that the library opened, and epoll_ctl    *)
(* has memory, events, descriptors and the kernel agree. With all of it,   *)
(* no call throws.                                                         *)
(***************************************************************************)
EXTENDS PollEventProofs

Discipline == ~CtlAddMayFail /\ ~ClosesUsed /\ ~Rewatches /\ ~Borrows

-----------------------------------------------------------------------------
(* Pairs: nobody is watched again in a place that another event has taken *)

PairIn(r) == <<r.filter, r.ident>>

Unique(evs) ==
    \A d, e \in Event :
        d # e /\ evs[d].enabled /\ evs[e].enabled /\ evs[d].p = evs[e].p
            => PairIn(evs[d]) # PairIn(evs[e])

\* The flag table has the pair of every watched event: GetFlag tells the truth.
Flagged(evs, polls) ==
    \A e \in Event : evs[e].enabled => PairIn(evs[e]) \in polls[evs[e].p].flag

\* The identifier of a trigger is its descriptor, which as_trigger does not
\* look up in the flag table.
SelfNamed(r) == r.mt = "trigger" => r.ident = r.fd

Paired(evs, polls) ==
    Unique(evs) /\ Flagged(evs, polls) /\ \A e \in Event : SelfNamed(evs[e])

PInv == IInv /\ Paired(ev, poll)

\* Nobody watched in instance p has the pair of r, but perhaps e.
Unpaired(evs, e, r) ==
    \A d \in Event \ {e} :
        evs[d].enabled /\ evs[d].p = r.p => PairIn(evs[d]) # PairIn(r)

\* poll_watch_event that succeeds.
LEMMA PairedAdd ==
    ASSUME NEW evs, NEW polls, Registry(evs, polls), Paired(evs, polls),
           NEW e \in Event, NEW r \in EventRec, r.filter \in Kind,
           polls[r.p].evset[r.fd] = NoEvent, Unpaired(evs, e, r),
           NEW g \in EventRec, g.p = r.p, g.filter = r.filter, g.ident = r.ident, SelfNamed(g)
    PROVE  Paired([evs EXCEPT ![e] = g], [polls EXCEPT ![r.p] = EvsetAdd(@, e, r)])
<1> DEFINE pl == EvsetAdd(polls[r.p], e, r)
           evs2 == [evs EXCEPT ![e] = g]
           polls2 == [polls EXCEPT ![r.p] = pl]
<1>0. /\ r.p \in Poll /\ r.fd \in Fd /\ polls[r.p] \in PollRec
      /\ evs \in [Event -> EventRec] /\ polls \in [Poll -> PollRec]
      /\ \A d \in Event : evs[d].p \in Poll
  BY DEF EventRec, Registry
<1>1. pl.flag = polls[r.p].flag \cup {PairIn(r)}
  <2>1. \A t \in PollRec : t.evset[r.fd] = NoEvent
          => EvsetAdd(t, e, r).flag = t.flag \cup {<<r.filter, r.ident>>}
    BY <1>0, OccupiedAdd
  <2> QED
    BY <1>0, <2>1 DEF PairIn
<1> HIDE DEF pl
<1>2. /\ evs2[e] = g /\ \A d \in Event \ {e} : evs2[d] = evs[d]
      /\ \A p \in Poll : polls2[p].flag = IF p = r.p THEN polls[p].flag \cup {PairIn(r)}
                                                     ELSE polls[p].flag
  BY <1>0, <1>1
<1> HIDE DEF evs2, polls2
<1>3. Unique(evs2)
  BY <1>2 DEF Unique, Unpaired, Paired, PairIn
<1>4. Flagged(evs2, polls2)
  <2> SUFFICES ASSUME NEW d \in Event, evs2[d].enabled
               PROVE  PairIn(evs2[d]) \in polls2[evs2[d].p].flag
    BY DEF Flagged
  <2>1. CASE d = e
    BY <1>0, <1>2, <2>1 DEF PairIn
  <2>2. CASE d # e
    <3>1. evs2[d] = evs[d] /\ evs[d].p \in Poll
      BY <1>0, <1>2, <2>2
    <3>2. PairIn(evs[d]) \in polls[evs[d].p].flag
      BY <3>1 DEF Paired, Flagged
    <3> QED
      BY <1>2, <3>1, <3>2
  <2> QED
    BY <2>1, <2>2
<1>5. \A d \in Event : SelfNamed(evs2[d])
  BY <1>2 DEF Paired
<1> QED
  BY <1>3, <1>4, <1>5 DEF Paired, evs2, polls2, pl

\* A call that changes an unwatched event and leaves it so, and clears no flag
\* of a watched one.
LEMMA PairedKeep ==
    ASSUME NEW evs \in [Event -> EventRec], NEW polls, Paired(evs, polls),
           NEW e \in Event, ~evs[e].enabled,
           NEW g \in EventRec, ~g.enabled, SelfNamed(g),
           NEW polls2, Flagged(evs, polls2)
    PROVE  Paired([evs EXCEPT ![e] = g], polls2)
<1> DEFINE evs2 == [evs EXCEPT ![e] = g]
<1>1. evs2[e] = g /\ \A d \in Event \ {e} : evs2[d] = evs[d]
  OBVIOUS
<1> HIDE DEF evs2
<1>2. Unique(evs2)
  BY <1>1 DEF Unique, Paired
<1>3. Flagged(evs2, polls2)
  BY <1>1 DEF Flagged
<1>4. \A d \in Event : SelfNamed(evs2[d])
  BY <1>1 DEF Paired
<1> QED
  BY <1>2, <1>3, <1>4 DEF Paired, evs2

\* poll_unwatch_event.  g is the event afterwards.
LEMMA PairedDel ==
    ASSUME PInv, NEW e \in Event, ev[e].enabled,
           NEW g \in EventRec, ~g.enabled, SelfNamed(g)
    PROVE  Paired([ev EXCEPT ![e] = g], UnwatchedPoll(e))
<1> DEFINE evs == [ev EXCEPT ![e] = g]
           polls == UnwatchedPoll(e)
           q == ev[e].p
<1>0. /\ Registry(ev, poll) /\ poll \in [Poll -> PollRec]
      /\ ev \in [Event -> EventRec] /\ ev[e] \in EventRec
      /\ \A d \in Event : ev[d].p \in Poll /\ ev[d].fd \in Fd
      /\ Paired(ev, poll)
  BY IInvFacts DEF PInv, EventRec
<1>1. evs[e] = g /\ \A d \in Event \ {e} : evs[d] = ev[d]
  BY <1>0
<1>2. \A p \in Poll : polls[p].flag = IF p = q THEN poll[p].flag \ {PairIn(ev[e])}
                                              ELSE poll[p].flag
  <2>1. \A t \in PollRec : t.evset[ev[e].fd] # NoEvent
          => EvsetDel(t, ev[e]).flag = t.flag \ {<<ev[e].filter, ev[e].ident>>}
    BY <1>0, OccupiedDel
  <2>2. poll[q] \in PollRec /\ poll[q].evset[ev[e].fd] # NoEvent
    BY <1>0, EventAssumption DEF Registry, Exact
  <2>3. EvsetDel(poll[q], ev[e]).flag = poll[q].flag \ {PairIn(ev[e])}
    BY <2>1, <2>2 DEF PairIn
  <2>4. polls = [poll EXCEPT ![q] = EvsetDel(poll[q], ev[e])]
    BY DEF UnwatchedPoll
  <2> HIDE DEF polls, q
  <2> QED
    BY <1>0, <2>3, <2>4
<1> HIDE DEF evs, polls
<1>3. Unique(evs)
  BY <1>0, <1>1 DEF Unique, Paired
<1>4. Flagged(evs, polls)
  <2> SUFFICES ASSUME NEW d \in Event, evs[d].enabled
               PROVE  PairIn(evs[d]) \in polls[evs[d].p].flag
    BY DEF Flagged
  <2>1. d # e /\ evs[d] = ev[d] /\ ev[d].p \in Poll
    BY <1>0, <1>1
  <2>2. PairIn(ev[d]) \in poll[ev[d].p].flag
    BY <1>0, <2>1 DEF Paired, Flagged
  <2>3. ev[d].p = q => PairIn(ev[d]) # PairIn(ev[e])
    BY <1>0, <2>1 DEF Paired, Unique
  <2> QED
    BY <1>2, <2>1, <2>2, <2>3
<1>5. \A d \in Event : SelfNamed(evs[d])
  BY <1>0, <1>1 DEF Paired
<1> QED
  BY <1>3, <1>4, <1>5 DEF Paired, evs, polls

\* A failed watch clears the flag of its pair and no other.
LEMMA BackFlags ==
    ASSUME NEW evs, NEW polls \in [Poll -> PollRec], Flagged(evs, polls),
           \A d \in Event : evs[d].enabled => evs[d].p \in Poll,
           NEW e \in Event, ~evs[e].enabled,
           NEW r \in EventRec, r.filter \in Kind, polls[r.p].evset[r.fd] = NoEvent,
           Unpaired(evs, e, r)
    PROVE  Flagged(evs, [polls EXCEPT ![r.p] = RolledBack(@, e, r)])
<1> DEFINE pl == RolledBack(polls[r.p], e, r)
           polls2 == [polls EXCEPT ![r.p] = pl]
<1>0. r.p \in Poll /\ polls[r.p] \in PollRec /\ r.fd \in Fd
  BY DEF EventRec
<1>1. pl.flag = polls[r.p].flag \ {PairIn(r)}
  <2> DEFINE t == polls[r.p]
             x == EvsetAdd(t, e, r)
  <2>1. t \in PollRec /\ t.evset[r.fd] = NoEvent
    BY <1>0
  <2> HIDE DEF t
  <2>2. /\ x \in PollRec /\ x.evset = [t.evset EXCEPT ![r.fd] = e]
        /\ x.flag = t.flag \cup {<<r.filter, r.ident>>}
    BY <2>1, OccupiedAdd
  <2>3. x.evset[r.fd] # NoEvent
    BY <1>0, <2>1, <2>2, EventAssumption DEF PollRec
  <2>4. RolledBack(t, e, r) = EvsetDel(x, r)
    BY DEF RolledBack
  <2> HIDE DEF x
  <2>5. EvsetDel(x, r).flag = x.flag \ {<<r.filter, r.ident>>}
    BY <2>2, <2>3, OccupiedDel
  <2>6. RolledBack(t, e, r).flag = t.flag \ {PairIn(r)}
    BY <2>2, <2>4, <2>5 DEF PairIn
  <2> QED
    BY <2>6 DEF t
<1> HIDE DEF pl
<1>2. \A p \in Poll : polls2[p].flag = IF p = r.p THEN polls[p].flag \ {PairIn(r)}
                                                 ELSE polls[p].flag
  BY <1>0, <1>1
<1> HIDE DEF polls2
<1>3. Flagged(evs, polls2)
  BY <1>2 DEF Flagged, Unpaired
<1> QED
  BY <1>3 DEF polls2, pl

\* The three ends of poll_watch_event.  evs and polls are the state but for
\* event e, as renew leaves it when it watches again.
LEMMA PollWatchPaired ==
    ASSUME NEW e \in Event, NEW evs, NEW polls, Registry(evs, polls), Paired(evs, polls),
           \A y : [evs EXCEPT ![e] = y] = [ev EXCEPT ![e] = y],
           ~evs[e].enabled,
           NEW r \in EventRec, ~r.enabled, r.filter \in Kind, SelfNamed(r),
           polls[r.p].evset[r.fd] = NoEvent => Unpaired(evs, e, r),
           NEW good \in EventRec, good.p = r.p, good.filter = r.filter,
           good.ident = r.ident, SelfNamed(good),
           NEW bad \in EventRec, ~bad.enabled, SelfNamed(bad),
           NEW intr, NEW ff, PollWatch(e, r, polls, intr, ff, good, bad)
    PROVE  Paired(ev', poll')
<1>0. /\ evs \in [Event -> EventRec] /\ polls \in [Poll -> PollRec]
      /\ \A d \in Event : evs[d].p \in Poll
  BY DEF Registry, EventRec
<1>1. CASE /\ ~Conflict(r, polls)
           /\ ev' = [ev EXCEPT ![e] = [good EXCEPT !.enabled = TRUE]]
           /\ poll' = [polls EXCEPT ![r.p] = EvsetAdd(@, e, r)]
  <2> DEFINE g == [good EXCEPT !.enabled = TRUE]
  <2>1. /\ g \in EventRec /\ g.p = r.p /\ g.filter = r.filter /\ g.ident = r.ident
        /\ SelfNamed(g)
    BY DEF EventRec, SelfNamed
  <2>2. ev' = [evs EXCEPT ![e] = g]
    BY <1>1
  <2> HIDE DEF g
  <2>3. polls[r.p].evset[r.fd] = NoEvent /\ Unpaired(evs, e, r)
    BY <1>1 DEF Conflict
  <2>4. Paired([evs EXCEPT ![e] = g], [polls EXCEPT ![r.p] = EvsetAdd(@, e, r)])
    BY <2>1, <2>3, PairedAdd
  <2> QED
    BY <1>1, <2>2, <2>4, Zenon
<1>2. CASE /\ ~Conflict(r, polls)
           /\ ev' = [ev EXCEPT ![e] = bad]
           /\ poll' = [polls EXCEPT ![r.p] = RolledBack(@, e, r)]
  <2>1. polls[r.p].evset[r.fd] = NoEvent /\ Unpaired(evs, e, r)
    BY <1>2 DEF Conflict
  <2>2. Flagged(evs, [polls EXCEPT ![r.p] = RolledBack(@, e, r)])
    BY <1>0, <2>1, BackFlags DEF Paired
  <2>3. Paired([evs EXCEPT ![e] = bad], [polls EXCEPT ![r.p] = RolledBack(@, e, r)])
    BY <1>0, <2>2, PairedKeep
  <2> QED
    BY <1>2, <2>3, Zenon
<1>3. CASE ev' = [ev EXCEPT ![e] = r] /\ poll' = polls
  <2>1. Paired([evs EXCEPT ![e] = r], polls)
    BY <1>0, PairedKeep DEF Paired
  <2> QED
    BY <1>3, <2>1, Zenon
<1> QED
  BY <1>1, <1>2, <1>3 DEF PollWatch

\* The record that as_read, as_write, as_signal and as_timer make of an event
\* without a type, and the event they leave.
Asked(e, kind, id, dir, d) ==
    [ev[e] EXCEPT !.ident = id, !.filter = kind, !.events = Asks(@, dir), !.fd = d]
Typed(e, kind, id, dir, d, u) == Keep([Asked(e, kind, id, dir, d) EXCEPT !.mt = kind], u)

LEMMA AskedFacts ==
    ASSUME IInv, NEW e \in Event, ev[e].mt = "event",
           NEW kind \in Kind, NEW id \in Ident, NEW d \in Fd, NEW u \in Data,
           NEW dir, dir = (IF kind = "write" THEN "OUT" ELSE "IN"),
           NEW r, r = Asked(e, kind, id, dir, d),
           NEW g, g = Typed(e, kind, id, dir, d, u)
    PROVE  /\ ~ev[e].enabled
           /\ r \in EventRec /\ ~r.enabled /\ r.mt = "event" /\ r.filter = kind
           /\ r.ident = id /\ r.fd = d /\ r.p = ev[e].p /\ Fine(r)
           /\ g \in EventRec /\ g.mt = kind /\ g.filter = kind /\ g.ident = id
           /\ g.fd = d /\ g.p = r.p /\ g.events = r.events
<1>1. ev[e] \in EventRec /\ Fine(ev[e])
  BY IInvFacts
<1>2. ev[e].mt \notin Kind
  BY DEF Kind, FdKind
<1>3. ~ev[e].enabled
  BY <1>1, <1>2 DEF Fine
<1>4. /\ r \in EventRec /\ ~r.enabled /\ r.mt = "event" /\ r.filter = kind
      /\ r.ident = id /\ r.fd = d /\ r.p = ev[e].p
  BY <1>1, <1>3 DEF EventRec, Asks, Flag, Asked
<1>5. Fine(r)
  BY <1>1, <1>2, <1>4 DEF Fine, Asks, EventRec, Asked
<1>6. /\ g \in EventRec /\ g.mt = kind /\ g.filter = kind /\ g.ident = id
      /\ g.fd = d /\ g.p = r.p /\ g.events = r.events
  <2> DEFINE h == [r EXCEPT !.mt = kind]
  <2>1. /\ h \in EventRec /\ h.p = r.p /\ h.fd = d /\ h.filter = kind
        /\ h.ident = id /\ h.mt = kind /\ h.events = r.events
    BY <1>4 DEF EventRec
  <2>2. g = h \/ g = [h EXCEPT !.udata = u]
    BY DEF Keep, Typed
  <2>3. u \in Udata \cup {NoUdata}
    BY DEF Data
  <2> HIDE DEF h
  <2> QED
    BY <2>1, <2>2, <2>3 DEF EventRec
<1> QED
  BY <1>3, <1>4, <1>5, <1>6

\* as_read ... as_timer look their pair up in the flag table.
LEMMA AskedPaired ==
    ASSUME PInv, NEW e \in Event, ev[e].mt = "event",
           NEW kind \in Kind \ {"trigger"}, NEW id \in Ident, ~GetFlag(e, kind, id),
           NEW d \in Fd, NEW u \in Data, NEW ff,
           NEW dir, dir = (IF kind = "write" THEN "OUT" ELSE "IN"),
           NEW r, r = Asked(e, kind, id, dir, d),
           NEW g, g = Typed(e, kind, id, dir, d, u),
           PollWatch(e, r, poll, interest, ff, g, r)
    PROVE  Paired(ev', poll')
<1>0. IInv /\ Registry(ev, poll) /\ Paired(ev, poll)
  BY IInvFacts DEF PInv
<1>1. /\ ~ev[e].enabled
      /\ r \in EventRec /\ ~r.enabled /\ r.mt = "event" /\ r.filter = kind
      /\ r.ident = id /\ r.p = ev[e].p
      /\ g \in EventRec /\ g.mt = kind /\ g.filter = kind /\ g.ident = id
      /\ g.p = r.p
  BY <1>0, AskedFacts
<1>2. Unpaired(ev, e, r)
  BY <1>0, <1>1 DEF Paired, Flagged, Unpaired, PairIn, GetFlag
<1>3. SelfNamed(r) /\ SelfNamed(g)
  BY <1>1 DEF SelfNamed
<1>4. \A y : [ev EXCEPT ![e] = y] = [ev EXCEPT ![e] = y]
  OBVIOUS
<1> QED
  BY <1>0, <1>1, <1>2, <1>3, <1>4, PollWatchPaired

\* A trigger takes a descriptor that nobody is watched with, and with it a pair
\* that nobody has.
LEMMA AsTriggerPaired ==
    ASSUME PInv, NEW e \in Event, NEW u \in Data, AsTrigger(e, u)
    PROVE  Paired(ev', poll')
<1>0. /\ Registry(ev, poll) /\ Paired(ev, poll) /\ ev \in [Event -> EventRec]
      /\ ev[e] \in EventRec
      /\ \A d \in Event : Fine(ev[d])
  BY IInvFacts DEF PInv
<1>1. ev[e].mt = "event" /\ ~ev[e].enabled
  BY <1>0, MethodFacts DEF AsTrigger, Fine, Kind, FdKind
<1>2. PICK k : k = Keep(ev[e], u)  OBVIOUS
<1>3. k \in EventRec /\ k.mt = "event" /\ k.p = ev[e].p /\ ~k.enabled
  BY <1>0, <1>1, <1>2 DEF EventRec, Keep, Data
<1>4. CASE ev' = [ev EXCEPT ![e] = k] /\ UNCHANGED poll
  <2>1. Paired([ev EXCEPT ![e] = k], poll)
    BY <1>0, <1>1, <1>3, PairedKeep DEF Paired, SelfNamed
  <2> QED
    BY <1>4, <2>1
<1>5. ASSUME NEW d \in Fd, NEW ff,
             NEW r, r = [k EXCEPT !.ident = d, !.filter = "trigger",
                                  !.events = {"IN"}, !.fd = d],
             NEW g, g = [r EXCEPT !.mt = "trigger"],
             NEW b, b = [r EXCEPT !.ident = 0, !.filter = "none",
                                  !.events = {}, !.fd = 0],
             PollWatch(e, r, poll, interest, ff, g, b)
      PROVE  Paired(ev', poll')
  <2>1. /\ r \in EventRec /\ r.filter = "trigger" /\ r.mt = "event" /\ r.fd = d
        /\ r.p = k.p /\ ~r.enabled /\ r.ident = d
    BY <1>3, <1>5 DEF EventRec, Ident, Kind, FdKind, Flag
  <2>2. /\ g \in EventRec /\ g.p = r.p /\ g.fd = d /\ g.filter = r.filter
        /\ g.ident = r.ident
    BY <1>5, <2>1 DEF EventRec, Kind, FdKind
  <2>3. b \in EventRec /\ b.mt = "event" /\ ~b.enabled
    BY <1>5, <2>1, FdFacts DEF EventRec, Ident
  <2>4. SelfNamed(r) /\ SelfNamed(g) /\ SelfNamed(b) /\ r.filter \in Kind
    BY <2>1, <2>2, <2>3 DEF SelfNamed, Kind
  <2>5. ASSUME poll[r.p].evset[d] = NoEvent PROVE Unpaired(ev, e, r)
    <3> SUFFICES ASSUME NEW c \in Event, ev[c].enabled, ev[c].p = r.p,
                        ev[c].filter = "trigger", ev[c].ident = d
                 PROVE  FALSE
      BY <2>1 DEF Unpaired, PairIn
    <3>1. ev[c].mt = "trigger"
      BY <1>0 DEF Fine
    <3>2. ev[c].fd = d
      BY <1>0, <3>1 DEF Paired, SelfNamed
    <3>3. r.p \in Poll
      BY <2>1 DEF EventRec
    <3>4. poll[r.p].evset[d] = c
      BY <1>0, <3>2, <3>3 DEF Registry, Exact
    <3> QED
      BY <2>5, <3>4, EventAssumption
  <2>6. \A y : [ev EXCEPT ![e] = y] = [ev EXCEPT ![e] = y]
    OBVIOUS
  <2>7. PollWatch(e, r, poll, interest, ff, g, b)
    BY <1>5
  <2> QED
    BY <1>0, <1>1, <2>1, <2>2, <2>3, <2>4, <2>5, <2>6, <2>7, PollWatchPaired
<1> QED
  BY <1>2, <1>4, <1>5 DEF AsTrigger, kernelVars

\* as_read ... as_trigger.
LEMMA AsPaired ==
    ASSUME PInv, NEW e \in Event, NEW u \in Data, As(e, u)
    PROVE  Paired(ev', poll')
<1>1. Paired(ev, poll)
  BY DEF PInv
<1>2. CASE UNCHANGED <<ev, poll>>
  BY <1>1, <1>2
<1>3. ev[e].mt = "event"
  BY MethodFacts DEF As, AsRead, AsWrite, AsSignal, AsTimer, AsTrigger
<1>4. ASSUME NEW kind \in FdKind, NEW other, NEW dir, NEW f \in Fd,
             dir = (IF kind = "write" THEN "OUT" ELSE "IN"),
             AsFd(e, kind, other, dir, f, u)
      PROVE  Paired(ev', poll')
  <2>1. kind \in Kind \ {"trigger"} /\ f \in Ident
    BY <1>4 DEF Kind, FdKind, Ident
  <2> QED
    BY <1>2, <1>3, <1>4, <2>1, AskedPaired DEF AsFd, RefusedCall, Asked, Typed
<1>5. ASSUME NEW kind \in {"signal", "timer"}, NEW id \in Ident, NEW type,
             AsOwnFd(e, kind, id, type, u)
      PROVE  Paired(ev', poll')
  <2>1. kind \in Kind \ {"trigger"} /\ kind # "write"
    BY DEF Kind
  <2> QED
    BY <1>2, <1>3, <1>5, <2>1, AskedPaired DEF AsOwnFd, RefusedCall, Asked, Typed
<1>6. CASE AsTrigger(e, u)
  BY <1>6, AsTriggerPaired
<1> QED
  BY <1>4, <1>5, <1>6 DEF As, AsRead, AsWrite, AsSignal, AsTimer, FdKind, Ident

\* ev:watch and ev:renew of an event whose place nobody has taken.
LEMMA RewatchPaired ==
    ASSUME ~Rewatches, PInv, NEW e \in Event, Watch(e) \/ Renew(e)
    PROVE  Paired(ev', poll')
<1>0. /\ IInv /\ Registry(ev, poll) /\ Paired(ev, poll) /\ ev \in [Event -> EventRec]
      /\ ev[e] \in EventRec /\ Fine(ev[e]) /\ SelfNamed(ev[e])
  BY IInvFacts DEF PInv, Paired
<1>1. CASE Watch(e)
  <2>1. Free(e, ev[e].p) /\ ev[e].filter \in Kind
    BY <1>0, <1>1, MethodFacts DEF Watch, Fine
  <2>2. Unpaired(ev, e, ev[e])
    BY <2>1 DEF Free, Unpaired, PairIn
  <2>3. CASE UNCHANGED <<ev, poll>>
    BY <1>0, <2>3
  <2>4. CASE ~ev[e].enabled /\ PollWatch(e, ev[e], poll, interest, file, ev[e], ev[e])
    <3>1. PICK r : r = ev[e]  OBVIOUS
    <3>2. /\ ~r.enabled /\ PollWatch(e, r, poll, interest, file, r, r)
          /\ Unpaired(ev, e, r) /\ r \in EventRec /\ r.filter \in Kind /\ SelfNamed(r)
      BY <1>0, <2>1, <2>2, <2>4, <3>1
    <3>3. \A y : [ev EXCEPT ![e] = y] = [ev EXCEPT ![e] = y]
      OBVIOUS
    <3> QED
      BY <1>0, <2>4, <3>2, <3>3, PollWatchPaired
  <2> QED
    BY <1>1, <2>3, <2>4 DEF Watch
<1>2. ASSUME NEW p \in Poll, RenewEvent(e, p) PROVE Paired(ev', poll')
  <2>1. PICK r : r = [Disabled(e) EXCEPT !.p = p]  OBVIOUS
  <2>2. /\ r \in EventRec /\ ~r.enabled /\ r.p = p /\ r.mt = ev[e].mt
        /\ r.fd = ev[e].fd /\ r.filter = ev[e].filter /\ r.ident = ev[e].ident
    BY <1>0, <2>1 DEF Disabled, EventRec
  <2>3. SelfNamed(r) /\ Free(e, p)
    BY <1>0, <1>2, <2>2 DEF SelfNamed, RenewEvent
  <2>4. CASE ~ev[e].enabled /\ ev' = [ev EXCEPT ![e].p = p] /\ UNCHANGED poll
    <3>1. ev' = [ev EXCEPT ![e] = r]
      BY <1>0, <2>1, <2>4 DEF Disabled, EventRec
    <3>2. Paired([ev EXCEPT ![e] = r], poll)
      BY <1>0, <2>2, <2>3, <2>4, PairedKeep DEF Paired
    <3> QED
      BY <2>4, <3>1, <3>2
  <2>5. CASE /\ ev[e].enabled
             /\ ev' = [ev EXCEPT ![e] = Disabled(e)] /\ poll' = UnwatchedPoll(e)
    <3>1. PICK g : g = Disabled(e)  OBVIOUS
    <3>2. g \in EventRec /\ ~g.enabled /\ SelfNamed(g)
      BY <1>0, <3>1 DEF Disabled, EventRec, SelfNamed
    <3>3. Paired([ev EXCEPT ![e] = g], UnwatchedPoll(e))
      BY <2>5, <3>2, PairedDel
    <3> QED
      BY <2>5, <3>1, <3>3
  <2>6. CASE /\ ev[e].enabled
             /\ PollWatch(e, r, UnwatchedPoll(e), UnwatchedIntr(e), file, r, r)
    <3>1. PICK evs : evs = [ev EXCEPT ![e] = r]  OBVIOUS
    <3>2. PICK polls : polls = UnwatchedPoll(e)  OBVIOUS
    <3>3. Paired(evs, polls)
      BY <2>2, <2>3, <2>6, <3>1, <3>2, PairedDel
    <3>4. Registry(evs, polls)
      BY <1>0, <2>2, <2>6, <3>1, <3>2, RegistryDel, Zenon DEF UnwatchedPoll
    <3>5. /\ evs[e] = r /\ \A d \in Event \ {e} : evs[d] = ev[d]
          /\ \A y : [evs EXCEPT ![e] = y] = [ev EXCEPT ![e] = y]
      BY <1>0, <3>1
    <3>6. Unpaired(evs, e, r)
      BY <2>2, <2>3, <3>5 DEF Free, Unpaired, PairIn
    <3>7. PollWatch(e, r, polls, UnwatchedIntr(e), file, r, r) /\ r.filter \in Kind
      BY <1>0, <2>2, <2>6, <3>2 DEF Fine
    <3>8. ~evs[e].enabled
      BY <2>2, <3>5
    <3> QED
      BY <2>2, <2>3, <3>3, <3>4, <3>5, <3>6, <3>7, <3>8, PollWatchPaired
  <2> QED
    BY <1>2, <2>1, <2>4, <2>5, <2>6 DEF RenewEvent
<1> QED
  BY <1>1, <1>2 DEF Renew

\* The other calls on one event.
LEMMA CallPaired ==
    ASSUME ~Rewatches, PInv, NEW e \in Event, Call(e) \/ Renew(e)
    PROVE  Paired(ev', poll')
<1>0. /\ IInv /\ Registry(ev, poll) /\ Paired(ev, poll) /\ ev \in [Event -> EventRec]
      /\ ev[e] \in EventRec /\ ev[e].p \in Poll /\ Fine(ev[e]) /\ SelfNamed(ev[e])
  BY IInvFacts DEF PInv, Paired, EventRec
<1>1. ASSUME NEW g \in EventRec, ~g.enabled, SelfNamed(g), ev' = [ev EXCEPT ![e] = g],
             IF ev[e].enabled THEN poll' = UnwatchedPoll(e) ELSE UNCHANGED poll
      PROVE  Paired(ev', poll')
  <2>1. CASE ev[e].enabled
    BY <1>1, <2>1, PairedDel
  <2>2. CASE ~ev[e].enabled
    <3>1. Paired([ev EXCEPT ![e] = g], poll)
      BY <1>0, <1>1, <2>2, PairedKeep DEF Paired
    <3> QED
      BY <1>1, <2>2, <3>1
  <2> QED
    BY <2>1, <2>2
<1>2. PICK h : h = Disabled(e)  OBVIOUS
<1>3. h \in EventRec /\ ~h.enabled /\ SelfNamed(h)
  BY <1>0, <1>2 DEF Disabled, EventRec, SelfNamed
<1>4. CASE Unwatch(e)
  BY <1>0, <1>1, <1>2, <1>3, <1>4 DEF Unwatch
<1>5. CASE Revert(e)
  <2>1. PICK g : g = Reverted(ev[e])  OBVIOUS
  <2>2. g \in EventRec /\ ~g.enabled /\ SelfNamed(g)
    <3>1. PICK x : x = Fresh(ev[e].p)  OBVIOUS
    <3>2. x \in EventRec /\ x.mt = "event" /\ ~x.enabled
      BY <1>0, <3>1, FreshFacts
    <3>3. g = [x EXCEPT !.ident = ev[e].ident]
      BY <2>1, <3>1 DEF Reverted
    <3> QED
      BY <1>0, <3>2, <3>3 DEF EventRec, SelfNamed
  <2> QED
    BY <1>1, <1>2, <1>3, <1>5, <2>1, <2>2 DEF Revert
<1>6. CASE Gc(e)
  <2>1. ~ev[e].enabled
    BY <1>0, <1>6 DEF Gc, Registry, Exact, EventRec
  <2>2. PICK g : g = Absent  OBVIOUS
  <2>3. g \in EventRec /\ ~g.enabled /\ SelfNamed(g)
    BY <1>0, <2>2, FreshFacts DEF SelfNamed
  <2> QED
    BY <1>1, <1>6, <2>1, <2>2, <2>3 DEF Gc
<1>7. ASSUME NEW p \in Poll, NewEvent(e, p) PROVE Paired(ev', poll')
  <2>1. ~ev[e].enabled
    BY <1>0, <1>7 DEF NewEvent, Fine, Kind, FdKind
  <2>2. PICK g : g = Fresh(p)  OBVIOUS
  <2>3. g \in EventRec /\ ~g.enabled /\ SelfNamed(g)
    BY <2>2, FreshFacts DEF SelfNamed
  <2> QED
    BY <1>1, <1>7, <2>1, <2>2, <2>3 DEF NewEvent
<1>8. ASSUME \A d \in Event : /\ ev'[d].enabled = ev[d].enabled /\ ev'[d].p = ev[d].p
                              /\ ev'[d].filter = ev[d].filter
                              /\ ev'[d].ident = ev[d].ident
                              /\ ev'[d].mt = ev[d].mt /\ ev'[d].fd = ev[d].fd,
             UNCHANGED poll
      PROVE  Paired(ev', poll')
  BY <1>0, <1>8 DEF Paired, Unique, Flagged, SelfNamed, PairIn
<1>9. ASSUME NEW m \in Modes, SetMode(e, m) PROVE Paired(ev', poll')
  BY <1>0, <1>8, <1>9 DEF SetMode, RefusedCall, EventRec
<1>10. ASSUME NEW u \in Data, SetUdata(e, u) PROVE Paired(ev', poll')
  BY <1>0, <1>8, <1>10 DEF SetUdata, EventRec
<1> QED
  BY <1>4, <1>5, <1>6, <1>7, <1>9, <1>10, AsPaired, RewatchPaired DEF Call

LEMMA InitPInv == Init => PInv
<1> SUFFICES ASSUME Init PROVE PInv
  OBVIOUS
<1>1. PICK q \in Poll : TRUE
  BY KernelAssumption
<1>2. PICK g : g = Absent  OBVIOUS
<1>3. ~g.enabled /\ g.mt = "none"
  BY <1>1, <1>2, FreshFacts
<1>4. \A e \in Event : ev[e] = g
  BY <1>2 DEF Init
<1> QED
  BY <1>3, <1>4, InitIInv DEF PInv, Paired, Unique, Flagged, SelfNamed

LEMMA NextPInv ==
    ASSUME ~Rewatches PROVE PInv /\ [Next]_vars => PInv'
<1> SUFFICES ASSUME PInv, [Next]_vars PROVE PInv'
  OBVIOUS
<1>1. IInv'
  BY NextIInv DEF PInv
<1>0. /\ Homed(ev, poll) /\ poll \in [Poll -> PollRec] /\ Paired(ev, poll)
      /\ \A e \in Event : ev[e] \in EventRec /\ Fine(ev[e])
  BY IInvFacts DEF PInv
<1>2. ASSUME NEW p \in Poll, PollCall(p) PROVE Paired(ev', poll')
  <2>1. \A e \in Event : ~(ev[e].enabled /\ ev[e].p = p)
    BY <1>0, <1>2 DEF PollCall, NewPoll, GcPoll, Homed, Fine, Kind, FdKind
  <2>2. UNCHANGED ev /\ (UNCHANGED poll \/ \E pl : poll' = [poll EXCEPT ![p] = pl])
    BY <1>2 DEF PollCall, NewPoll, GcPoll, RefusedCall
  <2>3. Flagged(ev, poll')
    BY <1>0, <2>1, <2>2 DEF Paired, Flagged, EventRec
  <2> QED
    BY <1>0, <2>2, <2>3 DEF Paired
<1>3. ASSUME NEW p \in Poll, RenewPoll(p) PROVE Paired(ev', poll')
  BY <1>0, <1>3 DEF RenewPoll, RefusedCall
<1>4. ASSUME UNCHANGED <<ev, poll>> PROVE Paired(ev', poll')
  BY <1>0, <1>4
<1>5. User => UNCHANGED <<ev, poll>>
  BY DEF User, UserOpen, UserClose
<1>6. UNCHANGED vars => UNCHANGED <<ev, poll>>
  BY DEF vars
<1>7. Paired(ev', poll')
  BY <1>2, <1>3, <1>4, <1>5, <1>6, CallPaired DEF Next
<1> QED
  BY <1>1, <1>7 DEF PInv

LEMMA PInvImplies == PInv => UniquePair /\ WatchedIsFlagged
BY DEF PInv, Paired, Unique, Flagged, PairIn, UniquePair, WatchedIsFlagged

-----------------------------------------------------------------------------
(* Descriptors and the kernel: no used descriptor is closed, and epoll_ctl  *)
(* has memory.  The parts of the invariant are of events evs, the           *)
(* descriptor table ff with its owners own, the interest lists intr and the *)
(* lost events lst: renew and revert need them in the middle of the step.   *)

\* What event e with the record r has of the descriptor table: a typed event
\* names open descriptors, and closes its own or none.
Holds(e, r, ff, own) ==
    /\ r.mt \in Kind =>
          /\ CanPoll(ff[r.fd])
          /\ own[r.fd] = IF ClosesFd(r) THEN e ELSE "user"
          /\ r.mt \in FdKind => /\ r.ident \in Fd
                                /\ own[r.ident] = "user" /\ ff[r.ident] = ff[r.fd]
          /\ r.mt = "trigger" => r.ident = r.fd
    /\ r.mt \notin Kind => ~ClosesFd(r)

Holding(evs, ff, own) == \A e \in Event : Holds(e, evs[e], ff, own)

Opening(ff, own) == \A f \in Fd : own[f] = "none" <=> ff[f] = NoFile

Owned(evs, own) ==
    \A f \in Fd, e \in Event : own[f] = e => evs[e].fd = f /\ ClosesFd(evs[e])

Watched(evs, ff, intr, lst) ==
    \A e \in Event \ lst :
        evs[e].enabled => Entry(evs[e].fd, ff, evs[e].events) \in intr[evs[e].p]

Known(evs, ff, intr) ==
    \A p \in Poll : \A i \in intr[p] :
        /\ i.file = ff[i.fd]
        /\ \E e \in Event : /\ evs[e].enabled /\ evs[e].p = p /\ evs[e].fd = i.fd
                            /\ evs[e].events = i.events

\* Whatever else the event that owns a descriptor has come to.
Orderly(evs, ff, own, intr, lst) ==
    /\ Holding(evs, ff, own) /\ Opening(ff, own)
    /\ Watched(evs, ff, intr, lst) /\ Known(evs, ff, intr)

Tidy(evs, ff, own, intr, lst) ==
    /\ Orderly(evs, ff, own, intr, lst)
    /\ Owned(evs, own)

KInv ==
    /\ IInv
    /\ Tidy(ev, file, owner, interest, lost)

Owners == [Fd -> Event \cup {"user", "none"}]

-----------------------------------------------------------------------------
(* Lemmas about descriptors *)

\* A file that epoll accepts is a file.
LEMMA CanPollFacts == \A x : CanPoll(x) => x \in File /\ x # NoFile
BY KernelAssumption DEF CanPoll, File

\* What the invariant says of the watched event of a table or of an entry.
LEMMA EnabledFacts ==
    ASSUME NEW evs \in [Event -> EventRec], NEW ff, NEW own, NEW intr, NEW lst,
           Tidy(evs, ff, own, intr, lst),
           \A d \in Event : Fine(evs[d]),
           NEW e \in Event, evs[e].enabled
    PROVE  /\ evs[e] \in EventRec /\ evs[e].p \in Poll /\ evs[e].fd \in Fd
           /\ evs[e].mt \in Kind /\ evs[e].filter = evs[e].mt
           /\ CanPoll(ff[evs[e].fd]) /\ ff[evs[e].fd] # NoFile
<1>1. evs[e] \in EventRec /\ Fine(evs[e])
  OBVIOUS
<1>2. evs[e].mt \in Kind /\ evs[e].filter = evs[e].mt
  BY <1>1 DEF Fine
<1>3. CanPoll(ff[evs[e].fd])
  BY <1>2 DEF Tidy, Orderly, Holding, Holds
<1> QED
  BY <1>1, <1>2, <1>3, CanPollFacts DEF EventRec

\* The descriptor table after one number has been opened, or none.
Extends(ff2, own2, ff, own, d, e) ==
    \/ ff2 = ff /\ own2 = own
    \/ /\ ff[d] = NoFile /\ ff2[d] # NoFile /\ own2[d] = e
       /\ \A f \in Fd \ {d} : ff2[f] = ff[f] /\ own2[f] = own[f]

\* Opening a descriptor takes nothing from the events that are there.
LEMMA ExtendsKeeps ==
    ASSUME NEW e, NEW d \in Fd,
           NEW ff, NEW own, NEW ff2, NEW own2, Extends(ff2, own2, ff, own, d, e),
           NEW x \in Event, NEW r \in EventRec, Holds(x, r, ff, own)
    PROVE  /\ Holds(x, r, ff2, own2)
           /\ r.mt \in Kind => ff2[r.fd] = ff[r.fd]
<1>1. r.fd \in Fd
  BY DEF EventRec
<1>2. CASE r.mt \in Kind
  <2>1. ff[r.fd] # NoFile
    BY <1>2, CanPollFacts DEF Holds
  <2>2. ff2[r.fd] = ff[r.fd] /\ own2[r.fd] = own[r.fd]
    BY <1>1, <2>1 DEF Extends
  <2>3. r.mt \in FdKind => ff2[r.ident] = ff[r.ident] /\ own2[r.ident] = own[r.ident]
    BY <1>2, <2>1 DEF Extends, Holds
  <2> QED
    BY <1>2, <2>2, <2>3 DEF Holds
<1>3. CASE r.mt \notin Kind
  BY <1>3 DEF Holds
<1> QED
  BY <1>2, <1>3

-----------------------------------------------------------------------------
(* Lemmas about what a call does to the invariant *)

\* poll_watch_event that succeeds, perhaps on a descriptor just opened.
LEMMA TidyAdd ==
    ASSUME NEW evs \in [Event -> EventRec], NEW ff \in Files, NEW own \in Owners,
           NEW intr \in Lists, NEW lst, Tidy(evs, ff, own, intr, lst),
           \A d \in Event : Fine(evs[d]),
           NEW e \in Event, ~evs[e].enabled,
           NEW r \in EventRec,
           NEW g \in EventRec, g.enabled, g.p = r.p, g.fd = r.fd, g.events = r.events,
           NEW ff2 \in Files, NEW own2 \in Owners, Extends(ff2, own2, ff, own, r.fd, e),
           Holds(e, g, ff2, own2),
           ClosesFd(evs[e]) => ClosesFd(g) /\ g.fd = evs[e].fd,
           own2[r.fd] = e => ClosesFd(g),
           NEW lst2, lst \ {e} \subseteq lst2
    PROVE  Tidy([evs EXCEPT ![e] = g], ff2, own2, CtlAdd(intr, r.p, r.fd, ff2, r.events), lst2)
<1> DEFINE evs2 == [evs EXCEPT ![e] = g]
           intr2 == CtlAdd(intr, r.p, r.fd, ff2, r.events)
<1>0. r.p \in Poll /\ r.fd \in Fd
  BY DEF EventRec
<1>2. /\ evs2[e] = g
      /\ \A d \in Event \ {e} : evs2[d] = evs[d]
      /\ \A d \in Event : evs2[d] \in EventRec
  BY <1>0
<1>3. \A d \in Event \ {e} : evs[d].enabled =>
          /\ evs[d].p \in Poll /\ evs[d].fd \in Fd /\ evs[d].mt \in Kind
          /\ ff[evs[d].fd] # NoFile
  BY EnabledFacts
<1>4. \A d \in Event \ {e} : /\ Holds(d, evs[d], ff2, own2)
                             /\ evs[d].mt \in Kind => ff2[evs[d].fd] = ff[evs[d].fd]
  <2>1. \A d \in Event : Holds(d, evs[d], ff, own) /\ evs[d] \in EventRec
    BY <1>0 DEF Tidy, Orderly, Holding
  <2> QED
    BY <1>0, <2>1, ExtendsKeeps
<1>5. intr2 = [intr EXCEPT ![r.p] = @ \cup {Entry(r.fd, ff2, r.events)}]
  BY DEF CtlAdd
<1> HIDE DEF evs2, intr2
<1>8. Holding(evs2, ff2, own2)
  BY <1>2, <1>4 DEF Holding
<1>9. Opening(ff2, own2)
  BY <1>0, EventAssumption, KernelAssumption DEF Opening, Extends, Tidy, Orderly
<1>10. Owned(evs2, own2)
  <2> SUFFICES ASSUME NEW f \in Fd, NEW d \in Event, own2[f] = d
               PROVE  evs2[d].fd = f /\ ClosesFd(evs2[d])
    BY DEF Owned
  <2>1. CASE own[f] = d
    BY <1>2, <2>1 DEF Tidy, Orderly, Owned
  <2>2. CASE own[f] # d
    BY <1>2, <2>2 DEF Extends
  <2> QED
    BY <2>1, <2>2
<1>11. Watched(evs2, ff2, intr2, lst2)
  <2> SUFFICES ASSUME NEW d \in Event \ lst2, evs2[d].enabled
               PROVE  Entry(evs2[d].fd, ff2, evs2[d].events) \in intr2[evs2[d].p]
    BY DEF Watched
  <2>1. CASE d = e
    BY <1>0, <1>2, <1>5, <2>1 DEF Lists
  <2>2. CASE d # e
    <3>1. evs2[d] = evs[d] /\ d \notin lst /\ evs[d].p \in Poll
      BY <1>2, <1>3, <2>2
    <3>2. Entry(evs[d].fd, ff, evs[d].events) \in intr[evs[d].p]
      BY <3>1 DEF Tidy, Orderly, Watched
    <3>3. ff2[evs[d].fd] = ff[evs[d].fd]
      BY <1>3, <1>4, <2>2, <3>1
    <3> QED
      BY <1>5, <3>1, <3>2, <3>3 DEF Entry, Lists
  <2> QED
    BY <2>1, <2>2
<1>12. Known(evs2, ff2, intr2)
  <2> SUFFICES ASSUME NEW p \in Poll, NEW i \in intr2[p]
               PROVE  /\ i.file = ff2[i.fd]
                      /\ \E d \in Event : /\ evs2[d].enabled /\ evs2[d].p = p
                                          /\ evs2[d].fd = i.fd
                                          /\ evs2[d].events = i.events
    BY DEF Known
  <2>1. CASE i \in intr[p]
    <3>1. PICK d \in Event : /\ evs[d].enabled /\ evs[d].p = p /\ evs[d].fd = i.fd
                             /\ evs[d].events = i.events
      BY <2>1 DEF Tidy, Orderly, Known
    <3>2. i.file = ff[i.fd]
      BY <2>1 DEF Tidy, Orderly, Known
    <3>3. d # e /\ evs2[d] = evs[d] /\ ff2[evs[d].fd] = ff[evs[d].fd]
      BY <1>2, <1>3, <1>4, <3>1
    <3> QED
      BY <3>1, <3>2, <3>3
  <2>2. CASE i \notin intr[p]
    <3>1. p = r.p /\ i = Entry(r.fd, ff2, r.events)
      BY <1>5, <2>2 DEF Lists
    <3> QED
      BY <1>2, <3>1 DEF Entry
  <2> QED
    BY <2>1, <2>2
<1> QED
  BY <1>8, <1>9, <1>10, <1>11, <1>12 DEF Tidy, Orderly, evs2, intr2

\* A call that changes an unwatched event and leaves it so.
LEMMA OrderlyKeep ==
    ASSUME NEW evs \in [Event -> EventRec], NEW ff, NEW own, NEW intr, NEW lst,
           Orderly(evs, ff, own, intr, lst),
           NEW e \in Event, ~evs[e].enabled,
           NEW g \in EventRec, ~g.enabled, Holds(e, g, ff, own),
           NEW lst2, lst \ {e} \subseteq lst2
    PROVE  Orderly([evs EXCEPT ![e] = g], ff, own, intr, lst2)
<1> DEFINE evs2 == [evs EXCEPT ![e] = g]
<1>1. evs2[e] = g /\ \A d \in Event \ {e} : evs2[d] = evs[d]
  OBVIOUS
<1> HIDE DEF evs2
<1>2. \A d \in Event : /\ evs2[d].enabled <=> evs[d].enabled
                       /\ evs[d].enabled => evs2[d] = evs[d] /\ d # e
  BY <1>1
<1>5. Holding(evs2, ff, own)
  BY <1>1 DEF Holding, Orderly
<1>6. Watched(evs2, ff, intr, lst2)
  BY <1>2 DEF Watched, Orderly
<1>7. Known(evs2, ff, intr)
  <2> SUFFICES ASSUME NEW p \in Poll, NEW i \in intr[p]
               PROVE  /\ i.file = ff[i.fd]
                      /\ \E d \in Event : /\ evs2[d].enabled /\ evs2[d].p = p
                                          /\ evs2[d].fd = i.fd
                                          /\ evs2[d].events = i.events
    BY DEF Known
  <2>1. PICK d \in Event : /\ evs[d].enabled /\ evs[d].p = p /\ evs[d].fd = i.fd
                           /\ evs[d].events = i.events
    BY DEF Orderly, Known
  <2> QED
    BY <1>2, <2>1 DEF Orderly, Known
<1> QED
  BY <1>5, <1>6, <1>7 DEF Orderly, evs2

\* The same when the event keeps the descriptor it owns.
LEMMA TidyKeep ==
    ASSUME NEW evs \in [Event -> EventRec], NEW ff, NEW own, NEW intr, NEW lst,
           Tidy(evs, ff, own, intr, lst),
           NEW e \in Event, ~evs[e].enabled,
           NEW g \in EventRec, ~g.enabled, Holds(e, g, ff, own),
           ClosesFd(evs[e]) => ClosesFd(g) /\ g.fd = evs[e].fd,
           NEW lst2, lst \ {e} \subseteq lst2
    PROVE  Tidy([evs EXCEPT ![e] = g], ff, own, intr, lst2)
<1>1. Orderly([evs EXCEPT ![e] = g], ff, own, intr, lst2)
  BY OrderlyKeep DEF Tidy
<1>2. Owned([evs EXCEPT ![e] = g], own)
  BY DEF Tidy, Owned
<1> QED
  BY <1>1, <1>2 DEF Tidy

\* close(2) of descriptors that no event of evs names any more.
LEMMA TidyShut ==
    ASSUME NEW evs \in [Event -> EventRec], NEW intr \in Lists, NEW lst,
           file \in Files, owner \in Owners,
           Orderly(evs, file, owner, intr, lst),
           NEW fds, \A d \in Event : evs[d].mt \in Kind =>
                        /\ evs[d].fd \notin fds
                        /\ evs[d].mt \in FdKind => evs[d].ident \notin fds,
           \A d \in Event : evs[d].enabled => evs[d].mt \in Kind,
           \A f \in Fd \ fds, d \in Event :
               owner[f] = d => evs[d].fd = f /\ ClosesFd(evs[d]),
           CloseFrom(intr, fds), NEW lst2, lst \subseteq lst2
    PROVE  Tidy(evs, file', owner', interest', lst2)
<1>1. /\ \A f \in Fd : /\ file'[f] = IF f \in fds THEN NoFile ELSE file[f]
                       /\ owner'[f] = IF f \in fds THEN "none" ELSE owner[f]
      /\ \A p \in Poll : interest'[p] = {i \in intr[p] : \E g \in Fd : file'[g] = i.file}
  BY DEF CloseFrom, Pruned
<1>2. \A d \in Event : evs[d].fd \in Fd /\ evs[d].p \in Poll
  BY DEF EventRec
<1>4. Holding(evs, file', owner')
  <2> SUFFICES ASSUME NEW d \in Event PROVE Holds(d, evs[d], file', owner')
    BY DEF Holding
  <2>1. Holds(d, evs[d], file, owner)
    BY DEF Orderly, Holding
  <2>2. evs[d].mt \in Kind => /\ file'[evs[d].fd] = file[evs[d].fd]
                              /\ owner'[evs[d].fd] = owner[evs[d].fd]
    BY <1>1, <1>2
  <2>3. evs[d].mt \in FdKind => /\ file'[evs[d].ident] = file[evs[d].ident]
                                /\ owner'[evs[d].ident] = owner[evs[d].ident]
    BY <1>1, <2>1 DEF Holds, Kind
  <2> QED
    BY <2>1, <2>2, <2>3 DEF Holds, Kind
<1>5. Opening(file', owner')
  BY <1>1 DEF Orderly, Opening
<1>6. Owned(evs, owner')
  BY <1>1, KernelAssumption DEF Owned
<1>7. Watched(evs, file', interest', lst2)
  <2> SUFFICES ASSUME NEW d \in Event \ lst2, evs[d].enabled
               PROVE  Entry(evs[d].fd, file', evs[d].events) \in interest'[evs[d].p]
    BY DEF Watched
  <2>1. Entry(evs[d].fd, file, evs[d].events) \in intr[evs[d].p]
    BY DEF Orderly, Watched
  <2>2. file'[evs[d].fd] = file[evs[d].fd]
    BY <1>1, <1>2
  <2> QED
    BY <1>1, <1>2, <2>1, <2>2 DEF Entry
<1>8. Known(evs, file', interest')
  <2> SUFFICES ASSUME NEW p \in Poll, NEW i \in interest'[p]
               PROVE  /\ i.file = file'[i.fd]
                      /\ \E d \in Event : /\ evs[d].enabled /\ evs[d].p = p
                                          /\ evs[d].fd = i.fd
                                          /\ evs[d].events = i.events
    BY DEF Known
  <2>1. i \in intr[p]
    BY <1>1
  <2>2. PICK d \in Event : /\ evs[d].enabled /\ evs[d].p = p /\ evs[d].fd = i.fd
                           /\ evs[d].events = i.events
    BY <2>1 DEF Orderly, Known
  <2>3. file'[i.fd] = file[i.fd] /\ i.file = file[i.fd]
    BY <1>1, <1>2, <2>1, <2>2 DEF Orderly, Known
  <2> QED
    BY <2>2, <2>3
<1> QED
  BY <1>4, <1>5, <1>6, <1>7, <1>8 DEF Tidy, Orderly

\* An event that has no type any more, or is collected: the descriptor that it
\* owns is closed.
LEMMA TidyClose ==
    ASSUME NEW evs \in [Event -> EventRec], NEW intr \in Lists, NEW lst,
           file \in Files, owner \in Owners,
           Tidy(evs, file, owner, intr, lst),
           \A d \in Event : evs[d].enabled => evs[d].mt \in Kind,
           NEW e \in Event, ~evs[e].enabled,
           NEW g \in EventRec, ~g.enabled, g.mt \notin Kind, ~ClosesFd(g),
           CloseFrom(intr, IF ClosesFd(evs[e]) THEN {evs[e].fd} ELSE {}),
           NEW lst2, lst \ {e} \subseteq lst2
    PROVE  Tidy([evs EXCEPT ![e] = g], file', owner', interest', lst2)
<1> DEFINE evs2 == [evs EXCEPT ![e] = g]
           fds == IF ClosesFd(evs[e]) THEN {evs[e].fd} ELSE {}
<1>1. /\ evs2[e] = g /\ \A d \in Event \ {e} : evs2[d] = evs[d]
      /\ evs2 \in [Event -> EventRec]
  OBVIOUS
<1>2. Orderly(evs2, file, owner, intr, lst2)
  <2>1. Holds(e, g, file, owner)
    BY DEF Holds
  <2> QED
    BY <2>1, OrderlyKeep DEF Tidy
<1>3. \A f \in fds : owner[f] = e
  BY DEF Tidy, Orderly, Holding, Holds
<1>4. \A d \in Event \ {e} : evs[d].mt \in Kind =>
          /\ evs[d].fd \notin fds
          /\ evs[d].mt \in FdKind => evs[d].ident \notin fds
  <2> HIDE DEF fds
  <2> QED
    BY <1>3, KernelAssumption DEF Tidy, Orderly, Holding, Holds
<1>5. \A f \in Fd \ fds, d \in Event :
          owner[f] = d => evs2[d].fd = f /\ ClosesFd(evs2[d])
  <2> SUFFICES ASSUME NEW f \in Fd \ fds, NEW d \in Event, owner[f] = d
               PROVE  evs2[d].fd = f /\ ClosesFd(evs2[d])
    OBVIOUS
  <2>1. evs[d].fd = f /\ ClosesFd(evs[d])
    BY DEF Tidy, Owned
  <2>2. d # e
    BY <2>1
  <2> QED
    BY <1>1, <2>1, <2>2
<1>6. CloseFrom(intr, fds)
  OBVIOUS
<1> HIDE DEF evs2, fds
<1>7. \A d \in Event : evs2[d].mt \in Kind =>
          /\ evs2[d].fd \notin fds
          /\ evs2[d].mt \in FdKind => evs2[d].ident \notin fds
  BY <1>1, <1>4
<1>8. \A d \in Event : evs2[d].enabled => evs2[d].mt \in Kind
  BY <1>1
<1>9. Tidy(evs2, file', owner', interest', lst2)
  BY <1>1, <1>2, <1>5, <1>6, <1>7, <1>8, TidyShut
<1> QED
  BY <1>9 DEF evs2

\* What the invariant says of the state.
LEMMA KInvFacts ==
    ASSUME KInv
    PROVE  /\ IInv /\ Registry(ev, poll) /\ Homed(ev, poll)
           /\ ev \in [Event -> EventRec] /\ poll \in [Poll -> PollRec]
           /\ file \in Files /\ owner \in Owners /\ interest \in Lists
           /\ \A e \in Event : /\ ev[e] \in EventRec /\ Fine(ev[e])
                               /\ ev[e].p \in Poll /\ ev[e].fd \in Fd
                               /\ Holds(e, ev[e], file, owner)
                               /\ ev[e].enabled => ev[e].mt \in Kind
                               /\ ev[e].mt \in Kind => ev[e].filter = ev[e].mt
           /\ Tidy(ev, file, owner, interest, lost)
           /\ Orderly(ev, file, owner, interest, lost)
<1>1. IInv /\ Tidy(ev, file, owner, interest, lost)
  BY DEF KInv
<1>2. /\ Registry(ev, poll) /\ Homed(ev, poll)
      /\ ev \in [Event -> EventRec] /\ poll \in [Poll -> PollRec]
      /\ file \in Files /\ owner \in Owners /\ interest \in Lists
      /\ \A e \in Event : ev[e] \in EventRec /\ Fine(ev[e])
  BY <1>1, IInvFacts DEF Owners
<1>3. Orderly(ev, file, owner, interest, lost)
  BY <1>1 DEF Tidy
<1>4. \A e \in Event : Holds(e, ev[e], file, owner)
  BY <1>3 DEF Orderly, Holding
<1>5. \A e \in Event : /\ ev[e].p \in Poll /\ ev[e].fd \in Fd
                       /\ ev[e].enabled => ev[e].mt \in Kind
                       /\ ev[e].mt \in Kind => ev[e].filter = ev[e].mt
  BY <1>2 DEF EventRec, Fine
<1> QED
  BY <1>1, <1>2, <1>3, <1>4, <1>5

\* poll_unwatch_event.  g is the event afterwards.
LEMMA TidyDel ==
    ASSUME KInv, NEW e \in Event, ev[e].enabled,
           NEW g \in EventRec, ~g.enabled, g.mt = ev[e].mt, g.fd = ev[e].fd,
           g.filter = ev[e].filter, g.ident = ev[e].ident,
           NEW lst, lost \ {e} \subseteq lst
    PROVE  Tidy([ev EXCEPT ![e] = g], file, owner, UnwatchedIntr(e), lst)
<1> DEFINE evs == [ev EXCEPT ![e] = g]
           intr == UnwatchedIntr(e)
           q == ev[e].p
<1>0. /\ Registry(ev, poll) /\ poll \in [Poll -> PollRec]
      /\ ev \in [Event -> EventRec] /\ interest \in Lists /\ ev[e] \in EventRec
      /\ \A d \in Event : ev[d].p \in Poll /\ ev[d].fd \in Fd
      /\ Holds(e, ev[e], file, owner)
      /\ Tidy(ev, file, owner, interest, lost)
      /\ Orderly(ev, file, owner, interest, lost)
  BY KInvFacts
<1>1. evs[e] = g /\ \A d \in Event \ {e} : evs[d] = ev[d]
  BY <1>0
<1>2. \A d \in Event : poll[ev[d].p].evset[ev[d].fd] = d <=> ev[d].enabled
  BY <1>0 DEF Registry, Exact
<1>4. /\ \A p \in Poll \ {q} : intr[p] = interest[p]
      /\ intr[q] = {i \in interest[q] : ~(i.fd = ev[e].fd /\ i.file = file[ev[e].fd])}
  BY <1>0 DEF UnwatchedIntr, CtlDel, Lists
<1> HIDE DEF evs, intr
<1>7. Holding(evs, file, owner)
  <2>1. Holds(e, g, file, owner)
    BY <1>0 DEF Holds, ClosesFd
  <2> QED
    BY <1>0, <1>1, <2>1 DEF Holding, Orderly
<1>8. Opening(file, owner)
  BY <1>0 DEF Orderly
<1>9. Owned(evs, owner)
  BY <1>0, <1>1 DEF Tidy, Owned, ClosesFd
<1>10. Watched(evs, file, intr, lst)
  <2> SUFFICES ASSUME NEW d \in Event \ lst, evs[d].enabled
               PROVE  Entry(evs[d].fd, file, evs[d].events) \in intr[evs[d].p]
    BY DEF Watched
  <2>1. d # e /\ evs[d] = ev[d] /\ d \notin lost /\ ev[d].p \in Poll
    BY <1>0, <1>1
  <2>2. Entry(ev[d].fd, file, ev[d].events) \in interest[ev[d].p]
    BY <1>0, <2>1 DEF Orderly, Watched
  <2>3. ev[d].p = q => ev[d].fd # ev[e].fd
    BY <1>2, <2>1
  <2> QED
    BY <1>4, <2>1, <2>2, <2>3 DEF Entry
<1>11. Known(evs, file, intr)
  <2> SUFFICES ASSUME NEW p \in Poll, NEW i \in intr[p]
               PROVE  /\ i.file = file[i.fd]
                      /\ \E d \in Event : /\ evs[d].enabled /\ evs[d].p = p
                                          /\ evs[d].fd = i.fd
                                          /\ evs[d].events = i.events
    BY DEF Known
  <2>1. i \in interest[p] /\ ~(p = q /\ i.fd = ev[e].fd /\ i.file = file[ev[e].fd])
    BY <1>4
  <2>2. i.file = file[i.fd]
    BY <1>0, <2>1 DEF Orderly, Known
  <2>3. PICK d \in Event : /\ ev[d].enabled /\ ev[d].p = p /\ ev[d].fd = i.fd
                           /\ ev[d].events = i.events
    BY <1>0, <2>1 DEF Orderly, Known
  <2>4. d # e
    BY <2>1, <2>2, <2>3
  <2> QED
    BY <1>1, <2>2, <2>3, <2>4
<1> QED
  BY <1>7, <1>8, <1>9, <1>10, <1>11 DEF Tidy, Orderly, evs, intr

\* The application opens a descriptor.
LEMMA TidyOpen ==
    ASSUME KInv, NEW f \in Fd, NEW ff \in Files, NEW own \in Owners,
           Extends(ff, own, file, owner, f, "user")
    PROVE  Tidy(ev, ff, own, interest, lost)
<1>0. /\ \A d \in Event : /\ ev[d] \in EventRec /\ ev[d].fd \in Fd
                          /\ Holds(d, ev[d], file, owner)
                          /\ ev[d].enabled => ev[d].mt \in Kind
      /\ Tidy(ev, file, owner, interest, lost)
      /\ Orderly(ev, file, owner, interest, lost)
  BY KInvFacts
<1>1. \A d \in Event : /\ Holds(d, ev[d], ff, own)
                       /\ ev[d].mt \in Kind => ff[ev[d].fd] = file[ev[d].fd]
  BY <1>0, ExtendsKeeps
<1>2. Holding(ev, ff, own)
  BY <1>1 DEF Holding
<1>3. Opening(ff, own)
  BY <1>0 DEF Opening, Orderly, Extends
<1>4. Owned(ev, own)
  BY <1>0, KernelAssumption DEF Owned, Tidy, Extends
<1>5. Watched(ev, ff, interest, lost)
  BY <1>0, <1>1 DEF Orderly, Watched, Entry
<1>6. Known(ev, ff, interest)
  <2> SUFFICES ASSUME NEW p \in Poll, NEW i \in interest[p]
               PROVE  /\ i.file = ff[i.fd]
                      /\ \E d \in Event : /\ ev[d].enabled /\ ev[d].p = p
                                          /\ ev[d].fd = i.fd
                                          /\ ev[d].events = i.events
    BY DEF Known
  <2>1. i.file = file[i.fd]
    BY <1>0 DEF Orderly, Known
  <2>2. PICK d \in Event : /\ ev[d].enabled /\ ev[d].p = p /\ ev[d].fd = i.fd
                           /\ ev[d].events = i.events
    BY <1>0 DEF Orderly, Known
  <2> QED
    BY <1>0, <1>1, <2>1, <2>2
<1> QED
  BY <1>0, <1>2, <1>3, <1>4, <1>5, <1>6 DEF Tidy, Orderly

\* An instance gets an empty interest list: it is new, or renewed and its
\* events are lost, or none of its events is watched.
LEMMA TidyEmpty ==
    ASSUME KInv, NEW p \in Poll, NEW lst, lost \subseteq lst,
           \A e \in Event : ev[e].enabled /\ ev[e].p = p => e \in lst
    PROVE  Tidy(ev, file, owner, [interest EXCEPT ![p] = {}], lst)
<1> DEFINE intr == [interest EXCEPT ![p] = {}]
<1>0. /\ \A d \in Event : ev[d].p \in Poll
      /\ interest \in Lists
      /\ Tidy(ev, file, owner, interest, lost)
      /\ Orderly(ev, file, owner, interest, lost)
  BY KInvFacts
<1>1. \A q \in Poll : intr[q] = IF q = p THEN {} ELSE interest[q]
  BY <1>0 DEF Lists
<1> HIDE DEF intr
<1>2. Watched(ev, file, intr, lst)
  BY <1>0, <1>1 DEF Orderly, Watched
<1>3. Known(ev, file, intr)
  BY <1>0, <1>1 DEF Orderly, Known
<1> QED
  BY <1>0, <1>2, <1>3 DEF Tidy, Orderly, intr

-----------------------------------------------------------------------------
(* poll_watch_event *)

\* The slot of a descriptor that is not open is free, in the table and in the
\* kernel.
LEMMA ClosedIsFree ==
    ASSUME KInv, NEW d \in Fd, file[d] = NoFile, NEW p \in Poll
    PROVE  /\ poll[p].evset[d] = NoEvent
           /\ \A i \in interest[p] : i.fd # d
<1>0. /\ Registry(ev, poll) /\ poll \in [Poll -> PollRec]
      /\ \A e \in Event : /\ Holds(e, ev[e], file, owner)
                          /\ ev[e].enabled => ev[e].mt \in Kind
                          /\ ev[e].mt \in Kind => ev[e].filter = ev[e].mt
      /\ Orderly(ev, file, owner, interest, lost)
  BY KInvFacts
<1>1. \A e \in Event : ev[e].enabled => file[ev[e].fd] # NoFile
  BY <1>0, CanPollFacts DEF Holds
<1>2. poll[p].evset[d] = NoEvent
  <2>1. poll[p].evset[d] \in Event \cup {NoEvent}
    BY <1>0 DEF PollRec
  <2> QED
    BY <1>0, <1>1, <2>1 DEF Registry, Exact
<1>3. \A i \in interest[p] : i.fd # d
  BY <1>0, <1>1 DEF Orderly, Known
<1> QED
  BY <1>2, <1>3

\* A descriptor that the call has just opened is always watched: its slot is
\* free and nothing but memory could make epoll_ctl refuse it.
LEMMA OpenWatch ==
    ASSUME ~CtlAddMayFail, KInv, NEW e \in Event, ~ev[e].enabled, ~ClosesFd(ev[e]),
           NEW d \in Fd, file[d] = NoFile,
           NEW r \in EventRec, r.fd = d, r.filter \in Kind, Fine(r),
           NEW good \in EventRec, good.p = r.p, good.fd = r.fd, good.filter = r.filter,
           good.ident = r.ident, good.events = r.events, good.mt = r.filter,
           NEW bad, NEW x, CanPoll(x), NEW ff, ff = [file EXCEPT ![d] = x],
           ClosesFd(good),
           good.mt \in FdKind => /\ good.ident \in Fd \ {d}
                                 /\ owner[good.ident] = "user" /\ file[good.ident] = x,
           good.mt = "trigger" => good.ident = d,
           PollWatch(e, r, poll, interest, ff, good, bad), Opened(e, d, ff),
           lost' = lost
    PROVE  Tidy(ev', file', owner', interest', lost')
<1>0. /\ ev \in [Event -> EventRec] /\ file \in Files
      /\ owner \in Owners /\ interest \in Lists /\ r.p \in Poll
      /\ \A c \in Event : Fine(ev[c])
      /\ Tidy(ev, file, owner, interest, lost)
  BY KInvFacts DEF EventRec
<1>1. x \in File /\ x # NoFile /\ ff[d] = x
  BY <1>0, CanPollFacts DEF Files
<1>2. poll[r.p].evset[r.fd] = NoEvent /\ \A i \in interest[r.p] : i.fd # r.fd
  BY <1>0, ClosedIsFree
<1>3. AddAccepted(interest, r.p, r.fd, ff, r.events)
  BY <1>1, <1>2 DEF AddAccepted, Registered, Fine
<1>4. /\ ev' = [ev EXCEPT ![e] = [good EXCEPT !.enabled = TRUE]]
      /\ interest' = CtlAdd(interest, r.p, r.fd, ff, r.events)
      /\ outcome' = "ok"
  BY <1>2, <1>3 DEF PollWatch, Conflict, Return
<1>5. file' = ff /\ owner' = [owner EXCEPT ![d] = e]
  BY <1>4 DEF Opened
<1> DEFINE g == [good EXCEPT !.enabled = TRUE]
<1>6. /\ g \in EventRec /\ g.enabled /\ g.p = r.p /\ g.fd = d
      /\ g.filter = r.filter /\ g.ident = r.ident /\ g.events = r.events
      /\ g.mt = r.filter /\ ClosesFd(g)
  BY DEF EventRec, ClosesFd
<1> HIDE DEF g
<1>7. ff \in Files /\ owner' \in Owners /\ Extends(ff, owner', file, owner, r.fd, e)
  BY <1>0, <1>1, <1>5 DEF Files, Owners, Extends
<1>8. Holds(e, g, ff, owner')
  BY <1>0, <1>1, <1>5, <1>6 DEF Holds, Files, Owners
<1>9. Tidy([ev EXCEPT ![e] = g], ff, owner', CtlAdd(interest, r.p, r.fd, ff, r.events), lost)
  BY <1>0, <1>6, <1>7, <1>8, TidyAdd
<1>10. ev' = [ev EXCEPT ![e] = g]
  BY <1>4 DEF g
<1> QED
  BY <1>4, <1>5, <1>9, <1>10, Zenon

\* Watching on a descriptor that is open already.  evs, intr and lst are the
\* state but for event e, as renew leaves it when it watches again.
LEMMA WatchTidy ==
    ASSUME file \in Files, owner \in Owners, NEW intr \in Lists, NEW lst,
           NEW evs \in [Event -> EventRec], NEW polls,
           Tidy(evs, file, owner, intr, lst),
           \A d \in Event : Fine(evs[d]),
           NEW e \in Event, ~evs[e].enabled,
           \A y : [evs EXCEPT ![e] = y] = [ev EXCEPT ![e] = y],
           NEW r \in EventRec, ~r.enabled,
           NEW good \in EventRec, good.p = r.p, good.fd = r.fd, good.filter = r.filter,
           good.ident = r.ident, good.events = r.events, good.mt = r.filter,
           ClosesFd(evs[e]) => ClosesFd(good) /\ good.fd = evs[e].fd,
           owner[r.fd] = e => ClosesFd(good),
           CanPoll(file[r.fd]) => Holds(e, good, file, owner), Holds(e, r, file, owner),
           PollWatch(e, r, polls, intr, file, good, r),
           UNCHANGED <<file, owner>>, lst \ {e} \subseteq lost'
    PROVE  Tidy(ev', file', owner', interest', lost')
<1>1. CASE /\ AddAccepted(intr, r.p, r.fd, file, r.events)
           /\ ev' = [ev EXCEPT ![e] = [good EXCEPT !.enabled = TRUE]]
           /\ interest' = CtlAdd(intr, r.p, r.fd, file, r.events)
  <2> DEFINE g == [good EXCEPT !.enabled = TRUE]
  <2>1. /\ g \in EventRec /\ g.enabled /\ g.p = r.p /\ g.fd = r.fd
        /\ g.filter = r.filter /\ g.ident = r.ident /\ g.events = r.events
        /\ g.mt = good.mt /\ (ClosesFd(g) <=> ClosesFd(good))
    BY DEF EventRec, ClosesFd
  <2>2. ev' = [evs EXCEPT ![e] = g]
    BY <1>1
  <2> HIDE DEF g
  <2>3. Holds(e, g, file, owner)
    BY <1>1, <2>1 DEF Holds, AddAccepted
  <2>4. Extends(file, owner, file, owner, r.fd, e)
    BY DEF Extends
  <2>5. Tidy([evs EXCEPT ![e] = g], file, owner,
             CtlAdd(intr, r.p, r.fd, file, r.events), lost')
    BY <2>1, <2>3, <2>4, TidyAdd
  <2> QED
    BY <1>1, <2>2, <2>5
<1>2. CASE ev' = [ev EXCEPT ![e] = r] /\ interest' = intr
  <2>1. ClosesFd(evs[e]) => ClosesFd(r) /\ r.fd = evs[e].fd
    BY DEF ClosesFd
  <2>2. Tidy([evs EXCEPT ![e] = r], file, owner, intr, lost')
    BY <2>1, TidyKeep
  <2> QED
    BY <1>2, <2>2
<1> QED
  BY <1>1, <1>2 DEF PollWatch

-----------------------------------------------------------------------------
(* Every action preserves the agreement *)

Kept == Tidy(ev, file, owner, interest, lost)

\* The record that as_read, as_write, as_signal and as_timer make of an event
\* without a type, and the event they leave.
LEMMA AsFacts ==
    ASSUME KInv, NEW e \in Event, ev[e].mt = "event",
           NEW kind \in Kind, NEW id \in Ident, NEW d \in Fd, NEW u \in Data,
           NEW dir, dir = (IF kind = "write" THEN "OUT" ELSE "IN"),
           NEW r, r = Asked(e, kind, id, dir, d),
           NEW g, g = Typed(e, kind, id, dir, d, u)
    PROVE  /\ ~ev[e].enabled /\ ~ClosesFd(ev[e])
           /\ r \in EventRec /\ ~r.enabled /\ r.mt = "event" /\ r.filter = kind
           /\ r.ident = id /\ r.fd = d /\ r.p = ev[e].p /\ Fine(r)
           /\ g \in EventRec /\ g.mt = kind /\ g.filter = kind /\ g.ident = id
           /\ g.fd = d /\ g.p = r.p /\ g.events = r.events
<1>1. IInv /\ ~ClosesFd(ev[e])
  BY KInvFacts DEF Holds, Kind, FdKind
<1> QED
  BY <1>1, AskedFacts

\* A call that ends in an error message changes nothing else.
LEMMA RefusedKept == KInv /\ RefusedCall => Kept'
BY DEF KInv, RefusedCall, Return, Kept, Tidy, Orderly

\* as_read and as_write.
LEMMA AsFdKept ==
    ASSUME ~CtlAddMayFail, ~Borrows, KInv, NEW e \in Event, ev[e].mt = "event",
           NEW kind \in FdKind, NEW other \in FdKind, other # kind,
           NEW dir, dir = (IF kind = "write" THEN "OUT" ELSE "IN"),
           NEW f \in Fd, NEW u \in Data, AsFd(e, kind, other, dir, f, u)
    PROVE  Kept'
<1>0. /\ Registry(ev, poll) /\ poll \in [Poll -> PollRec] /\ ev \in [Event -> EventRec]
      /\ file \in Files /\ owner \in Owners /\ interest \in Lists
      /\ \A c \in Event : /\ Fine(ev[c]) /\ Holds(c, ev[c], file, owner)
                          /\ ev[c].enabled => ev[c].mt \in Kind
                          /\ ev[c].mt \in Kind => ev[c].filter = ev[c].mt
      /\ ev[e].p \in Poll
      /\ Tidy(ev, file, owner, interest, lost)
      /\ Orderly(ev, file, owner, interest, lost)
  BY KInvFacts
<1>1. kind \in Kind /\ f \in Ident /\ owner[f] \in {"user", "none"}
  BY DEF Kind, Ident, AsFd
<1>2. file[f] # NoFile => owner[f] = "user"
  BY <1>0, <1>1 DEF Orderly, Opening
<1>3. CASE RefusedCall
  BY <1>3, RefusedKept
<1>4. ASSUME ~GetFlag(e, kind, f), ~GetFlag(e, other, f),
             NEW r, r = Asked(e, kind, f, dir, f),
             NEW g, g = Typed(e, kind, f, dir, f, u),
             PollWatch(e, r, poll, interest, file, g, r),
             UNCHANGED <<file, owner, lost>>
      PROVE  Kept'
  <2>1. /\ ~ev[e].enabled /\ ~ClosesFd(ev[e])
        /\ r \in EventRec /\ ~r.enabled /\ r.mt = "event" /\ r.filter = kind
        /\ r.ident = f /\ r.fd = f /\ r.p = ev[e].p /\ Fine(r)
        /\ g \in EventRec /\ g.mt = kind /\ g.filter = kind /\ g.ident = f
        /\ g.fd = f /\ g.p = r.p /\ g.events = r.events
    BY <1>1, <1>4, AsFacts
  <2>2. r.p \in Poll
    BY <2>1 DEF EventRec
  <2>5. Holds(e, r, file, owner) /\ ~ClosesFd(g)
    BY <2>1 DEF Holds, ClosesFd, Kind, FdKind
  <2>6. CanPoll(file[r.fd]) => Holds(e, g, file, owner)
    BY <1>2, <2>1, <2>5, CanPollFacts DEF Holds, FdKind
  <2>7. owner[r.fd] # e
    BY <1>1, <2>1, KernelAssumption
  <2>8. \A y : [ev EXCEPT ![e] = y] = [ev EXCEPT ![e] = y]
    OBVIOUS
  <2>9. lost \ {e} \subseteq lost'
    BY <1>4
  <2>10. Tidy(ev', file', owner', interest', lost')
    BY <1>0, <1>1, <1>4, <2>1, <2>2, <2>5, <2>6, <2>7, <2>8, <2>9, WatchTidy
  <2> QED
    BY <2>10 DEF Kept
<1>5. ASSUME ~GetFlag(e, kind, f), GetFlag(e, other, f), file[f] # NoFile,
             NEW d \in Fd, Lowest(d), NEW x, x = file[f],
             NEW ff, ff = [file EXCEPT ![d] = x],
             NEW r, r = Asked(e, kind, f, dir, d),
             NEW g, g = Typed(e, kind, f, dir, d, u),
             PollWatch(e, r, poll, interest, ff, g, r),
             Opened(e, d, ff), lost' = lost
      PROVE  Kept'
  <2>1. /\ ~ev[e].enabled /\ ~ClosesFd(ev[e])
        /\ r \in EventRec /\ ~r.enabled /\ r.mt = "event" /\ r.filter = kind
        /\ r.ident = f /\ r.fd = d /\ r.p = ev[e].p /\ Fine(r)
        /\ g \in EventRec /\ g.mt = kind /\ g.filter = kind /\ g.ident = f
        /\ g.fd = d /\ g.p = r.p /\ g.events = r.events
    BY <1>1, <1>5, AsFacts
  <2>2. r.p \in Poll
    BY <2>1 DEF EventRec
  <2>4. CanPoll(x)
    <3>1. PICK c \in Event : ev[c].enabled /\ <<ev[c].filter, ev[c].ident>> = <<other, f>>
      BY <1>0, <1>5 DEF GetFlag, Registry, Backed
    <3>2. ev[c].mt \in Kind /\ ev[c].mt = other /\ ev[c].ident = f
      BY <1>0, <3>1
    <3> QED
      BY <1>0, <1>5, <3>2 DEF Holds
  <2>5. file[d] = NoFile /\ f # d
    BY <1>5 DEF Lowest
  <2>6. ClosesFd(g)
    BY <2>1, <2>5 DEF ClosesFd
  <2>7. g.mt \in FdKind => /\ g.ident \in Fd \ {d}
                           /\ owner[g.ident] = "user" /\ file[g.ident] = x
    BY <1>2, <1>5, <2>1, <2>5
  <2>8. g.mt # "trigger"
    BY <2>1 DEF FdKind
  <2>9. Tidy(ev', file', owner', interest', lost')
    BY <1>1, <1>5, <2>1, <2>2, <2>4, <2>5, <2>6, <2>7, <2>8, OpenWatch
  <2> QED
    BY <2>9 DEF Kept
<1> QED
  BY <1>3, <1>4, <1>5 DEF AsFd, Asked, Typed

\* as_signal and as_timer.
LEMMA AsOwnFdKept ==
    ASSUME ~CtlAddMayFail, KInv, NEW e \in Event, ev[e].mt = "event",
           NEW kind \in {"signal", "timer"}, NEW id \in Ident,
           NEW type \in {"signalfd", "timerfd"}, NEW u \in Data,
           AsOwnFd(e, kind, id, type, u)
    PROVE  Kept'
<1>1. kind \in Kind /\ kind \notin FdKind /\ kind # "write" /\ kind # "trigger"
  BY DEF Kind, FdKind
<1>2. CASE RefusedCall
  BY <1>2, RefusedKept
<1>3. ASSUME ~GetFlag(e, kind, id),
             NEW d \in Fd, Lowest(d), NEW ff, ff = [file EXCEPT ![d] = <<type, d>>],
             NEW r, r = Asked(e, kind, id, "IN", d),
             NEW g, g = Typed(e, kind, id, "IN", d, u),
             PollWatch(e, r, poll, interest, ff, g, r),
             Opened(e, d, ff), lost' = lost
      PROVE  Kept'
  <2>1. /\ ~ev[e].enabled /\ ~ClosesFd(ev[e])
        /\ r \in EventRec /\ ~r.enabled /\ r.mt = "event" /\ r.filter = kind
        /\ r.ident = id /\ r.fd = d /\ r.p = ev[e].p /\ Fine(r)
        /\ g \in EventRec /\ g.mt = kind /\ g.filter = kind /\ g.ident = id
        /\ g.fd = d /\ g.p = r.p /\ g.events = r.events
    BY <1>1, <1>3, AsFacts
  <2>2. r.p \in Poll
    BY <2>1 DEF EventRec
  <2>4. CanPoll(<<type, d>>)
    BY DEF CanPoll, LibFile
  <2>5. ClosesFd(g)
    BY <1>1, <2>1 DEF ClosesFd
  <2>6. file[d] = NoFile
    BY <1>3 DEF Lowest
  <2>7. Tidy(ev', file', owner', interest', lost')
    BY <1>1, <1>3, <2>1, <2>2, <2>4, <2>5, <2>6, OpenWatch
  <2> QED
    BY <2>7 DEF Kept
<1> QED
  BY <1>2, <1>3 DEF AsOwnFd, Asked, Typed

\* as_trigger, whose identifier is the descriptor it opens.
LEMMA AsTriggerKept ==
    ASSUME ~CtlAddMayFail, KInv, NEW e \in Event, NEW u \in Data, AsTrigger(e, u)
    PROVE  Kept'
<1> DEFINE k == Keep(ev[e], u)
<1>0. /\ ev[e] \in EventRec /\ Fine(ev[e]) /\ Holds(e, ev[e], file, owner)
      /\ ev \in [Event -> EventRec]
      /\ Tidy(ev, file, owner, interest, lost)
      /\ Orderly(ev, file, owner, interest, lost)
  BY KInvFacts
<1>1. ev[e].mt = "event" /\ ev[e].mt \notin Kind
  BY MethodFacts DEF AsTrigger, Kind, FdKind
<1>2. ~ev[e].enabled /\ ~ClosesFd(ev[e])
  BY <1>0, <1>1 DEF Fine, Holds
<1>3. /\ k \in EventRec /\ ~k.enabled /\ k.mt = "event" /\ k.p = ev[e].p
      /\ ~ClosesFd(k)
  BY <1>0, <1>1, <1>2 DEF EventRec, Keep, Data, ClosesFd
<1> HIDE DEF k
<1>4. CASE /\ ev' = [ev EXCEPT ![e] = k]
           /\ Return("error")
           /\ UNCHANGED <<kernelVars, poll, lost>>
  <2>1. Holds(e, k, file, owner)
    BY <1>3 DEF Holds, Kind, FdKind
  <2>2. Tidy([ev EXCEPT ![e] = k], file, owner, interest, lost)
    BY <1>0, <1>2, <1>3, <2>1, TidyKeep DEF Orderly
  <2> QED
    BY <1>4, <2>2 DEF Kept, Return, kernelVars
<1>5. ASSUME NEW d \in Fd, Lowest(d), NEW ff, ff = [file EXCEPT ![d] = <<"eventfd", d>>],
             NEW r, r = [k EXCEPT !.ident = d, !.filter = "trigger",
                                  !.events = {"IN"}, !.fd = d],
             PollWatch(e, r, poll, interest, ff, [r EXCEPT !.mt = "trigger"],
                       [r EXCEPT !.ident = 0, !.filter = "none",
                                 !.events = {}, !.fd = 0]),
             Opened(e, d, ff), lost' = lost
      PROVE  Kept'
  <2>1. /\ r \in EventRec /\ r.filter = "trigger" /\ r.mt = "event" /\ r.fd = d
        /\ r.p = k.p /\ r.events = {"IN"} /\ ~r.enabled /\ r.ident = d
    BY <1>3, <1>5 DEF EventRec, Ident, Kind, FdKind, Flag
  <2> DEFINE g == [r EXCEPT !.mt = "trigger"]
  <2>2. /\ g \in EventRec /\ g.p = r.p /\ g.fd = r.fd /\ g.filter = r.filter
        /\ g.ident = d /\ g.events = r.events /\ g.mt = "trigger"
    BY <2>1 DEF EventRec, Kind, FdKind
  <2> DEFINE b == [r EXCEPT !.ident = 0, !.filter = "none", !.events = {}, !.fd = 0]
  <2>3. PollWatch(e, r, poll, interest, ff, g, b)
    BY <1>5
  <2> HIDE DEF g, b
  <2>4. r.filter \in Kind /\ Fine(r) /\ g.mt \notin FdKind /\ ClosesFd(g)
    BY <2>1, <2>2 DEF Fine, Kind, FdKind, ClosesFd
  <2>5. file[d] = NoFile /\ r.p \in Poll
    BY <1>5, <2>1 DEF Lowest, EventRec
  <2>7. CanPoll(<<"eventfd", d>>)
    BY DEF CanPoll, LibFile
  <2>8. Tidy(ev', file', owner', interest', lost')
    BY <1>2, <1>5, <2>1, <2>2, <2>3, <2>4, <2>5, <2>7, OpenWatch
  <2> QED
    BY <2>8 DEF Kept
<1> QED
  BY <1>4, <1>5 DEF AsTrigger, k

\* ev:watch
LEMMA WatchKept ==
    ASSUME KInv, NEW e \in Event, Watch(e)
    PROVE  Kept'
<1> DEFINE r == ev[e]
<1>0. /\ Registry(ev, poll) /\ poll \in [Poll -> PollRec] /\ ev \in [Event -> EventRec]
      /\ file \in Files /\ owner \in Owners /\ interest \in Lists
      /\ \A c \in Event : Fine(ev[c])
      /\ r \in EventRec /\ Holds(e, r, file, owner) /\ r.p \in Poll /\ r.fd \in Fd
      /\ r.mt \in Kind => r.filter = r.mt
      /\ Tidy(ev, file, owner, interest, lost)
  BY KInvFacts
<1>1. r.mt \in Kind /\ lost' = lost /\ UNCHANGED <<file, owner>>
  BY MethodFacts DEF Watch
<1>2. CASE ev[e].enabled /\ Return("false") /\ UNCHANGED <<interest, ev, poll>>
  BY <1>0, <1>1, <1>2 DEF Kept, Return
<1>3. CASE ~ev[e].enabled /\ PollWatch(e, ev[e], poll, interest, file, ev[e], ev[e])
  <2>3. owner[r.fd] = e => ClosesFd(r)
    BY <1>0, <1>1, KernelAssumption DEF Holds
  <2>4. \A y : [ev EXCEPT ![e] = y] = [ev EXCEPT ![e] = y]
    OBVIOUS
  <2>5. PollWatch(e, r, poll, interest, file, r, r)
    BY <1>3
  <2> HIDE DEF r
  <2>6. ClosesFd(ev[e]) => ClosesFd(r) /\ r.fd = ev[e].fd
    BY DEF r
  <2>7. Tidy(ev', file', owner', interest', lost')
    BY <1>0, <1>1, <1>3, <2>3, <2>4, <2>5, <2>6, WatchTidy DEF r
  <2> QED
    BY <2>7 DEF Kept
<1> QED
  BY <1>2, <1>3 DEF Watch

\* ev:unwatch
LEMMA UnwatchKept ==
    ASSUME KInv, NEW e \in Event, Unwatch(e)
    PROVE  Kept'
<1>0. /\ Tidy(ev, file, owner, interest, lost) /\ ev[e] \in EventRec
  BY KInvFacts
<1>1. UNCHANGED <<file, owner>>
  BY DEF Unwatch
<1>2. CASE UNCHANGED <<interest, ev, poll, lost>>
  BY <1>0, <1>1, <1>2 DEF Kept
<1>3. CASE /\ ev[e].enabled
           /\ ev' = [ev EXCEPT ![e] = Disabled(e)]
           /\ poll' = UnwatchedPoll(e)
           /\ interest' = UnwatchedIntr(e)
           /\ lost' = lost \ {e}
  <2>1. PICK g : g = Disabled(e)  OBVIOUS
  <2>2. /\ g \in EventRec /\ ~g.enabled /\ g.mt = ev[e].mt /\ g.fd = ev[e].fd
        /\ g.filter = ev[e].filter /\ g.ident = ev[e].ident
    BY <1>0, <2>1 DEF Disabled, EventRec
  <2>3. Tidy([ev EXCEPT ![e] = g], file, owner, UnwatchedIntr(e), lost')
    BY <1>3, <2>2, TidyDel
  <2> QED
    BY <1>1, <1>3, <2>1, <2>3 DEF Kept
<1> QED
  BY <1>2, <1>3 DEF Unwatch

\* ev:renew
LEMMA RenewEventKept ==
    ASSUME KInv, NEW e \in Event, NEW p \in Poll, RenewEvent(e, p)
    PROVE  Kept'
<1> DEFINE r == [Disabled(e) EXCEPT !.p = p]
<1>0. /\ Registry(ev, poll) /\ Homed(ev, poll) /\ IInv
      /\ ev \in [Event -> EventRec] /\ file \in Files /\ owner \in Owners
      /\ ev[e] \in EventRec /\ Fine(ev[e]) /\ Holds(e, ev[e], file, owner)
      /\ \A c \in Event : Fine(ev[c])
      /\ ev[e].fd \in Fd /\ (ev[e].enabled => ev[e].mt \in Kind)
      /\ Tidy(ev, file, owner, interest, lost)
  BY KInvFacts
<1>1. /\ r \in EventRec /\ ~r.enabled /\ r.p = p /\ r.mt = ev[e].mt /\ r.fd = ev[e].fd
      /\ r.filter = ev[e].filter /\ r.ident = ev[e].ident /\ Fine(r)
  BY <1>0 DEF Disabled, EventRec, Fine
<1>2. lost' = lost \ {e} /\ UNCHANGED <<file, owner>>
  BY DEF RenewEvent
<1>3. ev[e].enabled => ~DelRefused(ev[e].fd)
  BY <1>0 DEF DelRefused, Holds
<1>4. (ClosesFd(r) <=> ClosesFd(ev[e])) /\ Holds(e, r, file, owner)
  BY <1>0, <1>1 DEF ClosesFd, Holds
<1>5. CASE ~ev[e].enabled /\ ev' = [ev EXCEPT ![e].p = p] /\ Return("ok")
           /\ UNCHANGED <<interest, poll>>
  <2>1. ev' = [ev EXCEPT ![e] = r]
    BY <1>0, <1>5 DEF Disabled, EventRec
  <2> HIDE DEF r
  <2>2. Tidy([ev EXCEPT ![e] = r], file, owner, interest, lost')
    BY <1>0, <1>1, <1>2, <1>4, <1>5, TidyKeep DEF Tidy, Orderly
  <2> QED
    BY <1>2, <1>5, <2>1, <2>2 DEF Kept, Return
<1>6. CASE ev[e].enabled
           /\ PollWatch(e, r, UnwatchedPoll(e), UnwatchedIntr(e), file, r, r)
  <2> DEFINE evs == [ev EXCEPT ![e] = r]
             polls == UnwatchedPoll(e)
             intr == UnwatchedIntr(e)
             lst == lost \ {e}
  <2> HIDE DEF r
  <2>1. Tidy(evs, file, owner, intr, lst)
    BY <1>1, <1>6, TidyDel
  <2>3. /\ evs[e] = r /\ \A d \in Event \ {e} : evs[d] = ev[d]
        /\ \A y : [evs EXCEPT ![e] = y] = [ev EXCEPT ![e] = y]
        /\ evs \in [Event -> EventRec]
    BY <1>0, <1>1
  <2>4. intr \in Lists
    BY <1>0, KInvFacts, KernelTypes DEF UnwatchedIntr, EventRec
  <2>5. PollWatch(e, r, polls, intr, file, r, r)
    BY <1>6
  <2> HIDE DEF evs, polls, intr, lst
  <2>8. owner[r.fd] = e => ClosesFd(r)
    BY <1>0, <1>1, <1>4, <1>6, KernelAssumption DEF Holds
  <2>9. /\ r.filter \in Kind /\ r.mt = r.filter /\ ~evs[e].enabled
        /\ \A d \in Event : Fine(evs[d])
    BY <1>0, <1>1, <1>6, <2>3 DEF Fine
  <2>10. lst \ {e} \subseteq lost'
    BY <1>2 DEF lst
  <2>11. ClosesFd(evs[e]) => ClosesFd(r) /\ r.fd = evs[e].fd
    BY <2>3
  <2>12. /\ file \in Files /\ owner \in Owners /\ UNCHANGED <<file, owner>>
         /\ r \in EventRec /\ ~r.enabled /\ Holds(e, r, file, owner)
    BY <1>0, <1>1, <1>2, <1>4
  <2>13. Tidy(ev', file', owner', interest', lost')
    BY <2>1, <2>3, <2>4, <2>5, <2>8, <2>9, <2>10, <2>11, <2>12, WatchTidy
  <2> QED
    BY <2>13 DEF Kept
<1> QED
  BY <1>3, <1>5, <1>6 DEF RenewEvent

\* ev:revert
LEMMA RevertKept ==
    ASSUME KInv, NEW e \in Event, Revert(e)
    PROVE  Kept'
<1>0. /\ Registry(ev, poll) /\ IInv /\ interest \in Lists
      /\ ev \in [Event -> EventRec] /\ file \in Files /\ owner \in Owners
      /\ ev[e] \in EventRec /\ Fine(ev[e]) /\ Holds(e, ev[e], file, owner)
      /\ \A d \in Event : ev[d].enabled => ev[d].mt \in Kind
      /\ ev[e].fd \in Fd /\ ev[e].p \in Poll
      /\ Tidy(ev, file, owner, interest, lost)
  BY KInvFacts
<1>1. ~DelRefused(ev[e].fd)
  BY <1>0, MethodFacts DEF Revert, DelRefused, Holds
<1>2. PICK g : g = Reverted(ev[e])  OBVIOUS
<1>3. g \in EventRec /\ ~g.enabled /\ g.mt = "event" /\ g.filter = "none"
  <2>1. PICK x : x = Fresh(ev[e].p)  OBVIOUS
  <2>2. x = [mt |-> "event", p |-> ev[e].p, enabled |-> FALSE, ident |-> 0,
             filter |-> "none", events |-> {}, fd |-> 0, udata |-> NoUdata]
    BY <2>1 DEF Fresh
  <2>3. g = [x EXCEPT !.ident = ev[e].ident]
    BY <1>2, <2>1 DEF Reverted
  <2>4. x \in EventRec
    BY <1>0, <2>1, FreshFacts
  <2> QED
    BY <1>0, <2>2, <2>3, <2>4 DEF EventRec
<1>4. g.mt \notin Kind /\ ~ClosesFd(g)
  BY <1>3 DEF Kind, FdKind, ClosesFd
<1> DEFINE fds == IF ClosesFd(ev[e]) THEN {ev[e].fd} ELSE {}
<1>5. /\ poll' = (IF ev[e].enabled THEN UnwatchedPoll(e) ELSE poll)
      /\ lost' = lost \ {e} /\ ev' = [ev EXCEPT ![e] = g] /\ outcome' = "ok"
      /\ CloseFrom(IF ev[e].enabled THEN UnwatchedIntr(e) ELSE interest, fds)
  BY <1>1, <1>2 DEF Revert, Return
<1>6. CASE ~ev[e].enabled
  <2>1. Tidy([ev EXCEPT ![e] = g], file', owner', interest', lost')
    BY <1>0, <1>3, <1>4, <1>5, <1>6, TidyClose
  <2> QED
    BY <1>5, <1>6, <2>1 DEF Kept
<1>7. CASE ev[e].enabled
  <2>1. PICK h : h = Disabled(e)  OBVIOUS
  <2>2. /\ h \in EventRec /\ ~h.enabled /\ h.mt = ev[e].mt /\ h.fd = ev[e].fd
        /\ h.filter = ev[e].filter /\ h.ident = ev[e].ident
    BY <1>0, <2>1 DEF Disabled, EventRec
  <2> DEFINE evs == [ev EXCEPT ![e] = h]
             lst == lost \ {e}
             polls == UnwatchedPoll(e)
             intr == UnwatchedIntr(e)
  <2>3. Tidy(evs, file, owner, intr, lst)
    BY <1>7, <2>2, TidyDel
  <2>4. /\ evs \in [Event -> EventRec] /\ evs[e] = h
        /\ [evs EXCEPT ![e] = g] = [ev EXCEPT ![e] = g]
        /\ \A d \in Event : evs[d].enabled => evs[d].mt \in Kind
    BY <1>0, <2>2
  <2>5. intr \in Lists
    BY <1>0, KernelTypes DEF UnwatchedIntr
  <2>6. CloseFrom(intr, IF ClosesFd(evs[e]) THEN {evs[e].fd} ELSE {})
    <3>1. ClosesFd(evs[e]) <=> ClosesFd(ev[e])
      BY <2>2, <2>4 DEF ClosesFd
    <3>2. evs[e].fd = ev[e].fd
      BY <2>2, <2>4
    <3> QED
      BY <1>5, <1>7, <3>1, <3>2
  <2>7. lst \ {e} \subseteq lost'
    BY <1>5
  <2> HIDE DEF evs, lst, polls, intr
  <2>8. ~evs[e].enabled
    BY <2>2, <2>4
  <2>9. Tidy([evs EXCEPT ![e] = g], file', owner', interest', lost')
    BY <1>0, <1>3, <1>4, <2>3, <2>4, <2>5, <2>6, <2>7, <2>8, TidyClose
  <2> QED
    BY <1>5, <1>7, <2>4, <2>9 DEF Kept, polls
<1> QED
  BY <1>6, <1>7

\* The garbage collector takes an event that no evset holds.
LEMMA GcKept ==
    ASSUME KInv, NEW e \in Event, Gc(e)
    PROVE  Kept'
<1>0. /\ Registry(ev, poll) /\ interest \in Lists
      /\ ev \in [Event -> EventRec] /\ file \in Files /\ owner \in Owners
      /\ ev[e] \in EventRec /\ ev[e].fd \in Fd /\ ev[e].p \in Poll
      /\ \A d \in Event : ev[d].enabled => ev[d].mt \in Kind
      /\ Tidy(ev, file, owner, interest, lost)
  BY KInvFacts
<1>1. ~ev[e].enabled
  BY <1>0 DEF Gc, Registry, Exact
<1>2. PICK g : g = Absent  OBVIOUS
<1>3. g \in EventRec /\ ~g.enabled /\ g.mt \notin Kind /\ ~ClosesFd(g)
  <2>1. g \in EventRec /\ ~g.enabled /\ g.mt = "none"
    BY <1>0, <1>2, FreshFacts
  <2>2. g.filter = "none"
    BY <1>2 DEF Absent, Fresh
  <2> QED
    BY <2>1, <2>2 DEF Kind, FdKind, ClosesFd
<1>4. /\ ev' = [ev EXCEPT ![e] = g] /\ poll' = poll /\ lost' = lost /\ outcome' = "ok"
      /\ CloseFrom(interest, IF ClosesFd(ev[e]) THEN {ev[e].fd} ELSE {})
  BY <1>2 DEF Gc, Return
<1>5. Tidy([ev EXCEPT ![e] = g], file', owner', interest', lost')
  BY <1>0, <1>1, <1>3, <1>4, TidyClose
<1> QED
  BY <1>4, <1>5 DEF Kept

\* A call that changes an unwatched event, but not its descriptor.
LEMMA KeepKept ==
    ASSUME KInv, NEW e \in Event, ~ev[e].enabled, NEW g \in EventRec, ~g.enabled,
           Holds(e, g, file, owner),
           ClosesFd(ev[e]) => ClosesFd(g) /\ g.fd = ev[e].fd,
           ev' = [ev EXCEPT ![e] = g], Return("ok"), UNCHANGED <<kernelVars, poll, lost>>
    PROVE  Kept'
<1>1. ev \in [Event -> EventRec] /\ Tidy(ev, file, owner, interest, lost)
  BY KInvFacts
<1>2. Tidy([ev EXCEPT ![e] = g], file, owner, interest, lost)
  BY <1>1, TidyKeep DEF Tidy, Orderly
<1> QED
  BY <1>2 DEF Kept, Return, kernelVars

\* ep:new_event, on memory that nothing uses.
LEMMA NewEventKept ==
    ASSUME KInv, NEW e \in Event, NEW p \in Poll, NewEvent(e, p)
    PROVE  Kept'
<1>1. Fine(ev[e]) /\ Holds(e, ev[e], file, owner)
  BY KInvFacts
<1>2. ~ev[e].enabled /\ ~ClosesFd(ev[e])
  BY <1>1 DEF NewEvent, Fine, Holds, Kind, FdKind
<1>3. PICK g : g = Fresh(p)  OBVIOUS
<1>4. g \in EventRec /\ ~g.enabled /\ g.mt = "event" /\ g.filter = "none"
  BY <1>3, FreshFacts DEF Fresh
<1>5. Holds(e, g, file, owner)
  BY <1>4 DEF Holds, ClosesFd, Kind, FdKind
<1> QED
  BY <1>2, <1>3, <1>4, <1>5, KeepKept DEF NewEvent

\* ev:as_level, ev:as_edge and ev:as_oneshot are refused on a watched event.
LEMMA SetModeKept ==
    ASSUME KInv, NEW e \in Event, NEW m \in Mode, SetMode(e, m)
    PROVE  Kept'
<1>0. /\ ev[e] \in EventRec /\ Holds(e, ev[e], file, owner)
      /\ Tidy(ev, file, owner, interest, lost)
  BY KInvFacts
<1>1. CASE RefusedCall
  BY <1>1, RefusedKept
<1>2. CASE /\ ~ev[e].enabled
           /\ ev' = [ev EXCEPT ![e].events = ModeFlags(m, @)]
           /\ Return("ok")
           /\ UNCHANGED <<kernelVars, poll, lost>>
  <2>1. ModeFlags(m, ev[e].events) \subseteq Flag
    BY <1>0 DEF ModeFlags, Mode, Flag, EventRec
  <2>2. PICK g : g = [ev[e] EXCEPT !.events = ModeFlags(m, ev[e].events)]  OBVIOUS
  <2>3. /\ g \in EventRec /\ ~g.enabled /\ g.fd = ev[e].fd /\ g.mt = ev[e].mt
        /\ g.filter = ev[e].filter /\ g.ident = ev[e].ident
    BY <1>0, <1>2, <2>1, <2>2 DEF EventRec
  <2>4. (ClosesFd(g) <=> ClosesFd(ev[e])) /\ Holds(e, g, file, owner)
    BY <1>0, <2>3 DEF Holds, ClosesFd
  <2>5. ev' = [ev EXCEPT ![e] = g]
    BY <1>2, <2>2
  <2> QED
    BY <1>2, <2>3, <2>4, <2>5, KeepKept
<1> QED
  BY <1>1, <1>2 DEF SetMode

\* ev:udata, on a watched event or not.
LEMMA SetUdataKept ==
    ASSUME KInv, NEW e \in Event, NEW u \in Data, SetUdata(e, u)
    PROVE  Kept'
<1>0. /\ ev[e] \in EventRec /\ ev \in [Event -> EventRec]
      /\ Tidy(ev, file, owner, interest, lost)
      /\ Orderly(ev, file, owner, interest, lost)
  BY KInvFacts
<1>1. \A d \in Event : /\ ev'[d].enabled = ev[d].enabled /\ ev'[d].p = ev[d].p
                       /\ ev'[d].fd = ev[d].fd /\ ev'[d].filter = ev[d].filter
                       /\ ev'[d].ident = ev[d].ident /\ ev'[d].mt = ev[d].mt
                       /\ ev'[d].events = ev[d].events
  BY <1>0 DEF SetUdata, EventRec
<1>2. UNCHANGED <<kernelVars, poll, lost>> /\ outcome' = "ok"
  BY DEF SetUdata, Return
<1>4. Holding(ev', file, owner) /\ Owned(ev', owner)
  BY <1>0, <1>1 DEF Tidy, Orderly, Holding, Holds, Owned, ClosesFd
<1>5. Watched(ev', file, interest, lost)
  BY <1>0, <1>1 DEF Orderly, Watched
<1>6. Known(ev', file, interest)
  <2> SUFFICES ASSUME NEW p \in Poll, NEW i \in interest[p]
               PROVE  /\ i.file = file[i.fd]
                      /\ \E d \in Event : /\ ev'[d].enabled /\ ev'[d].p = p
                                          /\ ev'[d].fd = i.fd
                                          /\ ev'[d].events = i.events
    BY DEF Known
  <2>1. PICK d \in Event : /\ ev[d].enabled /\ ev[d].p = p /\ ev[d].fd = i.fd
                           /\ ev[d].events = i.events
    BY <1>0 DEF Orderly, Known
  <2> QED
    BY <1>0, <1>1, <2>1 DEF Orderly, Known
<1> QED
  BY <1>0, <1>2, <1>4, <1>5, <1>6 DEF Kept, Tidy, Orderly, kernelVars

\* epoll.new, ep:renew and the collection of an instance.
LEMMA PollKept ==
    ASSUME KInv, NEW p \in Poll, PollCall(p) \/ RenewPoll(p)
    PROVE  Kept'
<1>0. /\ Homed(ev, poll) /\ poll \in [Poll -> PollRec]
      /\ \A d \in Event : ev[d].enabled => ev[d].mt \in Kind
  BY KInvFacts
<1>1. \A d \in Event : ev[d].enabled => ev[d].mt # "none"
  BY <1>0 DEF Kind, FdKind
<1>2. CASE PollCall(p)
  <2>1. \A d \in Event : ~(ev[d].enabled /\ ev[d].p = p)
    BY <1>0, <1>1, <1>2 DEF PollCall, NewPoll, GcPoll, Homed
  <2>2. Tidy(ev, file, owner, [interest EXCEPT ![p] = {}], lost)
    BY <2>1, TidyEmpty
  <2> QED
    BY <1>2, <2>2, RefusedKept DEF Kept, PollCall, NewPoll, GcPoll, Return
<1>3. CASE RenewPoll(p)
  <2>1. CASE RefusedCall
    BY <2>1, RefusedKept
  <2>2. CASE /\ interest' = [interest EXCEPT ![p] = {}]
             /\ lost' = lost \cup {e \in Event : ev[e].enabled /\ ev[e].p = p}
             /\ Return("ok")
             /\ UNCHANGED <<file, owner, ev, poll>>
    <3>1. Tidy(ev, file, owner, [interest EXCEPT ![p] = {}], lost')
      BY <1>0, <2>2, TidyEmpty
    <3> QED
      BY <2>2, <3>1 DEF Kept, Return
  <2> QED
    BY <1>3, <2>1, <2>2 DEF RenewPoll
<1> QED
  BY <1>2, <1>3

\* The application opens descriptors, and closes those that no event names.
LEMMA UserKept ==
    ASSUME ~ClosesUsed, KInv, User
    PROVE  Kept'
<1>0. /\ ev \in [Event -> EventRec] /\ file \in Files /\ owner \in Owners
      /\ interest \in Lists
      /\ \A d \in Event : /\ Holds(d, ev[d], file, owner)
                          /\ ev[d].enabled => ev[d].mt \in Kind
                          /\ ev[d].mt \in Kind => ev[d].filter = ev[d].mt
      /\ Tidy(ev, file, owner, interest, lost)
      /\ Orderly(ev, file, owner, interest, lost)
  BY KInvFacts
<1>1. ASSUME NEW f \in Fd, NEW x \in UserFile, UserOpen(x, f)
      PROVE  Kept'
  <2>1. /\ file[f] = NoFile /\ file' = [file EXCEPT ![f] = x]
        /\ owner' = [owner EXCEPT ![f] = "user"]
        /\ UNCHANGED <<interest, ev, poll, lost>> /\ outcome' = "env"
    BY <1>1 DEF UserOpen, Lowest, Return
  <2>2. x \in File /\ x # NoFile
    BY KernelAssumption DEF File
  <2>3. file' \in Files /\ owner' \in Owners /\ Extends(file', owner', file, owner, f, "user")
    BY <1>0, <2>1, <2>2 DEF Files, Owners, Extends
  <2>4. Tidy(ev, file', owner', interest, lost)
    BY <2>3, TidyOpen
  <2> QED
    BY <2>1, <2>4 DEF Kept
<1>2. ASSUME NEW f \in Fd, UserClose(f)
      PROVE  Kept'
  <2>1. /\ owner[f] = "user" /\ Using(f) = {} /\ CloseFrom(interest, {f})
        /\ lost \subseteq lost' /\ UNCHANGED <<ev, poll>> /\ outcome' = "env"
    BY <1>2 DEF UserClose, Return
  <2>2. ASSUME NEW d \in Event, ev[d].mt \in Kind
        PROVE  /\ ev[d].fd \notin {f}
               /\ ev[d].mt \in FdKind => ev[d].ident \notin {f}
    <3>1. ev[d].mt \in FdKind => ev[d].fd # f /\ ev[d].ident # f
      BY <2>1 DEF Using
    <3>2. ev[d].mt \notin FdKind => ClosesFd(ev[d])
      BY <1>0, <2>2 DEF ClosesFd
    <3>3. ClosesFd(ev[d]) => ev[d].fd # f
      BY <1>0, <2>1, <2>2, KernelAssumption DEF Holds
    <3> QED
      BY <3>1, <3>2, <3>3
  <2>3. \A g \in Fd \ {f}, d \in Event : owner[g] = d => ev[d].fd = g /\ ClosesFd(ev[d])
    BY <1>0 DEF Tidy, Owned
  <2>4. Tidy(ev, file', owner', interest', lost')
    BY <1>0, <2>1, <2>2, <2>3, TidyShut
  <2> QED
    BY <2>1, <2>4 DEF Kept
<1> QED
  BY <1>1, <1>2 DEF User

-----------------------------------------------------------------------------
(* The agreement with the kernel is inductive *)

\* Initially no descriptor is open and no event exists.
LEMMA InitKInv == Init => KInv
<1> SUFFICES ASSUME Init PROVE KInv
  OBVIOUS
<1>1. PICK q \in Poll : TRUE
  BY KernelAssumption
<1>2. PICK g : g = Absent  OBVIOUS
<1>3. ~g.enabled /\ g.mt = "none" /\ g.filter = "none"
  BY <1>1, <1>2, FreshFacts DEF Absent, Fresh
<1>4. /\ \A e \in Event : ev[e] = g
      /\ \A f \in Fd : file[f] = NoFile /\ owner[f] = "none"
      /\ \A p \in Poll : interest[p] = {}
  BY <1>2 DEF Init, KernelInit
<1>5. ~ClosesFd(g) /\ g.mt \notin Kind
  BY <1>3 DEF ClosesFd, Kind, FdKind
<1>7. Holding(ev, file, owner)
  BY <1>4, <1>5 DEF Holding, Holds
<1>8. Opening(file, owner) /\ Owned(ev, owner)
  BY <1>4, KernelAssumption DEF Opening, Owned
<1>9. Watched(ev, file, interest, lost) /\ Known(ev, file, interest)
  BY <1>3, <1>4 DEF Watched, Known
<1> QED
  BY <1>7, <1>8, <1>9, InitIInv DEF KInv, Tidy, Orderly

\* Each call keeps the agreement.
LEMMA NextKept ==
    ASSUME ~CtlAddMayFail, ~ClosesUsed, ~Borrows, KInv, [Next]_vars
    PROVE  Kept'
<1>1. ASSUME NEW e \in Event, NEW u \in Data, As(e, u) PROVE Kept'
  <2>1. ASSUME NEW f \in Fd, AsRead(e, f, u) PROVE Kept'
    <3>1. ev[e].mt = "event"
      BY <2>1, MethodFacts DEF AsRead
    <3> QED
      BY <2>1, <3>1, AsFdKept DEF AsRead, FdKind
  <2>2. ASSUME NEW f \in Fd, AsWrite(e, f, u) PROVE Kept'
    <3>1. ev[e].mt = "event"
      BY <2>2, MethodFacts DEF AsWrite
    <3> QED
      BY <2>2, <3>1, AsFdKept DEF AsWrite, FdKind
  <2>3. ASSUME NEW s \in Signo, AsSignal(e, s, u) PROVE Kept'
    <3>1. ev[e].mt = "event" /\ s \in Ident
      BY <2>3, MethodFacts DEF AsSignal, Ident
    <3> QED
      BY <2>3, <3>1, AsOwnFdKept DEF AsSignal
  <2>4. ASSUME NEW t \in TimerId, AsTimer(e, t, u) PROVE Kept'
    <3>1. ev[e].mt = "event" /\ t \in Ident
      BY <2>4, MethodFacts DEF AsTimer, Ident
    <3> QED
      BY <2>4, <3>1, AsOwnFdKept DEF AsTimer
  <2>5. CASE AsTrigger(e, u)
    BY <2>5, AsTriggerKept
  <2> QED
    BY <1>1, <2>1, <2>2, <2>3, <2>4, <2>5 DEF As
<1>2. ASSUME NEW e \in Event, Call(e) PROVE Kept'
  <2>1. ASSUME NEW p \in Poll, NewEvent(e, p) PROVE Kept'
    BY <2>1, NewEventKept
  <2>2. ASSUME NEW m \in Modes, SetMode(e, m) PROVE Kept'
    BY <2>2, SetModeKept, EventAssumption
  <2>3. ASSUME NEW u \in Data, SetUdata(e, u) PROVE Kept'
    BY <2>3, SetUdataKept
  <2> QED
    BY <1>1, <1>2, <2>1, <2>2, <2>3, WatchKept, UnwatchKept, RevertKept, GcKept
       DEF Call
<1>3. ASSUME NEW e \in Event, Renew(e) PROVE Kept'
  BY <1>3, RenewEventKept DEF Renew
<1>4. ASSUME NEW p \in Poll, PollCall(p) \/ RenewPoll(p) PROVE Kept'
  BY <1>4, PollKept
<1>5. CASE User
  BY <1>5, UserKept
<1>6. CASE UNCHANGED vars
  BY <1>6 DEF Kept, KInv, vars
<1> QED
  BY <1>2, <1>3, <1>4, <1>5, <1>6 DEF Next

LEMMA NextKInv ==
    ASSUME ~CtlAddMayFail, ~ClosesUsed, ~Borrows PROVE KInv /\ [Next]_vars => KInv'
<1> SUFFICES ASSUME KInv, [Next]_vars PROVE KInv'
  OBVIOUS
<1>1. IInv'
  BY NextIInv DEF KInv
<1>2. Kept'
  BY NextKept
<1> QED
  BY <1>1, <1>2 DEF KInv, Kept

\* The invariant gives the properties that PollEvent states.
LEMMA KInvImplies == KInv => NoLeak /\ Armed /\ NoForgotten
<1> SUFFICES ASSUME KInv PROVE NoLeak /\ Armed /\ NoForgotten
  OBVIOUS
<1>0. /\ Registry(ev, poll) /\ interest \in Lists
      /\ \A e \in Event : Holds(e, ev[e], file, owner)
      /\ Tidy(ev, file, owner, interest, lost)
      /\ Orderly(ev, file, owner, interest, lost)
  BY KInvFacts
<1>3. NoLeak
  BY <1>0 DEF Tidy, Owned, Holds, NoLeak, Kind, FdKind
<1>4. Armed
  BY <1>0 DEF Orderly, Watched, Armed
<1>5. NoForgotten
  <2> SUFFICES ASSUME NEW p \in Poll, NEW i \in interest[p]
               PROVE  /\ i.file = file[i.fd]
                      /\ \E e \in Event : /\ poll[p].evset[i.fd] = e
                                          /\ ev[e].events = i.events
    BY DEF NoForgotten
  <2>1. i.fd \in Fd
    BY <1>0 DEF Lists, Interest
  <2>2. PICK e \in Event : /\ ev[e].enabled /\ ev[e].p = p /\ ev[e].fd = i.fd
                           /\ ev[e].events = i.events
    BY <1>0 DEF Orderly, Known
  <2>3. poll[p].evset[i.fd] = e
    BY <1>0, <2>1, <2>2 DEF Registry, Exact
  <2> QED
    BY <1>0, <2>2, <2>3 DEF Orderly, Known
<1> QED
  BY <1>3, <1>4, <1>5

\* A descriptor is closed by revert and by the garbage collector, or by the
\* application.
LEMMA Closers ==
    ASSUME KInv, Next, NEW f \in Fd, file[f] # NoFile, file'[f] = NoFile,
           outcome' # "env"
    PROVE  \E e \in Event : Revert(e) \/ Gc(e)
<1>0. file \in Files
  BY KInvFacts
<1>1. ASSUME NEW e \in Event, NEW d, NEW x, Lowest(d), Opened(e, d, [file EXCEPT ![d] = x])
      PROVE  FALSE
  BY <1>0, <1>1 DEF Opened, Lowest, Files
<1>2. file' # file
  OBVIOUS
<1>3. ASSUME NEW e \in Event, NEW u \in Data, As(e, u) PROVE FALSE
  BY <1>1, <1>2, <1>3
     DEF As, AsRead, AsWrite, AsSignal, AsTimer, AsTrigger, AsFd, AsOwnFd,
         RefusedCall, kernelVars
<1>4. ASSUME NEW e \in Event, Call(e) PROVE Revert(e) \/ Gc(e)
  BY <1>2, <1>3, <1>4
     DEF Call, NewEvent, Watch, Unwatch, SetMode, SetUdata, RefusedCall, kernelVars
<1>5. ASSUME NEW e \in Event, Renew(e) PROVE FALSE
  BY <1>2, <1>5 DEF Renew, RenewEvent
<1>6. ASSUME NEW p \in Poll, PollCall(p) \/ RenewPoll(p) PROVE FALSE
  BY <1>2, <1>6 DEF PollCall, NewPoll, GcPoll, RenewPoll, RefusedCall
<1>7. ~User
  BY DEF User, UserOpen, UserClose, Return
<1> QED
  BY <1>4, <1>5, <1>6, <1>7 DEF Next

\* What revert and the garbage collector close is what the event owns.
LEMMA ClosesOwn ==
    ASSUME KInv, [Next]_vars PROVE [ClosesOnlyItsOwn]_vars
<1> SUFFICES ASSUME Next, NEW f \in Fd, file[f] # NoFile, file'[f] = NoFile,
                    outcome' # "env"
             PROVE  \E e \in Event : /\ owner[f] = e /\ ev[e].fd = f
                                     /\ ev'[e] # ev[e] /\ ~ev'[e].enabled
  BY DEF ClosesOnlyItsOwn, vars
<1>1. PICK e \in Event : Revert(e) \/ Gc(e)
  BY Closers
<1>0. /\ ev \in [Event -> EventRec] /\ ev[e] \in EventRec /\ ev[e].p \in Poll
      /\ Holds(e, ev[e], file, owner)
  BY KInvFacts
<1>2. ev[e].fd = f /\ ClosesFd(ev[e])
  BY <1>1 DEF Revert, Gc, CloseFrom
<1>3. owner[f] = e /\ ev[e].mt \in Kind
  BY <1>0, <1>2 DEF Holds
<1>4. ASSUME Gc(e) PROVE ev'[e] # ev[e] /\ ~ev'[e].enabled
  <2>1. ev'[e] = Absent /\ ~Absent.enabled /\ Absent.mt = "none"
    BY <1>0, <1>4, FreshFacts DEF Gc
  <2> QED
    BY <1>3, <2>1 DEF Kind, FdKind
<1>5. ASSUME Revert(e) PROVE ev'[e] # ev[e] /\ ~ev'[e].enabled
  <2>1. PICK g : g = Reverted(ev[e])  OBVIOUS
  <2>2. g.mt = "event" /\ ~g.enabled
    <3>1. Fresh(ev[e].p).mt = "event" /\ ~Fresh(ev[e].p).enabled
      BY <1>0, FreshFacts
    <3> QED
      BY <2>1, <3>1 DEF Reverted, Fresh
  <2>3. ~DelRefused(ev[e].fd)
    BY <1>0, <1>3 DEF DelRefused, Holds
  <2>4. ev'[e] = g
    BY <1>0, <1>5, <2>1, <2>3 DEF Revert
  <2> QED
    BY <1>3, <2>2, <2>4 DEF Kind, FdKind
<1> QED
  BY <1>1, <1>2, <1>3, <1>4, <1>5

-----------------------------------------------------------------------------
(* The luaL_error of poll_watch_event: with both agreements nobody meets a   *)
(* taken slot of an evset.                                                  *)

DInv == PInv /\ KInv /\ outcome # "throw"

\* What the invariant says of the state.
LEMMA DInvFacts ==
    ASSUME DInv
    PROVE  /\ IInv /\ Registry(ev, poll) /\ Homed(ev, poll)
           /\ ev \in [Event -> EventRec] /\ poll \in [Poll -> PollRec]
           /\ file \in Files /\ owner \in Owners /\ interest \in Lists
           /\ \A e \in Event : /\ ev[e] \in EventRec /\ Fine(ev[e])
                               /\ ev[e].p \in Poll /\ ev[e].fd \in Fd
                               /\ Holds(e, ev[e], file, owner)
                               /\ ev[e].enabled => ev[e].mt \in Kind
                               /\ ev[e].mt \in Kind => ev[e].filter = ev[e].mt
           /\ Tidy(ev, file, owner, interest, lost)
           /\ Orderly(ev, file, owner, interest, lost)
<1>1. KInv
  BY DEF DInv
<1> QED
  BY <1>1, KInvFacts

LEMMA FreeSlot ==
    ASSUME NEW e, NEW r, NEW polls, NEW intr, NEW ff, NEW good, NEW bad,
           PollWatch(e, r, polls, intr, ff, good, bad), polls[r.p].evset[r.fd] = NoEvent
    PROVE  outcome' # "throw"
BY DEF PollWatch, Conflict, Return

\* as_read ... as_trigger.
LEMMA AsOutcome ==
    ASSUME ~Borrows, PInv, KInv, NEW e \in Event, NEW u \in Data, As(e, u)
    PROVE  outcome' # "throw"
<1>0. /\ Registry(ev, poll) /\ poll \in [Poll -> PollRec]
      /\ ev[e] \in EventRec /\ ev[e].p \in Poll
      /\ \A c \in Event : /\ ev[c].p \in Poll /\ Holds(c, ev[c], file, owner)
                          /\ ev[c].enabled => ev[c].mt \in Kind
                          /\ ev[c].mt \in Kind => ev[c].filter = ev[c].mt
      /\ Flagged(ev, poll)
  BY KInvFacts DEF PInv, Paired
<1>1. CASE outcome' = "error"
  BY <1>1
<1>2. \A d \in Fd : Lowest(d) => poll[ev[e].p].evset[d] = NoEvent
  BY <1>0, ClosedIsFree DEF Lowest
<1>3. ASSUME NEW kind \in FdKind, NEW other \in FdKind, other # kind,
             NEW dir, NEW f \in Fd, AsFd(e, kind, other, dir, f, u)
      PROVE  outcome' # "throw"
  <2>1. ASSUME ~GetFlag(e, kind, f), ~GetFlag(e, other, f)
        PROVE  poll[ev[e].p].evset[f] = NoEvent
    <3> SUFFICES ASSUME NEW c \in Event, ev[c].enabled, ev[c].p = ev[e].p, ev[c].fd = f
                 PROVE  FALSE
      BY <1>0 DEF Registry, Exact, PollRec
    <3>1. ~ClosesFd(ev[c])
      BY <1>0, <1>3, KernelAssumption DEF AsFd, Holds
    <3>2. ev[c].filter \in FdKind /\ ev[c].ident = f
      BY <1>0, <3>1 DEF ClosesFd
    <3>3. <<ev[c].filter, f>> \in poll[ev[e].p].flag
      BY <1>0, <3>2 DEF Flagged, PairIn
    <3> QED
      BY <1>3, <2>1, <3>2, <3>3 DEF GetFlag, FdKind
  <2>2. ASSUME NEW r, r.p = ev[e].p, NEW d \in Fd, r.fd = d,
               poll[ev[e].p].evset[d] = NoEvent,
               NEW ff, NEW g, PollWatch(e, r, poll, interest, ff, g, r)
        PROVE  outcome' # "throw"
    BY <2>2, FreeSlot
  <2>3. ASSUME NEW d \in Fd, NEW r, r = Asked(e, kind, f, dir, d)
        PROVE  r.p = ev[e].p /\ r.fd = d
    BY <1>0, <2>3 DEF Asked, EventRec
  <2> QED
    BY <1>1, <1>2, <1>3, <2>1, <2>2, <2>3 DEF AsFd, RefusedCall, Asked, Return
<1>4. ASSUME NEW kind, NEW id, NEW type, AsOwnFd(e, kind, id, type, u)
      PROVE  outcome' # "throw"
  <2>1. ASSUME NEW d \in Fd, Lowest(d), NEW r, r = Asked(e, kind, id, "IN", d),
               NEW ff, NEW g, PollWatch(e, r, poll, interest, ff, g, r)
        PROVE  outcome' # "throw"
    <3>1. r.p = ev[e].p /\ r.fd = d
      BY <1>0, <2>1 DEF Asked, EventRec
    <3> QED
      BY <1>2, <2>1, <3>1, FreeSlot
  <2> QED
    BY <1>4, <2>1 DEF AsOwnFd, RefusedCall, Asked, Return
<1>5. CASE AsTrigger(e, u)
  <2>1. PICK k : k = Keep(ev[e], u)  OBVIOUS
  <2>2. k \in EventRec /\ k.p = ev[e].p
    BY <1>0, <2>1 DEF EventRec, Keep, Data
  <2>3. ASSUME NEW d \in Fd, Lowest(d),
               NEW r, r = [k EXCEPT !.ident = d, !.filter = "trigger",
                                    !.events = {"IN"}, !.fd = d],
               NEW ff, NEW g, NEW b, PollWatch(e, r, poll, interest, ff, g, b)
        PROVE  outcome' # "throw"
    <3>1. r.p = ev[e].p /\ r.fd = d
      BY <2>2, <2>3 DEF EventRec
    <3> QED
      BY <1>2, <2>3, <3>1, FreeSlot
  <2> QED
    BY <1>5, <2>1, <2>3 DEF AsTrigger, Return
<1> QED
  BY <1>3, <1>4, <1>5 DEF As, AsRead, AsWrite, AsSignal, AsTimer, FdKind

\* ev:watch and ev:renew of an event whose place nobody has taken.
LEMMA RewatchOutcome ==
    ASSUME ~Rewatches, IInv, NEW e \in Event, Watch(e) \/ Renew(e)
    PROVE  outcome' # "throw"
<1>0. /\ Registry(ev, poll) /\ poll \in [Poll -> PollRec]
      /\ ev \in [Event -> EventRec] /\ ev[e] \in EventRec
      /\ ev[e].fd \in Fd /\ ev[e].p \in Poll
  BY IInvFacts DEF EventRec
<1>1. CASE Watch(e)
  <2>1. Free(e, ev[e].p)
    BY <1>1 DEF Watch
  <2>2. ASSUME ~ev[e].enabled PROVE poll[ev[e].p].evset[ev[e].fd] = NoEvent
    BY <1>0, <2>1, <2>2 DEF Free, Registry, Exact, PollRec
  <2> QED
    BY <1>1, <2>2, FreeSlot DEF Watch, Return
<1>2. ASSUME NEW p \in Poll, RenewEvent(e, p) PROVE outcome' # "throw"
  <2>1. PICK r : r = [Disabled(e) EXCEPT !.p = p]  OBVIOUS
  <2>2. r \in EventRec /\ ~r.enabled /\ r.p = p /\ r.fd = ev[e].fd
    BY <1>0, <2>1 DEF Disabled, EventRec
  <2>3. CASE /\ ev[e].enabled
             /\ PollWatch(e, r, UnwatchedPoll(e), UnwatchedIntr(e), file, r, r)
    <3>1. PICK evs : evs = [ev EXCEPT ![e] = r]  OBVIOUS
    <3>2. PICK polls : polls = UnwatchedPoll(e)  OBVIOUS
    <3>3. Registry(evs, polls)
      BY <1>0, <2>2, <2>3, <3>1, <3>2, RegistryDel, Zenon DEF UnwatchedPoll
    <3>4. evs[e] = r /\ \A d \in Event \ {e} : evs[d] = ev[d]
      BY <1>0, <3>1
    <3>5. Free(e, p)
      BY <1>2 DEF RenewEvent
    <3>6. polls[p].evset[ev[e].fd] = NoEvent
      <4>1. polls[p] \in PollRec
        BY <3>3 DEF Registry
      <4>2. \A d \in Event : polls[p].evset[ev[e].fd] # d
        BY <1>0, <2>2, <3>3, <3>4, <3>5 DEF Registry, Exact, Free
      <4> QED
        BY <1>0, <4>1, <4>2 DEF PollRec
    <3> QED
      BY <2>2, <2>3, <3>2, <3>6, FreeSlot
  <2> QED
    BY <1>2, <2>1, <2>3 DEF RenewEvent, Return
<1> QED
  BY <1>1, <1>2 DEF Renew

LEMMA InitDInv == Init => DInv
BY InitPInv, InitKInv DEF DInv, Init

LEMMA NextDInv ==
    ASSUME Discipline PROVE DInv /\ [Next]_vars => DInv'
<1> SUFFICES ASSUME DInv, [Next]_vars PROVE DInv'
  OBVIOUS
<1>1. IInv /\ PInv /\ KInv
  BY DEF DInv, PInv
<1>2. PInv' /\ KInv'
  BY <1>1, NextPInv, NextKInv DEF Discipline
<1>3. ASSUME NEW e \in Event, Call(e) \/ Renew(e) PROVE outcome' # "throw"
  <2>1. CASE (\E u \in Data : As(e, u)) \/ Watch(e) \/ Renew(e)
    BY <1>1, <2>1, AsOutcome, RewatchOutcome DEF Discipline
  <2>2. CASE Unwatch(e) \/ Revert(e)
    BY <2>2 DEF Unwatch, Revert, Return
  <2>3. CASE Gc(e) \/ (\E p \in Poll : NewEvent(e, p))
    BY <2>3 DEF Gc, NewEvent, Return
  <2>4. CASE (\E m \in Modes : SetMode(e, m)) \/ (\E u \in Data : SetUdata(e, u))
    BY <2>4 DEF SetMode, SetUdata, RefusedCall, Return
  <2> QED
    BY <1>3, <2>1, <2>2, <2>3, <2>4 DEF Call
<1>4. ASSUME NEW p \in Poll, PollCall(p) \/ RenewPoll(p) PROVE outcome' # "throw"
  BY <1>4 DEF PollCall, NewPoll, GcPoll, RenewPoll, RefusedCall, Return
<1>5. User => outcome' # "throw"
  BY DEF User, UserOpen, UserClose, Return
<1>6. UNCHANGED vars => outcome' # "throw"
  BY DEF DInv, vars
<1> QED
  BY <1>2, <1>3, <1>4, <1>5, <1>6 DEF DInv, Next

LEMMA DInvImplies == DInv => /\ UniquePair /\ NoThrow /\ NoLeak
                             /\ Armed /\ NoForgotten
BY PInvImplies, KInvImplies DEF DInv, NoThrow

-----------------------------------------------------------------------------
(* The theorems *)

\* Two events of one instance are never watched for the same pair, whichever
\* calls fail and whatever the application closes, as long as it watches no
\* event again in a place that another one has taken.
THEOREM PairsAreUnique == ASSUME ~Rewatches PROVE Spec => []UniquePair
BY InitPInv, NextPInv, PInvImplies, PTL DEF Spec

\* The flag table has the pair of every watched event, so as_read ... as_timer
\* refuse it: no call that fails, unwatches or moves an event takes away the
\* flag of another one.
THEOREM WatchedAreFlagged == ASSUME ~Rewatches PROVE Spec => []WatchedIsFlagged
BY InitPInv, NextPInv, PInvImplies, PTL DEF Spec

\* Events, descriptors and the kernel agree in every reachable state, whatever
\* is registered, watched again, moved, reverted or collected and whichever
\* call is refused, while no used descriptor is closed, no descriptor of the
\* library is registered once more, and epoll_ctl has memory.
THEOREM KernelAgreement ==
    ASSUME ~CtlAddMayFail, ~ClosesUsed, ~Borrows PROVE Spec => []KInv
BY InitKInv, NextKInv, PTL DEF Spec

\* Every descriptor the library opened still has the event that will close it:
\* a failing as_read ... as_trigger closes what it opened, and no change of an
\* event forgets the number it owns.
THEOREM NothingLeaks ==
    ASSUME ~CtlAddMayFail, ~ClosesUsed, ~Borrows PROVE Spec => []NoLeak
BY KernelAgreement, KInvImplies, PTL

\* The kernel watches every enabled event with its descriptor and its flags,
\* but for those the application took away with ep:renew.
THEOREM EnabledAreArmed ==
    ASSUME ~CtlAddMayFail, ~ClosesUsed, ~Borrows PROVE Spec => []Armed
BY KernelAgreement, KInvImplies, PTL

\* No interest-list entry survives the event it was made for.
THEOREM NothingForgotten ==
    ASSUME ~CtlAddMayFail, ~ClosesUsed, ~Borrows PROVE Spec => []NoForgotten
BY KernelAgreement, KInvImplies, PTL

\* A call of the library closes no descriptor but the one that its own event
\* owns, and no other event and no part of the application has it.
THEOREM NothingForeignCloses ==
    ASSUME ~CtlAddMayFail, ~ClosesUsed, ~Borrows PROVE Spec => NoForeignClose
<1>1. ASSUME KInv, [Next]_vars PROVE [ClosesOnlyItsOwn]_vars
  BY <1>1, ClosesOwn
<1> QED
  BY <1>1, KernelAgreement, PTL DEF Spec, NoForeignClose

\* With the whole discipline both agreements hold, and no call throws.
THEOREM Agreement == ASSUME Discipline PROVE Spec => []DInv
BY InitDInv, NextDInv, PTL DEF Spec

\* No call reaches the luaL_error of poll_watch_event.
THEOREM NothingThrows == ASSUME Discipline PROVE Spec => []NoThrow
BY Agreement, DInvImplies, PTL

=============================================================================

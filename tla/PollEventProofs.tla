-------------------------- MODULE PollEventProofs --------------------------
(***************************************************************************)
(* Proofs about PollEvent, for every set of events, instances, descriptors *)
(* and files, and for an application without any discipline: the tables of *)
(* poll_t agree with the events and with their own counter, through every  *)
(* call and every way a call can fail.                                     *)
(***************************************************************************)
EXTENDS PollEvent, FiniteSetTheorems, TLAPS

(* The registry of a set of events evs and tables polls.  The properties of *)
(* PollEvent are its instances; renew needs it in the middle of the step.   *)

Exact(evs, polls) ==
    \A p \in Poll, f \in Fd, e \in Event :
        polls[p].evset[f] = e <=> evs[e].enabled /\ evs[e].p = p /\ evs[e].fd = f

Occupied(pl) == {f \in Fd : pl.evset[f] # NoEvent}

Counted(polls) == \A p \in Poll : polls[p].nreg = Cardinality(Occupied(polls[p]))

Backed(evs, polls) ==
    \A p \in Poll : \A k \in polls[p].flag :
        \E e \in Event : /\ evs[e].enabled /\ evs[e].p = p
                         /\ <<evs[e].filter, evs[e].ident>> = k

Registry(evs, polls) ==
    /\ evs \in [Event -> EventRec]
    /\ polls \in [Poll -> PollRec]
    /\ Exact(evs, polls) /\ Counted(polls) /\ Backed(evs, polls)

-----------------------------------------------------------------------------
(* Lemmas about the tables *)

\* Descriptors are finitely many and 0 is one.
LEMMA FdFacts == 0 \in Fd /\ IsFiniteSet(Fd)
BY KernelAssumption, FS_Interval DEF Fd

\* Occupying a free slot of a table counts one more.
LEMMA OccupiedAdd ==
    ASSUME NEW pl \in PollRec, NEW e \in Event, NEW r \in EventRec,
           r.filter \in Kind, pl.evset[r.fd] = NoEvent
    PROVE  /\ EvsetAdd(pl, e, r) \in PollRec
           /\ EvsetAdd(pl, e, r).evset = [pl.evset EXCEPT ![r.fd] = e]
           /\ EvsetAdd(pl, e, r).flag = pl.flag \cup {<<r.filter, r.ident>>}
           /\ EvsetAdd(pl, e, r).open = pl.open
           /\ EvsetAdd(pl, e, r).nreg = pl.nreg + 1
           /\ Cardinality(Occupied(EvsetAdd(pl, e, r))) = Cardinality(Occupied(pl)) + 1
<1>1. PICK x : x = EvsetAdd(pl, e, r)  OBVIOUS
<1>2. x = [open |-> pl.open, evset |-> [pl.evset EXCEPT ![r.fd] = e],
           flag |-> pl.flag \cup {<<r.filter, r.ident>>}, nreg |-> pl.nreg + 1]
  BY <1>1 DEF EvsetAdd, PollRec
<1>3. x \in PollRec
  <2>1. [pl.evset EXCEPT ![r.fd] = e] \in [Fd -> Event \cup {NoEvent}]
    BY DEF PollRec, EventRec
  <2>2. <<r.filter, r.ident>> \in Pair
    BY DEF Pair, EventRec
  <2>3. pl.open \in BOOLEAN /\ pl.flag \subseteq Pair /\ pl.nreg + 1 \in Int
    BY DEF PollRec
  <2> QED
    BY <1>2, <2>1, <2>2, <2>3 DEF PollRec
<1>4. Occupied(x) = Occupied(pl) \cup {r.fd}
  BY <1>2, EventAssumption DEF Occupied, PollRec, EventRec
<1>5. r.fd \notin Occupied(pl) /\ IsFiniteSet(Occupied(pl))
  BY FdFacts, FS_Subset DEF Occupied
<1>6. Cardinality(Occupied(x)) = Cardinality(Occupied(pl)) + 1
  BY <1>4, <1>5, FS_AddElement
<1> QED
  BY <1>1, <1>2, <1>3, <1>6

\* Freeing an occupied slot counts one less.
LEMMA OccupiedDel ==
    ASSUME NEW pl \in PollRec, NEW r \in EventRec, pl.evset[r.fd] # NoEvent
    PROVE  /\ EvsetDel(pl, r) \in PollRec
           /\ EvsetDel(pl, r).evset = [pl.evset EXCEPT ![r.fd] = NoEvent]
           /\ EvsetDel(pl, r).flag = pl.flag \ {<<r.filter, r.ident>>}
           /\ EvsetDel(pl, r).open = pl.open
           /\ EvsetDel(pl, r).nreg = pl.nreg - 1
           /\ Cardinality(Occupied(EvsetDel(pl, r))) = Cardinality(Occupied(pl)) - 1
<1>1. PICK x : x = EvsetDel(pl, r)  OBVIOUS
<1>2. x = [open |-> pl.open, evset |-> [pl.evset EXCEPT ![r.fd] = NoEvent],
           flag |-> pl.flag \ {<<r.filter, r.ident>>}, nreg |-> pl.nreg - 1]
  BY <1>1 DEF EvsetDel, PollRec
<1>3. x \in PollRec
  <2>1. [pl.evset EXCEPT ![r.fd] = NoEvent] \in [Fd -> Event \cup {NoEvent}]
    BY DEF PollRec, EventRec
  <2>2. pl.open \in BOOLEAN /\ pl.flag \subseteq Pair /\ pl.nreg - 1 \in Int
    BY DEF PollRec
  <2> QED
    BY <1>2, <2>1, <2>2 DEF PollRec
<1>4. Occupied(x) = Occupied(pl) \ {r.fd}
  BY <1>2 DEF Occupied, PollRec, EventRec
<1>5. r.fd \in Occupied(pl) /\ IsFiniteSet(Occupied(pl))
  BY FdFacts, FS_Subset DEF Occupied, EventRec
<1>6. Cardinality(Occupied(x)) = Cardinality(Occupied(pl)) - 1
  BY <1>4, <1>5, FS_RemoveElement
<1> QED
  BY <1>1, <1>2, <1>3, <1>6

\* Occupying a free slot and freeing it again leaves the slots and the
\* counter, and at most clears the flag of the pair.
LEMMA OccupiedBack ==
    ASSUME NEW pl \in PollRec, NEW e \in Event, NEW r \in EventRec,
           r.filter \in Kind, pl.evset[r.fd] = NoEvent
    PROVE  /\ RolledBack(pl, e, r) \in PollRec
           /\ RolledBack(pl, e, r).evset = pl.evset
           /\ RolledBack(pl, e, r).flag \subseteq pl.flag
           /\ RolledBack(pl, e, r).open = pl.open
           /\ RolledBack(pl, e, r).nreg = pl.nreg
<1> DEFINE x == EvsetAdd(pl, e, r)
<1>1. /\ x \in PollRec
      /\ x.evset = [pl.evset EXCEPT ![r.fd] = e]
      /\ x.flag = pl.flag \cup {<<r.filter, r.ident>>}
      /\ x.open = pl.open
      /\ x.nreg = pl.nreg + 1
  BY OccupiedAdd
<1>2. x.evset[r.fd] # NoEvent
  BY <1>1, EventAssumption DEF PollRec, EventRec
<1> HIDE DEF x
<1>3. /\ EvsetDel(x, r) \in PollRec
      /\ EvsetDel(x, r).evset = [x.evset EXCEPT ![r.fd] = NoEvent]
      /\ EvsetDel(x, r).flag = x.flag \ {<<r.filter, r.ident>>}
      /\ EvsetDel(x, r).open = x.open
      /\ EvsetDel(x, r).nreg = x.nreg - 1
  BY <1>1, <1>2, OccupiedDel
<1>4. [x.evset EXCEPT ![r.fd] = NoEvent] = pl.evset
  BY <1>1 DEF PollRec, EventRec
<1>5. x.nreg - 1 = pl.nreg
  BY <1>1 DEF PollRec
<1> QED
  BY <1>1, <1>3, <1>4, <1>5 DEF RolledBack, x

-----------------------------------------------------------------------------
(* Lemmas about the registry: what watching, a failed watch, unwatching and *)
(* changing an unwatched event do to it                                     *)

\* poll_watch_event that succeeds.  g is the event as the caller leaves it.
LEMMA RegistryAdd ==
    ASSUME NEW evs, NEW polls, Registry(evs, polls), NEW e \in Event,
           ~evs[e].enabled, NEW r \in EventRec, r.filter \in Kind,
           polls[r.p].evset[r.fd] = NoEvent,
           NEW g \in EventRec, g.enabled, g.p = r.p, g.fd = r.fd,
           g.filter = r.filter, g.ident = r.ident
    PROVE  Registry([evs EXCEPT ![e] = g],
                    [polls EXCEPT ![r.p] = EvsetAdd(@, e, r)])
<1> DEFINE pl == EvsetAdd(polls[r.p], e, r)
           evs2 == [evs EXCEPT ![e] = g]
           polls2 == [polls EXCEPT ![r.p] = pl]
<1>0. r.p \in Poll /\ r.fd \in Fd /\ polls[r.p] \in PollRec
  BY DEF EventRec, Registry
<1>1. /\ pl \in PollRec
      /\ pl.evset = [polls[r.p].evset EXCEPT ![r.fd] = e]
      /\ pl.flag = polls[r.p].flag \cup {<<r.filter, r.ident>>}
      /\ pl.nreg = polls[r.p].nreg + 1
      /\ Cardinality(Occupied(pl)) = Cardinality(Occupied(polls[r.p])) + 1
  <2> DEFINE t == polls[r.p]
  <2>1. t \in PollRec /\ t.evset[r.fd] = NoEvent /\ pl = EvsetAdd(t, e, r)
    BY <1>0
  <2> HIDE DEF t, pl
  <2>2. /\ EvsetAdd(t, e, r) \in PollRec
        /\ EvsetAdd(t, e, r).evset = [t.evset EXCEPT ![r.fd] = e]
        /\ EvsetAdd(t, e, r).flag = t.flag \cup {<<r.filter, r.ident>>}
        /\ EvsetAdd(t, e, r).nreg = t.nreg + 1
        /\ Cardinality(Occupied(EvsetAdd(t, e, r))) = Cardinality(Occupied(t)) + 1
    BY <2>1, OccupiedAdd
  <2> QED
    BY <2>1, <2>2 DEF t
<1> HIDE DEF pl
<1>2. evs2 \in [Event -> EventRec] /\ polls2 \in [Poll -> PollRec]
  BY <1>1 DEF Registry
<1>3. Exact(evs2, polls2)
  <2> SUFFICES ASSUME NEW p \in Poll, NEW f \in Fd, NEW d \in Event
               PROVE  polls2[p].evset[f] = d
                        <=> evs2[d].enabled /\ evs2[d].p = p /\ evs2[d].fd = f
    BY DEF Exact
  <2>1. polls[p].evset[f] = d <=> evs[d].enabled /\ evs[d].p = p /\ evs[d].fd = f
    BY DEF Registry, Exact
  <2>2. polls[p].evset \in [Fd -> Event \cup {NoEvent}]
    BY DEF Registry, PollRec
  <2>3. CASE p = r.p /\ f = r.fd
    <3>1. polls2[p].evset[f] = e
      BY <1>0, <1>1, <2>2, <2>3 DEF Registry
    <3>2. polls[p].evset[f] # d
      BY <2>3, EventAssumption
    <3> QED
      BY <2>1, <2>3, <3>1, <3>2 DEF Registry
  <2>4. CASE ~(p = r.p /\ f = r.fd)
    <3>1. polls2[p].evset[f] = polls[p].evset[f]
      BY <1>0, <1>1, <2>2, <2>4 DEF Registry
    <3> QED
      BY <2>1, <2>4, <3>1 DEF Registry
  <2> QED
    BY <2>3, <2>4
<1>4. Counted(polls2)
  BY <1>0, <1>1 DEF Registry, Counted
<1>5. Backed(evs2, polls2)
  <2> SUFFICES ASSUME NEW p \in Poll, NEW k \in polls2[p].flag
               PROVE  \E d \in Event : /\ evs2[d].enabled /\ evs2[d].p = p
                                      /\ <<evs2[d].filter, evs2[d].ident>> = k
    BY DEF Backed
  <2>1. CASE p = r.p /\ k = <<r.filter, r.ident>>
    BY <2>1 DEF Registry
  <2>2. CASE ~(p = r.p /\ k = <<r.filter, r.ident>>)
    <3>1. k \in polls[p].flag
      BY <1>0, <1>1, <2>2 DEF Registry
    <3>2. PICK d \in Event : /\ evs[d].enabled /\ evs[d].p = p
                             /\ <<evs[d].filter, evs[d].ident>> = k
      BY <3>1 DEF Registry, Backed
    <3> QED
      BY <3>2 DEF Registry
  <2> QED
    BY <2>1, <2>2
<1> QED
  BY <1>2, <1>3, <1>4, <1>5 DEF Registry, pl

\* poll_watch_event whose epoll_ctl fails.
LEMMA RegistryBack ==
    ASSUME NEW evs, NEW polls, Registry(evs, polls), NEW e \in Event,
           ~evs[e].enabled, NEW r \in EventRec, r.filter \in Kind,
           polls[r.p].evset[r.fd] = NoEvent, NEW g \in EventRec, ~g.enabled
    PROVE  Registry([evs EXCEPT ![e] = g],
                    [polls EXCEPT ![r.p] = RolledBack(@, e, r)])
<1> DEFINE pl == RolledBack(polls[r.p], e, r)
           evs2 == [evs EXCEPT ![e] = g]
           polls2 == [polls EXCEPT ![r.p] = pl]
<1>0. r.p \in Poll /\ polls[r.p] \in PollRec
  BY DEF EventRec, Registry
<1>1. /\ pl \in PollRec
      /\ pl.evset = polls[r.p].evset
      /\ pl.flag \subseteq polls[r.p].flag
      /\ pl.nreg = polls[r.p].nreg
  BY <1>0, OccupiedBack
<1> HIDE DEF pl
<1>2. evs2 \in [Event -> EventRec] /\ polls2 \in [Poll -> PollRec]
  BY <1>1 DEF Registry
<1>3. \A p \in Poll : /\ polls2[p].evset = polls[p].evset
                      /\ polls2[p].flag \subseteq polls[p].flag
                      /\ polls2[p].nreg = polls[p].nreg
  BY <1>0, <1>1 DEF Registry
<1>4. Exact(evs2, polls2)
  BY <1>3 DEF Registry, Exact
<1>5. Counted(polls2)
  BY <1>3 DEF Registry, Counted, Occupied
<1>6. Backed(evs2, polls2)
  <2> SUFFICES ASSUME NEW p \in Poll, NEW k \in polls2[p].flag
               PROVE  \E d \in Event : /\ evs2[d].enabled /\ evs2[d].p = p
                                      /\ <<evs2[d].filter, evs2[d].ident>> = k
    BY DEF Backed
  <2>1. PICK d \in Event : /\ evs[d].enabled /\ evs[d].p = p
                           /\ <<evs[d].filter, evs[d].ident>> = k
    BY <1>3 DEF Registry, Backed
  <2> QED
    BY <2>1 DEF Registry
<1> QED
  BY <1>2, <1>4, <1>5, <1>6 DEF Registry, pl

\* poll_unwatch_event.  g is the event afterwards.
LEMMA RegistryDel ==
    ASSUME NEW evs, NEW polls, Registry(evs, polls), NEW e \in Event,
           evs[e].enabled, NEW g \in EventRec, ~g.enabled
    PROVE  Registry([evs EXCEPT ![e] = g],
                    [polls EXCEPT ![evs[e].p] = EvsetDel(@, evs[e])])
<1> DEFINE r == evs[e]
           pl == EvsetDel(polls[r.p], r)
           evs2 == [evs EXCEPT ![e] = g]
           polls2 == [polls EXCEPT ![r.p] = pl]
<1>0. /\ r \in EventRec /\ r.p \in Poll /\ r.fd \in Fd
      /\ polls[r.p] \in PollRec /\ polls[r.p].evset[r.fd] = e
  BY DEF EventRec, Registry, Exact
<1>1. /\ pl \in PollRec
      /\ pl.evset = [polls[r.p].evset EXCEPT ![r.fd] = NoEvent]
      /\ pl.flag = polls[r.p].flag \ {<<r.filter, r.ident>>}
      /\ pl.nreg = polls[r.p].nreg - 1
      /\ Cardinality(Occupied(pl)) = Cardinality(Occupied(polls[r.p])) - 1
  BY <1>0, OccupiedDel, EventAssumption
<1> HIDE DEF pl
<1>2. evs2 \in [Event -> EventRec] /\ polls2 \in [Poll -> PollRec]
  BY <1>1 DEF Registry
<1>3. Exact(evs2, polls2)
  <2> SUFFICES ASSUME NEW p \in Poll, NEW f \in Fd, NEW d \in Event
               PROVE  polls2[p].evset[f] = d
                        <=> evs2[d].enabled /\ evs2[d].p = p /\ evs2[d].fd = f
    BY DEF Exact
  <2>1. polls[p].evset[f] = d <=> evs[d].enabled /\ evs[d].p = p /\ evs[d].fd = f
    BY DEF Registry, Exact
  <2>2. polls[p].evset \in [Fd -> Event \cup {NoEvent}]
    BY DEF Registry, PollRec
  <2>3. CASE p = r.p /\ f = r.fd
    <3>1. polls2[p].evset[f] = NoEvent
      BY <1>0, <1>1, <2>2, <2>3 DEF Registry
    <3>2. polls[p].evset[f] = e
      BY <1>0, <2>3
    <3> QED
      BY <2>1, <2>3, <3>1, <3>2, EventAssumption DEF Registry
  <2>4. CASE ~(p = r.p /\ f = r.fd)
    <3>1. polls2[p].evset[f] = polls[p].evset[f]
      BY <1>0, <1>1, <2>2, <2>4 DEF Registry
    <3> QED
      BY <2>1, <2>4, <3>1 DEF Registry
  <2> QED
    BY <2>3, <2>4
<1>4. Counted(polls2)
  BY <1>0, <1>1 DEF Registry, Counted
<1>5. Backed(evs2, polls2)
  <2> SUFFICES ASSUME NEW p \in Poll, NEW k \in polls2[p].flag
               PROVE  \E d \in Event : /\ evs2[d].enabled /\ evs2[d].p = p
                                      /\ <<evs2[d].filter, evs2[d].ident>> = k
    BY DEF Backed
  <2>1. k \in polls[p].flag /\ (p = r.p => k # <<r.filter, r.ident>>)
    BY <1>0, <1>1 DEF Registry
  <2>2. PICK d \in Event : /\ evs[d].enabled /\ evs[d].p = p
                           /\ <<evs[d].filter, evs[d].ident>> = k
    BY <2>1 DEF Registry, Backed
  <2> QED
    BY <2>1, <2>2 DEF Registry
<1> QED
  BY <1>2, <1>3, <1>4, <1>5 DEF Registry, pl

\* A call that changes an event that is not watched, and leaves it so.
LEMMA RegistryKeep ==
    ASSUME NEW evs, NEW polls, Registry(evs, polls), NEW e \in Event,
           ~evs[e].enabled, NEW g \in EventRec, ~g.enabled
    PROVE  Registry([evs EXCEPT ![e] = g], polls)
<1> DEFINE evs2 == [evs EXCEPT ![e] = g]
<1>1. evs2 \in [Event -> EventRec]
  BY DEF Registry
<1>2. \A d \in Event : evs2[d].enabled <=> evs[d].enabled
  BY DEF Registry
<1>3. \A d \in Event : evs[d].enabled => evs2[d] = evs[d]
  BY DEF Registry
<1>4. Exact(evs2, polls)
  BY <1>2, <1>3 DEF Registry, Exact
<1>5. Backed(evs2, polls)
  <2> HIDE DEF evs2
  <2> QED
    BY <1>3 DEF Registry, Backed
<1> QED
  BY <1>1, <1>4, <1>5 DEF Registry

-----------------------------------------------------------------------------
(* The inductive invariant *)

\* What one poll_event_t satisfies between calls.  The metatable, not the
\* filter, decides which methods exist, and the two agree once it is set.
Fine(r) ==
    /\ r.mt \in Kind => /\ r.filter = r.mt
                        /\ (IF r.filter = "write" THEN "OUT" ELSE "IN") \in r.events
    /\ r.enabled => r.mt \in Kind
    /\ "ONESHOT" \in r.events => r.events \cap {"ET", "EXCLUSIVE"} = {}

Outcome == {"ok", "false", "error", "throw", "env"}

\* Every event keeps a reference to its instance, which is then not collected.
Homed(evs, polls) == \A e \in Event : evs[e].mt # "none" => polls[evs[e].p].open

Sound(evs, polls) ==
    /\ Registry(evs, polls)
    /\ \A e \in Event : Fine(evs[e])
    /\ Homed(evs, polls)

IInv ==
    /\ KernelTypeOK
    /\ outcome \in Outcome
    /\ lost \subseteq Event
    /\ Sound(ev, poll)

\* The invariant gives the properties that PollEvent states.
LEMMA IInvImplies ==
    IInv => /\ TypeOK
            /\ EvsetExact /\ NregExact /\ FlagBacked
            /\ WatchedIsTyped /\ ModesExclusive
<1> SUFFICES ASSUME IInv
             PROVE  /\ TypeOK
                    /\ EvsetExact /\ NregExact /\ FlagBacked
                    /\ WatchedIsTyped /\ ModesExclusive
  OBVIOUS
<1>1. TypeOK
  BY DEF IInv, Sound, TypeOK, Registry, Outcome
<1>2. EvsetExact
  BY DEF IInv, Sound, Registry, Exact, EvsetExact
<1>3. NregExact
  BY DEF IInv, Sound, Registry, Counted, Occupied, NregExact
<1>4. FlagBacked
  BY DEF IInv, Sound, Registry, Backed, FlagBacked
<1>5. WatchedIsTyped
  BY DEF IInv, Sound, Fine, WatchedIsTyped
<1>6. ModesExclusive
  <2> SUFFICES ASSUME NEW e \in Event
               PROVE  /\ IsLevel(e) <=> ~IsEdge(e) /\ ~IsOneshot(e)
                      /\ IsOneshot(e) => ~IsEdge(e) /\ "EXCLUSIVE" \notin ev[e].events
    BY DEF ModesExclusive
  <2>1. ev[e].events \subseteq Flag
    BY <1>1 DEF TypeOK, EventRec
  <2>2. "ONESHOT" \in ev[e].events => ev[e].events \cap {"ET", "EXCLUSIVE"} = {}
    BY DEF IInv, Sound, Fine
  <2> QED
    BY <2>1, <2>2 DEF IsLevel, IsEdge, IsOneshot, Flag
<1> QED
  BY <1>1, <1>2, <1>3, <1>4, <1>5, <1>6

\* The identifiers 0 and the descriptors are identifiers of the right type.
LEMMA FreshFacts ==
    ASSUME NEW p \in Poll
    PROVE  /\ Fresh(p) \in EventRec /\ Fine(Fresh(p)) /\ ~Fresh(p).enabled
           /\ Fresh(p).mt = "event" /\ Fresh(p).p = p
           /\ Absent \in EventRec /\ Fine(Absent) /\ ~Absent.enabled
           /\ Absent.mt = "none"
<1>1. \A q \in Poll : Fresh(q) \in EventRec /\ Fine(Fresh(q)) /\ ~Fresh(q).enabled
  BY FdFacts DEF Fresh, EventRec, Fine, Ident, Kind, FdKind
<1>2. (CHOOSE q \in Poll : TRUE) \in Poll
  OBVIOUS
<1>3. PICK q \in Poll : q = (CHOOSE x \in Poll : TRUE)
  BY <1>2
<1>4. Absent = [mt |-> "none", p |-> q, enabled |-> FALSE, ident |-> 0,
                filter |-> "none", events |-> {}, fd |-> 0, udata |-> NoUdata]
  <2> DEFINE c == CHOOSE x \in Poll : TRUE
  <2>1. Absent = [Fresh(c) EXCEPT !.mt = "none"]
    BY Zenon DEF Absent
  <2>3. c = q
    BY <1>3, Zenon
  <2> HIDE DEF c
  <2>2. Absent = [Fresh(q) EXCEPT !.mt = "none"]
    BY <2>1, <2>3
  <2> QED
    BY <2>2 DEF Fresh
<1>5. Absent \in EventRec /\ Fine(Absent) /\ ~Absent.enabled /\ Absent.mt = "none"
  BY <1>4, FdFacts DEF EventRec, Fine, Ident, Kind, FdKind
<1>6. Fresh(p).mt = "event" /\ Fresh(p).p = p
  BY DEF Fresh
<1> QED
  BY <1>1, <1>5, <1>6

\* Initially nothing is registered.
LEMMA InitIInv == Init => IInv
<1> SUFFICES ASSUME Init PROVE IInv
  OBVIOUS
<1>1. KernelTypeOK /\ outcome \in Outcome /\ lost \subseteq Event
  BY DEF Init, KernelInit, KernelTypeOK, Outcome
<1>2. PICK p \in Poll : TRUE
  BY KernelAssumption
<1>3. ev = [e \in Event |-> Absent] /\ Absent \in EventRec /\ Fine(Absent)
      /\ ~Absent.enabled
  BY <1>2, FreshFacts DEF Init
<1>4. \A q \in Poll : poll[q] = [open |-> FALSE, evset |-> [f \in Fd |-> NoEvent],
                                flag |-> {}, nreg |-> 0]
  BY DEF Init, NewPollRec
<1>5. poll \in [Poll -> PollRec]
  BY DEF Init, NewPollRec, PollRec
<1>6. Exact(ev, poll)
  BY <1>3, <1>4, EventAssumption DEF Exact
<1>7. Counted(poll)
  <2>1. \A q \in Poll : Occupied(poll[q]) = {}
    BY <1>4 DEF Occupied
  <2> QED
    BY <1>4, <2>1, FS_EmptySet DEF Counted
<1>8. Backed(ev, poll)
  BY <1>4 DEF Backed
<1>9. Homed(ev, poll)
  BY <1>2, <1>3, FreshFacts DEF Homed
<1> QED
  BY <1>1, <1>3, <1>5, <1>6, <1>7, <1>8, <1>9 DEF IInv, Sound, Registry

-----------------------------------------------------------------------------
(* Every action preserves the invariant *)

\* An event moves to an open instance, a table keeps its open flag.
LEMMA HomedKeep ==
    ASSUME NEW evs \in [Event -> EventRec], NEW polls \in [Poll -> PollRec],
           Homed(evs, polls), NEW e \in Event, NEW g \in EventRec,
           NEW p \in Poll, NEW pl \in PollRec, pl.open = polls[p].open,
           g.mt # "none" => polls[g.p].open
    PROVE  Homed([evs EXCEPT ![e] = g], [polls EXCEPT ![p] = pl])
<1> DEFINE evs2 == [evs EXCEPT ![e] = g]
           polls2 == [polls EXCEPT ![p] = pl]
<1>1. \A q \in Poll : polls2[q].open = polls[q].open
  OBVIOUS
<1>2. \A d \in Event : evs2[d].p \in Poll
  BY DEF EventRec
<1>3. \A d \in Event : evs2[d].mt # "none" => polls[evs2[d].p].open
  BY DEF Homed
<1> HIDE DEF evs2, polls2
<1>4. Homed(evs2, polls2)
  BY <1>1, <1>2, <1>3 DEF Homed
<1> QED
  BY <1>4 DEF evs2, polls2

Files  == [Fd -> File \cup {NoFile}]
Lists  == [Poll -> SUBSET Interest]

\* poll_watch_event from the registry of evs and polls, which is that of ev
\* but for event e.
LEMMA PollWatchStep ==
    ASSUME NEW e \in Event, NEW evs, NEW polls, Registry(evs, polls),
           \A x : [evs EXCEPT ![e] = x] = [ev EXCEPT ![e] = x],
           ~evs[e].enabled, \A d \in Event : Fine(evs[d]),
           NEW r \in EventRec, ~r.enabled, r.filter \in Kind, Fine(r),
           NEW good \in EventRec, good.p = r.p, good.fd = r.fd,
           good.filter = r.filter, good.ident = r.ident,
           Fine([good EXCEPT !.enabled = TRUE]),
           NEW bad \in EventRec, ~bad.enabled, Fine(bad), bad.p = r.p,
           Homed(evs, polls), polls[r.p].open,
           NEW intr \in Lists, NEW ff \in Files,
           PollWatch(e, r, polls, intr, ff, good, bad)
    PROVE  /\ Sound(ev', poll')
           /\ interest' \in Lists
           /\ outcome' \in Outcome
<1>0. evs \in [Event -> EventRec] /\ r.p \in Poll /\ r.fd \in Fd
      /\ r.events \subseteq Flag /\ polls \in [Poll -> PollRec]
  BY DEF Registry, EventRec
<1>1. CASE /\ ~Conflict(r, polls)
           /\ AddAccepted(intr, r.p, r.fd, ff, r.events)
           /\ ev' = [ev EXCEPT ![e] = [good EXCEPT !.enabled = TRUE]]
           /\ poll' = [polls EXCEPT ![r.p] = EvsetAdd(@, e, r)]
           /\ interest' = CtlAdd(intr, r.p, r.fd, ff, r.events)
           /\ Return("ok")
  <2> DEFINE g == [good EXCEPT !.enabled = TRUE]
  <2>1. /\ g \in EventRec /\ g.enabled /\ g.p = r.p /\ g.fd = r.fd
        /\ g.filter = r.filter /\ g.ident = r.ident
    BY DEF EventRec
  <2>2. Fine(g)
    OBVIOUS
  <2>3. ev' = [evs EXCEPT ![e] = g]
    BY <1>1
  <2> HIDE DEF g
  <2>4. polls[r.p].evset[r.fd] = NoEvent
    BY <1>1 DEF Conflict
  <2>5. Registry(ev', poll')
    <3>1. Registry([evs EXCEPT ![e] = g], [polls EXCEPT ![r.p] = EvsetAdd(@, e, r)])
      BY <2>1, <2>4, RegistryAdd
    <3> QED
      BY <1>1, <2>3, <3>1, Zenon
  <2>6. \A d \in Event : Fine(ev'[d])
    BY <1>0, <2>2, <2>3
  <2>7. interest' \in Lists
    <3>1. Entry(r.fd, ff, r.events) \in Interest
      BY <1>0, <1>1 DEF Entry, Interest, AddAccepted, Files
    <3> QED
      BY <1>0, <1>1, <3>1 DEF CtlAdd, Lists
  <2>8. Homed(ev', poll')
    <3>1. /\ EvsetAdd(polls[r.p], e, r).open = polls[r.p].open
          /\ EvsetAdd(polls[r.p], e, r) \in PollRec
      BY <1>0, <2>4, OccupiedAdd
    <3>2. Homed([evs EXCEPT ![e] = g], [polls EXCEPT ![r.p] = EvsetAdd(@, e, r)])
      BY <1>0, <2>1, <3>1, HomedKeep
    <3> QED
      BY <1>1, <2>3, <3>2, Zenon
  <2> QED
    BY <1>1, <2>5, <2>6, <2>7, <2>8 DEF Return, Outcome, Sound
<1>2. CASE /\ ~Conflict(r, polls)
           /\ ev' = [ev EXCEPT ![e] = bad]
           /\ poll' = [polls EXCEPT ![r.p] = RolledBack(@, e, r)]
           /\ interest' = intr
           /\ Return("error")
  <2>1. ev' = [evs EXCEPT ![e] = bad] /\ polls[r.p].evset[r.fd] = NoEvent
    BY <1>2 DEF Conflict
  <2>2. Registry(ev', poll')
    <3>1. Registry([evs EXCEPT ![e] = bad], [polls EXCEPT ![r.p] = RolledBack(@, e, r)])
      BY <2>1, RegistryBack
    <3> QED
      BY <1>2, <2>1, <3>1, Zenon
  <2>3. Homed(ev', poll')
    <3>1. /\ RolledBack(polls[r.p], e, r).open = polls[r.p].open
          /\ RolledBack(polls[r.p], e, r) \in PollRec
      BY <1>0, <2>1, OccupiedBack
    <3>2. Homed([evs EXCEPT ![e] = bad],
                [polls EXCEPT ![r.p] = RolledBack(@, e, r)])
      BY <1>0, <3>1, HomedKeep
    <3> QED
      BY <1>2, <2>1, <3>2, Zenon
  <2> QED
    BY <1>0, <1>2, <2>1, <2>2, <2>3 DEF Return, Outcome, Sound
<1>3. CASE /\ ev' = [ev EXCEPT ![e] = r]
           /\ poll' = polls
           /\ interest' = intr
           /\ Return("throw")
  <2>1. ev' = [evs EXCEPT ![e] = r]
    BY <1>3
  <2>2. Registry(ev', poll')
    <3>1. Registry([evs EXCEPT ![e] = r], polls)
      BY RegistryKeep
    <3> QED
      BY <1>3, <2>1, <3>1, Zenon
  <2>3. Homed(ev', poll')
    BY <1>0, <1>3, <2>1 DEF Homed
  <2> QED
    BY <1>0, <1>3, <2>1, <2>2, <2>3 DEF Return, Outcome, Sound
<1> QED
  BY <1>1, <1>2, <1>3 DEF PollWatch

\* epoll_ctl(DEL) and close keep the interest lists well-typed.
LEMMA KernelTypes ==
    ASSUME NEW intr \in Lists
    PROVE  /\ \A p \in Poll, f \in Fd : CtlDel(intr, p, f) \in Lists
           /\ \A ff : Pruned(intr, ff) \in Lists
BY DEF Lists, CtlDel, Pruned

\* A descriptor that the call opened is the event's; files are well-typed.
LEMMA OpenedTypes ==
    ASSUME NEW e \in Event, NEW f \in Fd, NEW ff \in Files, KernelTypeOK,
           Opened(e, f, ff)
    PROVE  file' \in Files /\ owner' \in [Fd -> Event \cup {"user", "none"}]
BY DEF Opened, Files, KernelTypeOK


\* What the invariant says of one event, and the shape of the state.
LEMMA IInvFacts ==
    ASSUME IInv
    PROVE  /\ Registry(ev, poll) /\ Homed(ev, poll)
           /\ \A e \in Event : ev[e] \in EventRec /\ Fine(ev[e])
           /\ ev \in [Event -> EventRec] /\ poll \in [Poll -> PollRec]
           /\ file \in Files /\ interest \in Lists
           /\ owner \in [Fd -> Event \cup {"user", "none"}]
BY DEF IInv, Sound, Registry, KernelTypeOK, Files, Lists

\* poll_watch_event with the tables as they are.
LEMMA WatchNow ==
    ASSUME IInv, NEW e \in Event, ~ev[e].enabled,
           NEW r \in EventRec, ~r.enabled, r.filter \in Kind, Fine(r),
           poll[r.p].open,
           NEW good \in EventRec, good.p = r.p, good.fd = r.fd,
           good.filter = r.filter, good.ident = r.ident,
           Fine([good EXCEPT !.enabled = TRUE]),
           NEW bad \in EventRec, ~bad.enabled, Fine(bad), bad.p = r.p,
           NEW ff \in Files,
           PollWatch(e, r, poll, interest, ff, good, bad)
    PROVE  Sound(ev', poll') /\ interest' \in Lists /\ outcome' \in Outcome
BY IInvFacts, PollWatchStep

\* Which metatables have the methods of one kind only.
LEMMA MethodFacts ==
    ASSUME NEW e \in Event
    PROVE  /\ \A m \in {"as_read", "as_write", "as_signal", "as_timer", "as_trigger"} :
                 Has(e, m) => ev[e].mt = "event"
           /\ \A m \in {"watch", "unwatch", "revert", "udata"} :
                 Has(e, m) => ev[e].mt \in Kind
           /\ \A m : Has(e, m) => ev[e].mt # "none"
<1>1. ModeMethods = {"as_level", "as_edge", "as_oneshot"}
  BY DEF ModeMethods, ModeMethod, Mode
<1> QED
  BY <1>1 DEF Has, EventMethods, TypedMethods, TriggerMethods, Kind, FdKind

\* The record that as_read, as_write, as_signal and as_timer hand to
\* poll_watch_event, and the event they leave.
LEMMA AsWatch ==
    ASSUME IInv, NEW e \in Event, ev[e].mt = "event",
           NEW kind \in Kind, NEW id \in Ident, NEW d \in Fd,
           NEW u \in Data, NEW ff \in Files,
           NEW dir, dir = (IF kind = "write" THEN "OUT" ELSE "IN"),
           NEW r, r = [ev[e] EXCEPT !.ident = id, !.filter = kind,
                                    !.events = Asks(@, dir), !.fd = d],
           PollWatch(e, r, poll, interest, ff, Keep([r EXCEPT !.mt = kind], u), r)
    PROVE  Sound(ev', poll') /\ interest' \in Lists /\ outcome' \in Outcome
<1> DEFINE g == Keep([r EXCEPT !.mt = kind], u)
<1>1. ev[e] \in EventRec /\ Fine(ev[e]) /\ Homed(ev, poll)
  BY IInvFacts
<1>2. ~ev[e].enabled
  BY <1>1 DEF Fine, Kind, FdKind
<1>3. /\ r \in EventRec /\ ~r.enabled /\ r.filter = kind /\ r.mt = "event"
      /\ r.p = ev[e].p /\ dir \in r.events
      /\ "ONESHOT" \in r.events => r.events \cap {"ET", "EXCLUSIVE"} = {}
  BY <1>1, <1>2 DEF EventRec, Asks, Flag, Fine
<1>4. Fine(r)
  BY <1>3 DEF Fine, Kind, FdKind
<1>5. /\ g \in EventRec /\ g.p = r.p /\ g.fd = r.fd /\ g.filter = r.filter
      /\ g.ident = r.ident /\ g.mt = kind /\ g.events = r.events
  <2> DEFINE h == [r EXCEPT !.mt = kind]
  <2>1. /\ h \in EventRec /\ h.p = r.p /\ h.fd = r.fd /\ h.filter = r.filter
        /\ h.ident = r.ident /\ h.mt = kind /\ h.events = r.events
    BY <1>3 DEF EventRec
  <2>2. g = h \/ g = [h EXCEPT !.udata = u]
    BY DEF Keep
  <2>3. u \in Udata \cup {NoUdata}
    BY DEF Data
  <2> HIDE DEF g, h
  <2> QED
    BY <2>1, <2>2, <2>3 DEF EventRec
<1>6. Fine([g EXCEPT !.enabled = TRUE])
  <2> HIDE DEF g
  <2> QED
    BY <1>3, <1>5 DEF Fine, EventRec
<1>7. poll[r.p].open
  BY <1>1, <1>3 DEF Homed
<1> HIDE DEF g
<1>8. PollWatch(e, r, poll, interest, ff, g, r)
  BY DEF g
<1> QED
  BY <1>2, <1>3, <1>4, <1>5, <1>6, <1>7, <1>8, WatchNow

\* A call that ends in an error message changes nothing else.
LEMMA RefusedStep == IInv /\ RefusedCall => IInv'
BY DEF IInv, RefusedCall, Return, Outcome, KernelTypeOK, Sound, Registry, Exact,
       Counted, Occupied, Backed, Homed

\* as_read and as_write, on the number itself or on a duplicate.
LEMMA AsFdStep ==
    ASSUME IInv, NEW e \in Event, ev[e].mt = "event",
           NEW kind \in FdKind, NEW other, NEW dir, NEW f \in Fd, NEW u \in Data,
           dir = (IF kind = "write" THEN "OUT" ELSE "IN"),
           AsFd(e, kind, other, dir, f, u)
    PROVE  IInv'
<1> USE DEF FdKind
<1>0. kind \in Kind /\ f \in Ident /\ file \in Files /\ KernelTypeOK
  BY IInvFacts DEF Kind, Ident, IInv
<1>1. CASE RefusedCall
  BY <1>1, RefusedStep
<1>2. ASSUME NEW r, r = [ev[e] EXCEPT !.ident = f, !.filter = kind,
                                      !.events = Asks(@, dir), !.fd = f],
             PollWatch(e, r, poll, interest, file, Keep([r EXCEPT !.mt = kind], u), r),
             UNCHANGED <<file, owner, lost>>
      PROVE  IInv'
  <2>1. Sound(ev', poll') /\ interest' \in Lists /\ outcome' \in Outcome
    BY <1>0, <1>2, AsWatch
  <2> QED
    BY <1>0, <1>2, <2>1 DEF IInv, KernelTypeOK, Lists
<1>3. ASSUME NEW d \in Fd, NEW ff, ff = [file EXCEPT ![d] = file[f]],
             NEW r, r = [ev[e] EXCEPT !.ident = f, !.filter = kind,
                                      !.events = Asks(@, dir), !.fd = d],
             PollWatch(e, r, poll, interest, ff, Keep([r EXCEPT !.mt = kind], u), r),
             Opened(e, d, ff), UNCHANGED lost
      PROVE  IInv'
  <2>1. ff \in Files
    BY <1>0, <1>3 DEF Files
  <2>2. Sound(ev', poll') /\ interest' \in Lists /\ outcome' \in Outcome
    BY <1>0, <1>3, <2>1, AsWatch
  <2>3. file' \in Files /\ owner' \in [Fd -> Event \cup {"user", "none"}]
    BY <1>0, <1>3, <2>1, OpenedTypes
  <2> QED
    BY <1>3, <2>2, <2>3 DEF IInv, KernelTypeOK, Lists, Files
<1> QED
  BY <1>1, <1>2, <1>3 DEF AsFd

\* as_signal and as_timer, on a descriptor of the library.
LEMMA AsOwnFdStep ==
    ASSUME IInv, NEW e \in Event, ev[e].mt = "event",
           NEW kind \in {"signal", "timer"}, NEW id \in Ident,
           NEW type \in {"signalfd", "timerfd"}, NEW u \in Data,
           AsOwnFd(e, kind, id, type, u)
    PROVE  IInv'
<1>0. kind \in Kind /\ kind # "write" /\ file \in Files /\ KernelTypeOK
  BY IInvFacts DEF Kind, IInv
<1>1. CASE RefusedCall
  BY <1>1, RefusedStep
<1>2. ASSUME NEW d \in Fd, NEW ff, ff = [file EXCEPT ![d] = <<type, d>>],
             NEW r, r = [ev[e] EXCEPT !.ident = id, !.filter = kind,
                                      !.events = Asks(@, "IN"), !.fd = d],
             PollWatch(e, r, poll, interest, ff, Keep([r EXCEPT !.mt = kind], u), r),
             Opened(e, d, ff), UNCHANGED lost
      PROVE  IInv'
  <2>1. ff \in Files
    BY <1>0, <1>2 DEF Files, File, LibFile
  <2>2. Sound(ev', poll') /\ interest' \in Lists /\ outcome' \in Outcome
    BY <1>0, <1>2, <2>1, AsWatch
  <2>3. file' \in Files /\ owner' \in [Fd -> Event \cup {"user", "none"}]
    BY <1>0, <1>2, <2>1, OpenedTypes
  <2> QED
    BY <1>2, <2>2, <2>3 DEF IInv, KernelTypeOK, Lists, Files
<1> QED
  BY <1>1, <1>2 DEF AsOwnFd

\* as_trigger, which stores udata first and clears its fields on failure.
LEMMA AsTriggerStep ==
    ASSUME IInv, NEW e \in Event, NEW u \in Data, AsTrigger(e, u)
    PROVE  IInv'
<1> DEFINE k == Keep(ev[e], u)
<1>0. /\ ev[e] \in EventRec /\ Fine(ev[e]) /\ Homed(ev, poll)
      /\ Registry(ev, poll) /\ KernelTypeOK /\ file \in Files
      /\ ev \in [Event -> EventRec] /\ poll \in [Poll -> PollRec]
  BY IInvFacts DEF IInv
<1>1. ev[e].mt = "event" /\ ~ev[e].enabled
  BY <1>0, MethodFacts DEF AsTrigger, Fine, Kind, FdKind
<1>2. /\ k \in EventRec /\ ~k.enabled /\ k.mt = "event" /\ k.p = ev[e].p
      /\ k.events = ev[e].events
  BY <1>0, <1>1 DEF EventRec, Keep, Data
<1>3. Fine(k) /\ poll[k.p].open
  BY <1>0, <1>1, <1>2 DEF Fine, Kind, FdKind, Homed
<1> HIDE DEF k
<1>4. CASE /\ ev' = [ev EXCEPT ![e] = k]
           /\ Return("error")
           /\ UNCHANGED <<kernelVars, poll>>
  <2>1. Registry(ev', poll')
    <3>1. Registry([ev EXCEPT ![e] = k], poll)
      BY <1>0, <1>1, <1>2, RegistryKeep
    <3> QED
      BY <1>4, <3>1, Zenon
  <2>2. Homed(ev', poll') /\ \A d \in Event : Fine(ev'[d])
    BY <1>0, <1>2, <1>3, <1>4, IInvFacts DEF Homed
  <2> QED
    BY <1>4, <2>1, <2>2 DEF IInv, Sound, Return, Outcome, kernelVars, KernelTypeOK,
                            AsTrigger
<1>5. ASSUME NEW d \in Fd, NEW ff, ff = [file EXCEPT ![d] = <<"eventfd", d>>],
             NEW r, r = [k EXCEPT !.ident = d, !.filter = "trigger",
                                  !.events = {"IN"}, !.fd = d],
             PollWatch(e, r, poll, interest, ff, [r EXCEPT !.mt = "trigger"],
                       [r EXCEPT !.ident = 0, !.filter = "none",
                                 !.events = {}, !.fd = 0]),
             Opened(e, d, ff)
      PROVE  IInv'
  <2>1. ff \in Files
    BY <1>0, <1>5 DEF Files, File, LibFile
  <2>2. /\ r \in EventRec /\ ~r.enabled /\ r.filter = "trigger" /\ r.mt = "event"
        /\ r.p = k.p /\ r.events = {"IN"}
    BY <1>2, <1>5 DEF EventRec, Ident, Kind, FdKind, Flag
  <2>3. r.filter \in Kind /\ Fine(r)
    BY <2>2 DEF Fine, Kind, FdKind
  <2> DEFINE g == [r EXCEPT !.mt = "trigger"]
             b == [r EXCEPT !.ident = 0, !.filter = "none", !.events = {}, !.fd = 0]
  <2>4. /\ g \in EventRec /\ g.p = r.p /\ g.fd = r.fd /\ g.filter = r.filter
        /\ g.ident = r.ident /\ Fine([g EXCEPT !.enabled = TRUE])
    BY <2>2 DEF EventRec, Fine, Kind, FdKind
  <2>5. b \in EventRec /\ ~b.enabled /\ b.p = r.p /\ Fine(b)
    BY <2>2, FdFacts DEF EventRec, Ident, Fine, Kind, FdKind
  <2> HIDE DEF g, b
  <2>6. PollWatch(e, r, poll, interest, ff, g, b)
    BY <1>5 DEF g, b
  <2>7. Sound(ev', poll') /\ interest' \in Lists /\ outcome' \in Outcome
    BY <1>1, <1>3, <2>1, <2>2, <2>3, <2>4, <2>5, <2>6, WatchNow
  <2>8. file' \in Files /\ owner' \in [Fd -> Event \cup {"user", "none"}]
    BY <1>0, <1>5, <2>1, OpenedTypes
  <2> QED
    BY <2>7, <2>8 DEF IInv, KernelTypeOK, Lists, Files, AsTrigger
<1> QED
  BY <1>4, <1>5 DEF AsTrigger, k

\* ev:watch
LEMMA WatchStep ==
    ASSUME IInv, NEW e \in Event, Watch(e)
    PROVE  IInv'
<1>0. /\ ev[e] \in EventRec /\ Fine(ev[e]) /\ Homed(ev, poll) /\ KernelTypeOK
      /\ file \in Files /\ ev \in [Event -> EventRec]
  BY IInvFacts DEF IInv
<1>1. ev[e].mt \in Kind /\ ev[e].filter = ev[e].mt /\ ev[e].mt # "none"
  BY <1>0, MethodFacts DEF Watch, Kind, FdKind, Fine
<1>2. CASE /\ ev[e].enabled
           /\ Return("false")
           /\ UNCHANGED <<interest, ev, poll>>
  BY <1>2 DEF Watch, IInv, Return, Outcome, KernelTypeOK, Sound, Registry, Exact,
              Counted, Occupied, Backed, Homed
<1>3. CASE ~ev[e].enabled /\ PollWatch(e, ev[e], poll, interest, file, ev[e], ev[e])
  <2> DEFINE r == ev[e]
  <2>1. Fine([r EXCEPT !.enabled = TRUE]) /\ poll[r.p].open
    BY <1>0, <1>1 DEF Fine, EventRec, Homed
  <2>2. r \in EventRec /\ ~r.enabled /\ r.filter \in Kind /\ Fine(r)
    BY <1>0, <1>1, <1>3
  <2>3. PollWatch(e, r, poll, interest, file, r, r)
    BY <1>3
  <2> HIDE DEF r
  <2>4. Sound(ev', poll') /\ interest' \in Lists /\ outcome' \in Outcome
    BY <1>0, <1>3, <2>1, <2>2, <2>3, WatchNow
  <2> QED
    BY <1>0, <2>4 DEF Watch, IInv, KernelTypeOK, Lists
<1> QED
  BY <1>2, <1>3 DEF Watch

\* What poll_unwatch_event does to an enabled event, whatever the caller then
\* makes of the event.
LEMMA Unwatched ==
    ASSUME IInv, NEW e \in Event, ev[e].enabled,
           NEW g \in EventRec, ~g.enabled, Fine(g), g.p = ev[e].p
    PROVE  /\ Sound([ev EXCEPT ![e] = g], UnwatchedPoll(e))
           /\ UnwatchedPoll(e) \in [Poll -> PollRec]
           /\ \A q \in Poll : UnwatchedPoll(e)[q].open = poll[q].open
           /\ UnwatchedIntr(e) \in Lists
           /\ poll[ev[e].p].open
<1>0. /\ Registry(ev, poll) /\ Homed(ev, poll) /\ ev[e] \in EventRec /\ Fine(ev[e])
      /\ ev \in [Event -> EventRec] /\ poll \in [Poll -> PollRec]
      /\ interest \in Lists
  BY IInvFacts
<1> DEFINE r == ev[e]
           pl == EvsetDel(poll[r.p], r)
<1>1. r.p \in Poll /\ r.fd \in Fd /\ poll[r.p].evset[r.fd] = e
  BY <1>0 DEF EventRec, Registry, Exact
<1>2. pl \in PollRec /\ pl.open = poll[r.p].open
  BY <1>0, <1>1, OccupiedDel, EventAssumption
<1>3. UnwatchedPoll(e) = [poll EXCEPT ![r.p] = pl]
  BY DEF UnwatchedPoll
<1>4. poll[r.p].open
  BY <1>0, <1>1 DEF Homed, Fine, Kind, FdKind
<1>5. Registry([ev EXCEPT ![e] = g], [poll EXCEPT ![r.p] = pl])
  BY <1>0, RegistryDel
<1> HIDE DEF pl
<1>6. Homed([ev EXCEPT ![e] = g], [poll EXCEPT ![r.p] = pl])
  BY <1>0, <1>1, <1>2, <1>4, HomedKeep
<1>7. \A d \in Event : Fine([ev EXCEPT ![e] = g][d])
  BY <1>0, IInvFacts
<1>8. Sound([ev EXCEPT ![e] = g], UnwatchedPoll(e))
  BY <1>3, <1>5, <1>6, <1>7, Zenon DEF Sound
<1>9. UnwatchedIntr(e) \in Lists
  BY <1>0, <1>1, KernelTypes DEF UnwatchedIntr
<1> QED
  BY <1>0, <1>1, <1>2, <1>3, <1>4, <1>8, <1>9

\* ev:unwatch
LEMMA UnwatchStep ==
    ASSUME IInv, NEW e \in Event, Unwatch(e)
    PROVE  IInv'
<1>0. /\ ev[e] \in EventRec /\ Fine(ev[e]) /\ KernelTypeOK
  BY IInvFacts DEF IInv
<1>1. CASE /\ ~ev[e].enabled
           /\ Return("false")
           /\ UNCHANGED <<interest, ev, poll, lost>>
  BY <1>1 DEF Unwatch, IInv, Return, Outcome, KernelTypeOK, Sound, Registry, Exact,
              Counted, Occupied, Backed, Homed
<1>2. CASE /\ ev[e].enabled
           /\ ev' = [ev EXCEPT ![e] = Disabled(e)]
           /\ poll' = UnwatchedPoll(e)
           /\ interest' = UnwatchedIntr(e)
           /\ lost' = lost \ {e}
           /\ Return(IF DelRefused(ev[e].fd) THEN "error" ELSE "ok")
  <2> DEFINE g == Disabled(e)
  <2>1. g \in EventRec /\ ~g.enabled /\ Fine(g) /\ g.p = ev[e].p
    BY <1>0 DEF Disabled, EventRec, Fine
  <2> HIDE DEF g
  <2>2. /\ Sound([ev EXCEPT ![e] = g], UnwatchedPoll(e))
        /\ UnwatchedIntr(e) \in Lists
    BY <1>2, <2>1, Unwatched
  <2>3. Sound(ev', poll')
    BY <1>2, <2>2, Zenon DEF g
  <2>4. outcome' \in Outcome /\ lost' \subseteq Event
    BY <1>2 DEF Return, Outcome, IInv
  <2>5. KernelTypeOK'
    BY <1>0, <1>2, <2>2 DEF Unwatch, KernelTypeOK, Lists
  <2> QED
    BY <2>3, <2>4, <2>5 DEF IInv
<1> QED
  BY <1>1, <1>2 DEF Unwatch

\* ev:renew
LEMMA RenewEventStep ==
    ASSUME IInv, NEW e \in Event, NEW p \in Poll, RenewEvent(e, p)
    PROVE  IInv'
<1>0. /\ ev[e] \in EventRec /\ Fine(ev[e]) /\ KernelTypeOK /\ poll[p].open
      /\ Registry(ev, poll) /\ Homed(ev, poll) /\ ev \in [Event -> EventRec]
      /\ poll \in [Poll -> PollRec] /\ file \in Files
  BY IInvFacts DEF IInv, RenewEvent
<1>1. lost' \subseteq Event /\ file' = file /\ owner' = owner
  BY DEF RenewEvent, IInv
<1> DEFINE g == Disabled(e)
           r == [g EXCEPT !.p = p]
<1>2. /\ g \in EventRec /\ ~g.enabled /\ Fine(g) /\ g.p = ev[e].p
      /\ r \in EventRec /\ ~r.enabled /\ Fine(r) /\ r.p = p
      /\ g.mt = ev[e].mt /\ r.mt = ev[e].mt /\ r.filter = ev[e].filter
  BY <1>0 DEF Disabled, EventRec, Fine
<1>3. CASE /\ ~ev[e].enabled
           /\ ev' = [ev EXCEPT ![e].p = p]
           /\ Return("ok")
           /\ UNCHANGED <<interest, poll>>
  <2>1. ev' = [ev EXCEPT ![e] = r]
    BY <1>0, <1>3 DEF Disabled, EventRec
  <2> HIDE DEF g, r
  <2>2. Registry(ev', poll')
    <3>1. Registry([ev EXCEPT ![e] = r], poll)
      BY <1>0, <1>2, <1>3, RegistryKeep
    <3> QED
      BY <1>3, <2>1, <3>1, Zenon
  <2>3. Homed(ev', poll') /\ \A d \in Event : Fine(ev'[d])
    BY <1>0, <1>2, <1>3, <2>1, IInvFacts DEF Homed
  <2> QED
    BY <1>0, <1>1, <1>3, <2>2, <2>3 DEF IInv, Sound, Return, Outcome, KernelTypeOK
<1>4. CASE /\ ev[e].enabled
           /\ ev' = [ev EXCEPT ![e] = g]
           /\ poll' = UnwatchedPoll(e)
           /\ interest' = UnwatchedIntr(e)
           /\ Return("error")
  <2> HIDE DEF g
  <2>1. /\ Sound([ev EXCEPT ![e] = g], UnwatchedPoll(e))
        /\ UnwatchedIntr(e) \in Lists
    BY <1>2, <1>4, Unwatched
  <2>2. Sound(ev', poll')
    BY <1>4, <2>1, Zenon
  <2> QED
    BY <1>0, <1>1, <1>4, <2>1, <2>2 DEF IInv, Return, Outcome, KernelTypeOK, Lists
<1>5. CASE /\ ev[e].enabled
           /\ PollWatch(e, r, UnwatchedPoll(e), UnwatchedIntr(e), file, r, r)
  <2> DEFINE evs == [ev EXCEPT ![e] = r]
             polls == UnwatchedPoll(e)
             evg == [ev EXCEPT ![e] = g]
  <2>1. r.filter \in Kind /\ Fine([r EXCEPT !.enabled = TRUE])
    BY <1>0, <1>2, <1>5 DEF Fine, EventRec
  <2>2. PollWatch(e, r, polls, UnwatchedIntr(e), file, r, r)
    BY <1>5
  <2> HIDE DEF r, g
  <2>3. /\ Sound(evg, polls) /\ UnwatchedIntr(e) \in Lists
        /\ polls \in [Poll -> PollRec]
        /\ \A q \in Poll : polls[q].open = poll[q].open
    BY <1>2, <1>5, Unwatched
  <2>4. evg[e] = g /\ evs = [evg EXCEPT ![e] = r] /\ evg \in [Event -> EventRec]
    BY <1>0, <1>2
  <2>5. Registry(evs, polls)
    <3> HIDE DEF evg, polls, evs
    <3>1. Registry(evg, polls) /\ ~evg[e].enabled
      BY <1>2, <2>3, <2>4 DEF Sound
    <3>2. Registry([evg EXCEPT ![e] = r], polls)
      BY <1>2, <3>1, RegistryKeep
    <3> QED
      BY <2>4, <3>2, Zenon
  <2>6. \A d \in Event : Fine(evs[d])
    BY <1>0, <1>2, IInvFacts
  <2>7. polls[r.p].open
    BY <1>0, <1>2, <2>3
  <2>8. Homed(evs, polls)
    <3>1. \A d \in Event : evs[d].p \in Poll /\ (evs[d].mt # "none" => poll[evs[d].p].open)
      BY <1>0, <1>2 DEF Homed, EventRec
    <3> QED
      BY <2>3, <3>1 DEF Homed
  <2>9. \A x : [evs EXCEPT ![e] = x] = [ev EXCEPT ![e] = x]
    OBVIOUS
  <2>10. ~evs[e].enabled
    BY <1>0, <1>2
  <2> HIDE DEF evs, polls, evg
  <2>11. Sound(ev', poll') /\ interest' \in Lists /\ outcome' \in Outcome
    BY <1>0, <1>2, <2>1, <2>2, <2>3, <2>5, <2>6, <2>7, <2>8, <2>9, <2>10, PollWatchStep
  <2> QED
    BY <1>0, <1>1, <2>11 DEF IInv, KernelTypeOK, Lists
<1> QED
  BY <1>3, <1>4, <1>5 DEF RenewEvent

\* close(2) of a set of descriptors.
LEMMA CloseFromTypes ==
    ASSUME KernelTypeOK, NEW intr \in Lists, NEW fds, CloseFrom(intr, fds)
    PROVE  KernelTypeOK'
<1>1. file' \in Files /\ owner' \in [Fd -> Event \cup {"user", "none"}]
  BY DEF CloseFrom, KernelTypeOK, Files
<1>2. interest' \in Lists
  BY KernelTypes DEF CloseFrom
<1> QED
  BY <1>1, <1>2 DEF KernelTypeOK, Files, Lists

\* ev:revert
LEMMA RevertStep ==
    ASSUME IInv, NEW e \in Event, Revert(e)
    PROVE  IInv'
<1>0. /\ ev[e] \in EventRec /\ Fine(ev[e]) /\ KernelTypeOK /\ interest \in Lists
      /\ Registry(ev, poll) /\ Homed(ev, poll) /\ ev \in [Event -> EventRec]
      /\ poll \in [Poll -> PollRec]
  BY IInvFacts DEF IInv
<1>1. lost' \subseteq Event /\ outcome' \in Outcome
  BY DEF Revert, IInv, Return, Outcome
<1>2. ev[e].mt \in Kind
  BY MethodFacts DEF Revert
<1> DEFINE g == Disabled(e)
           r == Reverted(ev[e])
<1>3. g \in EventRec /\ ~g.enabled /\ Fine(g) /\ g.p = ev[e].p
  BY <1>0 DEF Disabled, EventRec, Fine
<1>4. r = [mt |-> "event", p |-> ev[e].p, enabled |-> FALSE,
           ident |-> ev[e].ident, filter |-> "none", events |-> {}, fd |-> 0,
           udata |-> NoUdata]
  <2>1. PICK x : x = Fresh(ev[e].p)
    OBVIOUS
  <2>2. x = [mt |-> "event", p |-> ev[e].p, enabled |-> FALSE, ident |-> 0,
             filter |-> "none", events |-> {}, fd |-> 0, udata |-> NoUdata]
    BY <2>1 DEF Fresh
  <2>3. r = [x EXCEPT !.ident = ev[e].ident]
    BY <2>1 DEF Reverted
  <2> HIDE DEF r
  <2> QED
    BY <2>2, <2>3
<1>5. r \in EventRec /\ ~r.enabled /\ Fine(r) /\ r.p = ev[e].p
  BY <1>0, <1>4, FdFacts DEF EventRec, Fine, Kind, FdKind
<1> HIDE DEF r, g
<1>6. ASSUME NEW x \in {r, g}, ev[e].enabled, ev' = [ev EXCEPT ![e] = x]
      PROVE  Sound(ev', poll') /\ UnwatchedIntr(e) \in Lists
  <2>1. x \in EventRec /\ ~x.enabled /\ Fine(x) /\ x.p = ev[e].p
    BY <1>3, <1>5
  <2>2. /\ Sound([ev EXCEPT ![e] = x], UnwatchedPoll(e))
        /\ UnwatchedIntr(e) \in Lists
    BY <1>6, <2>1, Unwatched
  <2>3. poll' = UnwatchedPoll(e)
    BY <1>6 DEF Revert
  <2> QED
    BY <1>6, <2>2, <2>3, Zenon
<1>7. CASE /\ ev[e].enabled
           /\ ev' = [ev EXCEPT ![e] = g]
           /\ interest' = UnwatchedIntr(e)
           /\ UNCHANGED <<file, owner>>
  <2>1. Sound(ev', poll') /\ interest' \in Lists
    BY <1>6, <1>7
  <2> QED
    BY <1>0, <1>1, <1>7, <2>1 DEF IInv, KernelTypeOK, Lists
<1>8. CASE ev[e].enabled /\ ev' = [ev EXCEPT ![e] = r]
  <2>1. Sound(ev', poll') /\ UnwatchedIntr(e) \in Lists
    BY <1>6, <1>8
  <2>2. interest' = interest' /\ KernelTypeOK'
    <3>1. \/ UNCHANGED <<file, owner>> /\ interest' = UnwatchedIntr(e)
          \/ \E fds : CloseFrom(UnwatchedIntr(e), fds)
      BY <1>8 DEF Revert
    <3> QED
      BY <1>0, <2>1, <3>1, CloseFromTypes DEF KernelTypeOK, Lists
  <2> QED
    BY <1>1, <2>1, <2>2 DEF IInv
<1>9. CASE ~ev[e].enabled /\ ev' = [ev EXCEPT ![e] = r]
  <2>1. poll' = poll /\ \E fds : CloseFrom(interest, fds)
    BY <1>9 DEF Revert
  <2>2. KernelTypeOK'
    BY <1>0, <2>1, CloseFromTypes
  <2>3. Registry(ev', poll')
    <3>1. Registry([ev EXCEPT ![e] = r], poll)
      BY <1>0, <1>5, <1>9, RegistryKeep
    <3> QED
      BY <1>9, <2>1, <3>1, Zenon
  <2>4. Homed(ev', poll') /\ \A d \in Event : Fine(ev'[d])
    BY <1>0, <1>2, <1>5, <1>9, <2>1, IInvFacts DEF Homed, Kind, FdKind
  <2> QED
    BY <1>1, <2>2, <2>3, <2>4 DEF IInv, Sound
<1> QED
  <2>1. CASE ev[e].enabled /\ DelRefused(ev[e].fd)
    BY <1>7, <2>1 DEF Revert, g
  <2>2. CASE ~(ev[e].enabled /\ DelRefused(ev[e].fd))
    BY <1>8, <1>9, <2>2 DEF Revert, r
  <2> QED
    BY <2>1, <2>2

\* A call on an unwatched event that keeps it unwatched and in its instance.
LEMMA KeepStep ==
    ASSUME IInv, NEW e \in Event, ~ev[e].enabled,
           NEW g \in EventRec, ~g.enabled, Fine(g),
           g.mt # "none" => poll[g.p].open,
           ev' = [ev EXCEPT ![e] = g], poll' = poll
    PROVE  Sound(ev', poll')
<1>0. /\ Registry(ev, poll) /\ Homed(ev, poll) /\ ev \in [Event -> EventRec]
      /\ poll \in [Poll -> PollRec]
  BY IInvFacts
<1>1. Registry(ev', poll')
  <2>1. Registry([ev EXCEPT ![e] = g], poll)
    BY <1>0, RegistryKeep
  <2> QED
    BY <2>1, Zenon
<1>2. Homed(ev', poll') /\ \A d \in Event : Fine(ev'[d])
  BY <1>0, IInvFacts DEF Homed
<1> QED
  BY <1>1, <1>2 DEF Sound

\* The garbage collector takes an event that no evset holds.
LEMMA GcStep ==
    ASSUME IInv, NEW e \in Event, Gc(e)
    PROVE  IInv'
<1>0. /\ ev[e] \in EventRec /\ Registry(ev, poll) /\ KernelTypeOK
      /\ interest \in Lists
  BY IInvFacts DEF IInv
<1>1. ~ev[e].enabled
  BY <1>0 DEF Gc, Registry, Exact, EventRec
<1>2. Absent \in EventRec /\ ~Absent.enabled /\ Fine(Absent) /\ Absent.mt = "none"
  BY <1>0, FreshFacts DEF EventRec
<1>3. ev' = [ev EXCEPT ![e] = Absent] /\ poll' = poll /\ lost' = lost
      /\ outcome' = "ok"
  BY DEF Gc, Return
<1>4. Sound(ev', poll')
  BY <1>1, <1>2, <1>3, KeepStep
<1>5. KernelTypeOK'
  BY <1>0, CloseFromTypes DEF Gc
<1> QED
  BY <1>3, <1>4, <1>5 DEF IInv, Outcome

\* ep:new_event
LEMMA NewEventStep ==
    ASSUME IInv, NEW e \in Event, NEW p \in Poll, NewEvent(e, p)
    PROVE  IInv'
<1>0. Fine(ev[e]) /\ KernelTypeOK
  BY IInvFacts DEF IInv
<1>1. ~ev[e].enabled /\ poll[p].open /\ ev' = [ev EXCEPT ![e] = Fresh(p)]
      /\ poll' = poll
  BY <1>0 DEF NewEvent, Fine, Kind, FdKind
<1>2. Fresh(p) \in EventRec /\ ~Fresh(p).enabled /\ Fine(Fresh(p)) /\ Fresh(p).p = p
  BY FreshFacts
<1>3. Sound(ev', poll')
  BY <1>1, <1>2, KeepStep
<1> QED
  BY <1>0, <1>3 DEF NewEvent, IInv, KernelTypeOK, kernelVars, Return, Outcome

\* ev:as_level, ev:as_edge and ev:as_oneshot
LEMMA SetModeStep ==
    ASSUME IInv, NEW e \in Event, NEW m \in Mode, SetMode(e, m)
    PROVE  IInv'
<1>0. ev[e] \in EventRec /\ Fine(ev[e]) /\ KernelTypeOK /\ Homed(ev, poll)
  BY IInvFacts DEF IInv
<1>1. CASE RefusedCall
  BY <1>1, RefusedStep
<1>2. CASE /\ ~ev[e].enabled
           /\ ev' = [ev EXCEPT ![e].events = ModeFlags(m, @)]
           /\ Return("ok")
           /\ UNCHANGED <<kernelVars, poll, lost>>
  <2> DEFINE fl == ModeFlags(m, ev[e].events)
             g == [ev[e] EXCEPT !.events = fl]
  <2>1. /\ fl \subseteq Flag
        /\ fl \cap {"IN", "OUT"} = ev[e].events \cap {"IN", "OUT"}
        /\ "ONESHOT" \in fl => fl \cap {"ET", "EXCLUSIVE"} = {}
    <3>1. ev[e].events \subseteq Flag
      BY <1>0 DEF EventRec
    <3> QED
      BY <3>1 DEF ModeFlags, Mode, Flag
  <2> HIDE DEF fl
  <2>2. g \in EventRec /\ ~g.enabled /\ Fine(g) /\ g.p = ev[e].p /\ g.mt = ev[e].mt
    BY <1>0, <1>2, <2>1 DEF EventRec, Fine
  <2>3. ev' = [ev EXCEPT ![e] = g]
    BY <1>2 DEF fl
  <2> HIDE DEF g
  <2>4. g.mt # "none" => poll[g.p].open
    BY <1>0, <2>2 DEF Homed
  <2>5. Sound(ev', poll')
    BY <1>2, <2>2, <2>3, <2>4, KeepStep
  <2> QED
    BY <1>0, <1>2, <2>5 DEF IInv, KernelTypeOK, kernelVars, Return, Outcome
<1> QED
  BY <1>1, <1>2 DEF SetMode

\* ev:udata
LEMMA SetUdataStep ==
    ASSUME IInv, NEW e \in Event, NEW u \in Data, SetUdata(e, u)
    PROVE  IInv'
<1> DEFINE g == [ev[e] EXCEPT !.udata = u]
<1>0. /\ ev[e] \in EventRec /\ Fine(ev[e]) /\ KernelTypeOK
      /\ Registry(ev, poll) /\ Homed(ev, poll) /\ ev \in [Event -> EventRec]
      /\ poll \in [Poll -> PollRec]
  BY IInvFacts DEF IInv
<1>1. /\ g \in EventRec /\ g.enabled = ev[e].enabled /\ g.p = ev[e].p
      /\ g.fd = ev[e].fd /\ g.filter = ev[e].filter /\ g.ident = ev[e].ident
      /\ g.mt = ev[e].mt /\ Fine(g)
  BY <1>0 DEF EventRec, Data, Fine
<1>2. ev' = [ev EXCEPT ![e] = g] /\ poll' = poll
  BY DEF SetUdata
<1> HIDE DEF g
<1>3. Exact(ev', poll')
  BY <1>0, <1>1, <1>2 DEF Registry, Exact
<1>4. Backed(ev', poll')
  BY <1>0, <1>1, <1>2 DEF Registry, Backed
<1>5. Homed(ev', poll') /\ \A d \in Event : Fine(ev'[d])
  BY <1>0, <1>1, <1>2, IInvFacts DEF Homed
<1>6. ev' \in [Event -> EventRec] /\ poll' \in [Poll -> PollRec] /\ Counted(poll')
  BY <1>0, <1>1, <1>2 DEF Registry
<1> QED
  BY <1>0, <1>3, <1>4, <1>5, <1>6
     DEF SetUdata, IInv, Sound, Registry, KernelTypeOK, kernelVars, Return, Outcome

\* epoll.new and the collection of an instance: neither meets a watched event.
LEMMA EmptyPollStep ==
    ASSUME IInv, NEW p \in Poll, NEW open \in BOOLEAN,
           \A e \in Event : ~(ev[e].enabled /\ ev[e].p = p),
           open \/ \A e \in Event : ev[e].mt # "none" => ev[e].p # p,
           poll' = [poll EXCEPT ![p] = NewPollRec(open)],
           interest' = [interest EXCEPT ![p] = {}],
           Return("ok"), UNCHANGED <<file, owner, ev, lost>>
    PROVE  IInv'
<1>0. /\ Registry(ev, poll) /\ Homed(ev, poll) /\ ev \in [Event -> EventRec]
      /\ poll \in [Poll -> PollRec] /\ KernelTypeOK
  BY IInvFacts DEF IInv
<1> DEFINE pl == NewPollRec(open)
<1>1. /\ pl \in PollRec /\ pl.open = open /\ pl.nreg = 0 /\ pl.flag = {}
      /\ \A f \in Fd : pl.evset[f] = NoEvent
  BY DEF NewPollRec, PollRec
<1>2. Cardinality(Occupied(pl)) = 0
  <2>1. Occupied(pl) = {}
    BY <1>1 DEF Occupied
  <2> QED
    BY <2>1, FS_EmptySet
<1> HIDE DEF pl
<1>3. poll' = [poll EXCEPT ![p] = pl]
  BY DEF pl
<1>4. poll' \in [Poll -> PollRec]
  BY <1>0, <1>1, <1>3
<1>5. Exact(ev', poll')
  <2> SUFFICES ASSUME NEW q \in Poll, NEW f \in Fd, NEW e \in Event
               PROVE  poll'[q].evset[f] = e
                        <=> ev[e].enabled /\ ev[e].p = q /\ ev[e].fd = f
    BY DEF Exact
  <2>1. CASE q = p
    BY <1>0, <1>1, <1>3, <2>1, EventAssumption
  <2>2. CASE q # p
    BY <1>0, <1>3, <2>2 DEF Registry, Exact
  <2> QED
    BY <2>1, <2>2
<1>6. Counted(poll')
  BY <1>0, <1>1, <1>2, <1>3 DEF Registry, Counted
<1>7. Backed(ev', poll')
  BY <1>0, <1>1, <1>3 DEF Registry, Backed
<1>8. Homed(ev', poll')
  BY <1>0, <1>1, <1>3 DEF Homed
<1> QED
  BY <1>0, <1>4, <1>5, <1>6, <1>7, <1>8
     DEF IInv, Sound, Registry, KernelTypeOK, Return, Outcome

\* epoll.new, ep:renew and the collection of an instance.
LEMMA PollStep ==
    ASSUME IInv, NEW p \in Poll, PollCall(p) \/ RenewPoll(p)
    PROVE  IInv'
<1>0. /\ Homed(ev, poll) /\ KernelTypeOK /\ \A e \in Event : Fine(ev[e])
  BY IInvFacts DEF IInv
<1>1. \A e \in Event : ev[e].enabled => ev[e].mt # "none"
  BY <1>0 DEF Fine, Kind, FdKind
<1>2. CASE NewPoll(p)
  <2>1. \A e \in Event : ~(ev[e].enabled /\ ev[e].p = p)
    BY <1>0, <1>1, <1>2 DEF NewPoll, Homed
  <2> QED
    BY <1>2, <2>1, EmptyPollStep, RefusedStep DEF NewPoll
<1>3. CASE GcPoll(p)
  BY <1>1, <1>3, EmptyPollStep DEF GcPoll
<1>4. CASE RenewPoll(p)
  <2>1. CASE RefusedCall
    BY <2>1, RefusedStep
  <2>2. CASE /\ interest' = [interest EXCEPT ![p] = {}]
             /\ lost' = lost \cup {e \in Event : ev[e].enabled /\ ev[e].p = p}
             /\ Return("ok")
             /\ UNCHANGED <<file, owner, ev, poll>>
    BY <1>0, <2>2 DEF IInv, Sound, Registry, Exact, Counted, Occupied, Backed, Homed,
                      KernelTypeOK, Return, Outcome
  <2> QED
    BY <1>4, <2>1, <2>2 DEF RenewPoll
<1> QED
  BY <1>2, <1>3, <1>4 DEF PollCall

\* The application opens and closes descriptors of its own.
LEMMA UserStep == IInv /\ User => IInv'
<1> SUFFICES ASSUME IInv, User PROVE IInv'
  OBVIOUS
<1>0. KernelTypeOK /\ interest \in Lists /\ Sound(ev, poll)
  BY IInvFacts DEF IInv
<1>1. ASSUME NEW f \in Fd, NEW x \in UserFile, UserOpen(x, f)
      PROVE  IInv'
  BY <1>0, <1>1 DEF UserOpen, IInv, Sound, Registry, Exact, Counted, Occupied, Backed,
                    Homed, KernelTypeOK, Return, Outcome, File
<1>2. ASSUME NEW f \in Fd, UserClose(f)
      PROVE  IInv'
  <2>1. KernelTypeOK'
    BY <1>0, <1>2, CloseFromTypes DEF UserClose
  <2> QED
    BY <1>0, <1>2, <2>1 DEF UserClose, IInv, Sound, Registry, Exact, Counted, Occupied,
                            Backed, Homed, Return, Outcome
<1> QED
  BY <1>1, <1>2 DEF User

\* A step that changes nothing.
LEMMA StutterStep == IInv /\ UNCHANGED vars => IInv'
BY DEF IInv, Sound, Registry, Exact, Counted, Occupied, Backed, Homed, KernelTypeOK,
       vars

\* The invariant is inductive.
LEMMA NextIInv == IInv /\ [Next]_vars => IInv'
<1> SUFFICES ASSUME IInv, [Next]_vars PROVE IInv'
  OBVIOUS
<1>1. ASSUME NEW e \in Event, NEW u \in Data, As(e, u) PROVE IInv'
  <2>1. ASSUME NEW f \in Fd, AsRead(e, f, u) PROVE IInv'
    <3>1. ev[e].mt = "event"
      BY <2>1, MethodFacts DEF AsRead
    <3> QED
      BY <2>1, <3>1, AsFdStep DEF AsRead, FdKind
  <2>2. ASSUME NEW f \in Fd, AsWrite(e, f, u) PROVE IInv'
    <3>1. ev[e].mt = "event"
      BY <2>2, MethodFacts DEF AsWrite
    <3> QED
      BY <2>2, <3>1, AsFdStep DEF AsWrite, FdKind
  <2>3. ASSUME NEW s \in Signo, AsSignal(e, s, u) PROVE IInv'
    <3>1. ev[e].mt = "event" /\ s \in Ident
      BY <2>3, MethodFacts DEF AsSignal, Ident
    <3> QED
      BY <2>3, <3>1, AsOwnFdStep DEF AsSignal
  <2>4. ASSUME NEW t \in TimerId, AsTimer(e, t, u) PROVE IInv'
    <3>1. ev[e].mt = "event" /\ t \in Ident
      BY <2>4, MethodFacts DEF AsTimer, Ident
    <3> QED
      BY <2>4, <3>1, AsOwnFdStep DEF AsTimer
  <2>5. CASE AsTrigger(e, u)
    BY <2>5, AsTriggerStep
  <2> QED
    BY <1>1, <2>1, <2>2, <2>3, <2>4, <2>5 DEF As
<1>2. ASSUME NEW e \in Event, Call(e) PROVE IInv'
  <2>1. ASSUME NEW p \in Poll, NewEvent(e, p) PROVE IInv'
    BY <2>1, NewEventStep
  <2>2. ASSUME NEW m \in Modes, SetMode(e, m) PROVE IInv'
    BY <2>2, SetModeStep, EventAssumption
  <2>3. ASSUME NEW u \in Data, SetUdata(e, u) PROVE IInv'
    BY <2>3, SetUdataStep
  <2> QED
    BY <1>1, <1>2, <2>1, <2>2, <2>3, WatchStep, UnwatchStep, RevertStep, GcStep
       DEF Call
<1>3. ASSUME NEW e \in Event, Renew(e) PROVE IInv'
  BY <1>3, RenewEventStep DEF Renew
<1>4. ASSUME NEW p \in Poll, PollCall(p) \/ RenewPoll(p) PROVE IInv'
  BY <1>4, PollStep
<1>5. CASE User
  BY <1>5, UserStep
<1>6. CASE UNCHANGED vars
  BY <1>6, StutterStep
<1> QED
  BY <1>2, <1>3, <1>4, <1>5, <1>6 DEF Next

-----------------------------------------------------------------------------
(* The theorems *)

\* Every reachable state satisfies the inductive invariant: the tables of each
\* instance, its counter and its flags agree with the events, a watched event
\* has the metatable of its filter and an instance in use is not collected.
THEOREM Invariance == Spec => []IInv
BY InitIInv, NextIInv, PTL DEF Spec

\* Every field of poll_event_t and poll_t keeps its type: no call leaves the
\* descriptor -1 of event_closefd or an identifier of the wrong kind behind.
THEOREM TypeCorrect == Spec => []TypeOK
BY Invariance, IInvImplies, PTL

\* The evset of every instance holds exactly its watched events, each at its
\* descriptor, whichever calls fail and in whatever order they are made.
THEOREM EvsetIsExact == Spec => []EvsetExact
BY Invariance, IInvImplies, PTL

\* #ep never drifts from the number of watched events.
THEOREM NregIsExact == Spec => []NregExact
BY Invariance, IInvImplies, PTL

\* No (kind, identifier) pair stays taken after its event is unwatched.
THEOREM FlagsAreBacked == Spec => []FlagBacked
BY Invariance, IInvImplies, PTL

\* Every watched event has the methods of its filter and asks for its
\* direction.
THEOREM WatchedAreTyped == Spec => []WatchedIsTyped
BY Invariance, IInvImplies, PTL

\* One-shot never meets edge triggering or EPOLLEXCLUSIVE.
THEOREM ModesAreExclusive == Spec => []ModesExclusive
BY Invariance, IInvImplies, PTL

=============================================================================

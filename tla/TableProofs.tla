---------------------------- MODULE TableProofs ----------------------------
(***************************************************************************)
(* PollEvent implements WatchTable, while no event is watched again in a   *)
(* place that another one has taken: whatever happens inside the calls,    *)
(* each of them is at most one step of the table of watched pairs that the *)
(* README describes.                                                       *)
(***************************************************************************)
EXTENDS DisciplineProofs

(* Each step changes one event at most, and not in every way. *)

\* Event e may have changed: not its pair, while it has a type; it gets a type
\* only when it is watched; and it is only watched where it is.
Changed(e) ==
    LET r == ev[e]
        g == ev'[e]
    IN  /\ \A d \in Event \ {e} : ev'[d] = ev[d]
        /\ g.mt \in Kind /\ r.mt \in Kind => PairIn(g) = PairIn(r)
        /\ g.mt \in Kind /\ r.mt \notin Kind => g.enabled
        /\ g.enabled /\ ~r.enabled => g.p = r.p

WatchedIn(p) == {e \in Event : ev[e].enabled /\ ev[e].p = p}

-----------------------------------------------------------------------------
(* The counter *)

\* An instance has as many watched events as occupied slots.
LEMMA WatchedCount ==
    ASSUME IInv, NEW p \in Poll
    PROVE  poll[p].nreg = Cardinality(WatchedIn(p))
<1> DEFINE O == Occupied(poll[p])
           W == WatchedIn(p)
           F == [f \in O |-> poll[p].evset[f]]
<1>0. /\ Registry(ev, poll) /\ poll[p] \in PollRec
      /\ \A e \in Event : ev[e].fd \in Fd
  BY IInvFacts DEF EventRec
<1>1. \A f \in O : F[f] \in W /\ ev[F[f]].fd = f
  <2> SUFFICES ASSUME NEW f \in O PROVE F[f] \in W /\ ev[F[f]].fd = f
    OBVIOUS
  <2>1. f \in Fd /\ F[f] = poll[p].evset[f] /\ poll[p].evset[f] \in Event
    BY <1>0 DEF Occupied, PollRec
  <2> QED
    BY <1>0, <2>1 DEF Registry, Exact, WatchedIn
<1>2. \A e \in W : ev[e].fd \in O /\ F[ev[e].fd] = e
  <2> SUFFICES ASSUME NEW e \in W PROVE ev[e].fd \in O /\ F[ev[e].fd] = e
    OBVIOUS
  <2>1. e \in Event /\ poll[p].evset[ev[e].fd] = e
    BY <1>0 DEF WatchedIn, Registry, Exact
  <2> QED
    BY <1>0, <2>1, EventAssumption DEF Occupied
<1>3. IsFiniteSet(O)
  BY FdFacts, FS_Subset DEF Occupied
<1> HIDE DEF W, O
<1>4. F \in [O -> W]
  BY <1>1
<1> HIDE DEF F
<1>5. F \in Bijection(O, W)
  BY <1>1, <1>2, <1>4 DEF Bijection, Injection, Surjection,
                          IsInjective
<1>6. Cardinality(W) = Cardinality(O)
  BY <1>3, <1>5, FS_Bijection DEF ExistsBijection
<1> QED
  BY <1>0, <1>6 DEF Registry, Counted, W, O

\* #ep follows from what is watched.
LEMMA IInvSized == IInv => Table!Sized
<1> SUFFICES ASSUME IInv PROVE Table!Sized
  OBVIOUS
<1> DEFINE on == [e \in Event |-> ev[e].enabled]
           home == [e \in Event |-> ev[e].p]
<1>1. \A p \in Poll : {e \in Event : on[e] /\ home[e] = p} = WatchedIn(p)
  BY DEF WatchedIn
<1>2. \A p \in Poll : poll[p].nreg = Cardinality({e \in Event : on[e] /\ home[e] = p})
  BY <1>1, WatchedCount
<1> DEFINE size == [p \in Poll |-> poll[p].nreg]
<1>3. Table!Sized <=>
        size = [p \in Poll |-> Cardinality({e \in Event : on[e] /\ home[e] = p})]
  BY DEF Table!Sized, Table!Cardinality, Cardinality
<1> HIDE DEF on, home
<1> QED
  BY <1>2, <1>3

-----------------------------------------------------------------------------
(* Every action changes one event at most *)

\* What poll_watch_event may leave of the event.
LeavesEvent(e, r, good, bad) ==
    /\ \A d \in Event \ {e} : ev'[d] = ev[d]
    /\ \/ /\ ev'[e].enabled /\ ev'[e].mt = good.mt /\ ev'[e].p = good.p
          /\ ev'[e].filter = good.filter /\ ev'[e].ident = good.ident
       \/ ev'[e] = bad
       \/ ev'[e] = r

LEMMA PollWatchLeaves ==
    ASSUME NEW e \in Event, ev \in [Event -> EventRec], NEW good \in EventRec,
           NEW r, NEW polls, NEW intr, NEW ff, NEW bad,
           PollWatch(e, r, polls, intr, ff, good, bad)
    PROVE  LeavesEvent(e, r, good, bad)
BY DEF PollWatch, EventRec, LeavesEvent

\* as_read ... as_trigger.
LEMMA AsChanges ==
    ASSUME IInv, NEW e \in Event, NEW u \in Data, As(e, u)
    PROVE  Changed(e)
<1>0. ev \in [Event -> EventRec] /\ ev[e] \in EventRec /\ Fine(ev[e])
  BY IInvFacts
<1>1. ev[e].mt = "event" /\ ev[e].mt \notin Kind
  BY MethodFacts DEF As, AsRead, AsWrite, AsSignal, AsTimer, AsTrigger, Kind, FdKind
<1>2. CASE UNCHANGED ev
  BY <1>1, <1>2 DEF Changed
<1>3. ASSUME NEW kind \in Kind, NEW id \in Ident, NEW d \in Fd, NEW ff,
             NEW dir, dir = (IF kind = "write" THEN "OUT" ELSE "IN"),
             NEW r, r = Asked(e, kind, id, dir, d),
             NEW g, g = Typed(e, kind, id, dir, d, u),
             PollWatch(e, r, poll, interest, ff, g, r)
      PROVE  Changed(e)
  <2>1. r \in EventRec /\ r.mt = "event" /\ g \in EventRec /\ g.p = ev[e].p
        /\ ~r.enabled
    BY <1>1, <1>3, AskedFacts
  <2>2. PollWatch(e, r, poll, interest, ff, g, r)
    BY <1>3
  <2>3. LeavesEvent(e, r, g, r)
    BY <1>0, <2>1, <2>2, PollWatchLeaves
  <2> QED
    BY <1>1, <2>1, <2>3 DEF Changed, LeavesEvent, Kind, FdKind
<1>4. ASSUME NEW kind \in FdKind, NEW other, NEW dir, NEW f \in Fd,
             dir = (IF kind = "write" THEN "OUT" ELSE "IN"),
             AsFd(e, kind, other, dir, f, u)
      PROVE  Changed(e)
  BY <1>2, <1>3, <1>4 DEF AsFd, RefusedCall, Asked, Typed, Kind, Ident
<1>5. ASSUME NEW kind \in {"signal", "timer"}, NEW id \in Ident, NEW type,
             AsOwnFd(e, kind, id, type, u)
      PROVE  Changed(e)
  <2>1. kind \in Kind /\ kind # "write"
    BY DEF Kind
  <2> QED
    BY <1>2, <1>3, <1>5, <2>1 DEF AsOwnFd, RefusedCall, Asked, Typed
<1>6. CASE AsTrigger(e, u)
  <2>1. PICK k : k = Keep(ev[e], u)  OBVIOUS
  <2>2. k \in EventRec /\ k.mt = "event" /\ k.p = ev[e].p /\ k.enabled = ev[e].enabled
    BY <1>0, <1>1, <2>1 DEF EventRec, Keep, Data
  <2>3. ~ev[e].enabled
    BY <1>0, <1>1 DEF Fine
  <2>4. CASE ev' = [ev EXCEPT ![e] = k]
    BY <1>0, <1>1, <2>2, <2>3, <2>4 DEF Changed, Kind, FdKind
  <2>5. ASSUME NEW d \in Fd, NEW ff,
               NEW r, r = [k EXCEPT !.ident = d, !.filter = "trigger",
                                    !.events = {"IN"}, !.fd = d],
               NEW g, g = [r EXCEPT !.mt = "trigger"],
               NEW b, b = [r EXCEPT !.ident = 0, !.filter = "none",
                                    !.events = {}, !.fd = 0],
               PollWatch(e, r, poll, interest, ff, g, b)
        PROVE  Changed(e)
    <3>1. /\ r \in EventRec /\ g \in EventRec /\ g.p = k.p
          /\ r.mt = "event" /\ b.mt = "event" /\ ~r.enabled /\ ~b.enabled
      BY <2>2, <2>3, <2>5 DEF EventRec, Ident, Kind, FdKind, Flag
    <3>2. PollWatch(e, r, poll, interest, ff, g, b)
      BY <2>5
    <3>3. LeavesEvent(e, r, g, b)
      BY <1>0, <3>1, <3>2, PollWatchLeaves
    <3> QED
      BY <1>1, <2>2, <3>1, <3>3 DEF Changed, LeavesEvent, Kind, FdKind
  <2> QED
    BY <1>6, <2>1, <2>4, <2>5 DEF AsTrigger
<1> QED
  BY <1>4, <1>5, <1>6 DEF As, AsRead, AsWrite, AsSignal, AsTimer, FdKind, Ident

\* The calls on one event.
LEMMA CallChanges ==
    ASSUME IInv, NEW e \in Event, Call(e) \/ Renew(e)
    PROVE  Changed(e)
<1>0. /\ ev \in [Event -> EventRec] /\ ev[e] \in EventRec
      /\ ev[e].enabled => ev[e].mt \in Kind
  BY IInvFacts DEF Fine
<1>1. CASE UNCHANGED ev
  BY <1>1 DEF Changed
<1>2. CASE \E u \in Data : As(e, u)
  BY <1>2, AsChanges
<1>3. ASSUME NEW g, ~g.enabled, g.mt \notin Kind, ev' = [ev EXCEPT ![e] = g]
      PROVE  Changed(e)
  BY <1>0, <1>3 DEF Changed
<1>4. ASSUME NEW g, g.mt = ev[e].mt, g.filter = ev[e].filter, g.ident = ev[e].ident,
             ev' = [ev EXCEPT ![e] = g], g.enabled => ev[e].enabled \/ g.p = ev[e].p,
             g.mt \in Kind
      PROVE  Changed(e)
  BY <1>0, <1>4 DEF Changed, PairIn
<1>5. ASSUME Watch(e) \/ Unwatch(e) \/ Renew(e)
      PROVE  Changed(e)
  <2>1. ev[e].mt \in Kind \/ ~ev[e].enabled
    BY <1>0
  <2>2. \/ UNCHANGED ev
        \/ \E g : /\ ev' = [ev EXCEPT ![e] = g]
                  /\ g.mt = ev[e].mt /\ g.filter = ev[e].filter /\ g.ident = ev[e].ident
                  /\ g.enabled => ev[e].enabled \/ g.p = ev[e].p
    <3>1. CASE Unwatch(e)
      BY <1>0, <3>1 DEF Unwatch, Disabled, EventRec
    <3>2. CASE Watch(e)
      <4>1. CASE PollWatch(e, ev[e], poll, interest, file, ev[e], ev[e])
        <5>1. \/ ev' = [ev EXCEPT ![e] = [ev[e] EXCEPT !.enabled = TRUE]]
              \/ ev' = [ev EXCEPT ![e] = ev[e]]
          BY <4>1 DEF PollWatch
        <5> QED
          BY <1>0, <5>1 DEF EventRec
      <4> QED
        BY <3>2, <4>1 DEF Watch
    <3>3. ASSUME NEW p \in Poll, RenewEvent(e, p)
          PROVE  \E g : /\ ev' = [ev EXCEPT ![e] = g]
                        /\ g.mt = ev[e].mt /\ g.filter = ev[e].filter
                        /\ g.ident = ev[e].ident
                        /\ g.enabled => ev[e].enabled \/ g.p = ev[e].p
      <4>1. PICK r : r = [Disabled(e) EXCEPT !.p = p]  OBVIOUS
      <4>2. r \in EventRec /\ r.mt = ev[e].mt /\ r.filter = ev[e].filter
            /\ r.ident = ev[e].ident /\ ~r.enabled
        BY <1>0, <4>1 DEF Disabled, EventRec
      <4>3. CASE PollWatch(e, r, UnwatchedPoll(e), UnwatchedIntr(e), file, r, r)
                 /\ ev[e].enabled
        <5>1. \/ ev' = [ev EXCEPT ![e] = [r EXCEPT !.enabled = TRUE]]
              \/ ev' = [ev EXCEPT ![e] = r]
          BY <4>3 DEF PollWatch
        <5> QED
          BY <1>0, <4>2, <4>3, <5>1 DEF EventRec
      <4>4. CASE ev' = [ev EXCEPT ![e] = Disabled(e)]
        BY <1>0, <4>4 DEF EventRec, Disabled
      <4>5. CASE ev' = [ev EXCEPT ![e].p = p] /\ ~ev[e].enabled
        <5>1. ev' = [ev EXCEPT ![e] = [ev[e] EXCEPT !.p = p]]
          BY <1>0, <4>5
        <5>2. [ev[e] EXCEPT !.p = p].mt = ev[e].mt
              /\ [ev[e] EXCEPT !.p = p].filter = ev[e].filter
              /\ [ev[e] EXCEPT !.p = p].ident = ev[e].ident
              /\ [ev[e] EXCEPT !.p = p].enabled = ev[e].enabled
          BY <1>0 DEF EventRec
        <5> QED
          BY <4>5, <5>1, <5>2
      <4> QED
        BY <3>3, <4>1, <4>3, <4>4, <4>5 DEF RenewEvent
    <3> QED
      BY <1>5, <3>1, <3>2, <3>3 DEF Renew
  <2> QED
    BY <1>0, <2>1, <2>2 DEF Changed, PairIn
<1>6. ASSUME NEW u \in Data, SetUdata(e, u) PROVE Changed(e)
  BY <1>0, <1>6 DEF SetUdata, Changed, EventRec, PairIn
<1>7. ASSUME NEW m \in Modes, SetMode(e, m) PROVE Changed(e)
  BY <1>0, <1>7 DEF SetMode, RefusedCall, Changed, EventRec, PairIn
<1>8. CASE Revert(e)
  <2>1. PICK g : g = Reverted(ev[e])  OBVIOUS
  <2>2. g.mt = "event" /\ ~g.enabled
    <3>1. Fresh(ev[e].p).mt = "event" /\ ~Fresh(ev[e].p).enabled
      BY <1>0, FreshFacts DEF EventRec
    <3> QED
      BY <2>1, <3>1 DEF Reverted, Fresh
  <2>3. CASE ev' = [ev EXCEPT ![e] = g]
    BY <1>0, <2>2, <2>3 DEF Changed, Kind, FdKind
  <2>4. CASE ev' = [ev EXCEPT ![e] = Disabled(e)]
    BY <1>0, <2>4 DEF Changed, Disabled, EventRec, PairIn
  <2> QED
    BY <1>8, <2>1, <2>3, <2>4 DEF Revert
<1>9. CASE Gc(e)
  <2>1. ev' = [ev EXCEPT ![e] = Absent] /\ ~Absent.enabled /\ Absent.mt = "none"
    BY <1>0, <1>9, FreshFacts DEF Gc, EventRec
  <2> QED
    BY <1>0, <2>1 DEF Changed, Kind, FdKind
<1>10. ASSUME NEW p \in Poll, NewEvent(e, p) PROVE Changed(e)
  <2>1. ev' = [ev EXCEPT ![e] = Fresh(p)] /\ ~Fresh(p).enabled /\ Fresh(p).mt = "event"
    BY <1>10, FreshFacts DEF NewEvent
  <2> QED
    BY <1>0, <2>1 DEF Changed, Kind, FdKind
<1> QED
  BY <1>2, <1>5, <1>6, <1>7, <1>8, <1>9, <1>10 DEF Call

\* A step of the program changes one event at most.
LEMMA NextChanges ==
    ASSUME IInv, [Next]_vars
    PROVE  UNCHANGED ev \/ \E e \in Event : Changed(e)
<1>1. ASSUME NEW p \in Poll, PollCall(p) \/ RenewPoll(p) PROVE UNCHANGED ev
  BY <1>1 DEF PollCall, NewPoll, GcPoll, RenewPoll, RefusedCall
<1>2. CASE User
  BY <1>2 DEF User, UserOpen, UserClose
<1>3. CASE UNCHANGED vars
  BY <1>3 DEF vars
<1> QED
  BY <1>1, <1>2, <1>3, CallChanges DEF Next

-----------------------------------------------------------------------------
(* A change of one event is a step of the table *)

\* The initial states are initial states of the table.
LEMMA InitTable == Init => Table!Init
<1> SUFFICES ASSUME Init PROVE Table!Init
  OBVIOUS
<1>1. IInv /\ Table!Sized
  BY InitIInv, IInvSized
<1>2. PICK q \in Poll : TRUE
  BY KernelAssumption
<1>3. PICK g : g = Absent  OBVIOUS
<1>4. g \in EventRec /\ ~g.enabled /\ g.mt = "none" /\ \A e \in Event : ev[e] = g
  BY <1>2, <1>3, FreshFacts DEF Init
<1>5. \A e \in Event : PairOf(e) = NoPair /\ ev[e].enabled = FALSE /\ ev[e].p \in Poll
  BY <1>4 DEF PairOf, Kind, FdKind, EventRec
<1> QED
  BY <1>1, <1>5 DEF Table!Init

\* A step that changes event e is a step of the table on e.
LEMMA StepTable ==
    ASSUME PInv, PInv', NEW e \in Event, Changed(e)
    PROVE  Table!Changes(e) /\ Table!Sized'
<1> DEFINE r == ev[e]
           g == ev'[e]
           k == PairOf(e)'
           P == [x \in Event |-> PairOf(x)]
           H == [x \in Event |-> ev[x].p]
           O == [x \in Event |-> ev[x].enabled]
<1>0. /\ r \in EventRec /\ g \in EventRec /\ g.p \in Poll /\ r.p \in Poll
      /\ \A d \in Event : ev[d].enabled => /\ ev[d].mt \in Kind
                                           /\ ev[d].filter = ev[d].mt
      /\ g.enabled => g.mt \in Kind
      /\ Unique(ev')
  <2>1. /\ \A d \in Event : ev'[d] \in EventRec /\ Fine(ev'[d])
        /\ Unique(ev')
    BY DEF PInv, IInv, Sound, Registry, Paired
  <2> QED
    BY <2>1, IInvFacts DEF PInv, EventRec, Fine
<1>1. Table!Sized'
  <2>1. IInv'
    BY DEF PInv
  <2> QED
    BY <2>1, IInvSized, PTL
<1>2. /\ \A d \in Event \ {e} : ev'[d] = ev[d]
      /\ k = IF g.mt \in Kind THEN PairIn(g) ELSE NoPair
      /\ PairOf(e) = IF r.mt \in Kind THEN PairIn(r) ELSE NoPair
  BY DEF Changed, PairOf, PairIn
<1>3. P' = [P EXCEPT ![e] = k]
  <2>1. \A d \in Event \ {e} : PairOf(d)' = PairOf(d)
    BY <1>2 DEF PairOf
  <2> QED
    BY <2>1
<1>4. H' = [H EXCEPT ![e] = g.p]
  BY <1>2
<1>5. O' = [O EXCEPT ![e] = g.enabled]
  BY <1>2
<1>6. ASSUME NEW x, k = x, NEW w, g.enabled = w PROVE Table!Becomes(e, x, g.p, w)
  BY <1>3, <1>4, <1>5, <1>6 DEF Table!Becomes
<1>7. P[e] = PairOf(e) /\ P'[e] = k /\ H[e] = r.p /\ O[e] = r.enabled
  OBVIOUS
<1>8. CASE g.mt \notin Kind
  <2>1. k = NoPair /\ g.enabled = FALSE
    BY <1>0, <1>2, <1>8 DEF EventRec
  <2>2. Table!Forget(e, g.p)
    BY <1>6, <2>1 DEF Table!Forget
  <2> QED
    BY <1>0, <1>1, <2>2 DEF Table!Changes
<1>9. CASE g.mt \in Kind /\ ~g.enabled
  <2>1. k = P[e] /\ g.enabled = FALSE
    BY <1>0, <1>2, <1>7, <1>9 DEF Changed, EventRec
  <2>2. Table!Move(e, g.p)
    BY <1>6, <2>1 DEF Table!Move
  <2> QED
    BY <1>0, <1>1, <2>2 DEF Table!Changes
<1>10. CASE g.enabled
  <2>1. g.mt \in Kind /\ k = PairIn(g) /\ g.enabled = TRUE
    BY <1>0, <1>2, <1>10 DEF EventRec
  <2>2. \A d \in Event \ {e} : O[d] => <<H[d], P[d]>> # <<g.p, k>>
    <3> SUFFICES ASSUME NEW d \in Event \ {e}, ev[d].enabled, ev[d].p = g.p
                 PROVE  PairOf(d) # k
      OBVIOUS
    <3>1. ev'[d] = ev[d] /\ PairOf(d) = PairIn(ev[d])
      BY <1>0, <1>2 DEF PairOf, PairIn
    <3> QED
      BY <1>0, <1>10, <2>1, <3>1 DEF Unique
  <2>3. Table!Unused(e, g.p, k)
    BY <2>2 DEF Table!Unused
  <2>4. CASE r.enabled
    <3>1. k = P[e] /\ O[e]
      BY <1>0, <1>2, <1>7, <2>1, <2>4 DEF Changed
    <3>2. Table!Move(e, g.p)
      BY <1>6, <2>1, <2>3, <3>1 DEF Table!Move
    <3> QED
      BY <1>0, <1>1, <3>2 DEF Table!Changes
  <2>5. CASE ~r.enabled
    <3>1. g.p = H[e] /\ ~O[e] /\ P[e] \in {NoPair, k}
      BY <1>2, <1>7, <1>10, <2>1, <2>5 DEF Changed
    <3>2. k \in Pair
      BY <1>0, <2>1, <1>10 DEF Pair, PairIn, EventRec, PInv, IInv, Sound, Fine
    <3>3. Table!Watch(e)
      BY <1>6, <1>7, <2>1, <2>3, <3>1, <3>2 DEF Table!Watch
    <3> QED
      BY <1>1, <3>3 DEF Table!Changes
  <2> QED
    BY <2>4, <2>5
<1> QED
  BY <1>8, <1>9, <1>10

\* A step that changes no event changes nothing of the table.
LEMMA StutterTable ==
    ASSUME PInv, PInv', UNCHANGED ev
    PROVE  UNCHANGED Table!tableVars
<1>1. Table!Sized
  BY IInvSized DEF PInv
<1>2. Table!Sized'
  <2>1. IInv'
    BY DEF PInv
  <2> QED
    BY <2>1, IInvSized, PTL
<1>3. /\ UNCHANGED [e \in Event |-> PairOf(e)]
      /\ UNCHANGED [e \in Event |-> ev[e].p]
      /\ UNCHANGED [e \in Event |-> ev[e].enabled]
  BY DEF PairOf
<1>4. UNCHANGED [p \in Poll |-> poll[p].nreg]
  BY <1>1, <1>2 DEF Table!Sized
<1> QED
  BY <1>3, <1>4 DEF Table!tableVars

\* The calls implement the table of watched pairs: an event is watched under
\* one pair that nobody else of its instance has, keeps it until it is reverted
\* or collected, and #ep counts what is watched; whichever calls fail and
\* whatever the application closes, as long as it watches no event again in a
\* place that another one has taken.
THEOREM Refinement == ASSUME ~Rewatches PROVE Spec => TableSpec
<1>1. Init => Table!Init /\ PInv
  BY InitTable, InitPInv
<1>2. PInv /\ [Next]_vars => PInv'
  BY NextPInv
<1>3. ASSUME PInv, PInv', [Next]_vars
      PROVE  [Table!Next]_(Table!tableVars)
  <2>1. IInv
    BY <1>3 DEF PInv
  <2> QED
    BY <1>3, <2>1, NextChanges, StepTable, StutterTable DEF Table!Next
<1> QED
  BY <1>1, <1>2, <1>3, PTL DEF Spec, TableSpec, Table!Spec

=============================================================================

--------------------------- MODULE DeliveryProofs ---------------------------
(***************************************************************************)
(* Proofs about PollLoop for an application that registers no descriptor   *)
(* number while an unconsumed slot names it: what consume hands out is     *)
(* true, the loop implements Notifier, no wake-up is forgotten and, if     *)
(* signals are not watched in several epoll instances, no read blocks.     *)
(***************************************************************************)
EXTENDS LoopProofs, TableProofs

\* Several instances that watch a signal take it from one another.
Alone == \E p : Poll = {p}

-----------------------------------------------------------------------------
(* The invariant *)

\* The slots that are still to be delivered, and the descriptors they name.
ToCome(b)   == b.cur + 1 .. b.nevt
Named(b, f) == \E k \in ToCome(b) : b.list[k].fd = f

\* The index of a batch is in front of a slot, or wait or renew has thrown the
\* last slot away and is about to reset it.
Cleaning(p) == call.op \in {"wait", "renew"} /\ call.p = p
Inside(p) ==
    LET b == batch[p] IN
    /\ b.cur <= b.size
    /\ b.nevt # 0 => b.cur < b.nevt \/ (Cleaning(p) /\ b.cur <= b.nevt)

\* The descriptor of an event that is a signal, a timer or a trigger has
\* something to read.
Due(r, dat, pnd) ==
    IF r.filter = "signal" THEN dat[r.fd] \in pnd ELSE dat[r.fd] > 0

\* What is due to r stays due until r reads it.
Steady(r) == r.filter \notin FdKind /\ (r.filter = "signal" => Alone)

Level(flags) == flags \cap {"ET", "ONESHOT"} = {}

\* A slot whose descriptor is watched is about this registration; what it
\* reports has not been read; and a level-triggered entry is still queued.
Live(p, s) ==
    LET e == poll[p].evset[s.fd] IN
    e # NoEvent =>
        /\ s.from = e
        /\ Steady(ev[e]) => Due(ev[e], data, pending)
        /\ e \notin lost /\ Level(ev[e].events) => \E i \in queued[p] : i.fd = s.fd

Lively(p) ==
    LET b == batch[p] IN
    /\ \A j, k \in ToCome(b) : b.list[j].fd = b.list[k].fd => j = k
    /\ \A k \in ToCome(b) : Live(p, b.list[k])

\* A one-shot entry is disarmed while its report is to be delivered, and not
\* longer: delivering it unregisters the event.
Spent(p) == \A i \in disarmed[p] : "ONESHOT" \in i.events /\ Named(batch[p], i.fd)

\* A signalfd reads the signal of its event.
Signals == \A e \in Event : ev[e].mt = "signal" => data[ev[e].fd] = ev[e].ident

\* WakeupPending, of one event.
Woken(e) ==
    ev[e].enabled /\ ev[e].filter \notin FdKind /\ e \notin lost
    /\ Due(ev[e], data, pending) /\ Coalesces(e)
        => \/ Named(batch[ev[e].p], ev[e].fd)
           \/ \E i \in queued[ev[e].p] : i.fd = ev[e].fd

\* What consume has returned.
Answer ==
    result.ev # NoEvent =>
        /\ result.disabled = ~ev[result.ev].enabled
        /\ result.eof <=> result.ev \in hungup

Delivery ==
    /\ \A p \in Poll : Inside(p) /\ Lively(p) /\ Spent(p)
    /\ Signals
    /\ \A e \in Event : Woken(e)

EInv == LInv /\ Delivery /\ Answer

-----------------------------------------------------------------------------
(* Lemmas about registrations that a step leaves alone *)

\* A step of PollEvent that deletes and adds again at most what redone names.
RegStep(redone) ==
    \/ \E e \in Event : Call(e)
    \/ \E e \in Event : Renew(e) /\ (ev[e].enabled => <<ev[e].p, ev[e].fd>> \in redone)
    \/ \E p \in Poll : PollCall(p) \/ RenewPoll(p)
    \/ User
    \/ UNCHANGED vars

\* The event that a table holds, and its entry.
LEMMA InPlace ==
    ASSUME DInv, NEW p \in Poll, NEW f \in Fd
    PROVE  /\ poll[p].evset[f] \in Event \cup {NoEvent}
           /\ \A e \in Event : poll[p].evset[f] = e <=>
                 ev[e].enabled /\ ev[e].p = p /\ ev[e].fd = f
           /\ \A i \in interest[p] : i.fd = f =>
                 /\ poll[p].evset[f] \in Event
                 /\ i = Entry(f, file, ev[poll[p].evset[f]].events)
           /\ \A e \in Event : poll[p].evset[f] = e /\ e \notin lost =>
                 Entry(f, file, ev[e].events) \in interest[p]
<1>1. /\ Registry(ev, poll) /\ poll \in [Poll -> PollRec] /\ interest \in Lists
      /\ Orderly(ev, file, owner, interest, lost)
  BY DInvFacts
<1>2. poll[p].evset[f] \in Event \cup {NoEvent}
  BY <1>1 DEF PollRec
<1>3. \A e \in Event : poll[p].evset[f] = e <=>
                          ev[e].enabled /\ ev[e].p = p /\ ev[e].fd = f
  BY <1>1 DEF Registry, Exact
<1>4. ASSUME NEW i \in interest[p], i.fd = f
      PROVE  /\ poll[p].evset[f] \in Event
             /\ i = Entry(f, file, ev[poll[p].evset[f]].events)
  <2>1. i \in Interest
    BY <1>1, <1>4 DEF Lists
  <2>2. /\ i.file = file[f]
        /\ \E e \in Event : /\ ev[e].enabled /\ ev[e].p = p /\ ev[e].fd = f
                            /\ ev[e].events = i.events
    BY <1>1, <1>4 DEF Orderly, Known
  <2>3. PICK e \in Event : e = poll[p].evset[f] /\ ev[e].events = i.events
    BY <1>3, <2>2
  <2> QED
    BY <1>4, <2>1, <2>2, <2>3 DEF Interest, Entry
<1>5. \A e \in Event : poll[p].evset[f] = e /\ e \notin lost =>
                          Entry(f, file, ev[e].events) \in interest[p]
  BY <1>1, <1>3 DEF Orderly, Watched
<1> QED
  BY <1>2, <1>3, <1>4, <1>5

\* A registration that is in place before and after the step, and that the
\* step has not renewed, is the same one.
LEMMA Untouched ==
    ASSUME LInv, LInv', NEW redone, RegStep(redone), NEW p \in Poll, NEW f \in Fd,
           ~Touched(redone, p, f), NEW e \in Event,
           \/ poll[p].evset[f] = e
           \/ poll'[p].evset[f] = e
    PROVE  /\ poll[p].evset[f] = e /\ poll'[p].evset[f] = e
           /\ ev[e].enabled /\ ev[e].p = p /\ ev[e].fd = f
           /\ ev'[e].enabled /\ ev'[e].p = p /\ ev'[e].fd = f
           /\ ev'[e].events = ev[e].events /\ ev'[e].filter = ev[e].filter
           /\ file'[f] = file[f] /\ (e \in lost => e \in lost')
<1>1. poll[p].evset[f] = e /\ poll'[p].evset[f] = e /\ <<p, f>> \notin redone
  BY DEF Touched
<1>2. ev[e].enabled /\ ev[e].p = p /\ ev[e].fd = f
  BY <1>1, InPlace DEF LInv
<1>3. ev'[e].enabled /\ ev'[e].p = p /\ ev'[e].fd = f
  BY <1>1, DInvNext DEF LInv, Exact
<1>4. [Next]_vars
  BY DEF RegStep, Next
<1>5. /\ ev[e].mt \in Kind /\ ev'[e].mt \in Kind
      /\ CanPoll(file[f]) /\ CanPoll(file'[f])
  BY <1>2, <1>3, DInvFacts, DInvNext DEF LInv, Holds, Fine
<1>6. ev'[e].filter = ev[e].filter
  BY <1>4, <1>5, StepStays DEF LInv, Stays
<1>7. file'[f] = file[f]
  BY <1>4, <1>5, StepTurns, CanPollFacts DEF LInv, Turned
<1>9. ASSUME NEW d \in Event, Call(d) PROVE Quiet(e)
  <2>1. CASE d = e
    BY <1>9, <2>1, CallQuiet DEF LInv
  <2>2. CASE d # e
    BY <1>9, <2>2, CallStays, CallQuiet DEF LInv, Quiet
  <2> QED
    BY <2>1, <2>2
<1>10. ASSUME NEW d \in Event, Renew(d),
              ev[d].enabled => <<ev[d].p, ev[d].fd>> \in redone
       PROVE  Quiet(e)
  <2>1. d # e
    BY <1>1, <1>2, <1>10
  <2>2. lost' = lost \ {d}
    BY <1>10 DEF Renew, RenewEvent
  <2> QED
    BY <1>10, <2>1, <2>2, CallStays DEF LInv, Quiet
<1>11. ASSUME NEW q \in Poll, PollCall(q) \/ RenewPoll(q) PROVE Quiet(e)
  BY <1>11 DEF PollCall, NewPoll, GcPoll, RenewPoll, RefusedCall, Quiet
<1>12. ASSUME User PROVE Quiet(e)
  BY <1>12 DEF User, UserOpen, UserClose, Quiet
<1>13. ASSUME UNCHANGED vars PROVE Quiet(e)
  BY <1>13 DEF vars, Quiet
<1>14. Quiet(e)
  BY <1>9, <1>10, <1>11, <1>12, <1>13 DEF RegStep
<1> QED
  BY <1>1, <1>2, <1>3, <1>6, <1>7, <1>14 DEF Quiet

\* The descriptor of a signal, timer or trigger belongs to one event, and can
\* be read when the event is due.
LEMMA DeviceFacts ==
    ASSUME LInv, NEW e \in Event, ev[e].mt \in Kind, ev[e].filter \notin FdKind
    PROVE  /\ ev[e].fd \in Fd /\ ev[e].filter = ev[e].mt
           /\ file[ev[e].fd] = <<Maker[ev[e].filter], ev[e].fd>>
           /\ StateOf(file[ev[e].fd]) = IF Due(ev[e], data, pending) THEN {"IN"} ELSE {}
           /\ \A d \in Event : d # e /\ ev[d].mt \in Kind => ev[d].fd # ev[e].fd
<1>1. /\ ev[e].fd \in Fd /\ ev[e].filter = ev[e].mt
      /\ \A d \in Event : Holds(d, ev[d], file, owner)
  BY DInvFacts DEF LInv
<1>2. PICK f \in Fd : f = ev[e].fd
  BY <1>1
<1>3. PICK m : m = Maker[ev[e].filter]  OBVIOUS
<1>4. file[f] = <<m, f>>
  BY <1>2, <1>3 DEF LInv, Made, MadeOf
<1>5. m \in {"signalfd", "timerfd", "eventfd"} /\ (m = "signalfd" <=> ev[e].filter = "signal")
  BY <1>1, <1>3 DEF Kind, FdKind, Maker
<1>6. file[f] \in LibFile /\ file[f] \notin UserFile
  BY <1>4, <1>5, KernelAssumption DEF LibFile
<1>7. StateOf(file[f]) = IF Due(ev[e], data, pending) THEN {"IN"} ELSE {}
  BY <1>2, <1>4, <1>5, <1>6 DEF StateOf, Due
<1>8. owner[f] = e
  BY <1>1, <1>2 DEF Holds, ClosesFd
<1>9. ASSUME NEW d \in Event, d # e, ev[d].mt \in Kind PROVE ev[d].fd # f
  BY <1>1, <1>8, <1>9, KernelAssumption DEF Holds
<1> QED
  BY <1>1, <1>2, <1>3, <1>4, <1>7, <1>9

\* What a step of PollEvent leaves on the interest list.
LEMMA StillWatched ==
    ASSUME LInv, LInv', NEW redone, RegStep(redone), NEW p \in Poll, NEW f \in Fd,
           ~Touched(redone, p, f), NEW e \in Event, poll'[p].evset[f] = e, e \notin lost',
           NEW i \in queued[p], i.fd = f
    PROVE  i \in interest'[p]
<1>1. /\ poll[p].evset[f] = e
      /\ ev'[e].enabled /\ ev'[e].p = p /\ ev'[e].fd = f
      /\ ev'[e].events = ev[e].events /\ file'[f] = file[f]
  BY Untouched
<1>2. i \in interest[p] /\ DInv
  BY DEF LInv, Fits, ReadyLists
<1>3. i = Entry(f, file, ev[e].events)
  BY <1>1, <1>2, InPlace
<1>4. Entry(f, file', ev'[e].events) \in interest'[p]
  BY <1>1, DInvNext DEF LInv, Watched
<1> QED
  BY <1>1, <1>3, <1>4 DEF Entry

-----------------------------------------------------------------------------
(* Slots that a step does not deliver *)

\* A slot keeps what it says, if nothing is read of its descriptor and no
\* number it names is registered again.
LEMMA LivePasses ==
    ASSUME LInv, LInv', NEW redone, RegStep(redone), NEW p \in Poll,
           NEW s \in Slot, Live(p, s), NEW t, t = Remarked(redone, p, s),
           Touched(redone, p, s.fd) => poll'[p].evset[s.fd] = NoEvent,
           \A e \in Event : ev[e].enabled /\ ev[e].p = p /\ ev[e].fd = s.fd
                            /\ file'[s.fd] = file[s.fd] /\ Steady(ev[e])
                            /\ Due(ev[e], data, pending)
                            => Due(ev[e], data', pending'),
           \A i \in queued[p] : i.fd = s.fd /\ i \in interest'[p] => i \in queued'[p]
    PROVE  t.fd = s.fd /\ Live(p, t)'
<1>1. t.fd = s.fd /\ s.fd \in Fd
  BY DEF Remarked, Slot
<1>2. CASE poll'[p].evset[s.fd] = NoEvent
  BY <1>1, <1>2 DEF Live
<1>3. CASE poll'[p].evset[s.fd] # NoEvent
  <2>1. ~Touched(redone, p, s.fd) /\ t = s
    BY <1>3 DEF Remarked
  <2>2. PICK e : e = poll'[p].evset[s.fd]  OBVIOUS
  <2>3. e \in Event
    <3>1. poll'[p].evset[s.fd] \in Event \cup {NoEvent}
      BY <1>1, DInvNext DEF LInv, PollRec
    <3> QED
      BY <1>3, <2>2, <3>1
  <2>4. /\ poll[p].evset[s.fd] = e
        /\ ev[e].enabled /\ ev[e].p = p /\ ev[e].fd = s.fd
        /\ ev'[e].fd = s.fd
        /\ ev'[e].events = ev[e].events /\ ev'[e].filter = ev[e].filter
        /\ file'[s.fd] = file[s.fd] /\ (e \in lost => e \in lost')
    BY <1>1, <2>1, <2>2, <2>3, Untouched
  <2>5. /\ s.from = e
        /\ Steady(ev[e]) => Due(ev[e], data, pending)
        /\ e \notin lost /\ Level(ev[e].events) => \E i \in queued[p] : i.fd = s.fd
    BY <1>3, <2>2, <2>4 DEF Live
  <2>6. Steady(ev'[e]) => Due(ev'[e], data', pending')
    BY <2>3, <2>4, <2>5 DEF Due, Steady
  <2>7. e \notin lost' /\ Level(ev'[e].events) => \E i \in queued'[p] : i.fd = s.fd
    BY <1>1, <2>1, <2>2, <2>3, <2>4, <2>5, StillWatched
  <2> QED
    BY <2>1, <2>2, <2>5, <2>6, <2>7 DEF Live
<1> QED
  BY <1>1, <1>2, <1>3

\* The slots of one instance.
LEMMA LivelyPasses ==
    ASSUME LInv, LInv', NEW redone, RegStep(redone), NEW p \in Poll, Lively(p),
           NEW b, batch'[p] = b, batch[p].cur <= b.cur,
           b.nevt = batch[p].nevt \/ b.nevt = 0,
           \A k \in ToCome(b) : b.list[k] = Remarked(redone, p, batch[p].list[k]),
           \A k \in ToCome(b) : LET f == batch[p].list[k].fd IN
               /\ Touched(redone, p, f) => poll'[p].evset[f] = NoEvent
               /\ \A e \in Event : ev[e].enabled /\ ev[e].p = p /\ ev[e].fd = f
                                   /\ file'[f] = file[f] /\ Steady(ev[e])
                                   /\ Due(ev[e], data, pending)
                                   => Due(ev[e], data', pending'),
           \A i \in queued[p] : i \in interest'[p] => i \in queued'[p]
    PROVE  Lively(p)'
<1>0. PICK c : c = batch[p]  OBVIOUS
<1>1. /\ c.cur \in Nat /\ c.nevt \in Nat /\ b.cur \in Nat /\ b.nevt \in Nat
      /\ \A k \in 1 .. c.nevt : c.list[k] \in Slot
  <2>1. Held(c) /\ b.cur \in Nat /\ b.nevt \in Nat
    BY <1>0 DEF LInv, Fits, BatchRec
  <2> QED
    BY <2>1, HeldFacts
<1>2. \A k \in ToCome(b) : k \in ToCome(c) /\ k \in 1 .. c.nevt
  BY <1>0, <1>1 DEF ToCome
<1>3. ASSUME NEW k \in ToCome(b)
      PROVE  b.list[k].fd = c.list[k].fd /\ Live(p, b.list[k])'
  <2>1. PICK s \in Slot : s = c.list[k]
    BY <1>1, <1>2, <1>3
  <2>2. Live(p, s)
    BY <1>0, <1>2, <2>1 DEF Lively
  <2>3. PICK t : t = b.list[k]  OBVIOUS
  <2>4. t.fd = s.fd /\ Live(p, t)'
    BY <1>0, <1>3, <2>1, <2>2, <2>3, LivePasses
  <2>5. Live(p, t)' <=> Live(p, b.list[k])'
    BY <2>3 DEF Live
  <2> QED
    BY <2>1, <2>3, <2>4, <2>5
<1>4. \A j, k \in ToCome(b) : b.list[j].fd = b.list[k].fd => j = k
  BY <1>0, <1>2, <1>3 DEF Lively
<1> QED
  BY <1>3, <1>4 DEF Lively

-----------------------------------------------------------------------------
(* The slot that a step delivers *)

\* Two watched events of a process with one instance wait for different signals.
LEMMA OtherSignal ==
    ASSUME LInv, Signals, Alone, NEW d \in Event, NEW e \in Event, d # e,
           ev[d].enabled, ev[e].enabled,
           ev[d].filter = "signal", ev[e].filter = "signal"
    PROVE  data[ev[d].fd] # data[ev[e].fd]
<1>1. /\ ev[d].mt = "signal" /\ ev[e].mt = "signal"
      /\ ev[d].p \in Poll /\ ev[e].p \in Poll
  BY DInvFacts DEF LInv
<1>2. ev[d].p = ev[e].p
  BY <1>1 DEF Alone
<1>3. ev[d].ident # ev[e].ident
  <2>1. UniquePair
    BY DInvImplies DEF LInv
  <2> QED
    BY <1>2, <2>1 DEF UniquePair
<1> QED
  BY <1>1, <1>3 DEF Signals

\* poll_unwatch_event empties one slot of one table.
LEMMA UnregisterTouches ==
    ASSUME LInv, NEW e \in Event, ev[e].enabled, Unregister(e)
    PROVE  /\ ~ev'[e].enabled /\ poll'[ev[e].p].evset[ev[e].fd] = NoEvent
           /\ \A q \in Poll, f \in Fd : Touched({}, q, f) => q = ev[e].p /\ f = ev[e].fd
           /\ \A d \in Event \ {e} : ev'[d] = ev[d]
           /\ \A d \in Event : /\ ev'[d].mt = ev[d].mt /\ ev'[d].fd = ev[d].fd
                               /\ ev'[d].ident = ev[d].ident
<1>0. /\ ev[e] \in EventRec /\ ev \in [Event -> EventRec] /\ poll \in [Poll -> PollRec]
      /\ ev[e].p \in Poll /\ ev[e].fd \in Fd
  BY DInvFacts DEF LInv
<1>1. /\ ev' = [ev EXCEPT ![e] = Disabled(e)]
      /\ poll' = [poll EXCEPT ![ev[e].p] = EvsetDel(poll[ev[e].p], ev[e])]
  BY DEF Unregister, Unwatch, UnwatchedPoll
<1>2. PICK h : h = Disabled(e)  OBVIOUS
<1>3. /\ ~h.enabled
      /\ h.mt = ev[e].mt /\ h.fd = ev[e].fd /\ h.ident = ev[e].ident
  BY <1>0, <1>2 DEF Disabled, EventRec
<1>4. PICK pl \in PollRec : pl = poll[ev[e].p]
  BY <1>0
<1>5. PICK n : n = EvsetDel(pl, ev[e])  OBVIOUS
<1>6. /\ n.evset[ev[e].fd] = NoEvent
      /\ \A f \in Fd \ {ev[e].fd} : n.evset[f] = pl.evset[f]
  BY <1>0, <1>5 DEF EvsetDel, PollRec
<1>7. poll' = [poll EXCEPT ![ev[e].p] = n]
  BY <1>1, <1>4, <1>5
<1> QED
  BY <1>0, <1>1, <1>2, <1>3, <1>4, <1>6, <1>7 DEF Touched

\* check_event_status reads no other descriptor, takes nothing but a signal
\* from another event, and leaves only what nobody asks about.
Reads(e, rc) ==
    /\ setting' = setting
    /\ \A d \in Event : ev[d].mt = "signal" => data'[ev[d].fd] = data[ev[d].fd]
    /\ \A d \in Event \ {e} : ev[d].enabled /\ ev[d].filter \notin FdKind =>
          /\ Due(ev[d], data', pending') => Due(ev[d], data, pending)
          /\ Steady(ev[d]) /\ Due(ev[d], data, pending) => Due(ev[d], data', pending')
    /\ rc = "ok" /\ ev[e].filter \notin FdKind /\ Due(ev[e], data', pending')
          => setting[ev[e].fd] = "semaphore"

LEMMA DrainReads ==
    ASSUME LInv, Signals, NEW e \in Event, ev[e].enabled,
           Steady(ev[e]) => Due(ev[e], data, pending),
           NEW good \in {"ok", "oneshot"}, NEW rc, Drain(e, good, rc)
    PROVE  rc = good /\ Reads(e, rc)
<1>0. /\ \A d \in Event : /\ ev[d].enabled => ev[d].mt \in Kind
                          /\ ev[d].mt \in Kind => ev[d].filter = ev[d].mt
      /\ data \in [Fd -> Nat] /\ ev[e].fd \in Fd
  BY DInvFacts DEF LInv, Devices
<1>1. \A d \in Event \ {e} :
         ev[e].filter \notin FdKind /\ ev[d].mt \in Kind => ev[d].fd # ev[e].fd
  BY <1>0, DeviceFacts
<1>2. CASE UNCHANGED deviceVars /\ ev[e].filter \in FdKind /\ rc = good
  BY <1>2 DEF Reads, Due, deviceVars
<1>3. CASE /\ ev[e].filter = "signal"
           /\ pending' = pending \ {data[ev[e].fd]} /\ rc = good
           /\ UNCHANGED <<data, setting>>
  <2>1. ASSUME NEW d \in Event \ {e}, ev[d].enabled, ev[d].filter \notin FdKind
        PROVE  /\ Due(ev[d], data', pending') => Due(ev[d], data, pending)
               /\ Steady(ev[d]) /\ Due(ev[d], data, pending) => Due(ev[d], data', pending')
    <3>1. CASE ev[d].filter = "signal"
      BY <1>3, <2>1, <3>1, OtherSignal DEF Due, Steady
    <3>2. CASE ev[d].filter # "signal"
      BY <1>3, <3>2 DEF Due
    <3> QED
      BY <3>1, <3>2
  <2>2. ~Due(ev[e], data', pending')
    BY <1>3 DEF Due
  <2> QED
    BY <1>3, <2>1, <2>2 DEF Reads
<1>4. CASE /\ ev[e].filter \in {"timer", "trigger"}
           /\ data' = [data EXCEPT ![ev[e].fd] =
                          IF setting[ev[e].fd] = "semaphore" THEN @ - 1 ELSE 0]
           /\ rc = good
           /\ UNCHANGED <<setting, pending>>
  <2>0. ev[e].filter \notin FdKind /\ ev[e].mt # "signal"
    BY <1>0, <1>4 DEF FdKind
  <2>1. \A d \in Event \ {e} : ev[d].mt \in Kind => data'[ev[d].fd] = data[ev[d].fd]
    BY <1>0, <1>1, <1>4, <2>0
  <2>2. \A d \in Event : ev[d].mt = "signal" => data'[ev[d].fd] = data[ev[d].fd]
    BY <2>0, <2>1 DEF Kind
  <2>3. ASSUME NEW d \in Event \ {e}, ev[d].enabled
        PROVE  Due(ev[d], data', pending') <=> Due(ev[d], data, pending)
    BY <1>0, <1>4, <2>1, <2>3 DEF Due
  <2>4. Due(ev[e], data', pending') => setting[ev[e].fd] = "semaphore"
    BY <1>0, <1>4 DEF Due
  <2> QED
    BY <1>4, <2>2, <2>3, <2>4 DEF Reads
<1>5. ~(ev[e].filter = "trigger" /\ data[ev[e].fd] = 0)
  BY <1>0 DEF Due, FdKind, Steady
<1> QED
  BY <1>2, <1>3, <1>4, <1>5 DEF Drain

\* What check_event_status does with slot s of p, for its event e.
Checked(p, s, e, rc) ==
    /\ ev[e].enabled /\ ev[e].p = p /\ ev[e].fd = s.fd
    /\ s.from = e /\ rc # "error"
    /\ rc = "eof" <=> "HUP" \in s.events
    /\ rc = "ok" <=> ~Unregisters(e, s.events)
    /\ Reads(e, rc)

\* A slot that is true is delivered without an error, and what consume
\* answers follows from its flags and from the event's mode.
LEMMA CheckFacts ==
    ASSUME LInv, Signals, NEW p \in Poll, NEW s \in Slot, Live(p, s),
           NEW e \in Event, e = poll[p].evset[s.fd],
           NEW rc, CheckEventStatus(e, s.events, rc)
    PROVE  Checked(p, s, e, rc)
<1> SUFFICES /\ ev[e].enabled /\ ev[e].p = p /\ ev[e].fd = s.fd
             /\ s.from = e /\ rc # "error"
             /\ rc = "eof" <=> "HUP" \in s.events
             /\ rc = "ok" <=> ~Unregisters(e, s.events)
             /\ Reads(e, rc)
  BY DEF Checked
<1>0. s.fd \in Fd
  BY DEF Slot
<1>1. ev[e].enabled /\ ev[e].p = p /\ ev[e].fd = s.fd
  BY <1>0, InPlace DEF LInv
<1>2. s.from = e /\ (Steady(ev[e]) => Due(ev[e], data, pending))
  BY EventAssumption DEF Live
<1>3. ~DelRefused(ev[e].fd)
  BY <1>1, DInvFacts DEF LInv, Holds, DelRefused
<1>4. Unregisters(e, s.events) <=> "ONESHOT" \in ev[e].events \/ "HUP" \in s.events
  BY DEF Unregisters
<1>5. CASE "HUP" \in s.events
  <2>1. rc = "eof" /\ UNCHANGED deviceVars /\ Unregister(e)
    BY <1>3, <1>4, <1>5 DEF CheckEventStatus
  <2>2. Reads(e, rc)
    BY <2>1 DEF Reads, deviceVars, Due
  <2> QED
    BY <1>1, <1>2, <1>4, <1>5, <2>1, <2>2
<1>6. CASE "HUP" \notin s.events
  <2>1. PICK good \in {"ok", "oneshot"} :
          /\ good = "oneshot" <=> "ONESHOT" \in ev[e].events
          /\ Drain(e, good, rc)
    BY <1>3, <1>4, <1>6 DEF CheckEventStatus
  <2>2. rc = good /\ Reads(e, rc)
    BY <1>1, <1>2, <2>1, DrainReads
  <2>3. IF Unregisters(e, s.events) THEN Unregister(e) ELSE UNCHANGED vars
    BY DEF CheckEventStatus
  <2> QED
    BY <1>1, <1>2, <1>4, <1>6, <2>1, <2>2, <2>3
<1> QED
  BY <1>5, <1>6

-----------------------------------------------------------------------------
(* Registrations *)

\* RegStep is a step of PollEvent.
LEMMA RegIsNext == \A redone : RegStep(redone) => [Next]_vars
BY DEF RegStep, Next

\* The slots after a registration, and the one-shot entries they are for.
LEMMA FollowsLively ==
    ASSUME LInv, LInv', NEW redone, RegStep(redone), KernelFollows(redone),
           pending' = pending, NEW p \in Poll, Lively(p), Spent(p),
           NEW b, batch'[p] = b, b.cur = batch[p].cur, b.nevt = batch[p].nevt,
           \A k \in 1 .. b.nevt : b.list[k] = Remarked(redone, p, batch[p].list[k]),
           \A k \in ToCome(b) : LET f == batch[p].list[k].fd IN
               Touched(redone, p, f) => poll'[p].evset[f] = NoEvent
    PROVE  /\ Lively(p)' /\ Spent(p)'
           /\ \A f : Named(batch[p], f) => Named(b, f)
<1>0. PICK c : c = batch[p]  OBVIOUS
<1>1. /\ c.cur \in Nat /\ c.nevt \in Nat
      /\ \A k \in 1 .. c.nevt : c.list[k] \in Slot
  <2>1. Held(c)
    BY <1>0 DEF LInv, Fits
  <2> QED
    BY <2>1, HeldFacts
<1>2. ToCome(b) = ToCome(c) /\ ToCome(b) \subseteq 1 .. b.nevt
  BY <1>0, <1>1 DEF ToCome
<1>3. \A k \in ToCome(b) : /\ b.list[k] = Remarked(redone, p, c.list[k])
                           /\ b.list[k].fd = c.list[k].fd
                           /\ c.list[k].fd \in Fd
  <2>1. \A k \in ToCome(b) : /\ b.list[k] = Remarked(redone, p, c.list[k])
                             /\ c.list[k] \in Slot
    BY <1>0, <1>1, <1>2
  <2>2. \A s \in Slot : Remarked(redone, p, s).fd = s.fd /\ s.fd \in Fd
    BY DEF Remarked, Slot
  <2> QED
    BY <2>1, <2>2
<1>4. \A f : Named(c, f) => Named(b, f)
  BY <1>2, <1>3 DEF Named
<1>5. \A i \in queued[p] : i \in interest'[p] => i \in queued'[p]
  BY DEF KernelFollows
<1>6. \A f \in Fd : file'[f] = file[f] => data'[f] = data[f]
  BY DEF KernelFollows
<1>7. \A k \in ToCome(b) : LET f == batch[p].list[k].fd IN
        /\ Touched(redone, p, f) => poll'[p].evset[f] = NoEvent
        /\ \A e \in Event : ev[e].enabled /\ ev[e].p = p /\ ev[e].fd = f
                            /\ file'[f] = file[f] /\ Steady(ev[e])
                            /\ Due(ev[e], data, pending)
                            => Due(ev[e], data', pending')
  BY <1>0, <1>3, <1>6 DEF Due
<1>8. Lively(p)'
  BY <1>0, <1>1, <1>3, <1>5, <1>7, LivelyPasses
<1>9. Spent(p)'
  <2>1. ASSUME NEW i \in disarmed'[p]
        PROVE  "ONESHOT" \in i.events /\ Named(b, i.fd)
    BY <1>0, <1>4, <2>1 DEF KernelFollows, Spent
  <2> QED
    BY <2>1 DEF Spent
<1> QED
  BY <1>0, <1>4, <1>8, <1>9

\* A signalfd that is opened holds the signal of its event.
LEMMA FollowsSignals ==
    ASSUME LInv, LInv', [Next]_vars, NEW redone, KernelFollows(redone), Signals
    PROVE  Signals'
<1> SUFFICES ASSUME NEW e \in Event, ev'[e].mt = "signal"
             PROVE  data'[ev'[e].fd] = ev'[e].ident
  BY DEF Signals
<1>0. /\ DInv /\ DInv' /\ Made(ev, file, owner) /\ Made(ev', file', owner')
  BY DEF LInv
<1>1. /\ ev'[e].mt \in Kind /\ ev'[e].filter = "signal" /\ ev'[e].fd \in Fd
      /\ owner'[ev'[e].fd] = e /\ CanPoll(file'[ev'[e].fd])
  BY <1>0, DInvNext DEF Kind, FdKind, Fine, EventRec, Holds, ClosesFd
<1>2. Stays(e)
  BY <1>0, StepStays
<1>3. CASE ev[e].mt \in Kind
  <2>1. /\ ev[e].fd = ev'[e].fd /\ ev[e].ident = ev'[e].ident
        /\ ev[e].filter = "signal"
    BY <1>1, <1>2, <1>3 DEF Stays
  <2>2. ev[e].mt = "signal" /\ CanPoll(file[ev[e].fd])
    BY <1>0, <1>3, <2>1, DInvFacts DEF Holds
  <2>3. file'[ev[e].fd] = file[ev[e].fd]
    BY <1>0, <1>1, <2>1, <2>2, StepTurns, CanPollFacts DEF Turned
  <2> QED
    BY <1>1, <2>1, <2>2, <2>3 DEF KernelFollows, Signals
<1>4. CASE ev[e].mt \notin Kind
  <2>1. PICK f \in Fd : f = ev'[e].fd
    BY <1>1
  <2>2. file'[f] = <<"signalfd", f>>
    BY <1>1, <1>2, <1>4, <2>1 DEF Stays, MadeOf, Maker, FdKind
  <2>3. file'[f] \in LibFile /\ file'[f][1] = "signalfd" /\ file'[f] \notin UserFile
        /\ file'[f] # NoFile
    BY <2>2, KernelAssumption DEF LibFile, File
  <2>4. ASSUME file'[f] = file[f] PROVE FALSE
    <3>0. PICK d : d = owner[f]  OBVIOUS
    <3>1. d \in Event /\ ev[d].mt \in Kind
      BY <1>0, <2>3, <2>4, <3>0, DInvFacts, MadeFacts DEF Tidy, Orderly
    <3>2. d # e
      BY <1>4, <3>1
    <3>3. owner'[f] = d
      BY <1>0, <2>3, <2>4, <3>0, StepTurns DEF Turned
    <3> QED
      BY <1>1, <2>1, <3>2, <3>3
  <2> QED
    BY <1>1, <2>1, <2>3, <2>4 DEF KernelFollows, NewData
<1> QED
  BY <1>3, <1>4

\* A registration puts its entry on the ready list.
LEMMA FollowsWoken ==
    ASSUME LInv, LInv', NEW redone, RegStep(redone), KernelFollows(redone),
           pending' = pending, NEW e \in Event, Woken(e),
           \A p \in Poll, f \in Fd : Named(batch[p], f) => Named(batch'[p], f)
    PROVE  Woken(e)'
<1> SUFFICES ASSUME ev'[e].enabled, ev'[e].filter \notin FdKind, e \notin lost',
                    Due(ev'[e], data', pending'), Coalesces(e)'
             PROVE  \/ Named(batch'[ev'[e].p], ev'[e].fd)
                    \/ \E i \in queued'[ev'[e].p] : i.fd = ev'[e].fd
  BY DEF Woken
<1>1. PICK p \in Poll, f \in Fd : p = ev'[e].p /\ f = ev'[e].fd
  BY DInvNext DEF LInv, EventRec
<1>2. poll'[p].evset[f] = e
  BY <1>1, DInvNext DEF LInv, Exact
<1>3. CASE Touched(redone, p, f)
  <2>1. PICK i : i = Entry(f, file', ev'[e].events)  OBVIOUS
  <2>2. i \in interest'[p] /\ i.fd = f
    BY <1>1, <2>1, DInvNext DEF LInv, Watched, Entry
  <2> QED
    BY <1>1, <1>3, <2>2 DEF KernelFollows
<1>4. CASE ~Touched(redone, p, f)
  <2>1. /\ ev[e].enabled /\ ev[e].p = p /\ ev[e].fd = f
        /\ ev'[e].events = ev[e].events /\ ev'[e].filter = ev[e].filter
        /\ file'[f] = file[f] /\ (e \in lost => e \in lost')
    BY <1>2, <1>4, Untouched
  <2>2. data'[f] = data[f] /\ setting'[f] = setting[f]
    BY <2>1 DEF KernelFollows
  <2>3. ev[e].filter \notin FdKind /\ Due(ev[e], data, pending) /\ Coalesces(e)
    BY <1>1, <2>1, <2>2 DEF Due, Coalesces
  <2>4. Named(batch[p], f) \/ \E i \in queued[p] : i.fd = f
    BY <2>1, <2>3 DEF Woken
  <2>5. ASSUME NEW i \in queued[p], i.fd = f PROVE i \in queued'[p]
    BY <1>2, <1>4, <2>5, StillWatched DEF KernelFollows
  <2> QED
    BY <1>1, <2>4, <2>5
<1> QED
  BY <1>3, <1>4

\* A call of the application that is one step.
LEMMA OneStepDelivers ==
    ASSUME LInv, LInv', ~ReusesInBatch, Delivery, NEW redone, RegStep(redone), OneStep(redone)
    PROVE  Delivery'
<1>0. /\ Fits /\ KernelFollows(redone) /\ pending' = pending
      /\ call = Idle /\ call' = Idle /\ batch' = Marked(redone) /\ NotReused(redone)
  BY DEF LInv, OneStep
<1>1. ASSUME NEW p \in Poll
      PROVE  /\ Inside(p)' /\ Lively(p)' /\ Spent(p)'
             /\ \A f : Named(batch[p], f) => Named(batch'[p], f)
  <2>1. PICK b : b = Marked(redone)[p]  OBVIOUS
  <2>2. /\ b.cur = batch[p].cur /\ b.nevt = batch[p].nevt /\ b.size = batch[p].size
        /\ \A k \in 1 .. b.nevt : b.list[k] = Remarked(redone, p, batch[p].list[k])
    BY <1>0, <2>1, MarkedFacts
  <2>3. batch'[p] = b
    BY <1>0, <2>1
  <2>4. Inside(p) /\ Lively(p) /\ Spent(p)
    BY DEF Delivery
  <2>5. ASSUME NEW k \in ToCome(b), Touched(redone, p, batch[p].list[k].fd)
        PROVE  poll'[p].evset[batch[p].list[k].fd] = NoEvent
    <3>1. batch[p].list[k].fd \in Ahead(p)
      BY <2>2, <2>5 DEF ToCome, Ahead
    <3> QED
      BY <1>0, <2>5, <3>1 DEF NotReused
  <2>6. /\ Lively(p)' /\ Spent(p)'
        /\ \A f : Named(batch[p], f) => Named(b, f)
    BY <1>0, <2>2, <2>3, <2>4, <2>5, FollowsLively
  <2>7. Inside(p)'
    BY <1>0, <2>2, <2>3, <2>4 DEF Inside, Cleaning, Idle
  <2> QED
    BY <2>3, <2>6, <2>7
<1>2. Signals'
  BY <1>0, RegIsNext, FollowsSignals DEF Delivery
<1>3. \A e \in Event : Woken(e)'
  BY <1>0, <1>1, FollowsWoken DEF Delivery
<1> QED
  BY <1>1, <1>2, <1>3 DEF Delivery

\* What the calls of one step delete and add again.
LEMMA RegistrationSteps ==
    ASSUME Registration
    PROVE  \E redone : RegStep(redone) /\ OneStep(redone)
<1>1. ASSUME NEW e \in Event, Renew(e),
             OneStep(IF ev[e].enabled THEN {<<ev[e].p, ev[e].fd>>} ELSE {})
      PROVE  \E redone : RegStep(redone) /\ OneStep(redone)
  <2>1. PICK redone : redone = IF ev[e].enabled THEN {<<ev[e].p, ev[e].fd>>} ELSE {}
    OBVIOUS
  <2>2. RegStep(redone) /\ OneStep(redone)
    BY <1>1, <2>1 DEF RegStep
  <2> QED
    BY <2>2
<1>2. ASSUME OneStep({}), RegStep({})
      PROVE  \E redone : RegStep(redone) /\ OneStep(redone)
  BY <1>2
<1> QED
  BY <1>1, <1>2 DEF Registration, RegStep

LEMMA RegistrationDelivers ==
    ASSUME LInv, LInv', ~ReusesInBatch, Delivery, Registration
    PROVE  Delivery'
BY RegistrationSteps, OneStepDelivers

\* No slot is left when the cleanup is done.
LEMMA CleanFacts ==
    ASSUME LInv, NEW p \in Poll, batch[p].cur >= batch[p].nevt
    PROVE  \A f : ~Named(batch[p], f)
BY DEF Named, ToCome, LInv, Fits, BatchRec

\* An empty batch.
LEMMA EmptyDelivers ==
    ASSUME NEW p \in Poll, NEW b, batch'[p] = b, b.nevt = 0, b.cur = 0, b.size \in Nat
    PROVE  Inside(p)' /\ Lively(p)' /\ \A f : ~Named(b, f)
<1>1. ToCome(b) = {}
  BY DEF ToCome
<1> QED
  BY <1>1 DEF Inside, Lively, Named

\* ep:renew
LEMMA RenewDelivers ==
    ASSUME LInv, LInv', Delivery, NEW p \in Poll, FinishRenew(p)
    PROVE  Delivery'
<1>0. /\ batch \in [Poll -> BatchRec] /\ KernelFollows({}) /\ pending' = pending
      /\ call = [op |-> "renew", p |-> p] /\ call' = Idle
      /\ batch[p].cur >= batch[p].nevt
  BY DEF LInv, Fits, FinishRenew
<1>1. RegStep({}) /\ poll' = poll
  BY DEF FinishRenew, RegStep, RenewPoll, RefusedCall
<1>2. \A q \in Poll : \A f : ~Touched({}, q, f)
  BY <1>1 DEF Touched
<1>3. PICK c : c = Cleared(batch[p])  OBVIOUS
<1>4. c.nevt = 0 /\ c.cur = 0 /\ c.size \in Nat
  BY <1>0, <1>3 DEF Cleared, BatchRec
<1>5. batch' = [batch EXCEPT ![p] = c]
  BY <1>3 DEF FinishRenew
<1>6. \A f : ~Named(batch[p], f)
  BY <1>0, CleanFacts
<1>7. Inside(p)' /\ Lively(p)'
  BY <1>0, <1>4, <1>5, EmptyDelivers
<1>8. Spent(p)'
  <2>1. disarmed[p] = {}
    BY <1>6 DEF Delivery, Spent
  <2>2. disarmed'[p] = {}
    BY <2>1, <1>0 DEF KernelFollows
  <2> QED
    BY <2>2 DEF Spent
<1>9. ASSUME NEW q \in Poll, q # p
      PROVE  /\ Inside(q)' /\ Lively(q)' /\ Spent(q)'
             /\ \A f : Named(batch[q], f) => Named(batch'[q], f)
  <2>1. PICK b : b = batch[q]  OBVIOUS
  <2>2. batch'[q] = b
    BY <1>0, <1>5, <1>9, <2>1
  <2>3. Inside(q) /\ Lively(q) /\ Spent(q)
    BY DEF Delivery
  <2>4. \A k : b.list[k] = Remarked({}, q, batch[q].list[k])
    BY <1>2, <2>1 DEF Remarked
  <2>5. Lively(q)' /\ Spent(q)'
    BY <1>0, <1>1, <1>2, <2>1, <2>2, <2>3, <2>4, FollowsLively
  <2>6. Inside(q)'
    BY <1>0, <1>9, <2>1, <2>2, <2>3 DEF Inside, Cleaning, Idle
  <2> QED
    BY <2>1, <2>2, <2>5, <2>6
<1>10. Signals'
  BY <1>0, <1>1, RegIsNext, FollowsSignals DEF Delivery
<1>11. \A e \in Event : Woken(e)'
  <2>1. \A q \in Poll, f \in Fd : Named(batch[q], f) => Named(batch'[q], f)
    BY <1>6, <1>9
  <2> QED
    BY <1>0, <1>1, <2>1, FollowsWoken DEF Delivery
<1> QED
  BY <1>7, <1>8, <1>9, <1>10, <1>11 DEF Delivery

-----------------------------------------------------------------------------
(* consume and the cleanup *)

\* The batch of an instance whose slots are not delivered.
Remains(q, b) ==
    /\ b.cur = batch[q].cur /\ b.nevt = batch[q].nevt /\ b.size = batch[q].size
    /\ \A k \in 1 .. b.nevt : b.list[k] = Remarked({}, q, batch[q].list[k])

\* The batch after its first slot has been delivered or thrown away.
Advances(p, b) ==
    /\ b.cur = batch[p].cur + 1 /\ b.size = batch[p].size
    /\ \/ /\ b.nevt = batch[p].nevt
          /\ \A k \in 1 .. b.nevt : b.list[k] = Remarked({}, p, batch[p].list[k])
       \/ b.nevt = 0 /\ batch[p].cur + 1 >= batch[p].nevt

\* What becomes of the event of slot s, or of none.
Handles(p, s, rc) ==
    LET e == poll[p].evset[s.fd] IN
    \/ e = NoEvent /\ UNCHANGED <<vars, deviceVars, queued, disarmed>>
    \/ e # NoEvent /\ CheckEventStatus(e, s.events, rc)

\* Nothing but slot s of p is delivered by the step.
Spares(p, s) ==
    /\ RegStep({}) /\ setting' = setting
    /\ \A q \in Poll : /\ queued'[q] = queued[q] \cap interest'[q]
                       /\ disarmed'[q] = disarmed[q] \cap interest'[q]
    /\ \A i \in interest[p] \cap interest'[p] : i.fd = s.fd => "ONESHOT" \notin i.events
    /\ \A q \in Poll, f \in Fd : Touched({}, q, f) =>
          q = p /\ f = s.fd /\ poll'[p].evset[s.fd] = NoEvent
    /\ \A d \in Event :
          ev[d].enabled /\ ev[d].filter \notin FdKind /\ ~(ev[d].p = p /\ ev[d].fd = s.fd)
             => /\ Due(ev[d], data', pending') => Due(ev[d], data, pending)
                /\ Steady(ev[d]) /\ Due(ev[d], data, pending) => Due(ev[d], data', pending')
    /\ \A d \in Event : /\ ev'[d].mt = ev[d].mt /\ ev'[d].fd = ev[d].fd
                        /\ ev'[d].ident = ev[d].ident
                        /\ ev[d].mt = "signal" => data'[ev[d].fd] = data[ev[d].fd]

LEMMA HandlesSpares ==
    ASSUME LInv, Signals, NEW p \in Poll, NEW s \in Slot, Live(p, s),
           NEW rc, Handles(p, s, rc)
    PROVE  Spares(p, s)
<1>0. s.fd \in Fd /\ DInv
  BY DEF Slot, LInv
<1>1. PICK e : e = poll[p].evset[s.fd]  OBVIOUS
<1>2. CASE e = NoEvent
  <2>1. UNCHANGED <<vars, deviceVars, queued, disarmed>>
    BY <1>1, <1>2, EventAssumption DEF Handles
  <2>2. RegStep({}) /\ UNCHANGED <<ev, poll, interest>>
    BY <2>1 DEF RegStep, vars
  <2>3. \A q \in Poll : queued[q] \subseteq interest[q] /\ disarmed[q] \subseteq interest[q]
    BY DEF LInv, Fits, ReadyLists
  <2>4. \A i \in interest[p] : i.fd # s.fd
    <3>1. PICK f \in Fd : f = s.fd
      BY <1>0
    <3>2. \A i \in interest[p] : i.fd = f => poll[p].evset[f] \in Event
      BY <1>0, InPlace
    <3> QED
      BY <1>1, <1>2, <3>1, <3>2, EventAssumption
  <2> QED
    BY <2>1, <2>2, <2>3, <2>4 DEF Spares, Touched, Due, deviceVars
<1>3. CASE e # NoEvent
  <2>1. e \in Event /\ CheckEventStatus(e, s.events, rc)
    BY <1>0, <1>1, <1>3, InPlace DEF Handles
  <2>2. /\ ev[e].enabled /\ ev[e].p = p /\ ev[e].fd = s.fd
        /\ rc = "ok" <=> ~Unregisters(e, s.events)
        /\ Reads(e, rc)
    <3>1. Checked(p, s, e, rc)
      BY <1>1, <2>1, CheckFacts
    <3> QED
      BY <3>1 DEF Checked
  <2>3. \A q \in Poll : /\ queued'[q] = queued[q] \cap interest'[q]
                        /\ disarmed'[q] = disarmed[q] \cap interest'[q]
    BY <2>1 DEF CheckEventStatus
  <2>4. \A i \in interest[p] : i.fd = s.fd => i.events = ev[e].events /\ i.file = file[s.fd]
    BY <1>0, <1>1, <2>1, InPlace DEF Entry
  <2>5. CASE rc = "ok"
    <3>1. RegStep({}) /\ UNCHANGED <<ev, poll, interest>>
      BY <2>1, <2>2, <2>5 DEF RegStep, vars, CheckEventStatus
    <3>2. "ONESHOT" \notin ev[e].events
      BY <2>2, <2>5 DEF Unregisters
    <3> QED
      BY <2>2, <2>3, <2>4, <3>1, <3>2 DEF Spares, Reads, Touched
  <2>6. CASE rc # "ok"
    <3>0. Unregister(e)
      BY <2>1, <2>2, <2>6 DEF CheckEventStatus
    <3>1. RegStep({})
      BY <2>1, <3>0 DEF RegStep, Call, Unregister
    <3>2. \A i \in interest'[p] : ~(i.fd = s.fd /\ i.file = file[s.fd])
      <4>1. interest \in Lists
        BY DInvFacts DEF LInv
      <4> QED
        BY <2>2, <3>0, <4>1 DEF Unregister, Unwatch, UnwatchedIntr, CtlDel, Lists
    <3> QED
      BY <2>1, <2>2, <2>3, <2>4, <3>0, <3>1, <3>2, UnregisterTouches DEF Spares, Reads
  <2> QED
    BY <2>5, <2>6
<1> QED
  BY <1>2, <1>3

\* What can be read of the descriptor of slot s after it was delivered is left
\* by a level-triggered event that stays watched.
Leaves(p, s) ==
    \A e \in Event :
        /\ e = poll[p].evset[s.fd] /\ ev'[e].enabled
        /\ ev[e].filter \notin FdKind /\ Due(ev[e], data', pending') /\ Coalesces(e)
        => Level(ev[e].events)

LEMMA HandlesLeaves ==
    ASSUME LInv, Signals, NEW p \in Poll, NEW s \in Slot, Live(p, s),
           NEW rc, Handles(p, s, rc)
    PROVE  Leaves(p, s)
<1> SUFFICES ASSUME NEW e \in Event, e = poll[p].evset[s.fd], ev'[e].enabled,
                    ev[e].filter \notin FdKind, Due(ev[e], data', pending'), Coalesces(e)
             PROVE  Level(ev[e].events)
  BY DEF Leaves
<1>1. CheckEventStatus(e, s.events, rc)
  BY EventAssumption DEF Handles
<1>2. Checked(p, s, e, rc)
  BY <1>1, CheckFacts
<1>3. /\ ev[e].enabled
      /\ rc = "ok" <=> ~Unregisters(e, s.events)
      /\ Reads(e, rc)
  BY <1>2 DEF Checked
<1>4. Unregister(e) => ~ev'[e].enabled
  BY <1>3, UnregisterTouches
<1>5. rc = "ok"
  BY <1>1, <1>3, <1>4 DEF CheckEventStatus
<1> QED
  BY <1>3, <1>5 DEF Reads, Coalesces, Unregisters, Level

\* The slots that are left, and those of the other instances.
LEMMA HeadLively ==
    ASSUME LInv, LInv', Delivery, NEW p \in Poll, batch[p].cur < batch[p].nevt,
           NEW s \in Slot, s = batch[p].list[batch[p].cur + 1], Spares(p, s),
           NEW q \in Poll, NEW b, batch'[q] = b,
           IF q = p THEN Advances(p, b) ELSE Remains(q, b)
    PROVE  Lively(q)' /\ Spent(q)'
<1>0. /\ Lively(q) /\ Spent(q) /\ s.fd \in Fd
      /\ queued'[q] = queued[q] \cap interest'[q]
      /\ disarmed'[q] = disarmed[q] \cap interest'[q] /\ RegStep({})
  BY DEF Delivery, Slot, Spares
<1>1. PICK c : c = batch[q]  OBVIOUS
<1>2. /\ c.cur \in Nat /\ c.nevt \in Nat
      /\ \A k \in 1 .. c.nevt : c.list[k] \in Slot
  <2>1. Held(c)
    BY <1>1 DEF LInv, Fits
  <2> QED
    BY <2>1, HeldFacts
<1>3. b.nevt \in Nat /\ b.cur \in Nat /\ c.cur <= b.cur /\ (b.nevt = c.nevt \/ b.nevt = 0)
  BY <1>1, <1>2 DEF Advances, Remains
<1>4. \A k \in ToCome(b) : /\ k \in ToCome(c) /\ k \in 1 .. c.nevt
                           /\ b.list[k] = Remarked({}, q, c.list[k])
                           /\ c.list[k].fd \in Fd /\ b.list[k].fd = c.list[k].fd
  <2>1. \A k \in ToCome(b) : /\ k \in ToCome(c) /\ k \in 1 .. c.nevt
                             /\ b.list[k] = Remarked({}, q, c.list[k])
    BY <1>1, <1>2, <1>3 DEF Advances, Remains, ToCome
  <2>2. \A t \in Slot : t.fd \in Fd /\ Remarked({}, q, t).fd = t.fd
    BY DEF Slot, Remarked
  <2> QED
    BY <1>2, <2>1, <2>2
<1>5. \A k \in ToCome(b) : ~(q = p /\ c.list[k].fd = s.fd)
  <2>1. SUFFICES ASSUME NEW k \in ToCome(b), q = p, c.list[k].fd = s.fd PROVE FALSE
    OBVIOUS
  <2>2. c.cur + 1 \in ToCome(c) /\ k # c.cur + 1 /\ k \in ToCome(c)
    BY <1>1, <1>2, <1>3, <1>4, <2>1 DEF ToCome, Advances
  <2> QED
    BY <1>0, <1>1, <2>1, <2>2 DEF Lively
<1>6. Lively(q)'
  <2>1. \A k \in ToCome(b) : LET f == batch[q].list[k].fd IN
          /\ Touched({}, q, f) => poll'[q].evset[f] = NoEvent
          /\ \A e \in Event : ev[e].enabled /\ ev[e].p = q /\ ev[e].fd = f
                              /\ file'[f] = file[f] /\ Steady(ev[e])
                              /\ Due(ev[e], data, pending)
                              => Due(ev[e], data', pending')
    BY <1>1, <1>4, <1>5 DEF Spares, Steady
  <2> QED
    BY <1>0, <1>1, <1>3, <1>4, <2>1, LivelyPasses
<1>7. Spent(q)'
  <2>1. ASSUME NEW i \in disarmed'[q]
        PROVE  "ONESHOT" \in i.events /\ Named(b, i.fd)
    <3>1. /\ i \in disarmed[q] /\ i \in interest'[q] /\ i \in interest[q]
          /\ "ONESHOT" \in i.events
      BY <1>0, <2>1 DEF Spent, LInv, Fits, ReadyLists
    <3>2. PICK k \in ToCome(c) : c.list[k].fd = i.fd
      BY <1>0, <1>1, <3>1 DEF Spent, Named
    <3>3. CASE k \in ToCome(b)
      BY <1>4, <3>1, <3>2, <3>3 DEF Named
    <3>4. CASE k \notin ToCome(b)
      <4>1. q = p /\ k = c.cur + 1
        BY <1>1, <1>2, <3>2, <3>4 DEF ToCome, Advances, Remains
      <4>2. i.fd = s.fd
        BY <1>1, <3>2, <4>1
      <4> QED
        BY <3>1, <4>1, <4>2 DEF Spares
    <3> QED
      BY <3>3, <3>4
  <2> QED
    BY <2>1 DEF Spent
<1> QED
  BY <1>6, <1>7

\* The wake-ups of all events after a slot has been delivered.
LEMMA HeadWoken ==
    ASSUME LInv, LInv', Delivery, NEW p \in Poll,
           batch[p].cur < batch[p].nevt,
           NEW s \in Slot, s = batch[p].list[batch[p].cur + 1], Live(p, s),
           Spares(p, s), Leaves(p, s),
           \A q \in Poll : IF q = p THEN Advances(q, batch'[q]) ELSE Remains(q, batch'[q]),
           NEW e \in Event
    PROVE  Woken(e)'
<1> SUFFICES ASSUME ev'[e].enabled, ev'[e].filter \notin FdKind, e \notin lost',
                    Due(ev'[e], data', pending'), Coalesces(e)'
             PROVE  \/ Named(batch'[ev'[e].p], ev'[e].fd)
                    \/ \E i \in queued'[ev'[e].p] : i.fd = ev'[e].fd
  BY DEF Woken
<1>0. RegStep({}) /\ setting' = setting /\ Woken(e) /\ Signals /\ DInv
  BY DEF Spares, Delivery, LInv
<1>1. PICK q \in Poll, f \in Fd : q = ev'[e].p /\ f = ev'[e].fd
  BY DInvNext DEF LInv, EventRec
<1>2. poll'[q].evset[f] = e
  BY <1>1, DInvNext DEF LInv, Exact
<1>3. ~Touched({}, q, f)
  BY <1>2, EventAssumption DEF Spares
<1>4. /\ poll[q].evset[f] = e /\ ev[e].enabled /\ ev[e].p = q /\ ev[e].fd = f
      /\ ev'[e].events = ev[e].events /\ ev'[e].filter = ev[e].filter
      /\ (e \in lost => e \in lost')
  BY <1>0, <1>2, <1>3, Untouched
<1>5. ASSUME NEW i \in queued[q], i.fd = f PROVE \E j \in queued'[q] : j.fd = f
  <2>1. i \in interest'[q]
    BY <1>0, <1>2, <1>3, <1>5, StillWatched
  <2> QED
    BY <1>5, <2>1 DEF Spares
<1>6. Due(ev[e], data', pending') /\ Coalesces(e)
  BY <1>0, <1>1, <1>4 DEF Due, Coalesces
<1>7. CASE q = p /\ f = s.fd
  <2>1. Level(ev[e].events)
    BY <1>4, <1>6, <1>7 DEF Leaves
  <2>2. \E i \in queued[q] : i.fd = f
    BY <1>4, <1>7, <2>1, EventAssumption DEF Live
  <2> QED
    BY <1>1, <1>5, <2>2
<1>8. CASE ~(q = p /\ f = s.fd)
  <2>1. Due(ev[e], data, pending)
    BY <1>4, <1>6, <1>8 DEF Spares
  <2>2. Named(batch[q], f) \/ \E i \in queued[q] : i.fd = f
    BY <1>0, <1>4, <1>6, <2>1 DEF Woken
  <2>3. CASE Named(batch[q], f)
    <3>1. PICK c : c = batch[q]  OBVIOUS
    <3>2. PICK b : b = batch'[q]  OBVIOUS
    <3>3. /\ c.cur \in Nat /\ c.nevt \in Nat
          /\ \A k \in 1 .. c.nevt : c.list[k] \in Slot
      <4>1. Held(c)
        BY <3>1 DEF LInv, Fits
      <4> QED
        BY <4>1, HeldFacts
    <3>4. PICK k \in ToCome(c) : c.list[k].fd = f
      BY <2>3, <3>1 DEF Named
    <3>5. q = p => k # c.cur + 1
      BY <1>8, <3>1, <3>4
    <3>6. k \in ToCome(b) /\ b.list[k] = Remarked({}, q, c.list[k]) /\ c.list[k] \in Slot
      BY <3>1, <3>2, <3>3, <3>4, <3>5 DEF ToCome, Advances, Remains
    <3>7. b.list[k].fd = f
      BY <3>4, <3>6 DEF Remarked, Slot
    <3> QED
      BY <1>1, <3>2, <3>6, <3>7 DEF Named
  <2>4. CASE \E i \in queued[q] : i.fd = f
    BY <1>1, <1>5, <2>4
  <2> QED
    BY <2>2, <2>3, <2>4
<1> QED
  BY <1>7, <1>8

\* consume and the cleanup: all but where the index of p is.
LEMMA HeadDelivers ==
    ASSUME LInv, LInv', Delivery, NEW p \in Poll,
           batch[p].cur < batch[p].nevt,
           NEW s \in Slot, s = batch[p].list[batch[p].cur + 1], Live(p, s),
           NEW rc, Handles(p, s, rc),
           \A q \in Poll : IF q = p THEN Advances(q, batch'[q]) ELSE Remains(q, batch'[q])
    PROVE  /\ \A q \in Poll : Lively(q)' /\ Spent(q)'
           /\ Signals' /\ \A e \in Event : Woken(e)'
<1>0. Signals
  BY DEF Delivery
<1>1. Spares(p, s) /\ Leaves(p, s)
  BY <1>0, HandlesSpares, HandlesLeaves
<1>2. ASSUME NEW q \in Poll PROVE Lively(q)' /\ Spent(q)'
  <2>1. PICK b : b = batch'[q]  OBVIOUS
  <2>2. IF q = p THEN Advances(p, b) ELSE Remains(q, b)
    BY <2>1
  <2> QED
    BY <1>1, <2>1, <2>2, HeadLively
<1>3. Signals'
  BY <1>0, <1>1 DEF Spares, Signals
<1>4. \A e \in Event : Woken(e)'
  BY <1>1, HeadWoken
<1> QED
  BY <1>2, <1>3, <1>4

\* The slot in front of which an index stands.
LEMMA HeadFacts ==
    ASSUME LInv, Delivery, NEW p \in Poll, batch[p].cur < batch[p].nevt,
           NEW s, s = batch[p].list[batch[p].cur + 1]
    PROVE  s \in Slot /\ Live(p, s) /\ SlotAt(p) = {s}
<1>1. PICK c : c = batch[p]  OBVIOUS
<1>2. /\ c.cur \in Nat /\ c.nevt \in Nat
      /\ \A k \in 1 .. c.nevt : c.list[k] \in Slot
  <2>1. Held(c)
    BY <1>1 DEF LInv, Fits
  <2> QED
    BY <2>1, HeldFacts
<1>3. c.cur + 1 \in ToCome(c) /\ c.cur + 1 \in 1 .. c.nevt
  BY <1>1, <1>2 DEF ToCome
<1>4. Lively(p)
  BY DEF Delivery
<1> QED
  BY <1>1, <1>2, <1>3, <1>4 DEF Lively, SlotAt

\* What Marked leaves, when one batch is replaced.
LEMMA MarkedRemains ==
    ASSUME LInv, NEW p \in Poll
    PROVE  Remains(p, Marked({})[p]) /\ Held(Marked({})[p])
BY MarkedFacts DEF LInv, Remains

\* cur++ in consume.
LEMMA TakenFacts ==
    ASSUME LInv, NEW p \in Poll, NEW m, Held(m), Remains(p, m),
           NEW b, b = Taken(m), m.cur < m.nevt
    PROVE  Advances(p, b) /\ b.cur <= b.size /\ (b.nevt = 0 \/ b.cur < b.nevt)
<1>1. m \in BatchRec /\ m.nevt <= m.size
  BY DEF Held
<1>2. m.cur \in Nat /\ m.nevt \in Nat /\ m.size \in Nat
  BY <1>1 DEF BatchRec
<1>3. PICK n \in Nat : n = m.cur + 1
  BY <1>2
<1>4. CASE n >= m.nevt
  <2>1. b = [m EXCEPT !.cur = n, !.nevt = 0, !.list = <<>>]
    BY <1>3, <1>4 DEF Taken
  <2>2. b.cur = n /\ b.nevt = 0 /\ b.size = m.size
    BY <1>1, <2>1 DEF BatchRec
  <2> QED
    BY <1>1, <1>2, <1>3, <1>4, <2>2 DEF Advances, Remains
<1>5. CASE ~(n >= m.nevt)
  <2>1. b = [m EXCEPT !.cur = n]
    BY <1>3, <1>5 DEF Taken
  <2>2. b.cur = n /\ b.nevt = m.nevt /\ b.size = m.size /\ b.list = m.list
    BY <1>1, <2>1 DEF BatchRec
  <2> QED
    BY <1>1, <1>2, <1>3, <1>5, <2>2 DEF Advances, Remains
<1> QED
  BY <1>4, <1>5

\* What consume returns.
LEMMA AnswerFacts ==
    ASSUME LInv, NEW p \in Poll, NEW s \in Slot, NEW e \in Event,
           NEW rc, CheckEventStatus(e, s.events, rc), Checked(p, s, e, rc),
           hungup' = Occurred(e, s),
           result' = [ev |-> e, disabled |-> rc # "ok", eof |-> rc \in {"eof", "error"},
                      err |-> rc = "error", from |-> s.from]
    PROVE  Answer'
<1>1. /\ ev[e].enabled /\ s.from = e /\ rc # "error"
      /\ rc = "eof" <=> "HUP" \in s.events
      /\ rc = "ok" <=> ~Unregisters(e, s.events)
  BY DEF Checked
<1>2. ev'[e].enabled <=> rc = "ok"
  <2>1. Unregister(e) => ~ev'[e].enabled
    BY <1>1, UnregisterTouches
  <2> QED
    BY <1>1, <2>1 DEF CheckEventStatus, vars
<1>3. e \in hungup' <=> "HUP" \in s.events
  BY DEF Occurred
<1>4. /\ result'.ev = e /\ result'.disabled = (rc # "ok")
      /\ result'.eof = (rc = "eof")
  BY <1>1
<1> QED
  BY <1>1, <1>2, <1>3, <1>4 DEF Answer

\* ep:consume
LEMMA ConsumeDelivers ==
    ASSUME LInv, LInv', Delivery, NEW p \in Poll, ConsumeSlot(p)
    PROVE  Delivery' /\ Answer'
<1>0. /\ batch \in [Poll -> BatchRec] /\ batch[p].nevt # 0
      /\ call.op = "consume" /\ (call' = call \/ call' = Idle)
      /\ \A q \in Poll : Inside(q)
      /\ Signals
  BY DEF LInv, Fits, ConsumeSlot, Delivery
<1>1. batch[p].cur < batch[p].nevt
  BY <1>0 DEF Inside, Cleaning
<1>2. PICK s : s = batch[p].list[batch[p].cur + 1]  OBVIOUS
<1>3. s \in Slot /\ Live(p, s) /\ SlotAt(p) = {s}
  BY <1>1, <1>2, HeadFacts
<1>4. PICK e : e = poll[p].evset[s.fd]  OBVIOUS
<1> DEFINE After == \A q \in Poll :
              /\ IF q = p THEN Advances(q, batch'[q]) ELSE Remains(q, batch'[q])
              /\ q = p => /\ batch'[q].cur <= batch'[q].size
                          /\ batch'[q].nevt = 0 \/ batch'[q].cur < batch'[q].nevt
<1>5. ASSUME NEW bs, bs = [q \in Poll |-> bs[q]],
             \A q \in Poll : Remains(q, bs[q]) /\ Held(bs[q]),
             batch' = [bs EXCEPT ![p] = Taken(bs[p])]
      PROVE  After
  <2>1. \A q \in Poll : q # p => batch'[q] = bs[q]
    BY <1>5
  <2>2. batch'[p] = Taken(bs[p])
    BY <1>5
  <2>3. bs[p].cur < bs[p].nevt
    BY <1>1, <1>5 DEF Remains
  <2> QED
    BY <1>5, <2>1, <2>2, <2>3, TakenFacts
<1>6. ASSUME After, Answer', NEW rc, Handles(p, s, rc) PROVE Delivery' /\ Answer'
  <2>1. \A q \in Poll : IF q = p THEN Advances(q, batch'[q]) ELSE Remains(q, batch'[q])
    BY <1>6
  <2>2. /\ \A q \in Poll : Lively(q)' /\ Spent(q)'
        /\ Signals' /\ \A d \in Event : Woken(d)'
    BY <1>1, <1>2, <1>3, <1>6, <2>1, HeadDelivers
  <2>3. ASSUME NEW q \in Poll PROVE Inside(q)'
    BY <1>0, <1>6 DEF Inside, Cleaning, Idle, Remains
  <2> QED
    BY <1>6, <2>2, <2>3 DEF Delivery
<1>7. CASE /\ e = NoEvent /\ batch' = [batch EXCEPT ![p] = Taken(batch[p])]
           /\ result' = NoResult
           /\ UNCHANGED <<vars, deviceVars, queued, disarmed>>
  <2>1. \A q \in Poll : Remains(q, batch[q]) /\ Held(batch[q])
    <3>1. \A q \in Poll : \A f : ~Touched({}, q, f)
      BY <1>7 DEF vars, Touched
    <3> QED
      BY <3>1 DEF Remains, Remarked, LInv, Fits
  <2>2. After
    BY <1>0, <1>5, <1>7, <2>1
  <2>3. Handles(p, s, "ok")
    BY <1>4, <1>7 DEF Handles
  <2>4. Answer'
    BY <1>7 DEF Answer, NoResult
  <2> QED
    BY <1>6, <2>2, <2>3, <2>4
<1>8. CASE e # NoEvent
  <2>1. PICK rc \in RC :
          /\ CheckEventStatus(e, s.events, rc)
          /\ result' = [ev |-> e, disabled |-> rc # "ok", eof |-> rc \in {"eof", "error"},
                        err |-> rc = "error", from |-> s.from]
    BY <1>3, <1>4, <1>8 DEF ConsumeSlot
  <2>2. /\ hungup' = Occurred(e, s)
        /\ batch' = [Marked({}) EXCEPT ![p] = Taken(Marked({})[p])]
    BY <1>3, <1>4, <1>8 DEF ConsumeSlot
  <2>3. e \in Event
    <3>1. s.fd \in Fd /\ DInv
      BY <1>3 DEF Slot, LInv
    <3> QED
      BY <1>4, <1>8, <3>1, InPlace
  <2>4. Checked(p, s, e, rc)
    BY <1>0, <1>3, <1>4, <2>1, <2>3, CheckFacts
  <2>5. Answer'
    BY <1>3, <2>1, <2>2, <2>3, <2>4, AnswerFacts
  <2>6. Handles(p, s, rc)
    BY <1>4, <1>8, <2>1 DEF Handles
  <2>7. PICK bs : bs = Marked({})  OBVIOUS
  <2>8. bs = [q \in Poll |-> bs[q]] /\ \A q \in Poll : Remains(q, bs[q]) /\ Held(bs[q])
    BY <2>7, MarkedRemains DEF Marked
  <2>9. After
    BY <1>5, <2>2, <2>7, <2>8
  <2> QED
    BY <1>6, <2>5, <2>6, <2>9
<1> QED
  BY <1>0, <1>3, <1>4, <1>7, <1>8 DEF ConsumeSlot

\* One round of the cleanup in wait and renew.
LEMMA CleanupDelivers ==
    ASSUME LInv, LInv', Delivery, NEW p \in Poll, CleanupSlot(p)
    PROVE  Delivery'
<1>0. /\ batch \in [Poll -> BatchRec] /\ Held(batch[p])
      /\ call.op \in {"wait", "renew"} /\ call.p = p
      /\ batch[p].cur < batch[p].nevt
      /\ \A q \in Poll : Inside(q)
      /\ Signals
  BY DEF LInv, Fits, CleanupSlot, Delivery
<1>1. PICK s : s = batch[p].list[batch[p].cur + 1]  OBVIOUS
<1>2. s \in Slot /\ Live(p, s) /\ SlotAt(p) = {s}
  BY <1>0, <1>1, HeadFacts
<1>3. PICK e : e = poll[p].evset[s.fd]  OBVIOUS
<1>4. \A q \in Poll : IF q = p THEN Advances(q, batch'[q]) ELSE Remains(q, batch'[q])
  <2>1. PICK bs : bs = Marked({})  OBVIOUS
  <2>2. bs = [q \in Poll |-> bs[q]] /\ \A q \in Poll : Remains(q, bs[q]) /\ Held(bs[q])
    BY <2>1, MarkedRemains DEF Marked
  <2>3. PICK m : m = bs[p]  OBVIOUS
  <2>4. m \in BatchRec /\ m.cur = batch[p].cur /\ m.cur \in Nat
    BY <2>2, <2>3 DEF Remains, Held, BatchRec
  <2>5. PICK n \in Nat : n = m.cur + 1
    BY <2>4
  <2>6. PICK b : b = [m EXCEPT !.cur = n]  OBVIOUS
  <2>7. b.cur = n /\ b.nevt = m.nevt /\ b.size = m.size /\ b.list = m.list
    BY <2>4, <2>6 DEF BatchRec
  <2>8. batch' = [bs EXCEPT ![p] = b]
    BY <2>1, <2>3, <2>5, <2>6 DEF CleanupSlot
  <2>9. Advances(p, b)
    BY <2>2, <2>3, <2>4, <2>5, <2>7 DEF Advances, Remains
  <2> QED
    BY <2>2, <2>8, <2>9
<1>5. \E rc : Handles(p, s, rc) /\ call' = call
  <2>1. CASE e = NoEvent /\ UNCHANGED <<vars, call, hungup, deviceVars, queued, disarmed>>
    <3>1. Handles(p, s, "ok")
      BY <1>3, <2>1 DEF Handles
    <3> QED
      BY <2>1, <3>1
  <2>2. CASE e # NoEvent
    <3>1. PICK rc \in RC : /\ CheckEventStatus(e, s.events, rc)
                           /\ call' = IF rc = "error" THEN Idle ELSE call
      BY <1>2, <1>3, <2>2 DEF CleanupSlot
    <3>2. e \in Event
      <4>1. s.fd \in Fd /\ DInv
        BY <1>2 DEF Slot, LInv
      <4> QED
        BY <1>3, <2>2, <4>1, InPlace
    <3>3. Checked(p, s, e, rc)
      BY <1>0, <1>2, <1>3, <3>1, <3>2, CheckFacts
    <3>4. Handles(p, s, rc)
      BY <1>3, <2>2, <3>1 DEF Handles
    <3> QED
      BY <3>1, <3>3, <3>4 DEF Checked
  <2> QED
    BY <1>2, <1>3, <2>1, <2>2 DEF CleanupSlot
<1>6. /\ \A q \in Poll : Lively(q)' /\ Spent(q)'
      /\ Signals' /\ \A d \in Event : Woken(d)'
  <2>1. PICK rc : Handles(p, s, rc)
    BY <1>5
  <2> QED
    BY <1>0, <1>1, <1>2, <1>4, <2>1, HeadDelivers
<1>7. ASSUME NEW q \in Poll PROVE Inside(q)'
  <2>0. call' = call
    BY <1>5
  <2>1. CASE q = p
    <3>1. /\ batch[p].cur \in Nat /\ batch[p].nevt \in Nat /\ batch[p].size \in Nat
          /\ batch[p].nevt <= batch[p].size
      BY <1>0 DEF Held, BatchRec
    <3>2. Advances(p, batch'[p])
      BY <1>4
    <3> QED
      BY <1>0, <2>0, <2>1, <3>1, <3>2 DEF Inside, Cleaning, Advances
  <2>2. CASE q # p
    BY <1>0, <1>4, <2>0, <2>2 DEF Inside, Cleaning, Remains
  <2> QED
    BY <2>1, <2>2
<1> QED
  BY <1>6, <1>7 DEF Delivery

-----------------------------------------------------------------------------
(* epoll_wait *)

\* A step that leaves registrations alone, and what is due.
LEMMA SameLively ==
    ASSUME LInv, LInv', UNCHANGED vars, NEW q \in Poll, batch'[q] = batch[q], Lively(q),
           queued[q] \subseteq queued'[q],
           \A e \in Event : ev[e].enabled /\ Steady(ev[e])
                            /\ Due(ev[e], data, pending) => Due(ev[e], data', pending')
    PROVE  Lively(q)'
<1>1. RegStep({}) /\ \A f : ~Touched({}, q, f)
  BY DEF RegStep, Touched, vars
<1>2. PICK c : c = batch[q]  OBVIOUS
<1>3. /\ batch'[q] = c /\ batch[q].cur <= c.cur /\ c.nevt = batch[q].nevt
      /\ \A k : c.list[k] = Remarked({}, q, batch[q].list[k])
  BY <1>1, <1>2 DEF Remarked, LInv, Fits, BatchRec
<1> QED
  BY <1>1, <1>2, <1>3, LivelyPasses

\* An event that is due is ready, if it is queued.
LEMMA QueuedIsReady ==
    ASSUME LInv, NEW e \in Event, ev[e].enabled, ev[e].filter \notin FdKind,
           Due(ev[e], data, pending), NEW i \in queued[ev[e].p], i.fd = ev[e].fd
    PROVE  i \in Ready(ev[e].p)
<1>1. PICK p \in Poll, f \in Fd : p = ev[e].p /\ f = ev[e].fd
  BY DInvFacts DEF LInv
<1>2. i \in interest[p] /\ DInv /\ poll[p].evset[f] = e
  <2>1. i \in interest[p] /\ DInv
    BY <1>1 DEF LInv, Fits, ReadyLists
  <2> QED
    BY <1>1, <2>1, InPlace
<1>3. i = Entry(f, file, ev[e].events)
  BY <1>1, <1>2, InPlace
<1>4. ev[e].mt \in Kind /\ "IN" \in ev[e].events
  BY <1>2, DInvFacts DEF Fine, FdKind
<1>5. StateOf(file[f]) = {"IN"}
  BY <1>1, <1>4, DeviceFacts
<1> QED
  BY <1>1, <1>3, <1>4, <1>5 DEF Ready, Reported, Entry

\* A step that leaves registrations and all that is due alone, and slots but
\* for those of p.
LEMMA OtherDelivers ==
    ASSUME LInv, LInv', Delivery, UNCHANGED <<vars, deviceVars>>, NEW p \in Poll,
           \A q \in Poll \ {p} : /\ batch'[q] = batch[q] /\ queued'[q] = queued[q]
                                 /\ disarmed'[q] = disarmed[q]
                                 /\ ~Cleaning(q)
    PROVE  /\ \A q \in Poll \ {p} : Inside(q)' /\ Lively(q)' /\ Spent(q)'
           /\ Signals'
           /\ \A e \in Event : ev[e].p # p => Woken(e)'
<1>1. ASSUME NEW q \in Poll \ {p} PROVE Inside(q)' /\ Lively(q)' /\ Spent(q)'
  <2>1. Inside(q) /\ Lively(q) /\ Spent(q)
    BY DEF Delivery
  <2>2. Lively(q)'
    BY <2>1, SameLively DEF deviceVars, Due
  <2>3. Inside(q)'
    BY <2>1 DEF Inside
  <2>4. Spent(q)'
    BY <2>1 DEF Spent
  <2> QED
    BY <2>2, <2>3, <2>4
<1>2. Signals'
  BY DEF Delivery, Signals, vars, deviceVars
<1>3. ASSUME NEW e \in Event, ev[e].p # p PROVE Woken(e)'
  <2>1. Woken(e) /\ ev[e].p \in Poll \ {p}
    BY <1>3, DInvFacts DEF Delivery, LInv
  <2> QED
    BY <2>1 DEF Woken, Due, Coalesces, vars, deviceVars
<1> QED
  BY <1>1, <1>2, <1>3

\* wait, before epoll_wait
LEMMA BeginDelivers ==
    ASSUME LInv, LInv', Delivery, NEW p \in Poll, BeginWait(p)
    PROVE  Delivery'
<1>0. /\ batch \in [Poll -> BatchRec] /\ batch[p] \in BatchRec
      /\ batch[p].cur >= batch[p].nevt
      /\ UNCHANGED <<vars, deviceVars, queued, disarmed>>
      /\ call.p = p
  BY DEF LInv, Fits, BeginWait
<1>1. poll[p].nreg \in Int
  BY DInvFacts DEF LInv, PollRec
<1>2. PICK n \in Nat : n = Grown(p)
  BY <1>0, <1>1 DEF Grown, BatchRec
<1>3. PICK c : c = Cleared(batch[p])  OBVIOUS
<1>4. c \in BatchRec /\ c.nevt = 0 /\ c.cur = 0
  BY <1>0, <1>3, EmptyList DEF Cleared, BatchRec
<1>5. PICK b : b = [c EXCEPT !.size = n]  OBVIOUS
<1>6. b.nevt = 0 /\ b.cur = 0 /\ b.size \in Nat
  BY <1>4, <1>5 DEF BatchRec
<1>7. batch' = [batch EXCEPT ![p] = b]
  BY <1>2, <1>3, <1>5 DEF BeginWait
<1>8. Inside(p)' /\ Lively(p)' /\ \A f : ~Named(b, f)
  BY <1>0, <1>6, <1>7, EmptyDelivers
<1>9. \A f : ~Named(batch[p], f)
  BY <1>0, CleanFacts
<1>10. Spent(p)'
  BY <1>0, <1>9 DEF Delivery, Spent
<1>11. /\ \A q \in Poll \ {p} : Inside(q)' /\ Lively(q)' /\ Spent(q)'
       /\ Signals'
       /\ \A e \in Event : ev[e].p # p => Woken(e)'
  <2>1. \A q \in Poll \ {p} : batch'[q] = batch[q] /\ ~Cleaning(q)
    BY <1>0, <1>7 DEF Cleaning
  <2> QED
    BY <1>0, <2>1, OtherDelivers
<1>12. ASSUME NEW e \in Event, ev[e].p = p PROVE Woken(e)'
  <2>1. Woken(e)
    BY DEF Delivery
  <2> QED
    BY <1>0, <1>9, <1>12, <2>1 DEF Woken, Due, Coalesces, vars, deviceVars
<1> QED
  BY <1>8, <1>10, <1>11, <1>12 DEF Delivery

\* What epoll_wait stores is true.
LEMMA ReportLively ==
    ASSUME LInv, LInv', UNCHANGED <<vars, deviceVars>>, NEW p \in Poll,
           batch[p].cur = 0,
           NEW R \in SUBSET Ready(p), NEW n \in Nat, NEW b \in BatchRec,
           Reports(p, R, n, b), Requeues(p, R), batch'[p] = b
    PROVE  Lively(p)'
<1>0. DInv /\ queued \in [Poll -> SUBSET Interest] /\ queued[p] \subseteq interest[p]
  BY DEF LInv, Fits, ReadyLists
<1>1. ToCome(b) = 1 .. n
  BY DEF Reports, ToCome
<1>2. ASSUME NEW k \in 1 .. n PROVE Live(p, b.list[k])'
  <2>1. PICK i \in R : /\ b.list[k].fd = i.fd
                       /\ b.list[k].from = poll[p].evset[i.fd]
    BY <1>2 DEF Reports
  <2>2. i \in queued[p] /\ i \in interest[p] /\ Reported(i) # {} /\ i.fd \in Fd
    BY <1>0, ReadyFacts DEF Ready
  <2>3. PICK f \in Fd : f = i.fd
    BY <2>2
  <2>4. PICK e \in Event : e = poll[p].evset[f]
    BY <1>0, <2>2, <2>3, InPlace
  <2>5. i = Entry(f, file, ev[e].events)
    BY <1>0, <2>2, <2>3, <2>4, InPlace
  <2>6. ev[e].fd = f /\ ev[e].enabled
    BY <1>0, <2>3, <2>4, InPlace
  <2>7. ev[e].filter \notin FdKind => Due(ev[e], data, pending)
    <3>1. ev[e].mt \in Kind
      BY <1>0, <2>6, DInvFacts
    <3>2. StateOf(file[f]) # {}
      BY <2>2, <2>5 DEF Reported, Entry
    <3> QED
      BY <2>6, <3>1, <3>2, DeviceFacts
  <2>8. Level(ev[e].events) => i \in queued'[p]
    BY <1>0, <2>5 DEF Requeues, Level, Entry
  <2>9. PICK s : s = b.list[k]  OBVIOUS
  <2>10. s.fd = f /\ s.from = e
    BY <2>1, <2>3, <2>4, <2>9
  <2>11. Live(p, s)'
    BY <2>3, <2>4, <2>7, <2>8, <2>10 DEF Live, Due, Steady, vars, deviceVars
  <2> QED
    BY <2>9, <2>11
<1> QED
  BY <1>1, <1>2 DEF Lively, Reports

\* epoll_wait reports something.
LEMMA ReportDelivers ==
    ASSUME LInv, LInv', Delivery, NEW p \in Poll, Report(p)
    PROVE  Delivery'
<1>0. /\ batch \in [Poll -> BatchRec]
      /\ queued \in [Poll -> SUBSET Interest] /\ disarmed \in [Poll -> SUBSET Interest]
      /\ UNCHANGED <<vars, deviceVars>>
      /\ call.op = "epoll_wait" /\ call.p = p
      /\ batch[p].nevt = 0 /\ batch[p].cur = 0
      /\ poll[p].nreg <= batch[p].size
  BY DEF LInv, Fits, ReadyLists, Waits, Report
<1>1. PICK R \in SUBSET Ready(p), n \in Nat \ {0}, b \in BatchRec :
        /\ n <= poll[p].nreg
        /\ batch' = [batch EXCEPT ![p] = b]
        /\ Reports(p, R, n, b) /\ Requeues(p, R)
  BY ReportFacts
<1>2. batch'[p] = b /\ \A q \in Poll \ {p} : batch'[q] = batch[q]
  BY <1>0, <1>1
<1>3. /\ queued'[p] = (Ready(p) \ R) \cup {i \in R : i.events \cap {"ET", "ONESHOT"} = {}}
      /\ disarmed'[p] = disarmed[p] \cup {i \in R : "ONESHOT" \in i.events}
      /\ \A q \in Poll \ {p} : queued'[q] = queued[q] /\ disarmed'[q] = disarmed[q]
  BY <1>0, <1>1 DEF Requeues
<1>4. \A i \in R : Named(b, i.fd)
  BY <1>0, <1>1 DEF Reports, Named, ToCome
<1>5. disarmed[p] = {}
  <2>1. \A f : ~Named(batch[p], f)
    BY <1>0, CleanFacts
  <2> QED
    BY <2>1 DEF Delivery, Spent
<1>6. Inside(p)'
  <2>1. /\ b.cur = 0 /\ b.nevt = n /\ b.size = batch[p].size
        /\ b.size \in Nat /\ 0 < n
    BY <1>0, <1>1 DEF Reports, BatchRec
  <2> QED
    BY <1>2, <2>1 DEF Inside
<1>7. Lively(p)'
  BY <1>0, <1>1, <1>2, ReportLively
<1>8. Spent(p)'
  BY <1>2, <1>3, <1>4, <1>5 DEF Spent
<1>9. /\ \A q \in Poll \ {p} : Inside(q)' /\ Lively(q)' /\ Spent(q)'
      /\ Signals'
      /\ \A e \in Event : ev[e].p # p => Woken(e)'
  <2>1. \A q \in Poll \ {p} : ~Cleaning(q)
    BY <1>0 DEF Cleaning
  <2> QED
    BY <1>0, <1>2, <1>3, <2>1, OtherDelivers
<1>10. ASSUME NEW e \in Event, ev[e].p = p PROVE Woken(e)'
  <2> SUFFICES ASSUME ev[e].enabled, ev[e].filter \notin FdKind, e \notin lost,
                      Due(ev[e], data, pending), Coalesces(e)
               PROVE  Named(b, ev[e].fd) \/ \E i \in queued'[p] : i.fd = ev[e].fd
    BY <1>0, <1>2, <1>10 DEF Woken, Due, Coalesces, vars, deviceVars
  <2>1. Woken(e) /\ \A f : ~Named(batch[p], f)
    BY <1>0, CleanFacts DEF Delivery
  <2>2. PICK i \in queued[p] : i.fd = ev[e].fd
    BY <1>10, <2>1 DEF Woken
  <2>3. i \in Ready(p)
    BY <1>10, <2>2, QueuedIsReady
  <2>4. CASE i \in R
    BY <1>4, <2>2, <2>4
  <2>5. CASE i \notin R
    BY <1>3, <2>2, <2>3, <2>5
  <2> QED
    BY <2>4, <2>5
<1> QED
  BY <1>6, <1>7, <1>8, <1>9, <1>10 DEF Delivery

\* epoll_wait reports nothing.
LEMMA ReportNothingDelivers ==
    ASSUME LInv, LInv', Delivery, NEW p \in Poll, ReportNothing(p)
    PROVE  Delivery'
<1>0. /\ batch \in [Poll -> BatchRec] /\ queued \in [Poll -> SUBSET Interest]
      /\ UNCHANGED <<vars, deviceVars, batch, disarmed>>
      /\ call.op = "epoll_wait" /\ call.p = p
      /\ batch[p].nevt = 0 /\ batch[p].cur = 0 /\ Ready(p) = {}
      /\ queued' = [queued EXCEPT ![p] = {}]
  BY DEF LInv, Fits, ReadyLists, Waits, ReportNothing
<1>1. \A f : ~Named(batch[p], f)
  BY <1>0, CleanFacts
<1>2. Inside(p)' /\ Lively(p)'
  <2>1. PICK b \in BatchRec : b = batch[p]
    BY <1>0
  <2>2. batch'[p] = b /\ b.nevt = 0 /\ b.cur = 0 /\ b.size \in Nat
    BY <1>0, <2>1 DEF BatchRec
  <2> QED
    BY <2>2, EmptyDelivers
<1>3. Spent(p)'
  BY <1>0, <1>1 DEF Delivery, Spent
<1>4. /\ \A q \in Poll \ {p} : Inside(q)' /\ Lively(q)' /\ Spent(q)'
      /\ Signals'
      /\ \A e \in Event : ev[e].p # p => Woken(e)'
  <2>1. \A q \in Poll \ {p} : ~Cleaning(q) /\ queued'[q] = queued[q]
    BY <1>0 DEF Cleaning
  <2> QED
    BY <1>0, <2>1, OtherDelivers
<1>5. ASSUME NEW e \in Event, ev[e].p = p PROVE Woken(e)'
  <2> SUFFICES ASSUME ev[e].enabled, ev[e].filter \notin FdKind, e \notin lost,
                      Due(ev[e], data, pending), Coalesces(e)
               PROVE  FALSE
    BY <1>0 DEF Woken, Due, Coalesces, vars, deviceVars
  <2>1. Woken(e)
    BY DEF Delivery
  <2>2. PICK i \in queued[p] : i.fd = ev[e].fd
    BY <1>1, <1>5, <2>1 DEF Woken
  <2> QED
    BY <1>0, <1>5, <2>2, QueuedIsReady
<1> QED
  BY <1>2, <1>3, <1>4, <1>5 DEF Delivery

-----------------------------------------------------------------------------
(* Everything else *)

\* A step that delivers nothing and takes nothing off the ready list: what
\* becomes due is queued, unless a slot to come has disarmed its entry.
LEMMA WakeDelivers ==
    ASSUME LInv, LInv', Delivery, UNCHANGED <<vars, batch, setting, disarmed>>,
           \A q \in Poll : queued[q] \subseteq queued'[q] /\ (Cleaning(q) => Cleaning(q)'),
           \A e \in Event :
               /\ ev[e].mt = "signal" => data'[ev[e].fd] = data[ev[e].fd]
               /\ ev[e].enabled /\ ev[e].filter \notin FdKind =>
                     /\ Due(ev[e], data, pending) => Due(ev[e], data', pending')
                     /\ Due(ev[e], data', pending') /\ ~Due(ev[e], data, pending) =>
                           \A i \in interest[ev[e].p] \ disarmed[ev[e].p] :
                               i.fd = ev[e].fd /\ i.file = file[ev[e].fd]
                                   => i \in queued'[ev[e].p]
    PROVE  Delivery'
<1>1. ASSUME NEW q \in Poll PROVE Inside(q)' /\ Lively(q)' /\ Spent(q)'
  <2>1. Inside(q) /\ Lively(q) /\ Spent(q)
    BY DEF Delivery
  <2>2. Lively(q)'
    BY <2>1, SameLively DEF Steady
  <2>3. Inside(q)'
    BY <2>1 DEF Inside
  <2>4. Spent(q)'
    BY <2>1 DEF Spent
  <2> QED
    BY <2>2, <2>3, <2>4
<1>2. Signals'
  BY DEF Delivery, Signals, vars
<1>3. ASSUME NEW e \in Event PROVE Woken(e)'
  <2> SUFFICES ASSUME ev[e].enabled, ev[e].filter \notin FdKind, e \notin lost,
                      Due(ev[e], data', pending'), Coalesces(e)
               PROVE  \/ Named(batch[ev[e].p], ev[e].fd)
                      \/ \E i \in queued'[ev[e].p] : i.fd = ev[e].fd
    BY DEF Woken, Coalesces, vars
  <2>1. PICK p \in Poll, f \in Fd : p = ev[e].p /\ f = ev[e].fd
    BY DInvFacts DEF LInv
  <2>2. CASE Due(ev[e], data, pending)
    <3>1. Woken(e)
      BY DEF Delivery
    <3> QED
      BY <2>1, <2>2, <3>1 DEF Woken
  <2>3. CASE ~Due(ev[e], data, pending)
    <3>1. PICK i : i = Entry(f, file, ev[e].events)  OBVIOUS
    <3>2. DInv /\ poll[p].evset[f] = e
      <4>1. DInv
        BY DEF LInv
      <4> QED
        BY <2>1, <4>1, InPlace
    <3>3. i \in interest[p] /\ i.fd = f /\ i.file = file[f]
      BY <3>1, <3>2, InPlace DEF Entry
    <3>4. CASE i \in disarmed[p]
      <4>1. Spent(p)
        BY DEF Delivery
      <4> QED
        BY <2>1, <3>3, <3>4, <4>1 DEF Spent
    <3>5. CASE i \notin disarmed[p]
      BY <2>1, <2>3, <3>3, <3>5
    <3> QED
      BY <3>4, <3>5
  <2> QED
    BY <2>2, <2>3
<1> QED
  BY <1>1, <1>2, <1>3 DEF Delivery

\* A call is entered, or left with nothing to consume.
LEMMA EnterDelivers ==
    ASSUME LInv, LInv', Delivery,
           UNCHANGED <<vars, batch, deviceVars, queued, disarmed>>,
           \A q \in Poll : Cleaning(q) => Cleaning(q)'
    PROVE  Delivery'
BY WakeDelivers DEF deviceVars, Due

\* What Wake puts on the ready lists.
LEMMA WakeFacts ==
    ASSUME LInv, NEW X, Wake(X), NEW p \in Poll
    PROVE  /\ queued[p] \subseteq queued'[p] /\ disarmed' = disarmed
           /\ \A i \in interest[p] \ disarmed[p] : i.file \in X => i \in queued'[p]
BY DEF Wake

\* ev:trigger()
LEMMA TriggerDelivers ==
    ASSUME LInv, LInv', Delivery, NEW d \in Event, Trigger(d)
    PROVE  Delivery'
<1>0. /\ UNCHANGED <<vars, batch, call, ready, setting, pending>>
      /\ ev[d].mt = "trigger" /\ data \in [Fd -> Nat]
  <2>1. ev[d].mt = "trigger"
    BY DEF Trigger, Has, EventMethods, TypedMethods, ModeMethods, ModeMethod, Mode
  <2> QED
    BY <2>1 DEF Trigger, LInv, Devices
<1>1. CASE UNCHANGED <<data, queued, disarmed>>
  BY <1>0, <1>1, EnterDelivers DEF deviceVars, Cleaning
<1>2. CASE /\ data' = [data EXCEPT ![ev[d].fd] = @ + 1]
           /\ Wake({file[ev[d].fd]})
  <2>0. ev[d].mt \in Kind /\ ev[d].filter = "trigger" /\ ev[d].fd \in Fd
        /\ ev[d].filter \notin FdKind
    BY <1>0, DInvFacts DEF LInv, Kind, FdKind
  <2>1. \A e \in Event \ {d} : ev[e].mt \in Kind => data'[ev[e].fd] = data[ev[e].fd]
    BY <1>0, <1>2, <2>0, DeviceFacts
  <2>2. \A e \in Event : ev[e].mt = "signal" => data'[ev[e].fd] = data[ev[e].fd]
    BY <1>0, <2>1 DEF Kind
  <2>3. ASSUME NEW e \in Event, ev[e].enabled
        PROVE  /\ Due(ev[e], data, pending) => Due(ev[e], data', pending')
               /\ Due(ev[e], data', pending') /\ ~Due(ev[e], data, pending) => e = d
    <3>1. ev[e].mt \in Kind
      BY <2>3, DInvFacts DEF LInv
    <3>2. CASE e = d
      BY <1>0, <1>2, <2>0, <3>2 DEF Due
    <3>3. CASE e # d
      BY <1>0, <2>1, <3>1, <3>3 DEF Due
    <3> QED
      BY <3>2, <3>3
  <2>4. ev[d].enabled => ev[d].p \in Poll
    BY DInvFacts DEF LInv
  <2>5. \A p \in Poll : /\ queued[p] \subseteq queued'[p] /\ disarmed' = disarmed
                        /\ \A i \in interest[p] \ disarmed[p] :
                              i.file = file[ev[d].fd] => i \in queued'[p]
    BY <1>2, WakeFacts
  <2>6. \A q \in Poll : Cleaning(q) => Cleaning(q)'
    BY <1>0 DEF Cleaning
  <2>7. disarmed' = disarmed
    BY <1>2 DEF Wake
  <2> QED
    BY <1>0, <2>2, <2>3, <2>4, <2>5, <2>6, <2>7, WakeDelivers
<1> QED
  BY <1>1, <1>2 DEF Trigger

\* A timer expires.
LEMMA TimerDelivers ==
    ASSUME LInv, LInv', Delivery, NEW f \in Fd, TimerExpires(f)
    PROVE  Delivery'
<1>0. /\ UNCHANGED <<vars, batch, call, ready, setting, pending>>
      /\ file[f] = <<"timerfd", f>> /\ data' = [data EXCEPT ![f] = 1]
      /\ Wake({file[f]}) /\ disarmed' = disarmed /\ data \in [Fd -> Nat]
  BY DEF TimerExpires, Outside, Wake, LInv, Devices
<1>1. \A e \in Event : ev[e].mt = "signal" => data'[ev[e].fd] = data[ev[e].fd]
  <2> SUFFICES ASSUME NEW e \in Event, ev[e].mt = "signal" PROVE ev[e].fd # f
    BY <1>0
  <2>1. ev[e].mt \in Kind /\ ev[e].filter = "signal" /\ ev[e].filter \notin FdKind
    BY DInvFacts DEF LInv, Kind, FdKind
  <2>2. PICK g : g = ev[e].fd  OBVIOUS
  <2>3. file[g] = <<"signalfd", g>>
    BY <2>1, <2>2, DeviceFacts DEF Maker
  <2> QED
    BY <1>0, <2>2, <2>3
<1>2. ASSUME NEW e \in Event, ev[e].enabled
      PROVE  /\ ev[e].p \in Poll
             /\ ev[e].filter \notin FdKind /\ Due(ev[e], data, pending)
                   => Due(ev[e], data', pending')
             /\ ev[e].filter \notin FdKind
                /\ Due(ev[e], data', pending') /\ ~Due(ev[e], data, pending) => ev[e].fd = f
  <2>1. ev[e].p \in Poll /\ ev[e].mt \in Kind /\ ev[e].fd \in Fd
        /\ ev[e].filter = ev[e].mt
    BY <1>2, DInvFacts DEF LInv
  <2> QED
    BY <1>0, <1>1, <2>1 DEF Due
<1>3. \A p \in Poll : /\ queued[p] \subseteq queued'[p]
                      /\ \A i \in interest[p] \ disarmed[p] :
                            i.file = file[f] => i \in queued'[p]
  BY <1>0, WakeFacts
<1>4. \A q \in Poll : Cleaning(q) => Cleaning(q)'
  BY <1>0 DEF Cleaning
<1> QED
  BY <1>0, <1>1, <1>2, <1>3, <1>4, WakeDelivers

\* A signal arrives.
LEMMA SignalDelivers ==
    ASSUME LInv, LInv', Delivery, NEW s \in Signo, SignalArrives(s)
    PROVE  Delivery'
<1>0. /\ UNCHANGED <<vars, batch, call, ready, setting, data>>
      /\ pending' = pending \cup {s} /\ disarmed' = disarmed
  BY DEF SignalArrives, Outside, Wake
<1>1. PICK X : /\ Wake(X)
               /\ \A f \in Fd : file[f] = <<"signalfd", f>> /\ data[f] = s => file[f] \in X
  <2>1. PICK X : X = {file[f] : f \in {g \in Fd : file[g] = <<"signalfd", g>> /\ data[g] = s}}
    OBVIOUS
  <2> QED
    BY <2>1 DEF SignalArrives
<1>2. ASSUME NEW e \in Event, ev[e].enabled, ev[e].filter \notin FdKind,
             Due(ev[e], data', pending'), ~Due(ev[e], data, pending)
      PROVE  file[ev[e].fd] \in X
  <2>1. ev[e].filter = "signal" /\ data[ev[e].fd] = s
    BY <1>0, <1>2 DEF Due
  <2>2. PICK g : g = ev[e].fd  OBVIOUS
  <2>3. ev[e].mt \in Kind
    BY <1>2, DInvFacts DEF LInv
  <2>4. file[g] = <<"signalfd", g>> /\ g \in Fd
    BY <1>2, <2>1, <2>2, <2>3, DeviceFacts DEF Maker
  <2> QED
    BY <1>1, <2>1, <2>2, <2>4
<1>3. \A p \in Poll : /\ queued[p] \subseteq queued'[p]
                      /\ \A i \in interest[p] \ disarmed[p] : i.file \in X => i \in queued'[p]
  BY <1>1, WakeFacts
<1>4. \A e \in Event : ev[e].enabled => ev[e].p \in Poll
  BY DInvFacts DEF LInv
<1>5. \A e \in Event : Due(ev[e], data, pending) => Due(ev[e], data', pending')
  BY <1>0 DEF Due
<1>6. \A q \in Poll : Cleaning(q) => Cleaning(q)'
  BY <1>0 DEF Cleaning
<1> QED
  BY <1>0, <1>2, <1>3, <1>4, <1>5, <1>6, WakeDelivers

\* Peers and the application change what files of the application are ready for.
LEMMA FilesDeliver ==
    ASSUME LInv, LInv', Delivery, NEW x, NEW s, PeerActs(x, s) \/ UserActs(x, s)
    PROVE  Delivery'
<1>0. /\ UNCHANGED <<vars, batch, call, setting, data, pending>>
      /\ disarmed' = disarmed
  BY DEF PeerActs, UserActs, Outside, Wake
<1>1. \A p \in Poll : queued[p] \subseteq queued'[p]
  BY WakeFacts DEF PeerActs, UserActs
<1>2. \A q \in Poll : Cleaning(q) => Cleaning(q)'
  BY <1>0 DEF Cleaning
<1>3. \A e \in Event : Due(ev[e], data', pending') <=> Due(ev[e], data, pending)
  BY <1>0 DEF Due
<1> QED
  BY <1>0, <1>1, <1>2, <1>3, WakeDelivers

-----------------------------------------------------------------------------
(* The invariant is inductive *)

LEMMA ApplicationDelivers ==
    ASSUME LInv, LInv', ~ReusesInBatch, Delivery, Application
    PROVE  Delivery'
<1>1. ASSUME UNCHANGED <<vars, batch, deviceVars, queued, disarmed>>, call = Idle
      PROVE  Delivery'
  <2>1. \A q \in Poll : ~Cleaning(q)
    BY <1>1 DEF Cleaning, Idle
  <2> QED
    BY <1>1, <2>1, EnterDelivers
<1>2. ASSUME NEW p, CallConsume(p) \/ CallRenew(p) PROVE Delivery'
  BY <1>1, <1>2 DEF CallConsume, CallRenew
<1>3. ASSUME NEW p, NEW sec, CallWait(p, sec) PROVE Delivery'
  BY <1>1, <1>3 DEF CallWait
<1> QED
  BY <1>2, <1>3, RegistrationDelivers, TriggerDelivers, FilesDeliver DEF Application

LEMMA LibraryDelivers ==
    ASSUME LInv, LInv', Delivery, NEW p \in Poll, Library(p)
    PROVE  Delivery'
<1>1. CASE ConsumeNothing(p)
  <2>1. UNCHANGED <<vars, batch, deviceVars, queued, disarmed>> /\ call.op = "consume"
    BY <1>1 DEF ConsumeNothing
  <2>2. \A q \in Poll : ~Cleaning(q)
    BY <2>1 DEF Cleaning
  <2> QED
    BY <2>1, <2>2, EnterDelivers
<1> QED
  BY <1>1, ConsumeDelivers, CleanupDelivers, RenewDelivers, BeginDelivers,
     ReportDelivers DEF Library

LEMMA NextDelivers ==
    ASSUME LInv, LInv', ~ReusesInBatch, Delivery, [LoopNext]_allVars
    PROVE  Delivery'
<1>1. CASE Kernel
  BY <1>1, FilesDeliver, TimerDelivers, SignalDelivers, ReportNothingDelivers DEF Kernel
<1>2. CASE UNCHANGED allVars
  BY <1>2, EnterDelivers DEF allVars, loopVars, Cleaning
<1> QED
  BY <1>1, <1>2, ApplicationDelivers, LibraryDelivers DEF LoopNext

\* Only consume returns an event.
LEMMA NextAnswers ==
    ASSUME LInv, LInv', Delivery, Answer, [LoopNext]_allVars
    PROVE  Answer'
<1>1. CASE result' = NoResult
  BY <1>1 DEF Answer, NoResult
<1>2. CASE \E p \in Poll : ConsumeSlot(p)
  BY <1>2, ConsumeDelivers
<1>3. CASE UNCHANGED allVars
  BY <1>3 DEF Answer, allVars, loopVars, vars
<1>4. CASE Application
  BY <1>1, <1>4
     DEF Application, Registration, OneStep, Trigger, CallConsume, CallRenew, CallWait,
         UserActs, Outside
<1>5. CASE Kernel
  BY <1>1, <1>5
     DEF Kernel, PeerActs, TimerExpires, SignalArrives, ReportNothing, Outside
<1>6. ASSUME NEW p \in Poll, Library(p) PROVE Answer'
  BY <1>1, <1>2, <1>6
     DEF Library, ConsumeNothing, CleanupSlot, FinishRenew, BeginWait, Report
<1> QED
  BY <1>3, <1>4, <1>5, <1>6 DEF LoopNext

LEMMA InitEInv == LoopInit => EInv
<1> SUFFICES ASSUME LoopInit PROVE EInv
  OBVIOUS
<1>1. LInv
  BY InitLInv
<1>2. \A e \in Event : ~ev[e].enabled /\ ev[e].mt # "signal"
  <2>1. PICK q \in Poll : TRUE
    BY KernelAssumption
  <2>2. Absent.mt = "none" /\ ~Absent.enabled
    BY <2>1, FreshFacts
  <2> QED
    BY <2>2 DEF LoopInit, Init
<1>3. Signals /\ \A e \in Event : Woken(e)
  BY <1>2 DEF Signals, Woken
<1>4. ASSUME NEW p \in Poll PROVE Inside(p) /\ Lively(p) /\ Spent(p)
  <2>1. PICK b : b = EmptyBatch  OBVIOUS
  <2>2. batch[p] = b /\ b.nevt = 0 /\ b.cur = 0 /\ b.size = 0
    BY <2>1 DEF LoopInit, EmptyBatch
  <2>3. ToCome(b) = {}
    BY <2>2 DEF ToCome
  <2>4. disarmed[p] = {}
    BY DEF LoopInit
  <2> QED
    BY <2>2, <2>3, <2>4 DEF Inside, Lively, Spent
<1>5. Answer
  BY DEF LoopInit, Answer, NoResult
<1> QED
  BY <1>1, <1>3, <1>4, <1>5 DEF EInv, Delivery

LEMMA NextEInv == ~ReusesInBatch /\ EInv /\ [LoopNext]_allVars => EInv'
BY NextLInv, NextDelivers, NextAnswers DEF EInv

\* A slot in front of which an index stands can be read.
LEMMA HeadIsDue ==
    ASSUME LInv, Delivery, "signal" \in Kinds => Alone, NEW p \in Poll, batch[p].cur < batch[p].nevt,
           NEW s, s = batch[p].list[batch[p].cur + 1],
           poll[p].evset[s.fd] # NoEvent,
           ev[poll[p].evset[s.fd]].filter \in {"signal", "timer"}
    PROVE  StateOf(file[s.fd]) # {}
<1>1. s \in Slot /\ Live(p, s) /\ DInv
  BY HeadFacts DEF LInv
<1>2. PICK f \in Fd : f = s.fd
  BY <1>1 DEF Slot
<1>3. PICK e \in Event : e = poll[p].evset[f]
  BY <1>1, <1>2, InPlace
<1>4. ev[e].enabled /\ ev[e].fd = f
  <2>1. \A d \in Event : poll[p].evset[f] = d <=>
                           ev[d].enabled /\ ev[d].p = p /\ ev[d].fd = f
    BY <1>1, InPlace
  <2> QED
    BY <1>3, <2>1
<1>5. ev[e].filter \notin FdKind /\ ev[e].mt \in Kind
  BY <1>1, <1>2, <1>3, <1>4, DInvFacts DEF FdKind
<1>6. Steady(ev[e])
  <2>1. ev[e].filter = "signal" => "signal" \in Kinds
    BY <1>5, DInvFacts DEF LInv, Made, MadeOf, Fine, Kind, FdKind
  <2> QED
    BY <1>5, <2>1 DEF Steady
<1>7. Due(ev[e], data, pending)
  BY <1>1, <1>2, <1>3, <1>6, EventAssumption DEF Live
<1> QED
  BY <1>2, <1>4, <1>5, <1>7, DeviceFacts

-----------------------------------------------------------------------------
(* The loop and Notifier *)

\* The watched events that something has occurred for, as PollLoop maps them.
Occurring ==
    {e \in Event : ev[e].enabled /\ (HasCounter(e) => data[ev[e].fd] > 0)}

\* Table and Promise say the same of the registrations.
LEMMA PromiseTable ==
    /\ Table!Init => Promise!Init
    /\ \A e \in Event : Table!Changes(e) => Promise!Changes(e)
    /\ Table!Sized' => Promise!Sized'
    /\ UNCHANGED Table!tableVars => Promise!SameTable
<1> DEFINE on == [e \in Event |-> ev[e].enabled]
           home == [e \in Event |-> ev[e].p]
           size == [p \in Poll |-> poll[p].nreg]
           sized == size = [p \in Poll |->
                               Cardinality({e \in Event : on[e] /\ home[e] = p})]
<1>a. Table!Sized <=> sized
  BY DEF Table!Sized, Table!Cardinality, Cardinality
<1>b. Promise!Sized <=> sized
  BY DEF Promise!Sized, Promise!Cardinality, Cardinality
<1>1. Table!Sized <=> Promise!Sized
  BY <1>a, <1>b
<1>2. Table!Sized' => Promise!Sized'
  BY <1>1, PTL
<1>3. Table!Init => Promise!Init
  BY <1>1 DEF Table!Init, Promise!Init
<1>4. UNCHANGED Table!tableVars => Promise!SameTable
  BY DEF Table!tableVars, Promise!SameTable, Promise!tableVars
<1>5. ASSUME NEW e \in Event, Table!Changes(e) PROVE Promise!Changes(e)
  BY <1>5 DEF Table!Changes, Table!Watch, Table!Unwatch, Table!Move, Table!Forget,
              Table!Becomes, Table!Unused, Promise!Changes, Promise!Watch,
              Promise!Unwatch, Promise!Move, Promise!Forget, Promise!Becomes,
              Promise!Unused
<1> QED
  BY <1>2, <1>3, <1>4, <1>5

\* A watched timer or trigger has a counter of its own.
LEMMA CounterFacts ==
    ASSUME LInv, NEW e \in Event, ev[e].enabled, HasCounter(e)
    PROVE  /\ ev[e].mt \in Kind /\ ev[e].filter \notin FdKind /\ ev[e].fd \in Fd
           /\ file[ev[e].fd] = <<Maker[ev[e].filter], ev[e].fd>>
           /\ Steady(ev[e]) /\ (Due(ev[e], data, pending) <=> data[ev[e].fd] > 0)
           /\ \A d \in Event \ {e} : ev[d].enabled => ev[d].fd # ev[e].fd
<1>1. \A d \in Event : ev[d].enabled => ev[d].mt \in Kind
  BY DInvFacts DEF LInv
<1>2. ev[e].filter \notin FdKind /\ ev[e].filter # "signal"
  BY DEF HasCounter, FdKind
<1> QED
  BY <1>1, <1>2, DeviceFacts DEF Steady, Due

\* What a call of one step leaves of the counters of other events.
LEMMA CounterStays ==
    ASSUME LInv, LInv', NEW redone, KernelFollows(redone), NEW d \in Event, ev'[d] = ev[d]
    PROVE  d \in Occurring' <=> d \in Occurring
<1>1. ASSUME ev[d].enabled, HasCounter(d) PROVE data'[ev[d].fd] = data[ev[d].fd]
  <2>1. /\ ev[d].mt \in Kind /\ ev[d].filter \notin FdKind /\ ev[d].fd \in Fd
        /\ file[ev[d].fd] = <<Maker[ev[d].filter], ev[d].fd>>
    BY <1>1, CounterFacts
  <2>2. file'[ev[d].fd] = <<Maker[ev[d].filter], ev[d].fd>>
    BY <2>1 DEF LInv, Made, MadeOf
  <2> QED
    BY <2>1, <2>2 DEF KernelFollows
<1> QED
  BY <1>1 DEF Occurring, HasCounter

\* A step that returns nothing.
LEMMA ReturnsNothing ==
    ASSUME result' = NoResult, LInv'
    PROVE  /\ [ev |-> result'.ev, disabled |-> result'.ev # NoEvent /\ result'.disabled]
                  = Promise!Nil
           /\ call'.op \in Promise!Calls
<1>1. call' \in Calls
  BY DEF LInv, Fits, Waits
<1>2. call'.op \in {"idle", "consume", "renew", "wait", "epoll_wait"}
  BY <1>1 DEF Calls, Idle
<1>3. result'.ev = NoEvent
  BY DEF NoResult
<1>4. (result'.ev # NoEvent /\ result'.disabled) = FALSE
  BY <1>3
<1> QED
  BY <1>2, <1>3, <1>4 DEF Promise!Nil, Promise!Calls

\* A step that changes no registration and nothing that is due.
LEMMA Proceeds ==
    ASSUME LInv, LInv', UNCHANGED ev, Occurring' = Occurring, result' = NoResult
    PROVE  Promise!Proceed
<1>1. Promise!SameTable
  BY StutterTable, PromiseTable DEF LInv, DInv
<1> QED
  BY <1>1, ReturnsNothing DEF Promise!Proceed, Occurring

\* A step that leaves registrations and counters alone.
LEMMA SameProceeds ==
    ASSUME LInv, LInv', UNCHANGED <<vars, data>>, result' = NoResult
    PROVE  Promise!NotifierNext
<1>1. UNCHANGED ev /\ Occurring' = Occurring
  BY DEF vars, Occurring, HasCounter
<1> QED
  BY <1>1, Proceeds DEF Promise!NotifierNext

\* A call of the application that is one step.
LEMMA OneStepPromise ==
    ASSUME LInv, LInv', NEW redone, RegStep(redone), OneStep(redone)
    PROVE  Promise!NotifierNext
<1>0. KernelFollows(redone) /\ call = Idle /\ call' = Idle /\ result' = NoResult
  BY DEF OneStep
<1>1. CASE UNCHANGED ev
  <2>1. Occurring' = Occurring
    <3>1. \A d \in Event : d \in Occurring' <=> d \in Occurring
      BY <1>0, <1>1, CounterStays
    <3> QED
      BY <3>1 DEF Occurring
  <2> QED
    BY <1>0, <1>1, <2>1, Proceeds DEF Promise!NotifierNext
<1>2. ASSUME NEW e \in Event, Changed(e)
      PROVE  Promise!NotifierNext
  <2>1. Promise!Changes(e) /\ Promise!Sized'
    BY <1>2, StepTable, PromiseTable DEF LInv, DInv
  <2>2. Occurring' \ {e} = Occurring \ {e}
    <3>1. \A d \in Event \ {e} : d \in Occurring' <=> d \in Occurring
      BY <1>0, <1>2, CounterStays DEF Changed
    <3> QED
      BY <3>1 DEF Occurring
  <2>3. Promise!OnlyFor(e)
    BY <2>2 DEF Promise!OnlyFor, Occurring
  <2>4. Promise!Register(e)
    BY <1>0, <2>1, <2>3, ReturnsNothing DEF Promise!Register, Idle
  <2> QED
    BY <2>4 DEF Promise!NotifierNext
<1>3. IInv /\ [Next]_vars
  BY RegIsNext DEF LInv, DInv, PInv
<1> QED
  BY <1>1, <1>2, <1>3, NextChanges

\* A counter grows, of which at most one watched event knows.
LEMMA CounterGrows ==
    ASSUME LInv, LInv', UNCHANGED <<vars, call>>, result' = NoResult,
           NEW f \in Fd, NEW n \in Nat \ {0}, data' = [data EXCEPT ![f] = n]
    PROVE  Promise!NotifierNext
<1>0. UNCHANGED ev /\ data \in [Fd -> Nat] /\ \A d \in Event : ev[d].fd \in Fd
  BY DInvFacts DEF vars, LInv, Devices
<1>1. \A d \in Event : ev[d].fd # f \/ ~ev[d].enabled \/ ~HasCounter(d) =>
                         (d \in Occurring' <=> d \in Occurring)
  BY <1>0 DEF Occurring, HasCounter
<1>2. ASSUME NEW e \in Event, ev[e].enabled, HasCounter(e), ev[e].fd = f
      PROVE  Promise!NotifierNext
  <2>1. Promise!SameTable
    BY <1>0, StutterTable, PromiseTable DEF LInv, DInv
  <2>2. \A d \in Event \ {e} : d \in Occurring' <=> d \in Occurring
    BY <1>1, <1>2, CounterFacts
  <2>3. e \in Occurring'
    BY <1>0, <1>2 DEF Occurring
  <2>4. Occurring' = Occurring \cup {e}
    BY <2>2, <2>3 DEF Occurring
  <2>5. Promise!Occur(e)
    BY <1>2, <2>1, <2>4, ReturnsNothing DEF Promise!Occur, Occurring
  <2> QED
    BY <2>5 DEF Promise!NotifierNext
<1>3. CASE \A e \in Event : ev[e].fd # f \/ ~ev[e].enabled \/ ~HasCounter(e)
  <2>1. Occurring' = Occurring
    BY <1>1, <1>3 DEF Occurring
  <2> QED
    BY <1>0, <2>1, Proceeds DEF Promise!NotifierNext
<1> QED
  BY <1>2, <1>3

\* check_event_status takes what is due to the event of the slot, and nothing
\* else.
LEMMA CheckTakes ==
    ASSUME LInv, LInv', NEW p \in Poll, NEW s \in Slot, Live(p, s),
           NEW e \in Event, e = poll[p].evset[s.fd],
           NEW rc, CheckEventStatus(e, s.events, rc), Checked(p, s, e, rc)
    PROVE  IF rc = "ok" THEN Promise!Take(e, FALSE) ELSE Promise!Take(e, TRUE)
<1> DEFINE P == [x \in Event |-> PairOf(x)]
           H == [x \in Event |-> ev[x].p]
           O == [x \in Event |-> ev[x].enabled]
<1>0. /\ ev[e].enabled /\ Reads(e, rc)
      /\ rc = "ok" <=> ~Unregisters(e, s.events)
  BY DEF Checked
<1>1. e \in Occurring
  BY <1>0, CounterFacts, EventAssumption DEF Live, Occurring
<1>2. CASE rc # "ok"
  <2>1. Unregister(e)
    BY <1>0, <1>2 DEF CheckEventStatus
  <2>2. /\ ~ev'[e].enabled /\ \A d \in Event \ {e} : ev'[d] = ev[d]
    BY <1>0, <2>1, UnregisterTouches
  <2>3. Promise!Unwatch(e) /\ Promise!Sized'
    <3>1. PICK h : h = Disabled(e)  OBVIOUS
    <3>2. /\ ev' = [ev EXCEPT ![e] = h] /\ ~h.enabled /\ h.mt = ev[e].mt /\ h.p = ev[e].p
          /\ h.filter = ev[e].filter /\ h.ident = ev[e].ident /\ h.enabled = FALSE
      BY <2>1, <3>1, DInvFacts DEF LInv, Unregister, Unwatch, Disabled, EventRec
    <3>3. \A d \in Event : PairOf(d)' = PairOf(d) /\ ev'[d].p = ev[d].p
      BY <3>2, DInvFacts DEF PairOf, LInv
    <3>4. Promise!Becomes(e, PairOf(e), ev[e].p, FALSE)
      <4>1. P' = [P EXCEPT ![e] = PairOf(e)]
        BY <3>3
      <4>2. H' = [H EXCEPT ![e] = ev[e].p]
        BY <3>3
      <4>3. ev'[e] = h
        BY <3>2, DInvFacts DEF LInv
      <4>4. O'[e] = FALSE
        BY <3>2, <4>3
      <4>5. \A d \in Event \ {e} : O'[d] = O[d]
        BY <2>2
      <4>6. O' = [O EXCEPT ![e] = FALSE]
        BY <4>4, <4>5
      <4> QED
        BY <4>1, <4>2, <4>6 DEF Promise!Becomes
    <3>5. Promise!Sized'
      <4>1. IInv'
        BY DEF LInv, DInv, PInv
      <4>2. Table!Sized'
        BY <4>1, IInvSized, PTL
      <4> QED
        BY <4>2, PromiseTable
    <3> QED
      BY <1>0, <3>4, <3>5 DEF Promise!Unwatch
  <2>4. Occurring' = Occurring \ {e}
    <3>1. \A d \in Event \ {e} : d \in Occurring' <=> d \in Occurring
      BY <1>0, <2>2, CounterFacts DEF Occurring, HasCounter, Reads, Due
    <3> QED
      BY <2>2, <3>1 DEF Occurring
  <2> QED
    BY <1>0, <1>1, <1>2, <2>3, <2>4 DEF Promise!Take, Occurring
<1>3. CASE rc = "ok"
  <2>1. UNCHANGED ev
    BY <1>0, <1>3 DEF CheckEventStatus, vars
  <2>2. Promise!SameTable
    BY <2>1, StutterTable, PromiseTable DEF LInv, DInv
  <2>3. \A d \in Event \ {e} : d \in Occurring' <=> d \in Occurring
    BY <1>0, <2>1, CounterFacts DEF Occurring, HasCounter, Reads, Due
  <2>4. Occurring' \in {Occurring, Occurring \ {e}}
    BY <1>1, <2>3 DEF Occurring
  <2> QED
    BY <1>0, <1>1, <1>3, <2>2, <2>4 DEF Promise!Take, Occurring
<1> QED
  BY <1>2, <1>3

\* consume skips a slot, or delivers its event.
LEMMA ConsumePromises ==
    ASSUME LInv, LInv', Delivery, NEW p \in Poll, ConsumeSlot(p)
    PROVE  Promise!NotifierNext
<1>1. call.op = "consume" /\ batch[p].cur < batch[p].nevt /\ Signals
  BY DEF ConsumeSlot, Delivery, Inside, Cleaning
<1>2. PICK s : s = batch[p].list[batch[p].cur + 1]  OBVIOUS
<1>3. s \in Slot /\ Live(p, s) /\ SlotAt(p) = {s}
  BY <1>1, <1>2, HeadFacts
<1>4. PICK e : e = poll[p].evset[s.fd]  OBVIOUS
<1>5. CASE UNCHANGED <<vars, deviceVars>> /\ result' = NoResult
  BY <1>5, SameProceeds DEF deviceVars
<1>6. ASSUME e # NoEvent, NEW rc \in RC, CheckEventStatus(e, s.events, rc), call' = Idle,
             result' = [ev |-> e, disabled |-> rc # "ok", eof |-> rc \in {"eof", "error"},
                        err |-> rc = "error", from |-> s.from]
      PROVE  Promise!NotifierNext
  <2>1. e \in Event
    <3>1. s.fd \in Fd /\ DInv
      BY <1>3 DEF Slot, LInv
    <3> QED
      BY <1>4, <1>6, <3>1, InPlace
  <2>3. Checked(p, s, e, rc)
    BY <1>1, <1>3, <1>4, <1>6, <2>1, CheckFacts
  <2>4. result'.ev = e /\ call'.op = "idle" /\ result'.disabled = (rc # "ok")
    BY <1>6 DEF Idle
  <2>5. CASE rc = "ok"
    <3>1. Promise!Take(e, FALSE)
      BY <1>3, <1>4, <1>6, <2>1, <2>3, <2>5, CheckTakes
    <3>2. (result'.ev # NoEvent /\ result'.disabled) = FALSE
      BY <2>4, <2>5
    <3>3. Promise!Deliver(e, FALSE)
      BY <1>1, <2>4, <3>1, <3>2 DEF Promise!Deliver
    <3> QED
      BY <2>1, <3>3 DEF Promise!NotifierNext
  <2>6. CASE rc # "ok"
    <3>1. Promise!Take(e, TRUE)
      BY <1>3, <1>4, <1>6, <2>1, <2>3, <2>6, CheckTakes
    <3>2. (result'.ev # NoEvent /\ result'.disabled) = TRUE
      BY <1>6, <2>4, <2>6
    <3>3. Promise!Deliver(e, TRUE)
      BY <1>1, <2>4, <3>1, <3>2 DEF Promise!Deliver
    <3> QED
      BY <2>1, <3>3 DEF Promise!NotifierNext
  <2> QED
    BY <2>5, <2>6
<1> QED
  BY <1>3, <1>4, <1>5, <1>6 DEF ConsumeSlot

\* One round of the cleanup in wait and renew.
LEMMA CleanupPromises ==
    ASSUME LInv, LInv', Delivery, NEW p \in Poll, CleanupSlot(p)
    PROVE  Promise!NotifierNext
<1>1. /\ call.op \in {"wait", "renew"} /\ batch[p].cur < batch[p].nevt /\ Signals
      /\ result' = NoResult
  BY DEF CleanupSlot, Delivery
<1>2. PICK s : s = batch[p].list[batch[p].cur + 1]  OBVIOUS
<1>3. s \in Slot /\ Live(p, s) /\ SlotAt(p) = {s}
  BY <1>1, <1>2, HeadFacts
<1>4. PICK e : e = poll[p].evset[s.fd]  OBVIOUS
<1>5. CASE UNCHANGED <<vars, deviceVars>>
  BY <1>1, <1>5, SameProceeds DEF deviceVars
<1>6. ASSUME e # NoEvent, NEW rc \in RC, CheckEventStatus(e, s.events, rc),
             call' = IF rc = "error" THEN Idle ELSE call
      PROVE  Promise!NotifierNext
  <2>1. e \in Event
    <3>1. s.fd \in Fd /\ DInv
      BY <1>3 DEF Slot, LInv
    <3> QED
      BY <1>4, <1>6, <3>1, InPlace
  <2>3. Checked(p, s, e, rc)
    BY <1>1, <1>3, <1>4, <1>6, <2>1, CheckFacts
  <2>4. Promise!Take(e, TRUE) \/ Promise!Take(e, FALSE)
    BY <1>3, <1>4, <1>6, <2>1, <2>3, CheckTakes
  <2>5. call' = call
    BY <1>6, <2>3 DEF Checked
  <2>6. Promise!Discard(e)
    BY <1>1, <2>4, <2>5, ReturnsNothing DEF Promise!Discard
  <2> QED
    BY <2>1, <2>6 DEF Promise!NotifierNext
<1> QED
  BY <1>3, <1>4, <1>5, <1>6 DEF CleanupSlot

\* The rest of renew.
LEMMA RenewPromises ==
    ASSUME LInv, LInv', NEW p \in Poll, FinishRenew(p)
    PROVE  Promise!NotifierNext
<1>1. UNCHANGED ev /\ KernelFollows({}) /\ result' = NoResult
  BY DEF FinishRenew, RenewPoll, RefusedCall
<1>2. \A d \in Event : d \in Occurring' <=> d \in Occurring
  BY <1>1, CounterStays
<1> QED
  BY <1>1, <1>2, Proceeds DEF Promise!NotifierNext, Occurring

\* What wakes the application.
LEMMA DevicePromises ==
    ASSUME LInv, LInv', Kernel \/ \E e \in Event : Trigger(e)
    PROVE  Promise!NotifierNext
<1>0. data \in [Fd -> Nat] /\ \A e \in Event : ev[e].fd \in Fd
  BY DInvFacts DEF LInv, Devices
<1>1. ASSUME NEW e \in Event, Trigger(e) PROVE Promise!NotifierNext
  <2>1. UNCHANGED <<vars, call>> /\ result' = NoResult
    BY <1>1 DEF Trigger
  <2>2. CASE data' = data
    BY <2>1, <2>2, SameProceeds
  <2>3. CASE data' = [data EXCEPT ![ev[e].fd] = @ + 1]
    <3>1. PICK n \in Nat \ {0} : n = data[ev[e].fd] + 1
      BY <1>0
    <3> QED
      BY <1>0, <2>1, <2>3, <3>1, CounterGrows
  <2> QED
    BY <1>1, <2>2, <2>3 DEF Trigger
<1>2. ASSUME NEW f \in Fd, TimerExpires(f) PROVE Promise!NotifierNext
  <2>1. UNCHANGED <<vars, call>> /\ result' = NoResult /\ data' = [data EXCEPT ![f] = 1]
    BY <1>2 DEF TimerExpires, Outside
  <2>2. PICK n \in Nat \ {0} : n = 1
    OBVIOUS
  <2> QED
    BY <2>1, <2>2, CounterGrows
<1>3. CASE UNCHANGED <<vars, data>> /\ result' = NoResult
  BY <1>3, SameProceeds
<1> QED
  BY <1>1, <1>2, <1>3
     DEF Kernel, PeerActs, SignalArrives, ReportNothing, Outside, deviceVars

\* Every step of the loop is one of Notifier.
LEMMA NextPromises ==
    ASSUME ~ReusesInBatch, EInv, EInv', [LoopNext]_allVars
    PROVE  [Promise!NotifierNext]_(Promise!notifierVars)
<1>0. LInv /\ LInv' /\ Delivery
  BY DEF EInv
<1>1. CASE Registration
  BY <1>0, <1>1, RegistrationSteps, OneStepPromise
<1>2. CASE Kernel \/ \E e \in Event : Trigger(e)
  BY <1>0, <1>2, DevicePromises
<1>3. CASE UNCHANGED <<vars, deviceVars>> /\ result' = NoResult
  BY <1>0, <1>3, SameProceeds DEF deviceVars
<1>4. ASSUME NEW x \in UserFile, NEW s \in State, UserActs(x, s)
      PROVE  Promise!NotifierNext
  BY <1>0, <1>4, SameProceeds DEF UserActs, Outside
<1>5. CASE Application
  BY <1>1, <1>2, <1>3, <1>4, <1>5 DEF Application, CallConsume, CallRenew, CallWait
<1>6. ASSUME NEW p \in Poll, Library(p) PROVE Promise!NotifierNext
  <2>1. CASE ConsumeNothing(p) \/ BeginWait(p) \/ Report(p)
    <3>1. UNCHANGED <<vars, deviceVars>> /\ result' = NoResult
      BY <2>1 DEF ConsumeNothing, BeginWait, Report
    <3> QED
      BY <1>0, <3>1, SameProceeds DEF deviceVars
  <2> QED
    BY <1>0, <1>6, <2>1, ConsumePromises, CleanupPromises, RenewPromises DEF Library
<1>7. CASE UNCHANGED allVars
  <2>1. UNCHANGED <<ev, poll, data, call, result>>
    BY <1>7 DEF allVars, loopVars, vars, deviceVars
  <2>2. /\ UNCHANGED [e \in Event |-> PairOf(e)]
        /\ UNCHANGED [e \in Event |-> ev[e].p]
        /\ UNCHANGED [e \in Event |-> ev[e].enabled]
        /\ UNCHANGED [p \in Poll |-> poll[p].nreg]
        /\ UNCHANGED {e \in Event : ev[e].enabled /\ (HasCounter(e) => data[ev[e].fd] > 0)}
    BY <2>1 DEF PairOf, HasCounter
  <2> QED
    BY <2>1, <2>2 DEF Promise!notifierVars, Promise!tableVars
<1> QED
  BY <1>2, <1>5, <1>6, <1>7 DEF LoopNext

\* The initial states are initial states of Notifier.
LEMMA InitPromises == LoopInit => Promise!NotifierInit
<1> SUFFICES ASSUME LoopInit PROVE Promise!NotifierInit
  OBVIOUS
<1>1. Promise!Init
  BY InitTable, PromiseTable DEF LoopInit
<1>2. \A e \in Event : ~ev[e].enabled
  <2>1. PICK q \in Poll : TRUE
    BY KernelAssumption
  <2> QED
    BY <2>1, FreshFacts DEF LoopInit, Init
<1>3. result.ev = NoEvent /\ call.op = "idle"
  BY DEF LoopInit, NoResult, Idle
<1>4. (result.ev # NoEvent /\ result.disabled) = FALSE
  BY <1>3
<1> QED
  BY <1>1, <1>2, <1>3, <1>4 DEF Promise!NotifierInit, Promise!Nil

-----------------------------------------------------------------------------
(* The theorems *)

\* Slots, ready lists and descriptors agree in every reachable state, however
\* registrations, peers, timers and signals come between wait and consume.
THEOREM DeliveryInvariance ==
    ASSUME ~ReusesInBatch
    PROVE  LoopSpec => []EInv
BY InitEInv, NextEInv, PTL DEF LoopSpec

\* The state of the loop is well-typed; in particular the index cur never
\* leaves the event list that wait_lua has allocated (epoll.c).
THEOREM LoopTyping ==
    ASSUME ~ReusesInBatch
    PROVE  LoopSpec => []LoopTypeOK
<1>1. ASSUME EInv PROVE LoopTypeOK
  <2>1. LInv /\ \A p \in Poll : Inside(p)
    BY <1>1 DEF EInv, Delivery
  <2>2. ASSUME NEW p \in Poll
        PROVE  /\ batch[p].list \in Seq(Slot)
               /\ {batch[p].nevt, batch[p].size} \subseteq Nat
               /\ batch[p].cur \in 0 .. batch[p].size
    <3>1. batch[p] \in BatchRec /\ Inside(p)
      BY <2>1, <2>2 DEF LInv, Fits
    <3> QED
      BY <3>1 DEF BatchRec, Inside
  <2> QED
    BY <2>1, <2>2 DEF LInv, Fits, Waits, ReadyLists, Devices, LoopTypeOK
<1> QED
  BY <1>1, DeliveryInvariance, PTL

\* consume_lua (epoll.c) reads evlist[cur] whenever nevt is not zero: cur is
\* then below nevt, the slot one that the last wait has stored.
THEOREM ConsumeReadsInBatch ==
    ASSUME ~ReusesInBatch
    PROVE  LoopSpec => []ReadsInBatch
<1>1. ASSUME EInv PROVE ReadsInBatch
  <2> SUFFICES ASSUME call.op = "consume", batch[call.p].nevt # 0
               PROVE  batch[call.p].cur < batch[call.p].nevt
    BY DEF ReadsInBatch
  <2>1. call \in Calls /\ \A p \in Poll : Inside(p)
    BY <1>1 DEF EInv, LInv, Delivery, Fits, Waits
  <2>2. call.p \in Poll
    BY <2>1 DEF Calls, Idle
  <2> QED
    BY <2>1, <2>2 DEF Inside, Cleaning
<1> QED
  BY <1>1, DeliveryInvariance, PTL

\* The flag disabled that consume_lua returns is true exactly if the event is
\* not watched any more.
THEOREM DisabledIsTruthful ==
    ASSUME ~ReusesInBatch
    PROVE  LoopSpec => []DisabledTruthful
<1>1. EInv => DisabledTruthful
  BY DEF EInv, Answer, DisabledTruthful
<1> QED
  BY <1>1, DeliveryInvariance, PTL

\* consume_lua (epoll.c) answers eof = true for every failed read, although no
\* hang-up has occurred; no read fails here, so its eof is what ev:is_eof()
\* answers afterwards, for this delivery and no earlier one.
THEOREM EofIsTruthful ==
    ASSUME ~ReusesInBatch
    PROVE  LoopSpec => []EofTruthful
<1>1. EInv => EofTruthful
  BY DEF EInv, Answer, EofTruthful, IsEof
<1> QED
  BY <1>1, DeliveryInvariance, PTL

\* consume_lua (epoll.c) returns only an event that is watched and that
\* something has occurred for, and unregisters none but that one; outside of
\* consume, wait and renew nothing that has occurred for a timer or a trigger
\* is lost, whatever the application, its peers, timers and signals do between
\* the steps of these calls.
THEOREM PromiseIsKept ==
    ASSUME ~ReusesInBatch
    PROVE  LoopSpec => PromiseSpec
<1>1. EInv /\ EInv' /\ [LoopNext]_allVars => [Promise!NotifierNext]_(Promise!notifierVars)
  BY NextPromises
<1> QED
  BY <1>1, InitPromises, InitEInv, NextEInv, PTL
     DEF LoopSpec, PromiseSpec, Promise!NotifierSpec

\* check_event_status (epoll.c) reads a signalfd or a timerfd, which block,
\* only for a slot that is still true: nothing that may happen between wait
\* and consume empties the descriptor of a slot to come.
THEOREM DrainsDoNotBlock ==
    ASSUME ~ReusesInBatch, "signal" \in Kinds => Alone
    PROVE  LoopSpec => []NoBlockedDrain
<1>1. ASSUME EInv PROVE NoBlockedDrain
  <2>1. LInv /\ Delivery /\ call \in Calls
    BY <1>1 DEF EInv, LInv, Fits, Waits
  <2>2. call.op \in {"consume", "wait", "renew"} => call.p \in Poll
    BY <2>1 DEF Calls, Idle
  <2>3. ASSUME NEW p \in Poll, batch[p].cur < batch[p].nevt
        PROVE  LET s == batch[p].list[batch[p].cur + 1]
                   e == poll[p].evset[s.fd]
               IN  e # NoEvent /\ ev[e].filter \in {"signal", "timer"}
                       => StateOf(file[s.fd]) # {}
    BY <2>1, <2>3, HeadIsDue
  <2> QED
    BY <2>2, <2>3 DEF NoBlockedDrain
<1> QED
  BY <1>1, DeliveryInvariance, PTL

\* A signal, timer or trigger that has occurred is on the kernel's ready list
\* or in a slot to come, through every call of the application and through the
\* cleanup of wait and renew (epoll.c): no edge-triggered event falls silent.
THEOREM WakeupsAreKept ==
    ASSUME ~ReusesInBatch
    PROVE  LoopSpec => []WakeupPending
<1>1. ASSUME EInv PROVE WakeupPending
  <2> SUFFICES ASSUME NEW e \in Event \ lost, ev[e].enabled, ev[e].filter \notin FdKind,
                      StateOf(file[ev[e].fd]) # {}, Coalesces(e)
               PROVE  \/ ev[e].fd \in Ahead(ev[e].p)
                      \/ \E i \in queued[ev[e].p] : i.fd = ev[e].fd
    BY DEF WakeupPending
  <2>1. LInv /\ Woken(e)
    BY <1>1 DEF EInv, Delivery
  <2>2. ev[e].mt \in Kind
    BY <2>1, DInvFacts DEF LInv
  <2>3. Due(ev[e], data, pending)
    BY <2>1, <2>2, DeviceFacts
  <2>4. Named(batch[ev[e].p], ev[e].fd) \/ \E i \in queued[ev[e].p] : i.fd = ev[e].fd
    BY <2>1, <2>3 DEF Woken
  <2> QED
    BY <2>4 DEF Named, Ahead, ToCome
<1> QED
  BY <1>1, DeliveryInvariance, PTL

=============================================================================

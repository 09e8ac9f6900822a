----------------------------- MODULE LoopProofs -----------------------------
(***************************************************************************)
(* Proofs about PollLoop, for every instance: the loop changes             *)
(* registrations only as PollEvent allows, so that what is proved about    *)
(* PollEvent holds in it, and epoll_wait fits into the event list.         *)
(***************************************************************************)
EXTENDS PollLoop, DisciplineProofs, SecondsProofs, SequenceTheorems

-----------------------------------------------------------------------------
(* What a descriptor refers to *)

Maker == [signal |-> "signalfd", timer |-> "timerfd", trigger |-> "eventfd"]

\* The descriptor of an event with a type: the application's file, a duplicate
\* of it, or what the event has created.
MadeOf(r, ff) ==
    /\ r.filter \in FdKind => ff[r.fd] \in UserFile
    /\ r.filter \notin FdKind => ff[r.fd] = <<Maker[r.filter], r.fd>>
    /\ r.filter = "signal" => r.ident \in Signo /\ "signal" \in Kinds

Made(evs, ff, own) ==
    /\ \A e \in Event : evs[e].mt \in Kind => MadeOf(evs[e], ff)
    /\ \A f \in Fd : own[f] = "user" => ff[f] \in UserFile

\* A step opens or closes descriptor f, or leaves it alone: it never puts one
\* file in the place of another.
Turned(f) ==
    \/ file'[f] = file[f] /\ owner'[f] = owner[f]
    \/ file'[f] = NoFile
    \/ file[f] = NoFile /\ (owner'[f] = "user" => file'[f] \in UserFile)

\* A step leaves an event with a type what it is, or gives it one.
Stays(e) ==
    /\ ev[e].mt \in Kind /\ ev'[e].mt \in Kind =>
          /\ ev'[e].filter = ev[e].filter
          /\ ev'[e].ident = ev[e].ident /\ ev'[e].fd = ev[e].fd
    /\ ev[e].mt \notin Kind /\ ev'[e].mt \in Kind => MadeOf(ev'[e], file')

\* A step leaves a watched event alone, but for its user data.
Quiet(e) ==
    ev[e].enabled /\ ev'[e].enabled =>
        /\ ev'[e].events = ev[e].events /\ ev'[e].p = ev[e].p
        /\ e \in lost => e \in lost'

-----------------------------------------------------------------------------
(* Every call leaves descriptors and other events alone *)

\* What a call opens was closed, and is not the application's.
LEMMA OpenedTurns ==
    ASSUME DInv, NEW e \in Event, NEW d \in Fd, Lowest(d), NEW x,
           NEW ff, ff = [file EXCEPT ![d] = x], Opened(e, d, ff), NEW f \in Fd
    PROVE  Turned(f)
<1>1. file \in Files /\ owner \in Owners
  BY DInvFacts
<1> QED
  BY <1>1, KernelAssumption DEF Opened, Lowest, Files, Owners, Turned

\* as_read ... as_trigger
LEMMA AsTurns ==
    ASSUME DInv, NEW e \in Event, NEW u \in Data, As(e, u), NEW f \in Fd
    PROVE  Turned(f)
<1>1. CASE UNCHANGED <<file, owner>>
  BY <1>1 DEF Turned
<1>2. ASSUME NEW d \in Fd, Lowest(d), NEW x, Opened(e, d, [file EXCEPT ![d] = x])
      PROVE  Turned(f)
  BY <1>2, OpenedTurns
<1> QED
  BY <1>1, <1>2
     DEF As, AsRead, AsWrite, AsSignal, AsTimer, AsTrigger, AsFd, AsOwnFd,
         RefusedCall, kernelVars

LEMMA StepTurns ==
    ASSUME DInv, [Next]_vars, NEW f \in Fd
    PROVE  Turned(f)
<1>0. file \in Files /\ owner \in Owners
  BY DInvFacts
<1>1. CASE UNCHANGED <<file, owner>>
  BY <1>1 DEF Turned
<1>2. ASSUME NEW intr, NEW fds, CloseFrom(intr, fds) PROVE Turned(f)
  BY <1>2 DEF CloseFrom, Turned
<1>3. ASSUME NEW e \in Event, Call(e) PROVE Turned(f)
  <2>1. CASE Revert(e) \/ Gc(e)
    BY <1>1, <1>2, <2>1 DEF Revert, Gc
  <2>2. CASE \E u \in Data : As(e, u)
    BY <2>2, AsTurns
  <2> QED
    BY <1>1, <1>3, <2>1, <2>2
       DEF Call, NewEvent, Watch, Unwatch, SetMode, SetUdata, RefusedCall, kernelVars
<1>4. ASSUME NEW e \in Event, Renew(e) PROVE Turned(f)
  BY <1>1, <1>4 DEF Renew, RenewEvent
<1>5. ASSUME NEW p \in Poll, PollCall(p) \/ RenewPoll(p) PROVE Turned(f)
  BY <1>1, <1>5 DEF PollCall, NewPoll, GcPoll, RenewPoll, RefusedCall
<1>6. CASE User
  <2>1. ASSUME NEW x \in UserFile, NEW g \in Fd, UserOpen(x, g) PROVE Turned(f)
    BY <1>0, <2>1 DEF UserOpen, Lowest, Turned, Files, Owners
  <2>2. ASSUME NEW g \in Fd, UserClose(g) PROVE Turned(f)
    BY <1>2, <2>2 DEF UserClose
  <2> QED
    BY <1>6, <2>1, <2>2 DEF User
<1>7. CASE UNCHANGED vars
  BY <1>1, <1>7 DEF vars
<1> QED
  BY <1>3, <1>4, <1>5, <1>6, <1>7 DEF Next

\* The event that as_read ... as_trigger leave.
LEMMA WatchMade ==
    ASSUME DInv, NEW e \in Event, NEW r, NEW ff,
           NEW g \in EventRec, NEW b, r.mt \notin Kind, b.mt \notin Kind,
           MadeOf(g, ff), outcome' # "error" => file' = ff,
           PollWatch(e, r, poll, interest, ff, g, b)
    PROVE  /\ ev'[e].mt \in Kind => MadeOf(ev'[e], file')
           /\ \A c \in Event \ {e} : ev'[c] = ev[c]
<1>0. ev \in [Event -> EventRec]
  BY DInvFacts
<1>1. PICK h : h = [g EXCEPT !.enabled = TRUE]  OBVIOUS
<1>2. h.fd = g.fd /\ h.filter = g.filter /\ h.ident = g.ident
  BY <1>1 DEF EventRec
<1>3. MadeOf(h, ff)
  BY <1>2 DEF MadeOf
<1>4. CASE ev' = [ev EXCEPT ![e] = h] /\ outcome' = "ok"
  BY <1>0, <1>3, <1>4
<1>5. CASE ev' = [ev EXCEPT ![e] = b]
  BY <1>0, <1>5
<1>6. CASE ev' = [ev EXCEPT ![e] = r]
  BY <1>0, <1>6
<1> QED
  BY <1>1, <1>4, <1>5, <1>6 DEF PollWatch, Return

\* as_read and as_write
LEMMA AsFdMade ==
    ASSUME DInv, Made(ev, file, owner), NEW e \in Event, ev[e].mt = "event",
           NEW kind \in FdKind, NEW other \in FdKind,
           NEW dir, dir = (IF kind = "write" THEN "OUT" ELSE "IN"),
           NEW f \in Fd, NEW u \in Data, AsFd(e, kind, other, dir, f, u)
    PROVE  /\ ev'[e].mt \in Kind => MadeOf(ev'[e], file')
           /\ \A c \in Event \ {e} : ev'[c] = ev[c]
<1>0. /\ file \in Files /\ owner[f] \in {"user", "none"} /\ kind \in Kind /\ f \in Ident
      /\ Orderly(ev, file, owner, interest, lost)
  BY DInvFacts, LoopAssumption DEF AsFd, Kind, Ident
<1>1. file[f] # NoFile => file[f] \in UserFile
  BY <1>0 DEF Orderly, Opening, Made
<1>2. CASE RefusedCall
  BY <1>2 DEF RefusedCall, Kind, FdKind
<1>3. ASSUME NEW d \in Fd, NEW ff, ff[d] = file[f], NEW r, r = Asked(e, kind, f, dir, d),
             NEW g, g = Typed(e, kind, f, dir, d, u),
             PollWatch(e, r, poll, interest, ff, g, r),
             outcome' # "error" => file' = ff
      PROVE  /\ ev'[e].mt \in Kind => MadeOf(ev'[e], file')
             /\ \A c \in Event \ {e} : ev'[c] = ev[c]
  <2>1. /\ r.mt = "event" /\ r.fd = d
        /\ g \in EventRec /\ g.filter = kind /\ g.fd = d
    BY <1>0, <1>3, AsFacts DEF DInv
  <2>2. CASE file[f] # NoFile
    <3>1. MadeOf(g, ff)
      BY <1>1, <1>3, <2>1, <2>2 DEF MadeOf, FdKind
    <3> QED
      BY <1>3, <2>1, <3>1, WatchMade DEF Kind, FdKind
  <2>3. CASE file[f] = NoFile
    <3>1. ev' = [ev EXCEPT ![e] = r]
      BY <1>3, <2>1, <2>3 DEF PollWatch, AddAccepted
    <3> QED
      BY <2>1, <3>1, DInvFacts DEF Kind, FdKind
  <2> QED
    BY <2>2, <2>3
<1>4. ASSUME NEW d \in Fd PROVE [file EXCEPT ![d] = file[f]][d] = file[f]
  BY <1>0 DEF Files
<1> QED
  BY <1>2, <1>3, <1>4 DEF AsFd, Asked, Typed, Opened

\* as_signal and as_timer
LEMMA AsOwnFdMade ==
    ASSUME DInv, NEW e \in Event, ev[e].mt = "event",
           NEW kind \in {"signal", "timer"}, NEW id \in Ident,
           kind = "signal" => id \in Signo /\ "signal" \in Kinds,
           NEW type \in {"signalfd", "timerfd"}, type = Maker[kind], NEW u \in Data,
           AsOwnFd(e, kind, id, type, u)
    PROVE  /\ ev'[e].mt \in Kind => MadeOf(ev'[e], file')
           /\ \A c \in Event \ {e} : ev'[c] = ev[c]
<1>0. file \in Files /\ kind \in Kind /\ kind \notin FdKind /\ kind # "write"
  BY DInvFacts DEF Kind, FdKind
<1>1. CASE RefusedCall
  BY <1>1 DEF RefusedCall, Kind, FdKind
<1>2. ASSUME NEW d \in Fd, NEW ff, ff = [file EXCEPT ![d] = <<type, d>>],
             NEW r, r = Asked(e, kind, id, "IN", d),
             NEW g, g = Typed(e, kind, id, "IN", d, u),
             PollWatch(e, r, poll, interest, ff, g, r),
             outcome' # "error" => file' = ff
      PROVE  /\ ev'[e].mt \in Kind => MadeOf(ev'[e], file')
             /\ \A c \in Event \ {e} : ev'[c] = ev[c]
  <2>1. /\ r.mt = "event" /\ g \in EventRec /\ g.filter = kind
        /\ g.fd = d /\ g.ident = id
    BY <1>0, <1>2, AsFacts DEF DInv
  <2>2. MadeOf(g, ff)
    BY <1>0, <1>2, <2>1 DEF MadeOf, Files
  <2> QED
    BY <1>2, <2>1, <2>2, WatchMade DEF Kind, FdKind
<1> QED
  BY <1>1, <1>2 DEF AsOwnFd, Asked, Typed, Opened

LEMMA AsTriggerMade ==
    ASSUME DInv, NEW e \in Event, NEW u \in Data, AsTrigger(e, u)
    PROVE  /\ ev'[e].mt \in Kind => MadeOf(ev'[e], file')
           /\ \A c \in Event \ {e} : ev'[c] = ev[c]
<1> DEFINE k == Keep(ev[e], u)
<1>0. ev[e] \in EventRec /\ ev \in [Event -> EventRec] /\ file \in Files
  BY DInvFacts
<1>1. ev[e].mt = "event"
  BY MethodFacts DEF AsTrigger
<1>2. k \in EventRec /\ k.mt = "event"
  BY <1>0, <1>1 DEF EventRec, Keep, Data
<1> HIDE DEF k
<1>3. CASE ev' = [ev EXCEPT ![e] = k]
  BY <1>0, <1>2, <1>3 DEF Kind, FdKind
<1>4. ASSUME NEW d \in Fd, NEW ff, ff = [file EXCEPT ![d] = <<"eventfd", d>>],
             NEW r, r = [k EXCEPT !.ident = d, !.filter = "trigger",
                                  !.events = {"IN"}, !.fd = d],
             PollWatch(e, r, poll, interest, ff, [r EXCEPT !.mt = "trigger"],
                       [r EXCEPT !.ident = 0, !.filter = "none",
                                 !.events = {}, !.fd = 0]),
             outcome' # "error" => file' = ff
      PROVE  /\ ev'[e].mt \in Kind => MadeOf(ev'[e], file')
             /\ \A c \in Event \ {e} : ev'[c] = ev[c]
  <2>1. r \in EventRec /\ r.filter = "trigger" /\ r.mt = "event" /\ r.fd = d
    BY <1>2, <1>4 DEF EventRec, Ident, Kind, FdKind, Flag
  <2> DEFINE g == [r EXCEPT !.mt = "trigger"]
  <2>2. g \in EventRec /\ g.filter = "trigger" /\ g.fd = d
    BY <2>1 DEF EventRec, Kind, FdKind
  <2> DEFINE b == [r EXCEPT !.ident = 0, !.filter = "none", !.events = {}, !.fd = 0]
  <2>3. b.mt = "event"
    BY <2>1 DEF EventRec
  <2>4. PollWatch(e, r, poll, interest, ff, g, b)
    BY <1>4
  <2> HIDE DEF g, b
  <2>5. MadeOf(g, ff)
    BY <1>0, <1>4, <2>2 DEF MadeOf, FdKind, Files, Maker
  <2> QED
    BY <1>4, <2>1, <2>2, <2>3, <2>4, <2>5, WatchMade DEF Kind, FdKind
<1> QED
  BY <1>3, <1>4 DEF AsTrigger, Opened, k

\* The five functions.
LEMMA AsMade ==
    ASSUME DInv, Made(ev, file, owner), NEW e \in Event, NEW u \in Data, As(e, u)
    PROVE  /\ ev[e].mt = "event"
           /\ ev'[e].mt \in Kind => MadeOf(ev'[e], file')
           /\ \A c \in Event \ {e} : ev'[c] = ev[c]
<1>1. ASSUME NEW f \in Fd, AsRead(e, f, u) PROVE ev[e].mt = "event"
  BY <1>1, MethodFacts DEF AsRead
<1>2. ASSUME NEW f \in Fd, AsWrite(e, f, u) PROVE ev[e].mt = "event"
  BY <1>2, MethodFacts DEF AsWrite
<1>3. ASSUME NEW s \in Signo, AsSignal(e, s, u) PROVE ev[e].mt = "event"
  BY <1>3, MethodFacts DEF AsSignal
<1>4. ASSUME NEW t \in TimerId, AsTimer(e, t, u) PROVE ev[e].mt = "event"
  BY <1>4, MethodFacts DEF AsTimer
<1>5. ASSUME AsTrigger(e, u) PROVE ev[e].mt = "event"
  BY <1>5, MethodFacts DEF AsTrigger
<1>6. ev[e].mt = "event"
  BY <1>1, <1>2, <1>3, <1>4, <1>5 DEF As
<1>7. CASE \E f \in Fd : AsRead(e, f, u)
  <2>1. PICK f \in Fd : AsFd(e, "read", "write", "IN", f, u)
    BY <1>7 DEF AsRead
  <2> QED
    BY <1>6, <2>1, AsFdMade DEF FdKind
<1>8. CASE \E f \in Fd : AsWrite(e, f, u)
  <2>1. PICK f \in Fd : AsFd(e, "write", "read", "OUT", f, u)
    BY <1>8 DEF AsWrite
  <2> QED
    BY <1>6, <2>1, AsFdMade DEF FdKind
<1>9. CASE "signal" \in Kinds /\ \E s \in Signo : AsSignal(e, s, u)
  <2>1. PICK s \in Signo : AsOwnFd(e, "signal", s, "signalfd", u)
    BY <1>9 DEF AsSignal
  <2>2. s \in Ident /\ Maker["signal"] = "signalfd"
    BY DEF Ident, Maker
  <2> QED
    BY <1>6, <1>9, <2>1, <2>2, AsOwnFdMade
<1>10. CASE \E t \in TimerId : AsTimer(e, t, u)
  <2>1. PICK t \in TimerId : AsOwnFd(e, "timer", t, "timerfd", u)
    BY <1>10 DEF AsTimer
  <2>2. t \in Ident /\ Maker["timer"] = "timerfd"
    BY DEF Ident, Maker
  <2> QED
    BY <1>6, <2>1, <2>2, AsOwnFdMade
<1>11. CASE AsTrigger(e, u)
  BY <1>6, <1>11, AsTriggerMade
<1> QED
  BY <1>7, <1>8, <1>9, <1>10, <1>11 DEF As

\* ev:watch, ev:unwatch, ev:renew, ev:revert, ev:as_level ... and ev:udata
\* leave the type of an event as it is, or take it away.
LEMMA CallStays ==
    ASSUME DInv, Made(ev, file, owner), NEW e \in Event, Call(e) \/ Renew(e)
    PROVE  Stays(e) /\ \A c \in Event \ {e} : ev'[c] = ev[c]
<1>0. ev[e] \in EventRec /\ ev \in [Event -> EventRec] /\ ev[e].p \in Poll
  BY DInvFacts DEF EventRec
<1> DEFINE Goal == Stays(e) /\ \A c \in Event \ {e} : ev'[c] = ev[c]
<1>1. ASSUME NEW g, g.mt = ev[e].mt, g.filter = ev[e].filter,
             g.ident = ev[e].ident, g.fd = ev[e].fd, ev' = [ev EXCEPT ![e] = g]
      PROVE  Goal
  BY <1>0, <1>1 DEF Stays
<1>2. ASSUME NEW g, g.mt \notin Kind, ev' = [ev EXCEPT ![e] = g]
      PROVE  Goal
  BY <1>0, <1>2 DEF Stays
<1>3. CASE UNCHANGED ev
  BY <1>3 DEF Stays
<1>4. ASSUME NEW r \in EventRec, r.mt = ev[e].mt, r.filter = ev[e].filter,
             r.ident = ev[e].ident, r.fd = ev[e].fd,
             NEW polls, NEW intr, PollWatch(e, r, polls, intr, file, r, r)
      PROVE  Goal
  <2>1. PICK g : g = [r EXCEPT !.enabled = TRUE]  OBVIOUS
  <2>2. g.mt = r.mt /\ g.filter = r.filter /\ g.ident = r.ident /\ g.fd = r.fd
    BY <2>1 DEF EventRec
  <2>3. ev' = [ev EXCEPT ![e] = g] \/ ev' = [ev EXCEPT ![e] = r]
    BY <1>4, <2>1 DEF PollWatch
  <2> QED
    BY <1>1, <1>4, <2>2, <2>3
<1>5. PICK h : h = Disabled(e)  OBVIOUS
<1>6. /\ h \in EventRec /\ h.mt = ev[e].mt /\ h.filter = ev[e].filter
      /\ h.ident = ev[e].ident /\ h.fd = ev[e].fd
  BY <1>0, <1>5 DEF Disabled, EventRec
<1>7. CASE Watch(e)
  BY <1>0, <1>3, <1>4, <1>7 DEF Watch
<1>8. CASE Unwatch(e)
  BY <1>1, <1>3, <1>5, <1>6, <1>8 DEF Unwatch
<1>9. CASE Renew(e)
  <2>1. PICK p \in Poll : RenewEvent(e, p)
    BY <1>9 DEF Renew
  <2>2. PICK r : r = [h EXCEPT !.p = p]  OBVIOUS
  <2>3. /\ r \in EventRec /\ r.mt = ev[e].mt /\ r.filter = ev[e].filter
        /\ r.ident = ev[e].ident /\ r.fd = ev[e].fd
    BY <1>6, <2>2 DEF EventRec
  <2>4. CASE ev' = [ev EXCEPT ![e].p = p]
    <3>1. PICK g : g = [ev[e] EXCEPT !.p = p]  OBVIOUS
    <3>2. /\ g.mt = ev[e].mt /\ g.filter = ev[e].filter
          /\ g.ident = ev[e].ident /\ g.fd = ev[e].fd
      BY <1>0, <3>1 DEF EventRec
    <3> QED
      BY <1>1, <2>4, <3>1, <3>2
  <2>5. CASE ev' = [ev EXCEPT ![e] = h]
    BY <1>1, <1>6, <2>5
  <2>6. CASE PollWatch(e, r, UnwatchedPoll(e), UnwatchedIntr(e), file, r, r)
    BY <1>4, <2>3, <2>6
  <2> QED
    BY <1>5, <2>1, <2>2, <2>4, <2>5, <2>6 DEF RenewEvent
<1>10. CASE Revert(e)
  <2>1. PICK g : g = Reverted(ev[e])  OBVIOUS
  <2>2. g.mt \notin Kind
    BY <2>1 DEF Reverted, Fresh, Kind, FdKind
  <2>3. ev' = [ev EXCEPT ![e] = h] \/ ev' = [ev EXCEPT ![e] = g]
    BY <1>5, <1>10, <2>1 DEF Revert
  <2> QED
    BY <1>1, <1>2, <1>6, <2>2, <2>3
<1>11. CASE Gc(e)
  <2>1. PICK g : g = Absent  OBVIOUS
  <2>2. g.mt \notin Kind
    BY <2>1 DEF Absent, Fresh, Kind, FdKind
  <2> QED
    BY <1>2, <1>11, <2>1, <2>2 DEF Gc
<1>12. ASSUME NEW p \in Poll, NewEvent(e, p) PROVE Goal
  <2>1. PICK g : g = Fresh(p)  OBVIOUS
  <2>2. g.mt \notin Kind
    BY <2>1 DEF Fresh, Kind, FdKind
  <2> QED
    BY <1>2, <1>12, <2>1, <2>2 DEF NewEvent
<1>13. ASSUME NEW m \in Modes, SetMode(e, m) PROVE Goal
  <2>1. PICK g : g = [ev[e] EXCEPT !.events = ModeFlags(m, ev[e].events)]  OBVIOUS
  <2>2. /\ g.mt = ev[e].mt /\ g.filter = ev[e].filter
        /\ g.ident = ev[e].ident /\ g.fd = ev[e].fd
    BY <1>0, <2>1 DEF EventRec
  <2>3. UNCHANGED ev \/ ev' = [ev EXCEPT ![e] = g]
    BY <1>13, <2>1 DEF SetMode, RefusedCall
  <2> QED
    BY <1>1, <1>3, <2>2, <2>3
<1>14. ASSUME NEW u \in Data, SetUdata(e, u) PROVE Goal
  <2>1. PICK g : g = [ev[e] EXCEPT !.udata = u]  OBVIOUS
  <2>2. /\ g.mt = ev[e].mt /\ g.filter = ev[e].filter
        /\ g.ident = ev[e].ident /\ g.fd = ev[e].fd
    BY <1>0, <2>1 DEF EventRec
  <2> QED
    BY <1>1, <1>14, <2>1, <2>2 DEF SetUdata
<1>15. ASSUME NEW u \in Data, As(e, u) PROVE Goal
  BY <1>15, AsMade DEF Stays, Kind, FdKind
<1>16. CASE Call(e)
  <2>1. CASE \E u \in Data : As(e, u)
    BY <1>15, <2>1
  <2>2. CASE \E p \in Poll : NewEvent(e, p)
    BY <1>12, <2>2
  <2>3. CASE \E m \in Modes : SetMode(e, m)
    BY <1>13, <2>3
  <2>4. CASE \E u \in Data : SetUdata(e, u)
    BY <1>14, <2>4
  <2> QED
    BY <1>7, <1>8, <1>10, <1>11, <1>16, <2>1, <2>2, <2>3, <2>4 DEF Call
<1> QED
  BY <1>9, <1>16

LEMMA StepStays ==
    ASSUME DInv, Made(ev, file, owner), [Next]_vars, NEW e \in Event
    PROVE  Stays(e)
<1>1. ev' = ev => Stays(e)
  BY DEF Stays
<1>2. ASSUME NEW p \in Poll, PollCall(p) \/ RenewPoll(p) PROVE ev' = ev
  BY <1>2 DEF PollCall, NewPoll, GcPoll, RenewPoll, RefusedCall
<1>3. ASSUME User PROVE ev' = ev
  BY <1>3 DEF User, UserOpen, UserClose
<1>4. ASSUME NEW d \in Event, Call(d) \/ Renew(d) PROVE Stays(e)
  <2>1. CASE d = e
    BY <1>4, <2>1, CallStays
  <2>2. CASE d # e
    <3>1. ev'[e] = ev[e]
      BY <1>4, <2>2, CallStays
    <3> QED
      BY <3>1 DEF Stays
  <2> QED
    BY <2>1, <2>2
<1> QED
  BY <1>1, <1>2, <1>3, <1>4 DEF Next, vars

\* What the invariant says of the state after the step.
LEMMA DInvNext ==
    ASSUME DInv'
    PROVE  /\ ev' \in [Event -> EventRec] /\ poll' \in [Poll -> PollRec]
           /\ file' \in Files /\ owner' \in Owners /\ interest' \in Lists
           /\ Exact(ev', poll')
           /\ \A e \in Event : /\ Holds(e, ev'[e], file', owner')
                               /\ Fine(ev'[e]) /\ ev'[e] \in EventRec
           /\ Opening(file', owner') /\ Owned(ev', owner')
           /\ Watched(ev', file', interest', lost') /\ Known(ev', file', interest')
BY DEF DInv, PInv, KInv, IInv, Tidy, Orderly, Sound, Registry, Holding, KernelTypeOK,
       Files, Owners, Lists

\* So descriptors stay what they are.
LEMMA NextMade ==
    ASSUME DInv, DInv', Made(ev, file, owner), [Next]_vars
    PROVE  Made(ev', file', owner')
<1>1. ASSUME NEW e \in Event, ev'[e].mt \in Kind PROVE MadeOf(ev'[e], file')
  <2>1. Stays(e)
    BY StepStays
  <2>2. CASE ev[e].mt \in Kind
    <3>1. /\ ev'[e].filter = ev[e].filter
          /\ ev'[e].ident = ev[e].ident /\ ev'[e].fd = ev[e].fd
      BY <1>1, <2>1, <2>2 DEF Stays
    <3>2. ev[e].fd \in Fd /\ CanPoll(file[ev[e].fd]) /\ CanPoll(file'[ev[e].fd])
      BY <1>1, <2>2, <3>1, DInvFacts, DInvNext DEF Holds
    <3>3. file'[ev[e].fd] = file[ev[e].fd]
      BY <3>2, StepTurns, CanPollFacts DEF Turned
    <3> QED
      BY <2>2, <3>1, <3>3 DEF Made, MadeOf
  <2>3. CASE ev[e].mt \notin Kind
    BY <1>1, <2>1, <2>3 DEF Stays
  <2> QED
    BY <2>2, <2>3
<1>2. ASSUME NEW f \in Fd, owner'[f] = "user" PROVE file'[f] \in UserFile
  <2>1. file'[f] # NoFile
    BY <1>2, DInvNext DEF Opening
  <2> QED
    BY <1>2, <2>1, StepTurns DEF Turned, Made
<1> QED
  BY <1>1, <1>2 DEF Made

\* No file is open that the library did not create or the application open:
\* what is open and not the application's belongs to the event of its kind.
LEMMA MadeFacts ==
    ASSUME NEW evs \in [Event -> EventRec], NEW ff \in Files, NEW own \in Owners,
           Made(evs, ff, own), Opening(ff, own), Owned(evs, own),
           \A e \in Event : Holds(e, evs[e], ff, own) /\ Fine(evs[e]),
           NEW f \in Fd, ff[f] # NoFile, ff[f] \notin UserFile
    PROVE  /\ own[f] \in Event /\ evs[own[f]].fd = f
           /\ evs[own[f]].mt \in Kind \ FdKind
           /\ evs[own[f]].filter = evs[own[f]].mt
           /\ ff[f] = <<Maker[evs[own[f]].filter], f>>
<1>1. own[f] \in Event
  BY DEF Opening, Made, Owners
<1>2. evs[own[f]].fd = f /\ ClosesFd(evs[own[f]])
  BY <1>1 DEF Owned
<1>3. evs[own[f]].mt \in Kind
  BY <1>1, <1>2 DEF Holds
<1> QED
  BY <1>1, <1>2, <1>3 DEF Made, MadeOf, Fine

\* A watched event keeps its flags, its instance and its entry until it is
\* unwatched.
LEMMA CallQuiet ==
    ASSUME DInv, NEW e \in Event, Call(e)
    PROVE  Quiet(e) /\ lost \ {e} \subseteq lost'
<1>0. ev[e] \in EventRec /\ ev \in [Event -> EventRec] /\ Fine(ev[e]) /\ ev[e].p \in Poll
  BY DInvFacts
<1>1. ASSUME ~ev[e].enabled, lost \ {e} \subseteq lost'
      PROVE  Quiet(e) /\ lost \ {e} \subseteq lost'
  BY <1>1 DEF Quiet
<1>2. ASSUME NEW g, ~g.enabled, ev' = [ev EXCEPT ![e] = g], lost \ {e} \subseteq lost'
      PROVE  Quiet(e) /\ lost \ {e} \subseteq lost'
  BY <1>0, <1>2 DEF Quiet
<1>3. CASE UNCHANGED <<ev, lost>>
  BY <1>3 DEF Quiet
<1>4. ASSUME NEW u \in Data, As(e, u)
      PROVE  Quiet(e) /\ lost \ {e} \subseteq lost'
  <2>1. lost' = lost
    BY <1>4 DEF As, AsRead, AsWrite, AsSignal, AsTimer, AsTrigger, AsFd, AsOwnFd,
                RefusedCall
  <2>2. ev[e].mt = "event"
    BY <1>4, MethodFacts DEF As, AsRead, AsWrite, AsSignal, AsTimer, AsTrigger
  <2> QED
    BY <1>0, <1>1, <2>1, <2>2 DEF Fine, Kind, FdKind
<1>5. CASE Watch(e)
  BY <1>1, <1>3, <1>5 DEF Watch
<1>6. PICK h : h = Disabled(e)  OBVIOUS
<1>7. ~h.enabled
  BY <1>0, <1>6 DEF Disabled, EventRec
<1>8. CASE Unwatch(e)
  BY <1>2, <1>3, <1>6, <1>7, <1>8 DEF Unwatch
<1>9. CASE Revert(e)
  <2>1. PICK g : g = Reverted(ev[e])  OBVIOUS
  <2>2. ~g.enabled
    BY <2>1 DEF Reverted, Fresh
  <2>3. ev' = [ev EXCEPT ![e] = h] \/ ev' = [ev EXCEPT ![e] = g]
    BY <1>6, <1>9, <2>1 DEF Revert
  <2>4. lost' = lost \ {e}
    BY <1>9 DEF Revert
  <2> QED
    BY <1>2, <1>7, <2>2, <2>3, <2>4
<1>10. CASE Gc(e)
  <2>1. PICK g : g = Absent  OBVIOUS
  <2>2. ~g.enabled
    BY <1>0, <2>1, FreshFacts
  <2> QED
    BY <1>2, <1>10, <2>1, <2>2 DEF Gc
<1>11. ASSUME NEW p \in Poll, NewEvent(e, p)
       PROVE  Quiet(e) /\ lost \ {e} \subseteq lost'
  <2>1. ~ev[e].enabled
    BY <1>0, <1>11 DEF NewEvent, Fine, Kind, FdKind
  <2> QED
    BY <1>1, <1>11, <2>1 DEF NewEvent
<1>12. ASSUME NEW m \in Modes, SetMode(e, m)
       PROVE  Quiet(e) /\ lost \ {e} \subseteq lost'
  BY <1>1, <1>3, <1>12 DEF SetMode, RefusedCall
<1>13. ASSUME NEW u \in Data, SetUdata(e, u)
       PROVE  Quiet(e) /\ lost \ {e} \subseteq lost'
  BY <1>0, <1>13 DEF SetUdata, Quiet, EventRec
<1> QED
  BY <1>4, <1>5, <1>8, <1>9, <1>10, <1>11, <1>12, <1>13 DEF Call

-----------------------------------------------------------------------------
(* The invariant *)

BatchRec == [list : Seq(Slot), cur : Nat, nevt : Nat, size : Nat]

\* nevt counts what the event list holds, and that is not more than it can.
Held(b) ==
    /\ b \in BatchRec
    /\ b.nevt = Len(b.list) /\ b.nevt <= b.size

\* While epoll_wait runs the batch is empty and the list has room for nreg.
Waits ==
    /\ call \in Calls
    /\ call.op = "epoll_wait" =>
          /\ batch[call.p].nevt = 0 /\ batch[call.p].cur = 0
          /\ poll[call.p].nreg <= batch[call.p].size

ReadyLists ==
    /\ queued \in [Poll -> SUBSET Interest] /\ disarmed \in [Poll -> SUBSET Interest]
    /\ \A p \in Poll : queued[p] \subseteq interest[p] /\ disarmed[p] \subseteq interest[p]

Fits ==
    /\ batch \in [Poll -> BatchRec] /\ \A p \in Poll : Held(batch[p])
    /\ Waits
    /\ ReadyLists

\* What the kernel's files and the last answer can be.
Devices ==
    /\ hungup \subseteq Event /\ pending \subseteq Signo
    /\ ready \in [UserFile -> SUBSET State]
    /\ data \in [Fd -> Nat]
    /\ setting \in [Fd -> {"plain", "armed", "semaphore"}]

LInv ==
    /\ DInv /\ Made(ev, file, owner)
    /\ Fits /\ Devices /\ result \in Result

-----------------------------------------------------------------------------
(* Lemmas about the batch *)

\* An empty list.
LEMMA EmptyList == <<>> \in Seq(Slot) /\ Len(<<>>) = 0
BY EmptySeq

\* consume, and a new batch.
LEMMA HeldFacts ==
    ASSUME NEW b, Held(b)
    PROVE  /\ b.list \in Seq(Slot) /\ b.cur \in Nat /\ b.nevt \in Nat /\ b.size \in Nat
           /\ DOMAIN b.list = 1 .. b.nevt
           /\ \A k \in 1 .. b.nevt : b.list[k] \in Slot
           /\ Held(Taken(b)) /\ Held(Cleared(b)) /\ Held([b EXCEPT !.cur = @ + 1])
<1>1. /\ b.list \in Seq(Slot) /\ b.cur \in Nat /\ b.nevt \in Nat /\ b.size \in Nat
      /\ b.nevt = Len(b.list)
  BY DEF Held, BatchRec
<1>2. DOMAIN b.list = 1 .. b.nevt /\ \A k \in 1 .. b.nevt : b.list[k] \in Slot
  BY <1>1, LenProperties, ElementOfSeq
<1>3. Held([b EXCEPT !.cur = @ + 1])
  BY <1>1 DEF Held, BatchRec
<1>4. Held(Cleared(b))
  <2>1. PICK c : c = Cleared(b)  OBVIOUS
  <2>2. c \in BatchRec /\ c.nevt = 0 /\ c.list = <<>> /\ c.size = b.size
    BY <1>1, <2>1, EmptyList DEF Held, BatchRec, Cleared
  <2> QED
    BY <1>1, <2>1, <2>2, EmptyList DEF Held
<1>5. Held(Taken(b))
  <2>1. CASE b.cur + 1 >= b.nevt
    <3>1. PICK n \in Nat : n = b.cur + 1
      BY <1>1
    <3>2. PICK c : c = [b EXCEPT !.cur = n, !.nevt = 0, !.list = <<>>]  OBVIOUS
    <3>3. Taken(b) = c
      BY <2>1, <3>1, <3>2 DEF Taken
    <3>4. c \in BatchRec /\ c.nevt = 0 /\ c.list = <<>> /\ c.size = b.size
      BY <1>1, <3>2, EmptyList DEF Held, BatchRec
    <3> QED
      BY <1>1, <3>3, <3>4, EmptyList DEF Held
  <2>2. CASE ~(b.cur + 1 >= b.nevt)
    BY <1>3, <2>2 DEF Taken
  <2> QED
    BY <2>1, <2>2
<1> QED
  BY <1>1, <1>2, <1>3, <1>4, <1>5

\* A list of n slots.
LEMMA SlotList ==
    ASSUME NEW n \in Nat, NEW s \in [1 .. n -> Slot]
    PROVE  s \in Seq(Slot) /\ Len(s) = n
<1>1. s \in Seq(Slot)
  BY SeqDef
<1> QED
  BY <1>1, LenProperties

\* What becomes of a slot when registrations end.
Remarked(redone, p, s) ==
    IF Touched(redone, p, s.fd) THEN [s EXCEPT !.from = NoEvent] ELSE s

LEMMA MarkedFacts ==
    ASSUME Fits, NEW redone, NEW p \in Poll, NEW b, b = Marked(redone)[p]
    PROVE  /\ Held(b)
           /\ b.cur = batch[p].cur /\ b.nevt = batch[p].nevt /\ b.size = batch[p].size
           /\ \A k \in 1 .. b.nevt : b.list[k] = Remarked(redone, p, batch[p].list[k])
<1>1. Held(batch[p]) /\ batch[p] \in BatchRec
  BY DEF Fits
<1>2. PICK l : l = batch[p].list  OBVIOUS
<1>3. /\ DOMAIN l = 1 .. batch[p].nevt /\ batch[p].nevt \in Nat
      /\ \A k \in 1 .. batch[p].nevt : l[k] \in Slot
  BY <1>1, <1>2, HeldFacts
<1> DEFINE m == [k \in DOMAIN l |-> Remarked(redone, p, l[k])]
<1>4. b = [batch[p] EXCEPT !.list = m]
  BY <1>1, <1>2 DEF Marked, Remarked, BatchRec
<1>5. \A s \in Slot : Remarked(redone, p, s) \in Slot
  BY DEF Remarked, Slot
<1>6. m \in [1 .. batch[p].nevt -> Slot]
  BY <1>3, <1>5
<1>7. \A k \in 1 .. batch[p].nevt : m[k] = Remarked(redone, p, l[k])
  BY <1>3
<1> HIDE DEF m
<1>8. m \in Seq(Slot) /\ Len(m) = batch[p].nevt
  BY <1>3, <1>6, SlotList
<1> QED
  BY <1>1, <1>2, <1>4, <1>7, <1>8 DEF Held, BatchRec

\* Entries of one instance have different descriptors, so they are finitely many.
LEMMA EntriesFacts ==
    ASSUME DInv, NEW p \in Poll
    PROVE  /\ \A i, j \in interest[p] : i.fd = j.fd => i = j
           /\ \A R \in SUBSET interest[p] : IsFiniteSet(R)
<1>0. /\ interest \in Lists /\ Registry(ev, poll)
      /\ Orderly(ev, file, owner, interest, lost)
      /\ \A e \in Event : ev[e].fd \in Fd
  BY DInvFacts
<1>1. ASSUME NEW i \in interest[p], NEW j \in interest[p], i.fd = j.fd
      PROVE  i = j
  <2>1. i \in Interest /\ j \in Interest
    BY <1>0 DEF Lists
  <2>2. i.file = j.file
    BY <1>0, <1>1 DEF Orderly, Known
  <2>3. PICK d \in Event : ev[d].enabled /\ ev[d].p = p /\ ev[d].fd = i.fd
                           /\ ev[d].events = i.events
    BY <1>0 DEF Orderly, Known
  <2>4. PICK e \in Event : ev[e].enabled /\ ev[e].p = p /\ ev[e].fd = j.fd
                           /\ ev[e].events = j.events
    BY <1>0 DEF Orderly, Known
  <2>5. d = e
    BY <1>0, <1>1, <2>3, <2>4 DEF Registry, Exact
  <2> QED
    BY <1>1, <2>1, <2>2, <2>3, <2>4, <2>5 DEF Interest
<1>2. ASSUME NEW R \in SUBSET interest[p] PROVE IsFiniteSet(R)
  <2> DEFINE m == [i \in R |-> i.fd]
  <2>1. \A i \in R : i.fd \in Fd
    BY <1>0 DEF Lists, Interest
  <2>2. m \in Injection(R, Fd)
    BY <1>1, <2>1 DEF Injection, IsInjective
  <2> QED
    BY <2>2, FdFacts, FS_Injection
<1> QED
  BY <1>1, <1>2

\* The slot that consume or the cleanup reads, and the event it finds.
LEMMA SlotAtFacts ==
    ASSUME LInv, NEW p \in Poll, NEW s \in SlotAt(p), NEW e, e = poll[p].evset[s.fd]
    PROVE  /\ s.fd \in Fd /\ s.from \in Event \cup {NoEvent} /\ s.events \subseteq State
           /\ e # NoEvent => e \in Event /\ ev[e].enabled /\ ev[e].p = p
                             /\ ev[e].fd = s.fd
<1>1. s \in Slot
  <2>1. CASE batch[p].cur < batch[p].nevt
    <3>1. PICK b : b = batch[p]  OBVIOUS
    <3>2. Held(b) /\ s = b.list[b.cur + 1] /\ b.cur < b.nevt
      BY <2>1, <3>1 DEF SlotAt, LInv, Fits
    <3>3. b.cur \in Nat /\ b.nevt \in Nat /\ \A k \in 1 .. b.nevt : b.list[k] \in Slot
      BY <3>2, HeldFacts
    <3>4. b.cur + 1 \in 1 .. b.nevt
      BY <3>2, <3>3
    <3> QED
      BY <3>2, <3>3, <3>4
  <2>2. CASE ~(batch[p].cur < batch[p].nevt)
    BY <2>2 DEF SlotAt, Slot, State
  <2> QED
    BY <2>1, <2>2
<1>2. s.fd \in Fd /\ s.from \in Event \cup {NoEvent} /\ s.events \subseteq State
  BY <1>1 DEF Slot
<1>3. Registry(ev, poll) /\ poll \in [Poll -> PollRec]
  BY DInvFacts DEF LInv
<1>4. poll[p].evset[s.fd] \in Event \cup {NoEvent}
  BY <1>2, <1>3 DEF PollRec
<1> QED
  BY <1>2, <1>3, <1>4 DEF Registry, Exact

\* check_event_status calls poll_unwatch_event or nothing.
LEMMA CheckIsNext ==
    ASSUME NEW e \in Event, NEW occurred, NEW rc, CheckEventStatus(e, occurred, rc)
    PROVE  [Next]_vars /\ (Unregister(e) \/ UNCHANGED vars)
<1>1. Unwatch(e) => Next
  BY DEF Next, Call
<1> QED
  BY <1>1 DEF CheckEventStatus, Unregister

\* A step of the loop is one call of PollEvent, or none.
LEMMA LoopIsNext ==
    ASSUME LInv, [LoopNext]_allVars
    PROVE  [Next]_vars
<1>1. ASSUME NEW p \in Poll, Library(p) PROVE [Next]_vars
  <2>1. ASSUME NEW s \in SlotAt(p), NEW rc, poll[p].evset[s.fd] # NoEvent,
               CheckEventStatus(poll[p].evset[s.fd], s.events, rc)
        PROVE  [Next]_vars
    BY <2>1, SlotAtFacts, CheckIsNext
  <2>2. CASE FinishRenew(p)
    BY <2>2 DEF FinishRenew, Next
  <2>3. CASE ConsumeSlot(p)
    BY <2>1, <2>3 DEF ConsumeSlot
  <2>4. CASE CleanupSlot(p)
    BY <2>1, <2>4 DEF CleanupSlot
  <2> QED
    BY <1>1, <2>2, <2>3, <2>4 DEF Library, ConsumeNothing, BeginWait, Report
<1>2. CASE Application
  <2>1. CASE Registration
    BY <2>1 DEF Registration, Next
  <2> QED
    BY <1>2, <2>1 DEF Application, Trigger, CallConsume, CallRenew, CallWait, UserActs,
                      Outside
<1>3. CASE Kernel
  BY <1>3 DEF Kernel, PeerActs, TimerExpires, SignalArrives, ReportNothing, Outside
<1>4. CASE UNCHANGED allVars
  BY <1>4 DEF allVars
<1> QED
  BY <1>1, <1>2, <1>3, <1>4 DEF LoopNext

-----------------------------------------------------------------------------
(* Every step keeps the batch in its list *)

\* The ready lists after a registration, after a wake-up and after a slot.
LEMMA FollowsLists ==
    ASSUME interest' \in Lists, NEW redone, KernelFollows(redone)
    PROVE  ReadyLists'
BY DEF KernelFollows, ReadyLists, Lists

LEMMA WakeLists ==
    ASSUME DInv, Fits, UNCHANGED vars, NEW X, Wake(X)
    PROVE  ReadyLists'
<1>1. interest \in Lists
  BY DInvFacts
<1> QED
  BY <1>1 DEF Wake, ReadyLists, Fits, Lists, vars

\* A call of the application.
LEMMA OneStepFits ==
    ASSUME LInv, DInv', NEW redone, OneStep(redone)
    PROVE  Fits'
<1>1. ReadyLists'
  BY FollowsLists, DInvNext DEF OneStep
<1>2. Waits'
  BY DEF OneStep, Waits, LInv, Fits, Idle
<1>3. \A p \in Poll : Held(Marked(redone)[p]) /\ Marked(redone)[p] \in BatchRec
  BY MarkedFacts DEF LInv, Held
<1>4. batch' = Marked(redone)
  BY DEF OneStep
<1>5. Marked(redone) = [p \in Poll |-> Marked(redone)[p]]
  BY DEF Marked
<1> QED
  BY <1>1, <1>2, <1>3, <1>4, <1>5 DEF Fits

\* A step that changes one batch, and begins no epoll_wait.
LEMMA BatchFits ==
    ASSUME LInv, NEW p \in Poll, NEW b, Held(b),
           NEW bs \in {batch, Marked({})}, batch' = [bs EXCEPT ![p] = b],
           call' \in Calls, call'.op # "epoll_wait", ReadyLists'
    PROVE  Fits'
<1>1. Marked({}) = [q \in Poll |-> Marked({})[q]]
  BY DEF Marked
<1>2. \A q \in Poll : Held(bs[q]) /\ bs[q] \in BatchRec
  BY MarkedFacts DEF LInv, Fits, Held
<1>3. bs = [q \in Poll |-> bs[q]]
  BY <1>1 DEF LInv, Fits
<1>4. batch' \in [Poll -> BatchRec] /\ \A q \in Poll : Held(batch'[q])
  BY <1>2, <1>3 DEF Held
<1> QED
  BY <1>4 DEF Fits, Waits

\* A step that leaves the batches alone.
LEMMA SameBatchFits ==
    ASSUME LInv, batch' = batch, ReadyLists',
           \/ UNCHANGED <<call, poll>>
           \/ call' \in Calls /\ call'.op # "epoll_wait"
    PROVE  Fits'
BY DEF LInv, Fits, Waits

\* The call that is running, when it has come to p.
LEMMA CallFacts ==
    ASSUME LInv, NEW p \in Poll
    PROVE  /\ Idle \in Calls /\ Idle.op # "epoll_wait"
           /\ \A sec \in Timeouts :
                 [op |-> "wait", p |-> p, msec |-> Msec(sec), asked |-> sec] \in Calls
           /\ call.op = "wait" => [call EXCEPT !.op = "epoll_wait"] \in Calls
<1>1. \A sec \in Timeouts : sec \in Int /\ Msec(sec) \in -1 .. IntMax
  BY LoopAssumption, MsecInRange, SecondsAssumption
<1>2. call \in Calls
  BY DEF LInv, Fits, Waits
<1> QED
  BY <1>1, <1>2 DEF Calls, Idle

\* The calls begin, and the rest of the world goes on.
LEMMA OtherFits ==
    ASSUME LInv, Application \/ Kernel, ~Registration
    PROVE  Fits'
<1>0. ReadyLists
  BY DEF LInv, Fits
<1>1. ASSUME NEW X, Wake(X), UNCHANGED <<vars, batch, call>> PROVE Fits'
  BY <1>1, WakeLists, SameBatchFits DEF LInv, vars
<1>2. ASSUME UNCHANGED <<vars, batch, queued, disarmed>>,
             \/ UNCHANGED call
             \/ call' \in Calls /\ call'.op # "epoll_wait"
      PROVE  Fits'
  <2>1. ReadyLists'
    BY <1>0, <1>2 DEF ReadyLists, vars
  <2> QED
    BY <1>2, <2>1, SameBatchFits DEF vars
<1>3. ASSUME NEW e \in Event, Trigger(e) PROVE Fits'
  BY <1>1, <1>2, <1>3 DEF Trigger
<1>4. ASSUME NEW p \in Poll, CallConsume(p) \/ CallRenew(p) PROVE Fits'
  <2>1. PICK c : c = call'  OBVIOUS
  <2>2. c = [op |-> "consume", p |-> p] \/ c = [op |-> "renew", p |-> p]
    BY <1>4, <2>1 DEF CallConsume, CallRenew
  <2>3. c \in Calls /\ c.op # "epoll_wait"
    BY <2>2 DEF Calls
  <2> QED
    BY <1>2, <1>4, <2>1, <2>3 DEF CallConsume, CallRenew
<1>5. ASSUME NEW p \in Poll, NEW sec \in Timeouts, CallWait(p, sec) PROVE Fits'
  <2>1. PICK c : c = call'  OBVIOUS
  <2>2. c = [op |-> "wait", p |-> p, msec |-> Msec(sec), asked |-> sec]
    BY <1>5, <2>1 DEF CallWait
  <2>3. c \in Calls /\ c.op # "epoll_wait"
    BY <2>2, CallFacts
  <2> QED
    BY <1>2, <1>5, <2>1, <2>3 DEF CallWait
<1>6. ASSUME NEW x, NEW s, UserActs(x, s) PROVE Fits'
  BY <1>2, <1>6 DEF UserActs, Outside
<1>7. ASSUME NEW x, NEW s, PeerActs(x, s) PROVE Fits'
  BY <1>1, <1>7 DEF PeerActs, Outside
<1>8. ASSUME NEW f, TimerExpires(f) PROVE Fits'
  BY <1>1, <1>8 DEF TimerExpires, Outside
<1>9. ASSUME NEW s, SignalArrives(s) PROVE Fits'
  BY <1>1, <1>9 DEF SignalArrives, Outside
<1>10. ASSUME NEW p \in Poll, ReportNothing(p) PROVE Fits'
  <2>1. ReadyLists'
    BY <1>0, <1>10 DEF ReadyLists, ReportNothing, vars
  <2> QED
    BY <1>10, <2>1, CallFacts, SameBatchFits DEF ReportNothing
<1> QED
  BY <1>3, <1>4, <1>5, <1>6, <1>7, <1>8, <1>9, <1>10 DEF Application, Kernel

\* consume and the cleanup.
LEMMA SlotFits ==
    ASSUME LInv, NEW p \in Poll,
           ConsumeNothing(p) \/ ConsumeSlot(p) \/ CleanupSlot(p)
    PROVE  Fits'
<1>0. ReadyLists /\ Held(batch[p]) /\ call \in Calls
  BY DEF LInv, Fits, Waits
<1>1. ASSUME UNCHANGED <<vars, queued, disarmed>> PROVE ReadyLists'
  BY <1>0, <1>1 DEF ReadyLists, vars
<1>2. ASSUME NEW e, NEW occurred, NEW rc, CheckEventStatus(e, occurred, rc)
      PROVE  ReadyLists'
  BY <1>0, <1>2 DEF ReadyLists, CheckEventStatus
<1>3. Held(Taken(batch[p])) /\ Held([batch[p] EXCEPT !.cur = @ + 1])
  BY <1>0, HeldFacts
<1>4. CASE ConsumeNothing(p)
  BY <1>1, <1>4, CallFacts, SameBatchFits DEF ConsumeNothing
<1>5. Marked({})[p] = [batch[p] EXCEPT !.list = Marked({})[p].list]
  BY DEF Marked
<1>6. PICK m : m = Marked({})[p]  OBVIOUS
<1>7. Held(m) /\ Held(Taken(m)) /\ Held([m EXCEPT !.cur = @ + 1])
  BY <1>6, MarkedFacts, HeldFacts DEF LInv
<1>8. CASE ConsumeSlot(p)
  <2>0. call.op # "epoll_wait" /\ (call' = Idle \/ call' = call)
    BY <1>8 DEF ConsumeSlot
  <2>1. ReadyLists' /\ call' \in Calls /\ call'.op # "epoll_wait"
    BY <1>0, <1>1, <1>2, <1>8, <2>0, CallFacts DEF ConsumeSlot
  <2>2. \/ batch' = [batch EXCEPT ![p] = Taken(batch[p])]
        \/ batch' = [Marked({}) EXCEPT ![p] = Taken(m)]
    BY <1>6, <1>8 DEF ConsumeSlot
  <2> QED
    BY <1>3, <1>7, <2>1, <2>2, BatchFits
<1>9. CASE CleanupSlot(p)
  <2>0. call.op # "epoll_wait" /\ (call' = Idle \/ call' = call)
    BY <1>9 DEF CleanupSlot
  <2>1. ReadyLists' /\ call' \in Calls /\ call'.op # "epoll_wait"
    BY <1>0, <1>1, <1>2, <1>9, <2>0, CallFacts DEF CleanupSlot
  <2>2. batch' = [Marked({}) EXCEPT ![p] = [m EXCEPT !.cur = @ + 1]]
    BY <1>6, <1>9 DEF CleanupSlot
  <2> QED
    BY <1>7, <2>1, <2>2, BatchFits
<1> QED
  BY <1>4, <1>8, <1>9

\* renew, and wait up to the call of epoll_wait.
LEMMA RenewFits ==
    ASSUME LInv, DInv', NEW p \in Poll, FinishRenew(p)
    PROVE  Fits'
<1>1. ReadyLists'
  BY FollowsLists, DInvNext DEF FinishRenew
<1>2. Held(Cleared(batch[p]))
  BY HeldFacts DEF LInv, Fits
<1>3. batch' = [batch EXCEPT ![p] = Cleared(batch[p])] /\ call' = Idle
  BY DEF FinishRenew
<1> QED
  BY <1>1, <1>2, <1>3, CallFacts, BatchFits

LEMMA BeginFits ==
    ASSUME LInv, NEW p \in Poll, BeginWait(p)
    PROVE  Fits'
<1>0. /\ batch \in [Poll -> BatchRec] /\ \A q \in Poll : Held(batch[q])
      /\ ReadyLists /\ call \in Calls
  BY DEF LInv, Fits, Waits
<1>1. poll[p].nreg \in Int
  BY DInvFacts DEF LInv, PollRec
<1>2. PICK c : c = Cleared(batch[p])  OBVIOUS
<1>3. Held(c) /\ c.nevt = 0 /\ c.cur = 0 /\ c.size = batch[p].size
  BY <1>0, <1>2, HeldFacts DEF Cleared, BatchRec
<1>4. Grown(p) \in Nat /\ poll[p].nreg <= Grown(p)
  BY <1>0, <1>1 DEF Grown, BatchRec
<1>5. PICK n \in Nat : n = Grown(p)
  BY <1>4
<1>6. PICK b : b = [c EXCEPT !.size = n]  OBVIOUS
<1>7. Held(b) /\ b.nevt = 0 /\ b.cur = 0 /\ b.size = n
  <2>1. c \in BatchRec /\ Len(c.list) = 0
    BY <1>3 DEF Held
  <2>2. b \in BatchRec /\ b.nevt = 0 /\ b.cur = 0 /\ b.size = n /\ b.list = c.list
    BY <1>3, <1>6, <2>1 DEF BatchRec
  <2> QED
    BY <2>1, <2>2 DEF Held
<1>8. batch' = [batch EXCEPT ![p] = b]
  BY <1>2, <1>5, <1>6 DEF BeginWait
<1>9. ReadyLists'
  BY <1>0 DEF ReadyLists, BeginWait, vars
<1>10. CASE call' = Idle
  BY <1>7, <1>8, <1>9, <1>10, CallFacts, BatchFits
<1>11. CASE call' = [call EXCEPT !.op = "epoll_wait"]
  <2>1. call.op = "wait" /\ call.p = p
    BY DEF BeginWait
  <2>2. call' \in Calls /\ call'.p = p
    BY <1>0, <1>11, <2>1, CallFacts DEF Calls, Idle
  <2>3. poll'[p].nreg <= n
    BY <1>4, <1>5 DEF BeginWait, vars
  <2>4. Waits'
    BY <1>0, <1>7, <1>8, <2>2, <2>3 DEF Waits
  <2>5. batch' \in [Poll -> BatchRec] /\ \A q \in Poll : Held(batch'[q])
    BY <1>0, <1>7, <1>8 DEF Held
  <2> QED
    BY <1>9, <2>4, <2>5 DEF Fits
<1> QED
  BY <1>10, <1>11 DEF BeginWait

\* What epoll_wait may report is on the interest list.
LEMMA ReadyFacts ==
    ASSUME LInv, NEW p \in Poll
    PROVE  /\ Ready(p) \subseteq queued[p] /\ queued[p] \subseteq interest[p]
           /\ \A i \in Ready(p) : /\ i \in Interest /\ i.fd \in Fd
                                  /\ Reported(i) \subseteq State
<1>1. interest \in Lists
  BY DInvFacts DEF LInv
<1>2. Ready(p) \subseteq queued[p] /\ queued[p] \subseteq interest[p]
  BY DEF Ready, LInv, Fits, ReadyLists
<1>3. \A i \in Ready(p) : i \in Interest /\ i.fd \in Fd
  BY <1>1, <1>2 DEF Lists, Interest
<1>4. \A x : StateOf(x) \subseteq State
  BY DEF StateOf, LInv, Devices, State
<1> QED
  BY <1>2, <1>3, <1>4 DEF Reported

\* The list that epoll_wait stores in b: one slot for each of the reported
\* entries R.
Reports(p, R, n, b) ==
    /\ b \in BatchRec /\ b.nevt = n /\ b.nevt = Len(b.list)
    /\ b.cur = batch[p].cur /\ b.size = batch[p].size
    /\ \A k \in 1 .. n : \E i \in R :
          /\ b.list[k].fd = i.fd /\ b.list[k].events = Reported(i)
          /\ b.list[k].from = poll[p].evset[i.fd]
    /\ \A i \in R : \E k \in 1 .. n : b.list[k].fd = i.fd
    /\ \A j, k \in 1 .. n : b.list[j].fd = b.list[k].fd => j = k

\* What it does to the ready list and to the one-shot entries.
Requeues(p, R) ==
    /\ queued' = [queued EXCEPT ![p] = (Ready(p) \ R) \cup
                    {i \in R : i.events \cap {"ET", "ONESHOT"} = {}}]
    /\ disarmed' = [disarmed EXCEPT ![p] = @ \cup
                      {i \in R : "ONESHOT" \in i.events}]

LEMMA ReportFacts ==
    ASSUME LInv, NEW p \in Poll, Report(p)
    PROVE  \E R \in SUBSET Ready(p), n \in Nat \ {0}, b \in BatchRec :
             /\ n <= poll[p].nreg
             /\ batch' = [batch EXCEPT ![p] = b]
             /\ Reports(p, R, n, b) /\ Requeues(p, R)
<1>0. /\ DInv /\ batch \in [Poll -> BatchRec] /\ batch[p] \in BatchRec
      /\ poll[p] \in PollRec
  BY DInvFacts DEF LInv, Fits
<1>1. PICK R \in SUBSET Ready(p) :
        /\ R # {}
        /\ Cardinality(R) <= poll[p].nreg
        /\ \E q \in SetToSeqs(R) :
              batch' = [batch EXCEPT ![p].nevt = Len(q), ![p].list =
                  [k \in DOMAIN q |-> [fd |-> q[k].fd, events |-> Reported(q[k]),
                       from |-> poll[p].evset[q[k].fd]]]]
        /\ Requeues(p, R)
  BY DEF Report, Requeues
<1>2. /\ R \subseteq interest[p]
      /\ \A i \in R : i \in Interest /\ i.fd \in Fd /\ Reported(i) \subseteq State
  BY ReadyFacts
<1>3. IsFiniteSet(R) /\ \A i, j \in R : i.fd = j.fd => i = j
  BY <1>0, <1>2, EntriesFacts
<1>4. PICK n \in Nat : n = Cardinality(R)
  BY <1>3, FS_CardinalityType
<1>5. n # 0
  BY <1>1, <1>3, <1>4, FS_EmptySet
<1>6. PICK q \in SetToSeqs(R) :
        batch' = [batch EXCEPT ![p].nevt = Len(q), ![p].list =
            [k \in DOMAIN q |-> [fd |-> q[k].fd, events |-> Reported(q[k]),
                 from |-> poll[p].evset[q[k].fd]]]]
  BY <1>1
<1>7. q \in Injection(1 .. n, R)
  BY <1>4 DEF SetToSeqs, Injection, IsInjective
<1>8. q \in [1 .. n -> R] /\ \A j, k \in 1 .. n : q[j] = q[k] => j = k
  BY <1>7 DEF Injection, IsInjective
<1>9. \A i \in R : \E k \in 1 .. n : q[k] = i
  <2>1. IsFiniteSet(1 .. n) /\ Cardinality(1 .. n) = n
    BY FS_Interval
  <2>2. q \in Surjection(1 .. n, R)
    BY <1>3, <1>4, <1>7, <2>1, FS_Injection
  <2> QED
    BY <2>2 DEF Surjection
<1> DEFINE l == [k \in 1 .. n |-> [fd |-> q[k].fd, events |-> Reported(q[k]),
                                  from |-> poll[p].evset[q[k].fd]]]
<1>10. \A k \in 1 .. n : /\ l[k] \in Slot /\ l[k].fd = q[k].fd
                         /\ l[k].events = Reported(q[k])
                         /\ l[k].from = poll[p].evset[q[k].fd]
  BY <1>0, <1>2, <1>8 DEF Slot, PollRec
<1>11. l \in [1 .. n -> Slot]
  BY <1>10
<1>12. Len(q) = n /\ DOMAIN q = 1 .. n
  <2>1. q \in Seq(R)
    BY <1>8, SeqDef
  <2> QED
    BY <1>8, <2>1, LenProperties
<1>13. batch' = [batch EXCEPT ![p] = [batch[p] EXCEPT !.nevt = n, !.list = l]]
  BY <1>0, <1>6, <1>12
<1> HIDE DEF l
<1>14. l \in Seq(Slot) /\ Len(l) = n
  BY <1>11, SlotList
<1>15. PICK b : b = [batch[p] EXCEPT !.nevt = n, !.list = l]  OBVIOUS
<1>16. /\ b \in BatchRec /\ b.nevt = n /\ b.list = l
       /\ b.cur = batch[p].cur /\ b.size = batch[p].size
  BY <1>0, <1>14, <1>15 DEF BatchRec
<1>17. batch' = [batch EXCEPT ![p] = b]
  BY <1>13, <1>15
<1>18. \A k \in 1 .. n : \E i \in R :
         /\ b.list[k].fd = i.fd /\ b.list[k].events = Reported(i)
         /\ b.list[k].from = poll[p].evset[i.fd]
  BY <1>8, <1>10, <1>16
<1>19. \A i \in R : \E k \in 1 .. n : b.list[k].fd = i.fd
  BY <1>9, <1>10, <1>16
<1>20. \A j, k \in 1 .. n : b.list[j].fd = b.list[k].fd => j = k
  BY <1>3, <1>8, <1>10, <1>16
<1>21. n \in Nat \ {0} /\ n <= poll[p].nreg /\ b.nevt = Len(b.list)
  BY <1>1, <1>4, <1>5, <1>14, <1>16
<1>22. Reports(p, R, n, b)
  BY <1>16, <1>18, <1>19, <1>20, <1>21 DEF Reports
<1> QED
  BY <1>1, <1>16, <1>17, <1>21, <1>22

LEMMA ReportFits ==
    ASSUME LInv, NEW p \in Poll, Report(p)
    PROVE  Fits'
<1>1. /\ call.op = "epoll_wait" /\ call.p = p /\ call' = Idle
      /\ UNCHANGED vars
  BY DEF Report
<1>2. poll[p].nreg <= batch[p].size /\ ReadyLists
  BY <1>1 DEF LInv, Fits, Waits
<1>3. batch[p].size \in Nat /\ poll[p].nreg \in Int
  BY DInvFacts DEF LInv, Fits, BatchRec, PollRec
<1>4. PICK R \in SUBSET Ready(p), n \in Nat \ {0}, b \in BatchRec :
        /\ n <= poll[p].nreg
        /\ batch' = [batch EXCEPT ![p] = b]
        /\ Reports(p, R, n, b) /\ Requeues(p, R)
  BY ReportFacts
<1>5. Held(b)
  BY <1>2, <1>3, <1>4 DEF Held, Reports
<1>6. ReadyLists'
  <2>1. R \subseteq queued[p] /\ Ready(p) \subseteq queued[p]
    BY ReadyFacts
  <2> QED
    BY <1>1, <1>2, <1>4, <2>1 DEF ReadyLists, Requeues, vars
<1> QED
  BY <1>1, <1>4, <1>5, <1>6, CallFacts, BatchFits

LEMMA NextFits ==
    ASSUME LInv, DInv', [LoopNext]_allVars
    PROVE  Fits'
<1>1. CASE Registration
  BY <1>1, OneStepFits DEF Registration
<1>2. CASE (Application \/ Kernel) /\ ~Registration
  BY <1>2, OtherFits
<1>3. ASSUME NEW p \in Poll, Library(p) PROVE Fits'
  BY <1>3, SlotFits, RenewFits, BeginFits, ReportFits DEF Library
<1>4. CASE UNCHANGED allVars
  BY <1>4 DEF allVars, loopVars, vars, LInv, Fits, Waits, ReadyLists, Held
<1> QED
  BY <1>1, <1>2, <1>3, <1>4 DEF LoopNext

-----------------------------------------------------------------------------
(* Every step keeps the kernel's files and the answer well-typed *)

\* A signalfd starts with its signal, everything else with nothing.
LEMMA NewDataFacts ==
    ASSUME DInv', Made(ev', file', owner'), NEW f \in Fd
    PROVE  NewData(f) \in Nat
<1>1. CASE file'[f] \in LibFile /\ file'[f][1] = "signalfd"
  <2>1. file'[f] \notin UserFile /\ file'[f] # NoFile
    BY <1>1, KernelAssumption DEF File
  <2>2. PICK e : e = owner'[f]  OBVIOUS
  <2>3. /\ e \in Event /\ ev'[e].mt \in Kind /\ ev'[e].mt \notin FdKind
        /\ ev'[e].filter = ev'[e].mt /\ file'[f] = <<Maker[ev'[e].filter], f>>
    BY <2>1, <2>2, DInvNext, MadeFacts
  <2>4. ev'[e].filter = "signal"
    BY <1>1, <2>3 DEF Maker, Kind, FdKind
  <2>5. ev'[e].ident \in Signo
    BY <2>3, <2>4 DEF Made, MadeOf
  <2> QED
    BY <1>1, <2>2, <2>5, EventAssumption DEF NewData
<1>2. CASE ~(file'[f] \in LibFile /\ file'[f][1] = "signalfd")
  BY <1>2 DEF NewData
<1> QED
  BY <1>1, <1>2

\* The kernel's side of a call.
LEMMA FollowsDevices ==
    ASSUME LInv, DInv', Made(ev', file', owner'), NEW redone, KernelFollows(redone)
    PROVE  /\ ready' \in [UserFile -> SUBSET State] /\ data' \in [Fd -> Nat]
           /\ setting' \in [Fd -> {"plain", "armed", "semaphore"}]
<1>1. /\ ready \in [UserFile -> SUBSET State] /\ data \in [Fd -> Nat]
      /\ setting \in [Fd -> {"plain", "armed", "semaphore"}]
  BY DEF LInv, Devices
<1>2. ready' \in [UserFile -> SUBSET State]
  BY <1>1 DEF KernelFollows
<1>3. data' \in [Fd -> Nat]
  <2>1. data' = [f \in Fd |-> IF file'[f] = file[f] THEN data[f] ELSE NewData(f)]
    BY DEF KernelFollows
  <2> QED
    BY <1>1, <2>1, NewDataFacts
<1>4. setting' \in [Fd -> {"plain", "armed", "semaphore"}]
  <2>1. \A f \in Fd : NewSettings(f) \subseteq {"plain", "armed", "semaphore"}
    BY DEF NewSettings
  <2>2. PICK s : /\ \A f \in Fd : file'[f] # file[f] => s \in NewSettings(f)
                 /\ setting' = [f \in Fd |-> IF f \in {g \in Fd : file'[g] # file[g]}
                                             THEN s ELSE setting[f]]
    BY DEF KernelFollows
  <2>3. \A f \in Fd : setting'[f] \in {"plain", "armed", "semaphore"}
    BY <1>1, <2>1, <2>2
  <2> QED
    BY <2>2, <2>3
<1> QED
  BY <1>2, <1>3, <1>4

\* Reading a descriptor.
LEMMA DrainDevices ==
    ASSUME Devices, NEW e \in Event, ev[e] \in EventRec, NEW good, NEW rc,
           Drain(e, good, rc)
    PROVE  /\ ready' \in [UserFile -> SUBSET State] /\ data' \in [Fd -> Nat]
           /\ setting' \in [Fd -> {"plain", "armed", "semaphore"}]
           /\ pending' \subseteq Signo
<1>0. ev[e].fd \in Fd
  BY DEF EventRec
<1>1. CASE UNCHANGED deviceVars
  BY <1>1 DEF Devices, deviceVars
<1>2. CASE ~(UNCHANGED deviceVars)
  BY <1>0, <1>2 DEF Drain, Devices, deviceVars
<1> QED
  BY <1>1, <1>2

LEMMA NextDevices ==
    ASSUME LInv, DInv', Made(ev', file', owner'), [LoopNext]_allVars
    PROVE  Devices' /\ result' \in Result
<1>0. Devices /\ DInv /\ result \in Result /\ \A e \in Event : ev[e] \in EventRec
  BY DInvFacts DEF LInv
<1>1. NoResult \in Result
  BY DEF Result
<1>2. ASSUME UNCHANGED <<hungup, deviceVars>>, result' = NoResult
      PROVE  Devices' /\ result' \in Result
  BY <1>0, <1>1, <1>2 DEF Devices, deviceVars
<1>3. ASSUME NEW p \in Poll, NEW s \in SlotAt(p), NEW e, e = poll[p].evset[s.fd],
             e # NoEvent, NEW rc, CheckEventStatus(e, s.events, rc),
             hungup' = Occurred(e, s)
      PROVE  Devices'
  <2>1. e \in Event /\ ev[e] \in EventRec
    BY <1>0, <1>3, SlotAtFacts
  <2>2. hungup' \subseteq Event
    BY <1>0, <1>3, <2>1 DEF Occurred, Devices
  <2>3. CASE UNCHANGED deviceVars
    BY <1>0, <2>2, <2>3 DEF Devices, deviceVars
  <2>4. ASSUME NEW good, Drain(e, good, rc) PROVE Devices'
    BY <1>0, <2>1, <2>2, <2>4, DrainDevices DEF Devices
  <2> QED
    BY <1>3, <2>3, <2>4 DEF CheckEventStatus
<1>4. ASSUME NEW p \in Poll, ConsumeSlot(p) PROVE Devices' /\ result' \in Result
  <2>1. PICK s \in SlotAt(p) :
          LET e == poll[p].evset[s.fd] IN
          \/ result' = NoResult /\ UNCHANGED <<hungup, deviceVars>>
          \/ /\ e # NoEvent
             /\ \E rc \in RC :
                  /\ CheckEventStatus(e, s.events, rc)
                  /\ result' = [ev |-> e, disabled |-> rc # "ok",
                                eof |-> rc \in {"eof", "error"}, err |-> rc = "error",
                                from |-> s.from]
             /\ hungup' = Occurred(e, s)
    BY <1>4 DEF ConsumeSlot
  <2>2. PICK e : e = poll[p].evset[s.fd]  OBVIOUS
  <2>3. CASE result' = NoResult /\ UNCHANGED <<hungup, deviceVars>>
    BY <1>2, <2>3
  <2>4. ASSUME e # NoEvent, NEW rc \in RC, CheckEventStatus(e, s.events, rc),
               result' = [ev |-> e, disabled |-> rc # "ok",
                          eof |-> rc \in {"eof", "error"}, err |-> rc = "error",
                          from |-> s.from],
               hungup' = Occurred(e, s)
        PROVE  Devices' /\ result' \in Result
    <3>1. Devices'
      BY <1>3, <2>2, <2>4
    <3>2. e \in Event /\ s.from \in Event \cup {NoEvent}
      BY <2>2, <2>4, SlotAtFacts
    <3> QED
      BY <2>4, <3>1, <3>2 DEF Result
  <2> QED
    BY <2>1, <2>2, <2>3, <2>4
<1>5. ASSUME NEW p \in Poll, CleanupSlot(p) PROVE Devices' /\ result' \in Result
  BY <1>1, <1>2, <1>3, <1>5 DEF CleanupSlot
<1>6. ASSUME NEW p \in Poll, FinishRenew(p) PROVE Devices' /\ result' \in Result
  BY <1>0, <1>1, <1>6, FollowsDevices DEF FinishRenew, Devices
<1>7. ASSUME NEW p \in Poll, Library(p) PROVE Devices' /\ result' \in Result
  BY <1>2, <1>4, <1>5, <1>6, <1>7 DEF Library, ConsumeNothing, BeginWait, Report
<1>8. CASE Registration
  <2>1. PICK redone : OneStep(redone)
    BY <1>8 DEF Registration
  <2> QED
    BY <1>0, <1>1, <2>1, FollowsDevices DEF OneStep, Devices
<1>9. ASSUME NEW e \in Event, Trigger(e) PROVE Devices' /\ result' \in Result
  <2>1. ev[e].fd \in Fd
    BY <1>0 DEF EventRec
  <2> QED
    BY <1>0, <1>1, <1>9, <2>1 DEF Trigger, Devices
<1>10. CASE Application
  <2>1. ASSUME NEW x \in UserFile, NEW s \in State, UserActs(x, s)
        PROVE  Devices' /\ result' \in Result
    BY <1>0, <1>1, <2>1 DEF UserActs, Outside, Devices
  <2>2. ASSUME NEW p, CallConsume(p) \/ CallRenew(p)
        PROVE  Devices' /\ result' \in Result
    BY <1>2, <2>2 DEF CallConsume, CallRenew
  <2>3. ASSUME NEW p, NEW sec, CallWait(p, sec)
        PROVE  Devices' /\ result' \in Result
    BY <1>2, <2>3 DEF CallWait
  <2> QED
    BY <1>8, <1>9, <1>10, <2>1, <2>2, <2>3 DEF Application
<1>11. CASE Kernel
  <2>1. ASSUME NEW x \in UserFile, NEW s \in State, PeerActs(x, s)
        PROVE  Devices' /\ result' \in Result
    BY <1>0, <1>1, <2>1 DEF PeerActs, Outside, Devices
  <2>2. ASSUME NEW f \in Fd, TimerExpires(f) PROVE Devices' /\ result' \in Result
    BY <1>0, <1>1, <2>2 DEF TimerExpires, Outside, Devices
  <2>3. ASSUME NEW s \in Signo, SignalArrives(s) PROVE Devices' /\ result' \in Result
    BY <1>0, <1>1, <2>3 DEF SignalArrives, Outside, Devices
  <2>4. ASSUME NEW p \in Poll, ReportNothing(p) PROVE Devices' /\ result' \in Result
    BY <1>2, <2>4 DEF ReportNothing
  <2> QED
    BY <1>11, <2>1, <2>2, <2>3, <2>4 DEF Kernel
<1>12. CASE UNCHANGED allVars
  BY <1>0, <1>12 DEF allVars, loopVars, deviceVars, Devices
<1> QED
  BY <1>7, <1>10, <1>11, <1>12 DEF LoopNext

-----------------------------------------------------------------------------
(* The invariant is inductive *)

LEMMA InitLInv == LoopInit => LInv
<1> SUFFICES ASSUME LoopInit PROVE LInv
  OBVIOUS
<1>1. DInv
  BY InitDInv DEF LoopInit
<1>2. Made(ev, file, owner)
  <2>1. ASSUME NEW e \in Event PROVE ev[e].mt = "none"
    <3>1. PICK q \in Poll : TRUE
      BY KernelAssumption
    <3>2. Absent.mt = "none"
      BY <3>1, FreshFacts
    <3> QED
      BY <3>2 DEF LoopInit, Init
  <2> QED
    BY <2>1 DEF LoopInit, Init, KernelInit, Made, Kind, FdKind
<1>3. Fits
  <2>1. PICK b : b = EmptyBatch  OBVIOUS
  <2>2. b \in BatchRec /\ b.nevt = 0 /\ b.size = 0 /\ b.list = <<>>
    BY <2>1, EmptyList DEF EmptyBatch, BatchRec
  <2>3. Held(b)
    BY <2>2, EmptyList DEF Held
  <2>4. batch = [p \in Poll |-> b] /\ call = Idle
    BY <2>1 DEF LoopInit
  <2> QED
    BY <2>2, <2>3, <2>4 DEF LoopInit, Init, KernelInit, Fits, Waits, ReadyLists, Calls, Idle
<1>4. Devices /\ result \in Result
  BY DEF LoopInit, Devices, Result
<1> QED
  BY <1>1, <1>2, <1>3, <1>4 DEF LInv

LEMMA Disciplined == Discipline
BY LoopAssumption DEF Discipline

LEMMA NextLInv == LInv /\ [LoopNext]_allVars => LInv'
<1> SUFFICES ASSUME LInv, [LoopNext]_allVars PROVE LInv'
  OBVIOUS
<1>1. [Next]_vars
  BY LoopIsNext
<1>2. DInv /\ Made(ev, file, owner) /\ DInv'
  BY <1>1, NextDInv, Disciplined DEF LInv
<1>3. Made(ev', file', owner')
  BY <1>1, <1>2, NextMade
<1> QED
  BY <1>2, <1>3, NextFits, NextDevices DEF LInv

-----------------------------------------------------------------------------
(* The theorems *)

\* The invariant holds in every reachable state, whatever the application
\* registers and whenever files, signals and timers become ready.
THEOREM LoopInvariance == LoopSpec => []LInv
BY InitLInv, NextLInv, PTL DEF LoopSpec

\* Every step of wait, consume and renew is a call of PollEvent or changes
\* nothing that PollEvent sees, so its theorems hold in the loop as well.
LEMMA LoopCalls == LoopSpec => Spec
<1>1. LoopInit => Init
  BY DEF LoopInit
<1>2. LInv /\ [LoopNext]_allVars => [Next]_vars
  BY LoopIsNext
<1> QED
  BY <1>1, <1>2, LoopInvariance, PTL DEF LoopSpec, Spec

\* wait_lua (epoll.c): the event list is grown to nreg before every epoll_wait,
\* and nothing is registered while it blocks: the kernel never stores more
\* than fits, and nevt is the number of slots stored.
THEOREM ListIsLargeEnough == LoopSpec => []EvlistFits
<1>1. LInv => EvlistFits
  BY DEF LInv, Fits, Held, EvlistFits
<1> QED
  BY <1>1, LoopInvariance, PTL

=============================================================================

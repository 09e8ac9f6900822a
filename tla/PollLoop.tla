------------------------------ MODULE PollLoop ------------------------------
(***************************************************************************)
(* The waiting half of lua-epoll: ep:wait, ep:consume, ep:renew and        *)
(* ev:trigger (src/epoll.c, src/trigger.c), on top of the registration     *)
(* half (PollEvent) and of what the kernel reports.                        *)
(*                                                                         *)
(* wait stores a batch of reports in the event list of the instance and    *)
(* consume hands them out one at a time.  Between two consumes the         *)
(* application may make any call, so a report can be older than the        *)
(* registration it is matched with: a slot holds only a descriptor number. *)
(*                                                                         *)
(* wait, consume and renew take several steps, because they may block:     *)
(* call says which one is running, and signals, timers and peers go on     *)
(* meanwhile.  All other calls are single steps.                           *)
(***************************************************************************)
EXTENDS PollEvent, Seconds, Sequences, SequencesExt

CONSTANTS
    Semaphores,     \* are triggers created in semaphore mode? TRUE, FALSE, both
    MaxCount,       \* bound on the counter of an eventfd
    Timeouts,       \* what ep:wait is called with, in ticks
    Intervals,      \* what ev:as_timer is called with, in ticks
    ReusesInBatch   \* does the application register a descriptor number that
                    \* an unconsumed slot already names?

ASSUME LoopAssumption ==
    /\ ReusesInBatch \in BOOLEAN /\ Semaphores \subseteq BOOLEAN
    /\ MaxCount \in Nat \ {0}
    /\ Timeouts \subseteq Int /\ Intervals \subseteq Nat
    \* The discipline under which PollEvent's NoLeak holds: the descriptor of
    \* a signal, timer or trigger event is its own.
    /\ ~CtlAddMayFail /\ ~ClosesUsed /\ ~Rewatches /\ ~Borrows
    \* With several instances EPOLLEXCLUSIVE lets the kernel wake only some.
    /\ Cardinality(Poll) = 1 \/ Modes \subseteq {"oneshot"}

VARIABLES
    batch,      \* evlist, cur, nevt and evsize of each poll_t
    call,       \* the call that is running
    result,     \* what the last step returned to the application
    hungup,     \* events whose occ_evt has EPOLLHUP, EPOLLRDHUP or EPOLLERR
    ready,      \* kernel: the state of the application's files
    data,       \* kernel: counter of an eventfd, expirations of a timerfd,
                \* signal of a signalfd
    setting,    \* kernel: is a timerfd armed, an eventfd a semaphore?
    pending,    \* kernel: signals that are pending (and blocked)
    queued,     \* kernel: entries on the ready list of each epoll instance
    disarmed    \* kernel: EPOLLONESHOT entries that have been reported

deviceVars == <<ready, data, setting, pending>>
loopVars   == <<batch, call, result, hungup, deviceVars, queued, disarmed>>
allVars    == <<vars, loopVars>>

State == {"IN", "OUT", "HUP"}      \* HUP stands for EPOLLHUP and EPOLLERR
\* from is history: the event whose registration the report is about, NoEvent
\* once that registration has ended.
Slot == [fd : Fd, events : SUBSET State, from : Event \cup {NoEvent}]

Idle == [op |-> "idle"]
Calls == {Idle} \cup [op : {"consume", "renew"}, p : Poll]
                \cup [op : {"wait", "epoll_wait"}, p : Poll,
                      msec : -1 .. IntMax, asked : Timeouts]

\* consume returns nothing, an event, or an event with an error.
NoResult == [ev |-> NoEvent]
Result   == {NoResult} \cup [ev : Event, disabled : BOOLEAN, eof : BOOLEAN,
                             err : BOOLEAN, from : Event \cup {NoEvent}]

EmptyBatch == [list |-> <<>>, cur |-> 0, nevt |-> 0, size |-> 0]

LoopTypeOK ==
    /\ \A p \in Poll :
          /\ batch[p].list \in Seq(Slot)
          /\ {batch[p].nevt, batch[p].size} \subseteq Nat
          /\ batch[p].cur \in 0 .. batch[p].size
    /\ call \in Calls
    /\ result \in Result
    /\ hungup \subseteq Event
    /\ ready \in [UserFile -> SUBSET State]
    /\ data \in [Fd -> Nat]
    /\ setting \in [Fd -> {"plain", "armed", "semaphore"}]
    /\ pending \subseteq Signo
    /\ queued \in [Poll -> SUBSET Interest]
    /\ disarmed \in [Poll -> SUBSET Interest]

LoopInit ==
    /\ Init
    /\ batch = [p \in Poll |-> EmptyBatch]
    /\ call = Idle
    /\ result = NoResult
    /\ hungup = {}
    /\ ready = [x \in UserFile |-> {}]
    /\ data = [f \in Fd |-> 0]
    /\ setting = [f \in Fd |-> "plain"]
    /\ pending = {}
    /\ queued = [p \in Poll |-> {}]
    /\ disarmed = [p \in Poll |-> {}]

-----------------------------------------------------------------------------
(* The kernel: what is ready, and what happens to the ready list *)

StateOf(x) ==
    IF x \in UserFile
    THEN ready[x]
    ELSE IF \/ x[1] = "signalfd" /\ data[x[2]] \in pending
            \/ x[1] # "signalfd" /\ data[x[2]] > 0
         THEN {"IN"} ELSE {}

\* What epoll_wait reports for an entry.  HUP is reported unasked.
Reported(i) == StateOf(i.file) \cap (i.events \cup {"HUP"})

\* A wake-up on the files X puts their entries on the ready list.
Wake(X) ==
    /\ queued' = [p \in Poll |->
                    queued[p] \cup {i \in interest[p] \ disarmed[p] : i.file \in X}]
    /\ UNCHANGED disarmed

\* A registration of descriptor f ended or began in this step of PollEvent;
\* redone names those that were deleted and added again.
Touched(redone, p, f) ==
    poll'[p].evset[f] # poll[p].evset[f] \/ <<p, f>> \in redone

\* A new descriptor starts at zero, a signalfd with its signal.
NewData(f) ==
    IF file'[f] \in LibFile /\ file'[f][1] = "signalfd"
    THEN ev'[owner'[f]].ident ELSE 0

\* What as_timer and as_trigger ask of a descriptor they open.
NewSettings(f) ==
    IF file'[f] = <<"timerfd", f>>
    THEN {IF Runs(t) THEN "armed" ELSE "plain" : t \in Intervals}
    ELSE IF file'[f] = <<"eventfd", f>>
    THEN {IF semaphore THEN "semaphore" ELSE "plain" : semaphore \in Semaphores}
    ELSE {"plain"}

\* The kernel's side of a step of PollEvent: an entry that is added is on the
\* ready list and armed.
KernelFollows(redone) ==
    /\ queued' = [p \in Poll |-> {i \in interest'[p] :
                     i \in queued[p] \/ Touched(redone, p, i.fd)}]
    /\ disarmed' = [p \in Poll |-> {i \in interest'[p] :
                     i \in disarmed[p] /\ ~Touched(redone, p, i.fd)}]
    /\ data' = [f \in Fd |-> IF file'[f] = file[f] THEN data[f] ELSE NewData(f)]
    /\ LET New == {f \in Fd : file'[f] # file[f]} IN
       \E s \in UNION {NewSettings(f) : f \in New} \cup {"plain"} :
          /\ \A f \in New : s \in NewSettings(f)
          /\ setting' = [f \in Fd |-> IF f \in New THEN s ELSE setting[f]]
    /\ ready' = [x \in UserFile |->
                    IF \E f \in Fd : file'[f] = x THEN ready[x] ELSE {}]

\* The slots of a registration that is gone lose their origin.
Marked(redone) ==
    [p \in Poll |-> [batch[p] EXCEPT !.list = [k \in DOMAIN @ |->
        IF Touched(redone, p, @[k].fd) THEN [@[k] EXCEPT !.from = NoEvent]
                                       ELSE @[k]]]]

\* The descriptors that the slots not yet consumed name.
Ahead(p) == {batch[p].list[k].fd : k \in batch[p].cur + 1 .. batch[p].nevt}

NotReused(redone) ==
    \A p \in Poll : \A f \in Ahead(p) :
        Touched(redone, p, f) => poll'[p].evset[f] = NoEvent

-----------------------------------------------------------------------------
(* Calls that are one step *)

OneStep(redone) ==
    /\ call = Idle
    /\ KernelFollows(redone)
    /\ batch' = Marked(redone)
    /\ ReusesInBatch \/ NotReused(redone)
    /\ result' = NoResult
    /\ hungup' = {e \in hungup : ev'[e].mt \in Kind}
    /\ UNCHANGED <<call, pending>>

Registration ==
    \/ \E e \in Event :
          \/ Call(e) /\ OneStep({})
          \/ Renew(e) /\ OneStep(IF ev[e].enabled THEN {<<ev[e].p, ev[e].fd>>} ELSE {})
    \/ \E p \in Poll : PollCall(p) /\ OneStep({})
    \/ User /\ OneStep({})

\* ev:trigger() writes 1 to the eventfd; at its limit the answer is EAGAIN.
Trigger(e) ==
    /\ call = Idle
    /\ Has(e, "trigger")
    /\ \/ /\ ev[e].enabled /\ data[ev[e].fd] < MaxCount
          /\ data' = [data EXCEPT ![ev[e].fd] = @ + 1]
          /\ Wake({file[ev[e].fd]})
       \/ /\ ~ev[e].enabled \/ data[ev[e].fd] = MaxCount
          /\ UNCHANGED <<data, queued, disarmed>>
    /\ result' = NoResult
    /\ UNCHANGED <<vars, batch, call, hungup, ready, setting, pending>>

-----------------------------------------------------------------------------
(* Delivering one slot: check_event_status *)

\* rc is "ok", "oneshot", "eof" or "error".  read() of a trigger never blocks;
\* of a signalfd or timerfd it does, and the step waits.
Drain(e, good, rc) ==
    LET f == ev[e].fd IN
    \/ /\ ev[e].filter \in FdKind
       /\ rc = good
       /\ UNCHANGED deviceVars
    \/ /\ ev[e].filter = "signal"
       /\ data[f] \in pending
       /\ pending' = pending \ {data[f]}
       /\ rc = good
       /\ UNCHANGED <<ready, data, setting>>
    \/ /\ ev[e].filter \in {"timer", "trigger"}
       /\ data[f] > 0
       /\ data' = [data EXCEPT ![f] =
                      IF setting[f] = "semaphore" THEN @ - 1 ELSE 0]
       /\ rc = good
       /\ UNCHANGED <<ready, setting, pending>>
    \/ /\ ev[e].filter = "trigger"
       /\ data[f] = 0
       /\ rc = "error"
       /\ UNCHANGED deviceVars

\* Fault: a hang-up or error does not unregister the event.
UnregistersOneshot(e, occurred) == "ONESHOT" \in ev[e].events

\* Fault: a one-shot event is not unregistered.
UnregistersHup(e, occurred) == "HUP" \in occurred

Unregisters(e, occurred) == "ONESHOT" \in ev[e].events \/ "HUP" \in occurred

Unregister(e) == Unwatch(e)

CheckEventStatus(e, occurred, rc) ==
    LET oneshot == "ONESHOT" \in ev[e].events
        eof     == "HUP" \in occurred
        refused == Unregisters(e, occurred) /\ DelRefused(ev[e].fd)
    IN  /\ IF Unregisters(e, occurred) THEN Unregister(e) ELSE UNCHANGED vars
        /\ queued' = [p \in Poll |-> queued[p] \cap interest'[p]]
        /\ disarmed' = [p \in Poll |-> disarmed[p] \cap interest'[p]]
        /\ \/ refused /\ rc = "error" /\ UNCHANGED deviceVars
           \/ ~refused /\ eof /\ rc = "eof" /\ UNCHANGED deviceVars
           \/ /\ ~refused /\ ~eof
              /\ Drain(e, IF oneshot THEN "oneshot" ELSE "ok", rc)

\* evlist[cur].  Reading behind the batch finds whatever the memory holds.
SlotAt(p) ==
    IF batch[p].cur < batch[p].nevt
    THEN {batch[p].list[batch[p].cur + 1]}
    ELSE [fd : Fd, events : {{}, {"HUP"}}, from : {NoEvent}]

RC == {"ok", "oneshot", "eof", "error"}

\* Fault: a hang-up is remembered for ever.
OccurredKeeps(e, s) == IF "HUP" \in s.events THEN hungup \cup {e} ELSE hungup

\* occ_evt of e becomes the slot s.
Occurred(e, s) == IF "HUP" \in s.events THEN hungup \cup {e} ELSE hungup \ {e}

-----------------------------------------------------------------------------
(* ep:consume *)

CallConsume(p) ==
    /\ call = Idle /\ poll[p].open
    /\ call' = [op |-> "consume", p |-> p]
    /\ result' = NoResult
    /\ UNCHANGED <<vars, batch, hungup, deviceVars, queued, disarmed>>

\* Fault: the last slot does not end the batch.
TakenLate(b) ==
    IF b.cur + 1 > b.nevt
    THEN [b EXCEPT !.cur = @ + 1, !.nevt = 0, !.list = <<>>]
    ELSE [b EXCEPT !.cur = @ + 1]

\* Fault: the batch is done one slot early.
TakenEarly(b) ==
    IF b.cur + 2 >= b.nevt
    THEN [b EXCEPT !.cur = @ + 1, !.nevt = 0, !.list = <<>>]
    ELSE [b EXCEPT !.cur = @ + 1]

\* cur++, and the batch is done when it reaches nevt.
Taken(b) ==
    IF b.cur + 1 >= b.nevt
    THEN [b EXCEPT !.cur = @ + 1, !.nevt = 0, !.list = <<>>]
    ELSE [b EXCEPT !.cur = @ + 1]

ConsumeNothing(p) ==
    /\ call = [op |-> "consume", p |-> p]
    /\ batch[p].nevt = 0
    /\ call' = Idle
    /\ result' = NoResult
    /\ UNCHANGED <<vars, batch, hungup, deviceVars, queued, disarmed>>

\* A slot whose event is unwatched is skipped: RECONSUME.
ConsumeSlot(p) ==
    /\ call = [op |-> "consume", p |-> p]
    /\ batch[p].nevt # 0
    /\ \E s \in SlotAt(p) :
        LET e == poll[p].evset[s.fd] IN
        \/ /\ e = NoEvent
           /\ batch' = [batch EXCEPT ![p] = Taken(@)]
           /\ result' = NoResult
           /\ UNCHANGED <<vars, call, hungup, deviceVars, queued, disarmed>>
        \/ /\ e # NoEvent
           /\ \E rc \in RC :
                /\ CheckEventStatus(e, s.events, rc)
                /\ result' = [ev |-> e, disabled |-> rc # "ok",
                              eof |-> rc \in {"eof", "error"}, err |-> rc = "error",
                              from |-> s.from]
           /\ hungup' = Occurred(e, s)
           /\ batch' = [Marked({}) EXCEPT ![p] = Taken(@)]
           /\ call' = Idle

-----------------------------------------------------------------------------
(* ep:wait and ep:renew *)

CallWait(p, sec) ==
    /\ call = Idle /\ poll[p].open
    /\ call' = [op |-> "wait", p |-> p, msec |-> Msec(sec), asked |-> sec]
    /\ result' = NoResult
    /\ UNCHANGED <<vars, batch, hungup, deviceVars, queued, disarmed>>

CallRenew(p) ==
    /\ call = Idle /\ poll[p].open
    /\ call' = [op |-> "renew", p |-> p]
    /\ result' = NoResult
    /\ UNCHANGED <<vars, batch, hungup, deviceVars, queued, disarmed>>

\* One round of cleanup_unconsumed_events.  An error ends the call and leaves
\* cur and nevt as they are.
CleanupSlot(p) ==
    /\ call.op \in {"wait", "renew"} /\ call.p = p
    /\ batch[p].cur < batch[p].nevt
    /\ \E s \in SlotAt(p) :
        LET e == poll[p].evset[s.fd] IN
        \/ /\ e = NoEvent
           /\ UNCHANGED <<vars, call, hungup, deviceVars, queued, disarmed>>
        \/ /\ e # NoEvent
           /\ \E rc \in RC :
                /\ CheckEventStatus(e, s.events, rc)
                /\ call' = IF rc = "error" THEN Idle ELSE call
           /\ hungup' = Occurred(e, s)
    /\ batch' = [Marked({}) EXCEPT ![p].cur = @ + 1]
    /\ result' = NoResult

\* Fault: the read index is not reset.
ClearedNotCur(b) == [b EXCEPT !.nevt = 0, !.list = <<>>]

\* Fault: the batch is not emptied.
ClearedNotNevt(b) == [b EXCEPT !.cur = 0]

Cleared(b) == [b EXCEPT !.cur = 0, !.nevt = 0, !.list = <<>>]

\* Fault: the event list is allocated once.
GrownOnce(p) == IF batch[p].size = 0 THEN poll[p].nreg ELSE batch[p].size

Grown(p) == IF batch[p].size < poll[p].nreg THEN poll[p].nreg ELSE batch[p].size

\* The rest of renew_lua.
FinishRenew(p) ==
    /\ call = [op |-> "renew", p |-> p]
    /\ batch[p].cur >= batch[p].nevt
    /\ batch' = [batch EXCEPT ![p] = Cleared(@)]
    /\ RenewPoll(p)
    /\ KernelFollows({})
    /\ call' = Idle
    /\ result' = NoResult
    /\ UNCHANGED <<hungup, pending>>

\* wait_lua between the cleanup and epoll_wait: nothing registered returns 0,
\* else the event list grows to nreg.
BeginWait(p) ==
    /\ call.op = "wait" /\ call.p = p
    /\ batch[p].cur >= batch[p].nevt
    /\ batch' = [batch EXCEPT ![p] = [Cleared(@) EXCEPT !.size = Grown(p)]]
    /\ call' = IF poll[p].nreg = 0 THEN Idle ELSE [call EXCEPT !.op = "epoll_wait"]
    /\ result' = NoResult
    /\ UNCHANGED <<vars, hungup, deviceVars, queued, disarmed>>

Ready(p) == {i \in queued[p] : Reported(i) # {}}

\* epoll_wait fills at most nreg slots.  A reported entry stays on the ready
\* list if it is level-triggered, one that is not ready any more leaves it.
Report(p) ==
    /\ call.op = "epoll_wait" /\ call.p = p
    /\ \E R \in SUBSET Ready(p) :
        /\ R # {}
        /\ Cardinality(R) <= poll[p].nreg
        /\ R = Ready(p) \/ Cardinality(R) = poll[p].nreg
        /\ \E q \in SetToSeqs(R) :
              batch' = [batch EXCEPT ![p].nevt = Len(q), ![p].list =
                  [k \in DOMAIN q |-> [fd |-> q[k].fd, events |-> Reported(q[k]),
                       from |-> poll[p].evset[q[k].fd]]]]
        /\ queued' = [queued EXCEPT ![p] = (Ready(p) \ R) \cup
                        {i \in R : i.events \cap {"ET", "ONESHOT"} = {}}]
        /\ disarmed' = [disarmed EXCEPT ![p] = @ \cup
                          {i \in R : "ONESHOT" \in i.events}]
    /\ call' = Idle
    /\ result' = NoResult
    /\ UNCHANGED <<vars, hungup, deviceVars>>

\* A timeout or EINTR.
ReportNothing(p) ==
    /\ call.op = "epoll_wait" /\ call.p = p
    /\ Ready(p) = {}
    /\ queued' = [queued EXCEPT ![p] = {}]
    /\ call' = Idle
    /\ result' = NoResult
    /\ UNCHANGED <<vars, batch, hungup, deviceVars, disarmed>>

-----------------------------------------------------------------------------
(* Peers, timers and signals, at any time *)

Outside ==
    /\ result' = NoResult
    /\ UNCHANGED <<vars, batch, call, hungup, setting>>

PeerActs(x, s) ==
    /\ \E f \in Fd : file[f] = x
    /\ s \notin ready[x]
    /\ ready' = [ready EXCEPT ![x] = @ \cup {s}]
    /\ Wake({x})
    /\ UNCHANGED <<data, pending>>
    /\ Outside

\* The application reads what has arrived, fills the send buffer, or asks for
\* the error that is pending (SO_ERROR), or connects a socket that was not.
UserActs(x, s) ==
    /\ call = Idle
    /\ s \in ready[x]
    /\ ready' = [ready EXCEPT ![x] = @ \ {s}]
    /\ UNCHANGED <<data, pending, queued, disarmed>>
    /\ Outside

\* An expiration that is not read yet wakes nobody again.
TimerExpires(f) ==
    /\ file[f] = <<"timerfd", f>> /\ setting[f] = "armed"
    /\ data[f] = 0
    /\ data' = [data EXCEPT ![f] = 1]
    /\ Wake({file[f]})
    /\ UNCHANGED <<ready, pending>>
    /\ Outside

SignalArrives(s) ==
    /\ s \notin pending
    /\ pending' = pending \cup {s}
    /\ Wake({file[f] : f \in {g \in Fd : file[g] = <<"signalfd", g>> /\ data[g] = s}})
    /\ UNCHANGED <<ready, data>>
    /\ Outside

-----------------------------------------------------------------------------
Library(p) ==
    \/ ConsumeNothing(p) \/ ConsumeSlot(p)
    \/ CleanupSlot(p) \/ FinishRenew(p) \/ BeginWait(p) \/ Report(p)

Application ==
    \/ Registration
    \/ \E e \in Event : Trigger(e)
    \/ \E p \in Poll : \/ CallConsume(p) \/ CallRenew(p)
                       \/ \E sec \in Timeouts : CallWait(p, sec)
    \/ \E x \in UserFile, s \in State : UserActs(x, s)

Kernel ==
    \/ \E x \in UserFile, s \in State : PeerActs(x, s)
    \/ \E f \in Fd : TimerExpires(f)
    \/ \E s \in Signo : SignalArrives(s)
    \/ \E p \in Poll : ReportNothing(p)

LoopNext == Application \/ Kernel \/ \E p \in Poll : Library(p)

LoopSpec == LoopInit /\ [][LoopNext]_allVars

\* A call that can go on goes on, and a timeout ends.  Nothing is assumed of
\* the application, of peers, of signals or of timers.
Fairness ==
    \A p \in Poll :
        /\ WF_allVars(Library(p))
        /\ WF_allVars(ReportNothing(p) /\ call.msec >= 0)

FairLoopSpec == LoopSpec /\ Fairness

-----------------------------------------------------------------------------
(* Properties *)

\* epoll_wait never stores more than the event list holds, and what it stores
\* is what consume walks through.
EvlistFits ==
    \A p \in Poll :
        /\ batch[p].nevt = Len(batch[p].list)
        /\ batch[p].nevt <= batch[p].size

\* consume reads only slots that the last wait stored.
ReadsInBatch ==
    call.op = "consume" /\ batch[call.p].nevt # 0
        => batch[call.p].cur < batch[call.p].nevt

\* README: consume returns nil if no event occurred, so an event that it
\* returns is one that occurred: the report is about this event and about the
\* registration that is in place, not about one that has ended since.
FreshDelivery == result.ev # NoEvent => result.from = result.ev

\* README: disabled is true if the event has been disabled; a one-shot event
\* is unregistered before consume returns it.
DisabledTruthful ==
    result.ev # NoEvent => result.disabled = ~ev[result.ev].enabled

\* wait and consume keep what Notifier promises: consume returns nothing but an
\* event that is watched and that something has occurred for, although a slot
\* of the batch is an old number; what consume, wait and renew read or unregister
\* is that event's and no other's; disabled is true to it; outside of these
\* calls nothing that has occurred is lost.
\* For timers and triggers due means that there is something to read; what
\* occurs for the other kinds is not followed.
HasCounter(e) == ev[e].filter \in {"timer", "trigger"}
Promise == INSTANCE Notifier WITH
    pair     <- [e \in Event |-> PairOf(e)],
    home     <- [e \in Event |-> ev[e].p],
    on       <- [e \in Event |-> ev[e].enabled],
    size     <- [p \in Poll |-> poll[p].nreg],
    due      <- {e \in Event : ev[e].enabled /\ (HasCounter(e) => data[ev[e].fd] > 0)},
    phase    <- call.op,
    returned <- [ev |-> result.ev,
                 disabled |-> result.ev # NoEvent /\ result.disabled]
PromiseSpec == Promise!NotifierSpec

\* README: wait takes a timeout in seconds.  A wait with a timeout returns,
\* even while it consumes what the previous wait has left, and however long
\* the timeout: milliseconds that overflow an int would mean for ever.
Waiting(p)  == call.op \in {"wait", "epoll_wait"} /\ call.p = p /\ call.asked >= 0
WaitReturns == \A p \in Poll : Waiting(p) ~> call = Idle

\* README: eof is true if the event flag is set to EPOLLHUP, EPOLLRDHUP or
\* EPOLLERR.  That is what ev:is_eof() answers after the delivery: the flags
\* that occurred are those of this delivery, not of an earlier one.  When a read
\* fails, consume answers eof = true although is_eof() is false (epoll.c:111): a
\* delivery for which that happens violates this, it is not excepted.
IsEof(e) == e \in hungup
EofTruthful == result.ev # NoEvent => (result.eof <=> IsEof(result.ev))

\* A signal, a timer or a trigger that has occurred is not forgotten: its
\* event is on the kernel's ready list or in a slot that is still to be
\* delivered.  wait throws slots away, but drains their descriptors first, and
\* a trigger that finds its counter full relies on the one before it.  Without
\* that an edge-triggered event would be silent for ever.  Excepted is an
\* edge-triggered semaphore: a delivery takes one of its counts, and nothing
\* reports the rest.
Coalesces(e) == setting[ev[e].fd] # "semaphore" \/ "ET" \notin ev[e].events
WakeupPending ==
    \A e \in Event \ lost :
        LET f == ev[e].fd
            p == ev[e].p
        IN  /\ ev[e].enabled /\ ev[e].filter \notin FdKind
            /\ StateOf(file[f]) # {} /\ Coalesces(e)
            => f \in Ahead(p) \/ \E i \in queued[p] : i.fd = f

\* A timer goes on firing: if the application waits again and again, and
\* consumes what a wait found before the next one, then an event with a running
\* interval is delivered again and again, whatever else it does meanwhile.
Loops(p) ==
    /\ []<>(call.op = "wait" /\ call.p = p)
    /\ <>[](call.op \in {"wait", "renew"} /\ call.p = p => Ahead(p) = {})
Repeats(e, p) ==
    /\ ev[e].enabled /\ e \notin lost /\ ev[e].p = p
    /\ ev[e].filter = "timer" /\ "ONESHOT" \notin ev[e].events
    /\ setting[ev[e].fd] = "armed"
TimersFire ==
    (\A f \in Fd : WF_allVars(TimerExpires(f))) =>
        \A p \in Poll : Loops(p) =>
            \A e \in Event : <>[]Repeats(e, p) => []<>(result.ev = e)

\* No drain inside consume, wait or renew reads a signalfd or timerfd that has
\* nothing to read: these descriptors block.
NoBlockedDrain ==
    call.op \in {"consume", "wait", "renew"} =>
        LET b == batch[call.p] IN
        b.cur < b.nevt =>
            LET s == b.list[b.cur + 1]
                e == poll[call.p].evset[s.fd]
            IN  e # NoEvent /\ ev[e].filter \in {"signal", "timer"}
                    => StateOf(file[s.fd]) # {}

=============================================================================

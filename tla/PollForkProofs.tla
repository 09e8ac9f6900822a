--------------------------- MODULE PollForkProofs ---------------------------
(***************************************************************************)
(* Proofs about PollFork, for every set of events: if the child renews its *)
(* instance before any other call, and the parent forks with no slot left  *)
(* that unregisters an event, then the two processes keep their            *)
(* registrations apart.                                                    *)
(***************************************************************************)
EXTENDS PollFork, TLAPS

\* Two processes that have both renewed have epoll objects of their own.
Apart ==
    "child" \in renewed =>
        /\ "child" \in alive
        /\ "parent" \in alive => epoll["child"] # epoll["parent"]

\* A child that has not renewed yet has lost what it inherited, and its batch
\* will not unregister anything.
Inherited ==
    "child" \in alive \ renewed =>
        /\ enabled["child"] \subseteq lost["child"]
        /\ \A s \in batch["child"] : ~Unregisters(s)

IInv ==
    /\ TypeOK
    /\ "parent" \in renewed
    /\ Apart
    /\ Inherited
    /\ ArmedInBoth
    /\ NoneOfTheOther

Discipline == RenewsFirst /\ ForksDrained

-----------------------------------------------------------------------------
(* Steps by what they change *)

\* A step that leaves the registrations alone: delivering a slot that does not
\* unregister, a wait, the start of renew, and what happens outside.
LEMMA QuietStep ==
    ASSUME IInv,
           UNCHANGED <<alive, enabled, epoll, interest, renewed, lost>>,
           batch' \in [Process -> SUBSET Slot],
           call' \in [Process -> {"idle", "renew"}],
           ready' \subseteq Counter,
           "child" \in alive \ renewed => batch'["child"] \subseteq batch["child"]
    PROVE  IInv'
<1>1. TypeOK'
  BY DEF IInv, TypeOK
<1>2. Inherited'
  BY DEF IInv, Inherited, Unregisters
<1> QED
  BY <1>1, <1>2 DEF IInv, Apart, ArmedInBoth, NoneOfTheOther

\* A step of one process that has renewed, on its own epoll object: it watches E
\* afterwards, of which it has lost L, and the kernel watches X.
LEMMA OwnStep ==
    ASSUME IInv, NEW q \in alive \cap renewed,
           NEW E \in SUBSET Event, NEW L \in SUBSET Event, NEW X \in SUBSET Event,
           E \ L \subseteq X, X \subseteq E,
           enabled' = [enabled EXCEPT ![q] = E],
           lost' = [lost EXCEPT ![q] = L],
           interest' = [interest EXCEPT ![epoll[q]] = X],
           UNCHANGED <<alive, epoll, renewed>>,
           batch' \in [Process -> SUBSET Slot],
           call' \in [Process -> {"idle", "renew"}],
           ready' \subseteq Counter,
           "child" \in alive \ renewed => batch'["child"] \subseteq batch["child"]
    PROVE  IInv'
<1>0. q \in Process /\ epoll[q] \in Object /\ TypeOK
  BY DEF IInv, TypeOK
<1>1. TypeOK'
  BY <1>0 DEF TypeOK
<1>2. Apart'
  BY DEF IInv, Apart
<1>3. Inherited'
  <2> SUFFICES ASSUME "child" \in alive \ renewed
               PROVE  enabled'["child"] = enabled["child"] /\ lost'["child"] = lost["child"]
    BY DEF IInv, Inherited, Unregisters
  <2> QED
    BY <1>0 DEF TypeOK, Process
<1>4. ASSUME NEW r \in alive \cap renewed, r # q
      PROVE  epoll[r] # epoll[q]
  <2>1. {r, q} = {"parent", "child"}
    BY <1>0, <1>4 DEF TypeOK, Process
  <2> QED
    BY <1>4, <2>1 DEF IInv, Apart
<1>5. ArmedInBoth'
  <2> SUFFICES ASSUME NEW r \in alive
               PROVE  enabled'[r] \ lost'[r] \subseteq interest'[epoll[r]]
    BY DEF ArmedInBoth
  <2>0. r \in Process /\ epoll[r] \in Object
    BY <1>0 DEF TypeOK
  <2>1. CASE r = q
    BY <1>0, <2>1 DEF TypeOK
  <2>2. CASE r # q /\ r \in renewed
    <3>1. interest'[epoll[r]] = interest[epoll[r]]
      BY <1>0, <1>4, <2>0, <2>2 DEF TypeOK
    <3> QED
      BY <1>0, <2>0, <2>2, <3>1 DEF IInv, ArmedInBoth, TypeOK
  <2>3. CASE r # q /\ r \notin renewed
    <3>1. r = "child"
      BY <2>0, <2>3 DEF Process, IInv
    <3> QED
      BY <1>0, <2>0, <2>3, <3>1 DEF IInv, Inherited, TypeOK
  <2> QED
    BY <2>1, <2>2, <2>3
<1>6. NoneOfTheOther'
  <2> SUFFICES ASSUME NEW r \in alive \cap renewed
               PROVE  interest'[epoll[r]] \subseteq enabled'[r]
    BY DEF NoneOfTheOther
  <2>0. r \in Process /\ epoll[r] \in Object
    BY <1>0 DEF TypeOK
  <2>1. CASE r = q
    BY <1>0, <2>1 DEF TypeOK
  <2>2. CASE r # q
    <3>1. interest'[epoll[r]] = interest[epoll[r]]
      BY <1>0, <1>4, <2>0, <2>2 DEF TypeOK
    <3> QED
      BY <1>0, <2>0, <2>2, <3>1 DEF IInv, NoneOfTheOther, TypeOK
  <2> QED
    BY <2>1, <2>2
<1> QED
  BY <1>1, <1>2, <1>3, <1>5, <1>6 DEF IInv

-----------------------------------------------------------------------------
(* The calls *)

\* What the invariant says of the process that acts.
LEMMA OwnFacts ==
    ASSUME IInv, NEW q \in alive \cap renewed
    PROVE  /\ q \in Process /\ epoll[q] \in Object
           /\ enabled[q] \in SUBSET Event /\ lost[q] \in SUBSET Event
           /\ interest[epoll[q]] \in SUBSET Event
           /\ enabled[q] \ lost[q] \subseteq interest[epoll[q]]
           /\ interest[epoll[q]] \subseteq enabled[q]
           /\ enabled = [enabled EXCEPT ![q] = enabled[q]]
           /\ lost = [lost EXCEPT ![q] = lost[q]]
BY DEF IInv, TypeOK, ArmedInBoth, NoneOfTheOther

LEMMA WatchStep ==
    ASSUME IInv, Discipline, NEW q \in Process, NEW e \in Event, Watch(q, e)
    PROVE  IInv'
<1>1. q \in alive \cap renewed
  BY DEF Watch, MayCall, Discipline
<1> DEFINE E == enabled[q] \cup {e}
           X == interest[epoll[q]] \cup {e}
<1>2. /\ E \in SUBSET Event /\ X \in SUBSET Event
      /\ E \ lost[q] \subseteq X /\ X \subseteq E
  BY <1>1, OwnFacts
<1>3. /\ enabled' = [enabled EXCEPT ![q] = E]
      /\ interest' = [interest EXCEPT ![epoll[q]] = X]
      /\ lost' = [lost EXCEPT ![q] = lost[q]]
      /\ UNCHANGED <<alive, epoll, batch, call, ready, renewed>>
  BY <1>1, OwnFacts DEF Watch, Added
<1>4. lost[q] \in SUBSET Event
  BY <1>1, OwnFacts
<1> HIDE DEF E, X
<1>5. /\ batch' \in [Process -> SUBSET Slot] /\ call' \in [Process -> {"idle", "renew"}]
      /\ ready' \subseteq Counter
      /\ UNCHANGED batch
  BY <1>3 DEF IInv, TypeOK
<1> QED
  BY <1>1, <1>2, <1>3, <1>4, <1>5, OwnStep

\* What unwatching an event means for OwnStep.
LEMMA UnwatchedFacts ==
    ASSUME IInv, NEW q \in alive \cap renewed, NEW e, UnwatchedIn(q, e)
    PROVE  \E E, L, X \in SUBSET Event :
              /\ E \ L \subseteq X /\ X \subseteq E
              /\ enabled' = [enabled EXCEPT ![q] = E]
              /\ lost' = [lost EXCEPT ![q] = L]
              /\ interest' = [interest EXCEPT ![epoll[q]] = X]
<1> DEFINE E == enabled[q] \ {e}
           L == lost[q] \ {e}
           X == interest[epoll[q]] \ {e}
<1>1. /\ E \in SUBSET Event /\ L \in SUBSET Event /\ X \in SUBSET Event
      /\ E \ L \subseteq X /\ X \subseteq E
  BY OwnFacts
<1>2. /\ enabled' = [enabled EXCEPT ![q] = E]
      /\ lost' = [lost EXCEPT ![q] = L]
      /\ interest' = [interest EXCEPT ![epoll[q]] = X]
  BY DEF UnwatchedIn, Removed
<1> HIDE DEF E, L, X
<1> QED
  BY <1>1, <1>2

LEMMA UnwatchStep ==
    ASSUME IInv, Discipline, NEW q \in Process, NEW e \in Event, Unwatch(q, e)
    PROVE  IInv'
<1>1. q \in alive \cap renewed
  BY DEF Unwatch, MayCall, Discipline
<1>2. PICK E, L, X \in SUBSET Event :
         /\ E \ L \subseteq X /\ X \subseteq E
         /\ enabled' = [enabled EXCEPT ![q] = E]
         /\ lost' = [lost EXCEPT ![q] = L]
         /\ interest' = [interest EXCEPT ![epoll[q]] = X]
  BY <1>1, UnwatchedFacts DEF Unwatch
<1>3. UNCHANGED <<alive, epoll, batch, call, ready, renewed>>
  BY DEF Unwatch
<1>4. /\ batch' \in [Process -> SUBSET Slot] /\ call' \in [Process -> {"idle", "renew"}]
      /\ ready' \subseteq Counter
      /\ UNCHANGED batch
  BY <1>3 DEF IInv, TypeOK
<1> QED
  BY <1>1, <1>2, <1>3, <1>4, OwnStep

LEMMA RenewEventStep ==
    ASSUME IInv, Discipline, NEW q \in Process, NEW e \in Event, RenewEvent(q, e)
    PROVE  IInv'
<1>1. q \in alive \cap renewed
  BY DEF RenewEvent, MayCall, Discipline
<1> DEFINE L == lost[q] \ {e}
           X == interest[epoll[q]] \cup {e}
<1>2. /\ L \in SUBSET Event /\ X \in SUBSET Event
      /\ enabled[q] \ L \subseteq X /\ X \subseteq enabled[q]
  BY <1>1, OwnFacts DEF RenewEvent
<1>3. /\ enabled' = [enabled EXCEPT ![q] = enabled[q]]
      /\ interest' = [interest EXCEPT ![epoll[q]] = X]
      /\ lost' = [lost EXCEPT ![q] = L]
      /\ UNCHANGED <<alive, epoll, batch, call, ready, renewed>>
  BY <1>1, OwnFacts DEF RenewEvent, RenewedIntr, Added
<1> HIDE DEF L, X
<1> QED
  BY <1>1, <1>2, <1>3, OwnFacts, OwnStep DEF IInv, TypeOK

LEMMA DeliverStep ==
    ASSUME IInv, Discipline, NEW q \in Process, Deliver(q)
    PROVE  IInv'
<1>1. PICK s \in batch[q], error \in BOOLEAN :
        /\ batch' = [batch EXCEPT ![q] = @ \ {s}]
        /\ IF s.ev \in enabled[q]
           THEN /\ IF Unregisters(s) THEN UnwatchedIn(q, s.ev)
                                     ELSE UNCHANGED <<enabled, interest, lost>>
                /\ IF s.hup THEN ~error /\ UNCHANGED ready
                            ELSE Drain(q, s.ev, error)
           ELSE ~error /\ UNCHANGED <<enabled, interest, lost, ready>>
        /\ call' = [call EXCEPT ![q] = IF error THEN "idle" ELSE @]
  BY DEF Deliver
<1>2. q \in alive /\ UNCHANGED <<alive, epoll, renewed>>
  BY DEF Deliver
<1>3. /\ batch' \in [Process -> SUBSET Slot]
      /\ batch'["child"] \subseteq batch["child"]
  BY <1>1 DEF IInv, TypeOK, Process
<1>4. call' \in [Process -> {"idle", "renew"}]
  BY <1>1 DEF IInv, TypeOK
<1>5. ready' \subseteq Counter
  BY <1>1 DEF IInv, TypeOK, Drain
<1>6. CASE UNCHANGED <<enabled, interest, lost>>
  BY <1>2, <1>3, <1>4, <1>5, <1>6, QuietStep
<1>7. CASE s.ev \in enabled[q] /\ Unregisters(s)
  <2>1. UnwatchedIn(q, s.ev)
    BY <1>1, <1>7
  <2>2. q \in renewed
    BY <1>2, <1>7 DEF IInv, Inherited, Process
  <2>3. PICK E, L, X \in SUBSET Event :
           /\ E \ L \subseteq X /\ X \subseteq E
           /\ enabled' = [enabled EXCEPT ![q] = E]
           /\ lost' = [lost EXCEPT ![q] = L]
           /\ interest' = [interest EXCEPT ![epoll[q]] = X]
    BY <1>2, <2>1, <2>2, UnwatchedFacts
  <2> QED
    BY <1>2, <1>3, <1>4, <1>5, <2>2, <2>3, OwnStep
<1> QED
  BY <1>1, <1>6, <1>7

LEMMA WaitStep ==
    ASSUME IInv, Discipline, NEW q \in Process, Wait(q)
    PROVE  IInv'
<1>1. q \in alive \cap renewed
  BY DEF Wait, MayCall, Discipline
<1>2. PICK R \in SUBSET (interest[epoll[q]] \ (Counter \ ready)) :
        \E H \in SUBSET (R \ Counter) :
          batch' = [batch EXCEPT ![q] = {[ev |-> e, hup |-> e \in H] : e \in R}]
  BY DEF Wait
<1>3. PICK H \in SUBSET (R \ Counter) :
          batch' = [batch EXCEPT ![q] = {[ev |-> e, hup |-> e \in H] : e \in R}]
  BY <1>2
<1>4. {[ev |-> e, hup |-> e \in H] : e \in R} \subseteq Slot
  <2>1. R \subseteq Event
    BY <1>1, OwnFacts
  <2>2. ASSUME NEW e \in R
        PROVE  [ev |-> e, hup |-> e \in H] \in Slot
    <3>1. e \in Event /\ (e \in H) \in BOOLEAN
      BY <2>1
    <3> QED
      BY <3>1, Zenon DEF Slot
  <2> QED
    BY <2>2, Zenon
<1>5. batch' \in [Process -> SUBSET Slot]
  BY <1>3, <1>4 DEF IInv, TypeOK
<1>6. "child" \notin renewed => batch'["child"] = batch["child"]
  BY <1>1, <1>3 DEF IInv, TypeOK, Process
<1>7. UNCHANGED <<alive, enabled, epoll, interest, call, ready, renewed, lost>>
  BY DEF Wait
<1> QED
  BY <1>5, <1>6, <1>7, QuietStep DEF IInv, TypeOK

LEMMA CallRenewStep ==
    ASSUME IInv, NEW q \in Process, CallRenew(q)
    PROVE  IInv'
<1>1. call' \in [Process -> {"idle", "renew"}]
  BY DEF CallRenew, IInv, TypeOK
<1>2. UNCHANGED <<alive, enabled, epoll, interest, batch, ready, renewed, lost>>
  BY DEF CallRenew
<1> QED
  BY <1>1, <1>2, QuietStep DEF IInv, TypeOK

\* ep:renew gives the process an object that nobody else has, and that is empty.
LEMMA FinishRenewStep ==
    ASSUME IInv, NEW q \in Process, FinishRenew(q)
    PROVE  IInv'
<1>0. /\ q \in alive /\ TypeOK
      /\ UNCHANGED <<alive, enabled, batch, ready>>
      /\ call' = [call EXCEPT ![q] = "idle"]
  BY DEF FinishRenew, IInv
<1>1. call' \in [Process -> {"idle", "renew"}]
  BY <1>0 DEF TypeOK
<1>2. CASE UNCHANGED <<epoll, interest, lost, renewed>>
  BY <1>0, <1>1, <1>2, QuietStep DEF TypeOK
<1>3. ASSUME NEW o \in Object,
             \A r \in alive : epoll[r] # o,
             epoll' = RenewedEpoll(q, o),
             interest' = Kept(interest, alive, epoll'),
             lost' = [lost EXCEPT ![q] = enabled[q]],
             renewed' = renewed \cup {q}
      PROVE  IInv'
  <2>1. epoll' = [epoll EXCEPT ![q] = o] /\ epoll' \in [Process -> Object]
    BY <1>0, <1>3 DEF RenewedEpoll, TypeOK
  <2>2. interest' = [n \in Object |-> IF \E r \in alive : epoll'[r] = n
                                      THEN interest[n] ELSE {}]
    BY <1>3 DEF Kept
  <2>3. interest[o] = {}
    BY <1>0, <1>3 DEF TypeOK
  <2>4. ASSUME NEW r \in alive
        PROVE  /\ r \in Process
               /\ interest'[epoll'[r]] = IF r = q THEN {} ELSE interest[epoll[r]]
               /\ epoll'[r] = IF r = q THEN o ELSE epoll[r]
    BY <1>0, <2>1, <2>2, <2>3 DEF TypeOK
  <2>5. TypeOK'
    <3>1. interest' \in [Object -> SUBSET Event]
      BY <1>0, <2>2 DEF TypeOK
    <3>2. lost' \in [Process -> SUBSET Event] /\ renewed' \subseteq Process
      BY <1>0, <1>3 DEF TypeOK
    <3>3. \A n \in Object : interest'[n] # {} => \E r \in alive : epoll'[r] = n
      BY <2>2
    <3> QED
      BY <1>0, <1>1, <2>1, <3>1, <3>2, <3>3 DEF TypeOK
  <2>6. Apart'
    <3>1. CASE q = "child"
      BY <1>0, <1>3, <2>4, <3>1 DEF Apart
    <3>2. CASE q = "parent"
      BY <1>0, <1>3, <2>4, <3>2 DEF Apart, IInv
    <3> QED
      BY <3>1, <3>2 DEF Process
  <2>7. Inherited'
    <3> SUFFICES ASSUME "child" \in alive \ (renewed \cup {q})
                 PROVE  lost'["child"] = lost["child"]
      BY <1>0, <1>3 DEF IInv, Inherited, Unregisters
    <3> QED
      BY <1>0, <1>3 DEF TypeOK, Process
  <2>8. ArmedInBoth'
    <3> SUFFICES ASSUME NEW r \in alive
                 PROVE  enabled[r] \ lost'[r] \subseteq interest'[epoll'[r]]
      BY <1>0 DEF ArmedInBoth
    <3>1. CASE r = q
      BY <1>0, <1>3, <3>1 DEF TypeOK
    <3>2. CASE r # q
      BY <1>0, <1>3, <2>4, <3>2 DEF TypeOK, IInv, ArmedInBoth
    <3> QED
      BY <3>1, <3>2
  <2>9. NoneOfTheOther'
    <3> SUFFICES ASSUME NEW r \in alive, r \in renewed \cup {q}
                 PROVE  interest'[epoll'[r]] \subseteq enabled[r]
      BY <1>0, <1>3 DEF NoneOfTheOther
    <3> QED
      BY <2>4 DEF IInv, NoneOfTheOther
  <2> QED
    BY <1>3, <2>5, <2>6, <2>7, <2>8, <2>9 DEF IInv
<1> QED
  BY <1>2, <1>3 DEF FinishRenew

LEMMA ForkStep ==
    ASSUME IInv, Discipline, Fork
    PROVE  IInv'
<1>0. /\ alive = {"parent"} /\ alive' = Process
      /\ enabled' = [enabled EXCEPT !["child"] = enabled["parent"]]
      /\ epoll' = [epoll EXCEPT !["child"] = epoll["parent"]]
      /\ batch' = [batch EXCEPT !["child"] = batch["parent"]]
      /\ lost' = [lost EXCEPT !["child"] = enabled["parent"]]
      /\ UNCHANGED <<interest, call, ready, renewed>>
      /\ \A s \in batch["parent"] : ~Unregisters(s)
      /\ TypeOK
  BY DEF Fork, Discipline, IInv
<1>1. /\ "child" \notin renewed /\ "parent" \in renewed
      /\ "parent" \in Process /\ "child" \in Process
  BY <1>0 DEF IInv, Apart, Process
<1>2. /\ enabled'["parent"] = enabled["parent"] /\ enabled'["child"] = enabled["parent"]
      /\ lost'["parent"] = lost["parent"] /\ lost'["child"] = enabled["parent"]
      /\ epoll'["parent"] = epoll["parent"] /\ batch'["child"] = batch["parent"]
  BY <1>0, <1>1 DEF TypeOK
<1>3. TypeOK'
  <2>1. \A o \in Object : interest'[o] # {} => \E q \in alive' : epoll'[q] = o
    BY <1>0, <1>1, <1>2 DEF TypeOK
  <2> QED
    BY <1>0, <1>1, <2>1 DEF TypeOK
<1>4. Inherited'
  BY <1>0, <1>2 DEF Inherited, Unregisters
<1>5. ArmedInBoth'
  BY <1>0, <1>2 DEF ArmedInBoth, IInv, Process
<1>6. NoneOfTheOther'
  BY <1>0, <1>1, <1>2 DEF NoneOfTheOther, IInv, Process
<1> QED
  BY <1>0, <1>1, <1>3, <1>4, <1>5, <1>6 DEF IInv, Apart

\* A process that ends takes nothing with it but an object of its own.
LEMMA ExitStep ==
    ASSUME IInv, NEW q \in Process, Exit(q)
    PROVE  IInv'
<1>0. /\ alive' = alive \ {q}
      /\ renewed' = IF q = "child" THEN renewed \ {q} ELSE renewed
      /\ interest' = Kept(interest, alive', epoll)
      /\ enabled' = [enabled EXCEPT ![q] = {}]
      /\ epoll' = [epoll EXCEPT ![q] = 0]
      /\ batch' = [batch EXCEPT ![q] = {}]
      /\ call' = [call EXCEPT ![q] = "idle"]
      /\ lost' = [lost EXCEPT ![q] = {}]
      /\ UNCHANGED ready
      /\ TypeOK
  BY DEF Exit, IInv, CollectedIntr
<1>1. interest' = [n \in Object |-> IF \E r \in alive' : epoll[r] = n
                                    THEN interest[n] ELSE {}]
  BY <1>0 DEF Kept
<1>2. ASSUME NEW r \in alive'
      PROVE  /\ r \in alive /\ r \in Process /\ r # q
             /\ epoll'[r] = epoll[r] /\ enabled'[r] = enabled[r]
             /\ lost'[r] = lost[r] /\ batch'[r] = batch[r]
             /\ interest'[epoll'[r]] = interest[epoll[r]]
             /\ r \in renewed' <=> r \in renewed
  BY <1>0, <1>1 DEF TypeOK
<1>3. TypeOK'
  <2>1. 0 \in Object
    BY DEF Object
  <2>2. interest' \in [Object -> SUBSET Event]
    BY <1>0, <1>1 DEF TypeOK
  <2>3. \A n \in Object : interest'[n] # {} => \E r \in alive' : epoll'[r] = n
    BY <1>1, <1>2
  <2> QED
    BY <1>0, <2>1, <2>2, <2>3 DEF TypeOK
<1>4. Apart'
  <2> SUFFICES ASSUME "child" \in renewed'
               PROVE  /\ "child" \in alive'
                      /\ "parent" \in alive' => epoll'["child"] # epoll'["parent"]
    BY DEF Apart
  <2>1. "child" \in alive' /\ "child" \in renewed
    BY <1>0 DEF IInv, Apart
  <2> QED
    BY <1>2, <2>1 DEF IInv, Apart
<1>5. Inherited'
  BY <1>2 DEF IInv, Inherited, Unregisters
<1>6. ArmedInBoth'
  BY <1>2 DEF IInv, ArmedInBoth
<1>7. NoneOfTheOther'
  BY <1>2 DEF IInv, NoneOfTheOther
<1>8. "parent" \in renewed'
  BY <1>0 DEF IInv
<1> QED
  BY <1>3, <1>4, <1>5, <1>6, <1>7, <1>8 DEF IInv

LEMMA OccursStep ==
    ASSUME IInv, NEW e \in Event, Occurs(e)
    PROVE  IInv'
BY QuietStep DEF Occurs, IInv, TypeOK

-----------------------------------------------------------------------------
LEMMA InitIInv == Init => IInv
<1> SUFFICES ASSUME Init PROVE IInv
  OBVIOUS
<1>1. 0 \in Object
  BY DEF Object
<1> QED
  BY <1>1 DEF Init, IInv, TypeOK, Apart, Inherited, ArmedInBoth,
              NoneOfTheOther, Process, Counter

LEMMA NextIInv ==
    ASSUME Discipline, IInv, [Next]_vars
    PROVE  IInv'
<1>1. CASE Next
  <2>1. ASSUME NEW q \in Process, NEW e \in Event,
               Watch(q, e) \/ Unwatch(q, e) \/ RenewEvent(q, e)
        PROVE  IInv'
    BY <2>1, WatchStep, UnwatchStep, RenewEventStep
  <2>2. ASSUME NEW q \in Process,
               Deliver(q) \/ Wait(q) \/ CallRenew(q) \/ FinishRenew(q) \/ Exit(q)
        PROVE  IInv'
    BY <2>2, DeliverStep, WaitStep, CallRenewStep, FinishRenewStep, ExitStep
  <2> QED
    BY <1>1, <2>1, <2>2, ForkStep, OccursStep DEF Next
<1>2. CASE UNCHANGED vars
  BY <1>2, QuietStep DEF vars, IInv, TypeOK
<1> QED
  BY <1>1, <1>2

\* Whatever the child does after its ep:renew (epoll.c:233-263), and whenever
\* either process ends, the registrations of both stay as they believe them to
\* be (see Apart and Inherited).
THEOREM Invariance ==
    ASSUME Discipline
    PROVE  Spec => []IInv
<1>1. Init => IInv
  BY InitIInv
<1>2. IInv /\ [Next]_vars => IInv'
  BY NextIInv
<1> QED
  BY <1>1, <1>2, PTL DEF Spec

\* ep:renew leaks no epoll object: one that still watches something belongs to
\* a process that runs (epoll.c:245-255).
THEOREM NoObjectLeaks ==
    ASSUME Discipline
    PROVE  Spec => []TypeOK
<1>1. IInv => TypeOK
  BY DEF IInv
<1> QED
  BY <1>1, Invariance, PTL

\* The kernel watches for each process what that process watches and has not
\* lost by fork or ep:renew (common.c:63-95, epoll.c:233-263).
THEOREM BothStayArmed ==
    ASSUME Discipline
    PROVE  Spec => []ArmedInBoth
<1>1. IInv => ArmedInBoth
  BY DEF IInv
<1> QED
  BY <1>1, Invariance, PTL

\* No process is woken for an event that only the other one watches.
THEOREM NoneIsOfTheOther ==
    ASSUME Discipline
    PROVE  Spec => []NoneOfTheOther
<1>1. IInv => NoneOfTheOther
  BY DEF IInv
<1> QED
  BY <1>1, Invariance, PTL

=============================================================================

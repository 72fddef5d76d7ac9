------------------------- MODULE RegistrationProofs -------------------------
(***************************************************************************)
(* What holds of Registration for every set of attendees, every clock and  *)
(* every settings request: its types, that registrations never exceed the  *)
(* places, that nobody is both registered and on the waiting list, that no *)
(* place is promised twice, that the list is served in order and that an   *)
(* offer is held until it runs out.                                        *)
(***************************************************************************)
EXTENDS Registration, FiniteSetTheorems, TLAPS

-----------------------------------------------------------------------------
(* The operators.                                                          *)

\* A later read of the clock returns an instant.
LEMMA LaterType == \A t \in Nat : Later(t) \subseteq Nat
  BY TimeAssumption DEF Later

\* Every status an event may have in this module.
Event == [status : {"planning", "confirmed", "completed", "cancelled"},
          capacity : Capacity, opens : Time, closes : Time,
          date : Nat, hours : Nat \ {0}]

\* An offer that an open event makes runs out at an instant.
LEMMA EarliestType == \A a, b, c \in Nat : EarliestOf(a, b, c) \in Nat
  <1>1. SUFFICES ASSUME NEW a \in Nat, NEW b \in Nat, NEW c \in Nat
                 PROVE  \E t \in {a, b, c} : \A u \in {a, b, c} : t <= u
    BY DEF EarliestOf
  <1>2. CASE a <= b /\ a <= c
    BY <1>2
  <1>3. CASE b <= a /\ b <= c
    BY <1>3
  <1>4. CASE c <= a /\ c <= b
    BY <1>4
  <1>5. QED
    BY <1>2, <1>3, <1>4

\* Letting offers lapse leaves well-formed entries.
LEMMA LapseType ==
  ASSUME NEW e, NEW ent \in [Attendees -> Entry], NEW t
  PROVE  Lapse(e, ent, t) \in [Attendees -> Entry]
  BY DEF Lapse, Entry, NoEntry, Time

\* So does the whole of offer_waiting_places.
LEMMA OfferType ==
  ASSUME NEW e \in Event, NEW reg, NEW ent \in [Attendees -> Entry], NEW q,
         NEW instant \in Nat, NEW t
  PROVE  OfferWaitingPlaces(e, reg, ent, q, instant, t) \in [Attendees -> Entry]
  <1> DEFINE left == Lapse(e, ent, instant)
             expires == EarliestOf(instant + e.hours, e.closes, e.date)
             offer == [status |-> "offered", expires |-> expires]
  <1>1. left \in [Attendees -> Entry]
    BY LapseType
  <1>2. CASE ~Open(e, instant)
    BY <1>1, <1>2 DEF OfferWaitingPlaces
  <1>3. CASE Open(e, instant)
    <2>1. e.closes \in Nat /\ e.date \in Nat /\ instant + e.hours \in Nat
      BY <1>3, NullNoInteger DEF Open, Findable, Event, Time
    <2>2. offer \in Entry
      BY <2>1, EarliestType DEF Entry, Time
    <2>3. OfferFree(e, reg, left, q, instant, t) \in [Attendees -> Entry]
      BY <1>1, <2>2 DEF OfferFree
    <2>4. QED
      BY <1>3, <2>3 DEF OfferWaitingPlaces
  <1>4. QED
    BY <1>2, <1>3

\* offer_waiting_places puts nobody on the list who was not waiting on it.
LEMMA OfferListsNobody ==
  ASSUME NEW e, NEW reg, NEW ent \in [Attendees -> Entry], NEW q, NEW instant, NEW t,
         NEW a \in Attendees, ent[a].status = "none"
  PROVE  OfferWaitingPlaces(e, reg, ent, q, instant, t)[a].status = "none"
  <1> DEFINE left == Lapse(e, ent, instant)
  <1>1. left[a].status = "none"
    BY DEF Lapse, OfferEnded, NoEntry
  <1>2. OfferFree(e, reg, left, q, instant, t)[a].status = "none"
    BY <1>1 DEF OfferFree
  <1>3. QED
    BY <1>1, <1>2 DEF OfferWaitingPlaces

\* Dropping the pairs of attendees who left keeps the rest of the queue.
LEMMA PruneType ==
  ASSUME NEW q, NEW ent, q \subseteq Attendees \X Attendees
  PROVE  Prune(q, ent) \subseteq Attendees \X Attendees
  BY DEF Prune

\* A settings request gives the event settings of the right kind.
LEMMA PatchedType ==
  ASSUME NEW e \in Event, NEW p \in Patch, NEW instant \in Time
  PROVE  Patched(e, p, instant) \in Event
  <1> DEFINE set(old, new) == IF new = Keep THEN old ELSE new
  <1>1. CASE p.closeNow
    BY <1>1 DEF Patched, Event
  <1>2. CASE ~p.closeNow
    <2>1. set(e.capacity, p.capacity) \in Capacity
      BY DEF Event, Patch
    <2>2. set(e.opens, p.opens) \in Time /\ set(e.closes, p.closes) \in Time
      BY DEF Event, Patch
    <2>3. set(e.hours, p.hours) \in Nat \ {0}
      BY DEF Event, Patch
    <2>4. Patched(e, p, instant) = [e EXCEPT !.capacity = set(e.capacity, p.capacity),
            !.opens = set(e.opens, p.opens), !.closes = set(e.closes, p.closes),
            !.hours = set(e.hours, p.hours)]
      BY <1>2 DEF Patched
    <2> HIDE DEF set
    <2>5. QED
      BY <2>1, <2>2, <2>3, <2>4 DEF Event
  <1>3. QED
    BY <1>1, <1>2

-----------------------------------------------------------------------------
(* Types.                                                                  *)

\* Every variable keeps its type (the columns and rows of the tables involved).
THEOREM TypeCorrect == Spec => []TypeOK
  <1>1. Init => TypeOK
    <2> SUFFICES ASSUME Init PROVE TypeOK
      OBVIOUS
    <2>1. event \in Event
      <3>1. {"planning"} \subseteq {"planning", "confirmed", "completed", "cancelled"}
        OBVIOUS
      <3>2. {Null} \subseteq Capacity /\ {Null} \subseteq Time /\ {1} \subseteq Nat \ {0}
        BY DEF Capacity, Time
      <3>3. QED
        BY <3>1, <3>2, TimeAssumption DEF Init, Event
    <2>2. entry \in [Attendees -> Entry]
      BY DEF Init, Entry, NoEntry, Time
    <2>3. QED
      BY <2>1, <2>2 DEF Init, TypeOK, Event, Call
  <1>2. TypeOK /\ [Next]_vars => TypeOK'
    <2> SUFFICES ASSUME TypeOK, [Next]_vars PROVE TypeOK'
      OBVIOUS
    <2>t. event \in Event
      BY DEF TypeOK, Event
    <2>1. ASSUME NEW a \in Attendees, Register(a) PROVE TypeOK'
      <3>1. PICK t1 \in Later(now) : \E t2 \in Later(t1) : \E t3 \in Later(t2) :
              LET ent == OfferWaitingPlaces(event, registered, entry, queue, t1, t2)
              IN  /\ now' = t3
                  /\ IF Full(event, PlacesHeld(registered, ent, t3, {a}))
                     THEN entry' = ent /\ UNCHANGED registered
                     ELSE entry' = [ent EXCEPT ![a] = NoEntry] /\ registered' = registered \cup {a}
                  /\ queue' = Prune(queue, entry')
        BY <2>1 DEF Register
      <3>2. PICK t2 \in Later(t1) : \E t3 \in Later(t2) :
              LET ent == OfferWaitingPlaces(event, registered, entry, queue, t1, t2)
              IN  /\ now' = t3
                  /\ IF Full(event, PlacesHeld(registered, ent, t3, {a}))
                     THEN entry' = ent /\ UNCHANGED registered
                     ELSE entry' = [ent EXCEPT ![a] = NoEntry] /\ registered' = registered \cup {a}
                  /\ queue' = Prune(queue, entry')
        BY <3>1
      <3> DEFINE ent == OfferWaitingPlaces(event, registered, entry, queue, t1, t2)
      <3>3. t1 \in Nat /\ t2 \in Nat /\ now' \in Nat
        BY <3>2, LaterType DEF TypeOK
      <3>4. ent \in [Attendees -> Entry]
        BY <2>t, <3>3, OfferType DEF TypeOK
      <3>5. entry' \in [Attendees -> Entry] /\ registered' \subseteq Attendees
        BY <3>2, <3>4 DEF TypeOK, Entry, NoEntry, Time
      <3>6. queue' \subseteq Attendees \X Attendees
        BY <3>2, PruneType DEF TypeOK
      <3>7. QED
        BY <2>1, <3>3, <3>5, <3>6 DEF Register, TypeOK
    <2>2. ASSUME NEW a \in Attendees, JoinWaitingList(a) PROVE TypeOK'
      <3>1. PICK t1 \in Later(now), t2 \in Nat :
              LET ent    == OfferWaitingPlaces(event, registered, entry, queue, t1, t2)
                  listed == {b \in Attendees : ent[b].status # "none"}
              IN  /\ now' \in Nat
                  /\ entry' \in {ent, [ent EXCEPT ![a] = [status |-> "waiting", expires |-> Null]]}
                  /\ queue' \in {Prune(queue, ent) \cup (listed \X {a}), Prune(queue, ent) \cup {}}
        BY <2>2, LaterType DEF JoinWaitingList, TypeOK
      <3> DEFINE ent == OfferWaitingPlaces(event, registered, entry, queue, t1, t2)
      <3>2. ent \in [Attendees -> Entry]
        BY <2>t, LaterType, OfferType DEF TypeOK
      <3>3. entry' \in [Attendees -> Entry]
        BY <3>1, <3>2 DEF Entry, Time
      <3>4. Prune(queue, ent) \subseteq Attendees \X Attendees
        BY PruneType DEF TypeOK
      <3>5. queue' \subseteq Attendees \X Attendees
        BY <3>1, <3>4
      <3>6. QED
        BY <2>2, <3>1, <3>3, <3>5 DEF JoinWaitingList, TypeOK
    <2>3. ASSUME NEW a \in Attendees, LeaveWaitingList(a) PROVE TypeOK'
      <3> DEFINE without == [entry EXCEPT ![a] = NoEntry]
      <3>1. without \in [Attendees -> Entry]
        BY DEF TypeOK, Entry, NoEntry, Time
      <3>2. \A t1 \in Later(now) : \A t2 :
              OfferWaitingPlaces(event, registered, without, queue, t1, t2) \in [Attendees -> Entry]
        BY <2>t, <3>1, LaterType, OfferType DEF TypeOK
      <3>3. PICK t1 \in Later(now), t2 \in Nat :
              /\ now' = t2
              /\ \/ entry' = OfferWaitingPlaces(event, registered, without, queue, t1, t2)
                 \/ entry' = without
        BY <2>3, LaterType DEF LeaveWaitingList, TypeOK
      <3>6. now' \in Nat /\ entry' \in [Attendees -> Entry]
        BY <3>1, <3>2, <3>3
      <3>4. queue' \subseteq Attendees \X Attendees
        BY <2>3, PruneType DEF LeaveWaitingList, TypeOK
      <3>5. QED
        BY <2>3, <3>4, <3>6 DEF LeaveWaitingList, TypeOK
    <2>4. ASSUME NEW a \in Attendees, WithdrawRegistration(a) PROVE TypeOK'
      <3>1. \A reg : \A t1 \in Later(now) : \A t2 :
              OfferWaitingPlaces(event, reg, entry, queue, t1, t2) \in [Attendees -> Entry]
        BY <2>t, LaterType, OfferType DEF TypeOK
      <3>2. now' \in Nat /\ entry' \in [Attendees -> Entry]
        BY <2>4, <3>1, LaterType DEF WithdrawRegistration, TypeOK
      <3>3. queue' \subseteq Attendees \X Attendees
        BY <2>4, PruneType DEF WithdrawRegistration, TypeOK
      <3>4. QED
        BY <2>4, <3>2, <3>3 DEF WithdrawRegistration, TypeOK
    <2>5. ASSUME NEW p \in Patches, SettingsCalled(p) PROVE TypeOK'
      BY <2>5 DEF SettingsCalled, TypeOK, Call
    <2>6. CASE SettingsSaved
      <3> DEFINE n == Patched(event, settingsCall.patch, settingsCall.instant)
      <3>1. CASE UNCHANGED <<now, event, announced, entry, queue>>
        BY <2>6, <3>1 DEF SettingsSaved, TypeOK, Call
      <3>2. CASE \E t1 \in Later(now) : \E t2 \in Later(t1) : \E t3 \in Later(t2) :
                    /\ now' = t3
                    /\ event' = n
                    /\ announced' = WindowState(n, t1)
                    /\ entry' = OfferWaitingPlaces(n, registered, entry, queue, t2, t3)
                    /\ queue' = Prune(queue, entry')
        <4>1. n \in Event
          BY <2>6, <2>t, PatchedType, PatchesAssumption DEF SettingsSaved, TypeOK, Call, Time
        <4>2. PICK t1 \in Nat, t2 \in Nat : 
                 /\ announced' = WindowState(n, t1)
                 /\ now' \in Nat
                 /\ entry' = OfferWaitingPlaces(n, registered, entry, queue, t2, now')
          BY <3>2, LaterType DEF TypeOK
        <4>3. entry' \in [Attendees -> Entry]
          BY <4>1, <4>2, OfferType DEF TypeOK
        <4>4. queue' \subseteq Attendees \X Attendees
          BY <3>2, PruneType DEF TypeOK
        <4>5. announced' \in {Null, "open", "closed"}
          BY <4>2 DEF WindowState
        <4>6. QED
          BY <2>6, <3>2, <4>1, <4>2, <4>3, <4>4, <4>5 DEF SettingsSaved, TypeOK, Event, Call
      <3>3. QED
        BY <2>6, <3>1, <3>2 DEF SettingsSaved
    <2>7. CASE OffersProcessed
      <3>1. \A t1 \in Later(now) : \A t2 :
              OfferWaitingPlaces(event, registered, entry, queue, t1, t2) \in [Attendees -> Entry]
        BY <2>t, LaterType, OfferType DEF TypeOK
      <3>2. now' \in Nat /\ entry' \in [Attendees -> Entry]
        BY <2>7, <3>1, LaterType DEF OffersProcessed, TypeOK
      <3>3. queue' \subseteq Attendees \X Attendees
        BY <2>7, PruneType DEF OffersProcessed, TypeOK
      <3>4. QED
        BY <2>7, <3>2, <3>3 DEF OffersProcessed, TypeOK
    <2>8. CASE WindowProcessed
      BY <2>8, LaterType DEF WindowProcessed, WindowState, TypeOK
    <2>9. CASE OffersSelected \/ WindowSelected \/ \E s \in {"offers", "windows"} : SweepSkipped(s)
      BY <2>9 DEF OffersSelected, WindowSelected, SweepSkipped, TypeOK
    <2>10. CASE EventConfirmed \/ EventCancelled \/ EventCompleted \/ Tick
      BY <2>10 DEF EventConfirmed, EventCancelled, EventCompleted, EventOnly, Tick, TypeOK
    <2>11. ASSUME NEW d \in Dates, EventChanged(d) PROVE TypeOK'
      BY <2>11, TimeAssumption DEF EventChanged, EventOnly, TypeOK
    <2>12. CASE UNCHANGED vars
      BY <2>12 DEF vars, TypeOK
    <2>13. QED
      BY <2>1, <2>2, <2>3, <2>4, <2>5, <2>6, <2>7, <2>8, <2>9, <2>10, <2>11, <2>12 DEF Next, Sweep
  <1>3. QED
    BY <1>1, <1>2, PTL DEF Spec

-----------------------------------------------------------------------------
(* Places.                                                                 *)

\* The number of registrations is a number, and one more attendee adds at most
\* one to it.
LEMMA RegisteredCount ==
  ASSUME TypeOK
  PROVE  /\ IsFiniteSet(registered)
         /\ Cardinality(registered) \in Nat
         /\ \A a \in registered : /\ Cardinality(registered \ {a}) \in Nat
                                  /\ Cardinality(registered \ {a}) <= Cardinality(registered)
         /\ \A a : a \notin registered => Cardinality(registered \cup {a}) = Cardinality(registered) + 1
  <1>1. IsFiniteSet(registered)
    BY AttendeesFinite, FS_Subset DEF TypeOK
  <1>2. Cardinality(registered) \in Nat
    BY <1>1, FS_CardinalityType
  <1>3. \A a \in registered : /\ Cardinality(registered \ {a}) \in Nat
                              /\ Cardinality(registered \ {a}) <= Cardinality(registered)
    <2>1. \A a \in registered : Cardinality(registered \ {a}) = Cardinality(registered) - 1
      BY <1>1, FS_RemoveElement
    <2>2. \A a \in registered : IsFiniteSet(registered \ {a})
      BY <1>1, FS_RemoveElement
    <2>3. \A a \in registered : Cardinality(registered \ {a}) \in Nat
      BY <2>2, FS_CardinalityType
    <2>4. QED
      BY <1>2, <2>1, <2>3
  <1>4. \A a : a \notin registered => Cardinality(registered \cup {a}) = Cardinality(registered) + 1
    BY <1>1, FS_AddElement
  <1>5. QED
    BY <1>1, <1>2, <1>3, <1>4

\* The running offers of others are a number too.
LEMMA OfferCount ==
  ASSUME NEW ent, NEW t, NEW except
  PROVE  Cardinality(RunningIn(ent, t) \ except) \in Nat
  <1>1. RunningIn(ent, t) \ except \subseteq Attendees
    BY DEF RunningIn
  <1>2. QED
    BY <1>1, AttendeesFinite, FS_Subset, FS_CardinalityType

\* Registrations never exceed the capacity: a registration is made only below
\* it, and the organiser cannot lower it below the registrations there are.
THEOREM CapacityHolds == Spec => []CapacityRespected
  <1>1. Init => CapacityRespected
    BY NullNoInteger DEF Init, CapacityRespected
  <1>2. TypeOK /\ CapacityRespected /\ [Next]_vars => CapacityRespected'
    <2> SUFFICES ASSUME TypeOK, CapacityRespected, [Next]_vars PROVE CapacityRespected'
      OBVIOUS
    <2>c. event.capacity # Null => event.capacity \in Nat
      BY DEF TypeOK, Capacity
    <2>1. ASSUME NEW a \in Attendees, Register(a) PROVE CapacityRespected'
      <3>1. event' = event /\ a \notin registered
        BY <2>1 DEF Register
      <3>2. CASE registered' = registered
        BY <3>1, <3>2 DEF CapacityRespected
      <3>3. CASE /\ registered' = registered \cup {a}
                 /\ \E ent, t : ~Full(event, PlacesHeld(registered, ent, t, {a}))
        <4>1. PICK ent, t : ~Full(event, PlacesHeld(registered, ent, t, {a}))
          BY <3>3
        <4> DEFINE held == Cardinality(RunningIn(ent, t) \ {a})
        <4>2. held \in Nat
          BY OfferCount
        <4>3. event.capacity # Null => ~(Cardinality(registered) + held >= event.capacity)
          BY <4>1 DEF Full, PlacesHeld
        <4>4. Cardinality(registered') = Cardinality(registered) + 1
          BY <3>1, <3>3, RegisteredCount
        <4> HIDE DEF held
        <4>5. event.capacity # Null => Cardinality(registered') <= event.capacity
          BY <2>c, <4>2, <4>3, <4>4, RegisteredCount
        <4>6. QED
          BY <3>1, <4>5 DEF CapacityRespected
      <3>4. QED
        BY <2>1, <3>2, <3>3 DEF Register
    <2>2. ASSUME NEW a \in Attendees, WithdrawRegistration(a) PROVE CapacityRespected'
      <3>1. event' = event /\ a \in registered /\ registered' = registered \ {a}
        BY <2>2 DEF WithdrawRegistration
      <3>2. Cardinality(registered') <= Cardinality(registered) /\ Cardinality(registered') \in Nat
        BY <3>1, RegisteredCount
      <3>3. event.capacity # Null => Cardinality(registered') <= event.capacity
        BY <2>c, <3>2, RegisteredCount DEF CapacityRespected
      <3>4. QED
        BY <3>1, <3>3 DEF CapacityRespected
    <2>3. CASE SettingsSaved
      <3> DEFINE p == settingsCall.patch
                 n == Patched(event, p, settingsCall.instant)
      <3>1. registered' = registered
        BY <2>3 DEF SettingsSaved
      <3>2. CASE event' = event
        BY <3>1, <3>2 DEF CapacityRespected
      <3>3. CASE event' = n /\ SettingsAccepted(event, n, registered, p, settingsCall.instant)
        <4>1. CASE p.closeNow
          <5>1. n.capacity = event.capacity
            BY <4>1 DEF Patched, TypeOK
          <5>2. QED
            BY <3>1, <3>3, <5>1 DEF CapacityRespected
        <4>2. CASE ~p.closeNow
          <5>1. n.capacity # Null => n.capacity >= Cardinality(registered)
            BY <3>3, <4>2 DEF SettingsAccepted, ValuesAccepted
          <5>2. n.capacity # Null => n.capacity \in Nat
            <6>1. event \in Event /\ p \in Patch /\ settingsCall.instant \in Time
              BY <2>3, PatchesAssumption DEF SettingsSaved, TypeOK, Event, Call, Time
            <6>2. n \in Event
              BY <6>1, PatchedType
            <6>3. QED
              BY <6>2 DEF Event, Capacity
          <5> HIDE DEF n
          <5>3. QED
            BY <3>1, <3>3, <5>1, <5>2, RegisteredCount DEF CapacityRespected
        <4>3. QED
          BY <4>1, <4>2
      <3>4. QED
        BY <2>3, <3>2, <3>3 DEF SettingsSaved
    <2>4. CASE UNCHANGED <<event, registered>>
      BY <2>4 DEF CapacityRespected
    <2>5. CASE EventConfirmed \/ EventCancelled \/ EventCompleted \/ \E d \in Dates : EventChanged(d)
      <3>1. event'.capacity = event.capacity /\ registered' = registered
        BY <2>5 DEF EventConfirmed, EventCancelled, EventCompleted, EventChanged, EventOnly, TypeOK
      <3>2. QED
        BY <3>1 DEF CapacityRespected
    <2>6. QED
      BY <2>1, <2>2, <2>3, <2>4, <2>5
      DEF Next, Sweep, JoinWaitingList, LeaveWaitingList, SettingsCalled, OffersSelected,
          OffersProcessed, WindowSelected, WindowProcessed, SweepSkipped, Tick, vars
  <1>3. QED
    BY <1>1, <1>2, TypeCorrect, PTL DEF Spec

\* Nobody holds a place and waits for one: the list is joined only without a
\* registration, registering ends the entry, and no offer is made to someone
\* who was not waiting.
THEOREM RegisteredOffTheList == Spec => []RegisteredNotListed
  <1>1. Init => RegisteredNotListed
    BY DEF Init, RegisteredNotListed
  <1>2. TypeOK /\ RegisteredNotListed /\ [Next]_vars => RegisteredNotListed'
    <2> SUFFICES ASSUME TypeOK, RegisteredNotListed, [Next]_vars,
                        NEW b \in registered'
                 PROVE  entry'[b].status = "none"
      BY DEF RegisteredNotListed
    <2>a. registered \subseteq Attendees /\ entry \in [Attendees -> Entry]
      BY DEF TypeOK
    <2>b. \A e, reg, q, t1, t2 : \A x \in Attendees :
            entry[x].status = "none" =>
              OfferWaitingPlaces(e, reg, entry, q, t1, t2)[x].status = "none"
      BY <2>a, OfferListsNobody
    <2>1. ASSUME NEW a \in Attendees, Register(a) PROVE entry'[b].status = "none"
      <3>1. PICK t1, t2 :
              LET ent == OfferWaitingPlaces(event, registered, entry, queue, t1, t2)
              IN  \/ entry' = ent /\ registered' = registered
                  \/ entry' = [ent EXCEPT ![a] = NoEntry] /\ registered' = registered \cup {a}
        BY <2>1 DEF Register
      <3> DEFINE ent == OfferWaitingPlaces(event, registered, entry, queue, t1, t2)
      <3>2. b \in registered => ent[b].status = "none"
        BY <2>a, <2>b DEF RegisteredNotListed
      <3>3. DOMAIN ent = Attendees
        BY DEF OfferWaitingPlaces, OfferFree, Lapse
      <3>4. QED
        BY <2>a, <3>1, <3>2, <3>3 DEF NoEntry
    <2>2. ASSUME NEW a \in Attendees, JoinWaitingList(a) PROVE entry'[b].status = "none"
      <3>1. PICK t1, t2 :
              LET ent == OfferWaitingPlaces(event, registered, entry, queue, t1, t2)
              IN  entry' \in {ent, [ent EXCEPT ![a] = [status |-> "waiting", expires |-> Null]]}
        BY <2>2 DEF JoinWaitingList
      <3> DEFINE ent == OfferWaitingPlaces(event, registered, entry, queue, t1, t2)
      <3>2. b \in registered /\ b # a
        BY <2>2 DEF JoinWaitingList
      <3>3. ent[b].status = "none"
        BY <2>a, <2>b, <3>2 DEF RegisteredNotListed
      <3>4. DOMAIN ent = Attendees /\ b \in Attendees
        BY <2>a, <3>2 DEF OfferWaitingPlaces, OfferFree, Lapse
      <3> HIDE DEF ent
      <3>5. [ent EXCEPT ![a] = [status |-> "waiting", expires |-> Null]][b].status = "none"
        BY <3>2, <3>3, <3>4
      <3>6. QED
        BY <3>1, <3>3, <3>5 DEF ent
    <2>3. ASSUME NEW a \in Attendees, LeaveWaitingList(a) PROVE entry'[b].status = "none"
      <3> DEFINE without == [entry EXCEPT ![a] = NoEntry]
      <3>1. b \in registered /\ without \in [Attendees -> Entry] /\ without[b].status = "none"
        BY <2>3, <2>a DEF LeaveWaitingList, RegisteredNotListed, NoEntry, Entry, Time
      <3>2. PICK t1, t2 :
              \/ entry' = OfferWaitingPlaces(event, registered, without, queue, t1, t2)
              \/ entry' = without
        BY <2>3 DEF LeaveWaitingList
      <3>3. b \in Attendees
        BY <2>a, <3>1
      <3> HIDE DEF without
      <3>4. OfferWaitingPlaces(event, registered, without, queue, t1, t2)[b].status = "none"
        BY <3>1, <3>3, OfferListsNobody
      <3>5. QED
        BY <3>1, <3>2, <3>4
    <2>4. ASSUME NEW a \in Attendees, WithdrawRegistration(a) PROVE entry'[b].status = "none"
      <3>1. b \in registered
        BY <2>4 DEF WithdrawRegistration
      <3>2. PICK t1, t2 : entry' = OfferWaitingPlaces(event, registered', entry, queue, t1, t2)
        BY <2>4 DEF WithdrawRegistration
      <3>3. QED
        BY <2>a, <2>b, <3>1, <3>2 DEF RegisteredNotListed
    <2>5. CASE SettingsSaved
      <3>1. b \in registered
        BY <2>5 DEF SettingsSaved
      <3>2. \E n, t1, t2 : entry' \in {entry, OfferWaitingPlaces(n, registered, entry, queue, t1, t2)}
        BY <2>5 DEF SettingsSaved
      <3>3. QED
        BY <2>a, <2>b, <3>1, <3>2 DEF RegisteredNotListed
    <2>6. CASE OffersProcessed
      <3>1. b \in registered
        BY <2>6 DEF OffersProcessed
      <3>2. PICK t1, t2 : entry' = OfferWaitingPlaces(event, registered, entry, queue, t1, t2)
        BY <2>6 DEF OffersProcessed
      <3>3. QED
        BY <2>a, <2>b, <3>1, <3>2 DEF RegisteredNotListed
    <2>7. CASE UNCHANGED <<registered, entry>>
      BY <2>7 DEF RegisteredNotListed
    <2>8. QED
      BY <2>1, <2>2, <2>3, <2>4, <2>5, <2>6, <2>7
      DEF Next, Sweep, SettingsCalled, OffersSelected, WindowSelected, WindowProcessed,
          SweepSkipped, EventConfirmed, EventCancelled, EventCompleted, EventChanged,
          EventOnly, Tick, vars
  <1>3. QED
    BY <1>1, <1>2, TypeCorrect, PTL DEF Spec

-----------------------------------------------------------------------------
(* The queue.                                                              *)

\* Who is on the list, waiting or offered.
ListedIn(ent) == {a \in Attendees : ent[a].status # "none"}

\* q orders the attendees of S one after the other.
Orders(q, S) ==
    /\ \A a \in S : <<a, a>> \notin q
    /\ \A a, b \in S : a # b => <<a, b>> \in q \/ <<b, a>> \in q
    /\ \A a, b, c \in S : <<a, b>> \in q /\ <<b, c>> \in q => <<a, c>> \in q

\* Those ahead of a among S.
Ahead(q, S, a) == {b \in S : <<b, a>> \in q}

\* An order on S orders every part of S.
LEMMA OrdersLess == \A q, S, T : Orders(q, S) /\ T \subseteq S => Orders(q, T)
  BY DEF Orders

\* Whoever is ahead has strictly fewer ahead.
LEMMA AheadLess ==
  ASSUME NEW q, NEW S, Orders(q, S), NEW a \in S, NEW b \in S, <<b, a>> \in q
  PROVE  Ahead(q, S, b) \subseteq Ahead(q, S, a) /\ Ahead(q, S, b) # Ahead(q, S, a)
  BY DEF Orders, Ahead

\* A set of finite sets has a minimal one.
LEMMA MinimalSet ==
  ASSUME NEW U, IsFiniteSet(U), NEW T \in SUBSET (SUBSET U), T # {}
  PROVE  \E x \in T : \A y \in T : ~(y \subseteq x /\ y # x)
  <1>1. T \subseteq FiniteSubsetsOf(U)
    BY FS_Subset DEF FiniteSubsetsOf
  <1>2. IsWellFoundedOn(StrictSubsetOrdering(U), FiniteSubsetsOf(U))
    BY FS_StrictSubsetOrderingWellFounded
  <1>3. PICK x \in T : \A y \in T : ~(<<y, x>> \in StrictSubsetOrdering(U))
    BY <1>1, <1>2, WFMin
  <1>4. QED
    BY <1>3 DEF StrictSubsetOrdering

\* The first of T in the queue: all of S ahead of it are outside T.
LEMMA FirstOf ==
  ASSUME NEW q, NEW S, IsFiniteSet(S), Orders(q, S), NEW T \in SUBSET S, T # {}
  PROVE  \E a \in T : Ahead(q, S, a) \cap T = {}
  <1> DEFINE sets == {Ahead(q, S, a) : a \in T}
  <1>1. sets \in SUBSET (SUBSET S) /\ sets # {}
    BY DEF Ahead
  <1>2. PICK x \in sets : \A y \in sets : ~(y \subseteq x /\ y # x)
    <2> HIDE DEF sets
    <2>1. QED
      BY <1>1, MinimalSet
  <1>3. PICK a \in T : x = Ahead(q, S, a)
    BY <1>2
  <1>4. ASSUME NEW b \in Ahead(q, S, a) \cap T PROVE FALSE
    <2>1. b \in S /\ b \in T /\ <<b, a>> \in q
      BY <1>4 DEF Ahead
    <2>2. Ahead(q, S, b) \subseteq x /\ Ahead(q, S, b) # x
      BY <1>3, <2>1, AheadLess
    <2>3. QED
      BY <1>2, <2>1, <2>2
  <1>5. QED
    BY <1>4

\* The last of T in the queue: all the others of T are ahead of it.
LEMMA LastOf ==
  ASSUME NEW q, NEW S, IsFiniteSet(S), Orders(q, S), NEW T \in SUBSET S, T # {}
  PROVE  \E a \in T : T \subseteq Ahead(q, S, a) \cup {a}
  <1> DEFINE rest(a) == S \ Ahead(q, S, a)
             sets == {rest(a) : a \in T}
  <1>1. sets \in SUBSET (SUBSET S) /\ sets # {}
    OBVIOUS
  <1>2. PICK x \in sets : \A y \in sets : ~(y \subseteq x /\ y # x)
    <2> HIDE DEF sets
    <2>1. QED
      BY <1>1, MinimalSet
  <1>3. PICK a \in T : x = rest(a)
    BY <1>2
  <1>4. ASSUME NEW b \in T, b # a, <<b, a>> \notin q PROVE FALSE
    <2>1. <<a, b>> \in q
      BY <1>4 DEF Orders
    <2>2. Ahead(q, S, a) \subseteq Ahead(q, S, b) /\ Ahead(q, S, a) # Ahead(q, S, b)
      BY <1>4, <2>1, AheadLess
    <2>3. Ahead(q, S, b) \subseteq S /\ Ahead(q, S, a) \subseteq S
      BY DEF Ahead
    <2>4. rest(b) \subseteq x /\ rest(b) # x
      BY <1>3, <2>2, <2>3
    <2>5. QED
      BY <1>2, <1>4, <2>4
  <1>5. QED
    BY <1>4 DEF Ahead

-----------------------------------------------------------------------------
(* Offers.                                                                 *)

\* Sets of attendees can be counted, and a part counts no more than the whole.
LEMMA Counts ==
  ASSUME NEW S, S \subseteq Attendees
  PROVE  /\ IsFiniteSet(S) /\ Cardinality(S) \in Nat
         /\ \A T \in SUBSET S : Cardinality(T) <= Cardinality(S) /\ Cardinality(T) \in Nat
  BY AttendeesFinite, FS_Subset, FS_CardinalityType

\* When an offer made at the instant runs out.
Expiry(e, instant) == EarliestOf(instant + e.hours, e.closes, e.date)

\* Whether the loop of offer_waiting_places comes to a with a place left.
Gets(e, reg, ent, q, instant, t, a) ==
    ~Full(e, PlacesHeld(reg, ent, t, {})
               + (IF Expiry(e, instant) > t THEN Cardinality(Ahead(q, WaitingIn(ent), a)) ELSE 0))

\* The loop changes exactly the entries of those it comes to.
LEMMA Loop ==
  ASSUME NEW e, NEW reg, NEW ent, NEW q, NEW instant, NEW t, NEW a \in Attendees
  PROVE  OfferFree(e, reg, ent, q, instant, t)[a] =
           IF ent[a].status = "waiting" /\ Gets(e, reg, ent, q, instant, t, a)
           THEN [status |-> "offered", expires |-> Expiry(e, instant)] ELSE ent[a]
  BY DEF OfferFree, Gets, Expiry, Ahead

\* Whoever comes first is offered a place if anybody behind is.
LEMMA FirstServed ==
  ASSUME NEW e \in Event, NEW reg \in SUBSET Attendees, NEW ent, NEW q, NEW instant, NEW t,
         Orders(q, WaitingIn(ent)), NEW a \in WaitingIn(ent), NEW b \in WaitingIn(ent),
         <<b, a>> \in q, Gets(e, reg, ent, q, instant, t, a)
  PROVE  Gets(e, reg, ent, q, instant, t, b)
  <1> DEFINE W == WaitingIn(ent)
             na == Cardinality(Ahead(q, W, a))
             nb == Cardinality(Ahead(q, W, b))
             held == PlacesHeld(reg, ent, t, {})
  <1>1. Ahead(q, W, a) \subseteq Attendees /\ Ahead(q, W, b) \subseteq Ahead(q, W, a)
    BY AheadLess DEF Ahead, WaitingIn
  <1>2. na \in Nat /\ nb \in Nat /\ nb <= na
    BY <1>1, Counts
  <1>3. held \in Nat
    <2>1. RunningIn(ent, t) \ {} \subseteq Attendees /\ reg \subseteq Attendees
      BY DEF RunningIn
    <2>2. QED
      BY <2>1, Counts DEF PlacesHeld
  <1>4. e.capacity # Null => e.capacity \in Nat
    BY DEF Event, Capacity
  <1> HIDE DEF na, nb, held
  <1>5. ~Full(e, held + na) => ~Full(e, held + nb)
    BY <1>2, <1>3, <1>4 DEF Full
  <1>6. QED
    BY <1>5 DEF Gets, na, nb, held

\* The loop hands out no more than the places that are free at t: after it, at
\* T, no more than the capacity is held, or nothing but what was held before.
LEMMA LoopBound ==
  ASSUME NEW e \in Event, NEW reg \in SUBSET Attendees, NEW ent \in [Attendees -> Entry], NEW q,
         NEW instant \in Nat, NEW t \in Nat, NEW T \in Nat, t <= T, Open(e, instant),
         Orders(q, WaitingIn(ent)), \A a \in Attendees : ent[a].status = "offered" => ent[a].expires \in Nat,
         e.capacity # Null,
         NEW new, new = OfferFree(e, reg, ent, q, instant, t)
  PROVE  \/ PlacesHeld(reg, new, T, {}) <= e.capacity
         \/ RunningIn(new, T) \subseteq RunningIn(ent, T)
  <1> DEFINE W == WaitingIn(ent)
             O == {a \in W : Gets(e, reg, ent, q, instant, t, a)}
             x == Expiry(e, instant)
             run == RunningIn(ent, t)
  <1>1. x \in Nat /\ e.capacity \in Nat
    <2>1. e.closes \in Nat /\ e.date \in Nat /\ instant + e.hours \in Nat
      BY NullNoInteger DEF Open, Findable, Event, Time
    <2>2. QED
      BY <2>1, EarliestType DEF Expiry, Event, Capacity
  <1>2. \A a \in Attendees : new[a] = IF a \in O THEN [status |-> "offered", expires |-> x] ELSE ent[a]
    BY Loop DEF WaitingIn
  <1>3. O \subseteq Attendees /\ W \subseteq Attendees /\ run \subseteq Attendees
        /\ RunningIn(new, T) \subseteq Attendees
    BY DEF WaitingIn, RunningIn
  <1>4. RunningIn(new, T) \subseteq RunningIn(ent, T) \cup O
    BY <1>2 DEF RunningIn
  <1>5. RunningIn(ent, T) \subseteq run
    BY DEF RunningIn
  <1>6. CASE O = {}
    BY <1>4, <1>6
  <1>7. CASE x <= t
    <2>1. \A a \in O : a \notin RunningIn(new, T)
      BY <1>1, <1>2, <1>3, <1>7 DEF RunningIn
    <2>2. QED
      BY <1>4, <2>1
  <1>8. CASE O # {} /\ x > t
    <2>1. IsFiniteSet(W)
      BY <1>3, Counts
    <2>2. PICK a \in O : O \subseteq Ahead(q, W, a) \cup {a}
      BY <1>8, <2>1, LastOf
    <2> DEFINE n == Cardinality(Ahead(q, W, a))
    <2>3. Ahead(q, W, a) \subseteq Attendees /\ a \in Attendees
      BY <1>3 DEF Ahead
    <2>4. n \in Nat /\ Cardinality(O) \in Nat /\ Cardinality(O) <= n + 1
      <3>1. IsFiniteSet(Ahead(q, W, a)) /\ n \in Nat
        BY <2>3, Counts
      <3>2. IsFiniteSet(Ahead(q, W, a) \cup {a}) /\ Cardinality(Ahead(q, W, a) \cup {a}) <= n + 1
        <4>1. IsFiniteSet(Ahead(q, W, a) \cup {a})
              /\ (Cardinality(Ahead(q, W, a) \cup {a}) = n \/ Cardinality(Ahead(q, W, a) \cup {a}) = n + 1)
          BY <3>1, FS_AddElement
        <4> HIDE DEF n
        <4>2. QED
          BY <3>1, <4>1
      <3>3. Cardinality(O) <= Cardinality(Ahead(q, W, a) \cup {a}) /\ Cardinality(O) \in Nat
            /\ Cardinality(Ahead(q, W, a) \cup {a}) \in Nat
        BY <1>3, <2>2, <3>2, Counts, FS_Subset, FS_CardinalityType
      <3> HIDE DEF n, O
      <3>4. QED
        BY <3>1, <3>2, <3>3
    <2>5. ~Full(e, PlacesHeld(reg, ent, t, {}) + n)
      BY <1>8, <2>2 DEF Gets
    <2>6. Cardinality(reg) \in Nat /\ Cardinality(run) \in Nat
      BY <1>3, Counts
    <2>7. run \ {} = run /\ RunningIn(new, T) \ {} = RunningIn(new, T)
      OBVIOUS
    <2>8. Cardinality(reg) + Cardinality(run) + n < e.capacity
      BY <1>1, <2>4, <2>5, <2>6, <2>7 DEF Full, PlacesHeld
    <2>9. Cardinality(RunningIn(new, T)) <= Cardinality(run) + Cardinality(O)
          /\ Cardinality(RunningIn(new, T)) \in Nat
      <3>1. RunningIn(new, T) \subseteq run \cup O /\ run \cup O \subseteq Attendees
        BY <1>3, <1>4, <1>5
      <3>2. IsFiniteSet(run) /\ IsFiniteSet(O) /\ run \cap O \subseteq Attendees
        BY <1>3, Counts
      <3>3. Cardinality(run \cup O) = Cardinality(run) + Cardinality(O) - Cardinality(run \cap O)
        BY <3>2, FS_Union
      <3>4. Cardinality(run \cap O) \in Nat /\ Cardinality(run \cup O) \in Nat
        BY <3>1, <3>2, Counts
      <3>5. Cardinality(RunningIn(new, T)) <= Cardinality(run \cup O)
            /\ Cardinality(RunningIn(new, T)) \in Nat
        BY <3>1, Counts
      <3> HIDE DEF run, O
      <3>6. QED
        BY <2>4, <2>6, <3>3, <3>4, <3>5
    <2> HIDE DEF n, O, run, W
    <2>10. Cardinality(reg) + Cardinality(RunningIn(new, T)) <= e.capacity
      BY <1>1, <2>4, <2>6, <2>8, <2>9
    <2>11. QED
      BY <2>7, <2>10 DEF PlacesHeld
  <1>9. QED
    BY <1>1, <1>6, <1>7, <1>8

\* If somebody is passed over, no place is free once the loop is done, and none
\* was free for anybody who is not in the queue.
LEMMA LoopFills ==
  ASSUME NEW e \in Event, NEW reg \in SUBSET Attendees, NEW ent \in [Attendees -> Entry], NEW q,
         NEW instant \in Nat, NEW t \in Nat, Expiry(e, instant) > t,
         Orders(q, WaitingIn(ent)),
         NEW b \in WaitingIn(ent), ~Gets(e, reg, ent, q, instant, t, b),
         NEW new, new = OfferFree(e, reg, ent, q, instant, t)
  PROVE  Full(e, PlacesHeld(reg, new, t, {}))
  <1> DEFINE W == WaitingIn(ent)
             O == {a \in W : Gets(e, reg, ent, q, instant, t, a)}
             x == Expiry(e, instant)
             run == RunningIn(ent, t)
  <1>1. \A a \in Attendees : new[a] = IF a \in O THEN [status |-> "offered", expires |-> x] ELSE ent[a]
    BY Loop DEF WaitingIn
  <1>2. O \subseteq Attendees /\ W \subseteq Attendees /\ run \subseteq Attendees
        /\ RunningIn(new, t) \subseteq Attendees
    BY DEF WaitingIn, RunningIn
  <1>3. RunningIn(new, t) = run \cup O /\ run \cap O = {}
    BY <1>1 DEF RunningIn, WaitingIn
  <1>4. IsFiniteSet(W) /\ W \ O \in SUBSET W /\ W \ O # {}
    BY <1>2, Counts
  <1> HIDE DEF O
  <1>5. PICK a \in W \ O : Ahead(q, W, a) \cap (W \ O) = {}
    <2> DEFINE P == W \ O
    <2>1. Orders(q, W) /\ IsFiniteSet(W) /\ P \in SUBSET W /\ P # {}
      BY <1>4
    <2> HIDE DEF W, P
    <2>2. \E a \in P : Ahead(q, W, a) \cap P = {}
      BY <2>1, FirstOf
    <2>3. QED
      BY <2>2 DEF P
  <1> DEFINE n == Cardinality(Ahead(q, W, a))
  <1>6. Ahead(q, W, a) \subseteq O /\ Ahead(q, W, a) \subseteq Attendees
    BY <1>2, <1>5 DEF Ahead
  <1>7. n \in Nat /\ Cardinality(O) \in Nat /\ n <= Cardinality(O)
    BY <1>2, <1>6, Counts
  <1>8. Full(e, PlacesHeld(reg, ent, t, {}) + n)
    BY <1>5 DEF Gets, O
  <1>9. Cardinality(RunningIn(new, t)) = Cardinality(run) + Cardinality(O)
    <2>1. IsFiniteSet(run) /\ IsFiniteSet(O) /\ Cardinality(run) \in Nat
      BY <1>2, Counts
    <2>2. Cardinality(run \cup O) = Cardinality(run) + Cardinality(O) - Cardinality(run \cap O)
      BY <2>1, FS_Union
    <2>3. Cardinality(run \cap O) = 0
      BY <1>3, FS_EmptySet
    <2> HIDE DEF run
    <2>4. QED
      BY <1>3, <1>7, <2>1, <2>2, <2>3
  <1>10. Cardinality(reg) \in Nat /\ Cardinality(run) \in Nat
    BY <1>2, Counts
  <1>11. run \ {} = run /\ RunningIn(new, t) \ {} = RunningIn(new, t)
    OBVIOUS
  <1>12. e.capacity # Null /\ e.capacity \in Nat
    BY <1>8 DEF Full, Event, Capacity
  <1>13. Cardinality(reg) + Cardinality(run) + n >= e.capacity
    BY <1>8, <1>11 DEF Full, PlacesHeld
  <1> HIDE DEF n, run, W
  <1>14. Cardinality(reg) + Cardinality(RunningIn(new, t)) >= e.capacity
    BY <1>7, <1>9, <1>10, <1>12, <1>13
  <1>15. QED
    BY <1>11, <1>12, <1>14 DEF Full, PlacesHeld

-----------------------------------------------------------------------------
(* What a step does to the list. Every call goes through                   *)
(* offer_waiting_places, over the event as the call leaves it.             *)

\* Every offer has the time at which it runs out.
Timed(ent) == \A a \in Attendees : ent[a].status = "offered" => ent[a].expires \in Nat

\* ent is what offer_waiting_places, called in this step with the registrations
\* reg, leaves of the entries base.
Offers(reg, base, ent) ==
    \E i, t \in Nat : /\ now <= i /\ i <= t /\ t <= now'
                      /\ ent = OfferWaitingPlaces(event', reg, base, queue, i, t)

\* The step leaves the list and the registrations alone; or offers places after
\* what it did to the event; or registers a; or puts a at the end of the list; or
\* takes a off it.
Stays == UNCHANGED <<entry, queue, registered>>

Passed ==
    /\ registered' \subseteq registered /\ Offers(registered', entry, entry')
    /\ queue' = Prune(queue, entry')

Taken(a, ent) ==
    /\ Open(event, now) /\ event' = event
    /\ Offers(registered, entry, ent)
    /\ a \notin registered /\ registered' = registered \cup {a}
    /\ ~Full(event, PlacesHeld(registered, ent, now', {a}))
    /\ entry' = [ent EXCEPT ![a] = NoEntry]
    /\ queue' = Prune(queue, entry')

Joined(a, ent) ==
    /\ registered' = registered /\ Offers(registered, entry, ent)
    /\ ent[a].status = "none"
    /\ entry' = [ent EXCEPT ![a] = [status |-> "waiting", expires |-> Null]]
    /\ queue' = Prune(queue, ent) \cup (ListedIn(ent) \X {a})

Without(a) == [entry EXCEPT ![a] = NoEntry]

Left(a) ==
    /\ LeaveWaitingList(a) /\ registered' = registered
    /\ entry' = Without(a) \/ Offers(registered, Without(a), entry')
    /\ queue' = Prune(queue, entry')

\* A later read of the clock is not earlier.
LEMMA LaterIs == \A t \in Nat : \A u \in Later(t) : u \in Nat /\ t <= u
  BY TimeAssumption DEF Later

\* These are all the steps there are, and the clock never goes back.
LEMMA Moves ==
  ASSUME TypeOK, TypeOK', [Next]_vars
  PROVE  /\ now \in Nat /\ now' \in Nat /\ now <= now'
         /\ \/ Stays \/ Passed
            \/ \E a \in Attendees : Left(a) \/ \E ent : Taken(a, ent) \/ Joined(a, ent)
  <1>0. now \in Nat /\ now' \in Nat
    BY DEF TypeOK
  <1>1. ASSUME NEW a \in Attendees, Register(a)
        PROVE  now <= now' /\ (Passed \/ \E ent : Taken(a, ent))
    <2>1. PICK t1 \in Later(now), t2 \in Nat :
         /\ t2 \in Later(t1)
         /\ LET ent == OfferWaitingPlaces(event, registered, entry, queue, t1, t2)
            IN  /\ now' \in Later(t2)
                /\ IF Full(event, PlacesHeld(registered, ent, now', {a}))
                   THEN entry' = ent /\ UNCHANGED registered
                   ELSE entry' = [ent EXCEPT ![a] = NoEntry] /\ registered' = registered \cup {a}
                /\ queue' = Prune(queue, entry')
      BY <1>0, <1>1, LaterIs DEF Register
    <2> DEFINE ent == OfferWaitingPlaces(event, registered, entry, queue, t1, t2)
    <2>2. t1 \in Nat /\ t2 \in Nat /\ now <= t1 /\ t1 <= t2 /\ t2 <= now'
      BY <1>0, <2>1, LaterIs
    <2>3. Open(event, now) /\ event' = event /\ a \notin registered
      BY <1>1 DEF Register
    <2>4. Offers(registered, entry, ent)
      BY <2>2, <2>3 DEF Offers
    <2>5. now <= now'
      BY <1>0, <2>2
    <2> HIDE DEF ent
    <2>6. QED
      BY <2>1, <2>3, <2>4, <2>5 DEF Passed, Taken, ent
  <1>2. ASSUME NEW a \in Attendees, JoinWaitingList(a)
        PROVE  now <= now' /\ (Passed \/ \E ent : Joined(a, ent))
    <2>1. PICK t1 \in Later(now), t2 \in Nat :
         /\ t2 \in Later(t1)
         /\ LET ent    == OfferWaitingPlaces(event, registered, entry, queue, t1, t2)
                joins  == ent[a].status = "none" /\ Full(event, PlacesHeld(registered, ent, now', {}))
            IN  /\ now' \in Later(t2)
                /\ entry' = IF joins THEN [ent EXCEPT ![a] = [status |-> "waiting", expires |-> Null]]
                            ELSE ent
                /\ queue' = Prune(queue, ent) \cup (IF joins THEN ListedIn(ent) \X {a} ELSE {})
      BY <1>0, <1>2, LaterIs DEF JoinWaitingList, ListedIn
    <2> DEFINE ent == OfferWaitingPlaces(event, registered, entry, queue, t1, t2)
    <2>2. t1 \in Nat /\ t2 \in Nat /\ now <= t1 /\ t1 <= t2 /\ t2 <= now'
      BY <1>0, <2>1, LaterIs
    <2>3. event' = event /\ registered' = registered
      BY <1>2 DEF JoinWaitingList
    <2>4. Offers(registered, entry, ent)
      BY <2>2, <2>3 DEF Offers
    <2>5. now <= now'
      BY <1>0, <2>2
    <2> HIDE DEF ent
    <2>6. \/ entry' = ent /\ queue' = Prune(queue, ent) \cup {}
          \/ /\ ent[a].status = "none"
             /\ entry' = [ent EXCEPT ![a] = [status |-> "waiting", expires |-> Null]]
             /\ queue' = Prune(queue, ent) \cup (ListedIn(ent) \X {a})
      BY <2>1 DEF ent
    <2>7. QED
      BY <2>3, <2>4, <2>5, <2>6 DEF Passed, Joined
  <1>3. ASSUME NEW a \in Attendees, LeaveWaitingList(a)
        PROVE  now <= now' /\ Left(a)
    <2>1. PICK t1 \in Later(now) :
            /\ now' \in Later(t1)
            /\ entry' = IF entry[a].status = "offered"
                        THEN OfferWaitingPlaces(event, registered, Without(a), queue, t1, now')
                        ELSE Without(a)
            /\ queue' = Prune(queue, entry')
      BY <1>3 DEF LeaveWaitingList, Without
    <2>2. t1 \in Nat /\ now <= t1 /\ t1 <= now'
      BY <1>0, <2>1, LaterIs
    <2>3. event' = event /\ registered' = registered
      BY <1>3 DEF LeaveWaitingList
    <2>4. QED
      BY <1>0, <1>3, <2>1, <2>2, <2>3 DEF Left, Offers
  <1>4. ASSUME NEW a \in Attendees, WithdrawRegistration(a)
        PROVE  now <= now' /\ Passed
    <2>1. PICK t1 \in Later(now) :
            /\ now' \in Later(t1)
            /\ entry' = OfferWaitingPlaces(event, registered', entry, queue, t1, now')
            /\ queue' = Prune(queue, entry')
      BY <1>4 DEF WithdrawRegistration
    <2>2. t1 \in Nat /\ now <= t1 /\ t1 <= now'
      BY <1>0, <2>1, LaterIs
    <2>3. event' = event /\ registered' \subseteq registered
      BY <1>4 DEF WithdrawRegistration
    <2>4. QED
      BY <1>0, <2>1, <2>2, <2>3 DEF Passed, Offers
  <1>5. CASE OffersProcessed
    <2>1. PICK t1 \in Later(now) :
            /\ now' \in Later(t1)
            /\ entry' = OfferWaitingPlaces(event, registered, entry, queue, t1, now')
            /\ queue' = Prune(queue, entry')
      BY <1>5 DEF OffersProcessed
    <2>2. t1 \in Nat /\ now <= t1 /\ t1 <= now'
      BY <1>0, <2>1, LaterIs
    <2>3. event' = event /\ registered' = registered
      BY <1>5 DEF OffersProcessed
    <2>4. now <= now' /\ Passed
      BY <1>0, <2>1, <2>2, <2>3 DEF Passed, Offers
    <2>5. QED
      BY <1>0, <2>4
  <1>6. CASE SettingsSaved
    <2>1. CASE UNCHANGED <<now, event, announced, entry, queue>>
      BY <1>0, <1>6, <2>1 DEF SettingsSaved, Stays
    <2>2. CASE \E t1 \in Later(now) : \E t2 \in Later(t1) : \E t3 \in Later(t2) :
                 /\ now' = t3
                 /\ entry' = OfferWaitingPlaces(event', registered, entry, queue, t2, t3)
                 /\ queue' = Prune(queue, entry')
      <3>1. PICK t1 \in Later(now), t2 \in Nat :
               /\ t2 \in Later(t1)
               /\ now' \in Later(t2)
               /\ entry' = OfferWaitingPlaces(event', registered, entry, queue, t2, now')
               /\ queue' = Prune(queue, entry')
        BY <1>0, <2>2, LaterIs
      <3>2. t1 \in Nat /\ t2 \in Nat /\ now <= t1 /\ t1 <= t2 /\ t2 <= now'
        BY <1>0, <3>1, LaterIs
      <3>3. registered' = registered
        BY <1>6 DEF SettingsSaved
      <3>4. now <= now' /\ now <= t2
        BY <1>0, <3>2
      <3>5. Passed
        BY <1>0, <3>1, <3>2, <3>3, <3>4 DEF Passed, Offers
      <3>6. QED
        BY <1>0, <3>4, <3>5
    <2>3. QED
      BY <1>6, <2>1, <2>2 DEF SettingsSaved
  <1>7. CASE Stays /\ now' = now
    BY <1>0, <1>7
  <1>8. CASE WindowProcessed
    <2>1. now' \in Later(now) /\ Stays
      BY <1>8 DEF WindowProcessed, Stays
    <2>2. QED
      BY <1>0, <2>1, LaterIs
  <1>9. CASE Tick
    BY <1>0, <1>9 DEF Tick, Stays
  <1>10. QED
    BY <1>0, <1>1, <1>2, <1>3, <1>4, <1>5, <1>6, <1>7, <1>8, <1>9
    DEF Next, Sweep, Stays, SettingsCalled, OffersSelected, WindowSelected, SweepSkipped,
        EventConfirmed, EventCancelled, EventCompleted, EventChanged, EventOnly, vars

\* x is what offer_waiting_places may make of a's entry.
Outcome(e, reg, ent, q, i, t, a, x) ==
    \/ x = NoEntry /\ OfferEnded(e, ent[a], i)
    \/ x = ent[a] /\ ~OfferEnded(e, ent[a], i)
    \/ /\ ent[a].status = "waiting" /\ Open(e, i)
       /\ x = [status |-> "offered", expires |-> Expiry(e, i)] /\ Expiry(e, i) \in Nat
       /\ Gets(e, reg, Lapse(e, ent, i), q, i, t, a)

\* offer_waiting_places makes nothing else of an entry.
LEMMA OfferCases ==
  ASSUME NEW e \in Event, NEW reg, NEW ent \in [Attendees -> Entry], NEW q,
         NEW i \in Nat, NEW t \in Nat, NEW a \in Attendees
  PROVE  Outcome(e, reg, ent, q, i, t, a, OfferWaitingPlaces(e, reg, ent, q, i, t)[a])
  <1> DEFINE new == OfferWaitingPlaces(e, reg, ent, q, i, t)
             left == Lapse(e, ent, i)
  <1>1. left[a] = IF OfferEnded(e, ent[a], i) THEN NoEntry ELSE ent[a]
    BY DEF Lapse
  <1>2. CASE ~Open(e, i)
    BY <1>1, <1>2 DEF OfferWaitingPlaces, Outcome
  <1>3. CASE Open(e, i)
    <2>1. e.closes \in Nat /\ e.date \in Nat /\ i + e.hours \in Nat
      BY <1>3, NullNoInteger DEF Open, Findable, Event, Time
    <2>2. Expiry(e, i) \in Nat
      BY <2>1, EarliestType DEF Expiry
    <2>3. new[a] = IF left[a].status = "waiting" /\ Gets(e, reg, left, q, i, t, a)
                   THEN [status |-> "offered", expires |-> Expiry(e, i)] ELSE left[a]
      BY <1>3, Loop DEF OfferWaitingPlaces
    <2>4. left[a].status = "waiting" => ent[a].status = "waiting"
      BY <1>1 DEF NoEntry
    <2>5. ent[a].status = "waiting" => left[a] = ent[a]
      BY <1>1 DEF OfferEnded
    <2>6. QED
      BY <1>1, <1>3, <2>2, <2>3, <2>4 DEF Outcome
  <1>4. QED
    BY <1>2, <1>3

-----------------------------------------------------------------------------
(* The queue orders whoever is on the list, and every offer has its time.  *)

\* The inductive invariant behind the three properties below.
WaitingInv == Orders(queue, ListedIn(entry)) /\ Timed(entry)

\* offer_waiting_places puts nobody on the list and gives every offer its time.
LEMMA OffersKeep ==
  ASSUME TypeOK, TypeOK', now \in Nat, now' \in Nat,
         NEW reg, NEW base \in [Attendees -> Entry], Timed(base), NEW ent, Offers(reg, base, ent)
  PROVE  /\ Timed(ent) /\ ListedIn(ent) \subseteq ListedIn(base)
         /\ DOMAIN ent = Attendees
  <1>1. PICK i \in Nat, t \in Nat : ent = OfferWaitingPlaces(event', reg, base, queue, i, t)
    BY DEF Offers
  <1>2. event' \in Event
    BY DEF TypeOK, Event
  <1>3. \A a \in Attendees :
          \/ ent[a] = NoEntry \/ ent[a] = base[a]
          \/ base[a].status = "waiting" /\ ent[a].status = "offered" /\ ent[a].expires \in Nat
    <2> SUFFICES ASSUME NEW a \in Attendees
                 PROVE  \/ ent[a] = NoEntry \/ ent[a] = base[a]
                        \/ /\ base[a].status = "waiting"
                           /\ ent[a].status = "offered" /\ ent[a].expires \in Nat
      OBVIOUS
    <2> DEFINE e == event'
               x == Expiry(e, i)
    <2>0. e \in Event /\ ent = OfferWaitingPlaces(e, reg, base, queue, i, t)
      BY <1>1, <1>2
    <2> HIDE DEF e
    <2>1. \/ ent[a] = NoEntry \/ ent[a] = base[a]
          \/ /\ base[a].status = "waiting" /\ x \in Nat
             /\ ent[a] = [status |-> "offered", expires |-> x]
      <3>1. Outcome(e, reg, base, queue, i, t, a, ent[a])
        BY <2>0, OfferCases
      <3>2. QED
        BY <3>1 DEF Outcome
    <2> HIDE DEF x
    <2>2. QED
      BY <2>1
  <1>4. DOMAIN ent = Attendees
    BY <1>1 DEF OfferWaitingPlaces, OfferFree, Lapse
  <1>5. QED
    BY <1>3, <1>4 DEF Timed, ListedIn, NoEntry

\* Pruning keeps the order of those who stay.
LEMMA PruneOrders ==
  ASSUME NEW q, NEW ent, NEW S, Orders(q, S), ListedIn(ent) \subseteq S
  PROVE  Orders(Prune(q, ent), ListedIn(ent))
  <1>1. \A a, b \in ListedIn(ent) : <<a, b>> \in q <=> <<a, b>> \in Prune(q, ent)
    BY DEF Prune, ListedIn
  <1>2. QED
    BY <1>1 DEF Orders

\* Who joins comes after everyone on the list.
LEMMA JoinOrders ==
  ASSUME NEW q, NEW ent, NEW S, Orders(q, S), ListedIn(ent) \subseteq S,
         NEW a \in Attendees, a \notin ListedIn(ent),
         NEW new, new = Prune(q, ent) \cup (ListedIn(ent) \X {a})
  PROVE  Orders(new, ListedIn(ent) \cup {a})
  <1>1. \A x, y \in ListedIn(ent) : <<x, y>> \in q <=> <<x, y>> \in new
    BY DEF Prune, ListedIn
  <1>2. \A x : <<a, x>> \notin new
    BY DEF Prune, ListedIn
  <1>3. \A x \in ListedIn(ent) : <<x, a>> \in new
    OBVIOUS
  <1> HIDE DEF ListedIn
  <1>4. QED
    BY <1>1, <1>2, <1>3 DEF Orders

\* The queue orders the list and every offer has its time, in every state.
LEMMA WaitingInvHolds == Spec => []WaitingInv
  <1>1. Init => WaitingInv
    BY DEF Init, WaitingInv, Orders, ListedIn, Timed, NoEntry
  <1>2. TypeOK /\ TypeOK' /\ WaitingInv /\ [Next]_vars => WaitingInv'
    <2> SUFFICES ASSUME TypeOK, TypeOK', WaitingInv, [Next]_vars PROVE WaitingInv'
      OBVIOUS
    <2>0. now \in Nat /\ now' \in Nat /\ entry \in [Attendees -> Entry]
      BY DEF TypeOK
    <2>1. CASE Stays
      BY <2>1 DEF Stays, WaitingInv, Orders, ListedIn, Timed
    <2>2. CASE Passed
      <3>1. Timed(entry') /\ ListedIn(entry') \subseteq ListedIn(entry)
        BY <2>0, <2>2, OffersKeep DEF Passed, WaitingInv
      <3>2. Orders(queue', ListedIn(entry'))
        BY <2>2, <3>1, PruneOrders DEF Passed, WaitingInv
      <3>3. QED
        BY <3>1, <3>2 DEF WaitingInv, Orders, ListedIn, Timed
    <2>3. ASSUME NEW a \in Attendees, NEW ent, Taken(a, ent) PROVE WaitingInv'
      <3>1. Timed(ent) /\ ListedIn(ent) \subseteq ListedIn(entry) /\ DOMAIN ent = Attendees
        BY <2>0, <2>3, OffersKeep DEF Taken, WaitingInv
      <3>2. Timed(entry') /\ ListedIn(entry') \subseteq ListedIn(entry)
        BY <2>3, <3>1 DEF Taken, Timed, ListedIn, NoEntry
      <3>3. Orders(queue', ListedIn(entry'))
        BY <2>3, <3>2, PruneOrders DEF Taken, WaitingInv
      <3>4. QED
        BY <3>2, <3>3 DEF WaitingInv, Orders, ListedIn, Timed
    <2>4. ASSUME NEW a \in Attendees, NEW ent, Joined(a, ent) PROVE WaitingInv'
      <3>1. Timed(ent) /\ ListedIn(ent) \subseteq ListedIn(entry) /\ DOMAIN ent = Attendees
        BY <2>0, <2>4, OffersKeep DEF Joined, WaitingInv
      <3>2. Timed(entry') /\ ListedIn(entry') = ListedIn(ent) \cup {a} /\ a \notin ListedIn(ent)
        BY <2>4, <3>1 DEF Joined, Timed, ListedIn
      <3>3. Orders(queue', ListedIn(entry'))
        <4>1. /\ Orders(queue, ListedIn(entry))
              /\ queue' = Prune(queue, ent) \cup (ListedIn(ent) \X {a})
          BY <2>4 DEF Joined, WaitingInv
        <4>2. Orders(queue', ListedIn(ent) \cup {a})
          BY <3>1, <3>2, <4>1, JoinOrders
        <4>3. QED
          BY <3>2, <4>2
      <3>4. QED
        BY <3>2, <3>3 DEF WaitingInv, Orders, ListedIn, Timed
    <2>5. ASSUME NEW a \in Attendees, Left(a) PROVE WaitingInv'
      <3>1. /\ Without(a) \in [Attendees -> Entry] /\ Timed(Without(a))
            /\ ListedIn(Without(a)) \subseteq ListedIn(entry)
        BY <2>0 DEF Without, WaitingInv, Timed, ListedIn, NoEntry, Entry, Time
      <3>2. Timed(entry') /\ ListedIn(entry') \subseteq ListedIn(entry)
        BY <2>0, <2>5, <3>1, OffersKeep DEF Left
      <3>3. Orders(queue', ListedIn(entry'))
        BY <2>5, <3>2, PruneOrders DEF Left, WaitingInv
      <3>4. QED
        BY <3>2, <3>3 DEF WaitingInv, Orders, ListedIn, Timed
    <2>6. QED
      BY <2>1, <2>2, <2>3, <2>4, <2>5, Moves
  <1>3. QED
    BY <1>1, <1>2, TypeCorrect, PTL DEF Spec

-----------------------------------------------------------------------------
(* The three properties of the waiting list.                               *)

\* As time passes, offers only run out.
LEMMA RunningLess ==
  ASSUME NEW ent, Timed(ent), NEW t \in Nat, NEW T \in Nat, t <= T
  PROVE  RunningIn(ent, T) \subseteq RunningIn(ent, t)
  BY DEF RunningIn, Timed

\* offer_waiting_places leaves a running offer alone unless registration is over.
LEMMA OfferStays ==
  ASSUME TypeOK', now' \in Nat, NEW reg, NEW base \in [Attendees -> Entry], NEW ent,
         Offers(reg, base, ent), NEW a \in RunningIn(base, now'), Timed(base)
  PROVE  ent[a] = base[a] \/ Over(event', now')
  <1> DEFINE e == event'
             T == now'
  <1>1. PICK i \in Nat, t \in Nat : i <= t /\ t <= T /\ ent = OfferWaitingPlaces(e, reg, base, queue, i, t)
    BY DEF Offers
  <1>2. e \in Event /\ T \in Nat
    BY DEF TypeOK, Event
  <1>3. a \in Attendees /\ base[a].status = "offered" /\ base[a].expires > T /\ base[a].expires \in Nat
    BY DEF RunningIn, Timed
  <1> HIDE DEF e, T
  <1>4. i <= T
    BY <1>1, <1>2
  <1>5. CASE ent[a] = NoEntry /\ OfferEnded(e, base[a], i)
    <2>1. Over(e, i)
      BY <1>2, <1>3, <1>4, <1>5 DEF OfferEnded
    <2>2. e.date \in Nat /\ (e.closes = Null \/ e.closes \in Nat)
      BY <1>2 DEF Event, Time
    <2>3. Over(e, T)
      BY <1>2, <1>4, <2>1, <2>2 DEF Over
    <2>4. QED
      BY <2>3 DEF e, T
  <1>6. Outcome(e, reg, base, queue, i, t, a, ent[a])
    BY <1>1, <1>2, <1>3, OfferCases
  <1>7. QED
    BY <1>3, <1>5, <1>6 DEF Outcome, e

\* While registration can be taken, an offer that has not run out ends only
\* because its attendee registers or leaves (its expiry is never moved).
THEOREM OffersHeld == Spec => OfferHeldUntilExpiry
  <1>1. TypeOK /\ TypeOK' /\ WaitingInv /\ [Next]_vars
          => [\A a \in RunningIn(entry, now') :
                \/ entry'[a] = entry[a] \/ a \in registered' \/ LeaveWaitingList(a)
                \/ Over(event', now')]_vars
    <2> SUFFICES ASSUME TypeOK, TypeOK', WaitingInv, [Next]_vars,
                        NEW a \in RunningIn(entry, now')
                 PROVE  \/ entry'[a] = entry[a] \/ a \in registered' \/ LeaveWaitingList(a)
                        \/ Over(event', now')
      OBVIOUS
    <2>0. /\ now \in Nat /\ now' \in Nat /\ entry \in [Attendees -> Entry]
          /\ Timed(entry) /\ a \in Attendees /\ entry[a].status = "offered"
      BY DEF TypeOK, WaitingInv, RunningIn
    <2>1. CASE Stays
      BY <2>1 DEF Stays
    <2>2. CASE Passed
      BY <2>0, <2>2, OfferStays DEF Passed
    <2>3. ASSUME NEW b \in Attendees, NEW ent, Taken(b, ent)
          PROVE  entry'[a] = entry[a] \/ a \in registered' \/ Over(event', now')
      <3>1. ent[a] = entry[a] \/ Over(event', now')
        BY <2>0, <2>3, OfferStays DEF Taken
      <3>2. DOMAIN ent = Attendees
        BY <2>0, <2>3, OffersKeep DEF Taken
      <3>3. QED
        BY <2>0, <2>3, <3>1, <3>2 DEF Taken
    <2>4. ASSUME NEW b \in Attendees, NEW ent, Joined(b, ent)
          PROVE  entry'[a] = entry[a] \/ Over(event', now')
      <3>1. ent[a] = entry[a] \/ Over(event', now')
        BY <2>0, <2>4, OfferStays DEF Joined
      <3>2. DOMAIN ent = Attendees
        BY <2>0, <2>4, OffersKeep DEF Joined
      <3>3. QED
        BY <2>0, <2>4, <3>1, <3>2 DEF Joined
    <2>5. ASSUME NEW b \in Attendees, Left(b)
          PROVE  entry'[a] = entry[a] \/ LeaveWaitingList(a) \/ Over(event', now')
      <3>1. CASE a = b
        BY <2>5, <3>1 DEF Left
      <3>2. CASE a # b
        <4>1. /\ Without(b) \in [Attendees -> Entry] /\ Timed(Without(b))
              /\ Without(b)[a] = entry[a] /\ a \in RunningIn(Without(b), now')
          BY <2>0, <3>2 DEF Without, Timed, NoEntry, Entry, Time, RunningIn
        <4>2. QED
          BY <2>0, <2>5, <4>1, OfferStays DEF Left
      <3>3. QED
        BY <3>1, <3>2
    <2>6. QED
      BY <2>1, <2>2, <2>3, <2>4, <2>5, Moves
  <1>2. QED
    BY <1>1, TypeCorrect, WaitingInvHolds, PTL DEF Spec, OfferHeldUntilExpiry

\* In a call during which the clock stands still, nobody is offered a place
\* while someone ahead of them keeps waiting.
LEMMA InOrder ==
  ASSUME TypeOK', now' = now, now \in Nat,
         NEW reg \in SUBSET Attendees, NEW base \in [Attendees -> Entry], NEW ent,
         Offers(reg, base, ent), Orders(queue, ListedIn(base)),
         NEW a \in Attendees, NEW b \in Attendees, a # b, <<a, b>> \notin queue,
         base[a].status = "waiting", base[b].status = "waiting", ent[b].status = "waiting"
  PROVE  ent[a].status # "offered"
  <1> DEFINE e == event'
             left == Lapse(e, base, now)
             gets(x) == Gets(e, reg, left, queue, now, now, x)
  <1>1. ent = OfferWaitingPlaces(e, reg, base, queue, now, now)
    BY DEF Offers
  <1>2. e \in Event
    BY DEF TypeOK, Event
  <1>3. left[a] = base[a] /\ left[b] = base[b]
    BY DEF Lapse, OfferEnded
  <1>4. Orders(queue, WaitingIn(left)) /\ a \in WaitingIn(left) /\ b \in WaitingIn(left)
    <2>1. WaitingIn(left) \subseteq ListedIn(base)
      BY DEF WaitingIn, ListedIn, Lapse, NoEntry
    <2>2. QED
      BY <1>3, <2>1, OrdersLess DEF WaitingIn
  <1>5. <<b, a>> \in queue
    BY <1>4 DEF Orders
  <1> HIDE DEF e
  <1>6. ASSUME Open(e, now), gets(b) PROVE FALSE
    <2>1. ent[b] = [status |-> "offered", expires |-> Expiry(e, now)]
      BY <1>1, <1>3, <1>6, Loop DEF OfferWaitingPlaces
    <2>2. QED
      BY <2>1
  <1>7. gets(a) => gets(b)
    <2> HIDE DEF left
    <2>1. QED
      BY <1>2, <1>4, <1>5, FirstServed
  <1>8. ASSUME ent[a].status = "offered" PROVE Open(e, now) /\ gets(a)
    <2>1. Outcome(e, reg, base, queue, now, now, a, ent[a])
      BY <1>1, <1>2, OfferCases
    <2>2. QED
      BY <1>8, <2>1 DEF Outcome, NoEntry
  <1>9. QED
    BY <1>6, <1>7, <1>8

\* The earliest of three instants is one of them.
LEMMA EarliestIs == \A a, b, c \in Nat : EarliestOf(a, b, c) \in {a, b, c}
  <1>1. SUFFICES ASSUME NEW a \in Nat, NEW b \in Nat, NEW c \in Nat
                 PROVE  \E t \in {a, b, c} : \A u \in {a, b, c} : t <= u
    BY DEF EarliestOf
  <1>2. CASE a <= b /\ a <= c
    BY <1>2
  <1>3. CASE b <= a /\ b <= c
    BY <1>3
  <1>4. CASE c <= a /\ c <= b
    BY <1>4
  <1>5. QED
    BY <1>2, <1>3, <1>4

\* A call that leaves somebody waiting while the clock stands still leaves no
\* place free.
LEMMA NoneLeft ==
  ASSUME TypeOK, now \in Nat, Open(event, now), NEW ent, Orders(queue, ListedIn(entry)),
         ent = OfferWaitingPlaces(event, registered, entry, queue, now, now),
         NEW b \in Attendees, ent[b].status = "waiting"
  PROVE  Full(event, PlacesHeld(registered, ent, now, {}))
  <1> DEFINE left == Lapse(event, entry, now)
  <1>1. event \in Event /\ left \in [Attendees -> Entry] /\ registered \in SUBSET Attendees
    BY LapseType DEF TypeOK, Event
  <1>2. ent = OfferFree(event, registered, left, queue, now, now)
    BY DEF OfferWaitingPlaces
  <1>3. b \in WaitingIn(left) /\ ~Gets(event, registered, left, queue, now, now, b)
    <2> DEFINE g == Gets(event, registered, left, queue, now, now, b)
               x == Expiry(event, now)
    <2>1. ent[b] = IF left[b].status = "waiting" /\ g
                   THEN [status |-> "offered", expires |-> x] ELSE left[b]
      BY <1>2, Loop
    <2> HIDE DEF g, x, left
    <2>2. left[b].status = "waiting" /\ ~g
      BY <2>1
    <2>3. QED
      BY <2>2 DEF WaitingIn, g
  <1>4. Orders(queue, WaitingIn(left))
    <2>1. WaitingIn(left) \subseteq ListedIn(entry)
      BY DEF WaitingIn, ListedIn, Lapse, NoEntry
    <2>2. QED
      BY <2>1, OrdersLess
  <1>5. Expiry(event, now) > now
    <2>1. /\ event.closes \in Nat /\ event.date \in Nat /\ event.hours \in Nat \ {0}
          /\ now < event.closes /\ now < event.date
      BY <1>1, NullNoInteger DEF Open, Findable, Event, Time
    <2>2. Expiry(event, now) \in {now + event.hours, event.closes, event.date}
      BY <2>1, EarliestIs DEF Expiry
    <2>3. now + event.hours > now
      BY <2>1
    <2>4. QED
      BY <2>1, <2>2, <2>3
  <1> HIDE DEF left
  <1>6. QED
    BY <1>1, <1>2, <1>3, <1>4, <1>5, LoopFills

\* A place goes to the waiting list in order, however many wait.
THEOREM PlacesGoInOrder == Spec => NobodyOvertaken
  <1>1. TypeOK /\ TypeOK' /\ WaitingInv /\ [Next]_vars
          => [now' = now =>
                \A a, b \in Attendees :
                    Obtains(a) /\ entry[b].status = "waiting" /\ <<a, b>> \notin queue /\ a # b
                        => entry'[b].status # "waiting"]_vars
    <2> SUFFICES ASSUME TypeOK, TypeOK', WaitingInv, [Next]_vars, now' = now,
                        NEW a \in Attendees, NEW b \in Attendees, Obtains(a),
                        entry[b].status = "waiting", <<a, b>> \notin queue, a # b,
                        entry'[b].status = "waiting"
                 PROVE  FALSE
      OBVIOUS
    <2>0. /\ now \in Nat /\ entry \in [Attendees -> Entry] /\ registered \in SUBSET Attendees
          /\ registered' \in SUBSET Attendees
          /\ Orders(queue, ListedIn(entry)) /\ Timed(entry)
      BY DEF TypeOK, WaitingInv
    <2>a. ASSUME registered' \subseteq registered PROVE entry[a].status = "waiting" /\ entry'[a].status = "offered"
      BY <2>a DEF Obtains
    <2>1. CASE Stays
      BY <2>1, <2>a DEF Stays
    <2>2. CASE Passed
      <3>1. entry[a].status = "waiting" /\ entry'[a].status = "offered"
        BY <2>2, <2>a DEF Passed
      <3>2. Offers(registered', entry, entry')
        BY <2>2 DEF Passed
      <3>3. QED
        BY <2>0, <3>1, <3>2, InOrder
    <2>3. ASSUME NEW c \in Attendees, NEW ent, Taken(c, ent) PROVE FALSE
      <3>1. Offers(registered, entry, ent) /\ Open(event, now) /\ event' = event
        BY <2>3 DEF Taken
      <3>2. DOMAIN ent = Attendees
        BY <2>0, <3>1, OffersKeep
      <3>3. ent[b].status = "waiting"
        BY <2>3, <3>2 DEF Taken, NoEntry
      <3>4. ~(entry[a].status = "waiting" /\ ent[a].status = "offered")
        BY <2>0, <3>1, <3>3, InOrder
      <3>5. a = c /\ a \notin RunningIn(entry, now)
        <4>1. a # c => entry'[a] = ent[a] /\ (a \in registered' => a \in registered)
          BY <2>3, <3>2 DEF Taken
        <4>2. a = c => entry'[a].status # "offered"
          BY <2>3, <3>2 DEF Taken, NoEntry
        <4>3. QED
          BY <3>4, <4>1, <4>2 DEF Obtains
      <3>6. ent = OfferWaitingPlaces(event, registered, entry, queue, now, now)
        BY <2>0, <3>1 DEF Offers
      <3>7. a \notin RunningIn(ent, now)
        <4>1. Outcome(event, registered, entry, queue, now, now, a, ent[a])
          BY <2>0, <3>6, OfferCases DEF TypeOK, Event
        <4>2. \/ ent[a] = NoEntry \/ ent[a] = entry[a]
              \/ entry[a].status = "waiting" /\ ent[a].status = "offered"
          BY <4>1 DEF Outcome
        <4>3. QED
          BY <3>4, <3>5, <4>2 DEF RunningIn, NoEntry
      <3>8. Full(event, PlacesHeld(registered, ent, now, {}))
        BY <2>0, <3>1, <3>3, <3>6, NoneLeft
      <3>9. RunningIn(ent, now) \ {a} = RunningIn(ent, now) \ {}
        BY <3>7
      <3>10. ~Full(event, PlacesHeld(registered, ent, now, {a}))
        BY <2>3, <3>5 DEF Taken
      <3>11. QED
        BY <3>8, <3>9, <3>10 DEF PlacesHeld
    <2>4. ASSUME NEW c \in Attendees, NEW ent, Joined(c, ent) PROVE FALSE
      <3>1. Offers(registered, entry, ent) /\ registered' = registered
        BY <2>4 DEF Joined
      <3>2. DOMAIN ent = Attendees
        BY <2>0, <3>1, OffersKeep
      <3>3. entry[a].status = "waiting" /\ entry'[a].status = "offered"
        BY <3>1, <2>a
      <3>4. ent[a].status = "offered"
        BY <2>4, <3>2, <3>3 DEF Joined
      <3>5. ent[b].status = "none" \/ ent[b].status = "waiting"
        BY <2>4, <3>2 DEF Joined
      <3>6. ent[b].status # "waiting"
        BY <2>0, <3>1, <3>3, <3>4, InOrder
      <3>7. ent[b].status # "none"
        <4>1. PICK i \in Nat, t \in Nat : ent = OfferWaitingPlaces(event', registered, entry, queue, i, t)
          BY <3>1 DEF Offers
        <4>2. Outcome(event', registered, entry, queue, i, t, b, ent[b])
          BY <2>0, <4>1, OfferCases DEF TypeOK, Event
        <4>3. QED
          BY <4>2 DEF Outcome, OfferEnded
      <3>8. QED
        BY <3>5, <3>6, <3>7
    <2>5. ASSUME NEW c \in Attendees, Left(c) PROVE FALSE
      <3>1. entry[a].status = "waiting" /\ entry'[a].status = "offered"
        BY <2>5, <2>a DEF Left
      <3>2. CASE entry' = Without(c)
        BY <2>0, <3>1, <3>2 DEF Without, NoEntry
      <3>3. CASE Offers(registered, Without(c), entry')
        <4>1. /\ Without(c) \in [Attendees -> Entry] /\ ListedIn(Without(c)) \subseteq ListedIn(entry)
              /\ \A x \in Attendees : Without(c)[x] = entry[x] \/ x = c
              /\ Without(c)[c] = NoEntry /\ Timed(Without(c))
          BY <2>0 DEF Without, Timed, NoEntry, Entry, Time, ListedIn
        <4>2. Orders(queue, ListedIn(Without(c)))
          BY <2>0, <4>1, OrdersLess
        <4>3. ListedIn(entry') \subseteq ListedIn(Without(c))
          BY <2>0, <3>3, <4>1, OffersKeep DEF TypeOK
        <4>4. a # c /\ b # c
          BY <3>1, <4>1, <4>3 DEF ListedIn, NoEntry
        <4>5. Without(c)[a].status = "waiting" /\ Without(c)[b].status = "waiting"
          BY <3>1, <4>1, <4>4
        <4>6. QED
          BY <2>0, <3>1, <3>3, <4>1, <4>2, <4>5, InOrder
      <3>4. QED
        BY <2>5, <3>2, <3>3 DEF Left
    <2>6. QED
      BY <2>1, <2>2, <2>3, <2>4, <2>5, Moves
  <1>2. QED
    BY <1>1, TypeCorrect, WaitingInvHolds, PTL DEF Spec, NobodyOvertaken

-----------------------------------------------------------------------------
(* No place is promised twice.                                             *)

\* Fewer registrations and fewer running offers hold fewer places.
LEMMA Fewer ==
  ASSUME NEW reg, reg \subseteq Attendees, NEW less, less \subseteq reg,
         NEW ent, NEW t, NEW new, NEW T, RunningIn(new, T) \subseteq RunningIn(ent, t)
  PROVE  /\ PlacesHeld(less, new, T, {}) \in Nat /\ PlacesHeld(reg, ent, t, {}) \in Nat
         /\ PlacesHeld(less, new, T, {}) <= PlacesHeld(reg, ent, t, {})
  <1> DEFINE n == Cardinality(RunningIn(new, T) \ {})
             m == Cardinality(RunningIn(ent, t) \ {})
  <1>1. RunningIn(ent, t) \ {} \subseteq Attendees /\ RunningIn(new, T) \ {} \subseteq RunningIn(ent, t) \ {}
    BY DEF RunningIn
  <1>2. n \in Nat /\ m \in Nat /\ n <= m
    BY <1>1, Counts
  <1>3. Cardinality(less) \in Nat /\ Cardinality(reg) \in Nat /\ Cardinality(less) <= Cardinality(reg)
    BY Counts
  <1> HIDE DEF n, m
  <1>4. QED
    BY <1>2, <1>3 DEF PlacesHeld, n, m

\* offer_waiting_places leaves no more than the capacity held, or offers nothing
\* that was not held before.
LEMMA HeldBound ==
  ASSUME TypeOK', now \in Nat, now' \in Nat, NEW reg \in SUBSET Attendees,
         NEW base \in [Attendees -> Entry], Timed(base), Orders(queue, ListedIn(base)),
         NEW ent, Offers(reg, base, ent), event'.capacity # Null
  PROVE  \/ PlacesHeld(reg, ent, now', {}) <= event'.capacity
         \/ RunningIn(ent, now') \subseteq RunningIn(base, now)
  <1> DEFINE e == event'
             T == now'
  <1>1. PICK i \in Nat, t \in Nat :
          now <= i /\ i <= t /\ t <= T /\ ent = OfferWaitingPlaces(e, reg, base, queue, i, t)
    BY DEF Offers
  <1> DEFINE left == Lapse(e, base, i)
  <1>2. e \in Event /\ T \in Nat /\ now <= T
    BY <1>1 DEF TypeOK, Event
  <1>3. left \in [Attendees -> Entry] /\ Timed(left)
    <2>1. left \in [Attendees -> Entry]
      BY LapseType
    <2>2. ASSUME NEW a \in Attendees, left[a].status = "offered"
          PROVE  left[a].expires \in Nat
      <3>1. left[a] = IF OfferEnded(e, base[a], i) THEN NoEntry ELSE base[a]
        BY DEF Lapse
      <3>2. left[a] = base[a]
        BY <2>2, <3>1 DEF NoEntry
      <3>3. QED
        BY <2>2, <3>2 DEF Timed
    <2>3. QED
      BY <2>1, <2>2 DEF Timed
  <1>4. RunningIn(left, T) \subseteq RunningIn(base, T)
    BY DEF RunningIn, Lapse, NoEntry
  <1>5. RunningIn(base, T) \subseteq RunningIn(base, now)
    BY <1>2, RunningLess
  <1>6. CASE ~Open(e, i)
    BY <1>1, <1>4, <1>5, <1>6 DEF OfferWaitingPlaces
  <1>7. CASE Open(e, i)
    <2>1. ent = OfferFree(e, reg, left, queue, i, t)
      BY <1>1, <1>7 DEF OfferWaitingPlaces
    <2>2. Orders(queue, WaitingIn(left))
      <3>1. WaitingIn(left) \subseteq ListedIn(base)
        BY DEF WaitingIn, ListedIn, Lapse, NoEntry
      <3>2. QED
        BY <3>1, OrdersLess
    <2> HIDE DEF left
    <2>3. PlacesHeld(reg, ent, T, {}) <= e.capacity \/ RunningIn(ent, T) \subseteq RunningIn(left, T)
      <3>1. \A a \in Attendees : left[a].status = "offered" => left[a].expires \in Nat
        BY <1>3 DEF Timed
      <3> HIDE DEF e, T
      <3>2. e.capacity # Null
        BY DEF e
      <3>3. QED
        BY <1>1, <1>2, <1>3, <1>7, <2>1, <2>2, <3>1, <3>2, LoopBound
    <2>4. QED
      BY <1>4, <1>5, <2>3
  <1>8. QED
    BY <1>6, <1>7

\* No step that gives a place away leaves more places held than there are.
THEOREM PlacesPromisedOnce == Spec => NoPlacePromisedTwice
  <1>1. TypeOK /\ TypeOK' /\ WaitingInv /\ [Next]_vars
          => [HeldNow' > HeldNow /\ event'.capacity # Null => HeldNow' <= event'.capacity]_vars
    <2> SUFFICES ASSUME TypeOK, TypeOK', WaitingInv, [Next]_vars, event'.capacity # Null
                 PROVE  HeldNow' > HeldNow => HeldNow' <= event'.capacity
      OBVIOUS
    <2>0. /\ now \in Nat /\ now' \in Nat /\ now <= now' /\ entry \in [Attendees -> Entry]
          /\ registered \subseteq Attendees /\ registered' \subseteq Attendees
          /\ Orders(queue, ListedIn(entry)) /\ Timed(entry)
      BY Moves DEF TypeOK, WaitingInv
    <2>a. ASSUME registered' \subseteq registered,
                 RunningIn(entry', now') \subseteq RunningIn(entry, now)
          PROVE  ~(HeldNow' > HeldNow)
      <3>1. HeldNow' \in Nat /\ HeldNow \in Nat /\ HeldNow' <= HeldNow
        BY <2>0, <2>a, Fewer DEF HeldNow
      <3>2. QED
        BY <3>1
    <2>1. CASE Stays
      <3>1. RunningIn(entry', now') \subseteq RunningIn(entry, now)
        BY <2>0, <2>1, RunningLess DEF Stays
      <3>2. QED
        BY <2>1, <2>a, <3>1 DEF Stays
    <2>2. CASE Passed
      <3>1. \/ PlacesHeld(registered', entry', now', {}) <= event'.capacity
            \/ RunningIn(entry', now') \subseteq RunningIn(entry, now)
        BY <2>0, <2>2, HeldBound DEF Passed
      <3>2. QED
        BY <2>2, <2>a, <3>1 DEF Passed, HeldNow
    <2>3. ASSUME NEW a \in Attendees, NEW ent, Taken(a, ent) PROVE HeldNow' <= event'.capacity
      <3>1. DOMAIN ent = Attendees
        BY <2>0, <2>3, OffersKeep DEF Taken
      <3>2. RunningIn(entry', now') \ {} = RunningIn(ent, now') \ {a}
        BY <2>3, <3>1 DEF Taken, RunningIn, NoEntry
      <3> DEFINE n == Cardinality(RunningIn(ent, now') \ {a})
      <3>3. n \in Nat
        BY OfferCount
      <3>4. Cardinality(registered') = Cardinality(registered) + 1 /\ Cardinality(registered) \in Nat
        BY <2>3, RegisteredCount DEF Taken
      <3>5. ~(Cardinality(registered) + n >= event'.capacity)
        BY <2>3 DEF Taken, Full, PlacesHeld
      <3>6. event'.capacity \in Nat
        BY DEF TypeOK, Capacity
      <3>7. HeldNow' = Cardinality(registered') + n
        BY <3>2 DEF HeldNow, PlacesHeld
      <3> HIDE DEF n
      <3>8. QED
        BY <3>3, <3>4, <3>5, <3>6, <3>7
    <2>4. ASSUME NEW a \in Attendees, NEW ent, Joined(a, ent)
          PROVE  HeldNow' > HeldNow => HeldNow' <= event'.capacity
      <3>1. DOMAIN ent = Attendees
        BY <2>0, <2>4, OffersKeep DEF Joined
      <3>2. RunningIn(entry', now') = RunningIn(ent, now')
        BY <2>4, <3>1 DEF Joined, RunningIn
      <3>3. \/ PlacesHeld(registered, ent, now', {}) <= event'.capacity
            \/ RunningIn(ent, now') \subseteq RunningIn(entry, now)
        BY <2>0, <2>4, HeldBound DEF Joined
      <3>4. registered' = registered
        BY <2>4 DEF Joined
      <3>5. HeldNow' = PlacesHeld(registered, ent, now', {})
        BY <3>2, <3>4 DEF HeldNow, PlacesHeld
      <3>6. QED
        BY <2>a, <3>2, <3>3, <3>4, <3>5
    <2>5. ASSUME NEW a \in Attendees, Left(a)
          PROVE  HeldNow' > HeldNow => HeldNow' <= event'.capacity
      <3>1. /\ Without(a) \in [Attendees -> Entry] /\ Timed(Without(a))
            /\ ListedIn(Without(a)) \subseteq ListedIn(entry)
            /\ \A t : RunningIn(Without(a), t) \subseteq RunningIn(entry, t)
        BY <2>0 DEF Without, Timed, NoEntry, Entry, Time, ListedIn, RunningIn
      <3>2. registered' = registered
        BY <2>5 DEF Left
      <3>3. CASE entry' = Without(a)
        <4>1. RunningIn(entry', now') \subseteq RunningIn(entry, now)
          BY <2>0, <3>1, <3>3, RunningLess
        <4>2. QED
          BY <2>a, <3>2, <4>1
      <3>4. CASE Offers(registered, Without(a), entry')
        <4>1. Orders(queue, ListedIn(Without(a)))
          BY <2>0, <3>1, OrdersLess
        <4>2. \/ PlacesHeld(registered, entry', now', {}) <= event'.capacity
              \/ RunningIn(entry', now') \subseteq RunningIn(Without(a), now)
          BY <2>0, <3>1, <3>4, <4>1, HeldBound
        <4>3. QED
          BY <2>a, <3>1, <3>2, <4>2 DEF HeldNow
      <3>5. QED
        BY <2>5, <3>3, <3>4 DEF Left
    <2>6. QED
      BY <2>1, <2>2, <2>3, <2>4, <2>5, Moves
  <1>2. QED
    BY <1>1, TypeCorrect, WaitingInvHolds, PTL DEF Spec, NoPlacePromisedTwice
=============================================================================

---------------------------- MODULE AccessProofs ----------------------------
(***************************************************************************)
(* Theorems about who may do what (Access) and who sees what (Visibility), *)
(* for every set of accounts.                                              *)
(***************************************************************************)
EXTENDS Access, Visibility, TLAPS

-----------------------------------------------------------------------------
(* A request that was authorised acts as a role that every database         *)
(* function it may still reach admits (Authorized): what the routes grant,  *)
(* the functions grant too.                                                 *)

RoleOrNone == Roles \cup {None}
Session    == [open : BOOLEAN, role : RoleOrNone, roles : SUBSET Roles]
Request    == [actions : SUBSET Actions, header : RoleOrNone,
               target : Accounts \cup {None}, acting : RoleOrNone]

Authorized ==
  \A a \in Accounts : sent[a].acting # None =>
    \A action \in sent[a].actions : sent[a].acting \in FunctionRoles(action)

-----------------------------------------------------------------------------
(* The two tables. *)

LEMMA GrantedByFunctions ==
  \A action, role : <<action, role>> \in PERMISSIONS => role \in FunctionRoles(action)
<1> SUFFICES ASSUME NEW action, NEW role, <<action, role>> \in PERMISSIONS
             PROVE  role \in FunctionRoles(action)
  OBVIOUS
<1>1. \/ /\ role = "event_coordinator"
         /\ action \in {"venue_bookings.release", "venue_booking.withdraw", "event_request.confirm",
              "event_request.cancel", "notifications.reminders.manage", "venues.holds.read",
              "equipment_requirements.read", "equipment_requirements.request"}
      \/ /\ role = "venue_staff"
         /\ action \in {"venue_booking.decide", "venues.holds.read", "venues.holds.manage"}
      \/ /\ role = Technical
         /\ action \in {"users.role.update", "venues.holds.read", "equipment.reservations.manage",
              "equipment_requirements.read", "equipment_requirements.arrange"}
      \/ role = "safety_officer" /\ action \in {"equipment_requirements.read", "safety_checks.read"}
      \/ role = "event_organiser" /\ action = "event_request.cancellation.request"
      \/ /\ role = "attendee"
         /\ action \in {"events.registrable.read", "events.register",
              "registrations.mine.read", "registrations.withdraw"}
      \/ role \in Internal /\ action = "events.search"
  BY DEF PERMISSIONS, Grants
<1> QED BY <1>1 DEF FunctionRoles, Technical

LEMMA PermittedByFunctions ==
  \A role : \A action \in PermissionsFor(role) : role \in FunctionRoles(action)
  BY GrantedByFunctions DEF PermissionsFor

-----------------------------------------------------------------------------
(* The role a request acts as is one of the account's. *)

LEMMA FirstHeld ==
  ASSUME NEW roles \in SUBSET Roles, roles # {}
  PROVE  First(roles) \in roles
<1> DEFINE HoldsNth(i) == DefaultOrder[i] \in roles
           Least(i) == HoldsNth(i) /\ \A j \in 1 .. i - 1 : ~HoldsNth(j)
<1>1. DOMAIN DefaultOrder = 1 .. 7
  BY DEF DefaultOrder
<1>2. PICK n \in 1 .. 7 : HoldsNth(n)
  BY <1>1 DEF Roles
<1>3. \E i \in 1 .. 7 : Least(i)
  <2> HIDE DEF HoldsNth
  <2> QED BY <1>2
<1>4. \E i \in DOMAIN DefaultOrder :
        /\ DefaultOrder[i] \in roles
        /\ \A j \in 1 .. i - 1 : DefaultOrder[j] \notin roles
  BY <1>1, <1>3
<1> QED BY <1>4 DEF First

LEMMA SelectType ==
  ASSUME NEW roles \in SUBSET Roles, roles # {}, NEW requested
  PROVE  SelectActingRole(roles, requested) \in RoleOrNone
  BY FirstHeld DEF SelectActingRole, RoleOrNone

-----------------------------------------------------------------------------
IInv == AccessTypeOK /\ AdministratorsRemain /\ Authorized

LEMMA Domains ==
  AccessTypeOK <=> /\ inPlay \subseteq Roles /\ held \in [Accounts -> SUBSET Roles]
             /\ session \in [Accounts -> Session] /\ sent \in [Accounts -> Request]
  BY DEF AccessTypeOK, Session, Request, RoleOrNone

LEMMA Starts == AccessInit => IInv
<1> SUFFICES ASSUME AccessInit PROVE IInv
  OBVIOUS
<1>1. inPlay \subseteq Roles
  BY DEF AccessInit, Roles, DefaultOrder, Technical
<1>2. held \in [Accounts -> SUBSET Roles]
  BY <1>1 DEF AccessInit
<1>3. session \in [Accounts -> Session]
  BY DEF AccessInit, Session, Closed, RoleOrNone
<1>4. sent \in [Accounts -> Request] /\ \A a \in Accounts : sent[a].acting = None
  BY DEF AccessInit, Request, NothingSent, Sent, RoleOrNone
<1>5. AdministratorsRemain
  <2>1. held \in [Accounts -> (SUBSET inPlay) \ {{}}] /\ \E a \in Accounts : Technical \in held[a]
    BY DEF AccessInit
  <2>2. \A a \in Accounts : held[a] # {}
    BY <2>1
  <2> QED BY <2>1, <2>2 DEF AdministratorsRemain
<1> QED BY <1>1, <1>2, <1>3, <1>4, <1>5, Domains DEF IInv, Authorized

(* Steps of the browser alone. *)
LEMMA SessionStep ==
  ASSUME IInv, RolesKept, UNCHANGED sent, session' \in [Accounts -> Session]
  PROVE  IInv'
  BY Domains DEF IInv, RolesKept, AdministratorsRemain, Authorized, AccessTypeOK, Session, Request, RoleOrNone

(* Steps of one request, of the roles nothing. *)
LEMMA CallStep ==
  ASSUME IInv, RolesKept, UNCHANGED session, NEW a \in Accounts, NEW request \in Request,
         sent' = [sent EXCEPT ![a] = request],
         request.acting # None => \A action \in request.actions : request.acting \in FunctionRoles(action)
  PROVE  IInv'
<1>1. sent' \in [Accounts -> Request] /\ sent'[a] = request
      /\ \A b \in Accounts \ {a} : sent'[b] = sent[b]
  BY Domains DEF IInv
<1>2. Authorized' BY <1>1 DEF IInv, Authorized
<1>3. AccessTypeOK' BY <1>1, Domains DEF IInv, RolesKept, AccessTypeOK, Session, Request, RoleOrNone
<1>4. AdministratorsRemain' BY DEF IInv, AdministratorsRemain, RolesKept
<1> QED BY <1>2, <1>3, <1>4 DEF IInv

LEMMA IdleType == NothingSent \in Request /\ NothingSent.acting = None
  BY DEF NothingSent, Sent, Request, RoleOrNone

LEMMA EndsStep ==
  ASSUME IInv, NEW a \in Accounts, SentEnds(a), RolesKept, UNCHANGED session
  PROVE  IInv'
  BY IdleType, CallStep DEF SentEnds

LEMMA HeaderType == ASSUME AccessTypeOK, NEW a \in Accounts PROVE ActingRoleHeader(a) \in RoleOrNone
  BY Domains DEF ActingRoleHeader, RoleOrNone, Session

LEMMA BrowserKeeps ==
  ASSUME IInv, NEW a \in Accounts, SignIn(a) \/ SignOut(a) \/ SwitchRole(a) \/ AccessRefused(a)
  PROVE  IInv'
<1>1. AccessTypeOK /\ held[a] \in SUBSET Roles /\ held[a] # {} /\ session \in [Accounts -> Session]
  BY Domains DEF IInv, AdministratorsRemain
<1>2. Closed \in Session BY DEF Closed, Session, RoleOrNone
<1>3. CASE SignIn(a)
  <2>1. Opened(SelectActingRole(held[a], None), held[a]) \in Session
    BY <1>1, SelectType DEF Opened, Session
  <2> QED BY <1>1, <1>3, <2>1, SessionStep DEF SignIn
<1>4. CASE SwitchRole(a)
  <2>1. PICK role \in session[a].roles : session' = [session EXCEPT ![a] = Opened(role, session[a].roles)]
    BY <1>4 DEF SwitchRole
  <2>2. Opened(role, session[a].roles) \in Session
    BY <1>1, <2>1 DEF Opened, Session, RoleOrNone
  <2> QED BY <1>1, <1>4, <2>1, <2>2, SessionStep DEF SwitchRole
<1>5. CASE SignOut(a) \/ AccessRefused(a)
  BY <1>1, <1>2, <1>5, SessionStep DEF SignOut, AccessRefused
<1> QED BY <1>3, <1>4, <1>5

LEMMA SendKeeps == ASSUME IInv, NEW a \in Accounts, Send(a) PROVE IInv'
<1>1. ChangesRoles \subseteq Actions
  <2>1. <<"users.role.update", Technical>> \in Grants(Technical,
          {"users.role.update", "venues.holds.read", "equipment.reservations.manage",
           "equipment_requirements.read", "equipment_requirements.arrange"})
    BY DEF Grants
  <2>2. <<"users.role.update", Technical>> \in PERMISSIONS
    BY <2>1 DEF PERMISSIONS
  <2>3. <<"users.role.update", Technical>>[1] \in Actions
    BY <2>2 DEF Actions
  <2> QED BY <2>3 DEF ChangesRoles
<1>2. PICK actions \in SUBSET Actions, target \in Accounts \cup {None} :
        sent' = [sent EXCEPT ![a] = Sent(actions, ActingRoleHeader(a), target)]
  BY <1>1 DEF Send
<1>3. Sent(actions, ActingRoleHeader(a), target) \in Request
      /\ Sent(actions, ActingRoleHeader(a), target).acting = None
  BY <1>2, HeaderType DEF IInv, Sent, Request, RoleOrNone
<1> QED BY <1>2, <1>3, CallStep DEF Send

LEMMA AuthorizeKeeps == ASSUME IInv, NEW a \in Accounts, Authorize(a) PROVE IInv'
<1> DEFINE acting  == SelectActingRole(held[a], sent[a].header)
           allowed == IF acting = None THEN {} ELSE sent[a].actions \cap PermissionsFor(acting)
           request == [sent[a] EXCEPT !.acting = acting, !.actions = allowed]
<1>1. sent \in [Accounts -> Request] /\ held[a] \in SUBSET Roles /\ held[a] # {}
  BY Domains DEF IInv, AdministratorsRemain
<1>2. acting \in RoleOrNone BY <1>1, SelectType
<1>3. RolesKept /\ UNCHANGED session BY DEF Authorize
<1>4. CASE allowed # {} /\ sent[a].target # a
  <2>1. sent' = [sent EXCEPT ![a].acting = acting, ![a].actions = allowed]
    BY <1>4 DEF Authorize
  <2>2. sent' = [sent EXCEPT ![a] = request]
    BY <1>1, <2>1
  <2>3. request \in Request /\ request.acting = acting /\ request.actions = allowed
    BY <1>1, <1>2 DEF Request
  <2>4. \A action \in allowed : acting \in FunctionRoles(action)
    BY PermittedByFunctions
  <2> HIDE DEF request
  <2> QED BY <1>3, <2>2, <2>3, <2>4, CallStep
<1>5. CASE ~(allowed # {} /\ sent[a].target # a)
  <2>1. SentEnds(a) BY <1>5 DEF Authorize
  <2> QED BY <1>3, <2>1, EndsStep
<1> QED BY <1>4, <1>5

(* The administrator who changes roles keeps the role: they change another  *)
(* account's, and leave it one.                                             *)
LEMMA RolesStep ==
  ASSUME IInv, NEW actor \in Accounts, NEW target, MayChange(actor, target),
         NEW roles \in SUBSET Roles, roles # {},
         held' = [held EXCEPT ![target] = roles]
  PROVE  held' \in [Accounts -> SUBSET Roles] /\ AdministratorsRemain'
<1>1. held \in [Accounts -> SUBSET Roles] /\ \A a \in Accounts : held[a] # {}
  BY Domains DEF IInv, AdministratorsRemain
<1>2. held' \in [Accounts -> SUBSET Roles] BY <1>1
<1>3. Technical \in held'[actor] BY <1>1 DEF MayChange
<1>4. \A a \in Accounts : held'[a] # {} BY <1>1
<1> QED BY <1>2, <1>3, <1>4 DEF AdministratorsRemain

LEMMA ChangeRolesKeeps == ASSUME IInv, NEW a \in Accounts, ChangeRoles(a) PROVE IInv'
<1>1. held' \in [Accounts -> SUBSET Roles] /\ AdministratorsRemain'
  <2>1. CASE MayChange(a, sent[a].target)
    <3>1. PICK role \in inPlay : held' = [held EXCEPT ![sent[a].target] = {role}]
      BY <2>1 DEF ChangeRoles
    <3>2. {role} \in SUBSET Roles BY <3>1, Domains DEF IInv
    <3> QED BY <2>1, <3>1, <3>2, RolesStep
  <2>2. CASE ~MayChange(a, sent[a].target)
    BY <2>2, Domains DEF ChangeRoles, IInv, AdministratorsRemain
  <2> QED BY <2>1, <2>2
<1>2. sent' = [sent EXCEPT ![a] = NothingSent] /\ UNCHANGED <<inPlay, session>>
  BY DEF ChangeRoles, SentEnds
<1>3. sent' \in [Accounts -> Request] /\ Authorized'
  BY <1>2, IdleType, Domains DEF IInv, Authorized
<1>4. AccessTypeOK'
  BY <1>1, <1>2, <1>3, Domains DEF IInv, AccessTypeOK, Session, Request, RoleOrNone
<1> QED BY <1>1, <1>3, <1>4 DEF IInv

LEMMA GrantKeeps ==
  ASSUME IInv, NEW actor \in Accounts, NEW target \in Accounts, GrantedInSQL(actor, target)
  PROVE  IInv'
<1>1. PICK role \in inPlay :
        \/ held' = [held EXCEPT ![target] = @ \cup {role}]
        \/ held[target] # {role} /\ held' = [held EXCEPT ![target] = @ \ {role}]
  BY DEF GrantedInSQL
<1>2. held[target] \in SUBSET Roles /\ held[target] # {} /\ role \in Roles
  BY Domains DEF IInv, AdministratorsRemain
<1>3. PICK roles \in SUBSET Roles : roles # {} /\ held' = [held EXCEPT ![target] = roles]
  BY <1>1, <1>2
<1>4. held' \in [Accounts -> SUBSET Roles] /\ AdministratorsRemain'
  BY <1>3, RolesStep DEF GrantedInSQL
<1>5. Authorized' BY DEF GrantedInSQL, IInv, Authorized
<1>6. AccessTypeOK'
  BY <1>4, Domains DEF GrantedInSQL, IInv, AccessTypeOK, Session, Request, RoleOrNone
<1> QED BY <1>4, <1>5, <1>6 DEF IInv

LEMMA NextKeeps == ASSUME IInv, [AccessNext]_accessVars PROVE IInv'
<1>1. ASSUME NEW a \in Accounts, Execute(a) \/ SentLost(a) PROVE IInv'
  BY <1>1, EndsStep DEF Execute, SentLost
<1>2. CASE UNCHANGED accessVars
  BY <1>2, Domains, SessionStep DEF accessVars, RolesKept, IInv
<1> QED BY <1>1, <1>2, BrowserKeeps, SendKeeps, AuthorizeKeeps, ChangeRolesKeeps, GrantKeeps DEF AccessNext

-----------------------------------------------------------------------------
LEMMA Invariant == AccessSpec => []IInv
  BY Starts, NextKeeps, PTL DEF AccessSpec

(* Every variable stays in its domain.                                      *)
THEOREM TypeCorrect == AccessSpec => []AccessTypeOK
<1>1. IInv => AccessTypeOK BY DEF IInv
<1> QED BY <1>1, Invariant, PTL

(* However many administrators change each other's roles at once, one is    *)
(* left, and every account keeps a role (change_account_roles).             *)
THEOREM AdministratorsNeverEnd == AccessSpec => []AdministratorsRemain
<1>1. IInv => AdministratorsRemain BY DEF IInv
<1> QED BY <1>1, Invariant, PTL

(* What the routes' table permits, the functions' own checks refuse only to *)
(* an account that lost the role meanwhile (auth/policy.ts against the      *)
(* role checks of the migrations).                                          *)
THEOREM TablesNeverDisagree == AccessSpec => []RefusedOnlyWhenLost
<1>1. IInv => RefusedOnlyWhenLost
  BY Domains, NoneIsNoRole DEF IInv, Authorized, RefusedOnlyWhenLost, Admits
<1> QED BY <1>1, Invariant, PTL

-----------------------------------------------------------------------------
(* Who sees an event.  Whatever names an event to someone gives them the    *)
(* relationship that the stage, the history and the table ask for.          *)

(* A venue and equipment may be asked for together, and an account may hold *)
(* any of the roles.                                                        *)
AnyRow ==
  {e \in [status : Statuses, organiser : People, coordinator : People \cup {None},
          supervisor : People \cup {None}, beside : People \cup {None},
          venue : {"none", "pending", "decided", "booked", "clashing"},
          equipment : {"none", "pending", "decided", "reserved"}] :
     /\ e.coordinator = None <=> e.status \in {"draft", "unassigned"}
     /\ e.supervisor # None => e.coordinator # None
     /\ e.beside # None => e.venue = "clashing"
     /\ e.status \in Early => {e.venue, e.equipment} = {"none"}}

AnyCaller(e) ==
  {c \in [account : People, role : Roles, colleague : BOOLEAN, roles : SUBSET Roles] :
     c.role \in c.roles /\ (c.account = e.organiser => c.colleague)}

LEMMA AllRoles ==
  Roles = {"attendee", Organiser, Officer, Lead, Holder, VenueStaff, Technical}
<1>1. DOMAIN DefaultOrder = {1, 2, 3, 4, 5, 6, 7}
  BY DEF DefaultOrder
<1>2. /\ DefaultOrder[1] = "attendee" /\ DefaultOrder[2] = Organiser /\ DefaultOrder[3] = Officer
      /\ DefaultOrder[4] = Lead /\ DefaultOrder[5] = Holder /\ DefaultOrder[6] = VenueStaff
      /\ DefaultOrder[7] = Technical
  BY DEF DefaultOrder, Organiser, Officer, Lead, Holder, VenueStaff
<1>3. QED  BY <1>1, <1>2 DEF Roles

LEMMA VisibilityStarts == VisibilityInit => watched \in AnyRow /\ caller \in AnyCaller(watched)
  BY DEF VisibilityInit, Rows, Callers, AnyRow, AnyCaller

(* The relationship rule of the routes and that of the database. *)
LEMMA RelationshipsAgree ==
  ASSUME watched \in AnyRow, caller \in AnyCaller(watched), NEW role \in Roles
  PROVE  RelationshipExists(role, caller, watched) <=>
           role \in caller.roles /\ HasEventRelationship(role, caller.account, watched)
<1>1. watched.venue \in {"none", "pending", "decided", "booked", "clashing"}
      /\ watched.equipment \in {"none", "pending", "decided", "reserved"}
  BY DEF AnyRow
<1> USE DEF Organiser, Officer, Lead, Holder, VenueStaff, Technical
<1>2. QED
  BY <1>1, AllRoles DEF RelationshipExists, HasEventRelationship, SAFETY_STATUSES

LEMMA NamedIsRelated ==
  ASSUME watched \in AnyRow, caller \in AnyCaller(watched), Named(caller, watched)
  PROVE  caller.role # "attendee" /\ HasEventRelationship(caller.role, caller.account, watched)
<1> USE DEF Organiser, Officer, Lead, Holder, VenueStaff, Technical, HasEventRelationship
<1>1. CASE OwnList(caller, watched)
  BY <1>1 DEF OwnList, OrganisationList
<1>2. CASE WorkQueue(caller, watched)
  BY <1>2 DEF WorkQueue, InternalWorkItems
<1>3. CASE UnassignedQueue(caller, watched)
  BY <1>3 DEF UnassignedQueue
<1>4. CASE SafetyCheckQueue(caller, watched)
  BY <1>4 DEF SafetyCheckQueue, SAFETY_STATUSES
<1>5. CASE Overview(caller, watched)
  BY <1>5 DEF Overview, Held, Requestable
<1>6. CASE SearchEvents(caller, watched)
  <2>1. caller.role # "attendee"
    BY <1>6 DEF SearchEvents, Internal
  <2>2. caller.role \in Roles
    BY DEF AnyCaller
  <2>3. QED  BY ONLY <1>6, <2>1, <2>2, RelationshipsAgree, watched \in AnyRow, caller \in AnyCaller(watched) DEF SearchEvents
<1>7. CASE ClashesFor(caller, watched)
  BY <1>7 DEF ClashesFor
<1>8. CASE ConflictsFor(caller, watched)
  BY <1>8 DEF ConflictsFor
<1>9. CASE Arrangements(caller, watched)
  BY <1>9 DEF Arrangements
<1>10. CASE Confirmation(caller, watched)
  BY <1>10 DEF Confirmation
<1>11. QED
  BY <1>1, <1>2, <1>3, <1>4, <1>5, <1>6, <1>7, <1>8, <1>9, <1>10 DEF Named, Queued

(* Every event named to someone is one they may open, and the two histories *)
(* agree, whatever the event asks for and however many roles are held       *)
(* (eventRelationship.ts and getHistory.ts against                          *)
(* event_relationship_exists and event_audit_logs_read).                    *)
THEOREM ReadersAlwaysAgree ==
  ASSUME watched \in AnyRow, caller \in AnyCaller(watched)
  PROVE  ReadersAgree
<1>1. caller.role \in caller.roles /\ caller.role \in Roles /\ caller.roles \subseteq Roles
  BY DEF AnyCaller
<1>2. Named(caller, watched) => ReadsStage(caller, watched) /\ RouteHistory(caller, watched) # {}
  BY NamedIsRelated DEF ReadsStage, RouteHistory
<1>3. RouteHistory(caller, watched) \subseteq TableHistory(caller, watched)
  BY <1>1, RelationshipsAgree DEF RouteHistory, TableHistory
<1>4. ASSUME caller.roles = {caller.role}
      PROVE  TableHistory(caller, watched) \subseteq RouteHistory(caller, watched)
  <2>1. RelationshipExists(caller.role, caller, watched) => caller.role # "attendee"
    BY DEF RelationshipExists, Organiser, Officer, Lead, Holder, VenueStaff, Technical
  <2>2. QED  BY <1>1, <1>4, <2>1, RelationshipsAgree DEF RouteHistory, TableHistory
<1>5. QED  BY <1>2, <1>3, <1>4 DEF ReadersAgree

(* Whoever an event waits on has it in a queue, may open it and has a route *)
(* that goes ahead, whatever the event asks for and however many roles are  *)
(* held (stageCalculator.ts against the queues' own copies of the statuses). *)
THEOREM WaitingAlwaysServed ==
  ASSUME watched \in AnyRow, caller \in AnyCaller(watched)
  PROVE  WaitingIsServed
<1> USE DEF Organiser, Officer, Lead, Holder, VenueStaff
<1>1. /\ watched.status \in Statuses /\ watched.organiser \in People
      /\ watched.coordinator = None <=> watched.status \in {"draft", "unassigned"}
      /\ caller.account \in People /\ caller.role \in Roles
      /\ caller.account = watched.organiser => caller.colleague
  BY DEF AnyRow, AnyCaller
<1> DEFINE action == WaitingOn(watched.status)[2]
<1>2. ASSUME Awaited(caller, watched)
      PROVE  Queued(caller, watched) /\ watched.status \in Accepts(action)
  <2>1. CASE watched.status \in {"draft", "needs_clarification"}
    <3>1. WaitingOn(watched.status) = <<Organiser, "submit">>
      BY <2>1 DEF WaitingOn
    <3>2. caller.role = Organiser /\ caller.account = watched.organiser
      BY <1>1, <1>2, <3>1, NoneIsNobody DEF Awaited, WaitingAccount
    <3>3. QED
      BY <1>1, <2>1, <3>1, <3>2 DEF Queued, OwnList, OrganisationList, Accepts, Submittable
  <2>2. CASE watched.status = "unassigned"
    <3>1. WaitingOn(watched.status) = <<Lead, "assign">>
      BY <2>2 DEF WaitingOn
    <3>2. caller.role = Lead
      BY <1>2, <3>1 DEF Awaited
    <3>3. QED
      BY <1>1, <2>2, <3>1, <3>2 DEF Queued, UnassignedQueue, Accepts, Assignable
  <2>3. CASE watched.status = "awaiting_safety_check"
    <3>1. WaitingOn(watched.status) = <<Officer, "check">>
      BY <2>3 DEF WaitingOn
    <3>2. caller.role = Officer
      BY <1>2, <3>1 DEF Awaited
    <3>3. QED
      BY <2>3, <3>1, <3>2 DEF Queued, SafetyCheckQueue, Accepts
  <2>4. CASE watched.status \in {"submitted", "under_review", "approved", "planning",
                                 "safety_rejected", "preparation"}
    <3>1. /\ WaitingOn(watched.status)[1] = Holder
          /\ watched.status \in Accepts(action)
      BY <2>4 DEF WaitingOn, Accepts, Requestable
    <3>2. watched.coordinator # None
      BY <1>1, <2>4
    <3>3. caller.role = Holder /\ caller.account = watched.coordinator
      BY <1>2, <3>1, <3>2 DEF Awaited, WaitingAccount
    <3>4. watched.status \in Assignable
      BY <2>4 DEF Assignable, Held, Requestable
    <3>5. QED
      BY <3>1, <3>2, <3>3, <3>4 DEF Queued, WorkQueue, InternalWorkItems
  <2>5. CASE watched.status \in {"confirmed", "completed", "cancelled", "rejected"}
    <3>1. WaitingOn(watched.status) = <<None, None>>
      BY <2>5 DEF WaitingOn
    <3>2. QED
      BY <1>1, <1>2, <3>1, NoneIsNobody DEF Awaited
  <2>6. QED
    BY <1>1, <2>1, <2>2, <2>3, <2>4, <2>5 DEF Statuses, Assignable, Held, Requestable, Submittable, Settled
<1>3. ASSUME Awaited(caller, watched) PROVE ReadsStage(caller, watched)
  BY <1>2, <1>3, NamedIsRelated DEF Named, ReadsStage
<1>4. ASSUME WaitingOn(watched.status)[1] = Holder, caller.role = Lead
      PROVE  ReadsStage(caller, watched) /\ watched.status \in Accepts("assign")
  <2>1. watched.status \in {"submitted", "under_review", "approved", "planning",
                            "safety_rejected", "preparation"}
    BY <1>1, <1>4, NoneIsNobody, AllRoles DEF WaitingOn
  <2>2. watched.status \in Accepts("assign")
    BY <2>1 DEF Accepts, Assignable, Held, Requestable
  <2>3. ReadsStage(caller, watched)
    BY <1>4, <2>1 DEF ReadsStage, HasEventRelationship, Technical
  <2>4. QED  BY <2>2, <2>3
<1>5. QED  BY <1>2, <1>3, <1>4 DEF WaitingIsServed
=============================================================================

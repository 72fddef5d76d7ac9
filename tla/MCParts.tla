------------------------------ MODULE MCParts ------------------------------
(***************************************************************************)
(* Nine parts of the system that share no state in the models, each on a   *)
(* small instance, the changes of an event on three.  A behaviour is a     *)
(* behaviour of one part, chosen at its start; the others stay at one      *)
(* state with nothing in it.  A part without steps is its initial states:  *)
(* one is one call, one record or one look at the database.  The           *)
(* properties are those of the parts' own modules.                         *)
(***************************************************************************)
EXTENDS EventChanges, Readiness, Equipment, Access, Inbox, Screens, Answers, VenueFinder,
        Visibility, TLC

CONSTANTS a1, a2,  \* accounts, equipment requests, subjects of a screen, routes in flight
          b1, b2,  \* forms, changes, details of an event
          w1, w2,  \* venue requests of an event
          plain, equipped \* details of an event, without and with equipment

VARIABLE part

Interchangeable == Permutations({a1, a2}) \cup Permutations({b1, b2})

stepVars  == <<vars, equipmentVars, accessVars, inboxVars, screenVars>>
queryVars == <<readinessVars, answersVars, finderVars, visibilityVars>>
partsVars == <<part, stepVars, queryVars>>

-----------------------------------------------------------------------------
(* A part that was not chosen: only what its properties look at has a       *)
(* value, and one that they are done with at once.                          *)

NoChanges    == event = ApprovedEvent(NoVersion) /\ NothingUnderWay
NoReadiness  == eventRow = [status |-> None] /\ venueRows = None /\ equipmentRows = None
NoEquipment  == /\ stock = [total |-> 0, operational |-> TRUE]
                /\ receipts = [r \in EquipmentRequests |-> NoReceipt]
                /\ demand = None /\ stages = None /\ forms = None
NoAccess     == /\ held = [a \in Accounts |-> {Technical}]
                /\ sent = [a \in Accounts |-> NothingSent]
                /\ inPlay = None /\ session = None
NoInbox      == /\ page = Empty /\ seen = {}
                /\ arrived = None /\ depth = None /\ load = None /\ change = None
NoScreens    == /\ shown = None /\ ask = None /\ failed = FALSE
                /\ screen = None /\ subject = None /\ late = None
                /\ save = None /\ own = None /\ content = None
NoAnswers    == call = loadAccess /\ answer = None /\ carried = FALSE /\ readable = FALSE
NoFinder     == /\ wanted = [from |-> 0, to |-> MonthEnd + MaxSearch + 1] /\ occupant = None
                /\ times = [setup |-> 0, turnaround |-> 0]
                /\ needs = Plain /\ venue = Hall /\ grants = {}
NoVisibility == /\ watched = [status |-> "draft", venue |-> "none"]
                /\ caller = [role |-> "attendee", roles |-> {}]

(* The three instances of EventChanges, each with bounds of its own: change *)
(* requests with one venue request, where one that is refused or changes a  *)
(* name alone meets one route in flight, any other two; two venue requests  *)
(* and two routes, with any rechecks and to the end of the event; and       *)
(* equipment, with two routes and details that ask for it or not.           *)
ChangesParts == {"changes", "venues", "loans"}

Details == IF part = "loans" THEN {plain, equipped} ELSE {b1, b2}

NoLoan     == /\ \A l \in Loans : arranged'[l] = "none"
              /\ Safety("equipment") \notin event'.rechecks
Lasts      == event'.status \notin {"completed", "cancelled"}
OneRecheck == Cardinality(event'.rechecks) <= 1
OneRoute   == Cardinality({c \in Calls : calls'[c] # Idle}) <= 1

BoundOf(instance) ==
  CASE instance = "changes" ->
         /\ Lasts /\ OneRecheck /\ NoLoan
         /\ arranged'[w2] = "none" /\ arranged'[w1] # "rejected"
         /\ \A r \in Requests :
              \/ requests'[r].state \in {"pending", "accepted"} /\ requests'[r].significant
              \/ requests'[r].state = "none"
              \/ OneRoute
    [] instance = "venues" ->
         NoLoan /\ UNCHANGED requests
    [] instance = "loans" ->
         /\ Lasts /\ OneRecheck /\ Safety("venue") \notin event'.rechecks
         /\ arranged'[w2] = "none" /\ UNCHANGED requests

ChangesBound ==
  /\ BoundOf(part)
  /\ \A r \in Requests : requests'[r].to \in Details \cup {NoVersion}
  /\ \A c \in Calls : calls'[c].shown \in Details \cup {NoVersion}

PartsInit ==
  /\ part \in ChangesParts \cup
            {"readiness", "equipment", "access", "inbox",
             "screens", "answers", "finder", "visibility"}
  /\ IF part \in ChangesParts THEN Init /\ event.shown \in Details ELSE NoChanges
  /\ IF part = "readiness"  THEN ReadinessInit  ELSE NoReadiness
  /\ IF part = "equipment"  THEN EquipmentInit  ELSE NoEquipment
  /\ IF part = "access"     THEN AccessInit     ELSE NoAccess
  /\ IF part = "inbox"      THEN InboxInit      ELSE NoInbox
  /\ IF part = "screens"    THEN ScreensInit    ELSE NoScreens
  /\ IF part = "answers"    THEN AnswersInit    ELSE NoAnswers
  /\ IF part = "finder"     THEN FinderInit     ELSE NoFinder
  /\ IF part = "visibility" THEN VisibilityInit ELSE NoVisibility

ChangesStep ==
  /\ part \in ChangesParts
  /\ UNCHANGED <<part, queryVars, equipmentVars, accessVars, inboxVars, screenVars>>
  /\ Next /\ ChangesBound

EquipmentStep ==
  /\ part = "equipment"
  /\ UNCHANGED <<part, queryVars, vars, accessVars, inboxVars, screenVars>>
  /\ EquipmentNext

AccessStep ==
  /\ part = "access"
  /\ UNCHANGED <<part, queryVars, vars, equipmentVars, inboxVars, screenVars>>
  /\ AccessNext

InboxStep ==
  /\ part = "inbox"
  /\ UNCHANGED <<part, queryVars, vars, equipmentVars, accessVars, screenVars>>
  /\ InboxNext

ScreensStep ==
  /\ part = "screens"
  /\ UNCHANGED <<part, queryVars, vars, equipmentVars, accessVars, inboxVars>>
  /\ ScreensNext

PartsNext == ChangesStep \/ EquipmentStep \/ AccessStep \/ InboxStep \/ ScreensStep

PartsSpec == PartsInit /\ [][PartsNext]_partsVars
=============================================================================

----------------------------- MODULE Equipment -----------------------------
(***************************************************************************)
(* One type of equipment: its stock, what events ask of it and what is     *)
(* reserved, edited from screens that keep the record they opened.  Every  *)
(* save is one database call under the row locks (manage_equipment_...),   *)
(* checked against the version the screen holds; its answer may be lost,   *)
(* and the screen then keeps the form for another try.                     *)
(***************************************************************************)
EXTENDS Integers, FiniteSetsExt, NoValue

CONSTANTS EquipmentRequests,  \* ids of equipment requests
          Screens,            \* forms open at one time
          Events,             \* events that may need the equipment
          MaxStock,           \* bound on the quantity held and asked for
          Horizon             \* last instant of a period

ASSUME EquipmentAssumption ==
  /\ MaxStock \in Nat /\ Horizon \in Nat
  /\ IsFiniteSet(EquipmentRequests)

VARIABLES stock,       \* quantity held and whether it is operational
          demand,      \* public.equipment_requests
          receipts,    \* public.equipment_reservations, per request
          stages,      \* the status of each event, as far as equipment looks at it
          forms        \* the open forms

equipmentVars == <<stock, demand, receipts, stages, forms>>

Arranging  == {"planning", "awaiting"}
Reservable == {"planning", "confirmed"}
Periods    == {p \in (0 .. Horizon) \X (0 .. Horizon) : p[1] < p[2]}

NoRequest == [event |-> None, status |-> "none", quantity |-> 0,
              short |-> None]
NoReceipt == [quantity |-> 0, period |-> <<0, 0>>]

-----------------------------------------------------------------------------
(* A form: its kind, the request it edits, and whether the version it holds *)
(* is still the record's.                                                   *)

Form(kind, request) == [kind |-> kind, request |-> request, fresh |-> TRUE]
NoForm == Form("none", None)

(* Every update of a row advances its version. *)
Outdated(request) ==
  [s \in Screens |-> [forms[s] EXCEPT !.fresh = @ /\ forms[s].request # request]]

(* An answer closes the form, a refusal by reloading the record first.  A   *)
(* lost answer leaves the form as it is, but a reservation must be reloaded. *)
FormAnswered(s, after) ==
  \/ forms' = [after EXCEPT ![s] = NoForm]
  \/ forms[s].kind # "reserve" /\ forms' = after

FormRefused(s) == FormAnswered(s, forms) /\ UNCHANGED <<stock, demand, receipts, stages>>

Open(s) ==
  /\ forms[s] = NoForm
  /\ \/ \E e \in Events : forms' = [forms EXCEPT ![s] = Form("create", e)]
     \/ \E r \in EquipmentRequests, kind \in {"amend", "arrange", "reserve"} :
          /\ \/ demand[r].status = "pending"
             \/ kind = "arrange" /\ demand[r].status = "approved"
          /\ forms' = [forms EXCEPT ![s] = Form(kind, r)]
     \/ forms' = [forms EXCEPT ![s] = Form("stock", "stock")]
  /\ UNCHANGED <<stock, demand, receipts, stages>>

Close(s) == /\ forms[s] # NoForm
            /\ forms' = [forms EXCEPT ![s] = NoForm]
            /\ UNCHANGED <<stock, demand, receipts, stages>>

-----------------------------------------------------------------------------
(* manage_equipment_requirements. *)

(* MUTANT of PendingFor: reserved requests are taken in.                   *)
LiveFor(e) == {r \in EquipmentRequests : demand[r].event = e /\ demand[r].status \in {"pending", "approved"}}

PendingFor(e) == {r \in EquipmentRequests : demand[r].event = e /\ demand[r].status = "pending"}

Create(s) ==
  /\ forms[s].kind = "create"
  /\ LET e == forms[s].request IN
       IF stages[e] \in Arranging /\ PendingFor(e) = {}
         THEN \E r \in {r \in EquipmentRequests : demand[r] = NoRequest}, quantity \in 1 .. MaxStock :
                /\ demand' = [demand EXCEPT ![r] = [NoRequest EXCEPT !.event = e, !.status = "pending",
                                                                     !.quantity = quantity]]
                /\ FormAnswered(s, forms)
                /\ UNCHANGED <<stock, receipts, stages>>
         ELSE FormRefused(s)

Amendable(r) ==
  stages[demand[r].event] \in Arranging /\ demand[r].status = "pending"

Amend(s) ==
  /\ forms[s].kind = "amend"
  /\ LET r == forms[s].request IN
       IF Amendable(r) /\ forms[s].fresh
         THEN \E quantity \in 1 .. MaxStock :
                /\ demand' = [demand EXCEPT ![r].quantity = quantity,
                                            ![r].short = None]
                /\ FormAnswered(s, Outdated(r))
                /\ UNCHANGED <<stock, receipts, stages>>
         ELSE FormRefused(s)

(* Technical Support records whether stock falls short, and where the       *)
(* equipment goes; a reserved demand is never short.                        *)
Arrange(s) ==
  /\ forms[s].kind = "arrange"
  /\ LET r == forms[s].request IN
       IF /\ stages[demand[r].event] \in Arranging
          /\ demand[r].status \in {"pending", "approved"}
          /\ forms[s].fresh
         THEN \E short \in BOOLEAN :
                /\ demand[r].status = "approved" => ~short
                /\ demand' = [demand EXCEPT ![r].short = short]
                /\ FormAnswered(s, Outdated(r))
                /\ UNCHANGED <<stock, receipts, stages>>
         ELSE FormRefused(s)

-----------------------------------------------------------------------------
(* manage_equipment_reservations. *)

Reserved == {r \in EquipmentRequests : receipts[r] # NoReceipt}

(* The receipts that take stock in a period, cut to it. *)
Intervals(period) ==
  {r \in Reserved :
     /\ stages[demand[r].event] # "closed"
     /\ receipts[r].period[1] < period[2]
     /\ receipts[r].period[2] > period[1]}

StartIn(r, period) == Max({receipts[r].period[1], period[1]})
EndIn(r, period)   == Min({receipts[r].period[2], period[2]})

QuantityOf(held, set) == MapThenSumSet(LAMBDA r : held[r].quantity, set)

(* MUTANT of Committed: what is reserved as the period starts.             *)
CommittedAtStart(period) ==
  QuantityOf(receipts, {r \in Intervals(period) : StartIn(r, period) = period[1]})

(* The running sum of arrivals and departures, at its highest. *)
Committed(period) ==
  LET over == Intervals(period)
      Instants == {StartIn(r, period) : r \in over} \cup {EndIn(r, period) : r \in over}
      Running(i) == QuantityOf(receipts, {r \in over : StartIn(r, period) <= i})
                      - QuantityOf(receipts, {r \in over : EndIn(r, period) <= i}) IN
    Max({0} \cup {Running(i) : i \in Instants})

Stocked == IF stock.operational THEN stock.total ELSE 0

Remaining(period) ==
  Max({0, Stocked - Committed(period)})

Reserve(s) ==
  /\ forms[s].kind = "reserve"
  /\ \E period \in Periods :
       LET r == forms[s].request IN
         IF /\ stages[demand[r].event] \in Reservable
            /\ receipts[r] = NoReceipt
            /\ demand[r].status = "pending"
            /\ forms[s].fresh
            /\ demand[r].quantity <= Remaining(period)
           THEN /\ receipts' = [receipts EXCEPT ![r] = [quantity |-> demand[r].quantity,
                                                        period |-> period]]
                /\ demand' = [demand EXCEPT ![r].status = "approved", ![r].short = FALSE]
                /\ FormAnswered(s, Outdated(r))
                /\ UNCHANGED <<stock, stages>>
           ELSE FormRefused(s)

-----------------------------------------------------------------------------
(* The catalogue.  Nothing compares a new quantity with what is reserved.   *)

UpdateStock(s) ==
  /\ forms[s].kind = "stock"
  /\ IF forms[s].fresh
       THEN /\ \E total \in 0 .. MaxStock, operational \in BOOLEAN :
                 stock' = [total |-> total, operational |-> operational]
            /\ FormAnswered(s, Outdated("stock"))
            /\ UNCHANGED <<demand, receipts, stages>>
       ELSE FormRefused(s)

-----------------------------------------------------------------------------
(* The event, as the other modules move it.  A cancelled event's pending    *)
(* requests go with it, a completed one has none; the receipts of both stay *)
(* but take no stock.                                                       *)

Moves(e) ==
  /\ stages[e] # "closed"
  /\ \E to \in (Arranging \cup Reservable) \ {stages[e]} :
       /\ to \in {"awaiting", "confirmed"} => PendingFor(e) = {}
       /\ stages' = [stages EXCEPT ![e] = to]
  /\ UNCHANGED <<stock, demand, receipts, forms>>

CloseEvent(e) ==
  /\ stages[e] # "closed"
  /\ stages' = [stages EXCEPT ![e] = "closed"]
  /\ demand' = [r \in EquipmentRequests |-> IF r \in PendingFor(e) THEN [demand[r] EXCEPT !.status = "cancelled"]
                                                          ELSE demand[r]]
  /\ forms' = [s \in Screens |-> [forms[s] EXCEPT !.fresh = @ /\ forms[s].request \notin PendingFor(e)]]
  /\ UNCHANGED <<stock, receipts>>

EquipmentInit ==
  /\ stock \in [total : 0 .. MaxStock, operational : {TRUE}]
  /\ demand = [r \in EquipmentRequests |-> NoRequest]
  /\ receipts = [r \in EquipmentRequests |-> NoReceipt]
  /\ stages = [e \in Events |-> "planning"]
  /\ forms = [s \in Screens |-> NoForm]

SaveForm(s) == Create(s) \/ Amend(s) \/ Arrange(s) \/ Reserve(s) \/ UpdateStock(s)

EquipmentNext == \/ \E s \in Screens : Open(s) \/ Close(s) \/ SaveForm(s)
        \/ \E e \in Events : Moves(e) \/ CloseEvent(e)

EquipmentSpec == EquipmentInit /\ [][EquipmentNext]_equipmentVars

-----------------------------------------------------------------------------
(* Types: every variable stays in its domain. *)
EquipmentTypeOK ==
  /\ stock \in [total : 0 .. MaxStock, operational : BOOLEAN]
  /\ demand \in [EquipmentRequests -> [event : Events \cup {None},
                              status : {"none", "pending", "approved", "cancelled"},
                              quantity : 0 .. MaxStock, short : BOOLEAN \cup {None}]]
  /\ receipts \in [EquipmentRequests -> [quantity : 0 .. MaxStock, period : (0 .. Horizon) \X (0 .. Horizon)]]
  /\ stages \in [Events -> Arranging \cup Reservable \cup {"closed"}]
  /\ forms \in [Screens -> [kind : {"none", "create", "amend", "arrange", "reserve", "stock"},
                            request : EquipmentRequests \cup Events \cup {None, "stock"},
                            fresh : BOOLEAN]]

(* At an instant, what open events have reserved.                          *)
UsedAt(i) == {r \in Reserved : /\ stages[demand[r].event] # "closed"
                               /\ receipts[r].period[1] <= i /\ i < receipts[r].period[2]}
InUse(i)  == QuantityOf(receipts, UsedAt(i))

(* At some instant of some reservation more is in use than there is. *)
Oversold ==
  \E r \in Reserved : \E i \in receipts[r].period[1] .. receipts[r].period[2] - 1 :
    InUse(i) > Stocked

(* More is reserved at some instant than there is only because the stock    *)
(* itself was reduced or taken out of service: never by a reservation,      *)
(* however many are made at once over whichever overlapping periods.        *)
ByStockAlone         == ~Oversold /\ Oversold' => stock' # stock
OversoldByStockAlone == [][ByStockAlone]_equipmentVars

(* A reservation covers the demand it was made for, to the piece, for as    *)
(* long as it stands: nobody amends or cancels what is reserved, and its    *)
(* recorded shortfall is none.                                              *)
ReceiptCoversDemand ==
  \A r \in Reserved : /\ demand[r].status = "approved"
                      /\ demand[r].quantity = receipts[r].quantity
                      /\ demand[r].short = FALSE
=============================================================================

--------------------------- MODULE EquipmentProofs ---------------------------
(***************************************************************************)
(* What holds of Equipment for any requests, events, screens, quantities   *)
(* and instants: its types, that a reservation covers the demand it was    *)
(* made for, and that no reservation sells stock a second time.            *)
(*                                                                         *)
(* The last needs what the sums of quantities add up to (they are folds    *)
(* over sets, taken in no order one can see), that the running sum of a    *)
(* period bounds what is in use at each of its instants, and Placed.       *)
(***************************************************************************)
EXTENDS Equipment, FiniteSetTheorems, TLAPS

\* What a request and a form look like.
Demand == [event : Events \cup {None}, status : {"none", "pending", "approved", "cancelled"},
           quantity : 0 .. MaxStock, short : BOOLEAN \cup {None}]
AForm  == [kind : {"none", "create", "amend", "arrange", "reserve", "stock"},
           request : EquipmentRequests \cup Events \cup {None, "stock"}, fresh : BOOLEAN]

\* A form edits a record of its kind.
FormsFit ==
  \A s \in Screens :
    /\ forms[s].kind = "create" => forms[s].request \in Events
    /\ forms[s].kind \in {"amend", "arrange", "reserve"} => forms[s].request \in EquipmentRequests

Inv == EquipmentTypeOK /\ FormsFit /\ ReceiptCoversDemand

\* The invariant of the forms alone, for any value they may have.
Fit(f) ==
  /\ f \in [Screens -> AForm]
  /\ \A s \in Screens :
       /\ f[s].kind = "create" => f[s].request \in Events
       /\ f[s].kind \in {"amend", "arrange", "reserve"} => f[s].request \in EquipmentRequests

\* Changing fields of a request or a form keeps its shape.
LEMMA DemandShape ==
  ASSUME NEW d \in Demand, NEW q \in 0 .. MaxStock, NEW x \in BOOLEAN \cup {None},
         NEW st \in {"none", "pending", "approved", "cancelled"}
  PROVE  /\ [d EXCEPT !.quantity = q, !.short = x] \in Demand
         /\ [d EXCEPT !.short = x] \in Demand
         /\ [d EXCEPT !.status = st, !.short = x] \in Demand
  BY DEF Demand

\* A new request has the shape of one.
LEMMA CreatedShape ==
  ASSUME NEW d \in Demand, NEW e \in Events, NEW q \in 0 .. MaxStock
  PROVE  [d EXCEPT !.event = e, !.status = "pending", !.quantity = q] \in Demand
  BY DEF Demand

\* And so has a cancelled one.
LEMMA CancelledShape ==
  ASSUME NEW d \in Demand PROVE [d EXCEPT !.status = "cancelled"] \in Demand
  BY DEF Demand

\* A form that goes stale still edits the same record.
LEMMA FormShape ==
  ASSUME NEW f \in AForm, NEW b \in BOOLEAN
  PROVE  /\ [f EXCEPT !.fresh = b] \in AForm
         /\ [f EXCEPT !.fresh = b].kind = f.kind /\ [f EXCEPT !.fresh = b].request = f.request
  BY DEF AForm

\* An update elsewhere, and an answer, leave forms that fit.
LEMMA OutdatedFits == ASSUME NEW r, Fit(forms) PROVE Fit(Outdated(r))
  BY DEF Fit, Outdated, AForm

\* An answer closes the form or keeps it.
LEMMA AnsweredFits ==
  ASSUME NEW s \in Screens, NEW after, Fit(after), FormAnswered(s, after) PROVE Fit(forms')
  <1>1. NoForm \in AForm /\ NoForm.kind = "none"
    BY DEF NoForm, Form, AForm
  <1>2. QED
    BY <1>1 DEF Fit, FormAnswered

\* The invariant: FormsFit says which record a save is made for, and with it
\* the types and the covering of receipts are inductive.
LEMMA InvHolds == EquipmentSpec => []Inv
  <1>0. MaxStock \in Nat /\ Horizon \in Nat
    BY EquipmentAssumption
  <1> USE <1>0
  <1>1. EquipmentInit => Inv
    <2> SUFFICES ASSUME EquipmentInit PROVE Inv
      OBVIOUS
    <2>1. EquipmentTypeOK
      <3>1. stock \in [total : 0 .. MaxStock, operational : BOOLEAN]
        BY DEF EquipmentInit
      <3>2. NoRequest \in Demand
        BY DEF NoRequest, Demand
      <3>3. NoReceipt \in [quantity : 0 .. MaxStock, period : (0 .. Horizon) \X (0 .. Horizon)]
        BY DEF NoReceipt
      <3>4. NoForm \in AForm
        BY DEF NoForm, Form, AForm
      <3>5. "planning" \in Arranging
        BY DEF Arranging
      <3>6. QED
        BY <3>1, <3>2, <3>3, <3>4, <3>5 DEF EquipmentInit, EquipmentTypeOK, Demand, AForm
    <2>2. FormsFit
      BY DEF EquipmentInit, FormsFit, NoForm, Form
    <2>3. ReceiptCoversDemand
      BY DEF EquipmentInit, ReceiptCoversDemand, Reserved
    <2>4. QED
      BY <2>1, <2>2, <2>3 DEF Inv
  <1>2. Inv /\ [EquipmentNext]_equipmentVars => Inv'
    <2> SUFFICES ASSUME Inv, [EquipmentNext]_equipmentVars PROVE Inv'
      OBVIOUS
    <2>a. /\ demand \in [EquipmentRequests -> Demand] /\ Fit(forms)
          /\ receipts \in [EquipmentRequests -> [quantity : 0 .. MaxStock, period : (0 .. Horizon) \X (0 .. Horizon)]]
          /\ stock \in [total : 0 .. MaxStock, operational : BOOLEAN]
          /\ stages \in [Events -> Arranging \cup Reservable \cup {"closed"}]
      BY DEF Inv, EquipmentTypeOK, FormsFit, Fit, AForm, Demand
    <2>b. ASSUME demand' \in [EquipmentRequests -> Demand], Fit(forms'),
                 receipts' \in [EquipmentRequests -> [quantity : 0 .. MaxStock, period : (0 .. Horizon) \X (0 .. Horizon)]],
                 stock' \in [total : 0 .. MaxStock, operational : BOOLEAN],
                 stages' \in [Events -> Arranging \cup Reservable \cup {"closed"}]
          PROVE  EquipmentTypeOK' /\ FormsFit'
      BY <2>b DEF EquipmentTypeOK, FormsFit, Fit, AForm, Demand
    <2>c. ASSUME UNCHANGED <<demand, receipts>> PROVE ReceiptCoversDemand'
      BY <2>c DEF Inv, ReceiptCoversDemand, Reserved
    <2>d. ASSUME UNCHANGED <<demand, receipts, stock>>, Fit(forms'),
                 stages' \in [Events -> Arranging \cup Reservable \cup {"closed"}]
          PROVE  Inv'
      BY <2>a, <2>b, <2>c, <2>d DEF Inv
    <2>e. ASSUME NEW s \in Screens, FormRefused(s) PROVE Inv'
      BY <2>a, <2>d, <2>e, AnsweredFits DEF FormRefused
    <2>1. ASSUME NEW s \in Screens, Open(s) PROVE Inv'
      <3>1. \A e \in Events : Form("create", e) \in AForm /\ Form("create", e).kind = "create"
                              /\ Form("create", e).request = e
        BY DEF Form, AForm
      <3>2. \A r \in EquipmentRequests, kind \in {"amend", "arrange", "reserve"} :
              Form(kind, r) \in AForm /\ Form(kind, r).kind = kind /\ Form(kind, r).request = r
        BY DEF Form, AForm
      <3>3. Form("stock", "stock") \in AForm /\ Form("stock", "stock").kind = "stock"
        BY DEF Form, AForm
      <3>4. Fit(forms')
        <4>1. PICK f \in AForm : /\ forms' = [forms EXCEPT ![s] = f]
                                 /\ f.kind = "create" => f.request \in Events
                                 /\ f.kind \in {"amend", "arrange", "reserve"} => f.request \in EquipmentRequests
          BY <2>1, <3>1, <3>2, <3>3 DEF Open
        <4>2. QED
          BY <2>a, <4>1 DEF Fit
      <3>5. QED
        BY <2>1, <2>a, <2>d, <3>4 DEF Open
    <2>2. ASSUME NEW s \in Screens, Close(s) PROVE Inv'
      <3>1. NoForm \in AForm /\ NoForm.kind = "none"
        BY DEF NoForm, Form, AForm
      <3>2. Fit(forms')
        BY <2>2, <2>a, <3>1 DEF Close, Fit
      <3>3. QED
        BY <2>2, <2>a, <2>d, <3>2 DEF Close
    <2>3. ASSUME NEW s \in Screens, Create(s) PROVE Inv'
      <3>1. CASE FormRefused(s)
        BY <2>e, <3>1
      <3>2. CASE \E r \in {r \in EquipmentRequests : demand[r] = NoRequest}, quantity \in 1 .. MaxStock :
                   /\ demand' = [demand EXCEPT ![r] = [NoRequest EXCEPT !.event = forms[s].request,
                                                         !.status = "pending", !.quantity = quantity]]
                   /\ FormAnswered(s, forms)
                   /\ UNCHANGED <<stock, receipts, stages>>
        <4>1. PICK r \in EquipmentRequests, quantity \in 1 .. MaxStock :
                   /\ demand[r] = NoRequest
                   /\ demand' = [demand EXCEPT ![r] = [NoRequest EXCEPT !.event = forms[s].request,
                                                         !.status = "pending", !.quantity = quantity]]
          BY <3>2
        <4> DEFINE new == [NoRequest EXCEPT !.event = forms[s].request,
                                            !.status = "pending", !.quantity = quantity]
        <4>2. new \in Demand
          <5>1. forms[s].kind = "create"
            BY <2>3 DEF Create
          <5>2. forms[s].request \in Events
            BY <5>1, <2>a DEF Fit
          <5>3. NoRequest \in Demand /\ quantity \in 0 .. MaxStock
            BY DEF NoRequest, Demand
          <5>4. QED
            BY <5>2, <5>3, CreatedShape
        <4>3. demand' \in [EquipmentRequests -> Demand]
          BY <2>a, <4>1, <4>2
        <4>4. EquipmentTypeOK' /\ FormsFit'
          BY <2>a, <2>b, <3>2, <4>3, AnsweredFits
        <4>5. demand[r].status # "approved"
          BY <4>1 DEF NoRequest
        <4>6. \A x \in EquipmentRequests : x # r => demand'[x] = demand[x]
          BY <2>a, <4>1
        <4>7. ReceiptCoversDemand'
          BY <3>2, <4>5, <4>6 DEF Inv, ReceiptCoversDemand, Reserved
        <4>8. QED
          BY <4>4, <4>7 DEF Inv
      <3>3. QED
        BY <2>3, <3>1, <3>2 DEF Create
    <2>4. ASSUME NEW s \in Screens, Amend(s) PROVE Inv'
      <3> DEFINE r == forms[s].request
      <3>0. r \in EquipmentRequests
        BY <2>4, <2>a DEF Amend, Fit
      <3>1. CASE FormRefused(s)
        BY <2>e, <3>1
      <3>2. CASE /\ demand[r].status = "pending"
                 /\ \E quantity \in 1 .. MaxStock :
                      /\ demand' = [demand EXCEPT ![r].quantity = quantity, ![r].short = None]
                      /\ FormAnswered(s, Outdated(r))
                      /\ UNCHANGED <<stock, receipts, stages>>
        <4> HIDE DEF r
        <4>1. PICK quantity \in 1 .. MaxStock :
                demand' = [demand EXCEPT ![r].quantity = quantity, ![r].short = None]
          BY <3>2
        <4> DEFINE new == [demand[r] EXCEPT !.quantity = quantity, !.short = None]
        <4>c. demand' = [demand EXCEPT ![r] = new]
          BY <2>a, <3>0, <4>1
        <4>d. new \in Demand
          <5>1. quantity \in 0 .. MaxStock /\ None \in BOOLEAN \cup {None}
            OBVIOUS
          <5>2. QED
            BY <2>a, <3>0, <5>1, DemandShape
        <4> HIDE DEF new
        <4>2. demand' \in [EquipmentRequests -> Demand]
          BY <2>a, <3>0, <4>c, <4>d
        <4>3. EquipmentTypeOK' /\ FormsFit'
          BY <2>a, <2>b, <3>2, <4>2, AnsweredFits, OutdatedFits
        <4>4. \A x \in EquipmentRequests : x # r => demand'[x] = demand[x]
          BY <2>a, <4>c
        <4>5. ReceiptCoversDemand'
          BY <3>2, <4>4 DEF Inv, ReceiptCoversDemand, Reserved
        <4>6. QED
          BY <4>3, <4>5 DEF Inv
      <3>3. QED
        BY <2>4, <3>1, <3>2 DEF Amend, Amendable
    <2>5. ASSUME NEW s \in Screens, Arrange(s) PROVE Inv'
      <3> DEFINE r == forms[s].request
      <3>0. r \in EquipmentRequests
        BY <2>5, <2>a DEF Arrange, Fit
      <3>1. CASE FormRefused(s)
        BY <2>e, <3>1
      <3>2. CASE \E short \in BOOLEAN :
                      /\ demand[r].status = "approved" => ~short
                      /\ demand' = [demand EXCEPT ![r].short = short]
                      /\ FormAnswered(s, Outdated(r))
                      /\ UNCHANGED <<stock, receipts, stages>>
        <4> HIDE DEF r
        <4>1. PICK short \in BOOLEAN :
                /\ demand[r].status = "approved" => ~short
                /\ demand' = [demand EXCEPT ![r].short = short]
          BY <3>2
        <4> DEFINE new == [demand[r] EXCEPT !.short = short]
        <4>c. demand' = [demand EXCEPT ![r] = new]
          BY <2>a, <3>0, <4>1
        <4>d. new \in Demand
          BY <2>a, <3>0, DemandShape
        <4> HIDE DEF new
        <4>2. demand' \in [EquipmentRequests -> Demand]
          BY <2>a, <3>0, <4>c, <4>d
        <4>3. EquipmentTypeOK' /\ FormsFit'
          BY <2>a, <2>b, <3>2, <4>2, AnsweredFits, OutdatedFits
        <4>4. \A x \in EquipmentRequests : x # r => demand'[x] = demand[x]
          BY <2>a, <4>c
        <4>5. /\ demand'[r].status = demand[r].status /\ demand'[r].quantity = demand[r].quantity
              /\ demand[r].status = "approved" => demand'[r].short = FALSE
          BY <2>a, <3>0, <4>1 DEF Demand
        <4>6. ReceiptCoversDemand'
          BY <3>2, <4>4, <4>5 DEF Inv, ReceiptCoversDemand, Reserved
        <4>7. QED
          BY <4>3, <4>6 DEF Inv
      <3>3. QED
        BY <2>5, <3>1, <3>2 DEF Arrange
    <2>6. ASSUME NEW s \in Screens, Reserve(s) PROVE Inv'
      <3> DEFINE r == forms[s].request
      <3>0. r \in EquipmentRequests
        BY <2>6, <2>a DEF Reserve, Fit
      <3>1. CASE FormRefused(s)
        BY <2>e, <3>1
      <3>2. CASE \E period \in Periods :
              /\ receipts' = [receipts EXCEPT ![r] = [quantity |-> demand[r].quantity, period |-> period]]
              /\ demand' = [demand EXCEPT ![r].status = "approved", ![r].short = FALSE]
              /\ FormAnswered(s, Outdated(r))
              /\ UNCHANGED <<stock, stages>>
        <4> HIDE DEF r
        <4>1. PICK period \in Periods :
              /\ receipts' = [receipts EXCEPT ![r] = [quantity |-> demand[r].quantity, period |-> period]]
              /\ demand' = [demand EXCEPT ![r].status = "approved", ![r].short = FALSE]
          BY <3>2
        <4> DEFINE new == [demand[r] EXCEPT !.status = "approved", !.short = FALSE]
        <4>c. demand' = [demand EXCEPT ![r] = new]
          BY <2>a, <3>0, <4>1
        <4>d. new \in Demand
          BY <2>a, <3>0, DemandShape
        <4> HIDE DEF new
        <4>2. demand' \in [EquipmentRequests -> Demand]
          BY <2>a, <3>0, <4>c, <4>d
        <4>3. period \in (0 .. Horizon) \X (0 .. Horizon) /\ demand[r].quantity \in 0 .. MaxStock
          BY <2>a, <3>0 DEF Periods, Demand
        <4>4. receipts' \in [EquipmentRequests -> [quantity : 0 .. MaxStock, period : (0 .. Horizon) \X (0 .. Horizon)]]
          BY <2>a, <4>1, <4>3
        <4>5. EquipmentTypeOK' /\ FormsFit'
          BY <2>a, <2>b, <3>2, <4>2, <4>4, AnsweredFits, OutdatedFits
        <4>6. \A x \in EquipmentRequests : x # r => demand'[x] = demand[x] /\ receipts'[x] = receipts[x]
          BY <2>a, <4>1
        <4>7. /\ demand'[r].status = "approved" /\ demand'[r].short = FALSE
              /\ demand'[r].quantity = receipts'[r].quantity
          BY <2>a, <3>0, <4>1 DEF Demand
        <4>8. ReceiptCoversDemand'
          BY <4>6, <4>7 DEF Inv, ReceiptCoversDemand, Reserved
        <4>9. QED
          BY <4>5, <4>8 DEF Inv
      <3>3. QED
        BY <2>6, <3>1, <3>2 DEF Reserve
    <2>7. ASSUME NEW s \in Screens, UpdateStock(s) PROVE Inv'
      <3>1. CASE FormRefused(s)
        BY <2>e, <3>1
      <3>2. CASE /\ \E total \in 0 .. MaxStock, operational \in BOOLEAN :
                      stock' = [total |-> total, operational |-> operational]
                 /\ FormAnswered(s, Outdated("stock"))
                 /\ UNCHANGED <<demand, receipts, stages>>
        <4>1. EquipmentTypeOK' /\ FormsFit'
          BY <2>a, <2>b, <3>2, AnsweredFits, OutdatedFits
        <4>2. QED
          BY <2>c, <3>2, <4>1 DEF Inv
      <3>3. QED
        BY <2>7, <3>1, <3>2 DEF UpdateStock
    <2>8. ASSUME NEW e \in Events, Moves(e) PROVE Inv'
      <3>1. stages' \in [Events -> Arranging \cup Reservable \cup {"closed"}]
        BY <2>8, <2>a DEF Moves
      <3>2. QED
        BY <2>8, <2>a, <2>d, <3>1 DEF Moves
    <2>9. ASSUME NEW e \in Events, CloseEvent(e) PROVE Inv'
      <3>1. \A r \in EquipmentRequests : \/ demand'[r] = demand[r]
                                \/ /\ demand[r].status = "pending"
                                   /\ demand'[r] = [demand[r] EXCEPT !.status = "cancelled"]
        BY <2>9 DEF CloseEvent, PendingFor
      <3>2. demand' \in [EquipmentRequests -> Demand]
        <4>1. \A r \in EquipmentRequests : demand'[r] \in Demand
          <5> TAKE r \in EquipmentRequests
          <5>1. [demand[r] EXCEPT !.status = "cancelled"] \in Demand
            BY <2>a, CancelledShape
          <5>2. QED
            BY <2>a, <3>1, <5>1
        <4>2. QED
          BY <2>9, <4>1 DEF CloseEvent
      <3>3. Fit(forms')
        <4> DEFINE b(x) == forms[x].fresh /\ forms[x].request \notin PendingFor(e)
        <4>1. \A x \in Screens : forms[x] \in AForm /\ b(x) \in BOOLEAN
          BY <2>a DEF Fit
        <4>2. forms' = [x \in Screens |-> [forms[x] EXCEPT !.fresh = b(x)]]
          BY <2>9 DEF CloseEvent
        <4> HIDE DEF b
        <4>3. \A x \in Screens : /\ forms'[x] \in AForm /\ forms'[x].kind = forms[x].kind
                                 /\ forms'[x].request = forms[x].request
          BY <4>1, <4>2, FormShape
        <4>4. forms' \in [Screens -> AForm]
          BY <4>2, <4>3
        <4>5. QED
          BY <2>a, <4>3, <4>4 DEF Fit
      <3>4. EquipmentTypeOK' /\ FormsFit'
        BY <2>9, <2>a, <2>b, <3>2, <3>3 DEF CloseEvent
      <3>5. ReceiptCoversDemand'
        BY <2>9, <3>1 DEF CloseEvent, Inv, ReceiptCoversDemand, Reserved
      <3>6. QED
        BY <3>4, <3>5 DEF Inv
    <2>10. CASE UNCHANGED equipmentVars
      BY <2>10, <2>a, <2>d DEF equipmentVars
    <2>11. QED
      BY <2>1, <2>2, <2>3, <2>4, <2>5, <2>6, <2>7, <2>8, <2>9, <2>10 DEF EquipmentNext, SaveForm
  <1>3. QED
    BY <1>1, <1>2, PTL DEF EquipmentSpec

\* Stock, requests, receipts, statuses and forms keep their types.
THEOREM TypeCorrect == EquipmentSpec => []EquipmentTypeOK
  BY InvHolds, PTL DEF Inv

\* Whatever forms are open and whichever answers are lost, a reservation stands
\* over an approved request of exactly its quantity, with no shortfall.
THEOREM ReceiptsCoverDemand == EquipmentSpec => []ReceiptCoversDemand
  BY InvHolds, PTL DEF Inv

-----------------------------------------------------------------------------
(* Sums of quantities.                                                     *)

\* A set of finite sets has a minimal one.
LEMMA MinimalSet ==
  ASSUME NEW U, IsFiniteSet(U), NEW T \in SUBSET (SUBSET U), T # {}
  PROVE  \E x \in T : \A y \in T : ~(y \subseteq x /\ y # x)
  <1>1. T \subseteq FiniteSubsetsOf(U)
    BY FS_Subset DEF FiniteSubsetsOf
  <1>2. IsWellFoundedOn(StrictSubsetOrdering(U), FiniteSubsetsOf(U))
    BY FS_StrictSubsetOrderingWellFounded
  <1>3. PICK x \in T : \A y \in T : ~(<<y, x>> \in StrictSubsetOrdering(U))
    BY <1>1, <1>2, WFMin
  <1>4. QED
    BY <1>3 DEF StrictSubsetOrdering

\* The row the sum over a set takes first.
First(s) == CHOOSE x \in s : TRUE

\* f gives the sum over every part of S.
Sums(held, S, f) ==
  f = [s \in SUBSET S |-> IF s = {} THEN 0 ELSE held[First(s)].quantity + f[s \ {First(s)}]]

\* The function the sum is defined by.
SumOver(held, S) == CHOOSE f : Sums(held, S, f)

LEMMA FirstIn == \A s : s # {} => First(s) \in s
  BY DEF First

\* What such a function returns.
LEMMA SumsAt ==
  ASSUME NEW held, NEW S, NEW f, Sums(held, S, f), NEW s \in SUBSET S
  PROVE  f[s] = IF s = {} THEN 0 ELSE held[First(s)].quantity + f[s \ {First(s)}]
  BY DEF Sums

\* The rows of S have one quantity in both.
Alike(held, other, S) == \A r \in S : held[r].quantity = other[r].quantity

LEMMA AlikeItself == \A held, S : Alike(held, held, S)
  BY DEF Alike

\* Two of them agree wherever both are defined, and whatever held says of the
\* rows outside.
LEMMA SumsAgree ==
  ASSUME NEW held, NEW other, NEW S, NEW T, NEW f, NEW g, Sums(held, S, f), Sums(other, T, g), IsFiniteSet(S),
         Alike(held, other, S \cap T),
         NEW u \in SUBSET (S \cap T)
  PROVE  f[u] = g[u]
  <1> DEFINE W == {v \in SUBSET u : f[v] # g[v]}
  <1>1. CASE W = {}
    BY <1>1
  <1>2. CASE W # {}
    <2>1. IsFiniteSet(u)
      BY FS_Subset
    <2>2. PICK x \in W : \A y \in W : ~(y \subseteq x /\ y # x)
      <3>1. W \in SUBSET (SUBSET u)
        OBVIOUS
      <3> HIDE DEF W
      <3>2. QED
        BY <1>2, <2>1, <3>1, MinimalSet
    <2>3. x \in SUBSET S /\ x \in SUBSET T
      OBVIOUS
    <2> HIDE DEF W
    <2>4. /\ f[x] = IF x = {} THEN 0 ELSE held[First(x)].quantity + f[x \ {First(x)}]
          /\ g[x] = IF x = {} THEN 0 ELSE other[First(x)].quantity + g[x \ {First(x)}]
      <3>1. f[x] = IF x = {} THEN 0 ELSE held[First(x)].quantity + f[x \ {First(x)}]
        BY <2>3, SumsAt
      <3>2. g[x] = IF x = {} THEN 0 ELSE other[First(x)].quantity + g[x \ {First(x)}]
        BY <2>3, SumsAt
      <3>3. QED
        BY <3>1, <3>2
    <2>5. x # {}
      BY <2>2, <2>4 DEF W
    <2>6. First(x) \in x
      BY <2>5, FirstIn
    <2>7. f[x \ {First(x)}] = g[x \ {First(x)}]
      BY <2>2, <2>6 DEF W
    <2>8. held[First(x)].quantity = other[First(x)].quantity
      BY <2>3, <2>6 DEF Alike
    <2>9. QED
      BY <2>2, <2>4, <2>5, <2>7, <2>8 DEF W
  <1>3. QED
    BY <1>1, <1>2

\* There is one for every finite set: put together from those of its parts.
LEMMA SumsExist ==
  ASSUME NEW held, NEW S, IsFiniteSet(S) PROVE Sums(held, S, SumOver(held, S))
  <1> DEFINE W == {s \in SUBSET S : ~ \E f : Sums(held, s, f)}
  <1>1. CASE W = {}
    BY <1>1 DEF SumOver
  <1>2. CASE W # {}
    <2>1. PICK s \in W : \A y \in W : ~(y \subseteq s /\ y # s)
      <3>1. W \in SUBSET (SUBSET S)
        OBVIOUS
      <3> HIDE DEF W
      <3>2. QED
        BY <1>2, <3>1, MinimalSet
    <2>2. \A u \in SUBSET s : u # s => Sums(held, u, SumOver(held, u))
      BY <2>1 DEF SumOver
    <2> DEFINE val(u) == SumOver(held, u)[u]
               total(u) == IF u = {} THEN 0 ELSE held[First(u)].quantity + val(u \ {First(u)})
               f == [u \in SUBSET s |-> total(u)]
    <2>3. ASSUME NEW u \in SUBSET s, u # s PROVE val(u) = total(u)
      <3>1. val(u) = IF u = {} THEN 0 ELSE held[First(u)].quantity + SumOver(held, u)[u \ {First(u)}]
        BY <2>2, <2>3, SumsAt
      <3>2. CASE u = {}
        BY <3>1, <3>2
      <3>3. CASE u # {}
        <4> DEFINE v == u \ {First(u)}
        <4>1. v \in SUBSET s /\ v # s /\ v \in SUBSET u
          BY <2>3, <3>3, FirstIn
        <4>2. IsFiniteSet(u)
          BY FS_Subset
        <4>3. SumOver(held, u)[v] = SumOver(held, v)[v]
          <5>1. Sums(held, u, SumOver(held, u)) /\ Sums(held, v, SumOver(held, v))
            BY <2>2, <2>3, <4>1
          <5>2. v \in SUBSET (u \cap v)
            BY <4>1
          <5> HIDE DEF v
          <5>3. QED
            BY <4>2, <5>1, <5>2, SumsAgree, AlikeItself
        <4>4. QED
          BY <3>1, <3>3, <4>3
      <3>4. QED
        BY <3>2, <3>3
    <2>4. ASSUME NEW u \in SUBSET s, u # {} PROVE f[u \ {First(u)}] = val(u \ {First(u)})
      <3>1. u \ {First(u)} \in SUBSET s /\ u \ {First(u)} # s
        BY <2>4, FirstIn
      <3> HIDE DEF val, total
      <3>2. QED
        BY <2>3, <3>1
    <2>5. Sums(held, s, f)
      <3>1. \A u \in SUBSET s :
              total(u) = IF u = {} THEN 0 ELSE held[First(u)].quantity + f[u \ {First(u)}]
        <4> HIDE DEF f, val
        <4>1. QED
          BY <2>4
      <3>2. f = [u \in SUBSET s |-> IF u = {} THEN 0 ELSE held[First(u)].quantity + f[u \ {First(u)}]]
        BY <3>1
      <3> HIDE DEF f
      <3>3. QED
        BY <3>2 DEF Sums
    <2>6. QED
      BY <2>1, <2>5
  <1>3. QED
    BY <1>1, <1>2

\* Nothing sums to nothing; otherwise the first row counts beside the rest.
LEMMA QuantityFirst ==
  ASSUME NEW held, NEW S, IsFiniteSet(S)
  PROVE  QuantityOf(held, S) = IF S = {} THEN 0
                               ELSE held[First(S)].quantity + QuantityOf(held, S \ {First(S)})
  <1>1. \A s : QuantityOf(held, s) = SumOver(held, s)[s]
    BY DEF QuantityOf, MapThenSumSet, MapThenFoldSet, SumOver, Sums, First
  <1> DEFINE rest == S \ {First(S)}
  <1>2. IsFiniteSet(rest)
    BY FS_Subset
  <1>3. Sums(held, S, SumOver(held, S)) /\ Sums(held, rest, SumOver(held, rest))
    <2> HIDE DEF rest
    <2>1. QED
      BY <1>2, SumsExist
  <1>4. SumOver(held, S)[rest] = SumOver(held, rest)[rest]
    <2>1. rest \in SUBSET (S \cap rest)
      OBVIOUS
    <2> HIDE DEF rest
    <2>2. QED
      BY <1>3, <2>1, SumsAgree, AlikeItself
  <1>5. SumOver(held, S)[S] = IF S = {} THEN 0 ELSE held[First(S)].quantity + SumOver(held, S)[rest]
    BY <1>3, SumsAt
  <1>6. QED
    BY <1>1, <1>4, <1>5

\* Receipts of rows, as far as their quantities go.
Quantities(held, S) == \A r \in S : held[r].quantity \in Nat

\* A sum of quantities is one.
LEMMA QuantityNat ==
  ASSUME NEW held, NEW S, IsFiniteSet(S), Quantities(held, S) PROVE QuantityOf(held, S) \in Nat
  <1> DEFINE W == {s \in SUBSET S : QuantityOf(held, s) \notin Nat}
  <1>1. CASE W = {}
    BY <1>1
  <1>2. CASE W # {}
    <2>1. PICK s \in W : \A y \in W : ~(y \subseteq s /\ y # s)
      <3>1. W \in SUBSET (SUBSET S)
        OBVIOUS
      <3> HIDE DEF W
      <3>2. QED
        BY <1>2, <3>1, MinimalSet
    <2>2. QuantityOf(held, s) = IF s = {} THEN 0
                                ELSE held[First(s)].quantity + QuantityOf(held, s \ {First(s)})
      BY FS_Subset, QuantityFirst
    <2>3. s # {} => First(s) \in S /\ QuantityOf(held, s \ {First(s)}) \in Nat
      BY <2>1, FirstIn
    <2>4. QED
      BY <2>1, <2>2, <2>3 DEF Quantities
  <1>3. QED
    BY <1>1, <1>2

\* Any row of a set counts beside the rest, not only the first.
LEMMA QuantityRow ==
  ASSUME NEW held, NEW S, IsFiniteSet(S), Quantities(held, S), NEW a \in S
  PROVE  QuantityOf(held, S) = held[a].quantity + QuantityOf(held, S \ {a})
  <1> DEFINE W == {s \in SUBSET S : \E b \in s : QuantityOf(held, s) # held[b].quantity + QuantityOf(held, s \ {b})}
  <1>1. CASE W = {}
    BY <1>1
  <1>2. CASE W # {}
    <2>1. PICK s \in W : \A y \in W : ~(y \subseteq s /\ y # s)
      <3>1. W \in SUBSET (SUBSET S)
        OBVIOUS
      <3> HIDE DEF W
      <3>2. QED
        BY <1>2, <3>1, MinimalSet
    <2>2. PICK b \in s : QuantityOf(held, s) # held[b].quantity + QuantityOf(held, s \ {b})
      OBVIOUS
    <2> DEFINE c == First(s)
               both == (s \ {b}) \ {c}
    <2>3. QuantityOf(held, s) = held[c].quantity + QuantityOf(held, s \ {c})
      BY <2>2, FS_Subset, QuantityFirst
    <2>4. c \in s /\ c # b
      BY <2>2, <2>3, FirstIn
    <2>5. s \ {c} \notin W /\ s \ {b} \notin W
      BY <2>1, <2>2, <2>4
    <2> HIDE DEF c
    <2>6. QuantityOf(held, s \ {c}) = held[b].quantity + QuantityOf(held, both)
      <3>1. (s \ {c}) \ {b} = both
        OBVIOUS
      <3>2. QED
        BY <2>4, <2>5, <3>1
    <2>7. QuantityOf(held, s \ {b}) = held[c].quantity + QuantityOf(held, both)
      BY <2>4, <2>5
    <2>8. QuantityOf(held, both) \in Nat
      <3>1. IsFiniteSet(both) /\ Quantities(held, both)
        BY FS_Subset DEF Quantities
      <3>2. QED
        BY <3>1, QuantityNat
    <2>9. held[b].quantity \in Nat /\ held[c].quantity \in Nat
      BY <2>4 DEF Quantities
    <2>10. QED
      BY <2>2, <2>3, <2>6, <2>7, <2>8, <2>9
  <1>3. QED
    BY <1>1, <1>2

\* A part sums to no more than the whole, and what two parts apart hold adds up.
LEMMA QuantityParts ==
  ASSUME NEW held, NEW S, NEW T, IsFiniteSet(S), IsFiniteSet(T), S \cap T = {}, Quantities(held, S \cup T)
  PROVE  QuantityOf(held, S \cup T) = QuantityOf(held, S) + QuantityOf(held, T)
  <1> DEFINE W == {s \in SUBSET S : QuantityOf(held, s \cup T) # QuantityOf(held, s) + QuantityOf(held, T)}
  <1>1. CASE W = {}
    BY <1>1
  <1>2. CASE W # {}
    <2>1. PICK s \in W : \A y \in W : ~(y \subseteq s /\ y # s)
      <3>1. W \in SUBSET (SUBSET S)
        OBVIOUS
      <3> HIDE DEF W
      <3>2. QED
        BY <1>2, <3>1, MinimalSet
    <2>0. s \in SUBSET S /\ QuantityOf(held, s \cup T) # QuantityOf(held, s) + QuantityOf(held, T)
      BY <2>1
    <2>2. QuantityOf(held, T) \in Nat
      BY QuantityNat DEF Quantities
    <2>3. s # {}
      <3>1. QuantityOf(held, {}) = 0
        BY FS_EmptySet, QuantityFirst
      <3>2. ASSUME s = {} PROVE s \cup T = T
        BY <3>2
      <3>3. 0 + QuantityOf(held, T) = QuantityOf(held, T)
        BY <2>2
      <3>4. QED
        BY <2>0, <3>1, <3>2, <3>3
    <2>4. PICK a \in s : TRUE
      BY <2>3
    <2>5. s \ {a} \notin W
      BY <2>1, <2>4
    <2>6. IsFiniteSet(s) /\ IsFiniteSet(s \cup T) /\ IsFiniteSet(s \ {a})
      BY FS_Subset, FS_Union
    <2>7. Quantities(held, s) /\ Quantities(held, s \cup T) /\ Quantities(held, s \ {a})
      BY DEF Quantities
    <2>8. /\ QuantityOf(held, s) = held[a].quantity + QuantityOf(held, s \ {a})
          /\ QuantityOf(held, s \cup T) = held[a].quantity + QuantityOf(held, (s \cup T) \ {a})
      BY <2>6, <2>7, QuantityRow
    <2>9. (s \cup T) \ {a} = (s \ {a}) \cup T
      BY <2>4
    <2>10. QuantityOf(held, s \ {a}) \in Nat /\ held[a].quantity \in Nat
      BY <2>6, <2>7, QuantityNat DEF Quantities
    <2>11. QuantityOf(held, (s \ {a}) \cup T) = QuantityOf(held, s \ {a}) + QuantityOf(held, T)
      BY <2>5
    <2>12. QuantityOf(held, (s \cup T) \ {a}) = QuantityOf(held, s \ {a}) + QuantityOf(held, T)
      BY <2>9, <2>11
    <2>13. QuantityOf(held, s \cup T) = QuantityOf(held, s) + QuantityOf(held, T)
      BY <2>2, <2>8, <2>10, <2>12
    <2>14. QED
      BY <2>0, <2>13
  <1>3. QED
    BY <1>1, <1>2

LEMMA QuantityLess ==
  ASSUME NEW held, NEW S, IsFiniteSet(S), Quantities(held, S), NEW T \in SUBSET S
  PROVE  QuantityOf(held, T) <= QuantityOf(held, S)
  <1>1. IsFiniteSet(T) /\ IsFiniteSet(S \ T) /\ Quantities(held, T) /\ Quantities(held, S \ T)
    BY FS_Subset DEF Quantities
  <1>2. QuantityOf(held, T) \in Nat /\ QuantityOf(held, S \ T) \in Nat
    BY <1>1, QuantityNat
  <1>3. T \cup (S \ T) = S /\ T \cap (S \ T) = {}
    OBVIOUS
  <1>4. QuantityOf(held, S) = QuantityOf(held, T) + QuantityOf(held, S \ T)
    BY <1>1, <1>3, QuantityParts
  <1>5. QED
    BY <1>2, <1>4

\* The sum looks only at the quantities of the rows it is taken over.
LEMMA QuantitySame ==
  ASSUME NEW held, NEW other, NEW S, IsFiniteSet(S), Alike(held, other, S)
  PROVE  QuantityOf(held, S) = QuantityOf(other, S)
  <1>1. \A h : QuantityOf(h, S) = SumOver(h, S)[S]
    BY DEF QuantityOf, MapThenSumSet, MapThenFoldSet, SumOver, Sums, First
  <1>2. Sums(held, S, SumOver(held, S)) /\ Sums(other, S, SumOver(other, S))
    BY SumsExist
  <1>3. S \in SUBSET (S \cap S)
    OBVIOUS
  <1>4. Alike(held, other, S \cap S)
    BY DEF Alike
  <1>5. SumOver(held, S)[S] = SumOver(other, S)[S]
    BY <1>2, <1>3, <1>4, SumsAgree
  <1>6. QED
    BY <1>1, <1>5

-----------------------------------------------------------------------------
(* Stock and reservations.                                                 *)

\* A request that exists is an event's, and a receipt runs for some time.
Placed ==
  /\ \A r \in EquipmentRequests : demand[r].status # "none" => demand[r].event \in Events
  /\ \A r \in Reserved : receipts[r].period \in Periods

\* The greatest of two, and of finitely many.
LEMMA MaxOfTwo ==
  ASSUME NEW a \in Int, NEW b \in Int
  PROVE  /\ Max({a, b}) \in {a, b} /\ Max({a, b}) >= a /\ Max({a, b}) >= b
         /\ Min({a, b}) \in {a, b} /\ Min({a, b}) <= a /\ Min({a, b}) <= b
  <1>1. \E x \in {a, b} : \A y \in {a, b} : x >= y
    OBVIOUS
  <1>2. \E x \in {a, b} : \A y \in {a, b} : x =< y
    OBVIOUS
  <1>3. Max({a, b}) \in {a, b} /\ \A y \in {a, b} : Max({a, b}) >= y
    BY <1>1 DEF Max
  <1>4. Min({a, b}) \in {a, b} /\ \A y \in {a, b} : Min({a, b}) =< y
    BY <1>2 DEF Min
  <1>5. QED
    BY <1>3, <1>4

\* Some row of a finite set has the fewest above it, whatever above says.
LEMMA Fewest ==
  ASSUME NEW S, IsFiniteSet(S), S # {}, NEW above \in [S -> SUBSET S]
  PROVE  \E x \in S : \A y \in S : ~(above[y] \subseteq above[x] /\ above[y] # above[x])
  <1> DEFINE sets == {above[x] : x \in S}
  <1>1. sets \in SUBSET (SUBSET S) /\ sets # {}
    OBVIOUS
  <1>2. PICK m \in sets : \A y \in sets : ~(y \subseteq m /\ y # m)
    <2> HIDE DEF sets
    <2>1. QED
      BY <1>1, MinimalSet
  <1>3. QED
    BY <1>2

Numbers(S) == S \subseteq Int

LEMMA MaxOfMany ==
  ASSUME NEW S, IsFiniteSet(S), S # {}, Numbers(S)
  PROVE  Max(S) \in S /\ \A y \in S : Max(S) >= y
  <1> DEFINE above == [x \in S |-> {y \in S : y > x}]
  <1>1. above \in [S -> SUBSET S]
    OBVIOUS
  <1>2. PICK x \in S : \A y \in S : ~(above[y] \subseteq above[x] /\ above[y] # above[x])
    <2> HIDE DEF above
    <2>1. QED
      BY <1>1, Fewest
  <1>3. ASSUME NEW y \in S, ~(x >= y) PROVE FALSE
    <2>1. x \in Int /\ y \in Int /\ \A z \in S : z > y => z > x
      BY <1>3 DEF Numbers
    <2>2. y \in above[x] /\ y \notin above[y]
      BY <1>3, <2>1
    <2>3. above[y] \subseteq above[x]
      BY <2>1
    <2>4. QED
      BY <1>2, <2>2, <2>3
  <1>4. \E z \in S : \A y \in S : z >= y
    BY <1>3
  <1>5. QED
    BY <1>4 DEF Max

\* Every set of requests has a quantity in stock.
LEMMA Quantifiable ==
  ASSUME Inv, NEW S \in SUBSET EquipmentRequests
  PROVE  IsFiniteSet(S) /\ Quantities(receipts, S) /\ QuantityOf(receipts, S) \in Nat
  <1>1. IsFiniteSet(S)
    BY EquipmentAssumption, FS_Subset
  <1>2. Quantities(receipts, S)
    BY EquipmentAssumption DEF Inv, EquipmentTypeOK, Quantities
  <1>3. QED
    BY <1>1, <1>2, QuantityNat

\* What runs in a period at one of its instants.
RunningAt(period, i) == QuantityOf(receipts, {r \in Intervals(period) : StartIn(r, period) <= i})
                          - QuantityOf(receipts, {r \in Intervals(period) : EndIn(r, period) <= i})

\* An interval keeps its order when it is cut to a period.
LEMMA CutInterval ==
  ASSUME Inv, Placed, NEW period \in Periods, NEW r \in Intervals(period)
  PROVE  /\ StartIn(r, period) \in Nat /\ EndIn(r, period) \in Nat
         /\ StartIn(r, period) < EndIn(r, period)
         /\ StartIn(r, period) \in {receipts[r].period[1], period[1]}
         /\ EndIn(r, period) \in {receipts[r].period[2], period[2]}
  <1> DEFINE a == receipts[r].period[1]
             b == receipts[r].period[2]
  <1>1. /\ a \in Nat /\ b \in Nat /\ a < b
        /\ period[1] \in Nat /\ period[2] \in Nat /\ period[1] < period[2]
        /\ a < period[2] /\ b > period[1]
    BY EquipmentAssumption DEF Placed, Periods, Intervals
  <1>2. StartIn(r, period) = Max({a, period[1]}) /\ EndIn(r, period) = Min({b, period[2]})
    BY DEF StartIn, EndIn
  <1> HIDE DEF a, b
  <1>3. /\ Max({a, period[1]}) \in {a, period[1]} /\ Min({b, period[2]}) \in {b, period[2]}
    <2>1. a \in Int /\ b \in Int /\ period[1] \in Int /\ period[2] \in Int
      BY <1>1
    <2>2. QED
      BY <2>1, MaxOfTwo
  <1>4. QED
    BY <1>1, <1>2, <1>3 DEF a, b

\* What is committed over a period is no less than what runs as any of its
\* intervals starts.
LEMMA CommittedCovers ==
  ASSUME Inv, Placed, NEW period \in Periods
  PROVE  /\ Committed(period) \in Int /\ 0 <= Committed(period)
         /\ \A r \in Intervals(period) : RunningAt(period, StartIn(r, period)) <= Committed(period)
  <1> DEFINE over == Intervals(period)
             starts == {StartIn(r, period) : r \in over}
             ends == {EndIn(r, period) : r \in over}
             all == {RunningAt(period, i) : i \in starts \cup ends}
  <1>1. over \in SUBSET EquipmentRequests
    BY DEF Intervals, Reserved
  <1>2. IsFiniteSet(over)
    BY <1>1, Quantifiable
  <1>3. IsFiniteSet(starts) /\ IsFiniteSet(ends)
    <2> DEFINE f == [r \in over |-> StartIn(r, period)]
               g == [r \in over |-> EndIn(r, period)]
    <2>1. f \in Surjection(over, starts) /\ g \in Surjection(over, ends)
      BY DEF Surjection
    <2> HIDE DEF over, starts, ends, f, g
    <2>2. QED
      BY <1>2, <2>1, FS_Surjection
  <1>4. IsFiniteSet(all)
    <2> DEFINE instants == starts \cup ends
               f == [i \in instants |-> RunningAt(period, i)]
    <2>1. IsFiniteSet(instants)
      BY <1>3, FS_Union
    <2>2. f \in Surjection(instants, all)
      BY DEF Surjection
    <2> HIDE DEF over, starts, ends, all, instants, f
    <2>3. QED
      BY <2>1, <2>2, FS_Surjection
  <1>5. \A i : RunningAt(period, i) \in Int
    <2> TAKE i
    <2>1. /\ {r \in over : StartIn(r, period) <= i} \in SUBSET EquipmentRequests
          /\ {r \in over : EndIn(r, period) <= i} \in SUBSET EquipmentRequests
      BY <1>1
    <2>2. QED
      BY <2>1, Quantifiable DEF RunningAt
  <1>6. Committed(period) = Max({0} \cup all)
    BY DEF Committed, RunningAt
  <1>7. IsFiniteSet({0} \cup all) /\ {0} \cup all \subseteq Int
    <2>1. all \subseteq Int /\ 0 \in Int
      BY <1>5
    <2>2. IsFiniteSet({0})
      BY FS_Singleton
    <2> HIDE DEF all
    <2>3. QED
      BY <1>4, <2>1, <2>2, FS_Union
  <1>8. Committed(period) \in {0} \cup all /\ \A y \in {0} \cup all : Committed(period) >= y
    <2> HIDE DEF all
    <2>1. QED
      BY <1>6, <1>7, MaxOfMany DEF Numbers
  <1>9. \A r \in over : RunningAt(period, StartIn(r, period)) \in all
    OBVIOUS
  <1>10. QED
    BY <1>5, <1>7, <1>8, <1>9

\* What is in use at an instant of a period is committed over it: it all runs
\* when the last of it has started.
LEMMA InUseCommitted ==
  ASSUME Inv, Placed, NEW period \in Periods, NEW i \in Nat, period[1] <= i, i < period[2]
  PROVE  InUse(i) <= Committed(period)
  <1> DEFINE over == Intervals(period)
             starts == {StartIn(r, period) : r \in UsedAt(i)}
  <1>0. /\ period[1] \in Nat /\ period[2] \in Nat
        /\ \A r \in Reserved : receipts[r].period[1] \in Nat /\ receipts[r].period[2] \in Nat
    BY EquipmentAssumption DEF Placed, Periods
  <1>1. UsedAt(i) \subseteq over /\ over \in SUBSET EquipmentRequests
    BY <1>0 DEF UsedAt, Intervals, Reserved
  <1>2. CASE UsedAt(i) = {}
    <2>1. InUse(i) = 0
      BY <1>2, FS_EmptySet, QuantityFirst DEF InUse
    <2>2. QED
      BY <2>1, CommittedCovers
  <1>3. CASE UsedAt(i) # {}
    <2>1. \A r \in UsedAt(i) : StartIn(r, period) \in Nat /\ StartIn(r, period) <= i
      BY <1>0, <1>1, CutInterval DEF UsedAt
    <2>2. \A r \in UsedAt(i) : EndIn(r, period) \in Nat /\ EndIn(r, period) > i
      BY <1>0, <1>1, CutInterval DEF UsedAt
    <2>3. IsFiniteSet(starts)
      <3> DEFINE f == [r \in UsedAt(i) |-> StartIn(r, period)]
      <3>1. f \in Surjection(UsedAt(i), starts)
        BY DEF Surjection
      <3>2. IsFiniteSet(UsedAt(i))
        BY <1>1, Quantifiable
      <3> HIDE DEF starts, f
      <3>3. QED
        BY <3>1, <3>2, FS_Surjection
    <2>4. starts # {} /\ starts \subseteq Int
      BY <1>3, <2>1
    <2>5. PICK last \in UsedAt(i) : \A r \in UsedAt(i) : StartIn(last, period) >= StartIn(r, period)
      <3>1. Max(starts) \in starts /\ \A y \in starts : Max(starts) >= y
        <4> HIDE DEF starts
        <4>1. QED
          BY <2>3, <2>4, MaxOfMany DEF Numbers
      <3>2. QED
        BY <3>1
    <2> DEFINE j == StartIn(last, period)
               started == {r \in over : StartIn(r, period) <= j}
               ended == {r \in over : EndIn(r, period) <= j}
    <2>6. j \in Nat /\ j <= i
      BY <2>1
    <2>7. ended \subseteq started /\ started \in SUBSET EquipmentRequests
      BY <1>1, <2>6, CutInterval
    <2>8. UsedAt(i) \subseteq started \ ended
      BY <1>1, <2>1, <2>2, <2>5, <2>6
    <2>9. RunningAt(period, j) = QuantityOf(receipts, started) - QuantityOf(receipts, ended)
      BY DEF RunningAt
    <2>10. RunningAt(period, j) <= Committed(period)
      BY <1>1, CommittedCovers
    <2> HIDE DEF j, started, ended
    <2>11. QuantityOf(receipts, started) = QuantityOf(receipts, started \ ended) + QuantityOf(receipts, ended)
      <3>1. (started \ ended) \cup ended = started /\ (started \ ended) \cap ended = {}
        BY <2>7
      <3>2. /\ IsFiniteSet(started \ ended) /\ IsFiniteSet(ended) /\ Quantities(receipts, started)
        BY <2>7, Quantifiable
      <3>3. QED
        BY <3>1, <3>2, QuantityParts
    <2>12. InUse(i) <= QuantityOf(receipts, started \ ended)
      <3>1. IsFiniteSet(started \ ended) /\ Quantities(receipts, started \ ended)
        BY <2>7, Quantifiable
      <3>2. QED
        BY <2>8, <3>1, QuantityLess DEF InUse
    <2>13. /\ QuantityOf(receipts, ended) \in Nat /\ QuantityOf(receipts, started \ ended) \in Nat
           /\ InUse(i) \in Nat /\ Committed(period) \in Int
      <3>1. /\ ended \in SUBSET EquipmentRequests /\ started \ ended \in SUBSET EquipmentRequests
            /\ UsedAt(i) \in SUBSET EquipmentRequests
        BY <1>1, <2>7
      <3>2. QED
        BY <3>1, Quantifiable, CommittedCovers DEF InUse
    <2>14. QED
      BY <2>9, <2>10, <2>11, <2>12, <2>13
  <1>4. QED
    BY <1>2, <1>3

-----------------------------------------------------------------------------
(* What a step does to receipts.                                           *)

\* Receipts stay, requests stay placed, and no closed event of a receipt opens.
Keeps ==
  /\ receipts' = receipts
  /\ \A r \in EquipmentRequests : demand'[r].status # "none" => demand'[r].event \in Events
  /\ \A r \in Reserved : stages'[demand'[r].event] # "closed" => stages[demand[r].event] # "closed"

\* A reservation that is granted.
Grants(r, period) ==
  /\ receipts[r] = NoReceipt /\ demand[r].quantity <= Remaining(period)
  /\ demand[r].event \in Events
  /\ receipts' = [receipts EXCEPT ![r] = [quantity |-> demand[r].quantity, period |-> period]]
  /\ \A x \in EquipmentRequests : demand'[x].event = demand[x].event
  /\ \A x \in EquipmentRequests : x # r => demand'[x] = demand[x]
  /\ UNCHANGED <<stock, stages>>

\* A receipt stands over an event's request.
LEMMA ReservedPlaced ==
  ASSUME Inv, Placed, NEW r \in Reserved PROVE demand[r].status = "approved" /\ demand[r].event \in Events
  BY DEF Inv, ReceiptCoversDemand, Placed, Reserved

\* Every step keeps the receipts or grants one.
LEMMA Steps ==
  ASSUME Inv, Placed, [EquipmentNext]_equipmentVars
  PROVE  Keeps \/ \E r \in EquipmentRequests, period \in Periods : Grants(r, period)
  <1>0. demand \in [EquipmentRequests -> Demand] /\ stages \in [Events -> Arranging \cup Reservable \cup {"closed"}]
        /\ \A s \in Screens : /\ forms[s].kind = "create" => forms[s].request \in Events
                              /\ forms[s].kind \in {"amend", "arrange", "reserve"}
                                   => forms[s].request \in EquipmentRequests
    BY DEF Inv, EquipmentTypeOK, Demand, FormsFit
  <1>a. ASSUME UNCHANGED <<demand, receipts, stages>> PROVE Keeps
    BY <1>a DEF Placed, Keeps
  <1>b. ASSUME NEW s \in Screens, FormRefused(s) PROVE Keeps
    BY <1>a, <1>b DEF FormRefused
  <1>c. ASSUME NEW r \in EquipmentRequests, NEW new, demand' = [demand EXCEPT ![r] = new],
               new.event = demand[r].event, demand[r].status # "none", UNCHANGED <<receipts, stages>>
        PROVE  Keeps
    BY <1>0, <1>c DEF Placed, Keeps, Reserved
  <1>1. ASSUME NEW s \in Screens, Open(s) \/ Close(s) PROVE Keeps
    BY <1>a, <1>1 DEF Open, Close
  <1>2. ASSUME NEW s \in Screens, Create(s) PROVE Keeps
    <2>1. CASE FormRefused(s)
      BY <1>b, <2>1
    <2>2. CASE \E r \in {r \in EquipmentRequests : demand[r] = NoRequest}, quantity \in 1 .. MaxStock :
                 /\ demand' = [demand EXCEPT ![r] = [NoRequest EXCEPT !.event = forms[s].request,
                                                       !.status = "pending", !.quantity = quantity]]
                 /\ UNCHANGED <<stock, receipts, stages>>
      <3>1. PICK r \in EquipmentRequests, quantity \in 1 .. MaxStock :
                 /\ demand[r] = NoRequest
                 /\ demand' = [demand EXCEPT ![r] = [NoRequest EXCEPT !.event = forms[s].request,
                                                       !.status = "pending", !.quantity = quantity]]
        BY <2>2
      <3>2. forms[s].request \in Events
        BY <1>0, <1>2 DEF Create
      <3>3. r \notin Reserved
        <4>1. demand[r].status = "none"
          BY <3>1 DEF NoRequest
        <4>2. QED
          BY <4>1, ReservedPlaced
      <3>4. demand'[r].event \in Events
        BY <1>0, <3>1, <3>2 DEF NoRequest
      <3>5. \A x \in EquipmentRequests : x # r => demand'[x] = demand[x]
        BY <1>0, <3>1
      <3>6. QED
        BY <2>2, <3>3, <3>4, <3>5 DEF Placed, Keeps, Reserved
    <2>3. QED
      BY <1>2, <2>1, <2>2 DEF Create
  <1>3. ASSUME NEW s \in Screens, Amend(s) PROVE Keeps
    <2> DEFINE r == forms[s].request
    <2>0. r \in EquipmentRequests
      BY <1>0, <1>3 DEF Amend
    <2>1. CASE FormRefused(s)
      BY <1>b, <2>1
    <2>2. CASE /\ demand[r].status = "pending"
               /\ \E quantity \in 1 .. MaxStock : demand' = [demand EXCEPT ![r].quantity = quantity, ![r].short = None]
               /\ UNCHANGED <<receipts, stages>>
      <3> HIDE DEF r
      <3>1. PICK quantity \in 1 .. MaxStock : demand' = [demand EXCEPT ![r].quantity = quantity, ![r].short = None]
        BY <2>2
      <3> DEFINE new == [demand[r] EXCEPT !.quantity = quantity, !.short = None]
      <3>2. demand' = [demand EXCEPT ![r] = new]
        BY <1>0, <2>0, <3>1
      <3>3. new.event = demand[r].event
        BY <1>0, <2>0 DEF Demand
      <3> HIDE DEF new
      <3>4. QED
        BY <1>c, <2>0, <2>2, <3>2, <3>3
    <2>3. QED
      BY <1>3, <2>1, <2>2 DEF Amend, Amendable
  <1>4. ASSUME NEW s \in Screens, Arrange(s) PROVE Keeps
    <2> DEFINE r == forms[s].request
    <2>0. r \in EquipmentRequests
      BY <1>0, <1>4 DEF Arrange
    <2>1. CASE FormRefused(s)
      BY <1>b, <2>1
    <2>2. CASE /\ demand[r].status \in {"pending", "approved"}
               /\ \E short \in BOOLEAN : demand' = [demand EXCEPT ![r].short = short]
               /\ UNCHANGED <<receipts, stages>>
      <3> HIDE DEF r
      <3>1. PICK short \in BOOLEAN : demand' = [demand EXCEPT ![r].short = short]
        BY <2>2
      <3> DEFINE new == [demand[r] EXCEPT !.short = short]
      <3>2. demand' = [demand EXCEPT ![r] = new]
        BY <1>0, <2>0, <3>1
      <3>3. new.event = demand[r].event
        BY <1>0, <2>0 DEF Demand
      <3> HIDE DEF new
      <3>4. QED
        BY <1>c, <2>0, <2>2, <3>2, <3>3
    <2>3. QED
      BY <1>4, <2>1, <2>2 DEF Arrange
  <1>5. ASSUME NEW s \in Screens, Reserve(s)
        PROVE  Keeps \/ \E r \in EquipmentRequests, period \in Periods : Grants(r, period)
    <2> DEFINE r == forms[s].request
    <2>0. r \in EquipmentRequests
      BY <1>0, <1>5 DEF Reserve
    <2>1. CASE FormRefused(s)
      BY <1>b, <2>1
    <2>2. CASE /\ receipts[r] = NoReceipt /\ demand[r].status = "pending"
               /\ \E period \in Periods :
                    /\ demand[r].quantity <= Remaining(period)
                    /\ receipts' = [receipts EXCEPT ![r] = [quantity |-> demand[r].quantity, period |-> period]]
               /\ demand' = [demand EXCEPT ![r].status = "approved", ![r].short = FALSE]
               /\ UNCHANGED <<stock, stages>>
      <3> HIDE DEF r
      <3>1. PICK period \in Periods :
              /\ demand[r].quantity <= Remaining(period)
              /\ receipts' = [receipts EXCEPT ![r] = [quantity |-> demand[r].quantity, period |-> period]]
        BY <2>2
      <3>2. demand[r].event \in Events
        BY <2>0, <2>2 DEF Placed
      <3>3. \A x \in EquipmentRequests : demand'[x].event = demand[x].event
        BY <1>0, <2>0, <2>2 DEF Demand
      <3>4. \A x \in EquipmentRequests : x # r => demand'[x] = demand[x]
        BY <1>0, <2>0, <2>2
      <3>5. Grants(r, period)
        BY <2>2, <3>1, <3>2, <3>3, <3>4 DEF Grants
      <3>6. QED
        BY <2>0, <3>5
    <2>3. QED
      BY <1>5, <2>1, <2>2 DEF Reserve
  <1>6. ASSUME NEW s \in Screens, UpdateStock(s) PROVE Keeps
    BY <1>a, <1>b, <1>6 DEF UpdateStock
  <1>7. ASSUME NEW e \in Events, Moves(e) PROVE Keeps
    <2>1. PICK to \in (Arranging \cup Reservable) \ {stages[e]} : stages' = [stages EXCEPT ![e] = to]
      BY <1>7 DEF Moves
    <2>2. \A x \in Events : stages'[x] # "closed" => stages[x] # "closed"
      BY <1>0, <1>7, <2>1 DEF Moves
    <2>3. QED
      BY <1>7, <2>2, ReservedPlaced DEF Moves, Placed, Keeps
  <1>8. ASSUME NEW e \in Events, CloseEvent(e) PROVE Keeps
    <2>1. \A r \in EquipmentRequests : \/ demand'[r] = demand[r]
                              \/ /\ demand[r].status = "pending"
                                 /\ demand'[r] = [demand[r] EXCEPT !.status = "cancelled"]
      BY <1>8 DEF CloseEvent, PendingFor
    <2>2. \A r \in EquipmentRequests : demand'[r].event = demand[r].event
      <3>1. \A d \in Demand : [d EXCEPT !.status = "cancelled"].event = d.event
        BY DEF Demand
      <3>2. QED
        BY <1>0, <2>1, <3>1
    <2>3. \A x \in Events : stages'[x] # "closed" => stages[x] # "closed"
      BY <1>0, <1>8 DEF CloseEvent
    <2>4. \A r \in EquipmentRequests : demand'[r].status # "none" => demand'[r].event \in Events
      BY <2>1, <2>2 DEF Placed
    <2>5. \A r \in Reserved : stages'[demand'[r].event] # "closed" => stages[demand[r].event] # "closed"
      <3> TAKE r \in Reserved
      <3>1. r \in EquipmentRequests /\ demand[r].event \in Events
        BY ReservedPlaced DEF Reserved
      <3>2. QED
        BY <2>2, <2>3, <3>1
    <2>6. QED
      BY <1>8, <2>4, <2>5 DEF CloseEvent, Keeps
  <1>9. CASE UNCHANGED equipmentVars
    BY <1>a, <1>9 DEF equipmentVars
  <1>10. QED
    BY <1>1, <1>2, <1>3, <1>4, <1>5, <1>6, <1>7, <1>8, <1>9 DEF EquipmentNext, SaveForm

\* A granted receipt is one, and no other is touched.
LEMMA GrantedReceipts ==
  ASSUME Inv, NEW r \in EquipmentRequests, NEW period \in Periods, Grants(r, period)
  PROVE  /\ Reserved' = Reserved \cup {r} /\ r \notin Reserved
         /\ receipts'[r].period = period /\ receipts'[r].quantity = demand[r].quantity
         /\ \A x \in EquipmentRequests : x # r => receipts'[x] = receipts[x]
  <1>1. receipts'[r] = [quantity |-> demand[r].quantity, period |-> period]
        /\ \A x \in EquipmentRequests : x # r => receipts'[x] = receipts[x]
    BY DEF Grants, Inv, EquipmentTypeOK
  <1>2. receipts'[r] # NoReceipt
    BY <1>1 DEF NoReceipt, Periods
  <1>3. receipts[r] = NoReceipt
    BY DEF Grants
  <1>4. Reserved' = {x \in EquipmentRequests : receipts'[x] # NoReceipt}
    BY DEF Reserved
  <1>5. QED
    BY <1>1, <1>2, <1>3, <1>4 DEF Reserved

\* Requests stay placed.
LEMMA PlacedHolds == EquipmentSpec => []Placed
  <1>1. EquipmentInit => Placed
    BY DEF EquipmentInit, Placed, NoRequest, Reserved
  <1>2. Inv /\ Placed /\ [EquipmentNext]_equipmentVars => Placed'
    <2> SUFFICES ASSUME Inv, Placed, [EquipmentNext]_equipmentVars PROVE Placed'
      OBVIOUS
    <2>1. CASE Keeps
      BY <2>1 DEF Placed, Keeps, Reserved
    <2>2. ASSUME NEW r \in EquipmentRequests, NEW period \in Periods, Grants(r, period) PROVE Placed'
      <3>1. \A x \in Reserved' : receipts'[x].period \in Periods
        BY <2>2, GrantedReceipts DEF Placed, Reserved
      <3>2. \A x \in EquipmentRequests : demand'[x].status # "none" => demand'[x].event \in Events
        BY <2>2 DEF Placed, Grants
      <3>3. Periods' = Periods
        BY DEF Periods
      <3>4. QED
        BY <3>1, <3>2, <3>3 DEF Placed
    <2>3. QED
      BY <2>1, <2>2, Steps
  <1>3. QED
    BY <1>1, <1>2, InvHolds, PTL DEF EquipmentSpec

\* What was not oversold and keeps its receipts is not oversold.
LEMMA KeepsStock ==
  ASSUME Inv, Keeps, UNCHANGED stock, ~Oversold PROVE ~Oversold'
  <1>1. \A i : UsedAt(i)' \subseteq UsedAt(i)
    BY DEF UsedAt, Reserved, Keeps
  <1>2. ASSUME NEW i \in Int PROVE InUse(i)' <= InUse(i)
    <2>1. UsedAt(i) \in SUBSET EquipmentRequests
      BY DEF UsedAt, Reserved
    <2>2. InUse(i)' = QuantityOf(receipts, UsedAt(i)')
      BY DEF InUse, Keeps
    <2>3. QED
      BY <1>1, <2>1, <2>2, Quantifiable, QuantityLess DEF InUse
  <1>3. \A i \in Int : InUse(i) \in Int /\ InUse(i)' \in Int
    <2> TAKE i \in Int
    <2>1. UsedAt(i) \in SUBSET EquipmentRequests /\ UsedAt(i)' \in SUBSET EquipmentRequests
      BY <1>1 DEF UsedAt, Reserved
    <2>2. InUse(i)' = QuantityOf(receipts, UsedAt(i)')
      BY DEF InUse, Keeps
    <2>3. QED
      BY <2>1, <2>2, Quantifiable DEF InUse
  <1>4. Stocked' = Stocked /\ Stocked \in Int
    BY DEF Stocked, Inv, EquipmentTypeOK
  <1>5. ASSUME NEW r \in Reserved', NEW i \in receipts'[r].period[1] .. receipts'[r].period[2] - 1,
               InUse(i)' > Stocked'
        PROVE  FALSE
    <2>1. r \in Reserved /\ i \in receipts[r].period[1] .. receipts[r].period[2] - 1
      BY <1>5 DEF Keeps, Reserved
    <2>2. i \in Int
      BY <1>5
    <2>3. InUse(i) > Stocked
      BY <1>2, <1>3, <1>4, <1>5, <2>2
    <2>4. QED
      BY <2>1, <2>3 DEF Oversold
  <1>6. QED
    BY <1>5 DEF Oversold

\* A reservation that is granted sells no more than there is at any instant.
LEMMA GrantsStock ==
  ASSUME Inv, Placed, NEW r \in EquipmentRequests, NEW period \in Periods, Grants(r, period), ~Oversold
  PROVE  ~Oversold'
  <1> DEFINE quantity == demand[r].quantity
  <1>0. /\ quantity \in Nat /\ Stocked' = Stocked /\ Stocked \in Nat
        /\ period[1] \in Nat /\ period[2] \in Nat
    BY EquipmentAssumption DEF Inv, EquipmentTypeOK, Stocked, Grants, Periods
  <1>1. \A i : r \notin UsedAt(i) /\ UsedAt(i) \in SUBSET EquipmentRequests
    BY GrantedReceipts DEF UsedAt, Reserved
  <1>2. \A i : UsedAt(i)' \subseteq UsedAt(i) \cup (IF period[1] <= i /\ i < period[2] THEN {r} ELSE {})
    <2>1. \A x \in EquipmentRequests : stages'[demand'[x].event] = stages[demand[x].event]
      BY DEF Grants
    <2>2. QED
      BY <2>1, GrantedReceipts DEF UsedAt, Reserved
  <1>3. ASSUME NEW i, NEW S \in SUBSET UsedAt(i)
        PROVE  QuantityOf(receipts', S) = QuantityOf(receipts, S) /\ QuantityOf(receipts, S) \in Nat
               /\ QuantityOf(receipts, S) <= InUse(i) /\ InUse(i) \in Nat
    <2>1. Alike(receipts', receipts, S)
      BY <1>1, GrantedReceipts DEF Alike
    <2>2. S \in SUBSET EquipmentRequests
      BY <1>1
    <2>3. IsFiniteSet(S) /\ IsFiniteSet(UsedAt(i)) /\ Quantities(receipts, UsedAt(i))
          /\ QuantityOf(receipts, S) \in Nat /\ QuantityOf(receipts, UsedAt(i)) \in Nat
      BY <1>1, <2>2, Quantifiable
    <2>4. QED
      BY <2>1, <2>3, QuantitySame, QuantityLess DEF InUse
  <1>4. ASSUME NEW x \in Reserved', NEW i \in receipts'[x].period[1] .. receipts'[x].period[2] - 1,
               InUse(i)' > Stocked'
        PROVE  FALSE
    <2> DEFINE used == UsedAt(i)'
               before == used \ {r}
    <2>1. before \subseteq UsedAt(i)
      BY <1>2
    <2>2. InUse(i)' = QuantityOf(receipts', used)
      BY DEF InUse
    <2>3. InUse(i) <= Stocked
      <3>1. CASE UsedAt(i) = {}
        <4>1. InUse(i) = 0
          BY <3>1, FS_EmptySet, QuantityFirst DEF InUse
        <4>2. QED
          BY <1>0, <4>1
      <3>2. CASE UsedAt(i) # {}
        <4>1. PICK y \in UsedAt(i) : TRUE
          BY <3>2
        <4>2. /\ y \in Reserved /\ i \in Int /\ receipts[y].period[1] <= i /\ i < receipts[y].period[2]
              /\ receipts[y].period[1] \in Int /\ receipts[y].period[2] \in Int
          BY <1>4, EquipmentAssumption DEF UsedAt, Placed, Periods
        <4>3. i \in receipts[y].period[1] .. receipts[y].period[2] - 1
          BY <4>2
        <4>4. ~(InUse(i) > Stocked)
          BY <4>2, <4>3 DEF Oversold
        <4>5. QED
          BY <1>0, <1>3, <4>4
      <3>3. QED
        BY <3>1, <3>2
    <2>4. /\ QuantityOf(receipts', before) <= InUse(i)
          /\ QuantityOf(receipts', before) \in Nat /\ InUse(i) \in Nat
      BY <1>3, <2>1
    <2>5. CASE r \notin used
      <3>1. before = used
        BY <2>5
      <3>2. QED
        BY <1>0, <1>3, <1>4, <2>2, <2>3, <2>4, <3>1
    <2>6. CASE r \in used
      <3>1. i \in Int /\ period[1] <= i /\ i < period[2]
        BY <1>1, <1>2, <1>4, <2>6
      <3>2. i \in Nat
        BY <1>0, <3>1
      <3>3. InUse(i) <= Committed(period) /\ Committed(period) \in Int
        BY <3>1, <3>2, InUseCommitted, CommittedCovers
      <3>4. QuantityOf(receipts', used) = quantity + QuantityOf(receipts', before)
        <4>1. used \subseteq EquipmentRequests
          BY <1>1, <1>2
        <4>2. IsFiniteSet(used)
          BY <4>1, EquipmentAssumption, FS_Subset
        <4>3. Quantities(receipts', used)
          BY <1>0, <1>1, <2>1, GrantedReceipts, EquipmentAssumption DEF Quantities, Inv, EquipmentTypeOK
        <4>4. receipts'[r].quantity = quantity
          BY GrantedReceipts
        <4> HIDE DEF used
        <4>5. QED
          BY <2>6, <4>2, <4>3, <4>4, QuantityRow
      <3>5. quantity <= Max({0, Stocked - Committed(period)})
        BY DEF Grants, Remaining
      <3>6. Max({0, Stocked - Committed(period)}) \in {0, Stocked - Committed(period)}
        <4>1. Stocked - Committed(period) \in Int
          BY <1>0, <3>3
        <4>2. QED
          BY <4>1, MaxOfTwo
      <3> HIDE DEF quantity, used, before
      <3>7. CASE quantity = 0
        <4>1. InUse(i)' = QuantityOf(receipts', before)
          BY <2>2, <2>4, <3>4, <3>7
        <4>2. QED
          BY <1>0, <1>4, <2>3, <2>4, <4>1
      <3>8. CASE quantity <= Stocked - Committed(period)
        BY <1>0, <1>4, <2>2, <2>4, <3>3, <3>4, <3>8
      <3>9. QED
        BY <1>0, <3>5, <3>6, <3>7, <3>8
    <2>7. QED
      BY <2>5, <2>6
  <1>5. QED
    BY <1>4 DEF Oversold

\* Whatever is reserved at once, and whichever periods overlap, more is in use
\* at an instant than there is only after the stock itself was changed.
THEOREM OnlyStockOversells == EquipmentSpec => OversoldByStockAlone
  <1>1. Inv /\ Placed /\ [EquipmentNext]_equipmentVars => [ByStockAlone]_equipmentVars
    <2> SUFFICES ASSUME Inv, Placed, [EquipmentNext]_equipmentVars, ~Oversold, UNCHANGED stock
                 PROVE  ~Oversold'
      BY DEF ByStockAlone
    <2>1. QED
      BY Steps, KeepsStock, GrantsStock
  <1>2. QED
    BY <1>1, InvHolds, PlacedHolds, PTL DEF EquipmentSpec, OversoldByStockAlone
=============================================================================

------------------------------- MODULE Orders -------------------------------
(* Orders at a merchant and their deliveries.  The customer places and      *)
(* cancels, the merchant moves the order on and asks for a delivery, drivers*)
(* claim it and carry it out, an administrator may set any status.  A claim *)
(* of a cash delivery reads the driver's settlement account.                *)
(*                                                                          *)
(* Abstractions.  Items, prices and addresses are left out; the driver has  *)
(* collected what a cash order costs when the delivery is confirmed.        *)
(* Nothing in the repository sets payment_method, so every order it makes   *)
(* is a cash order; what the functions do with a wallet order is modelled   *)
(* all the same.                                                            *)
(***************************************************************************)
EXTENDS Settlement

CONSTANTS
  Orders,
  Drivers,   \* those who claim deliveries, parties of the settlement
  CashEnabled, \* those with drivers.cash_enabled
  Methods,   \* merchant_order_payment_method
  CashLimit, \* drivers.cash_exposure_limit_iqd
  NoDriver

ASSUME OrdersAssumption ==
  /\ Drivers \subseteq Parties /\ NoDriver \notin Drivers
  /\ CashEnabled \subseteq Drivers
  /\ Methods \subseteq {"cod", "wallet"}
  /\ CashLimit \in Nat

VARIABLES
  order,     \* status of each order, "none" before it is placed
  method,    \* how it is paid
  actor,     \* who made the order's last merchant_order_status_events row
  canceling, \* orders whose customer's call has read "placed"
  delivery,  \* merchant_order_deliveries: status and driver_id
  claiming,  \* <<driver, order>>: claims that have passed their checks
  read       \* for the properties: the entries behind the balance it has read

orderVars == <<order, method, actor, canceling>>
deliveryVars == <<delivery, claiming, read>>
vars == <<orderVars, deliveryVars, settlementVars>>

OrderStatus == {"none", "placed", "accepted", "preparing", "out_for_delivery",
                "fulfilled", "cancelled"}
DeliveryStatus ==
  {"none", "requested", "assigned", "picked_up", "delivered", "cancelled"}
Final == {"fulfilled", "cancelled"}

Init ==
  /\ order = [o \in Orders |-> "none"]
  /\ method \in [Orders -> Methods]
  /\ actor = [o \in Orders |-> "nobody"]
  /\ canceling = {}
  /\ delivery = [o \in Orders |-> [status |-> "none", driver |-> NoDriver]]
  /\ claiming = {}
  /\ read = [c \in Drivers \X Orders |-> {}]
  /\ SettlementInit
-----------------------------------------------------------------------------
(* The order.                                                               *)

\* merchant_orders_guard: what the owner of the shop may make of a status
OwnerNext ==
  [s \in OrderStatus |->
     CASE s = "placed" -> {"accepted", "cancelled"}
       [] s = "accepted" -> {"preparing", "cancelled"}
       [] s = "preparing" -> {"out_for_delivery", "cancelled"}
       [] s = "out_for_delivery" -> Final
       [] OTHER -> {}]

Guard(by, from, to) ==
  CASE by = "customer" -> from = "placed" /\ to = "cancelled"
    [] by = "owner" -> to \in OwnerNext[from]
    [] OTHER -> TRUE

\* an UPDATE of the status, with the triggers of merchant_orders
UpdateStatus(o, by, to) ==
  /\ order[o] # to
  /\ Guard(by, order[o], to)
  /\ order' = [order EXCEPT ![o] = to]
  /\ actor' = [actor EXCEPT ![o] = by]
  /\ UNCHANGED method

\* merchant_order_create
CreateOrder(o) ==
  /\ order[o] = "none"
  /\ order' = [order EXCEPT ![o] = "placed"]
  /\ actor' = [actor EXCEPT ![o] = "customer"]
  /\ UNCHANGED <<method, canceling, deliveryVars, settlementVars>>

\* merchant_order_set_status, merchant_orders_update_status_v1 and
\* admin_order_set_status_v1: the row is written whatever was read of it
SetStatus(o, by) ==
  /\ order[o] # "none"
  /\ \E to \in OrderStatus \ {"none"} : UpdateStatus(o, by, to)
  /\ UNCHANGED <<canceling, deliveryVars, settlementVars>>

\* merchant_order_set_status called by the customer reads the order ...
CustomerReads(o) ==
  /\ order[o] = "placed" /\ o \notin canceling
  /\ canceling' = canceling \cup {o}
  /\ UNCHANGED <<order, method, actor, deliveryVars, settlementVars>>

\* ... and then writes it; the guard may refuse
CustomerCancels(o) ==
  /\ o \in canceling
  /\ canceling' = canceling \ {o}
  /\ IF order[o] # "cancelled" /\ Guard("customer", order[o], "cancelled")
       THEN UpdateStatus(o, "customer", "cancelled")
       ELSE UNCHANGED <<order, method, actor>>
  /\ UNCHANGED <<deliveryVars, settlementVars>>
-----------------------------------------------------------------------------
(* The delivery.                                                            *)

\* merchant_order_request_delivery: once per order, whatever its status
RequestDelivery(o) ==
  /\ order[o] # "none" /\ delivery[o].status = "none"
  /\ delivery' = [delivery EXCEPT ![o].status = "requested"]
  /\ UNCHANGED <<claiming, read, orderVars, settlementVars>>

\* Mutant: without a look at what the driver owes.
MayCarry_Debtor(d, o) == method[o] = "cod" => d \in CashEnabled

MayCarry(d, o) ==
  method[o] = "cod" => d \in CashEnabled /\ Known(balance[d]) >= -CashLimit

\* driver_claim_order_delivery reads the delivery and the account ...
ClaimReads(d, o) ==
  /\ delivery[o].status # "none" /\ <<d, o>> \notin claiming
  /\ MayCarry(d, o)
  /\ claiming' = claiming \cup {<<d, o>>}
  /\ read' = [read EXCEPT ![<<d, o>>] = EntriesOf(d)]
  /\ UNCHANGED <<delivery, orderVars, settlementVars>>

\* Mutant: the claim takes the row from who has it.
ClaimWrites_Any(d, o) ==
  /\ <<d, o>> \in claiming
  /\ claiming' = claiming \ {<<d, o>>}
  /\ read' = [read EXCEPT ![<<d, o>>] = {}]
  /\ delivery' = IF delivery[o].status \in {"requested", "assigned"}
                   THEN [delivery EXCEPT ![o] =
                           [status |-> "assigned", driver |-> d]]
                   ELSE delivery
  /\ UNCHANGED <<orderVars, settlementVars>>

\* ... and takes the delivery if it is still there to be taken
ClaimWrites(d, o) ==
  /\ <<d, o>> \in claiming
  /\ claiming' = claiming \ {<<d, o>>}
  /\ read' = [read EXCEPT ![<<d, o>>] = {}]
  /\ delivery' = IF /\ delivery[o].status = "requested"
                    /\ delivery[o].driver = NoDriver
                   THEN [delivery EXCEPT ![o] =
                           [status |-> "assigned", driver |-> d]]
                   ELSE delivery
  /\ UNCHANGED <<orderVars, settlementVars>>

\* setDeliveryStatus, an UPDATE by id: merchant_order_delivery_guard decides
PickUp(o) ==
  /\ delivery[o].status = "assigned"
  /\ delivery' = [delivery EXCEPT ![o].status = "picked_up"]
  /\ UNCHANGED <<claiming, read, orderVars, settlementVars>>

DeliveryColumns ==
  {"id", "order_id", "merchant_id", "customer_id", "driver_id", "status",
   "payment_method_snapshot", "cod_expected_amount_iqd"}

\* merchant_order_cod_settlement_after charges NEW.driver_profile_id: a
\* column the table does not have raises, and the UPDATE with it.  What it
\* would post is left out.
CodSettlement(o) == method[o] = "cod" => "driver_profile_id" \in DeliveryColumns

Deliver(o) ==
  /\ delivery[o].status = "picked_up"
  /\ CodSettlement(o)
  /\ delivery' = [delivery EXCEPT ![o].status = "delivered"]
  /\ UNCHANGED <<claiming, read, orderVars, settlementVars>>

\* Mutant: the status is spelled as in payout_provider_job_status.
CancelDelivery_Spelling(o) ==
  /\ delivery[o].status \notin {"none", "canceled"}
  /\ delivery' = [delivery EXCEPT ![o].status = "canceled"]
  /\ UNCHANGED <<claiming, read, orderVars, settlementVars>>

\* the owner or an administrator, from any status: the page hides its button
\* once it has seen the delivery delivered
CancelDelivery(o) ==
  /\ delivery[o].status \notin {"none", "cancelled"}
  /\ delivery' = [delivery EXCEPT ![o].status = "cancelled"]
  /\ UNCHANGED <<claiming, read, orderVars, settlementVars>>
-----------------------------------------------------------------------------
OrderStep(o) ==
  \/ CreateOrder(o) \/ SetStatus(o, "owner") \/ SetStatus(o, "admin")
  \/ CustomerReads(o) \/ CustomerCancels(o)

DeliveryStep(o) ==
  \/ RequestDelivery(o) \/ PickUp(o) \/ Deliver(o) \/ CancelDelivery(o)
  \/ \E d \in Drivers : ClaimReads(d, o) \/ ClaimWrites(d, o)

Next ==
  \/ \E o \in Orders : OrderStep(o) \/ DeliveryStep(o)
  \/ SettlementStep /\ UNCHANGED <<orderVars, deliveryVars>>

Spec == Init /\ [][Next]_vars

\* A driver who has a delivery carries it out; nothing else is assumed.
FairSpec ==
  Spec /\ \A o \in Orders : WF_vars(PickUp(o)) /\ WF_vars(Deliver(o))
-----------------------------------------------------------------------------
OrdersTypeOK ==
  /\ SettlementTypeOK
  /\ order \in [Orders -> OrderStatus]
  /\ method \in [Orders -> Methods]
  /\ actor \in [Orders -> {"nobody", "customer", "owner", "admin"}]
  /\ canceling \subseteq Orders
  /\ delivery \in [Orders -> [status : DeliveryStatus,
                              driver : Drivers \cup {NoDriver}]]
  /\ claiming \subseteq Drivers \X Orders
  /\ read \in [Drivers \X Orders -> SUBSET Keys]

(* The events of an order name who may have caused them: no customer        *)
(* withdraws what a merchant has accepted, although the call reads the order*)
(* before it writes, and no merchant reopens what is final.                 *)
EventsAreLawful ==
  [][\A o \in Orders : order'[o] # order[o] =>
       /\ actor'[o] = "customer"
            => <<order[o], order'[o]>> \in {<<"none", "placed">>,
                                          <<"placed", "cancelled">>}
       /\ actor'[o] = "owner" => order[o] \notin Final \cup {"none"}]_vars

(* Drivers who claim the same delivery at once do not take it from each     *)
(* other: who has it keeps it.                                              *)
FirstClaimStands ==
  [][\A o \in Orders : delivery[o].driver # NoDriver
       => delivery'[o].driver = delivery[o].driver]_vars

(* A driver takes a cash delivery only while he owes no more than the limit *)
(* and what was taken from his account after the claim had read it, which it*)
(* does without a lock: fees, payouts and charges of before count.          *)
CashCarriersWithinLimit ==
  [][\A d \in Drivers, o \in Orders :
       /\ method[o] = "cod"
       /\ delivery'[o].driver = d /\ delivery[o].driver # d
       => Known(balance[d]) >= -CashLimit + Sum(DebitsSince(d, read[<<d, o>>]))]_vars

(* A driver who keeps confirming a cash delivery gets it delivered, unless  *)
(* it is cancelled: "Driver owes platform the COD goods cash" then.         *)
CashDeliveryEnds ==
  \A o \in Orders :
    delivery[o].status = "picked_up"
      ~> delivery[o].status \in {"delivered", "cancelled"}
=============================================================================

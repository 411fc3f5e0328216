------------------------------ MODULE OrderFlow ------------------------------
(***************************************************************************)
(* The life of an order in the backend API, one request at a time.         *)
(*                                                                         *)
(* Every action is one whole request: get_db (db/session.py) opens one     *)
(* transaction per request and commits it at the end, and here the         *)
(* requests are executed one after the other.  A refused request rolls     *)
(* back, so it changes nothing and has no action.  This is the promise     *)
(* the services make about orders, stock, payments and shipments;          *)
(* OrderTxns splits the same requests into the database steps other        *)
(* requests can interleave with.                                           *)
(***************************************************************************)
EXTENDS Integers, FiniteSets, Sequences

CONSTANTS
    Order,            \* identities of orders, used or not yet used
    Product,          \* products that have an inventory row
    MaxQty,           \* bound: units of one product in one order
    MaxStock,         \* bound: units a manual stock change may leave on hand
    MaxPayments,      \* bound: payment rows of one outcome of one order
    GatewayOutcome    \* what PaymentGateway.charge may answer

ASSUME OrderFlowAssumption ==
    /\ IsFiniteSet(Order)
    /\ MaxQty \in Nat
    /\ MaxStock \in Nat
    /\ MaxPayments \in Nat
    /\ GatewayOutcome \subseteq {"completed", "failed"}

OrderStatus == {"pending", "paid", "preparing", "shipped", "delivered",
                "cancelled", "refunded"}
PaymentStatus == {"completed", "failed"}
ShipmentStatus == {"preparing", "in_transit", "delivered", "cancelled"}
SaleKind == {"sale", "reversal"}
Source == {"order_created", "payment", "manual", "customer_cancel",
           "shipment_created", "shipment_dispatched", "shipment_delivered"}

\* "none" stands for a row that does not exist.
Change == [from: OrderStatus \cup {"none"}, to: OrderStatus, source: Source]
Shipment == [status: ShipmentStatus \cup {"none"}, tracked: BOOLEAN]
NoShipment == [status |-> "none", tracked |-> FALSE]

VARIABLES
    status,      \* orders.status
    items,       \* order_items.quantity, 0 where the order has no such line
    onHand,      \* inventory.quantity_on_hand
    reserved,    \* inventory.quantity_reserved
    stocked,     \* initial stock plus after - before of every inventory_history row
    ledger,      \* kinds of the order's rows in sales
    payments,    \* how many payment rows the order has, by outcome
    shipment,    \* the order's row in shipments
    history      \* the order's rows in order_status_history, oldest first

vars == <<status, items, onHand, reserved, stocked, ledger, payments,
          shipment, history>>

(***************************************************************************)
(* Stock.  Holding: the order's units are reserved.  Dispatched: its units *)
(* have left onHand.  HeldUnits counts the units of p in the orders whose  *)
(* status is in S, as a set of numbered units.                             *)
(***************************************************************************)
Holding == {"pending", "paid", "preparing"}
Dispatched == {"shipped", "delivered"}

HeldUnits(st, it, S, p) ==
    {u \in Order \X (1..MaxQty) : st[u[1]] \in S /\ u[2] <= it[u[1]][p]}

EmptyCart == [p \in Product |-> 0]
Cart == [Product -> 0..MaxQty] \ {EmptyCart}

\* max(0, a - b)
Monus(a, b) == IF b <= a THEN a - b ELSE 0

\* Mutant of Available: compares with what is on hand, reserved units included.
AvailableOnHand(p, quantity) == quantity <= onHand[p]

\* The check of InventoryRepository.reserve: quantity_available covers the line.
Available(p, quantity) == quantity <= onHand[p] - reserved[p]

\* InventoryRepository.reserve for every line of the cart.
Reserve(cart) == reserved' = [p \in Product |-> reserved[p] + cart[p]]

\* InventoryRepository.release for every item of the order.
Release(o) == reserved' = [p \in Product |-> Monus(reserved[p], items[o][p])]

\* Mutant of Fulfill: consumes the reservation and leaves the units on hand.
FulfillReservedOnly(o) ==
    /\ reserved' = [p \in Product |-> Monus(reserved[p], items[o][p])]
    /\ UNCHANGED onHand

\* InventoryRepository.fulfill for every item of the order.
Fulfill(o) ==
    /\ reserved' = [p \in Product |-> Monus(reserved[p], items[o][p])]
    /\ onHand' = [p \in Product |-> Monus(onHand[p], items[o][p])]

(***************************************************************************)
(* Status changes.                                                         *)
(***************************************************************************)
Entry(from, to, source) == [from |-> from, to |-> to, source |-> source]

\* A new status and its history entry, whose `from` is the status the request read.
MoveFrom(o, from, to, source) ==
    /\ status' = [status EXCEPT ![o] = to]
    /\ history' = [history EXCEPT ![o] = Append(@, Entry(from, to, source))]

MoveTo(o, to, source) == MoveFrom(o, status[o], to, source)

\* Mutant of MoveOrder: records a change even if the order is already there.
MoveOrderAlways(o, to, source) == MoveTo(o, to, source)

\* ShipmentService._move_order: nothing to record if the order is already there.
MoveOrder(o, to, source) ==
    IF status[o] = to THEN UNCHANGED <<status, history>> ELSE MoveTo(o, to, source)

\* Mutant of AllowedTransitions: a delivered order can be refunded.
RefundAfterDelivery(from) ==
    CASE from = "pending"               -> {"cancelled"}
      [] from = "paid"                  -> {"preparing", "cancelled", "refunded"}
      [] from = "preparing"             -> {"cancelled"}
      [] from = "delivered"             -> {"refunded"}
      [] OTHER                          -> {}

AllowedTransitions(from) ==
    CASE from = "pending"   -> {"cancelled"}
      [] from = "paid"      -> {"preparing", "cancelled", "refunded"}
      [] from = "preparing" -> {"cancelled"}
      [] OTHER              -> {}

\* Mutant of Reversing: a refund forgets to release the stock.
CancelOnly == {"cancelled"}

Reversing == {"cancelled", "refunded"}
Undispatched == {"preparing"}

\* The reversal entry a paid order gets when it is cancelled or refunded.
Reversed(kinds) == IF "sale" \in kinds THEN kinds \cup {"reversal"} ELSE kinds

\* Mutant of CancelledShipment: the shipment of a cancelled order stays in preparation.
KeptShipment(s) == s

CancelledShipment(s) ==
    IF s.status \in Undispatched THEN [s EXCEPT !.status = "cancelled"] ELSE s

-----------------------------------------------------------------------------
(***************************************************************************)
(* What each request writes once its checks have passed.                   *)
(***************************************************************************)
AddPayment(o, outcome) == payments' = [payments EXCEPT ![o][outcome] = @ + 1]
AddSale(o) == ledger' = [ledger EXCEPT ![o] = @ \cup {"sale"}]

WriteOrder(o, cart) ==
    /\ Reserve(cart)
    /\ items' = [items EXCEPT ![o] = cart]
    /\ MoveTo(o, "pending", "order_created")
    /\ UNCHANGED <<onHand, stocked, ledger, payments, shipment>>

\* create_order followed by create_payment of the order just created.
WriteCheckout(o, cart, outcome) ==
    /\ Reserve(cart)
    /\ items' = [items EXCEPT ![o] = cart]
    /\ AddPayment(o, outcome)
    /\ IF outcome = "completed"
       THEN /\ status' = [status EXCEPT ![o] = "paid"]
            /\ history' = [history EXCEPT ![o] =
                              <<Entry("none", "pending", "order_created"),
                                Entry("pending", "paid", "payment")>>]
            /\ AddSale(o)
       ELSE MoveTo(o, "pending", "order_created") /\ UNCHANGED ledger
    /\ UNCHANGED <<onHand, stocked, shipment>>

\* A failed payment leaves the order as it is.
WritePayment(o, from, outcome) ==
    /\ AddPayment(o, outcome)
    /\ IF outcome = "completed"
       THEN MoveFrom(o, from, "paid", "payment") /\ AddSale(o)
       ELSE UNCHANGED <<status, history, ledger>>
    /\ UNCHANGED <<items, onHand, reserved, stocked, shipment>>

WriteTransition(o, new, source) ==
    /\ IF new \in Reversing
       THEN /\ Release(o)
            /\ ledger' = [ledger EXCEPT ![o] = Reversed(@)]
            /\ shipment' = [shipment EXCEPT ![o] = CancelledShipment(@)]
       ELSE UNCHANGED <<reserved, ledger, shipment>>
    /\ MoveTo(o, new, source)
    /\ UNCHANGED <<items, onHand, stocked, payments>>

WriteShipment(o, tracked) ==
    /\ shipment' = [shipment EXCEPT ![o] = [status |-> "preparing", tracked |-> tracked]]
    /\ MoveOrder(o, "preparing", "shipment_created")
    /\ UNCHANGED <<items, onHand, reserved, stocked, ledger, payments>>

WriteEdit(o, tracked) ==
    /\ shipment' = [shipment EXCEPT ![o].tracked = tracked]
    /\ UNCHANGED <<status, items, onHand, reserved, stocked, ledger, payments, history>>

WriteDispatch(o, tracked) ==
    /\ Fulfill(o)
    /\ shipment' = [shipment EXCEPT ![o] = [status |-> "in_transit", tracked |-> tracked]]
    /\ MoveOrder(o, "shipped", "shipment_dispatched")
    /\ UNCHANGED <<items, stocked, ledger, payments>>

WriteDelivery(o) ==
    /\ shipment' = [shipment EXCEPT ![o].status = "delivered"]
    /\ MoveOrder(o, "delivered", "shipment_delivered")
    /\ UNCHANGED <<items, onHand, reserved, stocked, ledger, payments>>

\* A manual change of the row, recorded in inventory_history.
WriteStock(p, level) ==
    /\ onHand' = [onHand EXCEPT ![p] = level]
    /\ stocked' = [stocked EXCEPT ![p] = @ + (level - onHand[p])]
    /\ UNCHANGED <<status, items, reserved, ledger, payments, shipment, history>>

-----------------------------------------------------------------------------
(***************************************************************************)
(* The requests.                                                           *)
(***************************************************************************)
Init ==
    /\ status = [o \in Order |-> "none"]
    /\ items = [o \in Order |-> EmptyCart]
    /\ onHand \in [Product -> 0..MaxStock]
    /\ reserved = [p \in Product |-> 0]
    /\ stocked = onHand
    /\ ledger = [o \in Order |-> {}]
    /\ payments = [o \in Order |-> [r \in PaymentStatus |-> 0]]
    /\ shipment = [o \in Order |-> NoShipment]
    /\ history = [o \in Order |-> <<>>]

\* POST /orders
CreateOrder(o, cart) ==
    /\ status[o] = "none"
    /\ \A p \in Product : Available(p, cart[p])
    /\ WriteOrder(o, cart)

\* POST /orders/checkout
Checkout(o, cart, outcome) ==
    /\ status[o] = "none"
    /\ \A p \in Product : Available(p, cart[p])
    /\ WriteCheckout(o, cart, outcome)

\* Mutant of CreatePayment: pays an order in any status.
PayAnyStatus(o, outcome) ==
    /\ status[o] # "none"
    /\ payments[o][outcome] < MaxPayments + 1
    /\ WritePayment(o, status[o], outcome)

\* POST /payments
CreatePayment(o, outcome) ==
    /\ status[o] = "pending"
    /\ payments[o][outcome] < MaxPayments
    /\ WritePayment(o, status[o], outcome)

\* PATCH /orders/{id}/status
TransitionStatus(o, new) ==
    /\ new \in AllowedTransitions(status[o])
    /\ WriteTransition(o, new, "manual")

\* POST /orders/{id}/cancel
Cancel(o) ==
    /\ status[o] = "pending"
    /\ "cancelled" \in AllowedTransitions(status[o])
    /\ WriteTransition(o, "cancelled", "customer_cancel")

\* POST /shipments/order/{id}
CreateShipment(o, tracked) ==
    /\ status[o] \in {"paid", "preparing"}
    /\ shipment[o].status = "none"
    /\ WriteShipment(o, tracked)

\* PATCH /shipments/{id}: tracked is whether a tracking number is left set.
UpdateShipment(o, tracked) ==
    /\ shipment[o].status \in Undispatched
    /\ WriteEdit(o, tracked)

\* POST /shipments/{id}/ship: a missing tracking number is generated.
MarkShipped(o) ==
    /\ shipment[o].status = "preparing"
    /\ status[o] = "preparing"
    /\ WriteDispatch(o, TRUE)

\* POST /shipments/{id}/deliver
MarkDelivered(o) ==
    /\ shipment[o].status = "in_transit"
    /\ WriteDelivery(o)

\* Mutant of AdjustStock: removes units without looking at the reserved ones.
AdjustUnchecked(p, delta) ==
    /\ onHand[p] + delta <= MaxStock
    /\ WriteStock(p, onHand[p] + delta)

\* POST /inventory/{product_id}/adjust
AdjustStock(p, delta) ==
    /\ onHand[p] + delta >= reserved[p]
    /\ onHand[p] + delta <= MaxStock
    /\ WriteStock(p, onHand[p] + delta)

\* PUT /inventory/{product_id}
SetLevels(p, level) ==
    /\ level >= reserved[p]
    /\ WriteStock(p, level)

Next ==
    \/ \E o \in Order :
          \/ \E cart \in Cart : CreateOrder(o, cart)
          \/ \E cart \in Cart, outcome \in GatewayOutcome : Checkout(o, cart, outcome)
          \/ \E outcome \in GatewayOutcome : CreatePayment(o, outcome)
          \/ \E new \in OrderStatus : TransitionStatus(o, new)
          \/ Cancel(o)
          \/ \E tracked \in BOOLEAN : CreateShipment(o, tracked)
          \/ \E tracked \in BOOLEAN : UpdateShipment(o, tracked)
          \/ MarkShipped(o)
          \/ MarkDelivered(o)
    \/ \E p \in Product :
          \/ \E delta \in -MaxStock..MaxStock : AdjustStock(p, delta)
          \/ \E level \in 0..MaxStock : SetLevels(p, level)

Spec == Init /\ [][Next]_vars

-----------------------------------------------------------------------------
(***************************************************************************)
(* What the services promise.                                              *)
(***************************************************************************)

\* Every column holds a value of its type; the history is a sequence of changes.
TypeOK ==
    /\ status \in [Order -> OrderStatus \cup {"none"}]
    /\ items \in [Order -> [Product -> 0..MaxQty]]
    /\ onHand \in [Product -> Nat]
    /\ reserved \in [Product -> Nat]
    /\ stocked \in [Product -> Int]
    /\ ledger \in [Order -> SUBSET SaleKind]
    /\ payments \in [Order -> [PaymentStatus -> Nat]]
    /\ shipment \in [Order -> Shipment]
    /\ history \in [Order -> Seq(Change)]

\* A product's reserved count is exactly the units in its pending, paid and
\* preparing orders: no release or dispatch is lost, doubled or cut short by the
\* max(0, ...) of InventoryRepository.release and fulfill.
ReservationExact ==
    \A p \in Product :
        reserved[p] = Cardinality(HeldUnits(status, items, Holding, p))

\* Orders never hold more than the shelf has (the row's CHECK constraints are
\* never what stops a request): the stock cannot be oversold.
NoOversell == \A p \in Product : reserved[p] <= onHand[p]

\* Every unit that ever came in is on the shelf or in a dispatched order: the
\* stock of an order is fulfilled once, on dispatch, and at no other moment.
StockConserved ==
    \A p \in Product :
        stocked[p] = onHand[p] + Cardinality(HeldUnits(status, items, Dispatched, p))

\* The ledger follows the payments: a sale exactly when one payment completed, in
\* an order that was paid; a reversal exactly when that order was then cancelled
\* or refunded.
LedgerMatchesPayments ==
    \A o \in Order :
        /\ payments[o]["completed"] = (IF "sale" \in ledger[o] THEN 1 ELSE 0)
        /\ status[o] \in {"none", "pending"} => ledger[o] = {}
        /\ status[o] \in {"paid", "preparing", "shipped", "delivered"} => ledger[o] = {"sale"}
        /\ status[o] = "cancelled" => ledger[o] \in {{}, {"sale", "reversal"}}
        /\ status[o] = "refunded" => ledger[o] = {"sale", "reversal"}

\* Order and shipment move together: an order is shipped (delivered) exactly when
\* its shipment is in transit (delivered), never without a tracking number, and a
\* shipment is left in preparation only by an order in preparation.
ShipmentMatchesOrder ==
    \A o \in Order :
        /\ status[o] = "shipped" <=> shipment[o].status = "in_transit"
        /\ status[o] = "delivered" <=> shipment[o].status = "delivered"
        /\ status[o] \in Dispatched => shipment[o].tracked
        /\ shipment[o].status = "preparing" => status[o] = "preparing"
        /\ shipment[o].status = "cancelled" => status[o] = "cancelled"

\* The edges an entry of a given source may record (enums.OrderStatusChangeSource).
LegalChange(c) ==
    CASE c.source = "order_created"       -> c.from = "none" /\ c.to = "pending"
      [] c.source = "payment"             -> c.from = "pending" /\ c.to = "paid"
      [] c.source = "manual"              -> c.from \in Holding /\ c.to \in AllowedTransitions(c.from)
      [] c.source = "customer_cancel"     -> c.from = "pending" /\ c.to = "cancelled"
      [] c.source = "shipment_created"    -> c.from = "paid" /\ c.to = "preparing"
      [] c.source = "shipment_dispatched" -> c.from = "preparing" /\ c.to = "shipped"
      [] c.source = "shipment_delivered"  -> c.from = "shipped" /\ c.to = "delivered"

\* The history tells the whole life of the order: it starts with its creation, each
\* entry starts where the one before ended, by a legal edge, and the last one ends
\* in the order's present status.
HistoryChains ==
    \A o \in Order :
        LET h == history[o] IN
        /\ status[o] = (IF h = <<>> THEN "none" ELSE h[Len(h)].to)
        /\ \A i \in 1..Len(h) :
              /\ LegalChange(h[i])
              /\ h[i].from = (IF i = 1 THEN "none" ELSE h[i - 1].to)

\* What a step may never do: once an order is cancelled, refunded or delivered, its
\* status, its ledger, its payments and its shipment stay as they are.
Final == {"cancelled", "refunded", "delivered"}
FinalIsFinal ==
    [][\A o \in Order : status[o] \in Final =>
          UNCHANGED <<status[o], ledger[o], payments[o], shipment[o]>>]_vars

\* The abstract state an order and the shelf stand for.
PhaseOf(s) ==
    CASE s \in Holding    -> "held"
      [] s \in Dispatched -> "sent"
      [] s = "none"       -> "none"
      [] OTHER            -> "called_off"

Promise ==
    INSTANCE StockPromise
    WITH phase <- [o \in Order |-> PhaseOf(status[o])],
         units <- items,
         free  <- [p \in Product |-> onHand[p] - reserved[p]]

\* OrderFlow implements StockPromise: whichever way an order goes, its units are taken
\* at once out of free ones, and come back, or leave with the dispatch, exactly once.
KeepsStockPromise == Promise!PromiseSpec
=============================================================================

--------------------------- MODULE OrderFlowProofs ---------------------------
(***************************************************************************)
(* What OrderFlow promises, proved for every set of orders and products,   *)
(* every stock and every bound.                                            *)
(***************************************************************************)
EXTENDS OrderFlow, FiniteSetTheorems, TLAPS

\* A change of one entry of the history is a change of the right type.
LEMMA EntryType ==
    ASSUME NEW from \in OrderStatus \cup {"none"}, NEW to \in OrderStatus, NEW source \in Source
    PROVE  Entry(from, to, source) \in Change
BY DEF Entry, Change

\* The clamped subtraction of release and fulfill stays a natural number.
LEMMA MonusNat ==
    ASSUME NEW a \in Nat, NEW b \in Nat
    PROVE  Monus(a, b) \in Nat /\ (b <= a => Monus(a, b) = a - b)
BY DEF Monus

\* What release and fulfill leave of a row is a natural number.
LEMMA LeftoverNat ==
    ASSUME TypeOK, NEW o \in Order, NEW p \in Product
    PROVE  /\ items[o][p] \in Nat
           /\ Monus(reserved[p], items[o][p]) \in Nat
           /\ Monus(onHand[p], items[o][p]) \in Nat
<1>1. items[o] \in [Product -> 0..MaxQty]
  BY DEF TypeOK
<1>2. items[o][p] \in 0..MaxQty
  BY <1>1
<1>3. items[o][p] \in Nat
  BY <1>2, OrderFlowAssumption
<1>4. reserved[p] \in Nat /\ onHand[p] \in Nat
  BY DEF TypeOK
<1>5. QED
  BY <1>3, <1>4, MonusNat

\* The new rows of MoveFrom are well typed.
LEMMA MoveFromType ==
    ASSUME TypeOK, NEW o \in Order, NEW from \in OrderStatus \cup {"none"},
           NEW to \in OrderStatus, NEW source \in Source,
           MoveFrom(o, from, to, source)
    PROVE  /\ status' \in [Order -> OrderStatus \cup {"none"}]
           /\ history' \in [Order -> Seq(Change)]
<1>1. Entry(from, to, source) \in Change
  BY EntryType
<1>2. history[o] \in Seq(Change)
  BY DEF TypeOK
<1>3. Append(history[o], Entry(from, to, source)) \in Seq(Change)
  BY <1>1, <1>2
<1>4. status' \in [Order -> OrderStatus \cup {"none"}]
  BY DEF TypeOK, MoveFrom
<1>5. history' \in [Order -> Seq(Change)]
  BY <1>3 DEF TypeOK, MoveFrom
<1>6. QED
  BY <1>4, <1>5

\* So does a change to a given status.
LEMMA MoveToType ==
    ASSUME TypeOK, NEW o \in Order, NEW to \in OrderStatus, NEW source \in Source,
           MoveTo(o, to, source)
    PROVE  /\ status' \in [Order -> OrderStatus \cup {"none"}]
           /\ history' \in [Order -> Seq(Change)]
<1>1. status[o] \in OrderStatus \cup {"none"}
  BY DEF TypeOK
<1>2. QED
  BY <1>1, MoveFromType DEF MoveTo

\* So does a legal one.
LEMMA MoveOrderType ==
    ASSUME TypeOK, NEW o \in Order, NEW to \in OrderStatus, NEW source \in Source,
           MoveOrder(o, to, source)
    PROVE  /\ status' \in [Order -> OrderStatus \cup {"none"}]
           /\ history' \in [Order -> Seq(Change)]
BY MoveToType DEF MoveOrder, TypeOK

\* A sale is an entry of the ledger.
LEMMA AddSaleType ==
    ASSUME TypeOK, NEW o \in Order, AddSale(o)
    PROVE  ledger' \in [Order -> SUBSET SaleKind]
<1>1. ledger[o] \cup {"sale"} \in SUBSET SaleKind
  BY DEF TypeOK, SaleKind
<1>2. QED
  BY <1>1 DEF TypeOK, AddSale

-----------------------------------------------------------------------------
(***************************************************************************)
(* Type correctness.                                                       *)
(***************************************************************************)
\* What the requests may write about one order, whatever they checked before.
WritesOrder(o) ==
    \/ \E cart \in Cart : WriteOrder(o, cart)
    \/ \E cart \in Cart, outcome \in GatewayOutcome : WriteCheckout(o, cart, outcome)
    \/ \E from \in OrderStatus, outcome \in GatewayOutcome : WritePayment(o, from, outcome)
    \/ \E new \in OrderStatus, source \in Source : WriteTransition(o, new, source)
    \/ \E tracked \in BOOLEAN :
          WriteShipment(o, tracked) \/ WriteEdit(o, tracked) \/ WriteDispatch(o, tracked)
    \/ WriteDelivery(o)

\* No write leaves the types of the columns.
LEMMA WritesType == ASSUME TypeOK, NEW o \in Order, WritesOrder(o) PROVE TypeOK'
<1> USE OrderFlowAssumption
<1>q. GatewayOutcome \subseteq PaymentStatus
  BY DEF PaymentStatus
<1>1. ASSUME NEW cart \in Cart, WriteOrder(o, cart) PROVE TypeOK'
  <2>1. cart \in [Product -> 0..MaxQty]
    BY DEF Cart
  <2>2. reserved' \in [Product -> Nat]
    BY <1>1, <2>1 DEF WriteOrder, Reserve, TypeOK
  <2>3. items' \in [Order -> [Product -> 0..MaxQty]]
    BY <1>1, <2>1 DEF WriteOrder, TypeOK
  <2>4. /\ status' \in [Order -> OrderStatus \cup {"none"}]
        /\ history' \in [Order -> Seq(Change)]
    BY <1>1, MoveToType DEF WriteOrder, OrderStatus, Source
  <2>5. QED
    BY <1>1, <2>2, <2>3, <2>4 DEF WriteOrder, TypeOK
<1>2. ASSUME NEW cart \in Cart, NEW outcome \in GatewayOutcome, WriteCheckout(o, cart, outcome)
      PROVE  TypeOK'
  <2>1. cart \in [Product -> 0..MaxQty]
    BY DEF Cart
  <2>2. reserved' \in [Product -> Nat]
    BY <1>2, <2>1 DEF WriteCheckout, Reserve, TypeOK
  <2>3. items' \in [Order -> [Product -> 0..MaxQty]]
    BY <1>2, <2>1 DEF WriteCheckout, TypeOK
  <2>4. payments' \in [Order -> [PaymentStatus -> Nat]]
    BY <1>2, <1>q DEF WriteCheckout, AddPayment, TypeOK
  <2>5. /\ status' \in [Order -> OrderStatus \cup {"none"}]
        /\ history' \in [Order -> Seq(Change)]
        /\ ledger' \in [Order -> SUBSET SaleKind]
    <3>1. CASE outcome = "completed"
      <4>1. /\ Entry("none", "pending", "order_created") \in Change
            /\ Entry("pending", "paid", "payment") \in Change
        BY EntryType DEF OrderStatus, Source
      <4>2. <<Entry("none", "pending", "order_created"), Entry("pending", "paid", "payment")>>
               \in Seq(Change)
        BY <4>1
      <4>3. history' \in [Order -> Seq(Change)]
        BY <1>2, <3>1, <4>2 DEF WriteCheckout, TypeOK
      <4>4. status' = [status EXCEPT ![o] = "paid"] /\ AddSale(o)
        BY <1>2, <3>1 DEF WriteCheckout
      <4>5. status' \in [Order -> OrderStatus \cup {"none"}]
        BY <4>4 DEF TypeOK, OrderStatus
      <4>6. ledger' \in [Order -> SUBSET SaleKind]
        BY <4>4, AddSaleType
      <4>7. QED
        BY <4>3, <4>5, <4>6
    <3>2. CASE outcome # "completed"
      BY <1>2, <3>2, MoveToType DEF WriteCheckout, OrderStatus, Source, TypeOK
    <3>3. QED
      BY <3>1, <3>2
  <2>6. QED
    BY <1>2, <2>2, <2>3, <2>4, <2>5 DEF WriteCheckout, TypeOK
<1>3. ASSUME NEW from \in OrderStatus, NEW outcome \in GatewayOutcome,
             WritePayment(o, from, outcome)
      PROVE  TypeOK'
  <2>1. payments' \in [Order -> [PaymentStatus -> Nat]]
    BY <1>3, <1>q DEF WritePayment, AddPayment, TypeOK
  <2>2. /\ status' \in [Order -> OrderStatus \cup {"none"}]
        /\ history' \in [Order -> Seq(Change)]
        /\ ledger' \in [Order -> SUBSET SaleKind]
    <3>1. CASE outcome = "completed"
      <4>1. MoveFrom(o, from, "paid", "payment") /\ AddSale(o)
        BY <1>3, <3>1 DEF WritePayment
      <4>2. "paid" \in OrderStatus /\ "payment" \in Source
        BY DEF OrderStatus, Source
      <4>3. QED
        BY <4>1, <4>2, MoveFromType, AddSaleType
    <3>2. CASE outcome # "completed"
      BY <1>3, <3>2 DEF WritePayment, TypeOK
    <3>3. QED
      BY <3>1, <3>2
  <2>3. QED
    BY <1>3, <2>1, <2>2 DEF WritePayment, TypeOK
<1>4. ASSUME NEW new \in OrderStatus, NEW source \in Source,
             WriteTransition(o, new, source)
      PROVE  TypeOK'
  <2>1. /\ status' \in [Order -> OrderStatus \cup {"none"}]
        /\ history' \in [Order -> Seq(Change)]
    BY <1>4, MoveToType DEF WriteTransition
  <2>2. CASE new \in Reversing
    <3>1. reserved' \in [Product -> Nat]
      <4>1. ASSUME NEW p \in Product PROVE Monus(reserved[p], items[o][p]) \in Nat
        BY LeftoverNat
      <4>2. QED
        BY <1>4, <2>2, <4>1 DEF WriteTransition, Release
    <3>2. ledger' \in [Order -> SUBSET SaleKind]
      <4>1. Reversed(ledger[o]) \in SUBSET SaleKind
        BY DEF Reversed, TypeOK, SaleKind
      <4>2. QED
        BY <1>4, <2>2, <4>1 DEF WriteTransition, TypeOK
    <3>3. shipment' \in [Order -> Shipment]
      <4>1. CancelledShipment(shipment[o]) \in Shipment
        BY DEF CancelledShipment, TypeOK, Shipment, ShipmentStatus
      <4>2. QED
        BY <1>4, <2>2, <4>1 DEF WriteTransition, TypeOK
    <3>4. QED
      BY <1>4, <2>1, <3>1, <3>2, <3>3 DEF WriteTransition, TypeOK
  <2>3. CASE new \notin Reversing
    BY <1>4, <2>1, <2>3 DEF WriteTransition, TypeOK
  <2>4. QED
    BY <2>2, <2>3
<1>5. ASSUME NEW tracked \in BOOLEAN, WriteShipment(o, tracked) PROVE TypeOK'
  <2>1. /\ status' \in [Order -> OrderStatus \cup {"none"}]
        /\ history' \in [Order -> Seq(Change)]
    BY <1>5, MoveOrderType DEF WriteShipment, OrderStatus, Source
  <2>2. shipment' \in [Order -> Shipment]
    BY <1>5 DEF WriteShipment, TypeOK, Shipment, ShipmentStatus
  <2>3. QED
    BY <1>5, <2>1, <2>2 DEF WriteShipment, TypeOK
<1>6. ASSUME NEW tracked \in BOOLEAN, WriteEdit(o, tracked) PROVE TypeOK'
  <2>1. [shipment[o] EXCEPT !.tracked = tracked] \in Shipment
    BY DEF TypeOK, Shipment
  <2>2. shipment' = [shipment EXCEPT ![o] = [shipment[o] EXCEPT !.tracked = tracked]]
    BY <1>6 DEF WriteEdit
  <2>3. shipment' \in [Order -> Shipment]
    BY <2>1, <2>2 DEF TypeOK
  <2>4. QED
    BY <1>6, <2>3 DEF WriteEdit, TypeOK
<1>7. ASSUME NEW tracked \in BOOLEAN, WriteDispatch(o, tracked) PROVE TypeOK'
  <2>1. /\ status' \in [Order -> OrderStatus \cup {"none"}]
        /\ history' \in [Order -> Seq(Change)]
    BY <1>7, MoveOrderType DEF WriteDispatch, OrderStatus, Source
  <2>2. shipment' \in [Order -> Shipment]
    BY <1>7 DEF WriteDispatch, TypeOK, Shipment, ShipmentStatus
  <2>3. reserved' \in [Product -> Nat] /\ onHand' \in [Product -> Nat]
    BY <1>7, LeftoverNat DEF WriteDispatch, Fulfill
  <2>4. QED
    BY <1>7, <2>1, <2>2, <2>3 DEF WriteDispatch, TypeOK
<1>8. CASE WriteDelivery(o)
  <2>1. /\ status' \in [Order -> OrderStatus \cup {"none"}]
        /\ history' \in [Order -> Seq(Change)]
    BY <1>8, MoveOrderType DEF WriteDelivery, OrderStatus, Source
  <2>2. shipment' \in [Order -> Shipment]
    BY <1>8 DEF WriteDelivery, TypeOK, Shipment, ShipmentStatus
  <2>3. QED
    BY <1>8, <2>1, <2>2 DEF WriteDelivery, TypeOK
<1>9. QED
  BY <1>1, <1>2, <1>3, <1>4, <1>5, <1>6, <1>7, <1>8 DEF WritesOrder

\* A written level is a level.
LEMMA StockWriteType ==
    ASSUME TypeOK, NEW p \in Product, NEW level \in Nat, WriteStock(p, level) PROVE TypeOK'
BY DEF WriteStock, TypeOK

\* Every step keeps the types.
LEMMA TypeStep == TypeOK /\ [Next]_vars => TypeOK'
<1> SUFFICES ASSUME TypeOK, [Next]_vars PROVE TypeOK'
  OBVIOUS
<1>1. ASSUME NEW o \in Order, WritesOrder(o) PROVE TypeOK'
  BY <1>1, WritesType
<1>2. ASSUME NEW o \in Order,
             \/ \E cart \in Cart : CreateOrder(o, cart)
             \/ \E cart \in Cart, outcome \in GatewayOutcome : Checkout(o, cart, outcome)
             \/ \E outcome \in GatewayOutcome : CreatePayment(o, outcome)
             \/ \E new \in OrderStatus : TransitionStatus(o, new)
             \/ Cancel(o)
      PROVE  WritesOrder(o)
  <2>1. "pending" \in OrderStatus /\ "cancelled" \in OrderStatus
        /\ "manual" \in Source /\ "customer_cancel" \in Source
    BY DEF OrderStatus, Source
  <2>2. QED
    BY <1>2, <2>1
    DEF WritesOrder, CreateOrder, Checkout, CreatePayment, TransitionStatus, Cancel
<1>3. ASSUME NEW o \in Order,
             \/ \E tracked \in BOOLEAN : CreateShipment(o, tracked)
             \/ \E tracked \in BOOLEAN : UpdateShipment(o, tracked)
             \/ MarkShipped(o)
             \/ MarkDelivered(o)
      PROVE  WritesOrder(o)
  BY <1>3 DEF WritesOrder, CreateShipment, UpdateShipment, MarkShipped, MarkDelivered
<1>4. ASSUME NEW p \in Product, NEW delta \in -MaxStock..MaxStock, AdjustStock(p, delta)
      PROVE  TypeOK'
  <2>1. onHand[p] + delta \in Nat
    BY <1>4, OrderFlowAssumption DEF AdjustStock, TypeOK
  <2>2. QED
    BY <1>4, <2>1, StockWriteType DEF AdjustStock
<1>5. ASSUME NEW p \in Product, NEW level \in 0..MaxStock, SetLevels(p, level) PROVE TypeOK'
  BY <1>5, StockWriteType, OrderFlowAssumption DEF SetLevels
<1>6. CASE UNCHANGED vars
  BY <1>6 DEF vars, TypeOK
<1>7. QED
  BY <1>1, <1>2, <1>3, <1>4, <1>5, <1>6 DEF Next

\* Every reachable state is well typed: no column ever leaves its domain, and in
\* particular no stock quantity becomes negative (inventory.py's CHECK constraints).
THEOREM TypeCorrect == Spec => []TypeOK
<1>1. Init => TypeOK
  BY OrderFlowAssumption
  DEF Init, TypeOK, EmptyCart, NoShipment, Shipment
<1>2. QED
  BY <1>1, TypeStep, PTL DEF Spec

-----------------------------------------------------------------------------
(***************************************************************************)
(* Orders and their shipments.                                             *)
(***************************************************************************)

\* A transition the code allows starts from an order that holds its stock and never
\* reaches a dispatched status.
LEMMA AllowedEdges ==
    ASSUME NEW from, NEW to \in AllowedTransitions(from)
    PROVE  /\ from \in Holding
           /\ to \in {"preparing", "cancelled", "refunded"}
           /\ to \in {"preparing", "refunded"} => from = "paid"
BY DEF AllowedTransitions, Holding

\* Every step moves an order and its shipment together, or neither.
LEMMA ShipmentStep == TypeOK /\ ShipmentMatchesOrder /\ [Next]_vars => ShipmentMatchesOrder'
<1> SUFFICES ASSUME TypeOK, ShipmentMatchesOrder, [Next]_vars PROVE ShipmentMatchesOrder'
  OBVIOUS
<1> USE DEF ShipmentMatchesOrder, Dispatched
<1>t. ASSUME NEW o \in Order
      PROVE  /\ status[o] \in OrderStatus \cup {"none"}
             /\ shipment[o] = [status |-> shipment[o].status, tracked |-> shipment[o].tracked]
             /\ shipment[o].status \in ShipmentStatus \cup {"none"}
  BY DEF TypeOK, Shipment
<1>d. DOMAIN status = Order /\ DOMAIN shipment = Order
  BY DEF TypeOK
<1>1. ASSUME NEW o \in Order, NEW cart \in Cart, CreateOrder(o, cart) PROVE ShipmentMatchesOrder'
  BY <1>1, <1>d DEF CreateOrder, WriteOrder, MoveTo, MoveFrom
<1>2. ASSUME NEW o \in Order, NEW cart \in Cart, NEW outcome \in GatewayOutcome,
             Checkout(o, cart, outcome)
      PROVE  ShipmentMatchesOrder'
  BY <1>2, <1>d DEF Checkout, WriteCheckout, MoveTo, MoveFrom
<1>3. ASSUME NEW o \in Order, NEW outcome \in GatewayOutcome, CreatePayment(o, outcome)
      PROVE  ShipmentMatchesOrder'
  BY <1>3, <1>d DEF CreatePayment, WritePayment, MoveFrom
<1>4. ASSUME NEW o \in Order, NEW new \in OrderStatus, NEW source \in Source,
             new \in AllowedTransitions(status[o]), WriteTransition(o, new, source)
      PROVE  ShipmentMatchesOrder'
  <2>1. status' = [status EXCEPT ![o] = new]
    BY <1>4 DEF WriteTransition, MoveTo, MoveFrom
  <2>2. CASE new \in Reversing
    <3>1. shipment' = [shipment EXCEPT ![o] = CancelledShipment(shipment[o])]
      BY <1>4, <2>2 DEF WriteTransition
    <3>2. QED
      BY <1>4, <1>t, <1>d, <2>1, <2>2, <3>1, AllowedEdges
      DEF Reversing, CancelledShipment, Undispatched, Holding, ShipmentStatus
  <2>3. CASE new \notin Reversing
    BY <1>4, <1>d, <2>1, <2>3, AllowedEdges DEF WriteTransition, Reversing, Holding
  <2>4. QED
    BY <2>2, <2>3
<1>5. ASSUME NEW o \in Order, NEW tracked \in BOOLEAN, CreateShipment(o, tracked)
      PROVE  ShipmentMatchesOrder'
  BY <1>5, <1>d DEF CreateShipment, WriteShipment, MoveOrder, MoveTo, MoveFrom
<1>6. ASSUME NEW o \in Order, NEW tracked \in BOOLEAN, UpdateShipment(o, tracked)
      PROVE  ShipmentMatchesOrder'
  BY <1>6, <1>d, <1>t DEF UpdateShipment, WriteEdit, Undispatched
<1>7. ASSUME NEW o \in Order, MarkShipped(o) PROVE ShipmentMatchesOrder'
  BY <1>7, <1>d DEF MarkShipped, WriteDispatch, MoveOrder, MoveTo, MoveFrom
<1>8. ASSUME NEW o \in Order, MarkDelivered(o) PROVE ShipmentMatchesOrder'
  BY <1>8, <1>d, <1>t DEF MarkDelivered, WriteDelivery, MoveOrder, MoveTo, MoveFrom
<1>9. ASSUME NEW p \in Product, NEW level, WriteStock(p, level) PROVE ShipmentMatchesOrder'
  BY <1>9 DEF WriteStock
<1>10. CASE UNCHANGED vars
  BY <1>10 DEF vars
<1>11. QED
  BY <1>1, <1>2, <1>3, <1>4, <1>5, <1>6, <1>7, <1>8, <1>9, <1>10
  DEF Next, TransitionStatus, Cancel, AdjustStock, SetLevels, OrderStatus, Source

\* An order is shipped or delivered exactly when its shipment is, never without a
\* tracking number, and no shipment is prepared for an order that is not in preparation.
THEOREM ShipmentsMatch == Spec => []ShipmentMatchesOrder
<1>1. Init => ShipmentMatchesOrder
  BY DEF Init, ShipmentMatchesOrder, NoShipment, Dispatched
<1>2. QED
  BY <1>1, TypeCorrect, ShipmentStep, PTL DEF Spec

-----------------------------------------------------------------------------
(***************************************************************************)
(* The ledger.                                                             *)
(***************************************************************************)
\* Every step keeps the ledger in agreement with the payments and the status.
LEMMA LedgerStep ==
    TypeOK /\ ShipmentMatchesOrder /\ LedgerMatchesPayments /\ [Next]_vars
        => LedgerMatchesPayments'
<1> SUFFICES ASSUME TypeOK, ShipmentMatchesOrder, LedgerMatchesPayments, [Next]_vars
             PROVE  LedgerMatchesPayments'
  OBVIOUS
<1> USE DEF LedgerMatchesPayments
<1>t. ASSUME NEW o \in Order
      PROVE  /\ payments[o] \in [PaymentStatus -> Nat]
             /\ status[o] \in OrderStatus \cup {"none"}
  BY DEF TypeOK
<1>d. DOMAIN status = Order /\ DOMAIN ledger = Order /\ DOMAIN payments = Order
  BY DEF TypeOK
\* A step that moves o between two statuses of a paid order, whatever the order of checks.
<1>m. ASSUME NEW o \in Order, NEW to \in {"preparing", "shipped", "delivered"},
             status[o] \in {"paid", "preparing", "shipped", "delivered"},
             status' = [status EXCEPT ![o] = to], UNCHANGED <<ledger, payments>>
      PROVE  LedgerMatchesPayments'
  BY <1>m, <1>d
<1>1. ASSUME NEW o \in Order, NEW cart \in Cart, CreateOrder(o, cart) PROVE LedgerMatchesPayments'
  BY <1>1, <1>d DEF CreateOrder, WriteOrder, MoveTo, MoveFrom
\* One more payment of o, which has had no sale.
<1>2. ASSUME NEW o \in Order, NEW outcome \in GatewayOutcome,
             status[o] \in {"none", "pending"}, AddPayment(o, outcome),
             IF outcome = "completed"
             THEN status' = [status EXCEPT ![o] = "paid"] /\ AddSale(o)
             ELSE status' = [status EXCEPT ![o] = "pending"] /\ UNCHANGED ledger
      PROVE  LedgerMatchesPayments'
  <2>1. ledger[o] = {} /\ payments[o]["completed"] = 0
    BY <1>2
  <2>2. payments' = [payments EXCEPT ![o] = [payments[o] EXCEPT ![outcome] = @ + 1]]
    BY <1>2 DEF AddPayment
  <2>3. CASE outcome = "completed"
    <3>1. payments'[o]["completed"] = 1
      BY <1>d, <1>t, <2>1, <2>2, <2>3 DEF PaymentStatus
    <3>2. ledger'[o] = {"sale"}
      BY <1>2, <1>d, <2>1, <2>3 DEF AddSale
    <3>3. status'[o] = "paid"
      BY <1>2, <1>d, <2>3
    <3>4. ASSUME NEW x \in Order, x # o
          PROVE  status'[x] = status[x] /\ ledger'[x] = ledger[x] /\ payments'[x] = payments[x]
      BY <1>2, <1>d, <2>2, <2>3, <3>4 DEF AddSale
    <3>5. QED
      BY <3>1, <3>2, <3>3, <3>4
  <2>4. CASE outcome # "completed"
    <3>1. payments'[o]["completed"] = 0
      BY <1>d, <1>t, <2>1, <2>2, <2>4 DEF PaymentStatus
    <3>2. ledger'[o] = {} /\ status'[o] = "pending"
      BY <1>2, <1>d, <2>1, <2>4
    <3>3. ASSUME NEW x \in Order, x # o
          PROVE  status'[x] = status[x] /\ ledger'[x] = ledger[x] /\ payments'[x] = payments[x]
      BY <1>2, <1>d, <2>2, <2>4, <3>3
    <3>4. QED
      BY <3>1, <3>2, <3>3
  <2>5. QED
    BY <2>3, <2>4
<1>3. ASSUME NEW o \in Order, NEW cart \in Cart, NEW outcome \in GatewayOutcome,
             Checkout(o, cart, outcome)
      PROVE  LedgerMatchesPayments'
  BY <1>2, <1>3 DEF Checkout, WriteCheckout, MoveTo, MoveFrom
<1>4. ASSUME NEW o \in Order, NEW outcome \in GatewayOutcome, CreatePayment(o, outcome)
      PROVE  LedgerMatchesPayments'
  <2>1. outcome # "completed" => status' = [status EXCEPT ![o] = "pending"]
    BY <1>4, <1>d DEF CreatePayment, WritePayment, TypeOK
  <2>2. QED
    BY <1>2, <1>4, <2>1 DEF CreatePayment, WritePayment, MoveFrom
<1>5. ASSUME NEW o \in Order, NEW new \in OrderStatus, NEW source \in Source,
             new \in AllowedTransitions(status[o]), WriteTransition(o, new, source)
      PROVE  LedgerMatchesPayments'
  <2>1. status' = [status EXCEPT ![o] = new] /\ UNCHANGED payments
    BY <1>5 DEF WriteTransition, MoveTo, MoveFrom
  <2>2. CASE new \in Reversing
    <3>1. ledger' = [ledger EXCEPT ![o] = Reversed(ledger[o])]
      BY <1>5, <2>2 DEF WriteTransition
    <3>2. status[o] = "pending" => new = "cancelled" /\ Reversed(ledger[o]) = {}
      BY <1>5, AllowedEdges, <2>2 DEF Reversed, Reversing
    <3>3. status[o] \in {"paid", "preparing"} => Reversed(ledger[o]) = {"sale", "reversal"}
      BY DEF Reversed
    <3>4. status[o] \in {"pending", "paid", "preparing"}
      BY <1>5, AllowedEdges DEF Holding
    <3>5. QED
      BY <1>d, <2>1, <2>2, <3>1, <3>2, <3>3, <3>4 DEF Reversing
  <2>3. CASE new \notin Reversing
    <3>1. new = "preparing" /\ status[o] = "paid"
      BY <1>5, <2>3, AllowedEdges DEF Reversing
    <3>2. UNCHANGED ledger
      BY <1>5, <2>3 DEF WriteTransition
    <3>3. QED
      BY <1>m, <2>1, <3>1, <3>2
  <2>4. QED
    BY <2>2, <2>3
<1>6. ASSUME NEW o \in Order, NEW tracked \in BOOLEAN, CreateShipment(o, tracked)
      PROVE  LedgerMatchesPayments'
  <2>1. status' = [status EXCEPT ![o] = "preparing"]
    BY <1>6, <1>d DEF CreateShipment, WriteShipment, MoveOrder, MoveTo, MoveFrom, TypeOK
  <2>2. QED
    BY <1>6, <1>m, <2>1 DEF CreateShipment, WriteShipment
<1>7. ASSUME NEW o \in Order, NEW tracked \in BOOLEAN, UpdateShipment(o, tracked)
      PROVE  LedgerMatchesPayments'
  BY <1>7 DEF UpdateShipment, WriteEdit
<1>8. ASSUME NEW o \in Order, MarkShipped(o) PROVE LedgerMatchesPayments'
  <2>1. status' = [status EXCEPT ![o] = "shipped"] /\ UNCHANGED <<ledger, payments>>
    BY <1>8 DEF MarkShipped, WriteDispatch, MoveOrder, MoveTo, MoveFrom
  <2>2. QED
    BY <1>8, <1>m, <2>1 DEF MarkShipped
<1>9. ASSUME NEW o \in Order, MarkDelivered(o) PROVE LedgerMatchesPayments'
  <2>1. status[o] = "shipped"
    BY <1>9 DEF MarkDelivered, ShipmentMatchesOrder
  <2>2. status' = [status EXCEPT ![o] = "delivered"] /\ UNCHANGED <<ledger, payments>>
    BY <1>9, <2>1 DEF MarkDelivered, WriteDelivery, MoveOrder, MoveTo, MoveFrom
  <2>3. QED
    BY <1>m, <2>1, <2>2
<1>10. ASSUME NEW p \in Product, NEW level, WriteStock(p, level) PROVE LedgerMatchesPayments'
  BY <1>10 DEF WriteStock
<1>11. CASE UNCHANGED vars
  BY <1>11 DEF vars
<1>12. QED
  BY <1>1, <1>3, <1>4, <1>5, <1>6, <1>7, <1>8, <1>9, <1>10, <1>11
  DEF Next, TransitionStatus, Cancel, AdjustStock, SetLevels, OrderStatus, Source

\* An order is sold exactly when one payment of it completed, and reversed exactly when
\* it was then cancelled or refunded: no order is ever sold twice (sale.py's unique
\* constraint) while requests run one at a time.
THEOREM LedgerCorrect == Spec => []LedgerMatchesPayments
<1>1. Init => LedgerMatchesPayments
  BY DEF Init, LedgerMatchesPayments, PaymentStatus
<1>2. QED
  BY <1>1, TypeCorrect, ShipmentsMatch, LedgerStep, PTL DEF Spec

-----------------------------------------------------------------------------
(***************************************************************************)
(* The end of an order.                                                    *)
(***************************************************************************)

\* No step moves an order out of cancelled, refunded or delivered, nor touches its
\* ledger, its payments or its shipment.
LEMMA FinalStep ==
    ASSUME TypeOK, ShipmentMatchesOrder, Next, NEW x \in Order, status[x] \in Final
    PROVE  UNCHANGED <<status[x], ledger[x], payments[x], shipment[x]>>
<1> USE DEF Final
<1>d. /\ DOMAIN status = Order /\ DOMAIN ledger = Order
      /\ DOMAIN payments = Order /\ DOMAIN shipment = Order
  BY DEF TypeOK
<1> DEFINE Kept == UNCHANGED <<status[x], ledger[x], payments[x], shipment[x]>>
<1>1. ASSUME NEW o \in Order, NEW cart \in Cart, CreateOrder(o, cart) PROVE Kept
  BY <1>1, <1>d DEF CreateOrder, WriteOrder, MoveTo, MoveFrom
<1>2. ASSUME NEW o \in Order, NEW cart \in Cart, NEW outcome \in GatewayOutcome,
             Checkout(o, cart, outcome)
      PROVE  Kept
  BY <1>2, <1>d DEF Checkout, WriteCheckout, AddPayment, AddSale, MoveTo, MoveFrom
<1>3. ASSUME NEW o \in Order, NEW outcome \in GatewayOutcome, CreatePayment(o, outcome) PROVE Kept
  BY <1>3, <1>d DEF CreatePayment, WritePayment, AddPayment, AddSale, MoveFrom
<1>4. ASSUME NEW o \in Order, NEW new, NEW source,
             new \in AllowedTransitions(status[o]), WriteTransition(o, new, source)
      PROVE  Kept
  <2>1. o # x
    BY <1>4, AllowedEdges DEF Holding
  <2>2. QED
    BY <1>4, <1>d, <2>1 DEF WriteTransition, MoveTo, MoveFrom
<1>5. ASSUME NEW o \in Order, NEW tracked \in BOOLEAN, CreateShipment(o, tracked) PROVE Kept
  BY <1>5, <1>d DEF CreateShipment, WriteShipment, MoveOrder, MoveTo, MoveFrom
<1>6. ASSUME NEW o \in Order, NEW tracked \in BOOLEAN, UpdateShipment(o, tracked) PROVE Kept
  <2>1. o # x
    BY <1>6 DEF UpdateShipment, Undispatched, ShipmentMatchesOrder
  <2>2. QED
    BY <1>6, <1>d, <2>1 DEF UpdateShipment, WriteEdit
<1>7. ASSUME NEW o \in Order, MarkShipped(o) PROVE Kept
  BY <1>7, <1>d DEF MarkShipped, WriteDispatch, MoveOrder, MoveTo, MoveFrom
<1>8. ASSUME NEW o \in Order, MarkDelivered(o) PROVE Kept
  <2>1. o # x
    BY <1>8 DEF MarkDelivered, ShipmentMatchesOrder
  <2>2. QED
    BY <1>8, <1>d, <2>1 DEF MarkDelivered, WriteDelivery, MoveOrder, MoveTo, MoveFrom
<1>9. ASSUME NEW p \in Product, NEW level, WriteStock(p, level) PROVE Kept
  BY <1>9 DEF WriteStock
<1>10. QED
  BY <1>1, <1>2, <1>3, <1>4, <1>5, <1>6, <1>7, <1>8, <1>9
  DEF Next, TransitionStatus, Cancel, AdjustStock, SetLevels

\* A finished order stays as it is, whatever requests follow.
THEOREM FinalKept == Spec => FinalIsFinal
<1>1. TypeOK /\ ShipmentMatchesOrder /\ [Next]_vars
        => [\A o \in Order : status[o] \in Final =>
               UNCHANGED <<status[o], ledger[o], payments[o], shipment[o]>>]_vars
  BY FinalStep
<1>2. QED
  BY <1>1, TypeCorrect, ShipmentsMatch, PTL DEF Spec, FinalIsFinal

-----------------------------------------------------------------------------
(***************************************************************************)
(* The history.                                                            *)
(***************************************************************************)

\* What HistoryChains says of one history, h, and the status it leads to, s.
Chain(h, s) ==
    /\ s = (IF h = <<>> THEN "none" ELSE h[Len(h)].to)
    /\ \A i \in 1..Len(h) :
          /\ LegalChange(h[i])
          /\ h[i].from = (IF i = 1 THEN "none" ELSE h[i - 1].to)

\* A legal change that starts at the present status extends the chain.
LEMMA ChainExtends ==
    ASSUME NEW h \in Seq(Change), NEW s, Chain(h, s),
           NEW c \in Change, c.from = s, LegalChange(c)
    PROVE  Chain(Append(h, c), c.to)
<1> DEFINE g == Append(h, c)
<1>1. /\ g \in Seq(Change) /\ Len(g) = Len(h) + 1 /\ Len(h) \in Nat
      /\ \A i \in 1..Len(h) : g[i] = h[i]
      /\ g[Len(h) + 1] = c
  OBVIOUS
<1> HIDE DEF g
<1>2. g # <<>> /\ g[Len(g)].to = c.to
  BY <1>1
<1>3. ASSUME NEW i \in 1..Len(g)
      PROVE  LegalChange(g[i]) /\ g[i].from = (IF i = 1 THEN "none" ELSE g[i - 1].to)
  <2>1. CASE i \in 1..Len(h)
    <3>1. g[i] = h[i] /\ (i # 1 => g[i - 1] = h[i - 1])
      <4>1. i # 1 => i - 1 \in 1..Len(h)
        BY <1>1, <2>1
      <4>2. QED
        BY <1>1, <2>1, <4>1
    <3>2. QED
      BY <2>1, <3>1 DEF Chain
  <2>2. CASE i = Len(h) + 1
    <3>1. g[i] = c
      BY <1>1, <2>2
    <3>2. CASE h = <<>>
      BY <1>1, <2>2, <3>1, <3>2 DEF Chain
    <3>3. CASE h # <<>>
      <4>1. Len(h) \in 1..Len(h)
        BY <1>1, <3>3
      <4>2. i # 1 /\ g[i - 1] = h[Len(h)]
        BY <1>1, <2>2, <4>1
      <4>3. QED
        BY <3>1, <3>3, <4>2 DEF Chain
    <3>4. QED
      BY <3>2, <3>3
  <2>3. QED
    BY <1>1, <2>1, <2>2
<1>4. QED
  BY <1>2, <1>3 DEF Chain, g

\* What a delivery relies on: a shipment is in transit only while its order is shipped.
OnItsWay == \A o \in Order : shipment[o].status = "in_transit" => status[o] = "shipped"

\* A request that moves some order by one legal edge keeps the chain of every order.
LEMMA ChainMove ==
    ASSUME TypeOK, NEW x \in Order, Chain(history[x], status[x]),
           NEW o \in Order, NEW to \in OrderStatus, NEW source \in Source,
           LegalChange(Entry(status[o], to, source)), MoveTo(o, to, source)
    PROVE  Chain(history'[x], status'[x])
<1>1. /\ status[o] \in OrderStatus \cup {"none"} /\ history[o] \in Seq(Change)
      /\ DOMAIN status = Order /\ DOMAIN history = Order
  BY DEF TypeOK
<1>2. /\ Entry(status[o], to, source) \in Change
      /\ Entry(status[o], to, source).from = status[o]
      /\ Entry(status[o], to, source).to = to
  BY <1>1, EntryType DEF Entry
<1>3. CASE x = o
  BY <1>1, <1>2, <1>3, ChainExtends DEF MoveTo, MoveFrom
<1>4. CASE x # o
  BY <1>1, <1>4 DEF MoveTo, MoveFrom
<1>5. QED
  BY <1>3, <1>4

\* Every step extends the history of an order by a legal change, or leaves it.
LEMMA ChainStep ==
    ASSUME TypeOK, OnItsWay, [Next]_vars, NEW x \in Order, Chain(history[x], status[x])
    PROVE  Chain(history'[x], status'[x])
<1> DEFINE Goal == Chain(history'[x], status'[x])
<1>s. UNCHANGED <<status, history>> => Goal
  OBVIOUS
<1>1. ASSUME NEW o \in Order, NEW cart \in Cart, CreateOrder(o, cart) PROVE Goal
  BY <1>1, ChainMove DEF CreateOrder, WriteOrder, LegalChange, Entry, OrderStatus, Source
<1>2. ASSUME NEW o \in Order, NEW cart \in Cart, NEW outcome \in GatewayOutcome,
             Checkout(o, cart, outcome)
      PROVE  Goal
  <2>1. CASE outcome = "completed"
    <3> DEFINE c1 == Entry("none", "pending", "order_created")
               c2 == Entry("pending", "paid", "payment")
    <3>2. /\ c1 \in Change /\ c1.from = "none" /\ c1.to = "pending" /\ LegalChange(c1)
          /\ c2 \in Change /\ c2.from = "pending" /\ c2.to = "paid" /\ LegalChange(c2)
      BY EntryType DEF Entry, LegalChange, OrderStatus, Source
    <3> HIDE DEF c1, c2
    <3>3. Chain(<<>>, "none")
      BY DEF Chain
    <3>4. /\ <<>> \in Seq(Change) /\ <<c1>> \in Seq(Change)
          /\ <<c1>> = Append(<<>>, c1) /\ <<c1, c2>> = Append(<<c1>>, c2)
      <4>1. <<>> \in Seq(Change)
        OBVIOUS
      <4>2. <<c1>> \in Seq(Change)
        BY <3>2
      <4>3. <<c1>> = Append(<<>>, c1)
        OBVIOUS
      <4>4. <<c1, c2>> = Append(<<c1>>, c2)
        OBVIOUS
      <4>5. QED
        BY <4>1, <4>2, <4>3, <4>4
    <3>5. Chain(<<c1>>, "pending")
      BY <3>2, <3>3, <3>4, ChainExtends
    <3>6. Chain(<<c1, c2>>, "paid")
      BY <3>2, <3>4, <3>5, ChainExtends
    <3>7. status' = [status EXCEPT ![o] = "paid"] /\ history' = [history EXCEPT ![o] = <<c1, c2>>]
      BY <1>2, <2>1 DEF Checkout, WriteCheckout, c1, c2
    <3>8. QED
      BY <3>6, <3>7 DEF TypeOK
  <2>2. CASE outcome # "completed"
    BY <1>2, <2>2, ChainMove DEF Checkout, WriteCheckout, LegalChange, Entry, OrderStatus, Source
  <2>3. QED
    BY <2>1, <2>2
<1>3. ASSUME NEW o \in Order, NEW outcome \in GatewayOutcome, CreatePayment(o, outcome)
      PROVE  Goal
  <2>1. CASE outcome = "completed"
    <3>1. MoveTo(o, "paid", "payment") /\ status[o] = "pending"
      BY <1>3, <2>1 DEF CreatePayment, WritePayment, MoveTo
    <3>2. QED
      BY <3>1, ChainMove DEF LegalChange, Entry, OrderStatus, Source
  <2>2. CASE outcome # "completed"
    BY <1>3, <1>s, <2>2 DEF CreatePayment, WritePayment
  <2>3. QED
    BY <2>1, <2>2
<1>4. ASSUME NEW o \in Order, NEW new \in OrderStatus, TransitionStatus(o, new) PROVE Goal
  <2>1. status[o] \in Holding /\ new \in AllowedTransitions(status[o])
    BY <1>4, AllowedEdges DEF TransitionStatus
  <2>2. LegalChange(Entry(status[o], new, "manual"))
    BY <2>1 DEF LegalChange, Entry
  <2>3. QED
    BY <1>4, <2>2, ChainMove DEF TransitionStatus, WriteTransition, Source
<1>5. ASSUME NEW o \in Order, Cancel(o) PROVE Goal
  <2>1. LegalChange(Entry(status[o], "cancelled", "customer_cancel"))
    BY <1>5 DEF Cancel, LegalChange, Entry
  <2>2. QED
    BY <1>5, <2>1, ChainMove DEF Cancel, WriteTransition, OrderStatus, Source
<1>6. ASSUME NEW o \in Order, NEW tracked \in BOOLEAN, CreateShipment(o, tracked) PROVE Goal
  BY <1>6, <1>s, ChainMove
  DEF CreateShipment, WriteShipment, MoveOrder, LegalChange, Entry, OrderStatus, Source
<1>7. ASSUME NEW o \in Order, NEW tracked \in BOOLEAN, UpdateShipment(o, tracked) PROVE Goal
  BY <1>7, <1>s DEF UpdateShipment, WriteEdit
<1>8. ASSUME NEW o \in Order, MarkShipped(o) PROVE Goal
  BY <1>8, ChainMove DEF MarkShipped, WriteDispatch, MoveOrder, LegalChange, Entry, OrderStatus, Source
<1>9. ASSUME NEW o \in Order, MarkDelivered(o) PROVE Goal
  <2>1. status[o] = "shipped"
    BY <1>9 DEF MarkDelivered, OnItsWay
  <2>2. QED
    BY <1>9, <2>1, ChainMove
    DEF MarkDelivered, WriteDelivery, MoveOrder, LegalChange, Entry, OrderStatus, Source
<1>10. ASSUME NEW p \in Product, NEW level, WriteStock(p, level) PROVE Goal
  BY <1>10, <1>s DEF WriteStock
<1>11. CASE UNCHANGED vars
  BY <1>11, <1>s DEF vars
<1>12. QED
  BY <1>1, <1>2, <1>3, <1>4, <1>5, <1>6, <1>7, <1>8, <1>9, <1>10, <1>11
  DEF Next, AdjustStock, SetLevels

\* So every step keeps every chain.
LEMMA HistoryStep ==
    TypeOK /\ ShipmentMatchesOrder /\ HistoryChains /\ [Next]_vars => HistoryChains'
<1> SUFFICES ASSUME TypeOK, ShipmentMatchesOrder, HistoryChains, [Next]_vars
             PROVE  HistoryChains'
  OBVIOUS
<1>1. OnItsWay /\ \A x \in Order : Chain(history[x], status[x])
  BY DEF OnItsWay, ShipmentMatchesOrder, HistoryChains, Chain
<1>2. \A x \in Order : Chain(history'[x], status'[x])
  BY <1>1, ChainStep
<1>3. QED
  BY <1>2 DEF HistoryChains, Chain

\* The history of an order is an unbroken chain of legal changes from its creation to
\* its present status.
THEOREM HistoryComplete == Spec => []HistoryChains
<1>1. Init => HistoryChains
  BY DEF Init, HistoryChains
<1>2. QED
  BY <1>1, TypeCorrect, ShipmentsMatch, HistoryStep, PTL DEF Spec

-----------------------------------------------------------------------------
(***************************************************************************)
(* The stock: reservations are exact, nothing is oversold and every unit   *)
(* is accounted for.  HeldUnits is a set, so the proofs count it order by  *)
(* order: a request changes one order, and with it the units of that order *)
(* only.                                                                   *)
(***************************************************************************)
\* The held units of p in the orders other than o.
Others(st, it, S, p, o) == {u \in HeldUnits(st, it, S, p) : u[1] # o}

\* The units of p that order o itself holds.
Own(st, it, S, p, o) == IF st[o] \in S THEN it[o][p] ELSE 0

\* The units held can be counted.
LEMMA HeldFinite ==
    ASSUME NEW st, NEW it, NEW S, NEW p
    PROVE  /\ IsFiniteSet(HeldUnits(st, it, S, p))
           /\ Cardinality(HeldUnits(st, it, S, p)) \in Nat
<1>1. IsFiniteSet(Order) /\ IsFiniteSet(1..MaxQty)
  BY OrderFlowAssumption, FS_Interval
<1>2. IsFiniteSet(Order \X (1..MaxQty))
  BY <1>1, FS_Product, Zenon
<1>3. HeldUnits(st, it, S, p) \subseteq Order \X (1..MaxQty)
  BY DEF HeldUnits
<1>4. QED
  BY <1>2, <1>3, FS_Subset, FS_CardinalityType

\* The units held are those of o and those of the others.
LEMMA CountSplit ==
    ASSUME NEW st, NEW it, NEW S, NEW p, NEW o \in Order, it[o][p] \in 0..MaxQty
    PROVE  /\ Cardinality(Others(st, it, S, p, o)) \in Nat
           /\ Cardinality(HeldUnits(st, it, S, p))
                = Cardinality(Others(st, it, S, p, o)) + Own(st, it, S, p, o)
<1> DEFINE line == {o} \X (1..Own(st, it, S, p, o))
<1>1. Own(st, it, S, p, o) \in Nat /\ MaxQty \in Nat
  BY OrderFlowAssumption DEF Own
<1>2. Others(st, it, S, p, o) \subseteq HeldUnits(st, it, S, p)
  BY DEF Others
<1>3. IsFiniteSet(Others(st, it, S, p, o)) /\ Cardinality(Others(st, it, S, p, o)) \in Nat
  BY <1>2, HeldFinite, FS_Subset, FS_CardinalityType
<1>4. IsFiniteSet(line) /\ Cardinality(line) = Own(st, it, S, p, o)
  <2>1. IsFiniteSet({o}) /\ Cardinality({o}) = 1
    BY FS_Singleton
  <2>2. /\ IsFiniteSet(1..Own(st, it, S, p, o))
        /\ Cardinality(1..Own(st, it, S, p, o)) = Own(st, it, S, p, o)
    BY <1>1, FS_Interval
  <2>3. IsFiniteSet(line) /\ Cardinality(line) = 1 * Own(st, it, S, p, o)
    <3>1. Cardinality(line) = Cardinality({o}) * Cardinality(1..Own(st, it, S, p, o))
      BY <2>1, <2>2, FS_Product, Zenon
    <3>2. IsFiniteSet(line)
      BY <2>1, <2>2, FS_Product, Zenon
    <3>3. QED
      BY <2>1, <2>2, <3>1, <3>2, Zenon
  <2>4. QED
    BY <1>1, <2>3
<1>5. HeldUnits(st, it, S, p) = Others(st, it, S, p, o) \cup line
  <2>1. ASSUME NEW u \in HeldUnits(st, it, S, p) PROVE u \in Others(st, it, S, p, o) \cup line
    BY <2>1, <1>1 DEF HeldUnits, Others, Own
  <2>2. ASSUME NEW u \in line PROVE u \in HeldUnits(st, it, S, p)
    BY <2>2, <1>1 DEF HeldUnits, Own
  <2>3. QED
    BY <2>1, <2>2 DEF Others
<1>6. Others(st, it, S, p, o) \cap line = {}
  BY DEF Others
<1>7. QED
  <2> HIDE DEF line
  <2>1. Cardinality(Others(st, it, S, p, o) \cap line) = 0
    BY <1>6, FS_EmptySet
  <2>2. Cardinality(Others(st, it, S, p, o) \cup line)
          = Cardinality(Others(st, it, S, p, o)) + Cardinality(line)
              - Cardinality(Others(st, it, S, p, o) \cap line)
    BY <1>3, <1>4, FS_Union
  <2>3. QED
    BY <1>1, <1>3, <1>4, <1>5, <2>1, <2>2

\* When only o changes, the count changes by what o held and what it now holds.
LEMMA CountChange ==
    ASSUME NEW st, NEW it, NEW st2, NEW it2, NEW S, NEW p, NEW o \in Order,
           it[o][p] \in 0..MaxQty, it2[o][p] \in 0..MaxQty,
           \A x \in Order : x # o => st2[x] = st[x] /\ it2[x] = it[x]
    PROVE  \E rest \in Nat :
              /\ Cardinality(HeldUnits(st, it, S, p)) = rest + Own(st, it, S, p, o)
              /\ Cardinality(HeldUnits(st2, it2, S, p)) = rest + Own(st2, it2, S, p, o)
<1>1. Others(st, it, S, p, o) = Others(st2, it2, S, p, o)
  BY DEF Others, HeldUnits
<1>2. QED
  BY <1>1, CountSplit
-----------------------------------------------------------------------------
(***************************************************************************)
(* The inductive invariant.  Exact reservations alone do not survive a     *)
(* release (max(0, ...) could cut it short) nor a dispatch (it needs the   *)
(* units on hand), and a delivery keeps the dispatched units dispatched    *)
(* only because its order is shipped.                                      *)
(***************************************************************************)
StockExact == ReservationExact /\ NoOversell /\ StockConserved
StockSound == TypeOK /\ StockExact
StockInv == StockSound /\ ShipmentMatchesOrder

\* Nothing but o changes.
OnlyOrder(o) ==
    \A x \in Order : x # o => status'[x] = status[x] /\ items'[x] = items[x]

\* The request leaves o's units where they are: reserved, dispatched or neither.
LEMMA Unmoved ==
    ASSUME StockSound, TypeOK', NEW o \in Order, OnlyOrder(o),
           UNCHANGED <<items, onHand, reserved, stocked>>,
           status[o] \in Holding <=> status'[o] \in Holding,
           status[o] \in Dispatched <=> status'[o] \in Dispatched
    PROVE  StockExact'
<1>1. ASSUME NEW p \in Product, NEW S \in {Holding, Dispatched}
      PROVE  Cardinality(HeldUnits(status', items', S, p)) = Cardinality(HeldUnits(status, items, S, p))
  <2>1. items[o][p] \in 0..MaxQty /\ items'[o][p] \in 0..MaxQty
    BY DEF StockSound, TypeOK
  <2>2. Own(status', items', S, p, o) = Own(status, items, S, p, o)
    BY DEF Own
  <2>3. PICK rest \in Nat :
              /\ Cardinality(HeldUnits(status, items, S, p)) = rest + Own(status, items, S, p, o)
              /\ Cardinality(HeldUnits(status', items', S, p)) = rest + Own(status', items', S, p, o)
    BY <2>1, CountChange DEF OnlyOrder
  <2>4. QED
    BY <2>2, <2>3
<1>2. QED
  BY <1>1 DEF StockSound, StockExact, ReservationExact, NoOversell, StockConserved

\* A new order reserves its lines, which the available stock covers.
LEMMA Placed ==
    ASSUME StockSound, TypeOK', NEW o \in Order, OnlyOrder(o), NEW cart \in Cart,
           status[o] = "none", status'[o] \in Holding, items'[o] = cart,
           \A p \in Product : Available(p, cart[p]), Reserve(cart),
           UNCHANGED <<onHand, stocked>>
    PROVE  StockExact'
<1>1. SUFFICES ASSUME NEW p \in Product
               PROVE  /\ reserved'[p] = Cardinality(HeldUnits(status', items', Holding, p))
                      /\ reserved'[p] <= onHand'[p]
                      /\ stocked'[p] = onHand'[p]
                           + Cardinality(HeldUnits(status', items', Dispatched, p))
  BY DEF StockExact, ReservationExact, NoOversell, StockConserved
<1>2. /\ items[o][p] \in 0..MaxQty /\ items'[o][p] \in 0..MaxQty
      /\ reserved[p] \in Nat /\ onHand[p] \in Nat /\ MaxQty \in Nat
  BY OrderFlowAssumption DEF StockSound, TypeOK
<1>3. /\ Own(status, items, Holding, p, o) = 0 /\ Own(status', items', Holding, p, o) = cart[p]
      /\ Own(status, items, Dispatched, p, o) = 0 /\ Own(status', items', Dispatched, p, o) = 0
  BY DEF Own, Holding, Dispatched
<1>4. \E rest \in Nat :
         /\ Cardinality(HeldUnits(status, items, Holding, p)) = rest + 0
         /\ Cardinality(HeldUnits(status', items', Holding, p)) = rest + cart[p]
  BY <1>2, <1>3, CountChange DEF OnlyOrder
<1>5. \E rest \in Nat :
         /\ Cardinality(HeldUnits(status, items, Dispatched, p)) = rest + 0
         /\ Cardinality(HeldUnits(status', items', Dispatched, p)) = rest + 0
  BY <1>2, <1>3, CountChange DEF OnlyOrder
<1>6. reserved'[p] = reserved[p] + cart[p] /\ cart[p] \in Nat /\ cart[p] <= onHand[p] - reserved[p]
  BY <1>2 DEF Reserve, Available
<1>7. /\ reserved[p] = Cardinality(HeldUnits(status, items, Holding, p))
      /\ stocked[p] = onHand[p] + Cardinality(HeldUnits(status, items, Dispatched, p))
  BY DEF StockSound, StockExact, ReservationExact, StockConserved
<1>8. QED
  BY <1>2, <1>4, <1>5, <1>6, <1>7

\* A cancelled or refunded order gives its units back, all of them.
LEMMA Released ==
    ASSUME StockSound, TypeOK', NEW o \in Order, OnlyOrder(o),
           status[o] \in Holding, status'[o] \notin Holding \cup Dispatched,
           Release(o), UNCHANGED <<items, onHand, stocked>>
    PROVE  StockExact'
<1>1. SUFFICES ASSUME NEW p \in Product
               PROVE  /\ reserved'[p] = Cardinality(HeldUnits(status', items', Holding, p))
                      /\ reserved'[p] <= onHand'[p]
                      /\ stocked'[p] = onHand'[p]
                           + Cardinality(HeldUnits(status', items', Dispatched, p))
  BY DEF StockExact, ReservationExact, NoOversell, StockConserved
<1>2. /\ items[o][p] \in 0..MaxQty /\ items'[o][p] \in 0..MaxQty
      /\ items[o][p] \in Nat /\ reserved[p] \in Nat /\ onHand[p] \in Nat
  BY LeftoverNat DEF StockSound, TypeOK
<1>3. /\ Own(status, items, Holding, p, o) = items[o][p] /\ Own(status', items', Holding, p, o) = 0
      /\ Own(status, items, Dispatched, p, o) = 0 /\ Own(status', items', Dispatched, p, o) = 0
  BY DEF Own, Holding, Dispatched
<1>4. \E rest \in Nat :
         /\ Cardinality(HeldUnits(status, items, Holding, p)) = rest + items[o][p]
         /\ Cardinality(HeldUnits(status', items', Holding, p)) = rest + 0
  BY <1>2, <1>3, CountChange DEF OnlyOrder
<1>5. \E rest \in Nat :
         /\ Cardinality(HeldUnits(status, items, Dispatched, p)) = rest + 0
         /\ Cardinality(HeldUnits(status', items', Dispatched, p)) = rest + 0
  BY <1>2, <1>3, CountChange DEF OnlyOrder
<1>6. /\ reserved[p] = Cardinality(HeldUnits(status, items, Holding, p))
      /\ reserved[p] <= onHand[p]
      /\ stocked[p] = onHand[p] + Cardinality(HeldUnits(status, items, Dispatched, p))
  BY DEF StockSound, StockExact, ReservationExact, NoOversell, StockConserved
<1>7. reserved'[p] = reserved[p] - items[o][p]
  <2>1. items[o][p] <= reserved[p]
    BY <1>2, <1>4, <1>6
  <2>2. QED
    BY <1>2, <2>1, MonusNat DEF Release
<1>8. QED
  BY <1>2, <1>4, <1>5, <1>6, <1>7

\* A dispatched order takes its units off the shelf, all of them.
LEMMA Shipped ==
    ASSUME StockSound, TypeOK', NEW o \in Order, OnlyOrder(o),
           status[o] \in Holding, status'[o] \in Dispatched,
           Fulfill(o), UNCHANGED <<items, stocked>>
    PROVE  StockExact'
<1>1. SUFFICES ASSUME NEW p \in Product
               PROVE  /\ reserved'[p] = Cardinality(HeldUnits(status', items', Holding, p))
                      /\ reserved'[p] <= onHand'[p]
                      /\ stocked'[p] = onHand'[p]
                           + Cardinality(HeldUnits(status', items', Dispatched, p))
  BY DEF StockExact, ReservationExact, NoOversell, StockConserved
<1>2. /\ items[o][p] \in 0..MaxQty /\ items'[o][p] \in 0..MaxQty
      /\ items[o][p] \in Nat /\ reserved[p] \in Nat /\ onHand[p] \in Nat
  BY LeftoverNat DEF StockSound, TypeOK
<1>3. /\ Own(status, items, Holding, p, o) = items[o][p]
      /\ Own(status', items', Holding, p, o) = 0
      /\ Own(status, items, Dispatched, p, o) = 0
      /\ Own(status', items', Dispatched, p, o) = items[o][p]
  BY DEF Own, Holding, Dispatched
<1>4. \E rest \in Nat :
         /\ Cardinality(HeldUnits(status, items, Holding, p)) = rest + items[o][p]
         /\ Cardinality(HeldUnits(status', items', Holding, p)) = rest + 0
  BY <1>2, <1>3, CountChange DEF OnlyOrder
<1>5. \E rest \in Nat :
         /\ Cardinality(HeldUnits(status, items, Dispatched, p)) = rest + 0
         /\ Cardinality(HeldUnits(status', items', Dispatched, p)) = rest + items[o][p]
  BY <1>2, <1>3, CountChange DEF OnlyOrder
<1>6. /\ reserved[p] = Cardinality(HeldUnits(status, items, Holding, p))
      /\ reserved[p] <= onHand[p]
      /\ stocked[p] = onHand[p] + Cardinality(HeldUnits(status, items, Dispatched, p))
  BY DEF StockSound, StockExact, ReservationExact, NoOversell, StockConserved
<1>7. reserved'[p] = reserved[p] - items[o][p] /\ onHand'[p] = onHand[p] - items[o][p]
  <2>1. items[o][p] <= reserved[p] /\ items[o][p] <= onHand[p]
    BY <1>2, <1>4, <1>6
  <2>2. QED
    BY <1>2, <2>1, MonusNat DEF Fulfill
<1>8. QED
  BY <1>2, <1>4, <1>5, <1>6, <1>7

\* A manual change keeps the reserved units on hand, and is recorded.
LEMMA Restocked ==
    ASSUME StockSound, NEW p \in Product, NEW level \in Nat, level >= reserved[p], WriteStock(p, level)
    PROVE  StockExact'
<1>1. /\ \A q \in Product : onHand'[q] = IF q = p THEN level ELSE onHand[q]
      /\ \A q \in Product : stocked'[q] = IF q = p THEN stocked[q] + (level - onHand[q])
                                                  ELSE stocked[q]
      /\ UNCHANGED <<status, items, reserved>>
  BY DEF WriteStock, StockSound, TypeOK
<1>2. \A q \in Product :
         /\ reserved[q] = Cardinality(HeldUnits(status, items, Holding, q))
         /\ reserved[q] <= onHand[q]
         /\ stocked[q] = onHand[q] + Cardinality(HeldUnits(status, items, Dispatched, q))
  BY DEF StockSound, StockExact, ReservationExact, NoOversell, StockConserved
<1>3. \A q \in Product : onHand[q] \in Nat /\ reserved[q] \in Nat /\ stocked[q] \in Int
  BY DEF StockSound, TypeOK
<1>4. \A q \in Product : Cardinality(HeldUnits(status, items, Dispatched, q)) \in Nat
  BY HeldFinite
<1>5. QED
  BY <1>1, <1>2, <1>3, <1>4 DEF StockExact, ReservationExact, NoOversell, StockConserved

-----------------------------------------------------------------------------
(***************************************************************************)
(* The step, one request at a time.                                        *)
(***************************************************************************)
\* Every step keeps the stock exact.
LEMMA StockExactKept ==
    ASSUME StockSound, OnItsWay, [Next]_vars PROVE StockExact'
<1>t. StockSound /\ TypeOK /\ TypeOK'
  BY TypeStep DEF StockSound
<1>d. DOMAIN status = Order /\ DOMAIN items = Order
  BY <1>t DEF TypeOK
<1>1. ASSUME NEW o \in Order, NEW cart \in Cart, CreateOrder(o, cart) PROVE StockExact'
  <2>1. status' = [status EXCEPT ![o] = "pending"] /\ items' = [items EXCEPT ![o] = cart]
    BY <1>1 DEF CreateOrder, WriteOrder, MoveTo, MoveFrom
  <2>2. OnlyOrder(o) /\ status'[o] \in Holding /\ items'[o] = cart
    BY <1>d, <2>1 DEF OnlyOrder, Holding
  <2>3. QED
    BY <1>1, <1>t, <2>2, Placed DEF CreateOrder, WriteOrder
<1>2. ASSUME NEW o \in Order, NEW cart \in Cart, NEW outcome \in GatewayOutcome,
             Checkout(o, cart, outcome)
      PROVE  StockExact'
  <2>1. /\ status' = [status EXCEPT ![o] = IF outcome = "completed" THEN "paid" ELSE "pending"]
        /\ items' = [items EXCEPT ![o] = cart]
    BY <1>2 DEF Checkout, WriteCheckout, MoveTo, MoveFrom
  <2>2. OnlyOrder(o) /\ status'[o] \in Holding /\ items'[o] = cart
    BY <1>d, <2>1 DEF OnlyOrder, Holding
  <2>3. QED
    BY <1>2, <1>t, <2>2, Placed DEF Checkout, WriteCheckout
<1>3. ASSUME NEW o \in Order, NEW outcome \in GatewayOutcome, CreatePayment(o, outcome)
      PROVE  StockExact'
  <2>1. status' = [status EXCEPT ![o] = IF outcome = "completed" THEN "paid" ELSE "pending"]
    BY <1>3, <1>t DEF CreatePayment, WritePayment, MoveFrom, TypeOK
  <2>2. /\ OnlyOrder(o)
        /\ status[o] \in Holding \ Dispatched /\ status'[o] \in Holding \ Dispatched
        /\ UNCHANGED <<items, onHand, reserved, stocked>>
    BY <1>3, <1>d, <2>1 DEF CreatePayment, WritePayment, OnlyOrder, Holding, Dispatched
  <2>3. QED
    BY <1>t, <2>2, Unmoved
<1>4. ASSUME NEW o \in Order, NEW new, NEW source,
             new \in AllowedTransitions(status[o]), WriteTransition(o, new, source)
      PROVE  StockExact'
  <2>1. status' = [status EXCEPT ![o] = new] /\ UNCHANGED <<items, onHand, stocked>>
    BY <1>4 DEF WriteTransition, MoveTo, MoveFrom
  <2>2. OnlyOrder(o) /\ status'[o] = new /\ status[o] \in Holding
    BY <1>4, <1>d, <2>1, AllowedEdges DEF OnlyOrder
  <2>3. CASE new \in Reversing
    BY <1>4, <1>t, <2>1, <2>2, <2>3, Released DEF WriteTransition, Reversing, Holding, Dispatched
  <2>4. CASE new \notin Reversing
    <3>1. new = "preparing" /\ UNCHANGED reserved
      BY <1>4, <2>4, AllowedEdges DEF WriteTransition, Reversing
    <3>2. QED
      BY <1>t, <2>1, <2>2, <3>1, Unmoved DEF Holding, Dispatched
  <2>5. QED
    BY <2>3, <2>4
<1>5. ASSUME NEW o \in Order, NEW tracked \in BOOLEAN, CreateShipment(o, tracked) PROVE StockExact'
  <2>1. status' = [status EXCEPT ![o] = "preparing"] /\ UNCHANGED <<items, onHand, reserved, stocked>>
    BY <1>5, <1>t DEF CreateShipment, WriteShipment, MoveOrder, MoveTo, MoveFrom, TypeOK
  <2>2. OnlyOrder(o) /\ status[o] \in Holding \ Dispatched /\ status'[o] \in Holding \ Dispatched
    BY <1>5, <1>d, <2>1 DEF CreateShipment, OnlyOrder, Holding, Dispatched
  <2>3. QED
    BY <1>t, <2>1, <2>2, Unmoved
<1>6. ASSUME NEW o \in Order, NEW tracked \in BOOLEAN, UpdateShipment(o, tracked) PROVE StockExact'
  BY <1>6, <1>t, Unmoved DEF UpdateShipment, WriteEdit, OnlyOrder
<1>7. ASSUME NEW o \in Order, MarkShipped(o) PROVE StockExact'
  <2>1. status' = [status EXCEPT ![o] = "shipped"] /\ UNCHANGED <<items, stocked>> /\ Fulfill(o)
    BY <1>7 DEF MarkShipped, WriteDispatch, MoveOrder, MoveTo, MoveFrom
  <2>2. OnlyOrder(o) /\ status[o] \in Holding /\ status'[o] \in Dispatched
    BY <1>7, <1>d, <2>1 DEF MarkShipped, OnlyOrder, Holding, Dispatched
  <2>3. QED
    BY <1>t, <2>1, <2>2, Shipped
<1>8. ASSUME NEW o \in Order, MarkDelivered(o) PROVE StockExact'
  <2>1. status[o] = "shipped"
    BY <1>8 DEF MarkDelivered, OnItsWay
  <2>2. status' = [status EXCEPT ![o] = "delivered"] /\ UNCHANGED <<items, onHand, reserved, stocked>>
    BY <1>8, <2>1 DEF MarkDelivered, WriteDelivery, MoveOrder, MoveTo, MoveFrom
  <2>3. OnlyOrder(o) /\ status'[o] = "delivered"
    BY <1>d, <2>2 DEF OnlyOrder
  <2>4. QED
    BY <1>t, <2>1, <2>2, <2>3, Unmoved DEF Holding, Dispatched
<1>9. ASSUME NEW p \in Product, NEW delta \in -MaxStock..MaxStock, AdjustStock(p, delta)
      PROVE  StockExact'
  <2>1. onHand[p] + delta \in Nat
    BY <1>9, <1>t, OrderFlowAssumption DEF AdjustStock, TypeOK
  <2>2. QED
    BY <1>9, <1>t, <2>1, Restocked DEF AdjustStock
<1>10. ASSUME NEW p \in Product, NEW level \in 0..MaxStock, SetLevels(p, level) PROVE StockExact'
  BY <1>10, <1>t, OrderFlowAssumption, Restocked DEF SetLevels
<1>11. CASE UNCHANGED vars
  BY <1>11 DEF vars, StockSound, StockExact, ReservationExact, NoOversell, StockConserved
<1>12. QED
  BY <1>1, <1>2, <1>3, <1>4, <1>5, <1>6, <1>7, <1>8, <1>9, <1>10, <1>11
  DEF Next, TransitionStatus, Cancel

\* So every step keeps the stock invariant.
LEMMA StockStep == StockInv /\ [Next]_vars => StockInv'
<1> SUFFICES ASSUME StockInv, [Next]_vars PROVE StockInv'
  OBVIOUS
<1>1. OnItsWay
  BY DEF StockInv, ShipmentMatchesOrder, OnItsWay
<1>2. QED
  BY <1>1, StockExactKept, TypeStep, ShipmentStep DEF StockInv, StockSound

\* The empty shop satisfies it.
LEMMA StockInit == Init => StockInv
<1> SUFFICES ASSUME Init PROVE StockInv
  OBVIOUS
<1>1. TypeOK
  BY OrderFlowAssumption DEF Init, TypeOK, EmptyCart, NoShipment, Shipment
<1>2. ShipmentMatchesOrder
  BY DEF Init, ShipmentMatchesOrder, NoShipment, Dispatched
<1>3. ASSUME NEW p, NEW S \in {Holding, Dispatched}
      PROVE  Cardinality(HeldUnits(status, items, S, p)) = 0
  <2>1. HeldUnits(status, items, S, p) = {}
    BY DEF Init, HeldUnits, Holding, Dispatched
  <2>2. QED
    BY <2>1, FS_EmptySet
<1>4. QED
  BY <1>1, <1>2, <1>3, OrderFlowAssumption
  DEF Init, StockInv, StockSound, StockExact, ReservationExact, NoOversell, StockConserved

\* The invariant holds in every reachable state.
THEOREM StockInvariant == Spec => []StockInv
<1>1. QED
  BY StockInit, StockStep, PTL DEF Spec

\* The reserved count of a product is exactly what its open orders hold: release and
\* fulfill give back what reserve took, once, and their max(0, ...) never cuts anything.
THEOREM ReservationsExact == Spec => []ReservationExact
<1>1. StockInv => ReservationExact
  BY DEF StockInv, StockSound, StockExact
<1>2. QED
  BY <1>1, StockInvariant, PTL

\* Stock is never oversold: what open orders hold is on the shelf.
THEOREM NeverOversold == Spec => []NoOversell
<1>1. StockInv => NoOversell
  BY DEF StockInv, StockSound, StockExact
<1>2. QED
  BY <1>1, StockInvariant, PTL

\* Every unit brought in is on the shelf or in an order that was dispatched.
THEOREM UnitsConserved == Spec => []StockConserved
<1>1. StockInv => StockConserved
  BY DEF StockInv, StockSound, StockExact
<1>2. QED
  BY <1>1, StockInvariant, PTL

-----------------------------------------------------------------------------
(***************************************************************************)
(* OrderFlow implements StockPromise, for every set of orders and products *)
(* and all bounds.  A step of OrderFlow changes the status of one order,   *)
(* and with it at most its phase; the invariant proved above says that the *)
(* max(0, ...) of a release or a dispatch cuts nothing, so the free units  *)
(* move by exactly what the order asked for.                               *)
(***************************************************************************)
Phase == [o \in Order |-> PhaseOf(status[o])]
Free == [p \in Product |-> onHand[p] - reserved[p]]

\* The units an open order holds are among those reserved, which are on the shelf.
LEMMA HeldAreReserved ==
    ASSUME StockInv, NEW o \in Order, status[o] \in Holding, NEW p \in Product
    PROVE  /\ items[o][p] \in Nat /\ reserved[p] \in Nat /\ onHand[p] \in Nat
           /\ items[o][p] <= reserved[p] /\ reserved[p] <= onHand[p]
<1>1. items[o][p] \in 0..MaxQty /\ reserved[p] \in Nat /\ onHand[p] \in Nat
  BY DEF StockInv, StockSound, TypeOK
<1>2. items[o][p] \in Nat
  BY <1>1, OrderFlowAssumption
<1>3. /\ Cardinality(Others(status, items, Holding, p, o)) \in Nat
      /\ Cardinality(HeldUnits(status, items, Holding, p))
           = Cardinality(Others(status, items, Holding, p, o)) + items[o][p]
  BY <1>1, CountSplit DEF Own
<1>4. reserved[p] = Cardinality(HeldUnits(status, items, Holding, p)) /\ reserved[p] <= onHand[p]
  BY DEF StockInv, StockSound, StockExact, ReservationExact, NoOversell
<1>5. QED
  BY <1>1, <1>2, <1>3, <1>4

\* The phase of one order follows its status; the others keep theirs.
LEMMA PhaseMoves ==
    ASSUME TypeOK, NEW o \in Order, NEW new, status' = [status EXCEPT ![o] = new]
    PROVE  Phase' = [Phase EXCEPT ![o] = PhaseOf(new)]
BY DEF TypeOK, Phase

\* A request that keeps the order's phase, and the stock, is a stutter.
LEMMA PhaseKept ==
    ASSUME TypeOK, NEW o \in Order, NEW new, status' = [status EXCEPT ![o] = new],
           PhaseOf(new) = PhaseOf(status[o]), UNCHANGED <<items, onHand, reserved>>
    PROVE  UNCHANGED <<Phase, items, Free>>
<1>1. Phase' = [Phase EXCEPT ![o] = PhaseOf(new)]
  BY PhaseMoves
<1>2. Phase' = Phase
  BY <1>1 DEF Phase
<1>3. QED
  BY <1>2 DEF Free

\* Accepting an order takes its units out of the free ones.
LEMMA AcceptMaps ==
    ASSUME TypeOK, NEW o \in Order, NEW cart \in Cart, NEW new \in Holding,
           status[o] = "none", \A p \in Product : Available(p, cart[p]),
           status' = [status EXCEPT ![o] = new], items' = [items EXCEPT ![o] = cart],
           Reserve(cart), UNCHANGED onHand
    PROVE  Promise!Accept(o, cart)
<1>1. PhaseOf("none") = "none" /\ PhaseOf(new) = "held"
  BY DEF PhaseOf, Holding, Dispatched
<1>2. Phase' = [Phase EXCEPT ![o] = "held"] /\ Phase[o] = "none"
  BY <1>1, PhaseMoves DEF Phase
<1>3. ASSUME NEW p \in Product
      PROVE  /\ cart[p] <= Free[p] /\ Free'[p] = Free[p] - cart[p]
  <2>1. cart[p] \in Nat /\ onHand[p] \in Nat /\ reserved[p] \in Nat
    BY OrderFlowAssumption DEF Cart, TypeOK
  <2>2. reserved'[p] = reserved[p] + cart[p] /\ cart[p] <= onHand[p] - reserved[p]
    BY DEF Reserve, Available
  <2>3. Free[p] = onHand[p] - reserved[p] /\ Free'[p] = onHand[p] - reserved'[p]
    BY DEF Free
  <2>4. QED
    BY <2>1, <2>2, <2>3
<1>4. Free' = [p \in Product |-> Free[p] - cart[p]]
  BY <1>3 DEF Free
<1>5. QED
  BY <1>2, <1>3, <1>4 DEF Promise!Accept, Phase, Free

\* A cancellation or a refund gives all of them back.
LEMMA CallOffMaps ==
    ASSUME StockInv, NEW o \in Order, NEW new \in Reversing, status[o] \in Holding,
           status' = [status EXCEPT ![o] = new], Release(o), UNCHANGED <<items, onHand>>
    PROVE  Promise!CallOff(o)
<1>1. PhaseOf(status[o]) = "held" /\ PhaseOf(new) = "called_off"
  BY DEF PhaseOf, Holding, Dispatched, Reversing
<1>2. Phase' = [Phase EXCEPT ![o] = "called_off"] /\ Phase[o] = "held"
  BY <1>1, PhaseMoves DEF Phase, StockInv, StockSound
<1>3. ASSUME NEW p \in Product PROVE Free'[p] = Free[p] + items[o][p]
  <2>1. /\ items[o][p] \in Nat /\ reserved[p] \in Nat /\ onHand[p] \in Nat
        /\ items[o][p] <= reserved[p]
    BY HeldAreReserved
  <2>2. reserved'[p] = reserved[p] - items[o][p]
    BY <2>1, MonusNat DEF Release
  <2>3. Free[p] = onHand[p] - reserved[p] /\ Free'[p] = onHand[p] - reserved'[p]
    BY DEF Free
  <2>4. QED
    BY <2>1, <2>2, <2>3
<1>4. Free' = [p \in Product |-> Free[p] + items[o][p]]
  BY <1>3 DEF Free
<1>5. QED
  BY <1>2, <1>4 DEF Promise!CallOff, Phase, Free

\* A dispatch takes them off the shelf and leaves the free ones alone.
LEMMA DispatchMaps ==
    ASSUME StockInv, NEW o \in Order, status[o] \in Holding,
           status' = [status EXCEPT ![o] = "shipped"], Fulfill(o), UNCHANGED items
    PROVE  Promise!Dispatch(o)
<1>1. PhaseOf(status[o]) = "held" /\ PhaseOf("shipped") = "sent"
  BY DEF PhaseOf, Holding, Dispatched
<1>2. Phase' = [Phase EXCEPT ![o] = "sent"] /\ Phase[o] = "held"
  BY <1>1, PhaseMoves DEF Phase, StockInv, StockSound
<1>3. ASSUME NEW p \in Product PROVE Free'[p] = Free[p]
  <2>1. /\ items[o][p] \in Nat /\ reserved[p] \in Nat /\ onHand[p] \in Nat
        /\ items[o][p] <= reserved[p] /\ reserved[p] <= onHand[p]
    BY HeldAreReserved
  <2>2. reserved'[p] = reserved[p] - items[o][p] /\ onHand'[p] = onHand[p] - items[o][p]
    BY <2>1, MonusNat DEF Fulfill
  <2>3. Free[p] = onHand[p] - reserved[p] /\ Free'[p] = onHand'[p] - reserved'[p]
    BY DEF Free
  <2>4. QED
    BY <2>1, <2>2, <2>3
<1>4. Free' = Free
  BY <1>3 DEF Free
<1>5. QED
  BY <1>2, <1>4 DEF Promise!Dispatch, Phase, Free

\* A manual change moves free units only.
LEMMA RestockMaps ==
    ASSUME StockInv, NEW p \in Product, NEW level \in Nat, level >= reserved[p], WriteStock(p, level)
    PROVE  Promise!Restock(p)
<1>1. onHand' = [onHand EXCEPT ![p] = level] /\ UNCHANGED <<status, items, reserved>>
  BY DEF WriteStock
<1>2. onHand \in [Product -> Nat] /\ reserved \in [Product -> Nat]
  BY DEF StockInv, StockSound, TypeOK
<1>3. Free'[p] = level - reserved[p] /\ Free'[p] \in Nat
  BY <1>1, <1>2 DEF Free
<1>4. Free' = [Free EXCEPT ![p] = Free'[p]]
  BY <1>1, <1>2 DEF Free
<1>5. QED
  BY <1>1, <1>3, <1>4 DEF Promise!Restock, Phase, Free

\* Every request is a step of the promise, or does not show in it.
LEMMA PromiseStep ==
    StockInv /\ [Next]_vars => [Promise!PromiseNext]_<<Phase, items, Free>>
<1> SUFFICES ASSUME StockInv, [Next]_vars
             PROVE  Promise!PromiseNext \/ UNCHANGED <<Phase, items, Free>>
  OBVIOUS
<1>t. TypeOK /\ ShipmentMatchesOrder
  BY DEF StockInv, StockSound
<1>1. ASSUME NEW o \in Order, NEW cart \in Cart, CreateOrder(o, cart)
      PROVE  Promise!Accept(o, cart)
  <2>1. status' = [status EXCEPT ![o] = "pending"] /\ "pending" \in Holding
    BY <1>1 DEF CreateOrder, WriteOrder, MoveTo, MoveFrom, Holding
  <2>2. QED
    BY <1>1, <1>t, <2>1, AcceptMaps DEF CreateOrder, WriteOrder
<1>2. ASSUME NEW o \in Order, NEW cart \in Cart, NEW outcome \in GatewayOutcome,
             Checkout(o, cart, outcome)
      PROVE  Promise!Accept(o, cart)
  <2>1. PICK new \in Holding : status' = [status EXCEPT ![o] = new]
    BY <1>2 DEF Checkout, WriteCheckout, MoveTo, MoveFrom, Holding
  <2>2. QED
    BY <1>2, <1>t, <2>1, AcceptMaps DEF Checkout, WriteCheckout
<1>3. ASSUME NEW o \in Order, NEW outcome \in GatewayOutcome, CreatePayment(o, outcome)
      PROVE  UNCHANGED <<Phase, items, Free>>
  <2>1. status' = [status EXCEPT ![o] = IF outcome = "completed" THEN "paid" ELSE "pending"]
    BY <1>3, <1>t DEF CreatePayment, WritePayment, MoveFrom, TypeOK
  <2>2. PhaseOf("pending") = "held" /\ PhaseOf("paid") = "held"
    BY DEF PhaseOf, Holding, Dispatched
  <2>3. QED
    BY <1>3, <1>t, <2>1, <2>2, PhaseKept DEF CreatePayment, WritePayment
<1>4. ASSUME NEW o \in Order, NEW new, NEW source,
             new \in AllowedTransitions(status[o]), WriteTransition(o, new, source)
      PROVE  Promise!CallOff(o) \/ UNCHANGED <<Phase, items, Free>>
  <2>1. status' = [status EXCEPT ![o] = new] /\ UNCHANGED <<items, onHand>>
    BY <1>4 DEF WriteTransition, MoveTo, MoveFrom
  <2>2. CASE new \in Reversing
    BY <1>4, <2>1, <2>2, AllowedEdges, CallOffMaps DEF WriteTransition
  <2>3. CASE new \notin Reversing
    <3>1. new = "preparing" /\ status[o] \in Holding /\ UNCHANGED reserved
      BY <1>4, <2>3, AllowedEdges DEF WriteTransition, Reversing
    <3>2. PhaseOf(new) = PhaseOf(status[o])
      BY <3>1 DEF PhaseOf, Holding, Dispatched
    <3>3. QED
      BY <1>t, <2>1, <3>1, <3>2, PhaseKept
  <2>4. QED
    BY <2>2, <2>3
<1>5. ASSUME NEW o \in Order, NEW tracked \in BOOLEAN, CreateShipment(o, tracked)
      PROVE  UNCHANGED <<Phase, items, Free>>
  <2>1. status' = [status EXCEPT ![o] = "preparing"] /\ UNCHANGED <<items, onHand, reserved>>
    BY <1>5, <1>t DEF CreateShipment, WriteShipment, MoveOrder, MoveTo, MoveFrom, TypeOK
  <2>2. PhaseOf(status[o]) = "held" /\ PhaseOf("preparing") = "held"
    BY <1>5 DEF CreateShipment, PhaseOf, Holding, Dispatched
  <2>3. QED
    BY <1>t, <2>1, <2>2, PhaseKept
<1>6. ASSUME NEW o \in Order, NEW tracked \in BOOLEAN, UpdateShipment(o, tracked)
      PROVE  UNCHANGED <<Phase, items, Free>>
  BY <1>6 DEF UpdateShipment, WriteEdit, Phase, Free
<1>7. ASSUME NEW o \in Order, MarkShipped(o) PROVE Promise!Dispatch(o)
  <2>1. status' = [status EXCEPT ![o] = "shipped"] /\ status[o] \in Holding
    BY <1>7 DEF MarkShipped, WriteDispatch, MoveOrder, MoveTo, MoveFrom, Holding
  <2>2. QED
    BY <1>7, <2>1, DispatchMaps DEF MarkShipped, WriteDispatch
<1>8. ASSUME NEW o \in Order, MarkDelivered(o) PROVE UNCHANGED <<Phase, items, Free>>
  <2>1. status[o] = "shipped"
    BY <1>8, <1>t DEF MarkDelivered, ShipmentMatchesOrder
  <2>2. status' = [status EXCEPT ![o] = "delivered"] /\ UNCHANGED <<items, onHand, reserved>>
    BY <1>8, <2>1 DEF MarkDelivered, WriteDelivery, MoveOrder, MoveTo, MoveFrom
  <2>3. PhaseOf("shipped") = "sent" /\ PhaseOf("delivered") = "sent"
    BY DEF PhaseOf, Holding, Dispatched
  <2>4. QED
    BY <1>t, <2>1, <2>2, <2>3, PhaseKept
<1>9. ASSUME NEW p \in Product, NEW delta \in -MaxStock..MaxStock, AdjustStock(p, delta)
      PROVE  Promise!Restock(p)
  <2>1. onHand[p] + delta \in Nat /\ onHand[p] + delta >= reserved[p]
    BY <1>9, <1>t, OrderFlowAssumption DEF AdjustStock, TypeOK
  <2>2. QED
    BY <1>9, <2>1, RestockMaps DEF AdjustStock
<1>10. ASSUME NEW p \in Product, NEW level \in 0..MaxStock, SetLevels(p, level)
       PROVE  Promise!Restock(p)
  BY <1>10, OrderFlowAssumption, RestockMaps DEF SetLevels
<1>11. CASE UNCHANGED vars
  BY <1>11 DEF vars, Phase, Free
<1>12. QED
  BY <1>1, <1>2, <1>3, <1>4, <1>5, <1>6, <1>7, <1>8, <1>9, <1>10, <1>11
  DEF Next, TransitionStatus, Cancel, Promise!PromiseNext

\* The empty shop is an empty promise.
LEMMA PromiseStart == Init => Promise!PromiseInit
<1> SUFFICES ASSUME Init PROVE Promise!PromiseInit
  OBVIOUS
<1>1. PhaseOf("none") = "none"
  BY DEF PhaseOf, Holding, Dispatched
<1>2. /\ status = [o \in Order |-> "none"] /\ items = [o \in Order |-> [p \in Product |-> 0]]
      /\ onHand \in [Product -> 0..MaxStock] /\ reserved = [p \in Product |-> 0]
  BY DEF Init, EmptyCart
<1>3. [p \in Product |-> onHand[p] - reserved[p]] \in [Product -> Nat]
  BY <1>2, OrderFlowAssumption
<1>4. QED
  BY <1>1, <1>2, <1>3 DEF Promise!PromiseInit

\* The requests of the backend implement the promise about units: an order's units are
\* taken at once out of free ones and leave it exactly once, whatever the requests.
THEOREM PromiseKept == Spec => KeepsStockPromise
<1>1. StockInv /\ [Next]_vars => [Promise!PromiseNext]_(Promise!promiseVars)
  BY PromiseStep DEF Promise!promiseVars, Phase, Free
<1>2. QED
  BY <1>1, PromiseStart, StockInvariant, PTL DEF Spec, KeepsStockPromise, Promise!PromiseSpec
=============================================================================

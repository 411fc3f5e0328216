--------------------------- MODULE OrderTxnsProofs ---------------------------
(***************************************************************************)
(* The concurrent transactions of OrderTxns, proved for every number of    *)
(* sessions, orders and products, and for every set of endpoints.          *)
(*                                                                         *)
(* What carries the proofs: row locks exclude each other, and whatever a   *)
(* session checked under a lock still holds until it commits (Guarded).    *)
(***************************************************************************)
EXTENDS OrderTxns, OrderFlowProofs

Place == {"lock_order", "stock", "insert_payment", "flush_payment", "commit"}
Session == [req: Request, at: Place, held: SUBSET (Row \X Mode), saw: Shipment]

\* What TxTypeOK says, with the fields a session has.
SessionsOK == tx \in [Tx -> {Idle} \cup Session]

\* The requests that lock the order's row before they look at it.
OrderLocking == {"cancel", "status", "create_shipment", "ship", "deliver"}

OrderRow(o) == <<"order", o>>
StockRow(p) == <<"inventory", p>>
Holds(t, row, mode) == <<row, mode>> \in tx[t].held

\* What a request of each kind carries.
LEMMA RequestFields ==
    ASSUME NEW r \in Request
    PROVE  /\ r.op \in AllOps
           /\ r.op \notin StockOps => r.o \in Order
           /\ r.op \in StockOps => r.p \in Product
           /\ r.op \in Creating => r.cart \in Cart
           /\ r.op \in {"checkout", "pay"} => r.outcome \in GatewayOutcome
           /\ r.op = "status" => r.new \in OrderStatus
           /\ r.op \in {"create_shipment", "update_shipment"} => r.tracked \in BOOLEAN
           /\ r.op = "adjust" => r.delta \in -MaxStock..MaxStock
           /\ r.op = "set_levels" => r.level \in 0..MaxStock
BY DEF Request, OrderRequest, PaymentRequest, ShipmentRequest, StockRequest,
       AllOps, StockOps, Creating

\* A lock that excludes every other one, and one that excludes its own kind.
LEMMA Conflicts ==
    ASSUME NEW m \in Mode
    PROVE  /\ Conflict("update", m) /\ Conflict(m, "update")
           /\ Conflict("no_key_update", "no_key_update")
BY DEF Conflict, Mode

\* The rows a request locks, by its kind.
LEMMA StockRowsOf ==
    ASSUME NEW r \in Request
    PROVE  /\ r.op \in Creating => StockRows(r) = Lines(r.cart)
           /\ r.op \in {"ship", "cancel"} => StockRows(r) = Lines(items[r.o])
           /\ r.op = "status" /\ r.new \in Reversing => StockRows(r) = Lines(items[r.o])
           /\ r.op = "status" /\ r.new \notin Reversing => StockRows(r) = {}
           /\ r.op \in StockOps => StockRows(r) = {r.p}
           /\ r.op \in {"pay", "create_shipment", "update_shipment", "deliver"}
                => StockRows(r) = {}
BY DEF StockRows, IsReversal, Creating, StockOps

-----------------------------------------------------------------------------
(***************************************************************************)
(* What a commit leaves alone.                                             *)
(***************************************************************************)
SameOrder(o) ==
    /\ status'[o] = status[o] /\ items'[o] = items[o] /\ ledger'[o] = ledger[o]
    /\ payments'[o] = payments[o] /\ shipment'[o] = shipment[o] /\ history'[o] = history[o]

\* A request changes no order but its own.
LEMMA OthersKept ==
    ASSUME TypeOK, NEW r \in Request, NEW saw \in Shipment, Writes(r, saw),
           NEW o \in Order, r.op \notin StockOps => o # r.o
    PROVE  SameOrder(o)
<1>d. /\ DOMAIN status = Order /\ DOMAIN items = Order /\ DOMAIN ledger = Order
      /\ DOMAIN payments = Order /\ DOMAIN shipment = Order /\ DOMAIN history = Order
  BY DEF TypeOK
<1> USE DEF SameOrder, MoveOrder, MoveTo, MoveFrom, AddPayment, AddSale
<1>1. CASE r.op \in Creating
  BY <1>1, <1>d DEF Writes, Creating, StockOps, WriteOrder, WriteCheckout
<1>2. CASE r.op = "pay"
  BY <1>2, <1>d DEF Writes, StockOps, WritePayment
<1>3. CASE r.op \in {"cancel", "status"}
  <2>1. PICK new, source : WriteTransition(r.o, new, source)
    BY <1>3 DEF Writes
  <2>2. o # r.o
    BY <1>3 DEF StockOps
  <2>3. QED
    BY <2>1, <2>2, <1>d DEF WriteTransition
<1>4. CASE r.op \in {"create_shipment", "update_shipment"}
  BY <1>4, <1>d DEF Writes, StockOps, WriteShipment, WriteEdit
<1>5. CASE r.op \in {"ship", "deliver"}
  BY <1>5, <1>d DEF Writes, StockOps, WriteDispatch, WriteDelivery
<1>6. CASE r.op \in StockOps
  BY <1>6 DEF Writes, StockOps, WriteStock
<1>7. QED
  BY <1>1, <1>2, <1>3, <1>4, <1>5, <1>6, RequestFields DEF AllOps, Creating, StockOps

\* The order a request names exists afterwards.
LEMMA NamedAfter ==
    ASSUME TypeOK, NEW r \in Request, NEW saw \in Shipment, Writes(r, saw), r.op \notin StockOps,
           r.op \notin Creating => status[r.o] # "none"
    PROVE  status'[r.o] # "none"
<1>d. DOMAIN status = Order /\ r.o \in Order
  BY RequestFields DEF TypeOK
<1> USE DEF MoveOrder, MoveTo, MoveFrom
<1>1. CASE r.op \in Creating
  BY <1>1, <1>d DEF Writes, Creating, WriteOrder, WriteCheckout
<1>2. CASE r.op \in {"pay", "update_shipment"}
  BY <1>2, <1>d DEF Writes, Creating, WritePayment, WriteEdit
<1>3. CASE r.op \in {"cancel", "status"}
  <2>1. CASE r.op = "cancel"
    BY <2>1, <1>d DEF Writes, WriteTransition
  <2>2. CASE r.op = "status"
    <3>1. r.new # "none"
      BY <2>2, RequestFields DEF OrderStatus
    <3>2. QED
      BY <2>2, <3>1, <1>d DEF Writes, WriteTransition
  <2>3. QED
    BY <1>3, <2>1, <2>2
<1>4. CASE r.op \in {"create_shipment", "ship", "deliver"}
  BY <1>4, <1>d DEF Writes, Creating, WriteShipment, WriteDispatch, WriteDelivery
<1>5. QED
  BY <1>1, <1>2, <1>3, <1>4, RequestFields DEF AllOps, Creating, StockOps

\* A payment that did not complete, and an edit, change nothing a check reads.
LEMMA QuietWrites ==
    ASSUME TypeOK, NEW r \in Request, NEW saw \in Shipment, Writes(r, saw), NEW o \in Order,
           r.op = "update_shipment" \/ (r.op = "pay" /\ r.outcome # "completed")
    PROVE  /\ status'[o] = status[o] /\ ledger'[o] = ledger[o]
           /\ shipment'[o].status = shipment[o].status
<1>1. CASE r.op = "pay"
  BY <1>1 DEF Writes, WritePayment
<1>2. CASE r.op = "update_shipment"
  <2>1. UNCHANGED <<status, ledger>>
    BY <1>2 DEF Writes, WriteEdit
  <2> DEFINE kept == Tracked(r.o, saw.tracked, r.tracked)
  <2>2. shipment' = [shipment EXCEPT ![r.o] = [shipment[r.o] EXCEPT !.tracked = kept]]
    BY <1>2 DEF Writes, WriteEdit
  <2> HIDE DEF kept
  <2>3. shipment'[o].status = shipment[o].status
    BY <2>2 DEF TypeOK, Shipment
  <2>4. QED
    BY <2>1, <2>3
<1>3. QED
  BY <1>1, <1>2

\* Items are written once, when the order is created.
LEMMA ItemsKept ==
    ASSUME TypeOK, NEW r \in Request, NEW saw \in Shipment, Writes(r, saw), r.op \notin Creating
    PROVE  UNCHANGED items
<1>1. CASE r.op \in {"cancel", "status"}
  <2>1. PICK new, source : WriteTransition(r.o, new, source)
    BY <1>1 DEF Writes
  <2>2. QED
    BY <2>1 DEF WriteTransition
<1>2. CASE r.op \notin {"cancel", "status"}
  BY <1>2, RequestFields DEF Writes, Creating, WritePayment, WriteShipment, WriteEdit, WriteDispatch,
     WriteDelivery, WriteStock
<1>3. QED
  BY <1>1, <1>2

\* Stock changes only in the rows a request locks: a line of 0 units changes nothing.
LEMMA StockKept ==
    ASSUME TypeOK, NEW r \in Request, NEW saw \in Shipment, Writes(r, saw),
           NEW p \in Product, p \notin StockRows(r)
    PROVE  onHand'[p] = onHand[p] /\ reserved'[p] = reserved[p]
<1>t. onHand[p] \in Nat /\ reserved[p] \in Nat /\ DOMAIN onHand = Product
  BY DEF TypeOK
<1>z. ASSUME NEW o \in Order, p \notin Lines(items[o])
      PROVE  Monus(reserved[p], items[o][p]) = reserved[p] /\ Monus(onHand[p], items[o][p]) = onHand[p]
  <2>1. items[o][p] = 0
    BY <1>z, LeftoverNat DEF Lines
  <2>2. QED
    BY <1>t, <2>1, MonusNat
<1>1. CASE r.op \in Creating
  <2>1. r.cart[p] = 0
    <3>1. r.cart[p] \in 0..MaxQty
      BY <1>1, RequestFields DEF Cart
    <3>2. QED
      BY <1>1, <3>1, StockRowsOf, OrderFlowAssumption DEF Lines
  <2>2. Reserve(r.cart) /\ UNCHANGED onHand
    BY <1>1 DEF Writes, Creating, WriteOrder, WriteCheckout
  <2>3. QED
    BY <1>t, <2>1, <2>2 DEF Reserve
<1>2. CASE r.op \in {"pay", "create_shipment", "update_shipment", "deliver"}
  BY <1>2 DEF Writes, WritePayment, WriteShipment, WriteEdit, WriteDelivery
<1>3. CASE r.op \in {"cancel", "status"}
  <2>1. PICK new, source : WriteTransition(r.o, new, source)
                           /\ new = IF r.op = "cancel" THEN "cancelled" ELSE r.new
    BY <1>3 DEF Writes
  <2>2. CASE new \in Reversing
    <3>1. p \notin Lines(items[r.o]) /\ r.o \in Order
      BY <1>3, <2>1, <2>2, StockRowsOf, RequestFields DEF StockOps
    <3>2. QED
      BY <1>t, <1>z, <2>1, <2>2, <3>1 DEF WriteTransition, Release
  <2>3. CASE new \notin Reversing
    BY <2>1, <2>3 DEF WriteTransition
  <2>4. QED
    BY <2>2, <2>3
<1>4. CASE r.op = "ship"
  <2>1. p \notin Lines(items[r.o]) /\ r.o \in Order
    BY <1>4, StockRowsOf, RequestFields DEF StockOps
  <2>2. Fulfill(r.o)
    BY <1>4 DEF Writes, WriteDispatch
  <2>3. QED
    BY <1>z, <2>1, <2>2 DEF Fulfill
<1>5. CASE r.op \in StockOps
  <2>1. p # r.p
    BY <1>5, StockRowsOf
  <2>2. QED
    BY <1>5, <1>t, <2>1 DEF Writes, StockOps, WriteStock
<1>6. QED
  BY <1>1, <1>2, <1>3, <1>4, <1>5, RequestFields DEF AllOps, Creating, StockOps

-----------------------------------------------------------------------------
(***************************************************************************)
(* The inductive invariant.  Of the rows: what holds of them between any   *)
(* two commits.  Of the sessions: locks exclude each other, and what a     *)
(* session checked still holds for it at its commit.                       *)
(***************************************************************************)

\* An order and its shipment, but for the tracking number an edit can remove.
ShipmentsFollow ==
    \A o \in Order :
        /\ status[o] = "shipped" <=> shipment[o].status = "in_transit"
        /\ status[o] = "delivered" <=> shipment[o].status = "delivered"
        /\ shipment[o].status = "preparing" => status[o] = "preparing"
        /\ shipment[o].status = "cancelled" => status[o] = "cancelled"
        /\ shipment[o].status # "none" => "sale" \in ledger[o]

LastIsStatus ==
    \A o \in Order :
        status[o] = (IF history[o] = <<>> THEN "none" ELSE history[o][Len(history[o])].to)

NothingStale == \A o \in Order : \A i \in Links(o) : ~Stale(o, i)

RowInv ==
    /\ TypeOK
    /\ ShipmentsFollow
    /\ LedgerMatchesPayments
    /\ LastIsStatus
    /\ OnlyPaymentIsStale
    /\ NoOversell
    /\ NothingStale => StockExact

\* What the code has made sure of when it commits r.
Granted(r) ==
    /\ r.op \in Creating => status[r.o] = "none"
    /\ r.op \notin Creating \cup StockOps => status[r.o] # "none"
    /\ r.op \in OrderLocking => PassesOrderChecks(r)
    /\ r.op = "pay" /\ r.outcome = "completed" => "sale" \notin ledger[r.o]
    /\ \A p \in StockRows(r) : PassesStockChecks(r, p)

LocksExclusive ==
    \A t, u \in Tx, row \in Row, m, n \in Mode :
        t # u /\ Holds(t, row, m) /\ Holds(u, row, n) => ~Conflict(m, n)

PlacesOf(op) ==
    CASE op = "pay"           -> {"insert_payment", "flush_payment", "commit"}
      [] op \in OrderLocking  -> {"lock_order", "stock", "commit"}
      [] OTHER                -> {"stock", "commit"}

\* The order a session names: not there yet, and nobody else's, or there.
OrderNamed(t) ==
    LET r == tx[t].req IN
    /\ r.op \in Creating =>
          /\ status[r.o] = "none"
          /\ \A u \in Tx \ {t} : Busy(u) /\ tx[u].req.op \in Creating => tx[u].req.o # r.o
    /\ r.op \notin Creating \cup StockOps => status[r.o] # "none"

OrderGuarded(t) ==
    tx[t].req.op \in OrderLocking /\ tx[t].at # "lock_order" =>
        Holds(t, OrderRow(tx[t].req.o), "update") /\ PassesOrderChecks(tx[t].req)

PaymentGuarded(t) ==
    LET r == tx[t].req IN
    r.op = "pay" /\ r.outcome = "completed" /\ tx[t].at = "commit" =>
        Holds(t, OrderRow(r.o), "no_key_update") /\ "sale" \notin ledger[r.o]

StockGuarded(t) ==
    /\ \A p \in StockRows(tx[t].req) :
          Holds(t, StockRow(p), "update") => PassesStockChecks(tx[t].req, p)
    /\ tx[t].at = "commit" =>
          \A p \in StockRows(tx[t].req) : Holds(t, StockRow(p), "update")

Guarded(t) ==
    /\ tx[t].at \in PlacesOf(tx[t].req.op)
    /\ OrderNamed(t)
    /\ OrderGuarded(t)
    /\ PaymentGuarded(t)
    /\ StockGuarded(t)

GuardedOK == \A t \in Tx : Busy(t) => Guarded(t)

TxInv == RowInv /\ SessionsOK /\ LocksExclusive /\ GuardedOK

-----------------------------------------------------------------------------
(***************************************************************************)
(* The rows, commit by commit.                                             *)
(***************************************************************************)

\* A column a request rewrites keeps its type.
LEMMA TrackedType ==
    ASSUME TypeOK, NEW o \in Order, NEW saw \in BOOLEAN, NEW new \in BOOLEAN
    PROVE  Tracked(o, saw, new) \in BOOLEAN
<1>1. shipment[o].tracked \in BOOLEAN
  BY DEF TypeOK, Shipment
<1>2. QED
  BY <1>1, Zenon DEF Tracked

\* A manual change sets a level that covers the units reserved.
LEMMA StockLevel ==
    ASSUME TypeOK, NEW r \in Request, NEW saw, Granted(r), Writes(r, saw), r.op \in StockOps
    PROVE  \E level \in Nat : WriteStock(r.p, level) /\ level >= reserved[r.p]
<1>1. r.p \in Product /\ PassesStockChecks(r, r.p)
  BY RequestFields, StockRowsOf DEF Granted
<1>2. onHand[r.p] \in Nat /\ reserved[r.p] \in Nat
  BY <1>1 DEF TypeOK
<1>3. CASE r.op = "adjust"
  <2>1. WriteStock(r.p, onHand[r.p] + r.delta)
    BY <1>3 DEF Writes
  <2>2. onHand[r.p] + r.delta \in reserved[r.p]..MaxStock
    BY <1>1, <1>3 DEF PassesStockChecks, Creating
  <2>3. onHand[r.p] + r.delta \in Nat /\ onHand[r.p] + r.delta >= reserved[r.p]
    BY <1>2, <2>2, OrderFlowAssumption
  <2>4. QED
    BY <2>1, <2>3
<1>4. CASE r.op = "set_levels"
  <2>1. WriteStock(r.p, r.level) /\ r.level >= reserved[r.p]
    BY <1>1, <1>4 DEF Writes, PassesStockChecks, Creating
  <2>2. r.level \in Nat
    BY <1>4, RequestFields, OrderFlowAssumption
  <2>3. QED
    BY <2>1, <2>2
<1>5. QED
  BY <1>3, <1>4 DEF StockOps

\* What a granted request writes is well typed.
LEMMA CommitType ==
    ASSUME TypeOK, NEW r \in Request, NEW saw \in Shipment, Granted(r), Writes(r, saw)
    PROVE  TypeOK'
<1>s. saw.tracked \in BOOLEAN
  BY DEF Shipment
<1>1. CASE r.op \in StockOps
  <2>1. r.p \in Product
    BY <1>1, RequestFields
  <2>2. PICK level \in Nat : WriteStock(r.p, level)
    BY <1>1, StockLevel
  <2>3. QED
    BY <2>1, <2>2, StockWriteType
<1>2. CASE r.op \notin StockOps
  <2>1. r.o \in Order
    BY <1>2, RequestFields
  <2>2. WritesOrder(r.o)
    <3>1. CASE r.op \in Creating
      BY <3>1, RequestFields DEF Writes, WritesOrder, Creating
    <3>2. CASE r.op = "pay"
      BY <3>2, RequestFields DEF Writes, WritesOrder, OrderStatus
    <3>3. CASE r.op = "cancel"
      BY <3>3 DEF Writes, WritesOrder, OrderStatus, Source
    <3>4. CASE r.op = "status"
      BY <3>4, RequestFields DEF Writes, WritesOrder, OrderStatus, Source
    <3>5. CASE r.op = "create_shipment"
      BY <3>5, RequestFields DEF Writes, WritesOrder
    <3>6. CASE r.op = "update_shipment"
      <4>1. Tracked(r.o, saw.tracked, r.tracked) \in BOOLEAN
        BY <1>s, <2>1, <3>6, RequestFields, TrackedType
      <4>2. QED
        BY <3>6, <4>1 DEF Writes, WritesOrder
    <3>7. CASE r.op = "ship"
      <4>1. Tracked(r.o, saw.tracked, TRUE) \in BOOLEAN
        BY <1>s, <2>1, TrackedType
      <4>2. QED
        BY <3>7, <4>1 DEF Writes, WritesOrder
    <3>8. CASE r.op = "deliver"
      BY <3>8 DEF Writes, WritesOrder
    <3>9. QED
      BY <1>2, <3>1, <3>2, <3>3, <3>4, <3>5, <3>6, <3>7, <3>8, RequestFields
      DEF AllOps, Creating, StockOps
  <2>3. QED
    BY <2>1, <2>2, WritesType
<1>3. QED
  BY <1>1, <1>2

\* What a MoveFrom does to the links of the histories: every old one stays, and there is
\* at most one new one, stale exactly when the request's status was.
LEMMA LinksMove ==
    ASSUME TypeOK, LastIsStatus, NEW o \in Order, NEW from \in OrderStatus \cup {"none"},
           NEW to \in OrderStatus, NEW source \in Source, MoveFrom(o, from, to, source),
           NEW x \in Order, NEW i \in Links(x)'
    PROVE  \/ /\ i \in Links(x)
              /\ Stale(x, i)' <=> Stale(x, i)
              /\ history'[x][i] = history[x][i] /\ history'[x][i - 1] = history[x][i - 1]
           \/ /\ x = o
              /\ Stale(x, i)' <=> from # status[o]
              /\ history'[x][i].source = source /\ history'[x][i - 1].to = status[o]
<1> DEFINE h == history[o]
           c == Entry(from, to, source)
           g == Append(h, c)
<1>1. /\ DOMAIN history = Order /\ h \in Seq(Change) /\ c \in Change
      /\ c.from = from /\ c.source = source
  BY EntryType DEF TypeOK, Entry
<1>2. history' = [history EXCEPT ![o] = g]
  BY DEF MoveFrom
<1> HIDE DEF c
<1>3. /\ Len(g) = Len(h) + 1 /\ Len(h) \in Nat
      /\ \A k \in 1..Len(h) : g[k] = h[k]
      /\ g[Len(h) + 1] = c
  BY <1>1
<1>4. CASE x # o
  BY <1>1, <1>2, <1>4 DEF Links, Stale
<1>5. CASE x = o
  <2>1. history'[x] = g /\ i \in 2..Len(g)
    BY <1>1, <1>2, <1>5 DEF Links
  <2> HIDE DEF g
  <2>2. CASE i <= Len(h)
    <3>1. i \in Links(x) /\ i \in 1..Len(h) /\ i - 1 \in 1..Len(h)
      BY <1>3, <1>5, <2>1, <2>2 DEF Links
    <3>2. QED
      BY <1>3, <1>5, <2>1, <3>1 DEF Stale
  <2>3. CASE i = Len(h) + 1
    <3>1. h # <<>> /\ Len(h) \in 1..Len(h)
      BY <1>1, <1>3, <2>1, <2>3
    <3>2. g[i] = c /\ g[i - 1] = h[Len(h)]
      BY <1>3, <2>3, <3>1
    <3>3. h[Len(h)].to = status[o]
      BY <3>1 DEF LastIsStatus
    <3>4. QED
      BY <1>1, <1>5, <2>1, <3>2, <3>3 DEF Stale
  <2>4. QED
    BY <1>3, <2>1, <2>2, <2>3
<1>6. QED
  BY <1>4, <1>5

\* Every history ends in the present status after a MoveFrom too.
LEMMA LastMove ==
    ASSUME TypeOK, LastIsStatus, NEW o \in Order, NEW from \in OrderStatus \cup {"none"},
           NEW to \in OrderStatus, NEW source \in Source, MoveFrom(o, from, to, source)
    PROVE  LastIsStatus'
<1> DEFINE c == Entry(from, to, source)
           g == Append(history[o], c)
<1>1. /\ DOMAIN history = Order /\ DOMAIN status = Order
      /\ history[o] \in Seq(Change) /\ c \in Change /\ c.to = to
  BY EntryType DEF TypeOK, Entry
<1>2. history' = [history EXCEPT ![o] = g] /\ status' = [status EXCEPT ![o] = to]
  BY DEF MoveFrom
<1> HIDE DEF c
<1>3. g # <<>> /\ g[Len(g)] = c
  BY <1>1
<1> HIDE DEF g
<1>4. QED
  BY <1>1, <1>2, <1>3 DEF LastIsStatus

\* A change from the present status makes no stale link; only a payment of a cancelled
\* order does.
LEMMA HistoryMove ==
    ASSUME TypeOK, LastIsStatus, OnlyPaymentIsStale, NEW o \in Order,
           NEW from \in OrderStatus \cup {"none"}, NEW to \in OrderStatus, NEW source \in Source,
           MoveFrom(o, from, to, source),
           from = status[o] \/ (source = "payment" /\ status[o] = "cancelled")
    PROVE  LastIsStatus' /\ OnlyPaymentIsStale' /\ (NothingStale' => NothingStale /\ from = status[o])
<1>1. LastIsStatus'
  BY LastMove
<1>2. ASSUME NEW x \in Order, NEW i \in Links(x)', Stale(x, i)'
      PROVE  history'[x][i].source = "payment" /\ history'[x][i - 1].to = "cancelled"
  BY <1>2, LinksMove DEF OnlyPaymentIsStale
<1>3. OnlyPaymentIsStale'
  BY <1>2 DEF OnlyPaymentIsStale
<1> DEFINE h == history[o]
           g == Append(h, Entry(from, to, source))
<1>4. /\ DOMAIN history = Order /\ \A x \in Order : history[x] \in Seq(Change)
      /\ Entry(from, to, source) \in Change
  BY EntryType DEF TypeOK
<1>5. /\ history'[o] = g /\ Len(g) = Len(h) + 1 /\ Len(h) \in Nat
      /\ \A x \in Order : x # o => history'[x] = history[x]
  BY <1>4 DEF MoveFrom
<1> HIDE DEF g
<1>6. ASSUME NothingStale' PROVE NothingStale
  <2>1. ASSUME NEW x \in Order, NEW i \in Links(x) PROVE ~Stale(x, i)
    <3>1. i \in Links(x)'
      BY <1>5, <2>1 DEF Links
    <3>2. ~Stale(x, i)'
      BY <1>6, <3>1 DEF NothingStale
    <3>3. \/ Stale(x, i)' <=> Stale(x, i)
          \/ x = o /\ i \notin 2..Len(h)
      <4>1. CASE x # o
        BY <1>5, <4>1 DEF Stale
      <4>2. CASE x = o
        <5>1. i \in 1..Len(h) /\ i - 1 \in 1..Len(h)
          BY <1>5, <2>1, <4>2 DEF Links
        <5>2. g[i] = h[i] /\ g[i - 1] = h[i - 1]
          BY <1>4, <5>1 DEF g
        <5>3. QED
          BY <1>5, <4>2, <5>2 DEF Stale
      <4>3. QED
        BY <4>1, <4>2
    <3>4. QED
      BY <2>1, <3>2, <3>3 DEF Links
  <2>2. QED
    BY <2>1 DEF NothingStale
<1>7. ASSUME NothingStale' PROVE from = status[o]
  <2>1. SUFFICES ASSUME status[o] = "cancelled" PROVE from = status[o]
    OBVIOUS
  <2>2. h # <<>> /\ h \in Seq(Change)
    BY <1>4, <2>1 DEF LastIsStatus
  <2> PICK n \in Nat : n = Len(h) + 1
    BY <1>5
  <2>3. n \in Links(o)' /\ n \notin Links(o)
    BY <1>5, <2>2 DEF Links
  <2>4. Stale(o, n)' <=> from # status[o]
    BY <2>3, LinksMove
  <2>5. ~Stale(o, n)'
    BY <1>7, <2>3 DEF NothingStale
  <2>6. QED
    BY <2>4, <2>5
<1>8. QED
  BY <1>1, <1>3, <1>6, <1>7

\* Requests that move no order keep the histories.
LEMMA HistoryKept ==
    ASSUME LastIsStatus, OnlyPaymentIsStale, UNCHANGED <<status, history>>
    PROVE  LastIsStatus' /\ OnlyPaymentIsStale' /\ (NothingStale' => NothingStale)
BY DEF LastIsStatus, OnlyPaymentIsStale, NothingStale, Links, Stale

\* A checkout that is paid at once writes both changes of a new order.
LEMMA HistoryBegins ==
    ASSUME TypeOK, LastIsStatus, OnlyPaymentIsStale, NEW o \in Order, status[o] = "none",
           status' = [status EXCEPT ![o] = "paid"],
           history' = [history EXCEPT ![o] = <<Entry("none", "pending", "order_created"),
                                               Entry("pending", "paid", "payment")>>]
    PROVE  LastIsStatus' /\ OnlyPaymentIsStale' /\ (NothingStale' => NothingStale)
<1> DEFINE g == <<Entry("none", "pending", "order_created"), Entry("pending", "paid", "payment")>>
<1>1. /\ DOMAIN history = Order /\ DOMAIN status = Order
      /\ \A x \in Order : history[x] \in Seq(Change)
  BY DEF TypeOK
<1>2. history[o] = <<>>
  <2>1. SUFFICES ASSUME history[o] # <<>> PROVE FALSE
    OBVIOUS
  <2>2. history[o][Len(history[o])] \in Change
    BY <1>1, <2>1
  <2>3. QED
    BY <2>1, <2>2 DEF LastIsStatus, Change, OrderStatus
<1>3. Len(g) = 2 /\ g # <<>> /\ g[1].to = "pending" /\ g[2].from = "pending" /\ g[2].to = "paid"
  BY DEF Entry
<1> HIDE DEF g
<1>4. /\ history'[o] = g /\ status'[o] = "paid"
      /\ \A x \in Order : x # o => history'[x] = history[x] /\ status'[x] = status[x]
  BY <1>1 DEF g
<1>5. LastIsStatus'
  BY <1>3, <1>4 DEF LastIsStatus
<1>6. \A i \in Links(o)' : ~Stale(o, i)'
  BY <1>3, <1>4 DEF Links, Stale
<1>7. OnlyPaymentIsStale'
  BY <1>4, <1>6 DEF OnlyPaymentIsStale, Links, Stale
<1>8. NothingStale' => NothingStale
  <2>1. Links(o) = {}
    BY <1>2 DEF Links
  <2>2. QED
    BY <1>4, <2>1 DEF NothingStale, Links, Stale
<1>9. QED
  BY <1>5, <1>7, <1>8

\* No granted request breaks the histories, and the only one that can leave a stale link
\* is a payment of an order that is no longer pending.
LEMMA CommitHistory ==
    ASSUME TypeOK, LastIsStatus, OnlyPaymentIsStale, LedgerMatchesPayments,
           NEW r \in Request, NEW saw \in Shipment, Granted(r), Writes(r, saw)
    PROVE  /\ LastIsStatus' /\ OnlyPaymentIsStale'
           /\ NothingStale' =>
                 /\ NothingStale
                 /\ r.op = "pay" /\ r.outcome = "completed" => status[r.o] = "pending"
<1>t. ASSUME NEW o \in Order PROVE status[o] \in OrderStatus \cup {"none"}
  BY DEF TypeOK
<1>m. ASSUME NEW o \in Order, NEW to \in OrderStatus, NEW source \in Source, MoveTo(o, to, source)
      PROVE  LastIsStatus' /\ OnlyPaymentIsStale' /\ (NothingStale' => NothingStale)
  BY <1>t, <1>m, HistoryMove DEF MoveTo
<1>o. ASSUME NEW o \in Order, NEW to \in OrderStatus, NEW source \in Source, MoveOrder(o, to, source)
      PROVE  LastIsStatus' /\ OnlyPaymentIsStale' /\ (NothingStale' => NothingStale)
  BY <1>m, <1>o, HistoryKept DEF MoveOrder
<1>e. {"pending", "paid", "preparing", "shipped", "delivered", "cancelled"} \subseteq OrderStatus
  BY DEF OrderStatus
<1>f. {"order_created", "payment", "manual", "customer_cancel", "shipment_created",
       "shipment_dispatched", "shipment_delivered"} \subseteq Source
  BY DEF Source
<1>r. r.op \notin StockOps => r.o \in Order
  BY RequestFields
<1>1. CASE r.op = "create"
  BY <1>1, <1>e, <1>f, <1>m, <1>r DEF Writes, WriteOrder, StockOps
<1>2. CASE r.op = "checkout"
  <2>1. WriteCheckout(r.o, r.cart, r.outcome) /\ r.o \in Order /\ status[r.o] = "none"
    BY <1>2, <1>r DEF Writes, Granted, StockOps, Creating
  <2>2. CASE r.outcome = "completed"
    BY <1>2, <2>1, <2>2, HistoryBegins DEF WriteCheckout
  <2>3. CASE r.outcome # "completed"
    BY <1>2, <1>e, <1>f, <1>m, <2>1, <2>3 DEF WriteCheckout
  <2>4. QED
    BY <2>2, <2>3
<1>3. CASE r.op = "pay"
  <2>1. WritePayment(r.o, "pending", r.outcome) /\ r.o \in Order /\ status[r.o] # "none"
    BY <1>3, <1>r DEF Writes, Granted, StockOps, Creating
  <2>2. CASE r.outcome = "completed"
    <3>1. MoveFrom(r.o, "pending", "paid", "payment")
      BY <2>1, <2>2 DEF WritePayment
    <3>2. status[r.o] \in {"pending", "cancelled"}
      <4>1. "sale" \notin ledger[r.o]
        BY <1>3, <2>2 DEF Granted
      <4>2. QED
        BY <1>t, <2>1, <4>1 DEF LedgerMatchesPayments, OrderStatus
    <3>3. LastIsStatus' /\ OnlyPaymentIsStale' /\ (NothingStale' => NothingStale /\ "pending" = status[r.o])
      BY <1>e, <1>f, <2>1, <3>1, <3>2, HistoryMove
    <3>4. QED
      BY <3>3
  <2>3. CASE r.outcome # "completed"
    BY <2>1, <2>3, HistoryKept DEF WritePayment
  <2>4. QED
    BY <2>2, <2>3
<1>4. CASE r.op = "cancel"
  BY <1>4, <1>e, <1>f, <1>m, <1>r DEF Writes, WriteTransition, StockOps
<1>5. CASE r.op = "status"
  <2>1. r.new \in OrderStatus
    BY <1>5, RequestFields
  <2>2. QED
    BY <1>5, <1>f, <1>m, <1>r, <2>1 DEF Writes, WriteTransition, StockOps
<1>6. CASE r.op = "create_shipment"
  BY <1>6, <1>e, <1>f, <1>o, <1>r DEF Writes, WriteShipment, StockOps
<1>7. CASE r.op = "update_shipment"
  BY <1>7, HistoryKept DEF Writes, WriteEdit
<1>8. CASE r.op = "ship"
  BY <1>8, <1>e, <1>f, <1>o, <1>r DEF Writes, WriteDispatch, StockOps
<1>9. CASE r.op = "deliver"
  BY <1>9, <1>e, <1>f, <1>o, <1>r DEF Writes, WriteDelivery, StockOps
<1>10. CASE r.op \in StockOps
  BY <1>10, HistoryKept DEF Writes, WriteStock, StockOps
<1>11. QED
  BY <1>1, <1>2, <1>3, <1>4, <1>5, <1>6, <1>7, <1>8, <1>9, <1>10, RequestFields DEF AllOps, StockOps

\* What ShipmentsFollow and LedgerMatchesPayments say of one order.
OrderSound(o) ==
    /\ status[o] = "shipped" <=> shipment[o].status = "in_transit"
    /\ status[o] = "delivered" <=> shipment[o].status = "delivered"
    /\ shipment[o].status = "preparing" => status[o] = "preparing"
    /\ shipment[o].status = "cancelled" => status[o] = "cancelled"
    /\ shipment[o].status # "none" => "sale" \in ledger[o]
    /\ payments[o]["completed"] = (IF "sale" \in ledger[o] THEN 1 ELSE 0)
    /\ status[o] \in {"none", "pending"} => ledger[o] = {}
    /\ status[o] \in {"paid", "preparing", "shipped", "delivered"} => ledger[o] = {"sale"}
    /\ status[o] = "cancelled" => ledger[o] \in {{}, {"sale", "reversal"}}
    /\ status[o] = "refunded" => ledger[o] = {"sale", "reversal"}

\* One more payment of o: the completed ones are counted right.
LEMMA PaymentCounted ==
    ASSUME TypeOK, NEW o \in Order, NEW outcome \in GatewayOutcome, AddPayment(o, outcome)
    PROVE  payments'[o]["completed"]
              = payments[o]["completed"] + (IF outcome = "completed" THEN 1 ELSE 0)
<1>1. payments[o] \in [PaymentStatus -> Nat] /\ DOMAIN payments = Order
  BY DEF TypeOK
<1>2. payments' = [payments EXCEPT ![o] = [payments[o] EXCEPT ![outcome] = @ + 1]]
  BY DEF AddPayment
<1>3. payments'[o] = [payments[o] EXCEPT ![outcome] = @ + 1]
  BY <1>1, <1>2
<1>4. QED
  BY <1>1, <1>3 DEF PaymentStatus

\* A granted request leaves its order sound, with its shipment and its ledger.
LEMMA OwnOrderSound ==
    ASSUME TypeOK, NEW r \in Request, NEW saw \in Shipment, Granted(r), Writes(r, saw),
           r.op \notin StockOps, OrderSound(r.o)
    PROVE  OrderSound(r.o)'
<1>o. r.o \in Order
  BY RequestFields
<1> DEFINE o == r.o
<1>d. /\ DOMAIN status = Order /\ DOMAIN ledger = Order /\ DOMAIN shipment = Order
      /\ status[o] \in OrderStatus \cup {"none"}
      /\ shipment[o].status \in ShipmentStatus \cup {"none"}
      /\ payments[o]["completed"] \in Nat
  BY <1>o DEF TypeOK, Shipment, PaymentStatus
<1>1. CASE r.op = "create"
  <2>1. WriteOrder(o, r.cart) /\ status[o] = "none"
    BY <1>1 DEF Writes, Granted, Creating
  <2>2. status'[o] = "pending" /\ UNCHANGED <<ledger, payments, shipment>>
    BY <1>o, <1>d, <2>1 DEF WriteOrder, MoveTo, MoveFrom
  <2>3. QED
    BY <2>1, <2>2 DEF OrderSound
<1>2. CASE r.op = "checkout"
  <2>1. WriteCheckout(o, r.cart, r.outcome) /\ status[o] = "none" /\ r.outcome \in GatewayOutcome
    BY <1>2, RequestFields DEF Writes, Granted, Creating
  <2>2. payments'[o]["completed"] = IF r.outcome = "completed" THEN 1 ELSE 0
    BY <1>o, <1>d, <2>1, PaymentCounted DEF WriteCheckout, OrderSound
  <2>3. shipment[o].status = "none" /\ ledger[o] = {}
    BY <1>d, <2>1 DEF OrderSound, ShipmentStatus
  <2>4. CASE r.outcome = "completed"
    <3>1. status'[o] = "paid" /\ ledger'[o] = {"sale"} /\ UNCHANGED shipment
      BY <1>o, <1>d, <2>1, <2>3, <2>4 DEF WriteCheckout, AddSale
    <3>2. QED
      BY <2>2, <2>3, <2>4, <3>1 DEF OrderSound
  <2>5. CASE r.outcome # "completed"
    <3>1. status'[o] = "pending" /\ UNCHANGED <<ledger, shipment>>
      BY <1>o, <1>d, <2>1, <2>5 DEF WriteCheckout, MoveTo, MoveFrom
    <3>2. QED
      BY <2>2, <2>3, <2>5, <3>1 DEF OrderSound
  <2>6. QED
    BY <2>4, <2>5
<1>3. CASE r.op = "pay"
  <2>1. WritePayment(o, "pending", r.outcome) /\ r.outcome \in GatewayOutcome /\ status[o] # "none"
    BY <1>3, RequestFields DEF Writes, Granted, Creating, StockOps
  <2>2. payments'[o]["completed"]
          = payments[o]["completed"] + (IF r.outcome = "completed" THEN 1 ELSE 0)
    BY <1>o, <2>1, PaymentCounted DEF WritePayment
  <2>3. CASE r.outcome = "completed"
    <3>1. "sale" \notin ledger[o]
      BY <1>3, <2>3 DEF Granted
    <3>2. status[o] \in {"pending", "cancelled"} /\ ledger[o] = {} /\ shipment[o].status = "none"
      BY <1>d, <2>1, <3>1 DEF OrderSound, OrderStatus
    <3>3. status'[o] = "paid" /\ ledger'[o] = {"sale"} /\ UNCHANGED shipment
      BY <1>o, <1>d, <2>1, <2>3, <3>2 DEF WritePayment, MoveFrom, AddSale
    <3>4. payments'[o]["completed"] = 1
      BY <2>2, <2>3, <3>1 DEF OrderSound
    <3>5. QED
      BY <3>2, <3>3, <3>4 DEF OrderSound
  <2>4. CASE r.outcome # "completed"
    <3>1. UNCHANGED <<status, ledger, shipment>> /\ payments'[o]["completed"] = payments[o]["completed"]
      BY <1>d, <2>1, <2>2, <2>4 DEF WritePayment
    <3>2. QED
      BY <3>1 DEF OrderSound
  <2>5. QED
    BY <2>3, <2>4
<1>4. ASSUME NEW new \in AllowedTransitions(status[o]), NEW source, WriteTransition(o, new, source)
      PROVE  OrderSound(o)'
  <2>1. status'[o] = new /\ UNCHANGED payments
    BY <1>4, <1>o, <1>d DEF WriteTransition, MoveTo, MoveFrom
  <2>2. /\ status[o] \in {"pending", "paid", "preparing"}
        /\ new \in {"preparing", "cancelled", "refunded"}
        /\ status[o] = "pending" => new = "cancelled"
        /\ new \in {"preparing", "refunded"} => status[o] = "paid"
    BY <1>4, AllowedEdges DEF Holding
  <2>3. shipment[o].status \in {"none", "preparing"} /\ (status[o] # "preparing" => shipment[o].status = "none")
    BY <1>d, <2>2 DEF OrderSound, ShipmentStatus
  <2>4. CASE new \in Reversing
    <3>1. /\ ledger'[o] = Reversed(ledger[o])
          /\ shipment'[o] = CancelledShipment(shipment[o])
      BY <1>4, <1>o, <1>d, <2>4 DEF WriteTransition
    <3>2. ledger'[o] = (IF status[o] = "pending" THEN {} ELSE {"sale", "reversal"})
      BY <2>2, <3>1 DEF OrderSound, Reversed
    <3>3. shipment'[o].status = (IF shipment[o].status = "preparing" THEN "cancelled" ELSE "none")
      <4>1. shipment[o] = [status |-> shipment[o].status, tracked |-> shipment[o].tracked]
        BY <1>o DEF TypeOK, Shipment
      <4>2. QED
        BY <2>3, <3>1, <4>1 DEF CancelledShipment, Undispatched
    <3>4. QED
      BY <2>1, <2>2, <2>3, <2>4, <3>2, <3>3 DEF OrderSound, Reversing
  <2>5. CASE new \notin Reversing
    <3>1. new = "preparing" /\ UNCHANGED <<ledger, shipment>>
      BY <1>4, <2>2, <2>5 DEF WriteTransition, Reversing
    <3>2. QED
      BY <2>1, <2>2, <2>3, <3>1 DEF OrderSound
  <2>6. QED
    BY <2>4, <2>5
<1>5. CASE r.op = "cancel"
  <2>1. status[o] = "pending"
    BY <1>5 DEF Granted, OrderLocking, PassesOrderChecks
  <2>2. "cancelled" \in AllowedTransitions(status[o])
    BY <2>1 DEF AllowedTransitions
  <2>3. WriteTransition(o, "cancelled", "customer_cancel")
    BY <1>5 DEF Writes
  <2>4. QED
    BY <1>4, <2>2, <2>3
<1>6. CASE r.op = "status"
  BY <1>4, <1>6 DEF Writes, Granted, OrderLocking, PassesOrderChecks
<1>7. CASE r.op = "create_shipment"
  <2>1. status[o] \in {"paid", "preparing"} /\ WriteShipment(o, r.tracked)
    BY <1>7 DEF Writes, Granted, OrderLocking, PassesOrderChecks, PassesShipmentChecks
  <2>2. status'[o] = "preparing" /\ shipment'[o].status = "preparing" /\ UNCHANGED <<ledger, payments>>
    BY <1>o, <1>d, <2>1 DEF WriteShipment, MoveOrder, MoveTo, MoveFrom
  <2>3. QED
    BY <2>1, <2>2 DEF OrderSound
<1>8. CASE r.op = "update_shipment"
  <2>1. /\ status'[o] = status[o] /\ ledger'[o] = ledger[o]
        /\ shipment'[o].status = shipment[o].status
    BY <1>8, <1>o, QuietWrites
  <2>2. UNCHANGED payments
    BY <1>8 DEF Writes, WriteEdit
  <2>3. QED
    BY <2>1, <2>2 DEF OrderSound
<1>9. CASE r.op = "ship"
  <2>1. status[o] = "preparing"
    BY <1>9 DEF Granted, OrderLocking, PassesOrderChecks, PassesShipmentChecks
  <2>2. status'[o] = "shipped" /\ shipment'[o].status = "in_transit" /\ UNCHANGED <<ledger, payments>>
    BY <1>9, <1>o, <1>d, <2>1 DEF Writes, WriteDispatch, MoveOrder, MoveTo, MoveFrom
  <2>3. QED
    BY <2>1, <2>2 DEF OrderSound
<1>10. CASE r.op = "deliver"
  <2>1. status[o] = "shipped" /\ WriteDelivery(o)
    BY <1>10 DEF Writes, Granted, OrderLocking, PassesOrderChecks, PassesShipmentChecks, OrderSound
  <2>2. shipment' = [shipment EXCEPT ![o] = [shipment[o] EXCEPT !.status = "delivered"]]
    BY <2>1 DEF WriteDelivery
  <2>3. status'[o] = "delivered" /\ shipment'[o].status = "delivered" /\ UNCHANGED <<ledger, payments>>
    <3>1. shipment'[o].status = "delivered"
      BY <1>o, <2>2 DEF TypeOK, Shipment
    <3>2. QED
      BY <1>o, <1>d, <2>1, <3>1 DEF WriteDelivery, MoveOrder, MoveTo, MoveFrom
  <2>4. QED
    BY <2>1, <2>3 DEF OrderSound
<1>11. QED
  BY <1>1, <1>2, <1>3, <1>5, <1>6, <1>7, <1>8, <1>9, <1>10, RequestFields DEF AllOps, StockOps

\* A granted request keeps every order sound: its own, and the ones it does not touch.
LEMMA CommitOrders ==
    ASSUME TypeOK, ShipmentsFollow, LedgerMatchesPayments,
           NEW r \in Request, NEW saw \in Shipment, Granted(r), Writes(r, saw)
    PROVE  ShipmentsFollow' /\ LedgerMatchesPayments'
<1>1. \A o \in Order : OrderSound(o)
  BY DEF ShipmentsFollow, LedgerMatchesPayments, OrderSound
<1>2. ASSUME NEW o \in Order PROVE OrderSound(o)'
  <2>1. CASE r.op \notin StockOps /\ o = r.o
    <3>1. OrderSound(r.o)
      BY <1>1, <2>1
    <3>2. OrderSound(r.o)'
      BY <2>1, <3>1, OwnOrderSound
    <3>3. QED
      BY <2>1, <3>2
  <2>2. CASE r.op \notin StockOps => o # r.o
    <3>1. SameOrder(o)
      BY <2>2, OthersKept
    <3>2. QED
      BY <1>1, <3>1 DEF SameOrder, OrderSound
  <2>3. QED
    BY <2>1, <2>2
<1>3. QED
  BY <1>2 DEF ShipmentsFollow, LedgerMatchesPayments, OrderSound

\* A new order reserves no more than the rows it locked have free.
LEMMA CartAvailable ==
    ASSUME TypeOK, NoOversell, NEW r \in Request, Granted(r), r.op \in Creating
    PROVE  \A p \in Product : Available(p, r.cart[p])
<1>1. SUFFICES ASSUME NEW p \in Product PROVE Available(p, r.cart[p])
  OBVIOUS
<1>2. r.cart[p] \in 0..MaxQty
  BY RequestFields DEF Cart
<1>3. CASE r.cart[p] > 0
  <2>1. p \in StockRows(r)
    BY <1>3, StockRowsOf DEF Lines
  <2>2. QED
    BY <2>1 DEF Granted, PassesStockChecks, Creating
<1>4. CASE r.cart[p] = 0
  <2>1. reserved[p] \in Nat /\ onHand[p] \in Nat /\ reserved[p] <= onHand[p]
    BY DEF TypeOK, NoOversell
  <2>2. QED
    BY <1>4, <2>1 DEF Available
<1>5. QED
  BY <1>2, <1>3, <1>4, OrderFlowAssumption

\* What is taken off a row and off its reservation leaves the shelf at least as full.
LEMMA MonusOrder ==
    ASSUME NEW a \in Nat, NEW b \in Nat, NEW c \in Nat, a <= b
    PROVE  Monus(a, c) <= b /\ Monus(a, c) <= Monus(b, c)
BY DEF Monus

\* No granted request oversells, whatever the other sessions do: each row it changes is
\* one it locked and checked.
LEMMA CommitStock ==
    ASSUME TypeOK, NoOversell, NEW r \in Request, NEW saw \in Shipment, Granted(r), Writes(r, saw)
    PROVE  NoOversell'
<1>t. ASSUME NEW p \in Product
      PROVE  reserved[p] \in Nat /\ onHand[p] \in Nat /\ reserved[p] <= onHand[p]
  BY DEF TypeOK, NoOversell
<1>1. CASE r.op \in Creating
  <2>1. Reserve(r.cart) /\ UNCHANGED onHand
    BY <1>1 DEF Writes, Creating, WriteOrder, WriteCheckout
  <2>2. SUFFICES ASSUME NEW p \in Product PROVE reserved'[p] <= onHand'[p]
    BY DEF NoOversell
  <2>3. reserved'[p] = reserved[p] + r.cart[p] /\ r.cart[p] \in Int /\ Available(p, r.cart[p])
    <3>1. r.cart[p] \in 0..MaxQty
      BY <1>1, RequestFields DEF Cart
    <3>2. QED
      BY <1>1, <2>1, <3>1, CartAvailable, OrderFlowAssumption DEF Reserve
  <2>4. QED
    BY <1>t, <2>1, <2>3 DEF Available
<1>2. CASE r.op \in {"pay", "create_shipment", "update_shipment", "deliver"}
  BY <1>2 DEF Writes, WritePayment, WriteShipment, WriteEdit, WriteDelivery, NoOversell
<1>3. ASSUME NEW new, NEW source, NEW o \in Order, WriteTransition(o, new, source) PROVE NoOversell'
  <2>1. SUFFICES ASSUME NEW p \in Product PROVE reserved'[p] <= onHand'[p]
    BY DEF NoOversell
  <2>2. CASE new \in Reversing
    <3>1. reserved'[p] = Monus(reserved[p], items[o][p]) /\ UNCHANGED onHand
      BY <1>3, <2>2 DEF WriteTransition, Release
    <3>2. items[o][p] \in Nat
      BY LeftoverNat
    <3>3. QED
      BY <1>t, <3>1, <3>2, MonusOrder
  <2>3. CASE new \notin Reversing
    BY <1>3, <1>t, <2>3 DEF WriteTransition
  <2>4. QED
    BY <2>2, <2>3
<1>4. CASE r.op \in {"cancel", "status"}
  BY <1>3, <1>4, RequestFields DEF Writes, StockOps
<1>5. CASE r.op = "ship"
  <2>1. SUFFICES ASSUME NEW p \in Product PROVE reserved'[p] <= onHand'[p]
    BY DEF NoOversell
  <2>2. r.o \in Order /\ items[r.o][p] \in Nat
    BY <1>5, RequestFields, LeftoverNat DEF StockOps
  <2>3. /\ reserved'[p] = Monus(reserved[p], items[r.o][p])
        /\ onHand'[p] = Monus(onHand[p], items[r.o][p])
    BY <1>5 DEF Writes, WriteDispatch, Fulfill
  <2>4. QED
    BY <1>t, <2>2, <2>3, MonusOrder
<1>6. CASE r.op \in StockOps
  <2>1. r.p \in Product
    BY <1>6, RequestFields
  <2>2. PICK level \in Nat : WriteStock(r.p, level) /\ level >= reserved[r.p]
    BY <1>6, StockLevel
  <2>3. QED
    BY <1>t, <2>1, <2>2 DEF WriteStock, NoOversell, TypeOK
<1>7. QED
  BY <1>1, <1>2, <1>4, <1>5, <1>6, RequestFields DEF AllOps, Creating, StockOps

\* While no payment has revived a cancelled order, the counts stay exact.
LEMMA CommitExact ==
    ASSUME StockSound, TypeOK', ShipmentsFollow, NEW r \in Request, NEW saw \in Shipment,
           Granted(r), Writes(r, saw),
           r.op = "pay" /\ r.outcome = "completed" => status[r.o] = "pending"
    PROVE  StockExact'
<1>t. TypeOK /\ NoOversell
  BY DEF StockSound, StockExact
<1>d. DOMAIN status = Order /\ DOMAIN items = Order
  BY <1>t DEF TypeOK
<1>o. r.op \notin StockOps => r.o \in Order
  BY RequestFields
<1>1. CASE r.op \in Creating
  <2>1. /\ r.o \in Order /\ r.cart \in Cart /\ status[r.o] = "none"
        /\ \A p \in Product : Available(p, r.cart[p])
    BY <1>1, <1>o, <1>t, RequestFields, CartAvailable DEF Granted, Creating, StockOps
  <2>2. /\ Reserve(r.cart) /\ items' = [items EXCEPT ![r.o] = r.cart]
        /\ UNCHANGED <<onHand, stocked>>
    BY <1>1 DEF Writes, Creating, WriteOrder, WriteCheckout
  <2>3. \/ status' = [status EXCEPT ![r.o] = "pending"]
        \/ status' = [status EXCEPT ![r.o] = "paid"]
    BY <1>1 DEF Writes, Creating, WriteOrder, WriteCheckout, MoveTo, MoveFrom
  <2>4. OnlyOrder(r.o) /\ status'[r.o] \in Holding /\ items'[r.o] = r.cart
    BY <1>d, <2>1, <2>2, <2>3 DEF OnlyOrder, Holding
  <2>5. QED
    BY <2>1, <2>2, <2>4, Placed
<1>2. CASE r.op = "pay"
  <2>1. UNCHANGED <<items, onHand, reserved, stocked>> /\ r.o \in Order
    BY <1>2, <1>o DEF Writes, WritePayment, StockOps
  <2>2. \/ UNCHANGED status
        \/ status[r.o] = "pending" /\ status' = [status EXCEPT ![r.o] = "paid"]
    BY <1>2 DEF Writes, WritePayment, MoveFrom
  <2>3. QED
    BY <1>d, <2>1, <2>2, Unmoved DEF OnlyOrder, Holding, Dispatched
<1>3. ASSUME NEW o \in Order, NEW new \in AllowedTransitions(status[o]), NEW source,
             WriteTransition(o, new, source)
      PROVE  StockExact'
  <2>1. status' = [status EXCEPT ![o] = new] /\ UNCHANGED <<items, onHand, stocked>>
    BY <1>3 DEF WriteTransition, MoveTo, MoveFrom
  <2>2. OnlyOrder(o) /\ status'[o] = new /\ status[o] \in Holding
    BY <1>3, <1>d, <2>1, AllowedEdges DEF OnlyOrder
  <2>3. CASE new \in Reversing
    BY <1>3, <2>1, <2>2, <2>3, Released DEF WriteTransition, Reversing, Holding, Dispatched
  <2>4. CASE new \notin Reversing
    <3>1. new = "preparing" /\ UNCHANGED reserved
      BY <1>3, <2>4, AllowedEdges DEF WriteTransition, Reversing
    <3>2. QED
      BY <2>1, <2>2, <3>1, Unmoved DEF Holding, Dispatched
  <2>5. QED
    BY <2>3, <2>4
<1>4. CASE r.op = "cancel"
  <2>1. status[r.o] = "pending" /\ r.o \in Order
    BY <1>4, <1>o DEF Granted, OrderLocking, PassesOrderChecks, StockOps
  <2>2. "cancelled" \in AllowedTransitions(status[r.o])
    BY <2>1 DEF AllowedTransitions
  <2>3. QED
    BY <1>3, <1>4, <2>1, <2>2 DEF Writes
<1>5. CASE r.op = "status"
  BY <1>3, <1>5, <1>o DEF Writes, Granted, OrderLocking, PassesOrderChecks, StockOps
<1>6. CASE r.op = "create_shipment"
  <2>1. status[r.o] \in {"paid", "preparing"} /\ r.o \in Order
    BY <1>6, <1>o DEF Granted, OrderLocking, PassesOrderChecks, PassesShipmentChecks, StockOps
  <2>2. \/ UNCHANGED status
        \/ status' = [status EXCEPT ![r.o] = "preparing"]
    BY <1>6 DEF Writes, WriteShipment, MoveOrder, MoveTo, MoveFrom
  <2>3. UNCHANGED <<items, onHand, reserved, stocked>>
    BY <1>6 DEF Writes, WriteShipment
  <2>4. QED
    BY <1>d, <2>1, <2>2, <2>3, Unmoved DEF OnlyOrder, Holding, Dispatched
<1>7. CASE r.op = "update_shipment"
  <2>1. UNCHANGED <<status, items, onHand, reserved, stocked>> /\ r.o \in Order
    BY <1>7, <1>o DEF Writes, WriteEdit, StockOps
  <2>2. QED
    BY <2>1, Unmoved DEF OnlyOrder
<1>8. CASE r.op = "ship"
  <2>1. status[r.o] = "preparing" /\ r.o \in Order
    BY <1>8, <1>o DEF Granted, OrderLocking, PassesOrderChecks, PassesShipmentChecks, StockOps
  <2>2. status' = [status EXCEPT ![r.o] = "shipped"] /\ UNCHANGED <<items, stocked>> /\ Fulfill(r.o)
    BY <1>8, <2>1 DEF Writes, WriteDispatch, MoveOrder, MoveTo, MoveFrom
  <2>3. OnlyOrder(r.o) /\ status[r.o] \in Holding /\ status'[r.o] \in Dispatched
    BY <1>d, <2>1, <2>2 DEF OnlyOrder, Holding, Dispatched
  <2>4. QED
    BY <2>1, <2>2, <2>3, Shipped
<1>9. CASE r.op = "deliver"
  <2>1. status[r.o] = "shipped" /\ r.o \in Order
    BY <1>9, <1>o
    DEF Granted, OrderLocking, PassesOrderChecks, PassesShipmentChecks, StockOps, ShipmentsFollow
  <2>2. status' = [status EXCEPT ![r.o] = "delivered"] /\ UNCHANGED <<items, onHand, reserved, stocked>>
    BY <1>9, <2>1 DEF Writes, WriteDelivery, MoveOrder, MoveTo, MoveFrom
  <2>3. OnlyOrder(r.o) /\ status'[r.o] = "delivered"
    BY <1>d, <2>1, <2>2 DEF OnlyOrder
  <2>4. QED
    BY <2>1, <2>2, <2>3, Unmoved DEF Holding, Dispatched
<1>10. CASE r.op \in StockOps
  <2>1. r.p \in Product
    BY <1>10, RequestFields
  <2>2. PICK level \in Nat : WriteStock(r.p, level) /\ level >= reserved[r.p]
    BY <1>10, <1>t, StockLevel
  <2>3. QED
    BY <2>1, <2>2, Restocked
<1>11. QED
  BY <1>1, <1>2, <1>4, <1>5, <1>6, <1>7, <1>8, <1>9, <1>10, RequestFields
  DEF AllOps, Creating, StockOps

\* The rows' part of the invariant is kept by every commit of a granted request.
LEMMA CommitRows ==
    ASSUME RowInv, NEW r \in Request, NEW saw \in Shipment, Granted(r), Writes(r, saw)
    PROVE  RowInv'
<1> USE DEF RowInv
<1>1. TypeOK'
  BY CommitType
<1>2. ShipmentsFollow' /\ LedgerMatchesPayments'
  BY CommitOrders
<1>3. /\ LastIsStatus' /\ OnlyPaymentIsStale'
      /\ NothingStale' =>
            /\ NothingStale
            /\ r.op = "pay" /\ r.outcome = "completed" => status[r.o] = "pending"
  BY CommitHistory
<1>4. NoOversell'
  BY CommitStock
<1>5. NothingStale' => StockExact'
  BY <1>1, <1>3, CommitExact DEF StockSound
<1>6. QED
  BY <1>1, <1>2, <1>3, <1>4, <1>5

-----------------------------------------------------------------------------
(***************************************************************************)
(* The sessions, step by step.                                             *)
(***************************************************************************)

\* The fields of a session that runs a request.
LEMMA SessionFields ==
    ASSUME SessionsOK, NEW t \in Tx, Busy(t)
    PROVE  /\ tx[t] \in Session /\ DOMAIN tx = Tx
           /\ tx[t].req \in Request /\ tx[t].at \in Place
           /\ tx[t].held \subseteq Row \X Mode /\ tx[t].saw \in Shipment
<1>1. tx[t] \in Session /\ DOMAIN tx = Tx
  BY DEF SessionsOK, Busy, Idle
<1>2. QED
  BY <1>1 DEF Session

\* t goes on with its request, with more locks perhaps; the other sessions stand still.
Moved(t, locks, place) ==
    /\ tx'[t].req = tx[t].req
    /\ tx'[t].at = place
    /\ tx'[t].held = tx[t].held \cup locks
    /\ \A u \in Tx : u # t => tx'[u] = tx[u]

\* Two fields of a record, rewritten one after the other.
LEMMA TwoFields ==
    ASSUME NEW s \in Session, NEW held, NEW at
    PROVE  [[s EXCEPT !.held = held] EXCEPT !.at = at]
              = [req |-> s.req, at |-> at, held |-> held, saw |-> s.saw]
<1>1. s = [req |-> s.req, at |-> s.at, held |-> s.held, saw |-> s.saw]
  BY DEF Session
<1>2. [s EXCEPT !.held = held] = [req |-> s.req, at |-> s.at, held |-> held, saw |-> s.saw]
  BY <1>1
<1>3. [[req |-> s.req, at |-> s.at, held |-> held, saw |-> s.saw] EXCEPT !.at = at]
         = [req |-> s.req, at |-> at, held |-> held, saw |-> s.saw]
  OBVIOUS
<1>4. QED
  BY <1>2, <1>3

\* The same for three fields.
LEMMA ThreeFields ==
    ASSUME NEW s \in Session, NEW held, NEW at, NEW saw
    PROVE  [[[s EXCEPT !.held = held] EXCEPT !.at = at] EXCEPT !.saw = saw]
              = [req |-> s.req, at |-> at, held |-> held, saw |-> saw]
<1> DEFINE moved == [req |-> s.req, at |-> at, held |-> held, saw |-> s.saw]
<1>1. [moved EXCEPT !.saw = saw] = [req |-> s.req, at |-> at, held |-> held, saw |-> saw]
  OBVIOUS
<1>2. [[s EXCEPT !.held = held] EXCEPT !.at = at] = moved
  BY TwoFields
<1> HIDE DEF moved
<1>3. QED
  BY <1>1, <1>2, Zenon

\* Taking one more lock is a move of the session.
LEMMA HoldMoves ==
    ASSUME SessionsOK, NEW t \in Tx, Busy(t), NEW row \in Row, NEW mode \in Mode,
           NEW place \in Place, Hold(t, row, mode, place)
    PROVE  SessionsOK' /\ Moved(t, {<<row, mode>>}, place) /\ tx'[t].saw = tx[t].saw
<1>1. tx[t] \in Session /\ DOMAIN tx = Tx
  BY SessionFields
<1> DEFINE s == [req |-> tx[t].req, at |-> place, held |-> tx[t].held \cup {<<row, mode>>},
                 saw |-> tx[t].saw]
<1>2. tx' = [tx EXCEPT ![t] = s]
  <2>1. tx' = [tx EXCEPT ![t] = [[tx[t] EXCEPT !.held = tx[t].held \cup {<<row, mode>>}]
                                     EXCEPT !.at = place]]
    BY <1>1 DEF Hold
  <2>2. [[tx[t] EXCEPT !.held = tx[t].held \cup {<<row, mode>>}] EXCEPT !.at = place] = s
    BY <1>1, TwoFields
  <2>3. QED
    BY <2>1, <2>2
<1>3. s \in Session
  BY <1>1 DEF Session
<1>4. SessionsOK'
  BY <1>2, <1>3 DEF SessionsOK
<1>5. QED
  BY <1>1, <1>2, <1>4 DEF Moved

\* A rollback, or the end of a commit, leaves the session idle and the others alone.
LEMMA RollbackIdles ==
    ASSUME SessionsOK, NEW t \in Tx, Rollback(t)
    PROVE  /\ SessionsOK' /\ tx'[t] = Idle
           /\ \A u \in Tx : u # t => tx'[u] = tx[u]
BY DEF SessionsOK, Rollback

\* A lock that was granted excludes what the others hold.
LEMMA LocksMove ==
    ASSUME SessionsOK, LocksExclusive, NEW t \in Tx, NEW row \in Row, NEW mode \in Mode,
           Grantable(t, row, mode), NEW place, Moved(t, {<<row, mode>>}, place)
    PROVE  LocksExclusive'
<1>1. \A u \in Tx, m \in Mode : u # t /\ Holds(u, row, m) => ~Conflict(m, mode)
  BY DEF Grantable, Holders, Holds
<1>2. \A m, n \in Mode : Conflict(m, n) <=> Conflict(n, m)
  BY DEF Conflict
<1>3. \A u \in Tx, k \in Row, m \in Mode :
         Holds(u, k, m)' => Holds(u, k, m) \/ (u = t /\ k = row /\ m = mode)
  BY DEF Moved, Holds
<1>4. \A u \in Tx, k \in Row, m \in Mode : u # t => (Holds(u, k, m)' <=> Holds(u, k, m))
  BY DEF Moved, Holds
<1>5. ASSUME NEW u \in Tx, NEW v \in Tx, NEW k \in Row, NEW m \in Mode, NEW n \in Mode,
             u # v, Holds(u, k, m)', Holds(v, k, n)'
      PROVE  ~Conflict(m, n)
  <2>1. CASE Holds(u, k, m) /\ Holds(v, k, n)
    BY <1>5, <2>1 DEF LocksExclusive
  <2>2. CASE u = t /\ k = row /\ m = mode
    BY <1>1, <1>2, <1>4, <1>5, <2>2
  <2>3. CASE v = t /\ k = row /\ n = mode
    BY <1>1, <1>4, <1>5, <2>3
  <2>4. QED
    BY <1>3, <1>5, <2>1, <2>2, <2>3
<1>6. QED
  BY <1>5 DEF LocksExclusive

\* Giving locks back leaves the rest exclusive.
LEMMA LocksFewer ==
    ASSUME LocksExclusive, \A u \in Tx : tx'[u].held \subseteq tx[u].held
    PROVE  LocksExclusive'
BY DEF LocksExclusive, Holds

\* What a session has made sure of stays true while the rows it rests on do.
LEMMA GuardKept ==
    ASSUME NEW t \in Tx, Guarded(t), tx'[t] = tx[t], tx[t].req \in Request,
           tx[t].req.op \notin StockOps =>
              (status'[tx[t].req.o] = "none" <=> status[tx[t].req.o] = "none"),
           \A u \in Tx \ {t} :
              (Busy(u) /\ tx[u].req.op \in Creating)' /\ tx[t].req.op \in Creating
                 => tx'[u].req.o # tx[t].req.o,
           tx[t].req.op \in OrderLocking /\ tx[t].at # "lock_order" =>
              /\ status'[tx[t].req.o] = status[tx[t].req.o]
              /\ shipment'[tx[t].req.o].status = shipment[tx[t].req.o].status,
           PaymentGuarded(t) => PaymentGuarded(t)',
           tx[t].req.op \notin StockOps \cup Creating => items'[tx[t].req.o] = items[tx[t].req.o],
           \A p \in Product : Holds(t, StockRow(p), "update") =>
              onHand'[p] = onHand[p] /\ reserved'[p] = reserved[p]
    PROVE  Guarded(t)'
<1> DEFINE r == tx[t].req
<1>1. (tx[t].at \in PlacesOf(tx[t].req.op))'
  BY DEF Guarded
<1>2. OrderNamed(t)'
  BY DEF Guarded, OrderNamed, Creating, StockOps
<1>3. OrderGuarded(t)'
  <2>1. SUFFICES ASSUME r.op \in OrderLocking, tx[t].at # "lock_order"
                 PROVE  Holds(t, OrderRow(r.o), "update")' /\ PassesOrderChecks(tx[t].req)'
    BY DEF OrderGuarded
  <2>2. Holds(t, OrderRow(r.o), "update") /\ PassesOrderChecks(r)
    BY <2>1 DEF Guarded, OrderGuarded
  <2>3. Holds(t, OrderRow(r.o), "update")'
    BY <2>2 DEF Holds
  <2>4. PassesOrderChecks(tx[t].req)'
    BY <2>1, <2>2 DEF PassesOrderChecks, PassesShipmentChecks
  <2>5. QED
    BY <2>3, <2>4
<1>4. StockGuarded(t)'
  <2>1. StockRows(tx[t].req)' = StockRows(r)
    BY RequestFields DEF StockRows, IsReversal, Lines, Creating, StockOps
  <2>2. \A p \in Product : Holds(t, StockRow(p), "update")' <=> Holds(t, StockRow(p), "update")
    BY DEF Holds
  <2>3. StockRows(r) \subseteq Product
    BY RequestFields DEF StockRows, IsReversal, Lines, Creating, StockOps
  <2>4. ASSUME NEW p \in StockRows(r), Holds(t, StockRow(p), "update")
        PROVE  PassesStockChecks(tx[t].req, p)'
    <3>1. PassesStockChecks(r, p)
      BY <2>4 DEF Guarded, StockGuarded
    <3>2. onHand'[p] = onHand[p] /\ reserved'[p] = reserved[p]
      BY <2>3, <2>4
    <3>3. QED
      BY <3>1, <3>2 DEF PassesStockChecks, Available
  <2>5. QED
    BY <2>1, <2>2, <2>3, <2>4 DEF Guarded, StockGuarded
<1>5. QED
  BY <1>1, <1>2, <1>3, <1>4 DEF Guarded

\* What a step that writes no row leaves of the checks of a session, and of the rows.
LEMMA ChecksStand ==
    ASSUME UNCHANGED vars, NEW t \in Tx, tx'[t].req = tx[t].req
    PROVE  /\ PassesOrderChecks(tx[t].req)' <=> PassesOrderChecks(tx[t].req)
           /\ \A p \in Product : PassesStockChecks(tx[t].req, p)' <=> PassesStockChecks(tx[t].req, p)
           /\ StockRows(tx[t].req)' = StockRows(tx[t].req)
<1> USE DEF vars
<1>1. PassesOrderChecks(tx[t].req)' <=> PassesOrderChecks(tx[t].req)
  BY DEF PassesOrderChecks, PassesShipmentChecks
<1>2. \A p \in Product : PassesStockChecks(tx[t].req, p)' <=> PassesStockChecks(tx[t].req, p)
  BY DEF PassesStockChecks, Available
<1>3. StockRows(tx[t].req)' = StockRows(tx[t].req)
  BY DEF StockRows, IsReversal, Lines
<1>4. QED
  BY <1>1, <1>2, <1>3

\* What holds of the rows holds until one is written.
LEMMA RowsStand == RowInv /\ UNCHANGED vars => RowInv'
<1> SUFFICES ASSUME RowInv, UNCHANGED vars PROVE RowInv'
  OBVIOUS
<1> USE DEF vars
<1>1. TypeOK' /\ LedgerMatchesPayments'
  BY DEF RowInv, TypeOK, LedgerMatchesPayments
<1>2. ShipmentsFollow'
  BY DEF RowInv, ShipmentsFollow
<1>3. LastIsStatus' /\ OnlyPaymentIsStale' /\ (NothingStale' => NothingStale)
  BY HistoryKept DEF RowInv
<1>4. NoOversell' /\ (StockExact => StockExact')
  BY DEF RowInv, StockExact, ReservationExact, NoOversell, StockConserved
<1>5. QED
  BY <1>1, <1>2, <1>3, <1>4 DEF RowInv

\* The other sessions stay guarded when one session moves, ends or begins.
LEMMA OthersGuarded ==
    ASSUME GuardedOK, SessionsOK, UNCHANGED vars, NEW t \in Tx,
           \A u \in Tx : u # t => tx'[u] = tx[u],
           (Busy(t) /\ tx[t].req.op \in Creating)' =>
              \A u \in Tx \ {t} : Busy(u) /\ tx[u].req.op \in Creating => tx'[t].req.o # tx[u].req.o,
           NEW u \in Tx, u # t, Busy(u)'
    PROVE  Guarded(u)'
<1>1. Busy(u) /\ Guarded(u) /\ tx'[u] = tx[u] /\ tx[u].req \in Request
  BY SessionFields DEF GuardedOK, Busy
<1>2. PaymentGuarded(u) => PaymentGuarded(u)'
  BY <1>1 DEF PaymentGuarded, Holds, vars
<1>3. \A v \in Tx \ {u} :
         (Busy(v) /\ tx[v].req.op \in Creating)' /\ tx[u].req.op \in Creating
            => tx'[v].req.o # tx[u].req.o
  <2>1. SUFFICES ASSUME NEW v \in Tx \ {u}, (Busy(v) /\ tx[v].req.op \in Creating)',
                        tx[u].req.op \in Creating
                 PROVE  tx'[v].req.o # tx[u].req.o
    OBVIOUS
  <2>2. CASE v = t
    BY <1>1, <2>1, <2>2
  <2>3. CASE v # t
    BY <1>1, <2>1, <2>3 DEF Guarded, OrderNamed, Busy
  <2>4. QED
    BY <2>2, <2>3
<1>4. QED
  BY <1>1, <1>2, <1>3, GuardKept DEF vars

\* A step of a session that writes no row keeps the invariant if the session is still
\* guarded at its new place.
LEMMA SessionStep ==
    ASSUME TxInv, UNCHANGED vars, NEW t \in Tx, Busy(t), NEW locks, NEW place \in Place,
           Moved(t, locks, place), SessionsOK', LocksExclusive',
           place \in PlacesOf(tx[t].req.op),
           OrderGuarded(t)', PaymentGuarded(t)', StockGuarded(t)'
    PROVE  TxInv'
<1>1. Guarded(t) /\ GuardedOK /\ SessionsOK
  BY DEF TxInv, GuardedOK
<1>2. Busy(t)' /\ tx'[t].req = tx[t].req /\ \A u \in Tx : u # t => tx'[u] = tx[u]
  BY DEF Moved, Busy, Place
<1>3. ASSUME tx[t].req.op \in Creating
      PROVE  \A u \in Tx \ {t} : Busy(u) /\ tx[u].req.op \in Creating => tx[t].req.o # tx[u].req.o
  BY <1>1, <1>3 DEF Guarded, OrderNamed
<1>4. OrderNamed(t)'
  BY <1>1, <1>2 DEF Guarded, OrderNamed, Busy, vars
<1>5. Guarded(t)'
  BY <1>2, <1>4 DEF Guarded, Moved
<1>6. \A u \in Tx : u # t /\ Busy(u)' => Guarded(u)'
  BY <1>1, <1>2, <1>3, OthersGuarded
<1>7. GuardedOK'
  BY <1>5, <1>6 DEF GuardedOK
<1>8. QED
  BY <1>7, RowsStand DEF TxInv

\* A rollback keeps the invariant.
LEMMA RollbackStep ==
    ASSUME TxInv, UNCHANGED vars, NEW t \in Tx, Rollback(t)
    PROVE  TxInv'
<1>1. GuardedOK /\ SessionsOK /\ LocksExclusive /\ RowInv
  BY DEF TxInv
<1>2. /\ SessionsOK' /\ tx'[t] = Idle /\ ~Busy(t)'
      /\ \A u \in Tx : u # t => tx'[u] = tx[u]
  BY <1>1, RollbackIdles DEF Busy, Idle
<1>3. LocksExclusive'
  <2>1. \A u \in Tx : tx'[u].held \subseteq tx[u].held
    BY <1>2 DEF Idle
  <2>2. QED
    BY <1>1, <2>1, LocksFewer
<1>4. \A u \in Tx : u # t /\ Busy(u)' => Guarded(u)'
  BY <1>1, <1>2, OthersGuarded
<1>5. GuardedOK'
  BY <1>2, <1>4 DEF GuardedOK
<1>6. QED
  BY <1>1, <1>2, <1>3, <1>5, RowsStand DEF TxInv

\* A request arrives: it names an order that nobody else creates, or one that is there.
LEMMA BeginStep ==
    ASSUME TxInv, NEW t \in Tx, NEW r \in Request, Begin(t, r)
    PROVE  TxInv'
<1> DEFINE s == [req |-> r, at |-> FirstStep(r), held |-> {},
                 saw |-> IF r.op \in StockOps THEN NoShipment ELSE shipment[r.o]]
<1>1. GuardedOK /\ SessionsOK /\ LocksExclusive /\ RowInv
  BY DEF TxInv
<1>2. FirstStep(r) \in Place /\ FirstStep(r) \in PlacesOf(r.op)
  BY RequestFields DEF FirstStep, Place, PlacesOf, OrderLocking, AllOps, Creating, StockOps
<1>3. s \in Session
  <2>1. s.saw \in Shipment
    BY <1>1, RequestFields DEF NoShipment, Shipment, RowInv, TypeOK
  <2>2. QED
    BY <1>2, <2>1 DEF Session
<1>4. tx' = [tx EXCEPT ![t] = s] /\ UNCHANGED vars /\ PassesUnlockedChecks(r)
  BY DEF Begin
<1>5. SessionsOK' /\ tx'[t] = s /\ \A u \in Tx : u # t => tx'[u] = tx[u]
  BY <1>1, <1>3, <1>4 DEF SessionsOK
<1>6. tx'[t].req = r /\ tx'[t].at = FirstStep(r) /\ tx'[t].held = {}
  BY <1>5
<1>7. LocksExclusive'
  <2>1. \A u \in Tx : tx'[u].held \subseteq tx[u].held
    BY <1>5, <1>6
  <2>2. QED
    BY <1>1, <2>1, LocksFewer
<1>8. r.op \in Creating => \A u \in Tx \ {t} : Busy(u) /\ tx[u].req.op \in Creating => r.o # tx[u].req.o
  BY DEF Begin
<1>9. \A u \in Tx : u # t /\ Busy(u)' => Guarded(u)'
  BY <1>1, <1>4, <1>5, <1>6, <1>8, OthersGuarded
<1>10. OrderNamed(t)'
  <2>1. r.op \in Creating => status[r.o] = "none"
    BY <1>4 DEF PassesUnlockedChecks, Creating, StockOps
  <2>2. r.op \notin Creating \cup StockOps => status[r.o] # "none"
    <3>1. SUFFICES ASSUME r.op \notin Creating \cup StockOps PROVE status[r.o] # "none"
      OBVIOUS
    <3>2. r.o \in Order
      BY <3>1, RequestFields
    <3>3. shipment[r.o].status # "none" => status[r.o] # "none"
      BY <1>1, <3>2 DEF RowInv, ShipmentsFollow, LedgerMatchesPayments
    <3>4. QED
      BY <1>4, <3>1, <3>3 DEF PassesUnlockedChecks, Undispatched
  <2>3. UNCHANGED status
    BY <1>4 DEF vars
  <2>4. QED
    BY <1>5, <1>6, <1>8, <2>1, <2>2, <2>3 DEF OrderNamed, Busy
<1>11. OrderGuarded(t)' /\ PaymentGuarded(t)' /\ StockGuarded(t)'
  <2>1. r.op \in OrderLocking => FirstStep(r) = "lock_order"
    BY DEF OrderLocking, FirstStep, Creating, StockOps
  <2>2. FirstStep(r) # "commit"
    BY DEF FirstStep
  <2>3. QED
    BY <1>6, <2>1, <2>2 DEF OrderGuarded, PaymentGuarded, StockGuarded, Holds
<1>12. Guarded(t)'
  BY <1>2, <1>6, <1>10, <1>11 DEF Guarded
<1>13. GuardedOK'
  BY <1>9, <1>12 DEF GuardedOK
<1>14. QED
  BY <1>1, <1>4, <1>5, <1>7, <1>13, RowsStand DEF TxInv

\* The order's row is locked and checked, or the request is refused.
LEMMA LockOrderStep ==
    ASSUME TxInv, NEW t \in Tx, LockOrder(t)
    PROVE  TxInv'
<1> DEFINE r == tx[t].req
           row == OrderRow(r.o)
<1>1. /\ Busy(t) /\ UNCHANGED vars /\ tx[t].at = "lock_order"
      /\ SessionsOK /\ LocksExclusive /\ RowInv /\ Guarded(t)
  BY DEF LockOrder, TxInv, GuardedOK, Busy
<1>2. tx[t] \in Session /\ r \in Request /\ DOMAIN tx = Tx
  BY <1>1, SessionFields
<1>3. r.op \in OrderLocking /\ r.o \in Order /\ r.op # "pay" /\ r.op \notin StockOps
  BY <1>1, <1>2, RequestFields DEF Guarded, PlacesOf, OrderLocking, StockOps
<1>4. row \in Row /\ "update" \in Mode
  BY <1>3 DEF Row, OrderRow, Mode
<1>5. CASE ~PassesOrderChecks(r)
  <2>1. Rollback(t)
    BY <1>5 DEF LockOrder
  <2>2. QED
    BY <1>1, <2>1, RollbackStep
<1>6. CASE PassesOrderChecks(r)
  <2> DEFINE s == [req |-> r, at |-> "stock", held |-> tx[t].held \cup {<<row, "update">>},
                   saw |-> shipment[r.o]]
  <2>1. tx' = [tx EXCEPT ![t] = s]
    <3>1. tx' = [tx EXCEPT ![t] = [[[tx[t] EXCEPT !.held = tx[t].held \cup {<<row, "update">>}]
                                       EXCEPT !.at = "stock"] EXCEPT !.saw = shipment[r.o]]]
      BY <1>2, <1>6 DEF LockOrder, OrderRow
    <3>2. [[[tx[t] EXCEPT !.held = tx[t].held \cup {<<row, "update">>}] EXCEPT !.at = "stock"]
              EXCEPT !.saw = shipment[r.o]] = s
      BY <1>2, ThreeFields
    <3>3. QED
      BY <3>1, <3>2
  <2>2. s \in Session
    BY <1>1, <1>2, <1>3, <1>4 DEF Session, RowInv, TypeOK, Place
  <2>3. SessionsOK'
    BY <1>1, <2>1, <2>2 DEF SessionsOK
  <2>4. Moved(t, {<<row, "update">>}, "stock")
    BY <1>2, <2>1 DEF Moved
  <2>5. Grantable(t, row, "update")
    BY DEF LockOrder, OrderRow
  <2>6. LocksExclusive'
    BY <1>1, <1>4, <2>4, <2>5, LocksMove
  <2>7. "stock" \in Place /\ "stock" \in PlacesOf(r.op)
    BY <1>3 DEF Place, PlacesOf
  <2>8. OrderGuarded(t)'
    <3>1. PassesOrderChecks(tx[t].req)'
      BY <1>1, <1>6, <2>4, ChecksStand DEF Moved
    <3>2. Holds(t, OrderRow(tx[t].req.o), "update")'
      BY <2>4 DEF Moved, Holds, OrderRow
    <3>3. QED
      BY <3>1, <3>2 DEF OrderGuarded
  <2>9. PaymentGuarded(t)'
    BY <2>4 DEF Moved, PaymentGuarded
  <2>10. StockGuarded(t)'
    <3>1. StockRows(tx[t].req)' = StockRows(r) /\ StockRows(r) \subseteq Product
      BY <1>1, <1>2, <2>4, ChecksStand, RequestFields
      DEF Moved, StockRows, IsReversal, Lines, Creating, StockOps
    <3>2. \A p \in Product : Holds(t, StockRow(p), "update")' => Holds(t, StockRow(p), "update")
      BY <2>4 DEF Moved, Holds, StockRow, OrderRow
    <3>3. \A p \in Product : PassesStockChecks(tx[t].req, p)' <=> PassesStockChecks(r, p)
      BY <1>1, <2>4, ChecksStand DEF Moved
    <3>4. QED
      BY <1>1, <2>4, <3>1, <3>2, <3>3 DEF Guarded, StockGuarded, Moved
  <2>11. QED
    BY <1>1, <2>3, <2>4, <2>6, <2>7, <2>8, <2>9, <2>10, SessionStep
<1>7. QED
  BY <1>5, <1>6

\* One more inventory row is locked and checked, or the request is refused.
LEMMA LockStockStep ==
    ASSUME TxInv, NEW t \in Tx, NEW p \in Product, LockStock(t, p)
    PROVE  TxInv'
<1> DEFINE r == tx[t].req
           row == StockRow(p)
<1>1. /\ Busy(t) /\ UNCHANGED vars /\ tx[t].at = "stock" /\ p \in StockRows(r)
      /\ SessionsOK /\ LocksExclusive /\ Guarded(t)
  BY DEF LockStock, StockLeft, TxInv, GuardedOK, Busy
<1>2. r \in Request /\ row \in Row /\ "update" \in Mode /\ "stock" \in Place
  BY <1>1, SessionFields DEF Row, StockRow, Mode, Place
<1>3. CASE ~PassesStockChecks(r, p)
  <2>1. Rollback(t)
    BY <1>3 DEF LockStock
  <2>2. QED
    BY <1>1, <2>1, RollbackStep
<1>4. CASE PassesStockChecks(r, p)
  <2>1. Hold(t, row, "update", "stock") /\ Grantable(t, row, "update")
    BY <1>4 DEF LockStock, StockRow
  <2>2. SessionsOK' /\ Moved(t, {<<row, "update">>}, "stock")
    BY <1>1, <1>2, <2>1, HoldMoves
  <2>3. LocksExclusive'
    BY <1>1, <1>2, <2>1, <2>2, LocksMove
  <2>4. "stock" \in PlacesOf(r.op)
    BY <1>1 DEF Guarded
  <2>5. OrderGuarded(t)' /\ PaymentGuarded(t)'
    <3>1. PassesOrderChecks(tx[t].req)' <=> PassesOrderChecks(r)
      BY <1>1, <2>2, ChecksStand DEF Moved
    <3>2. QED
      BY <1>1, <2>2, <3>1 DEF Guarded, OrderGuarded, PaymentGuarded, Moved, Holds
  <2>6. StockGuarded(t)'
    <3>1. StockRows(tx[t].req)' = StockRows(r) /\ StockRows(r) \subseteq Product
      BY <1>1, <1>2, <2>2, ChecksStand, RequestFields
      DEF Moved, StockRows, IsReversal, Lines, Creating, StockOps
    <3>2. \A q \in Product :
             Holds(t, StockRow(q), "update")' => Holds(t, StockRow(q), "update") \/ q = p
      BY <2>2 DEF Moved, Holds, StockRow
    <3>3. \A q \in Product : PassesStockChecks(tx[t].req, q)' <=> PassesStockChecks(r, q)
      BY <1>1, <2>2, ChecksStand DEF Moved
    <3>4. \A q \in StockRows(r) : Holds(t, StockRow(q), "update") => PassesStockChecks(r, q)
      BY <1>1 DEF Guarded, StockGuarded
    <3>5. tx'[t].at # "commit"
      BY <2>2 DEF Moved
    <3>6. QED
      BY <1>4, <3>1, <3>2, <3>3, <3>4, <3>5 DEF StockGuarded
  <2>7. QED
    BY <1>1, <1>2, <2>2, <2>3, <2>4, <2>5, <2>6, SessionStep
<1>5. QED
  BY <1>3, <1>4

\* Every row is locked and checked, and the final flush has what it waits for.
LEMMA FinalFlushStep ==
    ASSUME TxInv, NEW t \in Tx, FinalFlush(t)
    PROVE  TxInv'
<1> DEFINE r == tx[t].req
           row == <<"shipment", r.o>>
<1>1. /\ Busy(t) /\ UNCHANGED vars /\ tx[t].at = "stock" /\ StockLeft(t) = {}
      /\ SessionsOK /\ LocksExclusive /\ Guarded(t)
  BY DEF FinalFlush, TxInv, GuardedOK, Busy
<1>2. r \in Request /\ tx[t] \in Session /\ DOMAIN tx = Tx /\ "commit" \in Place
  BY <1>1, SessionFields DEF Place
<1>3. PICK locks \in SUBSET (({"shipment"} \X Order) \X Mode) :
         SessionsOK' /\ LocksExclusive' /\ Moved(t, locks, "commit")
  <2>1. CASE UpdatesShipment(r)
    <3>1. r.o \in Order
      BY <1>2, <2>1, RequestFields DEF UpdatesShipment, IsReversal, StockOps
    <3>2. row \in Row /\ row \in {"shipment"} \X Order /\ "no_key_update" \in Mode
      BY <3>1 DEF Row, Mode
    <3>3. Hold(t, row, "no_key_update", "commit") /\ Grantable(t, row, "no_key_update")
      BY <2>1 DEF FinalFlush
    <3>4. SessionsOK' /\ Moved(t, {<<row, "no_key_update">>}, "commit")
      BY <1>1, <1>2, <3>2, <3>3, HoldMoves
    <3>5. LocksExclusive'
      BY <1>1, <3>2, <3>3, <3>4, LocksMove
    <3>6. {<<row, "no_key_update">>} \in SUBSET (({"shipment"} \X Order) \X Mode)
      BY <3>2
    <3>7. QED
      BY <3>4, <3>5, <3>6
  <2>2. CASE ~UpdatesShipment(r)
    <3>1. tx' = [tx EXCEPT ![t] = [tx[t] EXCEPT !.at = "commit"]]
      BY <2>2 DEF FinalFlush
    <3>2. [tx[t] EXCEPT !.at = "commit"]
             = [req |-> r, at |-> "commit", held |-> tx[t].held, saw |-> tx[t].saw]
      BY <1>2 DEF Session
    <3>3. [tx[t] EXCEPT !.at = "commit"] \in Session
      BY <1>2, <3>2 DEF Session
    <3>4. SessionsOK'
      BY <1>1, <3>1, <3>3 DEF SessionsOK
    <3>5. Moved(t, {}, "commit")
      BY <1>2, <3>1, <3>2 DEF Moved
    <3>6. \A u \in Tx : tx'[u].held \subseteq tx[u].held
      BY <3>5 DEF Moved
    <3>7. LocksExclusive'
      BY <1>1, <3>6, LocksFewer
    <3>8. {} \in SUBSET (({"shipment"} \X Order) \X Mode)
      OBVIOUS
    <3>9. QED
      BY <3>4, <3>5, <3>7, <3>8
  <2>3. QED
    BY <2>1, <2>2
<1>4. "commit" \in PlacesOf(r.op)
  BY DEF PlacesOf
<1>5. OrderGuarded(t)'
  <2>1. PassesOrderChecks(tx[t].req)' <=> PassesOrderChecks(r)
    BY <1>1, <1>3, ChecksStand DEF Moved
  <2>2. QED
    BY <1>1, <1>3, <2>1 DEF Guarded, OrderGuarded, Moved, Holds
<1>6. PaymentGuarded(t)'
  BY <1>1, <1>3 DEF Guarded, PlacesOf, OrderLocking, PaymentGuarded, Moved
<1>7. StockGuarded(t)'
  <2>1. StockRows(tx[t].req)' = StockRows(r) /\ StockRows(r) \subseteq Product
    BY <1>1, <1>2, <1>3, ChecksStand, RequestFields
    DEF Moved, StockRows, IsReversal, Lines, Creating, StockOps
  <2>2. \A p \in StockRows(r) : Holds(t, StockRow(p), "update")
    BY <1>1, <2>1 DEF StockLeft, StockRow, Holds
  <2>3. \A p \in StockRows(r) : Holds(t, StockRow(p), "update")'
    BY <1>3, <2>2 DEF Moved, Holds
  <2>4. \A p \in StockRows(r) : PassesStockChecks(r, p)
    BY <1>1, <2>2 DEF Guarded, StockGuarded
  <2>5. \A p \in Product : PassesStockChecks(tx[t].req, p)' <=> PassesStockChecks(r, p)
    BY <1>1, <1>3, ChecksStand DEF Moved
  <2>6. QED
    BY <2>1, <2>3, <2>4, <2>5 DEF StockGuarded
<1>8. QED
  BY <1>1, <1>2, <1>3, <1>4, <1>5, <1>6, <1>7, SessionStep

\* A payment is inserted: the order's key is shared, its status is not looked at.
LEMMA InsertPaymentStep ==
    ASSUME TxInv, NEW t \in Tx, InsertPayment(t)
    PROVE  TxInv'
<1> DEFINE r == tx[t].req
           row == OrderRow(r.o)
           place == IF r.outcome = "completed" THEN "flush_payment" ELSE "commit"
<1>1. /\ Busy(t) /\ UNCHANGED vars /\ tx[t].at = "insert_payment"
      /\ SessionsOK /\ LocksExclusive /\ Guarded(t)
  BY DEF InsertPayment, TxInv, GuardedOK, Busy
<1>2. r \in Request
  BY <1>1, SessionFields
<1>3. r.op = "pay"
  BY <1>1 DEF Guarded, PlacesOf
<1>4. row \in Row /\ "key_share" \in Mode /\ place \in Place /\ place \in PlacesOf(r.op)
  <2>1. r.o \in Order
    BY <1>2, <1>3, RequestFields DEF StockOps
  <2>2. place \in {"flush_payment", "commit"}
    OBVIOUS
  <2>3. PlacesOf(r.op) = {"insert_payment", "flush_payment", "commit"}
    BY <1>3 DEF PlacesOf, OrderLocking
  <2> HIDE DEF place
  <2>4. QED
    BY <2>1, <2>2, <2>3 DEF Row, OrderRow, Mode, Place
<1>5. Hold(t, row, "key_share", place) /\ Grantable(t, row, "key_share")
  BY DEF InsertPayment, OrderRow
<1>6. SessionsOK' /\ Moved(t, {<<row, "key_share">>}, place)
  BY <1>1, <1>4, <1>5, HoldMoves
<1>7. LocksExclusive'
  BY <1>1, <1>4, <1>5, <1>6, LocksMove
<1>8. OrderGuarded(t)' /\ PaymentGuarded(t)'
  BY <1>3, <1>6 DEF OrderGuarded, PaymentGuarded, Moved, OrderLocking
<1>9. StockGuarded(t)'
  <2>1. StockRows(tx[t].req)' = {}
    BY <1>1, <1>2, <1>3, <1>6, ChecksStand, StockRowsOf DEF Moved
  <2>2. QED
    BY <2>1 DEF StockGuarded
<1>10. QED
  BY <1>1, <1>4, <1>6, <1>7, <1>8, <1>9, SessionStep

\* The payment's sale is flushed under the order's row lock, unless there is one.
LEMMA FlushPaymentStep ==
    ASSUME TxInv, NEW t \in Tx, FlushPayment(t)
    PROVE  TxInv'
<1> DEFINE r == tx[t].req
           row == OrderRow(r.o)
<1>1. /\ Busy(t) /\ UNCHANGED vars /\ tx[t].at = "flush_payment"
      /\ SessionsOK /\ LocksExclusive /\ Guarded(t)
  BY DEF FlushPayment, TxInv, GuardedOK, Busy
<1>2. r \in Request
  BY <1>1, SessionFields
<1>3. r.op = "pay"
  BY <1>1 DEF Guarded, PlacesOf
<1>4. row \in Row /\ "no_key_update" \in Mode /\ "commit" \in Place /\ "commit" \in PlacesOf(r.op)
  BY <1>2, <1>3, RequestFields DEF Row, OrderRow, Mode, Place, PlacesOf, StockOps
<1>5. CASE "sale" \in ledger[r.o]
  <2>1. Rollback(t)
    BY <1>5 DEF FlushPayment
  <2>2. QED
    BY <1>1, <2>1, RollbackStep
<1>6. CASE "sale" \notin ledger[r.o]
  <2>1. Hold(t, row, "no_key_update", "commit") /\ Grantable(t, row, "no_key_update")
    BY <1>6 DEF FlushPayment, OrderRow
  <2>2. SessionsOK' /\ Moved(t, {<<row, "no_key_update">>}, "commit")
    BY <1>1, <1>4, <2>1, HoldMoves
  <2>3. LocksExclusive'
    BY <1>1, <1>4, <2>1, <2>2, LocksMove
  <2>4. OrderGuarded(t)'
    BY <1>3, <2>2 DEF OrderGuarded, Moved, OrderLocking
  <2>5. PaymentGuarded(t)'
    BY <1>1, <1>6, <2>2 DEF PaymentGuarded, Moved, Holds, vars
  <2>6. StockGuarded(t)'
    <3>1. StockRows(tx[t].req)' = {}
      BY <1>1, <1>2, <1>3, <2>2, ChecksStand, StockRowsOf DEF Moved
    <3>2. QED
      BY <3>1 DEF StockGuarded
  <2>7. QED
    BY <1>1, <1>4, <2>2, <2>3, <2>4, <2>5, <2>6, SessionStep
<1>7. QED
  BY <1>5, <1>6

\* What a session has made sure of is what its commit needs.
LEMMA CommitGranted ==
    ASSUME TxInv, NEW t \in Tx, tx[t].at = "commit"
    PROVE  /\ Busy(t) /\ Guarded(t) /\ tx[t].req \in Request /\ tx[t].saw \in Shipment
           /\ Granted(tx[t].req)
           /\ \A p \in StockRows(tx[t].req) : Holds(t, StockRow(p), "update")
<1> DEFINE r == tx[t].req
<1>1. Busy(t) /\ Guarded(t) /\ SessionsOK
  BY DEF Busy, TxInv, GuardedOK
<1>2. r \in Request /\ tx[t].saw \in Shipment
  BY <1>1, SessionFields
<1>3. /\ r.op \in Creating => status[r.o] = "none"
      /\ r.op \notin Creating \cup StockOps => status[r.o] # "none"
  BY <1>1 DEF Guarded, OrderNamed
<1>4. r.op \in OrderLocking => PassesOrderChecks(r)
  BY <1>1 DEF Guarded, OrderGuarded
<1>5. r.op = "pay" /\ r.outcome = "completed" => "sale" \notin ledger[r.o]
  BY <1>1 DEF Guarded, PaymentGuarded
<1>6. \A p \in StockRows(r) : PassesStockChecks(r, p) /\ Holds(t, StockRow(p), "update")
  BY <1>1 DEF Guarded, StockGuarded
<1>7. QED
  BY <1>1, <1>2, <1>3, <1>4, <1>5, <1>6 DEF Granted

\* While t holds the order's row for update, another session's commit leaves the order's
\* status, its ledger and its shipment's status alone; and no commit of another session
\* makes an order that exists or unmakes one.
LEMMA CommitElsewhere ==
    ASSUME TxInv, NEW c \in Tx, tx[c].at = "commit", Writes(tx[c].req, tx[c].saw),
           NEW t \in Tx, t # c, Busy(t), tx[t].req.op \notin StockOps
    PROVE  LET o == tx[t].req.o IN
           /\ status'[o] = "none" <=> status[o] = "none"
           /\ tx[t].req.op \notin Creating => items'[o] = items[o]
           /\ Holds(t, OrderRow(o), "update") \/ Holds(t, OrderRow(o), "no_key_update") =>
                 /\ status'[o] = status[o] /\ ledger'[o] = ledger[o]
                 /\ shipment'[o].status = shipment[o].status
<1> DEFINE r == tx[t].req
           rc == tx[c].req
           o == r.o
<1>1. /\ RowInv /\ TypeOK /\ SessionsOK /\ LocksExclusive /\ Guarded(t) /\ Guarded(c)
      /\ Busy(c) /\ rc \in Request /\ tx[c].saw \in Shipment
  BY CommitGranted DEF TxInv, RowInv, GuardedOK
<1>2. r \in Request /\ o \in Order
  BY <1>1, SessionFields, RequestFields
<1>3. CASE rc.op \notin StockOps => rc.o # o
  <2>1. SameOrder(o)
    BY <1>1, <1>2, <1>3, OthersKept
  <2>2. QED
    BY <2>1 DEF SameOrder
<1>4. CASE rc.op \notin StockOps /\ rc.o = o
  <2>1. rc.op \notin Creating /\ r.op \notin Creating
    BY <1>1, <1>4 DEF Guarded, OrderNamed
  <2>2. status[o] # "none" /\ status'[o] # "none"
    <3>1. status[rc.o] # "none"
      BY <1>1, <1>4, <2>1 DEF Guarded, OrderNamed
    <3>2. status'[rc.o] # "none"
      BY <1>1, <1>4, <3>1, NamedAfter
    <3>3. QED
      BY <1>4, <3>1, <3>2
  <2>3. UNCHANGED items
    BY <1>1, <2>1, ItemsKept
  <2>4. ASSUME NEW m \in {"update", "no_key_update"}, Holds(t, OrderRow(o), m)
        PROVE  /\ status'[o] = status[o] /\ ledger'[o] = ledger[o]
               /\ shipment'[o].status = shipment[o].status
    <3>1. ~Holds(c, OrderRow(o), "update") /\ ~Holds(c, OrderRow(o), "no_key_update")
      <4>1. OrderRow(o) \in Row /\ {"update", "no_key_update"} \subseteq Mode
        BY <1>2 DEF OrderRow, Row, Mode
      <4>2. \A n \in {"update", "no_key_update"} : Conflict(m, n)
        BY DEF Conflict
      <4>3. QED
        BY <1>1, <2>4, <4>1, <4>2 DEF LocksExclusive
    <3>2. rc.op \notin OrderLocking
      BY <1>1, <1>4, <3>1 DEF Guarded, OrderGuarded
    <3>3. ~(rc.op = "pay" /\ rc.outcome = "completed")
      BY <1>1, <1>4, <3>1 DEF Guarded, PaymentGuarded
    <3>4. rc.op = "update_shipment" \/ (rc.op = "pay" /\ rc.outcome # "completed")
      BY <1>1, <1>4, <2>1, <3>2, <3>3, RequestFields DEF AllOps, OrderLocking, Creating, StockOps
    <3>5. QED
      BY <1>1, <1>2, <3>4, QuietWrites
  <2>5. QED
    BY <2>2, <2>3, <2>4
<1>5. QED
  BY <1>3, <1>4

\* The commit of one session keeps the others guarded.
LEMMA CommitGuards ==
    ASSUME TxInv, NEW c \in Tx, Commit(c), NEW t \in Tx, t # c, Busy(t)
    PROVE  Guarded(t)'
<1> DEFINE r == tx[t].req
           rc == tx[c].req
<1>1. /\ tx[c].at = "commit" /\ Writes(rc, tx[c].saw) /\ Rollback(c)
      /\ TypeOK /\ SessionsOK /\ LocksExclusive /\ Guarded(t)
      /\ rc \in Request /\ tx[c].saw \in Shipment
      /\ \A p \in StockRows(rc) : Holds(c, StockRow(p), "update")
  BY CommitGranted DEF Commit, TxInv, RowInv, GuardedOK
<1>2. tx'[t] = tx[t] /\ tx'[c] = Idle /\ \A u \in Tx : u # c => tx'[u] = tx[u]
  BY <1>1, RollbackIdles
<1>3. r \in Request
  BY <1>1, SessionFields
<1>4. r.op \notin StockOps => (status'[r.o] = "none" <=> status[r.o] = "none")
  BY <1>1, CommitElsewhere
<1>5. \A u \in Tx \ {t} :
         (Busy(u) /\ tx[u].req.op \in Creating)' /\ r.op \in Creating => tx'[u].req.o # r.o
  BY <1>1, <1>2 DEF Guarded, OrderNamed, Busy, Idle
<1>6. r.op \in OrderLocking /\ tx[t].at # "lock_order" =>
         status'[r.o] = status[r.o] /\ shipment'[r.o].status = shipment[r.o].status
  <2>1. r.op \in OrderLocking => r.op \notin StockOps
    BY DEF OrderLocking, StockOps
  <2>2. r.op \in OrderLocking /\ tx[t].at # "lock_order" => Holds(t, OrderRow(r.o), "update")
    BY <1>1 DEF Guarded, OrderGuarded
  <2>3. QED
    BY <1>1, <2>1, <2>2, CommitElsewhere
<1>7. PaymentGuarded(t) => PaymentGuarded(t)'
  <2>1. SUFFICES ASSUME PaymentGuarded(t), r.op = "pay", r.outcome = "completed", tx[t].at = "commit"
                 PROVE  Holds(t, OrderRow(tx[t].req.o), "no_key_update")' /\ "sale" \notin ledger'[r.o]
    BY <1>2 DEF PaymentGuarded
  <2>2. Holds(t, OrderRow(r.o), "no_key_update") /\ "sale" \notin ledger[r.o]
    BY <2>1 DEF PaymentGuarded
  <2>3. ledger'[r.o] = ledger[r.o]
    BY <1>1, <2>1, <2>2, CommitElsewhere DEF StockOps
  <2>4. QED
    BY <1>2, <2>2, <2>3 DEF Holds
<1>8. r.op \notin StockOps \cup Creating => items'[r.o] = items[r.o]
  BY <1>1, CommitElsewhere
<1>9. ASSUME NEW p \in Product, Holds(t, StockRow(p), "update")
      PROVE  onHand'[p] = onHand[p] /\ reserved'[p] = reserved[p]
  <2>1. ~Holds(c, StockRow(p), "update")
    <3>1. StockRow(p) \in Row /\ "update" \in Mode
      BY DEF StockRow, Row, Mode
    <3>2. QED
      BY <1>1, <1>9, <3>1, Conflicts DEF LocksExclusive
  <2>2. p \notin StockRows(rc)
    BY <1>1, <2>1
  <2>3. QED
    BY <1>1, <2>2, StockKept
<1>10. QED
  BY <1>1, <1>2, <1>3, <1>4, <1>5, <1>6, <1>7, <1>8, <1>9, GuardKept

\* A commit keeps the invariant.
LEMMA CommitStep ==
    ASSUME TxInv, NEW t \in Tx, Commit(t)
    PROVE  TxInv'
<1>1. /\ tx[t].at = "commit" /\ Writes(tx[t].req, tx[t].saw) /\ Rollback(t)
      /\ RowInv /\ SessionsOK /\ LocksExclusive
  BY DEF Commit, TxInv
<1>2. tx[t].req \in Request /\ tx[t].saw \in Shipment /\ Granted(tx[t].req)
  BY <1>1, CommitGranted
<1>3. RowInv'
  BY <1>1, <1>2, CommitRows
<1>4. SessionsOK' /\ tx'[t] = Idle /\ \A u \in Tx : u # t => tx'[u] = tx[u]
  BY <1>1, RollbackIdles
<1>5. LocksExclusive'
  <2>1. \A u \in Tx : tx'[u].held \subseteq tx[u].held
    BY <1>4 DEF Idle
  <2>2. QED
    BY <1>1, <2>1, LocksFewer
<1>6. GuardedOK'
  BY <1>4, CommitGuards DEF GuardedOK, Busy, Idle
<1>7. QED
  BY <1>3, <1>4, <1>5, <1>6 DEF TxInv

-----------------------------------------------------------------------------
(***************************************************************************)
(* The theorems.                                                           *)
(***************************************************************************)
\* Every step of every session keeps the invariant.
LEMMA TxStep == TxInv /\ [TxNext]_txVars => TxInv'
<1> SUFFICES ASSUME TxInv, [TxNext]_txVars PROVE TxInv'
  OBVIOUS
<1>1. CASE UNCHANGED txVars
  <2>1. UNCHANGED vars /\ UNCHANGED tx
    BY <1>1 DEF txVars
  <2>2. RowInv'
    BY <2>1, RowsStand DEF TxInv
  <2>3. SessionsOK' /\ LocksExclusive'
    BY <2>1 DEF TxInv, SessionsOK, LocksExclusive, Holds
  <2>4. ASSUME NEW t \in Tx, Busy(t)' PROVE Guarded(t)'
    <3>1. Busy(t) /\ Guarded(t) /\ SessionsOK /\ tx[t].req \in Request
      BY <2>1, <2>4, SessionFields DEF TxInv, GuardedOK, Busy
    <3>2. PaymentGuarded(t) => PaymentGuarded(t)'
      BY <2>1 DEF PaymentGuarded, Holds, vars
    <3>3. \A u \in Tx \ {t} :
             (Busy(u) /\ tx[u].req.op \in Creating)' /\ tx[t].req.op \in Creating
                => tx'[u].req.o # tx[t].req.o
      BY <2>1, <3>1 DEF Guarded, OrderNamed, Busy
    <3>4. QED
      BY <2>1, <3>1, <3>2, <3>3, GuardKept DEF vars
  <2>5. QED
    BY <2>2, <2>3, <2>4 DEF TxInv, GuardedOK
<1>2. ASSUME NEW t \in Tx, NEW r \in Request, Begin(t, r) PROVE TxInv'
  BY <1>2, BeginStep
<1>3. ASSUME NEW t \in Tx, Step(t) PROVE TxInv'
  BY <1>3, LockOrderStep, LockStockStep, FinalFlushStep, InsertPaymentStep, FlushPaymentStep, CommitStep
  DEF Step
<1>4. ASSUME NEW t \in Tx, Abort(t) PROVE TxInv'
  BY <1>4, RollbackStep DEF Abort
<1>5. QED
  BY <1>1, <1>2, <1>3, <1>4 DEF TxNext

\* The invariant holds while no request has arrived.
LEMMA TxStart == TxInit => TxInv
<1> SUFFICES ASSUME TxInit PROVE TxInv
  OBVIOUS
<1>1. StockInv /\ Init /\ tx = [t \in Tx |-> Idle]
  BY StockInit DEF TxInit
<1>2. LedgerMatchesPayments
  BY <1>1 DEF Init, LedgerMatchesPayments, PaymentStatus
<1>3. ShipmentsFollow
  BY <1>1 DEF Init, ShipmentsFollow, NoShipment
<1>4. LastIsStatus /\ \A o \in Order : Links(o) = {}
  BY <1>1 DEF Init, LastIsStatus, Links
<1>5. RowInv
  BY <1>1, <1>2, <1>3, <1>4 DEF RowInv, StockInv, StockSound, StockExact, OnlyPaymentIsStale
<1>6. SessionsOK /\ \A t \in Tx : tx[t] = Idle
  BY <1>1 DEF SessionsOK
<1>7. LocksExclusive /\ GuardedOK
  BY <1>6 DEF Idle, LocksExclusive, Holds, GuardedOK, Busy
<1>8. QED
  BY <1>5, <1>6, <1>7 DEF TxInv

\* The invariant holds in every reachable state of every interleaving.
THEOREM TxInvariant == TxSpec => []TxInv
<1>1. QED
  BY TxStart, TxStep, PTL DEF TxSpec

\* A session runs one request, at a place of that request, with locks on rows that exist.
THEOREM SessionsTyped == TxSpec => []TxTypeOK
<1>1. TxInv => TxTypeOK
  BY DEF TxInv, SessionsOK, TxTypeOK, Session, Place
<1>2. QED
  BY <1>1, TxInvariant, PTL

\* An order is sold once, however many payments of it run at the same time: the second
\* sale is refused by uq_sales_order_kind and its payment is rolled back with it.
THEOREM OrdersSoldOnce == TxSpec => []SoldOnce
<1>1. TxInv => SoldOnce
  BY DEF TxInv, RowInv, LedgerMatchesPayments, SoldOnce
<1>2. QED
  BY <1>1, TxInvariant, PTL

\* No interleaving reserves more than is on hand (the CHECK constraints of inventory.py):
\* every request checks each inventory row under its lock.  The units of an order that a
\* payment revived are not among the reserved ones.
THEOREM TxNeverOversold == TxSpec => []NoOversell
<1>1. TxInv => NoOversell
  BY DEF TxInv, RowInv
<1>2. QED
  BY <1>1, TxInvariant, PTL

\* Of all status changes only a payment can act on a status that is out of date, and the
\* only change it can have missed is a cancellation.
THEOREM OnlyPaymentsAreStale == TxSpec => []OnlyPaymentIsStale
<1>1. TxInv => OnlyPaymentIsStale
  BY DEF TxInv, RowInv
<1>2. QED
  BY <1>1, TxInvariant, PTL

\* Until a payment revives a cancelled order, reservations, units and ledger are exact
\* under every interleaving.
THEOREM StockExactUnlessRevived == TxSpec => []ExactUnlessRevived
<1>1. TxInv => ExactUnlessRevived
  BY DEF TxInv, RowInv, ExactUnlessRevived, NothingStale, StockExact
<1>2. QED
  BY <1>1, TxInvariant, PTL

-----------------------------------------------------------------------------
(***************************************************************************)
(* The refinement.  Without payments that act on an old status and edits   *)
(* that write an old column back, every commit is a request of OrderFlow.  *)
(***************************************************************************)

\* mark_shipped decides on the tracking number it read under the order's lock: nobody
\* has changed the shipment since.
SawCurrent ==
    \A t \in Tx :
        Busy(t) /\ tx[t].req.op = "ship" /\ tx[t].at # "lock_order"
            => tx[t].saw = shipment[tx[t].req.o]

\* The step of a session other than a commit keeps what the dispatches saw.
LEMMA SawStands ==
    ASSUME TxInv, SawCurrent, UNCHANGED vars, NEW t \in Tx, Step(t) \/ Abort(t)
    PROVE  SawCurrent'
<1>1. SessionsOK /\ DOMAIN tx = Tx
  BY DEF TxInv, SessionsOK
<1>2. ASSUME NEW u \in Tx, tx'[u] = tx[u], Busy(u)', tx'[u].req.op = "ship", tx'[u].at # "lock_order"
      PROVE  tx'[u].saw = shipment'[tx'[u].req.o]
  BY <1>2 DEF SawCurrent, Busy, vars
<1>3. SUFFICES ASSUME \A u \in Tx : u # t => tx'[u] = tx[u],
                      Busy(t)', tx'[t].req.op = "ship", tx'[t].at # "lock_order"
               PROVE  tx'[t].saw = shipment'[tx'[t].req.o]
  <2>1. \A u \in Tx : u # t => tx'[u] = tx[u]
    BY <1>1 DEF Step, Abort, LockOrder, LockStock, FinalFlush, InsertPayment, FlushPayment,
                Commit, Rollback, Hold
  <2>2. QED
    BY <1>2, <2>1 DEF SawCurrent
<1>4. ASSUME Rollback(t) PROVE FALSE
  BY <1>1, <1>3, <1>4, RollbackIdles DEF Busy, Idle
<1>5. ASSUME NEW row \in Row, NEW mode \in Mode, NEW place \in Place, Busy(t),
             Hold(t, row, mode, place), tx[t].at # "lock_order"
      PROVE  tx'[t].saw = shipment'[tx'[t].req.o]
  <2>1. tx'[t].req = tx[t].req /\ tx'[t].saw = tx[t].saw
    BY <1>1, <1>5, HoldMoves DEF Moved
  <2>2. QED
    BY <1>3, <1>5, <2>1 DEF SawCurrent, vars
<1>6. ASSUME LockOrder(t) PROVE tx'[t].saw = shipment'[tx'[t].req.o]
  <2>1. Busy(t) /\ tx[t] \in Session /\ UNCHANGED vars
    BY <1>1, <1>6, SessionFields DEF LockOrder, Busy
  <2>2. PassesOrderChecks(tx[t].req)
    BY <1>4, <1>6 DEF LockOrder
  <2> DEFINE held == tx[t].held \cup {<<<<"order", tx[t].req.o>>, "update">>}
  <2>3. tx' = [tx EXCEPT ![t] = [[[tx[t] EXCEPT !.held = held] EXCEPT !.at = "stock"]
                                     EXCEPT !.saw = shipment[tx[t].req.o]]]
    BY <1>1, <1>6, <2>2 DEF LockOrder
  <2>4. tx'[t] = [req |-> tx[t].req, at |-> "stock", held |-> held, saw |-> shipment[tx[t].req.o]]
    <3>1. [[[tx[t] EXCEPT !.held = held] EXCEPT !.at = "stock"] EXCEPT !.saw = shipment[tx[t].req.o]]
             = [req |-> tx[t].req, at |-> "stock", held |-> held, saw |-> shipment[tx[t].req.o]]
      BY <2>1, ThreeFields
    <3>2. QED
      BY <1>1, <2>3, <3>1
  <2>5. QED
    BY <2>1, <2>4 DEF vars
<1>7. ASSUME NEW p \in Product, LockStock(t, p) PROVE tx'[t].saw = shipment'[tx'[t].req.o]
  <2>1. Hold(t, StockRow(p), "update", "stock") /\ Busy(t) /\ tx[t].at = "stock"
    BY <1>4, <1>7 DEF LockStock, StockRow, Busy
  <2>2. StockRow(p) \in Row /\ "update" \in Mode /\ "stock" \in Place
    BY DEF StockRow, Row, Mode, Place
  <2>3. QED
    BY <1>5, <2>1, <2>2
<1>8. ASSUME FinalFlush(t) PROVE tx'[t].saw = shipment'[tx'[t].req.o]
  <2>1. Busy(t) /\ tx[t].at = "stock" /\ tx[t] \in Session /\ tx[t].req \in Request
    BY <1>1, <1>8, SessionFields DEF FinalFlush, Busy
  <2>2. CASE UpdatesShipment(tx[t].req)
    <3>1. tx[t].req.o \in Order
      BY <2>1, <2>2, RequestFields DEF UpdatesShipment, IsReversal, StockOps
    <3>2. /\ <<"shipment", tx[t].req.o>> \in Row /\ "no_key_update" \in Mode /\ "commit" \in Place
          /\ Hold(t, <<"shipment", tx[t].req.o>>, "no_key_update", "commit")
      BY <1>8, <2>2, <3>1 DEF FinalFlush, Row, Mode, Place
    <3>3. QED
      BY <1>5, <2>1, <3>2
  <2>3. CASE ~UpdatesShipment(tx[t].req)
    <3>1. tx' = [tx EXCEPT ![t] = [tx[t] EXCEPT !.at = "commit"]]
      BY <1>8, <2>3 DEF FinalFlush
    <3>2. [tx[t] EXCEPT !.at = "commit"]
             = [req |-> tx[t].req, at |-> "commit", held |-> tx[t].held, saw |-> tx[t].saw]
      BY <2>1 DEF Session
    <3>3. tx'[t].req = tx[t].req /\ tx'[t].saw = tx[t].saw
      BY <1>1, <3>1, <3>2
    <3>4. QED
      BY <1>3, <2>1, <3>3 DEF SawCurrent, vars
  <2>4. QED
    BY <2>2, <2>3
<1>9. ASSUME InsertPayment(t) \/ FlushPayment(t) PROVE FALSE
  <2>1. Busy(t) /\ tx[t].at \in {"insert_payment", "flush_payment"} /\ Guarded(t)
    BY <1>9 DEF InsertPayment, FlushPayment, Busy, TxInv, GuardedOK
  <2>2. tx[t].req.op = "pay" /\ tx[t].req \in Request
    BY <1>1, <2>1, SessionFields DEF Guarded, PlacesOf
  <2>3. PICK row \in Row, mode \in Mode, place \in Place : Hold(t, row, mode, place)
    <3>1. tx[t].req.o \in Order
      BY <2>2, RequestFields DEF StockOps
    <3>2. <<"order", tx[t].req.o>> \in Row /\ {"key_share", "no_key_update"} \subseteq Mode
          /\ {"flush_payment", "commit"} \subseteq Place
      BY <3>1 DEF Row, Mode, Place
    <3>3. QED
      BY <1>4, <1>9, <3>2 DEF InsertPayment, FlushPayment
  <2>4. tx'[t].req = tx[t].req
    BY <1>1, <2>1, <2>3, HoldMoves DEF Moved
  <2>5. QED
    BY <1>3, <2>2, <2>4
<1>10. QED
  BY <1>4, <1>6, <1>7, <1>8, <1>9 DEF Step, Abort, Commit

\* A commit of another session cannot touch the shipment of an order locked for update,
\* when no request writes shipments or orders without that lock.
LEMMA SawStep ==
    ASSUME Ops \cap {"pay", "update_shipment"} = {},
           TxInv, SawCurrent, [TxNext]_txVars
    PROVE  SawCurrent'
<1>1. SessionsOK /\ DOMAIN tx = Tx /\ TypeOK
  BY DEF TxInv, SessionsOK, RowInv
<1>2. ASSUME NEW t \in Tx, NEW r \in Request, Begin(t, r) PROVE SawCurrent'
  <2>1. /\ tx'[t].req = r /\ tx'[t].at = FirstStep(r) /\ UNCHANGED vars
        /\ \A u \in Tx : u # t => tx'[u] = tx[u]
    BY <1>1, <1>2 DEF Begin
  <2>2. r.op = "ship" => FirstStep(r) = "lock_order"
    BY DEF FirstStep, Creating, StockOps
  <2>3. QED
    BY <2>1, <2>2 DEF SawCurrent, Busy, vars
<1>3. ASSUME NEW c \in Tx, Commit(c) PROVE SawCurrent'
  <2>1. /\ tx[c].at = "commit" /\ Writes(tx[c].req, tx[c].saw) /\ Rollback(c)
        /\ Busy(c) /\ Guarded(c) /\ tx[c].req \in Request /\ tx[c].saw \in Shipment
    BY <1>3, CommitGranted DEF Commit
  <2>2. tx'[c] = Idle /\ \A u \in Tx : u # c => tx'[u] = tx[u]
    BY <1>1, <2>1, RollbackIdles
  <2>3. SUFFICES ASSUME NEW t \in Tx, t # c, Busy(t), tx[t].req.op = "ship", tx[t].at # "lock_order"
                 PROVE  shipment'[tx[t].req.o] = shipment[tx[t].req.o]
    BY <2>2 DEF SawCurrent, Busy, Idle
  <2>4. /\ tx[t].req \in Request /\ Guarded(t) /\ LocksExclusive
        /\ Holds(t, OrderRow(tx[t].req.o), "update")
    BY <1>1, <2>3, SessionFields DEF TxInv, GuardedOK, Guarded, OrderGuarded, OrderLocking
  <2>5. tx[t].req.o \in Order
    BY <2>3, <2>4, RequestFields DEF StockOps
  <2>6. tx[c].req.op \notin StockOps => tx[c].req.o # tx[t].req.o
    <3>1. SUFFICES ASSUME tx[c].req.op \notin StockOps, tx[c].req.o = tx[t].req.o PROVE FALSE
      OBVIOUS
    <3>2. tx[c].req.op \notin Creating
      BY <2>1, <2>3, <2>4, <3>1 DEF Guarded, OrderNamed, Creating, StockOps
    <3>3. tx[c].req.op \in OrderLocking
      <4>1. tx[c].req.op \in Ops
        BY <2>1 DEF Request
      <4>2. QED
        BY <2>1, <3>1, <3>2, <4>1, RequestFields DEF AllOps, OrderLocking, Creating, StockOps
    <3>4. Holds(c, OrderRow(tx[t].req.o), "update")
      BY <2>1, <3>1, <3>3 DEF Guarded, OrderGuarded
    <3>5. OrderRow(tx[t].req.o) \in Row /\ "update" \in Mode
      BY <2>5 DEF OrderRow, Row, Mode
    <3>6. QED
      BY <2>3, <2>4, <3>4, <3>5, Conflicts DEF LocksExclusive
  <2>7. SameOrder(tx[t].req.o)
    BY <1>1, <2>1, <2>5, <2>6, OthersKept
  <2>8. QED
    BY <2>7 DEF SameOrder
<1>4. ASSUME NEW t \in Tx, Step(t) \/ Abort(t), ~Commit(t) PROVE SawCurrent'
  <2>1. UNCHANGED vars
    BY <1>4 DEF Step, Abort, LockOrder, LockStock, FinalFlush, InsertPayment, FlushPayment
  <2>2. QED
    BY <1>4, <2>1, SawStands
<1>5. CASE UNCHANGED txVars
  BY <1>5 DEF txVars, vars, SawCurrent, Busy
<1>6. QED
  BY <1>2, <1>3, <1>4, <1>5 DEF TxNext

\* A commit is the request of OrderFlow executed alone at that moment, checks included.
LEMMA CommitIsRequest ==
    ASSUME Ops \cap {"pay", "update_shipment"} = {}, TxInv, SawCurrent, NEW t \in Tx, Commit(t)
    PROVE  Next
<1> DEFINE r == tx[t].req
           saw == tx[t].saw
<1>1. /\ Writes(r, saw) /\ Granted(r) /\ r \in Request /\ r.op \in Ops
      /\ TypeOK /\ NoOversell /\ Busy(t) /\ tx[t].at = "commit"
  BY CommitGranted DEF Commit, TxInv, RowInv, Request
<1>2. r.op \notin StockOps => r.o \in Order
  BY <1>1, RequestFields
<1>3. CASE r.op \in Creating
  <2>1. /\ r.o \in Order /\ r.cart \in Cart /\ status[r.o] = "none"
        /\ \A p \in Product : Available(p, r.cart[p])
    BY <1>1, <1>2, <1>3, RequestFields, CartAvailable DEF Granted, Creating, StockOps
  <2>2. CASE r.op = "create"
    BY <1>1, <2>1, <2>2 DEF Writes, CreateOrder, Next
  <2>3. CASE r.op = "checkout"
    BY <1>1, <2>1, <2>3, RequestFields DEF Writes, Checkout, Next
  <2>4. QED
    BY <1>3, <2>2, <2>3 DEF Creating
<1>4. CASE r.op = "cancel"
  <2>1. status[r.o] = "pending" /\ r.o \in Order
    BY <1>1, <1>2, <1>4 DEF Granted, OrderLocking, PassesOrderChecks, StockOps
  <2>2. "cancelled" \in AllowedTransitions(status[r.o])
    BY <2>1 DEF AllowedTransitions
  <2>3. QED
    BY <1>1, <1>4, <2>1, <2>2 DEF Writes, Cancel, Next
<1>5. CASE r.op = "status"
  <2>1. r.new \in AllowedTransitions(status[r.o]) /\ r.o \in Order /\ r.new \in OrderStatus
    BY <1>1, <1>2, <1>5, RequestFields DEF Granted, OrderLocking, PassesOrderChecks, StockOps
  <2>2. QED
    BY <1>1, <1>5, <2>1 DEF Writes, TransitionStatus, Next
<1>6. CASE r.op = "create_shipment"
  <2>1. /\ status[r.o] \in {"paid", "preparing"} /\ shipment[r.o].status = "none"
        /\ r.o \in Order /\ r.tracked \in BOOLEAN
    BY <1>1, <1>2, <1>6, RequestFields
    DEF Granted, OrderLocking, PassesOrderChecks, PassesShipmentChecks, StockOps
  <2>2. QED
    BY <1>1, <1>6, <2>1 DEF Writes, CreateShipment, Next
<1>7. CASE r.op = "ship"
  <2>1. shipment[r.o].status = "preparing" /\ status[r.o] = "preparing" /\ r.o \in Order
    BY <1>1, <1>2, <1>7 DEF Granted, OrderLocking, PassesOrderChecks, PassesShipmentChecks, StockOps
  <2>2. saw = shipment[r.o] /\ shipment[r.o].tracked \in BOOLEAN
    BY <1>1, <1>7, <2>1 DEF SawCurrent, TypeOK, Shipment
  <2>3. Tracked(r.o, saw.tracked, TRUE) = TRUE
    BY <2>2, Zenon DEF Tracked
  <2>4. WriteDispatch(r.o, TRUE)
    BY <1>1, <1>7, <2>3 DEF Writes
  <2>5. QED
    BY <2>1, <2>4 DEF MarkShipped, Next
<1>8. CASE r.op = "deliver"
  <2>1. shipment[r.o].status = "in_transit" /\ r.o \in Order
    BY <1>1, <1>2, <1>8 DEF Granted, OrderLocking, PassesOrderChecks, PassesShipmentChecks, StockOps
  <2>2. QED
    BY <1>1, <1>8, <2>1 DEF Writes, MarkDelivered, Next
<1>9. CASE r.op \in StockOps
  <2>1. r.p \in Product /\ PassesStockChecks(r, r.p)
    BY <1>1, <1>9, RequestFields, StockRowsOf DEF Granted
  <2>2. onHand[r.p] \in Nat /\ reserved[r.p] \in Nat
    BY <1>1, <2>1 DEF TypeOK
  <2>3. CASE r.op = "adjust"
    <3>1. /\ r.delta \in -MaxStock..MaxStock
          /\ onHand[r.p] + r.delta \in reserved[r.p]..MaxStock
          /\ WriteStock(r.p, onHand[r.p] + r.delta)
      BY <1>1, <2>1, <2>3, RequestFields DEF PassesStockChecks, Creating, Writes
    <3>2. r.delta \in Int
      BY <3>1, OrderFlowAssumption
    <3>3. AdjustStock(r.p, r.delta)
      BY <2>2, <3>1, <3>2, OrderFlowAssumption DEF AdjustStock
    <3>4. QED
      BY <2>1, <3>1, <3>3 DEF Next
  <2>4. CASE r.op = "set_levels"
    <3>1. /\ r.level \in 0..MaxStock /\ r.level >= reserved[r.p]
          /\ WriteStock(r.p, r.level)
      BY <1>1, <2>1, <2>4, RequestFields DEF PassesStockChecks, Creating, Writes
    <3>2. QED
      BY <2>1, <3>1 DEF SetLevels, Next
  <2>5. QED
    BY <1>9, <2>3, <2>4 DEF StockOps
<1>10. QED
  BY <1>1, <1>3, <1>4, <1>5, <1>6, <1>7, <1>8, <1>9, RequestFields DEF AllOps, Creating, StockOps

\* Every other step leaves the rows as they are.
LEMMA StepIsRequest ==
    ASSUME Ops \cap {"pay", "update_shipment"} = {}, TxInv, SawCurrent, [TxNext]_txVars
    PROVE  [Next]_vars
<1>1. CASE UNCHANGED txVars
  BY <1>1 DEF txVars
<1>2. ASSUME NEW t \in Tx, NEW r \in Request, Begin(t, r) PROVE UNCHANGED vars
  BY <1>2 DEF Begin
<1>3. ASSUME NEW t \in Tx, Step(t) \/ Abort(t), ~Commit(t) PROVE UNCHANGED vars
  BY <1>3 DEF Step, Abort, LockOrder, LockStock, FinalFlush, InsertPayment, FlushPayment
<1>4. ASSUME NEW t \in Tx, Commit(t) PROVE Next
  BY <1>4, CommitIsRequest
<1>5. QED
  BY <1>1, <1>2, <1>3, <1>4 DEF TxNext

\* Concurrent creations, checkouts, cancellations, status changes, shipments, dispatches,
\* deliveries and stock changes have the effect of the same requests executed one after
\* the other.  The endpoints left out are the two whose races are findings.
THEOREM SerialWithoutPayments ==
    ASSUME Ops \cap {"pay", "update_shipment"} = {}
    PROVE  TxSpec => Serial
<1>1. TxInit => Init /\ SawCurrent
  BY DEF TxInit, SawCurrent, Busy, Idle
<1>2. TxInv /\ SawCurrent /\ [TxNext]_txVars => SawCurrent'
  BY SawStep
<1>3. TxInv /\ SawCurrent /\ [TxNext]_txVars => [Next]_vars
  BY StepIsRequest
<1>4. QED
  BY <1>1, <1>2, <1>3, TxInvariant, PTL DEF TxSpec, Serial, Spec
=============================================================================

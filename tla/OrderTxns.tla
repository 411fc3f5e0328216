------------------------------ MODULE OrderTxns ------------------------------
(***************************************************************************)
(* The requests of OrderFlow as PostgreSQL transactions that run           *)
(* concurrently at READ COMMITTED.                                         *)
(*                                                                         *)
(* The variables of OrderFlow are the committed rows.  A request is a      *)
(* transaction tx[t] that takes the row locks its service takes, in the    *)
(* order it takes them, makes its checks where the code makes them, and    *)
(* publishes all its writes when get_db commits.  A row a transaction      *)
(* writes is locked from its read or its flush until the end, so the       *)
(* value it computes at the commit is the one it flushed; the values that  *)
(* are read WITHOUT a lock are kept in tx[t].saw.                          *)
(***************************************************************************)
EXTENDS OrderFlow

CONSTANTS
    Tx,      \* concurrent requests: database sessions, reused one request after another
    Ops      \* the endpoints clients call in this instance

AllOps == {"create", "checkout", "pay", "cancel", "status", "create_shipment",
           "update_shipment", "ship", "deliver", "adjust", "set_levels"}

ASSUME OrderTxnsAssumption == IsFiniteSet(Tx) /\ Ops \subseteq AllOps

VARIABLE tx    \* the request of each session: where it is, the locks it holds, what it saw

txVars == <<vars, tx>>

(***************************************************************************)
(* Requests, and the locks of PostgreSQL on rows: FOR KEY SHARE is taken   *)
(* on an order by the foreign key of an inserted payment, FOR NO KEY       *)
(* UPDATE by an UPDATE, and FOR UPDATE by with_for_update().               *)
(***************************************************************************)
OrderRequest ==
    [op: {"create"}, o: Order, cart: Cart]
    \cup [op: {"checkout"}, o: Order, cart: Cart, outcome: GatewayOutcome]
    \cup [op: {"status"}, o: Order, new: OrderStatus]
    \cup [op: {"cancel"}, o: Order]

PaymentRequest == [op: {"pay"}, o: Order, outcome: GatewayOutcome]

ShipmentRequest ==
    [op: {"create_shipment", "update_shipment"}, o: Order, tracked: BOOLEAN]
    \cup [op: {"ship", "deliver"}, o: Order]

StockRequest ==
    [op: {"adjust"}, p: Product, delta: -MaxStock..MaxStock]
    \cup [op: {"set_levels"}, p: Product, level: 0..MaxStock]

Request ==
    {r \in OrderRequest \cup PaymentRequest \cup ShipmentRequest \cup StockRequest : r.op \in Ops}

Creating == {"create", "checkout"}
StockOps == {"adjust", "set_levels"}

Row == ({"order", "shipment"} \X Order) \cup ({"inventory"} \X Product)
Mode == {"key_share", "no_key_update", "update"}
Conflict(m1, m2) == "update" \in {m1, m2} \/ {m1, m2} = {"no_key_update"}

Idle == [at |-> "idle", held |-> {}]
Busy(t) == tx[t].at # "idle"

Holders(row, mode) == {u \in Tx : \E m \in Mode : <<row, m>> \in tx[u].held /\ Conflict(m, mode)}
Grantable(t, row, mode) == Holders(row, mode) \subseteq {t}

\* Mutant of Rollback: a session that is done keeps its row locks.
RollbackKeepsLocks(t) == tx' = [tx EXCEPT ![t] = [Idle EXCEPT !.held = tx[t].held]]

Rollback(t) == tx' = [tx EXCEPT ![t] = Idle]

Lines(quantities) == {p \in Product : quantities[p] > 0}

\* transition_status to cancelled or refunded: stock, ledger and shipment are undone.
IsReversal(r) == r.op = "cancel" \/ (r.op = "status" /\ r.new \in Reversing)

\* The inventory rows the request locks one by one: a loop over its lines or items.
StockRows(r) ==
    CASE r.op \in Creating -> Lines(r.cart)
      [] r.op = "ship" \/ IsReversal(r) -> Lines(items[r.o])
      [] r.op \in StockOps -> {r.p}
      [] OTHER -> {}

StockLeft(t) ==
    {p \in StockRows(tx[t].req) : <<<<"inventory", p>>, "update">> \notin tx[t].held}

-----------------------------------------------------------------------------
(***************************************************************************)
(* The checks a request makes, on what it reads at that moment.            *)
(***************************************************************************)

\* What is read before any lock: the row named in the URL or the body must exist,
\* create_payment wants a pending order and update_shipment an editable shipment.
PassesUnlockedChecks(r) ==
    CASE r.op \in Creating -> status[r.o] = "none"
      [] r.op = "pay" -> status[r.o] = "pending"
      [] r.op = "update_shipment" -> shipment[r.o].status \in Undispatched
      [] r.op \in {"ship", "deliver"} -> shipment[r.o].status # "none"
      [] r.op \in StockOps -> TRUE
      [] OTHER -> status[r.o] # "none"

\* What ShipmentService reads under the order's FOR UPDATE lock.
PassesShipmentChecks(r) ==
    CASE r.op = "create_shipment" ->
            status[r.o] \in {"paid", "preparing"} /\ shipment[r.o].status = "none"
      [] r.op = "ship" -> shipment[r.o].status = "preparing" /\ status[r.o] = "preparing"
      [] r.op = "deliver" -> shipment[r.o].status = "in_transit"

\* What is read under the order's FOR UPDATE lock.
PassesOrderChecks(r) ==
    CASE r.op = "cancel" -> status[r.o] = "pending"
      [] r.op = "status" -> r.new \in AllowedTransitions(status[r.o])
      [] OTHER -> PassesShipmentChecks(r)

\* What is read under the FOR UPDATE lock of the inventory row of p.
PassesStockChecks(r, p) ==
    CASE r.op \in Creating -> Available(p, r.cart[p])
      [] r.op = "adjust" -> onHand[p] + r.delta \in reserved[p]..MaxStock
      [] r.op = "set_levels" -> r.level >= reserved[p]
      [] OTHER -> TRUE

\* The first lock a request waits for.
FirstStep(r) ==
    CASE r.op \in Creating \cup StockOps \cup {"update_shipment"} -> "stock"
      [] r.op = "pay" -> "insert_payment"
      [] OTHER -> "lock_order"

\* Does the final flush of the request UPDATE the shipment's row?
UpdatesShipment(r) ==
    \/ r.op \in {"ship", "deliver", "update_shipment"}
    \/ IsReversal(r) /\ shipment[r.o].status \in Undispatched

-----------------------------------------------------------------------------
(***************************************************************************)
(* The steps of a transaction.                                             *)
(***************************************************************************)

\* The request arrives and makes its unlocked reads.  An order about to be created has
\* a fresh identity; orders and shipments are named by an existing row.
Begin(t, r) ==
    /\ ~Busy(t)
    /\ PassesUnlockedChecks(r)
    /\ r.op \in Creating =>
          \A u \in Tx : Busy(u) /\ tx[u].req.op \in Creating => tx[u].req.o # r.o
    /\ r.op \in {"pay", "checkout"} => payments[r.o][r.outcome] < MaxPayments
    /\ tx' = [tx EXCEPT ![t] =
          [req |-> r, at |-> FirstStep(r), held |-> {},
           saw |-> IF r.op \in StockOps THEN NoShipment ELSE shipment[r.o]]]
    /\ UNCHANGED vars

\* The next step of t holds one more row.
Hold(t, row, mode, next) ==
    tx' = [tx EXCEPT ![t].held = @ \cup {<<row, mode>>}, ![t].at = next]

\* Mutant of LockOrder: get_with_items without for_update.
ReadOrder(t) ==
    /\ tx[t].at = "lock_order"
    /\ IF PassesOrderChecks(tx[t].req)
       THEN tx' = [tx EXCEPT ![t].at = "stock", ![t].saw = shipment[tx[t].req.o]]
       ELSE Rollback(t)
    /\ UNCHANGED vars

\* OrderRepository.get_with_items(for_update=True), and the checks that follow;
\* mark_shipped and mark_delivered re-read the shipment here.
LockOrder(t) ==
    LET r == tx[t].req
        row == <<"order", r.o>> IN
    /\ tx[t].at = "lock_order"
    /\ Grantable(t, row, "update")
    /\ IF PassesOrderChecks(r)
       THEN tx' = [tx EXCEPT ![t].held = @ \cup {<<row, "update">>},
                             ![t].at = "stock",
                             ![t].saw = shipment[r.o]]
       ELSE Rollback(t)
    /\ UNCHANGED vars

\* Mutant of LockStock: get_by_product_id_locked without with_for_update.
ReadStock(t, p) ==
    LET row == <<"inventory", p>> IN
    /\ tx[t].at = "stock"
    /\ p \in StockLeft(t)
    /\ IF PassesStockChecks(tx[t].req, p) THEN Hold(t, row, "update", "stock") ELSE Rollback(t)
    /\ UNCHANGED vars

\* InventoryRepository.get_by_product_id_locked for one of the rows left.
LockStock(t, p) ==
    LET row == <<"inventory", p>> IN
    /\ tx[t].at = "stock"
    /\ p \in StockLeft(t)
    /\ Grantable(t, row, "update")
    /\ IF PassesStockChecks(tx[t].req, p) THEN Hold(t, row, "update", "stock") ELSE Rollback(t)
    /\ UNCHANGED vars

\* All stock rows are locked: the final flush, which waits for the shipment's row if it
\* UPDATEs it.
FinalFlush(t) ==
    LET row == <<"shipment", tx[t].req.o>> IN
    /\ tx[t].at = "stock"
    /\ StockLeft(t) = {}
    /\ IF UpdatesShipment(tx[t].req)
       THEN Grantable(t, row, "no_key_update") /\ Hold(t, row, "no_key_update", "commit")
       ELSE tx' = [tx EXCEPT ![t].at = "commit"]
    /\ UNCHANGED vars

\* create_payment inserts the payment (its foreign key shares the order's key) and charges.
InsertPayment(t) ==
    LET r == tx[t].req
        row == <<"order", r.o>> IN
    /\ tx[t].at = "insert_payment"
    /\ Grantable(t, row, "key_share")
    /\ Hold(t, row, "key_share", IF r.outcome = "completed" THEN "flush_payment" ELSE "commit")
    /\ UNCHANGED vars

\* Mutant of FlushPayment: sales without uq_sales_order_kind.
FlushPaymentTwice(t) ==
    LET row == <<"order", tx[t].req.o>> IN
    /\ tx[t].at = "flush_payment"
    /\ Grantable(t, row, "no_key_update")
    /\ Hold(t, row, "no_key_update", "commit")
    /\ UNCHANGED vars

\* Its final flush UPDATEs the order and INSERTs the sale: uq_sales_order_kind refuses
\* a second one.  Nothing looks at the order's status again.
FlushPayment(t) ==
    LET row == <<"order", tx[t].req.o>> IN
    /\ tx[t].at = "flush_payment"
    /\ Grantable(t, row, "no_key_update")
    /\ IF "sale" \in ledger[tx[t].req.o]
       THEN Rollback(t)
       ELSE Hold(t, row, "no_key_update", "commit")
    /\ UNCHANGED vars

\* A column keeps its committed value unless the request changed what it saw in it.
Tracked(o, saw, new) == IF new = saw THEN shipment[o].tracked ELSE new

Writes(r, saw) ==
    \/ r.op = "create" /\ WriteOrder(r.o, r.cart)
    \/ r.op = "checkout" /\ WriteCheckout(r.o, r.cart, r.outcome)
    \/ r.op = "pay" /\ WritePayment(r.o, "pending", r.outcome)
    \/ r.op = "cancel" /\ WriteTransition(r.o, "cancelled", "customer_cancel")
    \/ r.op = "status" /\ WriteTransition(r.o, r.new, "manual")
    \/ r.op = "create_shipment" /\ WriteShipment(r.o, r.tracked)
    \/ r.op = "update_shipment" /\ WriteEdit(r.o, Tracked(r.o, saw.tracked, r.tracked))
    \/ r.op = "ship" /\ WriteDispatch(r.o, Tracked(r.o, saw.tracked, TRUE))
    \/ r.op = "deliver" /\ WriteDelivery(r.o)
    \/ r.op = "adjust" /\ WriteStock(r.p, onHand[r.p] + r.delta)
    \/ r.op = "set_levels" /\ WriteStock(r.p, r.level)

\* get_db commits: the writes become visible and the locks are released.
Commit(t) ==
    /\ tx[t].at = "commit"
    /\ Writes(tx[t].req, tx[t].saw)
    /\ Rollback(t)

\* An exception, a lost connection or a stopped worker: get_db rolls back.
Abort(t) ==
    /\ Busy(t)
    /\ Rollback(t)
    /\ UNCHANGED vars

(***************************************************************************)
(* PostgreSQL's deadlock detector (external): a transaction whose every    *)
(* next step waits for a lock in a circle of such transactions is aborted. *)
(***************************************************************************)
WaitsFor(t) ==
    LET r == tx[t].req
        left == StockLeft(t) IN
    CASE tx[t].at = "lock_order"     -> Holders(<<"order", r.o>>, "update")
      [] tx[t].at = "insert_payment" -> Holders(<<"order", r.o>>, "key_share")
      [] tx[t].at = "flush_payment"  -> Holders(<<"order", r.o>>, "no_key_update")
      [] tx[t].at = "stock" /\ left = {} /\ UpdatesShipment(r) ->
            Holders(<<"shipment", r.o>>, "no_key_update")
      [] tx[t].at = "stock" /\ \A p \in left : ~Grantable(t, <<"inventory", p>>, "update") ->
            UNION {Holders(<<"inventory", p>>, "update") : p \in left}
      [] OTHER -> {}

InDeadlock(t) ==
    \E S \in SUBSET Tx : t \in S /\ \A u \in S : (WaitsFor(u) \ {u}) \cap S # {}

DeadlockVictim(t) == Busy(t) /\ InDeadlock(t) /\ Abort(t)

TxInit == Init /\ tx = [t \in Tx |-> Idle]

Step(t) ==
    \/ LockOrder(t)
    \/ \E p \in Product : LockStock(t, p)
    \/ FinalFlush(t)
    \/ InsertPayment(t)
    \/ FlushPayment(t)
    \/ Commit(t)

TxNext ==
    \E t \in Tx :
        \/ \E r \in Request : Begin(t, r)
        \/ Step(t)
        \/ Abort(t)

TxSpec == TxInit /\ [][TxNext]_txVars

\* A granted lock goes to the waiters in turn and a running statement ends (a step that
\* stays possible, or becomes possible again and again, is taken); the detector breaks
\* every circle.  Requests need not arrive, and no other abort needs to happen.
TxFairness == \A t \in Tx : SF_txVars(Step(t)) /\ WF_txVars(DeadlockVictim(t))
FairTxSpec == TxSpec /\ TxFairness

-----------------------------------------------------------------------------
(***************************************************************************)
(* Properties.                                                             *)
(***************************************************************************)

\* A session is idle or runs one request, at a step of that request, with locks on rows.
TxTypeOK ==
    \A t \in Tx :
        \/ tx[t] = Idle
        \/ /\ tx[t].at \in {"lock_order", "stock", "insert_payment", "flush_payment", "commit"}
           /\ tx[t].req \in Request
           /\ tx[t].held \subseteq Row \X Mode
           /\ tx[t].saw \in Shipment

\* Concurrent requests have the effect of some execution of OrderFlow: every commit is
\* one of its requests, checks included, executed alone at that moment.
Serial == Spec

\* Whatever the interleaving, an order is sold once: one completed payment for its one
\* sale (uq_sales_order_kind undoes the second of two payments that both read pending).
SoldOnce ==
    \A o \in Order :
        payments[o]["completed"] = (IF "sale" \in ledger[o] THEN 1 ELSE 0)

Links(o) == 2..Len(history[o])
Stale(o, i) == history[o][i].from # history[o][i - 1].to

\* The only status change that can act on a stale status is a payment, and the only
\* status it can miss is a cancellation: every change under the order's lock is sound.
OnlyPaymentIsStale ==
    \A o \in Order : \A i \in Links(o) :
        Stale(o, i) => history[o][i].source = "payment" /\ history[o][i - 1].to = "cancelled"

\* As long as no payment revived a cancelled order, the stock and the ledger are exact
\* under every interleaving: nothing else in the locking can lose a unit or a sale.
ExactUnlessRevived ==
    (\A o \in Order : \A i \in Links(o) : ~Stale(o, i))
        => ReservationExact /\ StockConserved /\ LedgerMatchesPayments

\* "Concurrent orders can't oversell" (README, Inventory): orders that hold or received
\* units of a product never have more of them than ever came in.
UnitsNeverOversold ==
    \A p \in Product :
        Cardinality(HeldUnits(status, items, Holding \cup Dispatched, p)) <= stocked[p]

\* "An order is never shipped without a shipment and tracking number" (OrderService).
ShippedIsTracked ==
    \A o \in Order : status[o] \in Dispatched => shipment[o].tracked

\* Every request ends, by its commit, its own refusal or a rollback: no request waits
\* for ever behind the locks of others, deadlocks between stock rows included.
RequestsEnd == \A t \in Tx : Busy(t) ~> ~Busy(t)
=============================================================================

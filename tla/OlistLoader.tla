---------------------------- MODULE OlistLoader ----------------------------
(***************************************************************************)
(* The Olist loader (app/scripts/load_olist.py) run on a database the shop *)
(* is using.  transform turns a folder of CSV files into the rows of every *)
(* accepted order; save inserts them in one transaction, ON CONFLICT DO    *)
(* NOTHING, so a load is one step between two requests of OrderFlow.  The  *)
(* same folder may be loaded again at any time, after staff and customers  *)
(* have worked on what the first load brought.                             *)
(***************************************************************************)
EXTENDS OrderFlow

CONSTANTS
    OlistOrder,     \* the orders the folder may name, by their uuid5 identity
    MaxDate,        \* bound: different timestamps in the folder
    MaxCsvPayments  \* bound: valid payment rows of one order

ASSUME OlistLoaderAssumption ==
    /\ OlistOrder \subseteq Order
    /\ MaxDate \in Nat \ {0}
    /\ MaxCsvPayments \in Nat

VARIABLES
    tables,    \* what transform makes of the folder, the same at every run
    category,  \* name of a category row: the folder's category, or staff's own
    products,  \* the category row of a product with its inventory, "none" if no row
    committed  \* a run of the loader has committed

loaderVars == <<vars, tables, category, products, committed>>

-----------------------------------------------------------------------------
(***************************************************************************)
(* transform.  A timestamp is 0 where its field is empty.  badLine: one of *)
(* the order's lines was rejected; customer: its customer was accepted.    *)
(***************************************************************************)
RawStatus == {"created", "approved", "processing", "shipped", "delivered",
              "canceled", "other"}

Date == 0..MaxDate

CsvOrder == [raw: RawStatus, customer: BOOLEAN, badLine: BOOLEAN,
             lines: Cart \cup {EmptyCart}, payments: 0..MaxCsvPayments,
             purchased: Date, approved: Date, dispatched: Date, delivered: Date]

\* Mutant of StatusOf: the dataset's status is stored as it is written.
StatusAsWritten(raw) == raw

\* _STATUS_MAP; invoiced and unavailable map as approved and canceled do.
StatusOf(raw) ==
    CASE raw = "created"    -> "pending"
      [] raw = "approved"   -> "paid"
      [] raw = "processing" -> "preparing"
      [] raw = "canceled"   -> "cancelled"
      [] OTHER              -> raw

PaidStatus == {"paid", "preparing", "shipped", "delivered"}

Rejected(csv) ==
    \/ ~csv.customer \/ csv.raw = "other" \/ csv.purchased = 0
    \/ csv.raw = "delivered" /\ csv.delivered = 0
    \/ csv.raw \in Dispatched /\ csv.dispatched = 0
    \/ csv.dispatched # 0 /\ csv.dispatched < csv.purchased
    \/ csv.delivered # 0 /\ csv.dispatched # 0 /\ csv.delivered < csv.dispatched
    \/ csv.badLine \/ csv.lines = EmptyCart
    \/ StatusOf(csv.raw) \in PaidStatus /\ csv.payments = 0

\* A cancelled order counts as paid if it was approved and has payments.
Paid(csv) ==
    \/ StatusOf(csv.raw) \in PaidStatus
    \/ csv.raw = "canceled" /\ csv.approved # 0 /\ csv.payments > 0

PaidAt(csv) == IF csv.approved # 0 THEN csv.approved ELSE csv.purchased

Last(csv) ==
    CHOOSE d \in {csv.purchased, csv.approved, csv.dispatched, csv.delivered} :
        \A e \in {csv.purchased, csv.approved, csv.dispatched, csv.delivered} : e <= d

Ledger(csv) ==
    (IF Paid(csv) THEN {"sale"} ELSE {}) \cup
    (IF Paid(csv) /\ csv.raw = "canceled" THEN {"reversal"} ELSE {})

\* Olist has no tracking numbers.
ShipmentOf(csv) ==
    CASE csv.raw = "shipped"   -> [status |-> "in_transit", tracked |-> FALSE]
      [] csv.raw = "delivered" -> [status |-> "delivered", tracked |-> FALSE]
      [] OTHER                 -> NoShipment

When(condition, step) == IF condition THEN <<step>> ELSE <<>>
At(from, to, source, date) == [change |-> Entry(from, to, source), date |-> date]

\* The steps the services would have recorded for the order.
Steps(csv) ==
    <<At("none", "pending", "order_created", csv.purchased)>>
    \o When(Paid(csv), At("pending", "paid", "payment", PaidAt(csv)))
    \o When(csv.raw = "processing", At("paid", "preparing", "manual", PaidAt(csv)))
    \o When(csv.raw \in Dispatched, At("paid", "preparing", "shipment_created", csv.dispatched))
    \o When(csv.raw \in Dispatched, At("preparing", "shipped", "shipment_dispatched", csv.dispatched))
    \o When(csv.raw = "delivered", At("shipped", "delivered", "shipment_delivered", csv.delivered))
    \o When(csv.raw = "canceled",
            At(IF Paid(csv) THEN "paid" ELSE "pending", "cancelled", "manual", Last(csv)))

\* Mutant of CreatedAt: later steps of one timestamp are not moved on.
CreatedAtReversed(steps, n) == 10 * steps[n].date - n

\* created_at of step n: its timestamp and n microseconds.
CreatedAt(steps, n) == 10 * steps[n].date + n

\* How many steps are read up to step n.
Rank(steps, n) ==
    Cardinality({m \in 1..Len(steps) : CreatedAt(steps, m) <= CreatedAt(steps, n)})

\* The history as it is read: ordered by created_at, of which no two steps share one.
HistoryOf(csv) ==
    LET steps == Steps(csv) IN
    [k \in 1..Len(steps) |->
        steps[CHOOSE n \in 1..Len(steps) : Rank(steps, n) = k].change]

\* The approval is dated before the purchase or after the dispatch: not rejected.
ApprovedAstray(csv) ==
    /\ Paid(csv)
    /\ \/ PaidAt(csv) < csv.purchased
       \/ csv.raw \in Dispatched /\ PaidAt(csv) > csv.dispatched

\* The rows of one order.  A product the order names in a valid line has a price,
\* so it is loaded even when the order is not.
Rows(csv) ==
    LET sold == {p \in Product : csv.lines[p] > 0} IN
    IF Rejected(csv)
    THEN [status |-> "none", items |-> EmptyCart, ledger |-> {}, completed |-> 0,
          shipment |-> NoShipment, history |-> <<>>, astray |-> FALSE, sold |-> sold]
    ELSE [status |-> StatusOf(csv.raw), items |-> csv.lines, ledger |-> Ledger(csv),
          completed |-> IF Paid(csv) THEN csv.payments ELSE 0,
          shipment |-> ShipmentOf(csv), history |-> HistoryOf(csv),
          astray |-> ApprovedAstray(csv), sold |-> sold]

-----------------------------------------------------------------------------
(***************************************************************************)
(* save.                                                                   *)
(***************************************************************************)
\* The rows of the orders the folder brings whose status is in S.
Loaded(o) == o \in OlistOrder /\ tables[o].status # "none"
LoadedStatus == [o \in Order |-> IF Loaded(o) THEN tables[o].status ELSE "none"]
LoadedItems == [o \in Order |-> IF Loaded(o) THEN tables[o].items ELSE EmptyCart]
LoadedUnits(S, p) == Cardinality(HeldUnits(LoadedStatus, LoadedItems, S, p))

\* Mutant of Reserving: a dispatched order still reserves its units.
NotDelivered == {"pending", "paid", "preparing", "shipped"}

Reserving == {"pending", "paid", "preparing"}

\* No stock data in Olist: on hand is what open orders reserve.
OnHandOf(p) == LoadedUnits(Reserving, p)

LoadedProducts == UNION {tables[o].sold : o \in OlistOrder}
New == {p \in LoadedProducts : products[p] = "none"}

\* Mutant of Kept: a conflicting row is replaced (ON CONFLICT DO UPDATE).
Replaced(o, old, new) == IF Loaded(o) THEN new ELSE old

\* ON CONFLICT DO NOTHING: a row whose id exists stays as it is.
Kept(o, old, new) == IF Loaded(o) /\ status[o] = "none" THEN new ELSE old

\* The category row that holds the folder's name once its row was offered.
OfferedCategory ==
    IF category["olist"] = "none" /\ category["staff"] # "named"
    THEN [category EXCEPT !["olist"] = "named"] ELSE category
NamedNow == {c \in DOMAIN category : OfferedCategory[c] = "named"}

\* _resolve_category_ids looks every name of the folder up again.
Resolved == LoadedProducts = {} \/ NamedNow # {}

\* A run that does not commit rolls back and is no step: a name of the folder has no row
\* (a KeyError); a row of another origin holds the e-mail, SKU or number of a new row,
\* which is then skipped and missed by the rows that refer to it; the script is stopped.
Load ==
    /\ Resolved
    /\ status' = [o \in Order |-> Kept(o, status[o], LoadedStatus[o])]
    /\ items' = [o \in Order |-> Kept(o, items[o], LoadedItems[o])]
    /\ ledger' = [o \in Order |-> ledger[o] \cup (IF Loaded(o) THEN tables[o].ledger ELSE {})]
    /\ payments' = [o \in Order |->
           IF Loaded(o)
           THEN [payments[o] EXCEPT !["completed"] = Kept(o, @, tables[o].completed)]
           ELSE payments[o]]
    /\ shipment' = [o \in Order |->
           IF Loaded(o) THEN Kept(o, shipment[o], tables[o].shipment) ELSE shipment[o]]
    /\ history' = [o \in Order |->
           IF Loaded(o) THEN Kept(o, history[o], tables[o].history) ELSE history[o]]
    /\ onHand' = [p \in Product |-> IF p \in New THEN OnHandOf(p) ELSE onHand[p]]
    /\ reserved' = [p \in Product |-> IF p \in New THEN LoadedUnits(Reserving, p) ELSE reserved[p]]
    /\ stocked' = [p \in Product |->
           IF p \in New THEN OnHandOf(p) + LoadedUnits(Dispatched, p) ELSE stocked[p]]
    /\ category' = IF LoadedProducts = {} THEN category ELSE OfferedCategory
    /\ products' = [p \in Product |->
           IF p \in New THEN CHOOSE c \in NamedNow : TRUE ELSE products[p]]
    /\ committed' = TRUE
    /\ UNCHANGED tables

-----------------------------------------------------------------------------
(***************************************************************************)
(* The shop.                                                               *)
(***************************************************************************)
\* Any request of OrderFlow on the rows there are: the orders it creates are its
\* own, and a product without a row has no stock to change.
Shop ==
    /\ Next
    /\ \A o \in OlistOrder : status[o] = "none" => status'[o] = "none"
    /\ \A p \in Product : products[p] = "none" => onHand'[p] = onHand[p]
    /\ UNCHANGED <<tables, category, products, committed>>

\* Staff create, rename or, when no product uses it, delete a category.
EditCategory(c, name) ==
    /\ name # category[c]
    /\ c = "olist" => category[c] # "none"
    /\ name = "named" => \A d \in DOMAIN category : category[d] # "named"
    /\ name = "none" => \A p \in Product : products[p] # c
    /\ category' = [category EXCEPT ![c] = name]
    /\ UNCHANGED <<vars, tables, products, committed>>

MoveProduct(p, c) ==
    /\ products[p] # "none"
    /\ category[c] # "none"
    /\ products' = [products EXCEPT ![p] = c]
    /\ UNCHANGED <<vars, tables, category, committed>>

\* A product no order names goes with its inventory row.
DeleteProduct(p) ==
    /\ products[p] # "none"
    /\ \A o \in Order : items[o][p] = 0
    /\ products' = [products EXCEPT ![p] = "none"]
    /\ onHand' = [onHand EXCEPT ![p] = 0]
    /\ reserved' = [reserved EXCEPT ![p] = 0]
    /\ stocked' = [stocked EXCEPT ![p] = 0]
    /\ UNCHANGED <<status, items, ledger, payments, shipment, history, tables, category, committed>>

LoaderInit ==
    /\ Init
    /\ onHand = [p \in Product |-> 0]
    /\ tables \in [OlistOrder -> {Rows(csv) : csv \in CsvOrder}]
    /\ category = [c \in {"olist", "staff"} |-> "none"]
    /\ products = [p \in Product |-> "none"]
    /\ committed = FALSE

LoaderNext ==
    \/ Load
    \/ Shop
    \/ \E c \in DOMAIN category, name \in {"named", "renamed", "none"} : EditCategory(c, name)
    \/ \E p \in Product, c \in DOMAIN category : MoveProduct(p, c)
    \/ \E p \in Product : DeleteProduct(p)

LoaderSpec == LoaderInit /\ [][LoaderNext]_loaderVars

-----------------------------------------------------------------------------
(***************************************************************************)
(* What the loader promises: "the invariants the services keep for orders  *)
(* created through the API".  ReservationExact, NoOversell and             *)
(* StockConserved of OrderFlow are checked as they are.                    *)
(***************************************************************************)
\* Every column holds a value of its type, and a product's category exists.
LoaderTypeOK ==
    /\ TypeOK
    /\ category \in [{"olist", "staff"} -> {"none", "named", "renamed"}]
    /\ products \in [Product -> {"olist", "staff", "none"}]
    /\ \A p \in Product : products[p] # "none" => category[products[p]] # "none"
    /\ committed \in BOOLEAN

\* An order has a sale exactly when a payment of it completed, an imported order by
\* one payment or several, and the reversal exactly when it was then cancelled or
\* refunded, by the folder or in the shop.
ImportedLedger ==
    \A o \in Order :
        /\ "sale" \in ledger[o] <=> payments[o]["completed"] > 0
        /\ status[o] \in PaidStatus => "sale" \in ledger[o]
        /\ status[o] \in {"none", "pending"} => ledger[o] = {}
        /\ "reversal" \in ledger[o] <=>
               "sale" \in ledger[o] /\ status[o] \in {"cancelled", "refunded"}

\* Order and shipment of an imported order move together too, whether the folder
\* or the shop dispatched it; only its tracking number may be missing.
ImportedShipments ==
    \A o \in Order :
        /\ status[o] = "shipped" <=> shipment[o].status = "in_transit"
        /\ status[o] = "delivered" <=> shipment[o].status = "delivered"
        /\ shipment[o].status = "preparing" => status[o] = "preparing"
        /\ shipment[o].status = "cancelled" => status[o] = "cancelled"

\* The history of an imported order, read by created_at, tells its life by legal
\* edges up to its present status, and the shop continues it, unless the folder
\* dates its approval before the purchase or after the dispatch.
ImportedHistory ==
    \A o \in Order :
        LET h == history[o] IN
        (o \in OlistOrder => ~tables[o].astray) =>
            /\ status[o] = (IF h = <<>> THEN "none" ELSE h[Len(h)].to)
            /\ \A i \in 1..Len(h) :
                  /\ LegalChange(h[i])
                  /\ h[i].from = (IF i = 1 THEN "none" ELSE h[i - 1].to)

\* Imported orders keep what the services keep for the orders of the shop.
ImportedOrders == ImportedLedger /\ ImportedShipments /\ ImportedHistory

\* The stock invented for imported products is exact from the first load on, and stays
\* so through everything the shop does and every later load.
ImportedStock == ReservationExact /\ NoOversell /\ StockConserved

\* What a second run may never do: whatever happened in the shop since, it leaves
\* every order and the stock of every product that is still there as they are.
ReloadKeeps ==
    [][Load /\ committed =>
          /\ UNCHANGED <<status, items, ledger, payments, shipment, history>>
          /\ \A p \in Product : products[p] # "none" =>
                UNCHANGED <<onHand[p], reserved[p], products[p]>>]_loaderVars
=============================================================================

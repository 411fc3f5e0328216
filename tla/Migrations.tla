----------------------------- MODULE Migrations -----------------------------
(***************************************************************************)
(* The Alembic migrations of the backend (backend-api/alembic), run up and *)
(* down over a database that holds orders.  A run of alembic executes the  *)
(* operations of every revision on its way one by one, in one transaction  *)
(* (env.py): an operation that cannot be done, or a stop at any moment,    *)
(* rolls the whole run back.                                               *)
(* Between runs the application of the revision the database is at writes  *)
(* rows; nothing else writes during a run.                                 *)
(***************************************************************************)
EXTENDS Integers, FiniteSets, SequencesExt

CONSTANT Order     \* identities of orders, used or not yet used

\* The revisions in the order of their down_revision links; search indexes, the
\* last, touch neither rows nor rules.
Revisions == <<"initial", "images", "awaiting", "unique", "ledger", "cancelled",
               "history", "dates", "search">>
Latest == Len(Revisions)

\* The position of a revision in the chain.
Position(name) == CHOOSE r \in 1..Latest : Revisions[r] = name

InitialTables == <<"users", "addresses", "categories", "products", "inventory", "orders",
                   "order_items", "payments", "shipments", "sales">>

\* The tables a table's foreign keys name.
References(table) ==
    CASE table = "addresses"            -> {"users"}
      [] table = "products"             -> {"categories"}
      [] table = "inventory"            -> {"products"}
      [] table = "orders"               -> {"users", "addresses"}
      [] table = "order_items"          -> {"orders", "products"}
      [] table = "payments"             -> {"orders"}
      [] table = "shipments"            -> {"orders", "addresses"}
      [] table = "sales"                -> {"orders"}
      [] table = "product_images"       -> {"products"}
      [] table = "inventory_history"    -> {"products", "users"}
      [] table = "order_status_history" -> {"orders", "users"}
      [] OTHER                          -> {}

\* The native enum types of its columns.
TypesOf(table) ==
    CASE table = "users"                -> {"user_role"}
      [] table = "orders"               -> {"order_status"}
      [] table = "payments"             -> {"payment_status"}
      [] table = "shipments"            -> {"shipment_status"}
      [] table = "inventory_history"    -> {"inventory_change_kind"}
      [] table = "order_status_history" -> {"order_status", "order_status_change_source"}
      [] OTHER                          -> {}

\* The types create_table makes: the history reuses the orders' own.
CreatedTypes(table) ==
    IF table = "order_status_history" THEN {"order_status_change_source"} ELSE TypesOf(table)

\* The tables of _UNIQUE_COLUMNS, each with one unique column.
UniqueTables == <<"categories", "inventory", "orders", "products", "sales", "shipments", "users">>

OldOrderStatus == {"pending", "awaiting_payment", "paid", "preparing", "shipped",
                   "delivered", "cancelled", "refunded"}
NewOrderStatus == OldOrderStatus \ {"awaiting_payment"}
OldShipmentStatus == {"pending", "preparing", "in_transit", "delivered", "failed", "returned"}
NewShipmentStatus == OldShipmentStatus \cup {"cancelled"}

Closed == {"cancelled", "refunded"}
NotSent == {"pending", "preparing"}
Absent == [status |-> "none", dated |-> FALSE]

VARIABLES
    db,       \* the database as the run sees it
    rev,      \* how many revisions of the chain are applied
    target,   \* where the run goes, rev when none runs
    done,     \* operations of the present revision already executed
    saved,    \* what a rollback goes back to
    stopped   \* the operation that was refused and so ended the last run, if one was

migrationVars == <<db, rev, target, done, saved, stopped>>

\* No table, no type, no rule and no row.
EmptyDb ==
    [tables |-> {}, types |-> {}, rules |-> {},
     status |-> [o \in Order |-> "none"],
     kinds |-> [o \in Order |-> {}],
     shipment |-> [o \in Order |-> Absent]]

-----------------------------------------------------------------------------
(***************************************************************************)
(* The operations of each revision, as <<operation, subject, argument>>.   *)
(* A rule is <<what enforces it, table>>: the uq_* constraint, a unique    *)
(* ix_* index, a plain ix_* index, which enforces nothing, or a check.     *)
(***************************************************************************)
\* Mutant of UniqueUp: the constraint is dropped before the unique index is built.
UniqueUpDropFirst(table) ==
    <<<<"drop_rule", "plain", table>>, <<"drop_rule", "uq", table>>, <<"add_rule", "ix", table>>>>

\* The steps for one table of 1b502c1e4011.
UniqueUp(table) ==
    <<<<"drop_rule", "plain", table>>, <<"add_rule", "ix", table>>, <<"drop_rule", "uq", table>>>>

UniqueDown(table) ==
    <<<<"add_rule", "uq", table>>, <<"drop_rule", "ix", table>>, <<"add_rule", "plain", table>>>>

\* The three steps of each table of _UNIQUE_COLUMNS, one table after the other.
InTurn(steps) == [n \in 1..3 * Len(steps) |-> steps[(n + 2) \div 3][((n - 1) % 3) + 1]]

Creates(tables) == [i \in 1..Len(tables) |-> <<"create_table", tables[i], "-">>]
Drops(tables) == [i \in 1..Len(tables) |-> <<"drop_table", tables[i], "-">>]

\* Mutant of DropTypes: dropping a table is taken to drop its enum types.
KeepTypes(types) == <<>>

DropTypes(types) == [i \in 1..Len(types) |-> <<"drop_type", types[i], "-">>]

Up(revision) ==
    CASE revision = "initial"  -> Creates(InitialTables)
      [] revision = "images"   -> Creates(<<"product_images">>)
      [] revision = "awaiting" -> <<<<"rows", "fold_awaiting", "-">>,
                                    <<"swap_type", "order_status", "new">>>>
      [] revision = "unique"   -> InTurn([i \in 1..Len(UniqueTables) |-> UniqueUp(UniqueTables[i])])
      [] revision = "ledger"   -> <<<<"create_type", "sale_kind", "-">>,
                                    <<"add_rule", "pair", "sales">>,
                                    <<"drop_rule", "ix", "sales">>,
                                    <<"add_rule", "sign", "sales">>,
                                    <<"drop_rule", "not_negative", "sales">>,
                                    <<"rows", "reverse", "-">>>>
      [] revision = "cancelled" -> <<<<"swap_type", "shipment_status", "new">>,
                                     <<"rows", "cancel_shipments", "-">>>>
      [] revision = "history"  -> Creates(<<"inventory_history", "order_status_history">>)
      [] revision = "dates"    -> <<<<"add_rule", "dates", "shipments">>>>
      [] revision = "search"   -> <<>>

Down(revision) ==
    CASE revision = "initial"  -> Drops(Reverse(InitialTables)) \o
                                  DropTypes(<<"shipment_status", "payment_status",
                                              "order_status", "user_role">>)
      [] revision = "images"   -> Drops(<<"product_images">>)
      [] revision = "awaiting" -> <<<<"swap_type", "order_status", "old">>>>
      [] revision = "unique"   -> InTurn([i \in 1..Len(UniqueTables) |-> UniqueDown(UniqueTables[i])])
      [] revision = "ledger"   -> <<<<"rows", "delete_reversals", "-">>,
                                    <<"add_rule", "not_negative", "sales">>,
                                    <<"drop_rule", "sign", "sales">>,
                                    <<"add_rule", "ix", "sales">>,
                                    <<"drop_rule", "pair", "sales">>>> \o
                                  DropTypes(<<"sale_kind">>)
      [] revision = "cancelled" -> <<<<"rows", "fail_shipments", "-">>,
                                     <<"swap_type", "shipment_status", "old">>>>
      [] revision = "history"  -> Drops(<<"order_status_history", "inventory_history">>) \o
                                  DropTypes(<<"order_status_change_source",
                                              "inventory_change_kind">>)
      [] revision = "dates"    -> <<<<"drop_rule", "dates", "shipments">>>>
      [] revision = "search"   -> <<>>

-----------------------------------------------------------------------------
(***************************************************************************)
(* What an operation needs and what it does.                               *)
(***************************************************************************)
\* The values a type has once it is recreated.
ValuesOf(type, version) ==
    CASE type = "order_status"    -> IF version = "new" THEN NewOrderStatus ELSE OldOrderStatus
      [] type = "shipment_status" -> IF version = "new" THEN NewShipmentStatus ELSE OldShipmentStatus

\* The rows that are there when a rule is added must meet it.
RowsMeet(rule, table) ==
    CASE rule = "dates" -> \A o \in Order :
                               db.shipment[o].status \in {"in_transit", "delivered"} => db.shipment[o].dated
      [] rule \in {"ix", "uq"} /\ table = "sales" -> \A o \in Order : Cardinality(db.kinds[o]) <= 1
      [] rule = "not_negative" -> \A o \in Order : "reversal" \notin db.kinds[o]
      [] OTHER -> TRUE

\* A swapped type must hold every value stored, and be used by the one column the
\* revision alters; a table another one references, a type in use, stay.
CanExecute(step) ==
    LET subject == step[2]
        argument == step[3]
    IN
    CASE step[1] = "create_table" -> /\ References(subject) \subseteq db.tables
                                     /\ CreatedTypes(subject) \cap db.types = {}
      [] step[1] = "create_type" -> subject \notin db.types
      [] step[1] = "drop_table" -> \A t \in db.tables \ {subject} : subject \notin References(t)
      [] step[1] = "drop_type" -> \A t \in db.tables : subject \notin TypesOf(t)
      [] step[1] = "swap_type" ->
            /\ Cardinality({t \in db.tables : subject \in TypesOf(t)}) = 1
            /\ \A o \in Order :
                  IF subject = "order_status"
                  THEN db.status[o] \in ValuesOf(subject, argument) \cup {"none"}
                  ELSE db.shipment[o].status \in ValuesOf(subject, argument) \cup {"none"}
      [] step[1] = "add_rule" -> RowsMeet(subject, argument)
      [] OTHER -> TRUE

\* create_table also makes the constraints and the indexes of the initial schema.
RulesOf(table) ==
    (IF table \in ToSet(UniqueTables) THEN {<<"uq", table>>, <<"plain", table>>} ELSE {})
    \cup (IF table = "sales" THEN {<<"not_negative", "sales">>} ELSE {})

\* Rows of a dropped table go with it.
WithoutRows(d, table) ==
    CASE table = "orders"    -> [d EXCEPT !.status = EmptyDb.status]
      [] table = "sales"     -> [d EXCEPT !.kinds = EmptyDb.kinds]
      [] table = "shipments" -> [d EXCEPT !.shipment = EmptyDb.shipment]
      [] OTHER               -> d

\* Mutant of Owes: a refunded order is forgotten.
OwesCancelled(o) == "sale" \in db.kinds[o] /\ db.status[o] = "cancelled"

Owes(o) == "sale" \in db.kinds[o] /\ db.status[o] \in Closed

Unsent(o) == db.shipment[o].status \in NotSent /\ db.status[o] \in Closed

\* Mutant of Folded: the orders that wait for their payment are left.
Unfolded(s) == s

Folded(s) == IF s = "awaiting_payment" THEN "pending" ELSE s

\* The statements that rewrite rows.
Backfilled(what) ==
    CASE what = "fold_awaiting" ->
            [db EXCEPT !.status = [o \in Order |-> Folded(@[o])]]
      [] what = "reverse" ->
            [db EXCEPT !.kinds = [o \in Order |-> IF Owes(o) THEN @[o] \cup {"reversal"} ELSE @[o]]]
      [] what = "delete_reversals" ->
            [db EXCEPT !.kinds = [o \in Order |-> @[o] \ {"reversal"}]]
      [] what = "cancel_shipments" ->
            [db EXCEPT !.shipment = [o \in Order |->
                IF Unsent(o) THEN [@[o] EXCEPT !.status = "cancelled"] ELSE @[o]]]
      [] what = "fail_shipments" ->
            [db EXCEPT !.shipment = [o \in Order |->
                IF @[o].status = "cancelled" THEN [@[o] EXCEPT !.status = "failed"] ELSE @[o]]]

Executed(step) ==
    LET subject == step[2]
        argument == step[3]
    IN
    CASE step[1] = "create_table" ->
            [db EXCEPT !.tables = @ \cup {subject}, !.types = @ \cup TypesOf(subject),
                       !.rules = @ \cup RulesOf(subject)]
      [] step[1] = "drop_table" ->
            [WithoutRows(db, subject) EXCEPT !.tables = @ \ {subject},
                                             !.rules = {r \in @ : r[2] # subject}]
      [] step[1] = "create_type" -> [db EXCEPT !.types = @ \cup {subject}]
      [] step[1] = "drop_type" -> [db EXCEPT !.types = @ \ {subject}]
      [] step[1] = "swap_type" -> db
      [] step[1] = "add_rule" -> [db EXCEPT !.rules = @ \cup {<<subject, argument>>}]
      [] step[1] = "drop_rule" -> [db EXCEPT !.rules = @ \ {<<subject, argument>>}]
      [] step[1] = "rows" -> Backfilled(subject)

-----------------------------------------------------------------------------
(***************************************************************************)
(* A run of alembic.                                                       *)
(***************************************************************************)
Running == target # rev
Steps == IF rev < target THEN Up(Revisions[rev + 1]) ELSE Down(Revisions[rev])

\* alembic upgrade head, or alembic downgrade to any earlier revision.
Begin(to) ==
    /\ ~Running
    /\ to # rev
    /\ to = Latest \/ to < rev
    /\ target' = to
    /\ done' = 0
    /\ saved' = [db |-> db, rev |-> rev]
    /\ stopped' = "none"
    /\ UNCHANGED <<db, rev>>

Execute ==
    /\ Running
    /\ done < Len(Steps)
    /\ CanExecute(Steps[done + 1])
    /\ db' = Executed(Steps[done + 1])
    /\ done' = done + 1
    /\ UNCHANGED <<rev, target, saved, stopped>>

\* The next revision of the run; after the last one the run commits.
Stamp ==
    /\ Running
    /\ done = Len(Steps)
    /\ rev' = IF rev < target THEN rev + 1 ELSE rev - 1
    /\ done' = 0
    /\ UNCHANGED <<db, target, saved, stopped>>

\* The transaction of the run ends without a commit.
RollBack ==
    /\ Running
    /\ db' = saved.db
    /\ rev' = saved.rev
    /\ target' = saved.rev
    /\ done' = 0
    /\ UNCHANGED saved

\* The database refuses an operation.
Fail ==
    /\ RollBack
    /\ done < Len(Steps)
    /\ ~CanExecute(Steps[done + 1])
    /\ stopped' = Steps[done + 1][2]

\* alembic is stopped, or loses its connection, at any statement of any revision.
Interrupt == RollBack /\ UNCHANGED stopped

-----------------------------------------------------------------------------
(***************************************************************************)
(* What the application of the present revision writes between two runs.   *)
(***************************************************************************)
At(name) == rev >= Position(name)

Writes(o, new) ==
    /\ ~Running
    /\ "sales" \in db.tables
    /\ db' = [db EXCEPT !.status[o] = new.status, !.kinds[o] = new.kinds,
                        !.shipment[o] = new.shipment]
    /\ UNCHANGED <<rev, target, done, saved, stopped>>

Row(status, kinds, shipment) == [status |-> status, kinds |-> kinds, shipment |-> shipment]

\* A failed payment left the order awaiting its payment until that status went.
Place(o) ==
    /\ db.status[o] = "none"
    /\ \E s \in {"pending"} \cup IF At("awaiting") THEN {} ELSE {"awaiting_payment"} :
          Writes(o, Row(s, {}, Absent))

Pay(o) ==
    /\ db.status[o] \in {"pending", "awaiting_payment"}
    /\ Writes(o, Row("paid", {"sale"}, Absent))

\* The staff's shipment; before `cancelled` came it might also be pending.
Prepare(o) ==
    /\ db.status[o] = "paid"
    /\ db.shipment[o] = Absent
    /\ \E s \in {"preparing"} \cup IF At("cancelled") THEN {} ELSE {"pending"} :
          Writes(o, Row("preparing", db.kinds[o], [status |-> s, dated |-> FALSE]))

\* The services set the dates; a script may have left them out.
Send(o) ==
    /\ db.status[o] = "preparing"
    /\ db.shipment[o].status \in IF At("cancelled") THEN {"preparing"} ELSE NotSent
    /\ \E dated \in {TRUE} \cup IF At("dates") THEN {} ELSE {FALSE} :
          Writes(o, Row("shipped", db.kinds[o], [status |-> "in_transit", dated |-> dated]))

Deliver(o) ==
    /\ db.status[o] = "shipped"
    /\ \E dated \in {TRUE} \cup IF At("dates") THEN {} ELSE {FALSE} :
          Writes(o, Row("delivered", db.kinds[o], [status |-> "delivered", dated |-> dated]))

\* Only the present application reverses the sale and cancels the shipment.
Close(o, new) ==
    /\ db.status[o] \in IF new = "refunded" THEN {"paid"}
                        ELSE {"pending", "awaiting_payment", "paid", "preparing"}
    /\ Writes(o, Row(new,
           IF At("ledger") /\ "sale" \in db.kinds[o] THEN {"sale", "reversal"} ELSE db.kinds[o],
           IF At("cancelled") /\ db.shipment[o].status \in NotSent
           THEN [db.shipment[o] EXCEPT !.status = "cancelled"] ELSE db.shipment[o]))

MigrationInit ==
    /\ db = EmptyDb
    /\ rev = 0
    /\ target = 0
    /\ done = 0
    /\ saved = [db |-> EmptyDb, rev |-> 0]
    /\ stopped = "none"

MigrationNext ==
    \/ \E to \in 0..Latest : Begin(to)
    \/ Execute
    \/ Stamp
    \/ Fail
    \/ Interrupt
    \/ \E o \in Order :
          \/ Place(o)
          \/ Pay(o)
          \/ Prepare(o)
          \/ Send(o)
          \/ Deliver(o)
          \/ \E new \in Closed : Close(o, new)

MigrationSpec == MigrationInit /\ [][MigrationNext]_migrationVars

-----------------------------------------------------------------------------
(***************************************************************************)
(* What the migrations promise.                                            *)
(***************************************************************************)

\* The position in the chain and the rows are well formed, and between runs there
\* is an enum type exactly for the columns that use it.
MigrationTypeOK ==
    /\ rev \in 0..Latest /\ target \in 0..Latest
    /\ done \in 0..Len(IF Running THEN Steps ELSE <<>>)
    /\ db.status \in [Order -> OldOrderStatus \cup {"none"}]
    /\ db.kinds \in [Order -> SUBSET {"sale", "reversal"}]
    /\ db.shipment \in [Order -> [status: NewShipmentStatus \cup {"none"}, dated: BOOLEAN]]
    /\ ~Running => db.types = (UNION {TypesOf(t) : t \in db.tables}) \cup
                              IF At("ledger") THEN {"sale_kind"} ELSE {}

\* Every rule stays enforced at every step of a run, up or down: a table of
\* _UNIQUE_COLUMNS never lacks a uniqueness guarantee, nor sales a check of its
\* amounts (1b502c1e4011 and bdd517b5e052).
RulesStayEnforced ==
    /\ \A t \in db.tables \cap ToSet(UniqueTables) :
          \E rule \in {"uq", "ix", "pair"} : <<rule, t>> \in db.rules
    /\ "sales" \in db.tables =>
          \E rule \in {"not_negative", "sign"} : <<rule, "sales">> \in db.rules

\* The database refuses no run but over a shipment without its date, after whatever
\* runs, whole or interrupted: no statement meets a value its new type lacks, a table
\* or type still in use, or rows that a constraint put back on the way down refuses.
OnlyDatesStop == stopped \in {"none", "dates"}

\* Once the ledger holds reversals, every sale of a cancelled or refunded order has
\* one, whichever version of the application closed it and however often the
\* database went down and up again.
LedgerComplete ==
    ~Running /\ At("ledger") =>
        \A o \in Order : "reversal" \in db.kinds[o] <=>
                            "sale" \in db.kinds[o] /\ db.status[o] \in Closed

\* No shipment of a cancelled or refunded order is left where it can be shipped.
NothingLeftToShip ==
    ~Running /\ At("cancelled") =>
        \A o \in Order : db.status[o] \in Closed => db.shipment[o].status \notin NotSent

\* Once the checks are in place every dispatched shipment carries its date.
DatesHold ==
    ~Running /\ At("dates") =>
        \A o \in Order :
            db.shipment[o].status \in {"in_transit", "delivered"} => db.shipment[o].dated

\* After every run, up or down and up again, the rows are what the data migrations of
\* the revisions below promise, whichever version of the application wrote them.
RowsAsMigrated == LedgerComplete /\ NothingLeftToShip /\ DatesHold
=============================================================================

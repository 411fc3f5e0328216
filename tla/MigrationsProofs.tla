--------------------------- MODULE MigrationsProofs ---------------------------
(***************************************************************************)
(* What the migrations promise, proved for any set of orders and any       *)
(* sequence of upgrades and downgrades.  The inductive invariant says      *)
(* where each effect of a revision begins on the way up and ends on the    *)
(* way down (Past), and gives the tables, the types, the rules and the     *)
(* rows of every point of a run in terms of it.                            *)
(***************************************************************************)
EXTENDS Migrations, FiniteSetTheorems, SequenceTheorems, TLAPS

\* A run from r to t that has executed n steps of the revision it crosses has the
\* effect that revision k has after a steps up and loses after b steps down.
Past(r, t, n, k, a, b) ==
    \/ r >= k /\ ~(r = k /\ t < r /\ n >= b)
    \/ r + 1 = k /\ t > r /\ n >= a

\* The revision a run crosses.
Crossed(r, t) == IF r < t THEN r + 1 ELSE r

TablesAt(d, r, t, n) ==
    /\ d.tables \subseteq ToSet(InitialTables) \cup
                          {"product_images", "inventory_history", "order_status_history"}
    /\ \A i \in 1..10 : InitialTables[i] \in d.tables <=> Past(r, t, n, 1, i, 11 - i)
    /\ "product_images" \in d.tables <=> Past(r, t, n, 2, 1, 1)
    /\ "inventory_history" \in d.tables <=> Past(r, t, n, 7, 1, 2)
    /\ "order_status_history" \in d.tables <=> Past(r, t, n, 7, 2, 1)

TypesAt(d, r, t, n) ==
    /\ d.types \subseteq {"user_role", "order_status", "payment_status", "shipment_status",
                          "sale_kind", "inventory_change_kind", "order_status_change_source"}
    /\ "user_role" \in d.types <=> Past(r, t, n, 1, 1, 14)
    /\ "order_status" \in d.types <=> Past(r, t, n, 1, 6, 13)
    /\ "payment_status" \in d.types <=> Past(r, t, n, 1, 8, 12)
    /\ "shipment_status" \in d.types <=> Past(r, t, n, 1, 9, 11)
    /\ "sale_kind" \in d.types <=> Past(r, t, n, 5, 1, 6)
    /\ "inventory_change_kind" \in d.types <=> Past(r, t, n, 7, 1, 4)
    /\ "order_status_change_source" \in d.types <=> Past(r, t, n, 7, 2, 3)

\* What keeps a unique column unique, and the amounts of sales checked.
RulesAt(d, r, t, n) ==
    /\ \A i \in 1..7 : UniqueTables[i] \in d.tables =>
          /\ ~Past(r, t, n, 4, 3 * i, 3 * i - 2) => <<"uq", UniqueTables[i]>> \in d.rules
          /\ Past(r, t, n, 4, 3 * i - 1, 3 * i - 1)
                /\ (UniqueTables[i] = "sales" => ~Past(r, t, n, 5, 3, 4))
             => <<"ix", UniqueTables[i]>> \in d.rules
    /\ "sales" \in d.tables =>
          /\ Past(r, t, n, 5, 2, 5) => <<"pair", "sales">> \in d.rules
          /\ ~Past(r, t, n, 5, 5, 2) => <<"not_negative", "sales">> \in d.rules
          /\ Past(r, t, n, 5, 4, 3) => <<"sign", "sales">> \in d.rules

RowsTyped(d) ==
    /\ d.status \in [Order -> OldOrderStatus \cup {"none"}]
    /\ d.kinds \in [Order -> SUBSET {"sale", "reversal"}]
    /\ d.shipment \in [Order -> [status: NewShipmentStatus \cup {"none"}, dated: BOOLEAN]]

RowsAt(d, r, t, n) ==
    \A o \in Order :
        /\ Past(r, t, n, 3, 1, 1) => d.status[o] # "awaiting_payment"
        /\ ~Past(r, t, n, 5, 6, 1) => "reversal" \notin d.kinds[o]
        /\ Past(r, t, n, 5, 6, 1) =>
              ("reversal" \in d.kinds[o] <=> "sale" \in d.kinds[o] /\ d.status[o] \in Closed)
        /\ ~Past(r, t, n, 6, 2, 1) => d.shipment[o].status # "cancelled"
        /\ Past(r, t, n, 6, 2, 1) /\ d.status[o] \in Closed => d.shipment[o].status \notin NotSent
        /\ Past(r, t, n, 8, 1, 1) /\ d.shipment[o].status \in {"in_transit", "delivered"}
              => d.shipment[o].dated

IsDb(d) == d = [tables |-> d.tables, types |-> d.types, rules |-> d.rules,
                status |-> d.status, kinds |-> d.kinds, shipment |-> d.shipment]

DbAt(d, r, t, n) ==
    /\ IsDb(d)
    /\ TablesAt(d, r, t, n)
    /\ TypesAt(d, r, t, n)
    /\ RulesAt(d, r, t, n)
    /\ RowsTyped(d)
    /\ RowsAt(d, r, t, n)

MigrationInv ==
    /\ rev \in 0..9 /\ target \in 0..9
    /\ done \in 0..(IF Running THEN Len(Steps) ELSE 0)
    /\ DbAt(db, rev, target, done)
    /\ saved = [db |-> saved.db, rev |-> saved.rev]
    /\ saved.rev \in 0..9
    /\ DbAt(saved.db, saved.rev, saved.rev, 0)
    /\ OnlyDatesStop

-----------------------------------------------------------------------------
(***************************************************************************)
(* The steps of each revision, one by one.                                 *)
(***************************************************************************)
\* The nine revisions stand at their positions.
LEMMA Chain ==
    /\ Latest = 9
    /\ Revisions[1] = "initial" /\ Revisions[2] = "images" /\ Revisions[3] = "awaiting"
    /\ Revisions[4] = "unique" /\ Revisions[5] = "ledger" /\ Revisions[6] = "cancelled"
    /\ Revisions[7] = "history" /\ Revisions[8] = "dates" /\ Revisions[9] = "search"
BY DEF Latest, Revisions

\* A run of alembic is at the revision it crosses.
LEMMA Positions ==
    /\ Position("awaiting") = 3 /\ Position("ledger") = 5
    /\ Position("cancelled") = 6 /\ Position("dates") = 8
<1>1. \A r \in 1..9 : /\ Revisions[r] = "awaiting" <=> r = 3
                      /\ Revisions[r] = "ledger" <=> r = 5
                      /\ Revisions[r] = "cancelled" <=> r = 6
                      /\ Revisions[r] = "dates" <=> r = 8
  BY Chain
<1>2. QED
  BY <1>1, Chain DEF Position

\* A list of m steps.
Lists(a, m) == a = [i \in 1..m |-> a[i]]

\* List c is the m steps of a and then the k steps of b.
Joined(c, a, m, b, k) ==
    /\ Len(c) = m + k
    /\ \A i \in 1..m : c[i] = a[i]
    /\ \A i \in 1..k : c[m + i] = b[i]

\* One list of steps after another.
LEMMA Concatenated ==
    ASSUME NEW m \in Nat, NEW k \in Nat, NEW a, NEW b, NEW c,
           Lists(a, m), Lists(b, k), c = a \o b
    PROVE  Joined(c, a, m, b, k)
<1> DEFINE S == {a[i] : i \in 1..m} \cup {b[i] : i \in 1..k}
<1>1. a \in [1..m -> S] /\ b \in [1..k -> S]
  <2>1. (\A i \in 1..m : a[i] \in S) /\ (\A i \in 1..k : b[i] \in S)
    OBVIOUS
  <2>2. QED
    BY <2>1 DEF Lists
<1> HIDE DEF S
<1>2. a \in Seq(S) /\ Len(a) = m /\ b \in Seq(S) /\ Len(b) = k
  BY <1>1
<1>3. QED
  BY <1>2, ConcatProperties DEF Lists, Joined

\* The ten tables of the initial schema and the seven of _UNIQUE_COLUMNS, each once.
LEMMA Listed ==
    /\ Len(InitialTables) = 10 /\ Len(UniqueTables) = 7
    /\ InitialTables[1] = "users" /\ InitialTables[2] = "addresses"
    /\ InitialTables[3] = "categories" /\ InitialTables[4] = "products"
    /\ InitialTables[5] = "inventory" /\ InitialTables[6] = "orders"
    /\ InitialTables[7] = "order_items" /\ InitialTables[8] = "payments"
    /\ InitialTables[9] = "shipments" /\ InitialTables[10] = "sales"
    /\ UniqueTables[1] = "categories" /\ UniqueTables[2] = "inventory"
    /\ UniqueTables[3] = "orders" /\ UniqueTables[4] = "products"
    /\ UniqueTables[5] = "sales" /\ UniqueTables[6] = "shipments"
    /\ UniqueTables[7] = "users"
BY DEF InitialTables, UniqueTables

\* The initial schema creates its ten tables in order.
LEMMA UpInitial ==
    /\ Len(Up("initial")) = 10
    /\ \A n \in 0..9 : Up("initial")[n + 1] = <<"create_table", InitialTables[n + 1], "-">>
<1>1. Up("initial") = Creates(InitialTables)
  BY DEF Up
<1>2. QED
  BY <1>1, Listed DEF Creates

\* Going down drops them in the opposite order, and then their types.
LEMMA DownInitial ==
    /\ Len(Down("initial")) = 14
    /\ \A n \in 0..9 : Down("initial")[n + 1] = <<"drop_table", InitialTables[10 - n], "-">>
    /\ Down("initial")[11] = <<"drop_type", "shipment_status", "-">>
    /\ Down("initial")[12] = <<"drop_type", "payment_status", "-">>
    /\ Down("initial")[13] = <<"drop_type", "order_status", "-">>
    /\ Down("initial")[14] = <<"drop_type", "user_role", "-">>
<1> DEFINE types == <<"shipment_status", "payment_status", "order_status", "user_role">>
           a == Drops(Reverse(InitialTables))
           b == DropTypes(types)
<1>1. /\ Len(Reverse(InitialTables)) = 10
      /\ \A i \in 1..10 : Reverse(InitialTables)[i] = InitialTables[11 - i]
  BY Listed DEF Reverse
<1>2. a = [i \in 1..10 |-> a[i]] /\ \A i \in 1..10 : a[i] = <<"drop_table", InitialTables[11 - i], "-">>
  BY <1>1 DEF Drops
<1>3. Len(types) = 4
  OBVIOUS
<1>4. b = [i \in 1..4 |-> b[i]] /\ \A i \in 1..4 : b[i] = <<"drop_type", types[i], "-">>
  BY <1>3 DEF DropTypes
<1>5. Down("initial") = a \o b
  BY DEF Down
<1> HIDE DEF a, b
<1>6. /\ Len(Down("initial")) = 14
      /\ \A i \in 1..10 : Down("initial")[i] = a[i]
      /\ \A i \in 1..4 : Down("initial")[10 + i] = b[i]
  <2>1. Lists(a, 10) /\ Lists(b, 4)
    BY <1>2, <1>4 DEF Lists
  <2>2. 10 \in Nat /\ 4 \in Nat
    OBVIOUS
  <2>3. Joined(Down("initial"), a, 10, b, 4)
    BY <2>1, <2>2, <1>5, Concatenated, Zenon
  <2>4. QED
    BY <2>3 DEF Joined
<1>7. \A n \in 0..9 : Down("initial")[n + 1] = <<"drop_table", InitialTables[10 - n], "-">>
  BY <1>2, <1>6
<1>8. /\ Down("initial")[11] = b[1] /\ Down("initial")[12] = b[2]
      /\ Down("initial")[13] = b[3] /\ Down("initial")[14] = b[4]
  BY <1>6
<1>9. QED
  BY <1>4, <1>6, <1>7, <1>8

\* The tables of _UNIQUE_COLUMNS take three steps each, up and down.
LEMMA BothUnique ==
    /\ Len(Up("unique")) = 21 /\ Len(Down("unique")) = 21
    /\ \A j \in 0..6 :
          /\ Up("unique")[3 * j + 1] = <<"drop_rule", "plain", UniqueTables[j + 1]>>
          /\ Up("unique")[3 * j + 2] = <<"add_rule", "ix", UniqueTables[j + 1]>>
          /\ Up("unique")[3 * j + 3] = <<"drop_rule", "uq", UniqueTables[j + 1]>>
          /\ Down("unique")[3 * j + 1] = <<"add_rule", "uq", UniqueTables[j + 1]>>
          /\ Down("unique")[3 * j + 2] = <<"drop_rule", "ix", UniqueTables[j + 1]>>
          /\ Down("unique")[3 * j + 3] = <<"add_rule", "plain", UniqueTables[j + 1]>>
<1> DEFINE ups == [i \in 1..Len(UniqueTables) |-> UniqueUp(UniqueTables[i])]
           downs == [i \in 1..Len(UniqueTables) |-> UniqueDown(UniqueTables[i])]
<1>1. Up("unique") = InTurn(ups) /\ Down("unique") = InTurn(downs)
  BY DEF Up, Down
<1>2. /\ Len(ups) = 7 /\ \A j \in 0..6 : ups[j + 1] = UniqueUp(UniqueTables[j + 1])
      /\ Len(downs) = 7 /\ \A j \in 0..6 : downs[j + 1] = UniqueDown(UniqueTables[j + 1])
  BY Listed
<1> HIDE DEF ups, downs
<1>3. ASSUME NEW s, Len(s) = 7
      PROVE  /\ Len(InTurn(s)) = 21
             /\ \A j \in 0..6 : /\ InTurn(s)[3 * j + 1] = s[j + 1][1]
                                /\ InTurn(s)[3 * j + 2] = s[j + 1][2]
                                /\ InTurn(s)[3 * j + 3] = s[j + 1][3]
  <2>1. InTurn(s) = [n \in 1..21 |-> s[(n + 2) \div 3][((n - 1) % 3) + 1]]
    BY <1>3 DEF InTurn
  <2>2. QED
    BY <2>1
<1>4. \A t : /\ UniqueUp(t)[1] = <<"drop_rule", "plain", t>>
             /\ UniqueUp(t)[2] = <<"add_rule", "ix", t>>
             /\ UniqueUp(t)[3] = <<"drop_rule", "uq", t>>
             /\ UniqueDown(t)[1] = <<"add_rule", "uq", t>>
             /\ UniqueDown(t)[2] = <<"drop_rule", "ix", t>>
             /\ UniqueDown(t)[3] = <<"add_rule", "plain", t>>
  BY DEF UniqueUp, UniqueDown
<1>5. /\ Len(Up("unique")) = 21 /\ Len(Down("unique")) = 21
      /\ \A j \in 0..6 :
            /\ Up("unique")[3 * j + 1] = UniqueUp(UniqueTables[j + 1])[1]
            /\ Up("unique")[3 * j + 2] = UniqueUp(UniqueTables[j + 1])[2]
            /\ Up("unique")[3 * j + 3] = UniqueUp(UniqueTables[j + 1])[3]
            /\ Down("unique")[3 * j + 1] = UniqueDown(UniqueTables[j + 1])[1]
            /\ Down("unique")[3 * j + 2] = UniqueDown(UniqueTables[j + 1])[2]
            /\ Down("unique")[3 * j + 3] = UniqueDown(UniqueTables[j + 1])[3]
  BY <1>1, <1>2, <1>3
<1>6. QED
  BY <1>4, <1>5

\* The images, the statuses that went and came, the dates and the search indexes.
LEMMA ShortRevisions ==
    /\ Len(Up("images")) = 1 /\ Up("images")[1] = <<"create_table", "product_images", "-">>
    /\ Len(Down("images")) = 1 /\ Down("images")[1] = <<"drop_table", "product_images", "-">>
    /\ Len(Up("awaiting")) = 2 /\ Up("awaiting")[1] = <<"rows", "fold_awaiting", "-">>
    /\ Up("awaiting")[2] = <<"swap_type", "order_status", "new">>
    /\ Len(Down("awaiting")) = 1 /\ Down("awaiting")[1] = <<"swap_type", "order_status", "old">>
    /\ Len(Up("cancelled")) = 2 /\ Up("cancelled")[1] = <<"swap_type", "shipment_status", "new">>
    /\ Up("cancelled")[2] = <<"rows", "cancel_shipments", "-">>
    /\ Len(Down("cancelled")) = 2 /\ Down("cancelled")[1] = <<"rows", "fail_shipments", "-">>
    /\ Down("cancelled")[2] = <<"swap_type", "shipment_status", "old">>
    /\ Len(Up("dates")) = 1 /\ Up("dates")[1] = <<"add_rule", "dates", "shipments">>
    /\ Len(Down("dates")) = 1 /\ Down("dates")[1] = <<"drop_rule", "dates", "shipments">>
    /\ Len(Up("search")) = 0 /\ Len(Down("search")) = 0
<1>1. /\ Up("images") = Creates(<<"product_images">>)
      /\ Down("images") = Drops(<<"product_images">>)
  BY DEF Up, Down
<1>2. /\ Up("awaiting") = <<<<"rows", "fold_awaiting", "-">>, <<"swap_type", "order_status", "new">>>>
      /\ Down("awaiting") = <<<<"swap_type", "order_status", "old">>>>
  BY DEF Up, Down
<1>3. /\ Up("cancelled") = <<<<"swap_type", "shipment_status", "new">>, <<"rows", "cancel_shipments", "-">>>>
      /\ Down("cancelled") = <<<<"rows", "fail_shipments", "-">>, <<"swap_type", "shipment_status", "old">>>>
  BY DEF Up, Down
<1>4. /\ Up("dates") = <<<<"add_rule", "dates", "shipments">>>>
      /\ Down("dates") = <<<<"drop_rule", "dates", "shipments">>>>
      /\ Up("search") = <<>> /\ Down("search") = <<>>
  BY DEF Up, Down
<1>5. QED
  BY <1>1, <1>2, <1>3, <1>4 DEF Creates, Drops

\* The ledger's type, rules and reversals.
LEMMA BothLedger ==
    /\ Len(Up("ledger")) = 6
    /\ Up("ledger")[1] = <<"create_type", "sale_kind", "-">>
    /\ Up("ledger")[2] = <<"add_rule", "pair", "sales">>
    /\ Up("ledger")[3] = <<"drop_rule", "ix", "sales">>
    /\ Up("ledger")[4] = <<"add_rule", "sign", "sales">>
    /\ Up("ledger")[5] = <<"drop_rule", "not_negative", "sales">>
    /\ Up("ledger")[6] = <<"rows", "reverse", "-">>
    /\ Len(Down("ledger")) = 6
    /\ Down("ledger")[1] = <<"rows", "delete_reversals", "-">>
    /\ Down("ledger")[2] = <<"add_rule", "not_negative", "sales">>
    /\ Down("ledger")[3] = <<"drop_rule", "sign", "sales">>
    /\ Down("ledger")[4] = <<"add_rule", "ix", "sales">>
    /\ Down("ledger")[5] = <<"drop_rule", "pair", "sales">>
    /\ Down("ledger")[6] = <<"drop_type", "sale_kind", "-">>
<1> DEFINE a == <<<<"rows", "delete_reversals", "-">>, <<"add_rule", "not_negative", "sales">>,
                  <<"drop_rule", "sign", "sales">>, <<"add_rule", "ix", "sales">>,
                  <<"drop_rule", "pair", "sales">>>>
           b == DropTypes(<<"sale_kind">>)
<1>1. Up("ledger") = <<<<"create_type", "sale_kind", "-">>, <<"add_rule", "pair", "sales">>,
                       <<"drop_rule", "ix", "sales">>, <<"add_rule", "sign", "sales">>,
                       <<"drop_rule", "not_negative", "sales">>, <<"rows", "reverse", "-">>>>
  BY DEF Up
<1>2. Down("ledger") = a \o b
  BY DEF Down
<1>3. b = [i \in 1..1 |-> b[i]] /\ b[1] = <<"drop_type", "sale_kind", "-">>
  BY DEF DropTypes
<1>4. a = [i \in 1..5 |-> a[i]]
  OBVIOUS
<1>5. /\ a[1] = <<"rows", "delete_reversals", "-">> /\ a[2] = <<"add_rule", "not_negative", "sales">>
      /\ a[3] = <<"drop_rule", "sign", "sales">> /\ a[4] = <<"add_rule", "ix", "sales">>
      /\ a[5] = <<"drop_rule", "pair", "sales">>
  OBVIOUS
<1> HIDE DEF a, b
<1>6. /\ Len(Down("ledger")) = 6 /\ Down("ledger")[6] = b[1]
      /\ \A i \in 1..5 : Down("ledger")[i] = a[i]
  <2>1. Lists(a, 5) /\ Lists(b, 1)
    BY <1>4, <1>3 DEF Lists
  <2>2. 5 \in Nat /\ 1 \in Nat
    OBVIOUS
  <2>3. Joined(Down("ledger"), a, 5, b, 1)
    BY <2>1, <2>2, <1>2, Concatenated, Zenon
  <2>4. QED
    BY <2>3 DEF Joined
<1>7. QED
  BY <1>1, <1>3, <1>5, <1>6

\* The two histories and their types.
LEMMA BothHistory ==
    /\ Len(Up("history")) = 2
    /\ Up("history")[1] = <<"create_table", "inventory_history", "-">>
    /\ Up("history")[2] = <<"create_table", "order_status_history", "-">>
    /\ Len(Down("history")) = 4
    /\ Down("history")[1] = <<"drop_table", "order_status_history", "-">>
    /\ Down("history")[2] = <<"drop_table", "inventory_history", "-">>
    /\ Down("history")[3] = <<"drop_type", "order_status_change_source", "-">>
    /\ Down("history")[4] = <<"drop_type", "inventory_change_kind", "-">>
<1> DEFINE a == Drops(<<"order_status_history", "inventory_history">>)
           b == DropTypes(<<"order_status_change_source", "inventory_change_kind">>)
<1>1. Up("history") = Creates(<<"inventory_history", "order_status_history">>)
  BY DEF Up
<1>2. Down("history") = a \o b
  BY DEF Down
<1>3. /\ a = [i \in 1..2 |-> a[i]] /\ a[1] = <<"drop_table", "order_status_history", "-">>
      /\ a[2] = <<"drop_table", "inventory_history", "-">>
  BY DEF Drops
<1>4. /\ b = [i \in 1..2 |-> b[i]] /\ b[1] = <<"drop_type", "order_status_change_source", "-">>
      /\ b[2] = <<"drop_type", "inventory_change_kind", "-">>
  BY DEF DropTypes
<1> HIDE DEF a, b
<1>5. /\ Len(Down("history")) = 4 /\ \A i \in 1..2 : Down("history")[i] = a[i]
      /\ \A i \in 1..2 : Down("history")[2 + i] = b[i]
  <2>1. Lists(a, 2) /\ Lists(b, 2)
    BY <1>3, <1>4 DEF Lists
  <2>2. 2 \in Nat /\ 2 \in Nat
    OBVIOUS
  <2>3. Joined(Down("history"), a, 2, b, 2)
    BY <2>1, <2>2, <1>2, Concatenated, Zenon
  <2>4. QED
    BY <2>3 DEF Joined
<1>6. Down("history")[3] = b[1] /\ Down("history")[4] = b[2]
  BY <1>5
<1>7. QED
  BY <1>1, <1>3, <1>4, <1>5, <1>6 DEF Creates

-----------------------------------------------------------------------------
(***************************************************************************)
(* What one operation does to each part of the database.                   *)
(***************************************************************************)
\* A new table brings its types and its rules.
LEMMA CreateTable ==
    ASSUME NEW T, NEW z, IsDb(db), db' = Executed(<<"create_table", T, z>>)
    PROVE  /\ IsDb(db') /\ db'.tables = db.tables \cup {T}
           /\ db'.types = db.types \cup TypesOf(T) /\ db'.rules = db.rules \cup RulesOf(T)
           /\ db'.status = db.status /\ db'.kinds = db.kinds /\ db'.shipment = db.shipment
<1>1. db' = [db EXCEPT !.tables = @ \cup {T}, !.types = @ \cup TypesOf(T),
                       !.rules = @ \cup RulesOf(T)]
  BY Zenon DEF Executed
<1>2. QED
  BY <1>1 DEF IsDb

\* A dropped table takes its rules and its rows along, not its types.
LEMMA DropTable ==
    ASSUME NEW T, NEW z, IsDb(db), db' = Executed(<<"drop_table", T, z>>)
    PROVE  /\ IsDb(db') /\ db'.tables = db.tables \ {T}
           /\ db'.types = db.types /\ db'.rules = {r \in db.rules : r[2] # T}
           /\ db'.status = (IF T = "orders" THEN EmptyDb.status ELSE db.status)
           /\ db'.kinds = (IF T = "sales" THEN EmptyDb.kinds ELSE db.kinds)
           /\ db'.shipment = (IF T = "shipments" THEN EmptyDb.shipment ELSE db.shipment)
<1>1. db' = [WithoutRows(db, T) EXCEPT !.tables = @ \ {T},
                                       !.rules = {r \in @ : r[2] # T}]
  BY Zenon DEF Executed
<1>2. CASE T = "orders"
  <2>1. WithoutRows(db, T) = [db EXCEPT !.status = EmptyDb.status]
    BY <1>2 DEF WithoutRows
  <2>2. QED
    BY <1>1, <1>2, <2>1 DEF IsDb
<1>3. CASE T = "sales"
  <2>1. WithoutRows(db, T) = [db EXCEPT !.kinds = EmptyDb.kinds]
    BY <1>3 DEF WithoutRows
  <2>2. QED
    BY <1>1, <1>3, <2>1 DEF IsDb
<1>4. CASE T = "shipments"
  <2>1. WithoutRows(db, T) = [db EXCEPT !.shipment = EmptyDb.shipment]
    BY <1>4 DEF WithoutRows
  <2>2. QED
    BY <1>1, <1>4, <2>1 DEF IsDb
<1>5. CASE T \notin {"orders", "sales", "shipments"}
  <2>1. T # "orders" /\ T # "sales" /\ T # "shipments"
    BY <1>5
  <2>2. WithoutRows(db, T) = db
    BY <2>1, Zenon DEF WithoutRows
  <2>3. db' = [db EXCEPT !.tables = @ \ {T}, !.rules = {r \in @ : r[2] # T}]
    BY <1>1, <2>2
  <2>4. QED
    BY <2>1, <2>3 DEF IsDb
<1>6. QED
  BY <1>2, <1>3, <1>4, <1>5

\* A new type changes nothing else.
LEMMA CreateType ==
    ASSUME NEW T, NEW z, IsDb(db), db' = Executed(<<"create_type", T, z>>)
    PROVE  /\ IsDb(db') /\ db'.tables = db.tables
           /\ db'.types = db.types \cup {T} /\ db'.rules = db.rules
           /\ db'.status = db.status /\ db'.kinds = db.kinds /\ db'.shipment = db.shipment
<1>1. db' = [db EXCEPT !.types = @ \cup {T}]
  BY Zenon DEF Executed
<1>2. QED
  BY <1>1 DEF IsDb

\* Nor does one that goes.
LEMMA DropType ==
    ASSUME NEW T, NEW z, IsDb(db), db' = Executed(<<"drop_type", T, z>>)
    PROVE  /\ IsDb(db') /\ db'.tables = db.tables
           /\ db'.types = db.types \ {T} /\ db'.rules = db.rules
           /\ db'.status = db.status /\ db'.kinds = db.kinds /\ db'.shipment = db.shipment
<1>1. db' = [db EXCEPT !.types = @ \ {T}]
  BY Zenon DEF Executed
<1>2. QED
  BY <1>1 DEF IsDb

\* A type recreated with other values keeps its name and its rows.
LEMMA SwapType ==
    ASSUME NEW T, NEW z, IsDb(db), db' = Executed(<<"swap_type", T, z>>)
    PROVE  /\ IsDb(db') /\ db'.tables = db.tables
           /\ db'.types = db.types /\ db'.rules = db.rules
           /\ db'.status = db.status /\ db'.kinds = db.kinds /\ db'.shipment = db.shipment
<1>1. db' = db
  BY Zenon DEF Executed
<1>2. QED
  BY <1>1 DEF IsDb

\* A new rule changes nothing else.
LEMMA AddRule ==
    ASSUME NEW T, NEW z, IsDb(db), db' = Executed(<<"add_rule", T, z>>)
    PROVE  /\ IsDb(db') /\ db'.tables = db.tables
           /\ db'.types = db.types /\ db'.rules = db.rules \cup {<<T, z>>}
           /\ db'.status = db.status /\ db'.kinds = db.kinds /\ db'.shipment = db.shipment
<1>1. db' = [db EXCEPT !.rules = @ \cup {<<T, z>>}]
  BY Zenon DEF Executed
<1>2. QED
  BY <1>1 DEF IsDb

\* Nor does one that goes.
LEMMA DropRule ==
    ASSUME NEW T, NEW z, IsDb(db), db' = Executed(<<"drop_rule", T, z>>)
    PROVE  /\ IsDb(db') /\ db'.tables = db.tables
           /\ db'.types = db.types /\ db'.rules = db.rules \ {<<T, z>>}
           /\ db'.status = db.status /\ db'.kinds = db.kinds /\ db'.shipment = db.shipment
<1>1. db' = [db EXCEPT !.rules = @ \ {<<T, z>>}]
  BY Zenon DEF Executed
<1>2. QED
  BY <1>1 DEF IsDb

\* The statements that rewrite rows.
LEMMA RewrittenRows ==
    ASSUME NEW what, NEW z, IsDb(db), db' = Executed(<<"rows", what, z>>),
           what \in {"fold_awaiting", "reverse", "delete_reversals",
                     "cancel_shipments", "fail_shipments"}
    PROVE  /\ IsDb(db') /\ db'.tables = db.tables
           /\ db'.types = db.types /\ db'.rules = db.rules
           /\ db'.status = IF what = "fold_awaiting"
                           THEN [o \in Order |-> Folded(db.status[o])] ELSE db.status
           /\ db'.kinds = IF what = "reverse"
                          THEN [o \in Order |-> IF Owes(o) THEN db.kinds[o] \cup {"reversal"}
                                                ELSE db.kinds[o]]
                          ELSE IF what = "delete_reversals"
                          THEN [o \in Order |-> db.kinds[o] \ {"reversal"}] ELSE db.kinds
           /\ db'.shipment = IF what = "cancel_shipments"
                             THEN [o \in Order |->
                                      IF Unsent(o) THEN [db.shipment[o] EXCEPT !.status = "cancelled"]
                                      ELSE db.shipment[o]]
                             ELSE IF what = "fail_shipments"
                             THEN [o \in Order |->
                                      IF db.shipment[o].status = "cancelled"
                                      THEN [db.shipment[o] EXCEPT !.status = "failed"]
                                      ELSE db.shipment[o]]
                             ELSE db.shipment
<1>1. db' = Backfilled(what)
  BY Zenon DEF Executed
<1>2. CASE what = "fold_awaiting"
  <2>1. db' = [db EXCEPT !.status = [o \in Order |-> Folded(@[o])]]
    BY <1>1, <1>2, Zenon DEF Backfilled
  <2>2. QED
    BY <1>2, <2>1 DEF IsDb
<1>3. CASE what = "reverse"
  <2>1. db' = [db EXCEPT !.kinds = [o \in Order |->
                   IF Owes(o) THEN @[o] \cup {"reversal"} ELSE @[o]]]
    BY <1>1, <1>3, Zenon DEF Backfilled
  <2>2. QED
    BY <1>3, <2>1 DEF IsDb
<1>4. CASE what = "delete_reversals"
  <2>1. db' = [db EXCEPT !.kinds = [o \in Order |-> @[o] \ {"reversal"}]]
    BY <1>1, <1>4, Zenon DEF Backfilled
  <2>2. QED
    BY <1>4, <2>1 DEF IsDb
<1>5. CASE what = "cancel_shipments"
  <2>1. db' = [db EXCEPT !.shipment = [o \in Order |->
                   IF Unsent(o) THEN [@[o] EXCEPT !.status = "cancelled"] ELSE @[o]]]
    BY <1>1, <1>5, Zenon DEF Backfilled
  <2>2. QED
    BY <1>5, <2>1 DEF IsDb
<1>6. CASE what = "fail_shipments"
  <2>1. db' = [db EXCEPT !.shipment = [o \in Order |->
                   IF @[o].status = "cancelled" THEN [@[o] EXCEPT !.status = "failed"] ELSE @[o]]]
    BY <1>1, <1>6, Zenon DEF Backfilled
  <2>2. QED
    BY <1>6, <2>1 DEF IsDb
<1>7. QED
  BY <1>2, <1>3, <1>4, <1>5, <1>6

-----------------------------------------------------------------------------
(***************************************************************************)
(* Where a run begins and ends, nothing changes hands.                     *)
(***************************************************************************)
\* How many steps each revision takes up, and down.
UpLen == <<10, 1, 2, 21, 6, 2, 2, 1, 0>>
DownLen == <<14, 1, 1, 21, 6, 2, 4, 1, 0>>

\* The lists of steps have these lengths.
LEMMA Lengths ==
    \A k \in 1..9 : /\ Len(Up(Revisions[k])) = UpLen[k]
                    /\ Len(Down(Revisions[k])) = DownLen[k]
<1>1. Len(Up("initial")) = 10 /\ Len(Down("initial")) = 14
  BY UpInitial, DownInitial, Zenon
<1>2. Len(Up("unique")) = 21 /\ Len(Down("unique")) = 21
  BY BothUnique, Zenon
<1>3. /\ Len(Up("images")) = 1 /\ Len(Down("images")) = 1
      /\ Len(Up("awaiting")) = 2 /\ Len(Down("awaiting")) = 1
      /\ Len(Up("cancelled")) = 2 /\ Len(Down("cancelled")) = 2
      /\ Len(Up("dates")) = 1 /\ Len(Down("dates")) = 1
      /\ Len(Up("search")) = 0 /\ Len(Down("search")) = 0
  BY ShortRevisions, Zenon
<1>4. Len(Up("ledger")) = 6 /\ Len(Down("ledger")) = 6
  BY BothLedger, Zenon
<1>5. Len(Up("history")) = 2 /\ Len(Down("history")) = 4
  BY BothHistory, Zenon
<1>6. /\ Len(Up(Revisions[1])) = UpLen[1] /\ Len(Down(Revisions[1])) = DownLen[1]
      /\ Len(Up(Revisions[2])) = UpLen[2] /\ Len(Down(Revisions[2])) = DownLen[2]
      /\ Len(Up(Revisions[3])) = UpLen[3] /\ Len(Down(Revisions[3])) = DownLen[3]
      /\ Len(Up(Revisions[4])) = UpLen[4] /\ Len(Down(Revisions[4])) = DownLen[4]
      /\ Len(Up(Revisions[5])) = UpLen[5] /\ Len(Down(Revisions[5])) = DownLen[5]
      /\ Len(Up(Revisions[6])) = UpLen[6] /\ Len(Down(Revisions[6])) = DownLen[6]
      /\ Len(Up(Revisions[7])) = UpLen[7] /\ Len(Down(Revisions[7])) = DownLen[7]
      /\ Len(Up(Revisions[8])) = UpLen[8] /\ Len(Down(Revisions[8])) = DownLen[8]
      /\ Len(Up(Revisions[9])) = UpLen[9] /\ Len(Down(Revisions[9])) = DownLen[9]
  BY <1>1, <1>2, <1>3, <1>4, <1>5, Chain DEF UpLen, DownLen
<1>7. \A k \in 1..9 : k = 1 \/ k = 2 \/ k = 3 \/ k = 4 \/ k = 5 \/ k = 6 \/ k = 7 \/ k = 8 \/ k = 9
  OBVIOUS
<1>8. QED
  BY <1>6, <1>7, Zenon

\* Two points of runs at which every effect of a step is the same.
Same(r, t, n, r2, t2, n2) ==
    \A k \in 1..9 : \A a \in 1..UpLen[k], b \in 1..DownLen[k] :
        Past(r, t, n, k, a, b) <=> Past(r2, t2, n2, k, a, b)

\* What is true of the database at one of them is true at the other.
LEMMA SameEffects ==
    ASSUME NEW d, NEW r, NEW t, NEW n, NEW r2, NEW t2, NEW n2,
           DbAt(d, r, t, n), Same(r, t, n, r2, t2, n2)
    PROVE  DbAt(d, r2, t2, n2)
<1>1. /\ UpLen[1] = 10 /\ UpLen[2] = 1 /\ UpLen[3] = 2 /\ UpLen[4] = 21 /\ UpLen[5] = 6
      /\ UpLen[6] = 2 /\ UpLen[7] = 2 /\ UpLen[8] = 1
      /\ DownLen[1] = 14 /\ DownLen[2] = 1 /\ DownLen[3] = 1 /\ DownLen[4] = 21
      /\ DownLen[5] = 6 /\ DownLen[6] = 2 /\ DownLen[7] = 4 /\ DownLen[8] = 1
  BY DEF UpLen, DownLen
<1>2. ASSUME NEW k \in 1..9, NEW a \in 1..UpLen[k], NEW b \in 1..DownLen[k]
      PROVE  Past(r, t, n, k, a, b) <=> Past(r2, t2, n2, k, a, b)
  BY Zenon DEF Same
<1>3. TablesAt(d, r2, t2, n2)
  <2>1. \A i \in 1..10 : Past(r, t, n, 1, i, 11 - i) <=> Past(r2, t2, n2, 1, i, 11 - i)
    BY <1>1, <1>2
  <2>2. /\ Past(r, t, n, 2, 1, 1) <=> Past(r2, t2, n2, 2, 1, 1)
        /\ Past(r, t, n, 7, 1, 2) <=> Past(r2, t2, n2, 7, 1, 2)
        /\ Past(r, t, n, 7, 2, 1) <=> Past(r2, t2, n2, 7, 2, 1)
    BY <1>1, <1>2
  <2>3. QED
    BY <2>1, <2>2 DEF DbAt, TablesAt
<1>4. TypesAt(d, r2, t2, n2)
  <2>1. /\ Past(r, t, n, 1, 1, 14) <=> Past(r2, t2, n2, 1, 1, 14)
        /\ Past(r, t, n, 1, 6, 13) <=> Past(r2, t2, n2, 1, 6, 13)
        /\ Past(r, t, n, 1, 8, 12) <=> Past(r2, t2, n2, 1, 8, 12)
        /\ Past(r, t, n, 1, 9, 11) <=> Past(r2, t2, n2, 1, 9, 11)
        /\ Past(r, t, n, 5, 1, 6) <=> Past(r2, t2, n2, 5, 1, 6)
        /\ Past(r, t, n, 7, 1, 4) <=> Past(r2, t2, n2, 7, 1, 4)
        /\ Past(r, t, n, 7, 2, 3) <=> Past(r2, t2, n2, 7, 2, 3)
    BY <1>1, <1>2
  <2>2. QED
    BY <2>1 DEF DbAt, TypesAt
<1>5. RulesAt(d, r2, t2, n2)
  <2>1. \A i \in 1..7 :
           /\ Past(r, t, n, 4, 3 * i, 3 * i - 2) <=> Past(r2, t2, n2, 4, 3 * i, 3 * i - 2)
           /\ Past(r, t, n, 4, 3 * i - 1, 3 * i - 1) <=> Past(r2, t2, n2, 4, 3 * i - 1, 3 * i - 1)
    BY <1>1, <1>2
  <2>2. /\ Past(r, t, n, 5, 3, 4) <=> Past(r2, t2, n2, 5, 3, 4)
        /\ Past(r, t, n, 5, 2, 5) <=> Past(r2, t2, n2, 5, 2, 5)
        /\ Past(r, t, n, 5, 5, 2) <=> Past(r2, t2, n2, 5, 5, 2)
        /\ Past(r, t, n, 5, 4, 3) <=> Past(r2, t2, n2, 5, 4, 3)
    BY <1>1, <1>2
  <2>3. QED
    BY <2>1, <2>2 DEF DbAt, RulesAt
<1>6. RowsAt(d, r2, t2, n2)
  <2>1. /\ Past(r, t, n, 3, 1, 1) <=> Past(r2, t2, n2, 3, 1, 1)
        /\ Past(r, t, n, 5, 6, 1) <=> Past(r2, t2, n2, 5, 6, 1)
        /\ Past(r, t, n, 6, 2, 1) <=> Past(r2, t2, n2, 6, 2, 1)
        /\ Past(r, t, n, 8, 1, 1) <=> Past(r2, t2, n2, 8, 1, 1)
    BY <1>1, <1>2
  <2>2. QED
    BY <2>1 DEF DbAt, RowsAt
<1>7. QED
  BY <1>3, <1>4, <1>5, <1>6 DEF DbAt

\* A run that begins has had no effect yet.
LEMMA BeginsSame ==
    ASSUME NEW r \in 0..9, NEW t2 \in 0..9
    PROVE  Same(r, r, 0, r, t2, 0)
<1>1. \A k \in 1..9 : UpLen[k] \in Nat /\ DownLen[k] \in Nat
  BY DEF UpLen, DownLen
<1>2. ASSUME NEW k \in 1..9, NEW a \in 1..UpLen[k], NEW b \in 1..DownLen[k]
      PROVE  Past(r, r, 0, k, a, b) <=> Past(r, t2, 0, k, a, b)
  <2>1. a \in Nat /\ b \in Nat /\ a >= 1 /\ b >= 1
    BY <1>1
  <2>2. QED
    BY <2>1 DEF Past
<1>3. QED
  BY <1>2 DEF Same

\* A revision crossed to its last step is applied, or gone.
LEMMA StampsSame ==
    ASSUME NEW r \in 0..9, NEW t \in 0..9, NEW n,
           \/ r < t /\ n = UpLen[r + 1]
           \/ t < r /\ n = DownLen[r]
    PROVE  Same(r, t, n, IF r < t THEN r + 1 ELSE r - 1, t, 0)
<1>1. \A k \in 1..9 : UpLen[k] \in Nat /\ DownLen[k] \in Nat
  BY DEF UpLen, DownLen
<1>2. CASE r < t
  <2>1. ASSUME NEW k \in 1..9, NEW a \in 1..UpLen[k], NEW b \in 1..DownLen[k]
        PROVE  Past(r, t, n, k, a, b) <=> Past(r + 1, t, 0, k, a, b)
    <3>1. a \in Nat /\ b \in Nat /\ a >= 1 /\ b >= 1 /\ a <= UpLen[k] /\ b <= DownLen[k]
      BY <1>1
    <3>2. r + 1 = k => n >= a
      BY <1>2, <3>1
    <3>3. QED
      BY <1>2, <3>1, <3>2 DEF Past
  <2>2. QED
    BY <1>2, <2>1 DEF Same
<1>3. CASE t < r
  <2>1. ASSUME NEW k \in 1..9, NEW a \in 1..UpLen[k], NEW b \in 1..DownLen[k]
        PROVE  Past(r, t, n, k, a, b) <=> Past(r - 1, t, 0, k, a, b)
    <3>1. a \in Nat /\ b \in Nat /\ a >= 1 /\ b >= 1 /\ a <= UpLen[k] /\ b <= DownLen[k]
      BY <1>1
    <3>2. r = k => n >= b
      BY <1>3, <3>1
    <3>3. QED
      BY <1>3, <3>1, <3>2 DEF Past
  <2>2. QED
    BY <1>3, <2>1 DEF Same
<1>4. QED
  BY <1>2, <1>3

-----------------------------------------------------------------------------
(***************************************************************************)
(* The steps of one revision leave the effects of the others alone.        *)
(***************************************************************************)
\* Tables come and go with three revisions.
LEMMA TablesKept ==
    ASSUME NEW d, NEW d2, NEW r \in 0..9, NEW t \in 0..9, r # t, NEW n, NEW n2,
           Crossed(r, t) \notin {1, 2, 7}, TablesAt(d, r, t, n), d2.tables = d.tables
    PROVE  TablesAt(d2, r, t, n2)
<1>1. \A k \in {1, 2, 7} : \A a, b : Past(r, t, n, k, a, b) <=> Past(r, t, n2, k, a, b)
  BY DEF Past, Crossed
<1>2. QED
  BY <1>1 DEF TablesAt

\* Types come and go with three revisions.
LEMMA TypesKept ==
    ASSUME NEW d, NEW d2, NEW r \in 0..9, NEW t \in 0..9, r # t, NEW n, NEW n2,
           Crossed(r, t) \notin {1, 5, 7}, TypesAt(d, r, t, n), d2.types = d.types
    PROVE  TypesAt(d2, r, t, n2)
<1>1. \A k \in {1, 5, 7} : \A a, b : Past(r, t, n, k, a, b) <=> Past(r, t, n2, k, a, b)
  BY DEF Past, Crossed
<1>2. QED
  BY <1>1 DEF TypesAt

\* No unique table is new, and none loses a rule.
KeepsRules(d, d2) ==
    \A i \in 1..7 : UniqueTables[i] \in d2.tables =>
        /\ UniqueTables[i] \in d.tables
        /\ \A x : <<x, UniqueTables[i]>> \in d.rules => <<x, UniqueTables[i]>> \in d2.rules

\* The rules of tables that exist change with two revisions.
LEMMA RulesKept ==
    ASSUME NEW d, NEW d2, NEW r \in 0..9, NEW t \in 0..9, r # t, NEW n, NEW n2,
           Crossed(r, t) \notin {4, 5}, RulesAt(d, r, t, n),
           KeepsRules(d, d2)
    PROVE  RulesAt(d2, r, t, n2)
<1>1. \A k \in {4, 5} : \A a, b : Past(r, t, n, k, a, b) <=> Past(r, t, n2, k, a, b)
  BY DEF Past, Crossed
<1>2. "sales" = UniqueTables[5]
  BY Listed
<1>3. QED
  BY <1>1, <1>2 DEF RulesAt, KeepsRules

\* Rows are rewritten, or refused, by four revisions.
LEMMA RowsKept ==
    ASSUME NEW d, NEW d2, NEW r \in 0..9, NEW t \in 0..9, r # t, NEW n, NEW n2,
           Crossed(r, t) \notin {3, 5, 6, 8}, RowsAt(d, r, t, n),
           d2.status = d.status, d2.kinds = d.kinds, d2.shipment = d.shipment
    PROVE  RowsAt(d2, r, t, n2)
<1>1. \A k \in {3, 5, 6, 8} : \A a, b : Past(r, t, n, k, a, b) <=> Past(r, t, n2, k, a, b)
  BY DEF Past, Crossed
<1>2. QED
  BY <1>1 DEF RowsAt

-----------------------------------------------------------------------------
(***************************************************************************)
(* The initial schema.                                                     *)
(***************************************************************************)
\* A table of the initial schema refers to those created before it.
LEMMA RefersBack ==
    \A i \in 1..10 : References(InitialTables[i]) \subseteq {InitialTables[j] : j \in 1..i - 1}
<1>1. /\ References("users") = {} /\ References("addresses") = {"users"}
      /\ References("categories") = {} /\ References("products") = {"categories"}
      /\ References("inventory") = {"products"} /\ References("orders") = {"users", "addresses"}
      /\ References("order_items") = {"orders", "products"} /\ References("payments") = {"orders"}
      /\ References("shipments") = {"orders", "addresses"} /\ References("sales") = {"orders"}
  BY DEF References
<1>2. QED
  BY <1>1, Listed

\* The types of its tables, and those of the tables that came later.
LEMMA TypesOfTables ==
    /\ \A i \in 1..10 : TypesOf(InitialTables[i]) =
          IF i = 1 THEN {"user_role"} ELSE IF i = 6 THEN {"order_status"}
          ELSE IF i = 8 THEN {"payment_status"} ELSE IF i = 9 THEN {"shipment_status"} ELSE {}
    /\ TypesOf("product_images") = {}
    /\ TypesOf("inventory_history") = {"inventory_change_kind"}
    /\ TypesOf("order_status_history") = {"order_status", "order_status_change_source"}
<1>1. /\ TypesOf("users") = {"user_role"} /\ TypesOf("addresses") = {}
      /\ TypesOf("categories") = {} /\ TypesOf("products") = {}
      /\ TypesOf("inventory") = {} /\ TypesOf("orders") = {"order_status"}
      /\ TypesOf("order_items") = {} /\ TypesOf("payments") = {"payment_status"}
      /\ TypesOf("shipments") = {"shipment_status"} /\ TypesOf("sales") = {}
  BY DEF TypesOf
<1>2. /\ TypesOf("product_images") = {}
      /\ TypesOf("inventory_history") = {"inventory_change_kind"}
      /\ TypesOf("order_status_history") = {"order_status", "order_status_change_source"}
  BY DEF TypesOf
<1>3. QED
  BY <1>1, <1>2, Listed

\* No table is listed twice.
LEMMA ListedOnce ==
    /\ \A i, j \in 1..10 : InitialTables[i] = InitialTables[j] => i = j
    /\ \A i, j \in 1..7 : UniqueTables[i] = UniqueTables[j] => i = j
    /\ \A i \in 1..10 : InitialTables[i] \notin
                          {"product_images", "inventory_history", "order_status_history"}
    /\ \A i \in 1..7 : UniqueTables[i] \in ToSet(InitialTables)
    /\ ToSet(InitialTables) = {InitialTables[i] : i \in 1..10}
    /\ ToSet(UniqueTables) = {UniqueTables[i] : i \in 1..7}
<1>1. \A i, j \in 1..10 : InitialTables[i] = InitialTables[j] => i = j
  BY Listed
<1>2. \A i, j \in 1..7 : UniqueTables[i] = UniqueTables[j] => i = j
  BY Listed
<1>3. \A i \in 1..10 : InitialTables[i] \notin
                          {"product_images", "inventory_history", "order_status_history"}
  BY Listed
<1>4. DOMAIN InitialTables = 1..10 /\ DOMAIN UniqueTables = 1..7
  BY DEF InitialTables, UniqueTables
<1>5. \A i \in 1..7 : UniqueTables[i] \in {InitialTables[j] : j \in 1..10}
  BY Listed
<1>6. QED
  BY <1>1, <1>2, <1>3, <1>4, <1>5 DEF ToSet

\* When a step can be executed.
LEMMA CanCreateOrDrop ==
    ASSUME NEW T, NEW z
    PROVE  /\ CanExecute(<<"create_table", T, z>>) <=>
                 References(T) \subseteq db.tables /\ CreatedTypes(T) \cap db.types = {}
           /\ CanExecute(<<"drop_table", T, z>>) <=>
                 \A u \in db.tables \ {T} : T \notin References(u)
           /\ CanExecute(<<"drop_type", T, z>>) <=> \A u \in db.tables : T \notin TypesOf(u)
           /\ CanExecute(<<"create_type", T, z>>) <=> T \notin db.types
           /\ CanExecute(<<"add_rule", T, z>>) <=> RowsMeet(T, z)
           /\ CanExecute(<<"drop_rule", T, z>>)
           /\ CanExecute(<<"rows", T, z>>)
<1>1. CanExecute(<<"create_table", T, z>>) <=>
          References(T) \subseteq db.tables /\ CreatedTypes(T) \cap db.types = {}
  BY Zenon DEF CanExecute
<1>2. CanExecute(<<"drop_table", T, z>>) <=> \A u \in db.tables \ {T} : T \notin References(u)
  BY Zenon DEF CanExecute
<1>3. CanExecute(<<"drop_type", T, z>>) <=> \A u \in db.tables : T \notin TypesOf(u)
  BY Zenon DEF CanExecute
<1>4. CanExecute(<<"create_type", T, z>>) <=> T \notin db.types
  BY Zenon DEF CanExecute
<1>5. CanExecute(<<"add_rule", T, z>>) <=> RowsMeet(T, z)
  BY Zenon DEF CanExecute
<1>6. CanExecute(<<"drop_rule", T, z>>) /\ CanExecute(<<"rows", T, z>>)
  BY DEF CanExecute
<1>7. QED
  BY <1>1, <1>2, <1>3, <1>4, <1>5, <1>6

\* Each table of the initial schema can be created after those before it.
LEMMA InitialUp ==
    ASSUME NEW t \in 1..9, NEW n \in 0..9, DbAt(db, 0, t, n)
    PROVE  /\ CanExecute(Up("initial")[n + 1])
           /\ db' = Executed(Up("initial")[n + 1]) => DbAt(db', 0, t, n + 1)
<1> DEFINE T == InitialTables[n + 1]
<1>1. Up("initial")[n + 1] = <<"create_table", T, "-">>
  BY UpInitial
<1>2. /\ db.tables \subseteq ToSet(InitialTables) \cup
                    {"product_images", "inventory_history", "order_status_history"}
      /\ \A i \in 1..10 : InitialTables[i] \in db.tables <=> n >= i
      /\ "product_images" \notin db.tables /\ "inventory_history" \notin db.tables
      /\ "order_status_history" \notin db.tables
  BY DEF DbAt, TablesAt, Past
<1>3. /\ db.types \subseteq {"user_role", "order_status", "payment_status", "shipment_status",
                            "sale_kind", "inventory_change_kind", "order_status_change_source"}
      /\ "user_role" \in db.types <=> n >= 1
      /\ "order_status" \in db.types <=> n >= 6
      /\ "payment_status" \in db.types <=> n >= 8
      /\ "shipment_status" \in db.types <=> n >= 9
      /\ "sale_kind" \notin db.types /\ "inventory_change_kind" \notin db.types
      /\ "order_status_change_source" \notin db.types
  BY DEF DbAt, TypesAt, Past
<1>4. TypesOf(T) = IF n = 0 THEN {"user_role"} ELSE IF n = 5 THEN {"order_status"}
                   ELSE IF n = 7 THEN {"payment_status"} ELSE IF n = 8 THEN {"shipment_status"}
                   ELSE {}
  <2>1. n + 1 \in 1..10
    OBVIOUS
  <2>2. TypesOf(T) =
          IF n + 1 = 1 THEN {"user_role"} ELSE IF n + 1 = 6 THEN {"order_status"}
          ELSE IF n + 1 = 8 THEN {"payment_status"} ELSE IF n + 1 = 9 THEN {"shipment_status"} ELSE {}
    BY <2>1, TypesOfTables, Zenon
  <2>3. QED
    BY <2>2
<1>5. CanExecute(Up("initial")[n + 1])
  <2>1. References(T) \subseteq db.tables
    BY <1>2, RefersBack
  <2>2. CreatedTypes(T) = TypesOf(T)
    BY ListedOnce DEF CreatedTypes
  <2>3. TypesOf(T) \cap db.types = {}
    BY <1>3, <1>4
  <2>4. QED
    BY <1>1, <2>1, <2>2, <2>3, CanCreateOrDrop
<1>6. ASSUME db' = Executed(Up("initial")[n + 1])
      PROVE  DbAt(db', 0, t, n + 1)
  <2>1. /\ IsDb(db') /\ db'.tables = db.tables \cup {T}
        /\ db'.types = db.types \cup TypesOf(T) /\ db'.rules = db.rules \cup RulesOf(T)
        /\ db'.status = db.status /\ db'.kinds = db.kinds /\ db'.shipment = db.shipment
    BY <1>1, <1>6, CreateTable, Zenon DEF DbAt
  <2>2. TablesAt(db', 0, t, n + 1)
    BY <1>2, <2>1, ListedOnce DEF TablesAt, Past
  <2>3. TypesAt(db', 0, t, n + 1)
    BY <1>3, <1>4, <2>1 DEF TypesAt, Past
  <2>4. RulesAt(db', 0, t, n + 1)
    <3>1. \A i \in 1..7 : UniqueTables[i] \in db.tables => <<"uq", UniqueTables[i]>> \in db.rules
      BY DEF DbAt, RulesAt, Past
    <3>2. "sales" \in db.tables => <<"not_negative", "sales">> \in db.rules
      BY DEF DbAt, RulesAt, Past
    <3>3. /\ \A i \in 1..7 : UniqueTables[i] = T => <<"uq", UniqueTables[i]>> \in RulesOf(T)
          /\ "sales" = T => <<"not_negative", "sales">> \in RulesOf(T)
      BY ListedOnce DEF RulesOf
    <3>4. QED
      BY <2>1, <3>1, <3>2, <3>3 DEF RulesAt, Past
  <2>5. RowsAt(db', 0, t, n + 1)
    BY <2>1, RowsKept DEF DbAt, Crossed
  <2>6. QED
    BY <2>1, <2>2, <2>3, <2>4, <2>5 DEF DbAt, RowsTyped
<1>7. QED
  BY <1>5, <1>6

\* They are dropped in the opposite order, their rows with them, and then their types.
LEMMA InitialDown ==
    ASSUME NEW n \in 0..13, DbAt(db, 1, 0, n)
    PROVE  /\ CanExecute(Down("initial")[n + 1])
           /\ db' = Executed(Down("initial")[n + 1]) => DbAt(db', 1, 0, n + 1)
<1>1. /\ db.tables \subseteq ToSet(InitialTables) \cup
                    {"product_images", "inventory_history", "order_status_history"}
      /\ \A i \in 1..10 : InitialTables[i] \in db.tables <=> n < 11 - i
      /\ "product_images" \notin db.tables /\ "inventory_history" \notin db.tables
      /\ "order_status_history" \notin db.tables
  BY DEF DbAt, TablesAt, Past
<1>2. /\ db.types \subseteq {"user_role", "order_status", "payment_status", "shipment_status",
                            "sale_kind", "inventory_change_kind", "order_status_change_source"}
      /\ "user_role" \in db.types <=> n < 14
      /\ "order_status" \in db.types <=> n < 13
      /\ "payment_status" \in db.types <=> n < 12
      /\ "shipment_status" \in db.types <=> n < 11
      /\ "sale_kind" \notin db.types /\ "inventory_change_kind" \notin db.types
      /\ "order_status_change_source" \notin db.types
  BY DEF DbAt, TypesAt, Past
<1>3. /\ \A i \in 1..7 : UniqueTables[i] \in db.tables => <<"uq", UniqueTables[i]>> \in db.rules
      /\ "sales" \in db.tables => <<"not_negative", "sales">> \in db.rules
  BY DEF DbAt, RulesAt, Past
<1>4. CASE n \in 0..9
  <2> DEFINE T == InitialTables[10 - n]
  <2>1. Down("initial")[n + 1] = <<"drop_table", T, "-">>
    BY <1>4, DownInitial
  <2>2. CanExecute(Down("initial")[n + 1])
    <3>1. ASSUME NEW u \in db.tables \ {T}
          PROVE  T \notin References(u)
      <4>1. PICK i \in 1..10 : u = InitialTables[i]
        BY <1>1, <3>1, ListedOnce
      <4>2. i < 10 - n
        BY <1>1, <1>4, <3>1, <4>1
      <4>3. QED
        BY <1>4, <4>1, <4>2, RefersBack, ListedOnce
    <3>2. QED
      BY <2>1, <3>1, CanCreateOrDrop
  <2>3. ASSUME db' = Executed(Down("initial")[n + 1])
        PROVE  DbAt(db', 1, 0, n + 1)
    <3>1. /\ IsDb(db') /\ db'.tables = db.tables \ {T}
          /\ db'.types = db.types /\ db'.rules = {r \in db.rules : r[2] # T}
          /\ db'.status = (IF T = "orders" THEN EmptyDb.status ELSE db.status)
          /\ db'.kinds = (IF T = "sales" THEN EmptyDb.kinds ELSE db.kinds)
          /\ db'.shipment = (IF T = "shipments" THEN EmptyDb.shipment ELSE db.shipment)
      BY <2>1, <2>3, DropTable, Zenon DEF DbAt
    <3>2. TablesAt(db', 1, 0, n + 1)
      BY <1>1, <1>4, <3>1, ListedOnce DEF TablesAt, Past
    <3>3. TypesAt(db', 1, 0, n + 1)
      BY <1>2, <1>4, <3>1 DEF TypesAt, Past
    <3>4. RulesAt(db', 1, 0, n + 1)
      BY <1>3, <3>1 DEF RulesAt, Past
    <3>5. RowsTyped(db') /\ RowsAt(db', 1, 0, n + 1)
      BY <3>1 DEF DbAt, RowsTyped, RowsAt, Past, EmptyDb, Absent, OldOrderStatus
    <3>6. QED
      BY <3>1, <3>2, <3>3, <3>4, <3>5 DEF DbAt
  <2>4. QED
    BY <2>2, <2>3
<1>5. CASE n \in 10..13
  <2> DEFINE Y == IF n = 10 THEN "shipment_status" ELSE IF n = 11 THEN "payment_status"
                  ELSE IF n = 12 THEN "order_status" ELSE "user_role"
  <2>1. Down("initial")[n + 1] = <<"drop_type", Y, "-">>
    BY <1>5, DownInitial
  <2>2. db.tables = {}
    BY <1>1, <1>5, ListedOnce
  <2>3. CanExecute(Down("initial")[n + 1])
    BY <2>1, <2>2, CanCreateOrDrop
  <2>4. ASSUME db' = Executed(Down("initial")[n + 1])
        PROVE  DbAt(db', 1, 0, n + 1)
    <3>1. /\ IsDb(db') /\ db'.tables = db.tables
          /\ db'.types = db.types \ {Y} /\ db'.rules = db.rules
          /\ db'.status = db.status /\ db'.kinds = db.kinds /\ db'.shipment = db.shipment
      BY <2>1, <2>4, DropType, Zenon DEF DbAt
    <3>2. TablesAt(db', 1, 0, n + 1)
      BY <1>1, <1>5, <3>1 DEF TablesAt, Past
    <3>3. TypesAt(db', 1, 0, n + 1)
      BY <1>2, <1>5, <3>1 DEF TypesAt, Past
    <3>4. RulesAt(db', 1, 0, n + 1)
      BY <2>2, <3>1 DEF RulesAt
    <3>5. RowsAt(db', 1, 0, n + 1)
      BY <3>1, RowsKept DEF DbAt, Crossed
    <3>6. QED
      BY <3>1, <3>2, <3>3, <3>4, <3>5 DEF DbAt, RowsTyped
  <2>5. QED
    BY <2>3, <2>4
<1>6. QED
  BY <1>4, <1>5

-----------------------------------------------------------------------------
(***************************************************************************)
(* The images, and the status that went.                                   *)
(***************************************************************************)
\* The tables there are, by name, and the type that only one of them uses.
LEMMA UsersOfTypes ==
    ASSUME NEW d, NEW r, NEW t, NEW n, TablesAt(d, r, t, n), NEW u \in d.tables
    PROVE  /\ "shipment_status" \in TypesOf(u) <=> u = "shipments"
           /\ "order_status" \in TypesOf(u) <=> u \in {"orders", "order_status_history"}
           /\ "inventory_change_kind" \in TypesOf(u) <=> u = "inventory_history"
           /\ "order_status_change_source" \in TypesOf(u) <=> u = "order_status_history"
           /\ "sale_kind" \notin TypesOf(u)
<1>1. CASE u \in {"product_images", "inventory_history", "order_status_history"}
  BY <1>1, TypesOfTables
<1>2. CASE u \in ToSet(InitialTables)
  <2>1. PICK i \in 1..10 : u = InitialTables[i]
    BY <1>2, ListedOnce
  <2>2. /\ u = "shipments" <=> i = 9
        /\ u = "orders" <=> i = 6
        /\ u \notin {"product_images", "inventory_history", "order_status_history"}
    BY <2>1, Listed, ListedOnce
  <2>3. TypesOf(u) = IF i = 1 THEN {"user_role"} ELSE IF i = 6 THEN {"order_status"}
          ELSE IF i = 8 THEN {"payment_status"} ELSE IF i = 9 THEN {"shipment_status"} ELSE {}
    BY <2>1, TypesOfTables, Zenon
  <2>4. QED
    BY <2>2, <2>3
<1>3. QED
  BY <1>1, <1>2 DEF TablesAt

\* Nothing but the products is tied to the images' table.
LEMMA ImagesAlone ==
    /\ References("product_images") = {"products"} /\ TypesOf("product_images") = {}
    /\ CreatedTypes("product_images") = {} /\ "product_images" # "sales"
    /\ \A i \in 1..7 : UniqueTables[i] # "product_images"
BY Listed, TypesOfTables DEF References, CreatedTypes

\* The images' table can be created beside the others.
LEMMA ImagesUp ==
    ASSUME NEW t \in 2..9, DbAt(db, 1, t, 0)
    PROVE  /\ CanExecute(Up("images")[1])
           /\ db' = Executed(Up("images")[1]) => DbAt(db', 1, t, 1)
<1>1. Up("images")[1] = <<"create_table", "product_images", "-">>
  BY ShortRevisions
<1>2. "products" \in db.tables
  BY Listed DEF DbAt, TablesAt, Past
<1>3. CanExecute(Up("images")[1])
  <2>1. References("product_images") \subseteq db.tables
        /\ CreatedTypes("product_images") \cap db.types = {}
    BY <1>2, ImagesAlone
  <2>2. QED
    BY <1>1, <2>1, CanCreateOrDrop, Zenon
<1>4. ASSUME db' = Executed(Up("images")[1])
      PROVE  DbAt(db', 1, t, 1)
  <2>1. /\ IsDb(db') /\ db'.tables = db.tables \cup {"product_images"}
        /\ db'.types = db.types \cup TypesOf("product_images")
        /\ db'.rules = db.rules \cup RulesOf("product_images")
        /\ db'.status = db.status /\ db'.kinds = db.kinds /\ db'.shipment = db.shipment
    BY <1>1, <1>4, CreateTable, Zenon DEF DbAt
  <2>2. TablesAt(db', 1, t, 1)
    BY <2>1, ListedOnce DEF DbAt, TablesAt, Past
  <2>3. TypesAt(db', 1, t, 1)
    <3>1. db'.types = db.types /\ TypesAt(db, 1, t, 0)
      BY ImagesAlone, <2>1 DEF DbAt
    <3>2. Crossed(1, t) \notin {1, 5, 7} /\ 1 # t /\ t \in 0..9
      BY DEF Crossed
    <3>3. QED
      BY <3>1, <3>2, TypesKept
  <2>4. RulesAt(db', 1, t, 1)
    <3>1. KeepsRules(db, db')
      BY ImagesAlone, <2>1 DEF KeepsRules
    <3>2. QED
      BY <3>1, RulesKept DEF DbAt, Crossed
  <2>5. RowsAt(db', 1, t, 1)
    BY <2>1, RowsKept DEF DbAt, Crossed
  <2>6. QED
    BY <2>1, <2>2, <2>3, <2>4, <2>5 DEF DbAt, RowsTyped
<1>5. QED
  BY <1>3, <1>4

\* It can be dropped again.
LEMMA ImagesDown ==
    ASSUME NEW t \in 0..1, DbAt(db, 2, t, 0)
    PROVE  /\ CanExecute(Down("images")[1])
           /\ db' = Executed(Down("images")[1]) => DbAt(db', 2, t, 1)
<1>1. Down("images")[1] = <<"drop_table", "product_images", "-">>
  BY ShortRevisions
<1>2. \A u \in db.tables \ {"product_images"} : "product_images" \notin References(u)
  <2>1. \A u \in db.tables \ {"product_images"} : \E i \in 1..10 : u = InitialTables[i]
    BY ListedOnce DEF DbAt, TablesAt, Past
  <2>2. QED
    BY <2>1, RefersBack, ListedOnce
<1>3. CanExecute(Down("images")[1])
  BY <1>1, <1>2, CanCreateOrDrop
<1>4. ASSUME db' = Executed(Down("images")[1])
      PROVE  DbAt(db', 2, t, 1)
  <2>1. /\ IsDb(db') /\ db'.tables = db.tables \ {"product_images"}
        /\ db'.types = db.types /\ db'.rules = {r \in db.rules : r[2] # "product_images"}
        /\ db'.status = db.status /\ db'.kinds = db.kinds /\ db'.shipment = db.shipment
    BY <1>1, <1>4, DropTable DEF DbAt
  <2>2. TablesAt(db', 2, t, 1)
    BY <2>1, ListedOnce DEF DbAt, TablesAt, Past
  <2>3. TypesAt(db', 2, t, 1)
    BY <2>1, TypesKept DEF DbAt, Crossed
  <2>4. RulesAt(db', 2, t, 1)
    <3>1. KeepsRules(db, db')
      BY ImagesAlone, <2>1 DEF KeepsRules
    <3>2. QED
      BY <3>1, RulesKept DEF DbAt, Crossed
  <2>5. RowsAt(db', 2, t, 1)
    BY <2>1, RowsKept DEF DbAt, Crossed
  <2>6. QED
    BY <2>1, <2>2, <2>3, <2>4, <2>5 DEF DbAt, RowsTyped
<1>5. QED
  BY <1>3, <1>4

\* A type can be swapped when one table uses it and its new values cover the rows.
LEMMA CanSwap ==
    ASSUME NEW Y, NEW z
    PROVE  CanExecute(<<"swap_type", Y, z>>) <=>
              /\ Cardinality({v \in db.tables : Y \in TypesOf(v)}) = 1
              /\ \A o \in Order : IF Y = "order_status"
                                  THEN db.status[o] \in ValuesOf(Y, z) \cup {"none"}
                                  ELSE db.shipment[o].status \in ValuesOf(Y, z) \cup {"none"}
BY Zenon DEF CanExecute

\* Before the histories came, orders alone used the orders' statuses.
LEMMA CanSwapOrders ==
    ASSUME NEW r \in 2..5, NEW t \in 0..9, NEW n, TablesAt(db, r, t, n), NEW z,
           \A o \in Order : db.status[o] \in ValuesOf("order_status", z) \cup {"none"}
    PROVE  CanExecute(<<"swap_type", "order_status", z>>)
<1>1. "orders" = InitialTables[6]
  BY Listed
<1>2. "orders" \in db.tables /\ "order_status_history" \notin db.tables
  BY <1>1 DEF TablesAt, Past
<1>3. {v \in db.tables : "order_status" \in TypesOf(v)} = {"orders"}
  BY <1>2, UsersOfTypes
<1>4. Cardinality({v \in db.tables : "order_status" \in TypesOf(v)}) = 1
  BY <1>3, FS_Singleton
<1>5. QED
  BY <1>4, CanSwap

\* Shipments alone use theirs.
LEMMA CanSwapShipments ==
    ASSUME NEW r \in 2..9, NEW t \in 0..9, NEW n, TablesAt(db, r, t, n), NEW z,
           \A o \in Order : db.shipment[o].status \in ValuesOf("shipment_status", z) \cup {"none"}
    PROVE  CanExecute(<<"swap_type", "shipment_status", z>>)
<1>1. "shipments" = InitialTables[9]
  BY Listed
<1>2. "shipments" \in db.tables
  BY <1>1 DEF TablesAt, Past
<1>3. {v \in db.tables : "shipment_status" \in TypesOf(v)} = {"shipments"}
  BY <1>2, UsersOfTypes
<1>4. Cardinality({v \in db.tables : "shipment_status" \in TypesOf(v)}) = 1
  BY <1>3, FS_Singleton
<1>5. QED
  BY <1>4, CanSwap

\* The waiting orders are folded into the pending ones before their status goes.
LEMMA AwaitingUp ==
    ASSUME NEW t \in 3..9, NEW n \in 0..1, DbAt(db, 2, t, n)
    PROVE  /\ CanExecute(Up("awaiting")[n + 1])
           /\ db' = Executed(Up("awaiting")[n + 1]) => DbAt(db', 2, t, n + 1)
<1>1. CASE n = 0
  <2>1. Up("awaiting")[n + 1] = <<"rows", "fold_awaiting", "-">>
    BY <1>1, ShortRevisions
  <2>2. CanExecute(Up("awaiting")[n + 1])
    BY <2>1, CanCreateOrDrop
  <2>3. ASSUME db' = Executed(Up("awaiting")[n + 1])
        PROVE  DbAt(db', 2, t, n + 1)
    <3>1. /\ IsDb(db') /\ db'.tables = db.tables /\ db'.types = db.types /\ db'.rules = db.rules
          /\ db'.status = [o \in Order |-> Folded(db.status[o])]
          /\ db'.kinds = db.kinds /\ db'.shipment = db.shipment
      BY <2>1, <2>3, RewrittenRows DEF DbAt
    <3>2. TablesAt(db', 2, t, n + 1) /\ TypesAt(db', 2, t, n + 1)
      BY <3>1, TablesKept, TypesKept DEF DbAt, Crossed
    <3>3. RulesAt(db', 2, t, n + 1)
      <4>1. KeepsRules(db, db')
        BY <3>1 DEF KeepsRules
      <4>2. QED
        BY <4>1, RulesKept DEF DbAt, Crossed
    <3>4. RowsTyped(db')
      BY <3>1 DEF DbAt, RowsTyped, Folded, OldOrderStatus
    <3>5. RowsAt(db', 2, t, n + 1)
      BY <1>1, <3>1 DEF DbAt, RowsAt, Past, Folded
    <3>6. QED
      BY <3>1, <3>2, <3>3, <3>4, <3>5 DEF DbAt
  <2>4. QED
    BY <2>2, <2>3
<1>2. CASE n = 1
  <2>1. Up("awaiting")[n + 1] = <<"swap_type", "order_status", "new">>
    BY <1>2, ShortRevisions
  <2>2. \A o \in Order : db.status[o] \in NewOrderStatus \cup {"none"}
    BY <1>2 DEF DbAt, RowsTyped, RowsAt, Past, NewOrderStatus
  <2>3. ValuesOf("order_status", "new") = NewOrderStatus
    BY DEF ValuesOf
  <2>4. CanExecute(Up("awaiting")[n + 1])
    BY <2>1, <2>2, <2>3, CanSwapOrders DEF DbAt
  <2>5. ASSUME db' = Executed(Up("awaiting")[n + 1])
        PROVE  DbAt(db', 2, t, n + 1)
    <3>1. /\ IsDb(db') /\ db'.tables = db.tables /\ db'.types = db.types /\ db'.rules = db.rules
          /\ db'.status = db.status /\ db'.kinds = db.kinds /\ db'.shipment = db.shipment
      BY <2>1, <2>5, SwapType, Zenon DEF DbAt
    <3>2. TablesAt(db', 2, t, n + 1) /\ TypesAt(db', 2, t, n + 1)
      BY <3>1, TablesKept, TypesKept DEF DbAt, Crossed
    <3>3. RulesAt(db', 2, t, n + 1)
      <4>1. KeepsRules(db, db')
        BY <3>1 DEF KeepsRules
      <4>2. QED
        BY <4>1, RulesKept DEF DbAt, Crossed
    <3>4. RowsAt(db', 2, t, n + 1)
      BY <1>2, <3>1 DEF DbAt, RowsAt, Past
    <3>5. QED
      BY <3>1, <3>2, <3>3, <3>4 DEF DbAt, RowsTyped
  <2>6. QED
    BY <2>4, <2>5
<1>3. QED
  BY <1>1, <1>2

\* The old values of the type cover whatever the rows hold.
LEMMA AwaitingDown ==
    ASSUME NEW t \in 0..2, DbAt(db, 3, t, 0)
    PROVE  /\ CanExecute(Down("awaiting")[1])
           /\ db' = Executed(Down("awaiting")[1]) => DbAt(db', 3, t, 1)
<1>1. Down("awaiting")[1] = <<"swap_type", "order_status", "old">>
  BY ShortRevisions
<1>2. \A o \in Order : db.status[o] \in OldOrderStatus \cup {"none"}
  BY DEF DbAt, RowsTyped
<1>3. ValuesOf("order_status", "old") = OldOrderStatus
  BY DEF ValuesOf
<1>4. CanExecute(Down("awaiting")[1])
  BY <1>1, <1>2, <1>3, CanSwapOrders DEF DbAt
<1>5. ASSUME db' = Executed(Down("awaiting")[1])
      PROVE  DbAt(db', 3, t, 1)
  <2>1. /\ IsDb(db') /\ db'.tables = db.tables /\ db'.types = db.types /\ db'.rules = db.rules
        /\ db'.status = db.status /\ db'.kinds = db.kinds /\ db'.shipment = db.shipment
    BY <1>1, <1>5, SwapType, Zenon DEF DbAt
  <2>2. TablesAt(db', 3, t, 1) /\ TypesAt(db', 3, t, 1)
    BY <2>1, TablesKept, TypesKept DEF DbAt, Crossed
  <2>3. RulesAt(db', 3, t, 1)
    <3>1. KeepsRules(db, db')
      BY <2>1 DEF KeepsRules
    <3>2. QED
      BY <3>1, RulesKept DEF DbAt, Crossed
  <2>4. RowsAt(db', 3, t, 1)
    BY <2>1 DEF DbAt, RowsAt, Past
  <2>5. QED
    BY <2>1, <2>2, <2>3, <2>4 DEF DbAt, RowsTyped
<1>6. QED
  BY <1>4, <1>5

-----------------------------------------------------------------------------
(***************************************************************************)
(* Unique indexes instead of constraints, and the ledger.                  *)
(***************************************************************************)
\* What the rows must meet before a rule is added.
LEMMA RulesMet ==
    ASSUME NEW T
    PROVE  /\ RowsMeet("plain", T) /\ RowsMeet("pair", T) /\ RowsMeet("sign", T)
           /\ (\A o \in Order : db.kinds[o] \subseteq {"sale"}) =>
                 RowsMeet("ix", T) /\ RowsMeet("uq", T) /\ RowsMeet("not_negative", T)
<1>1. RowsMeet("plain", T) /\ RowsMeet("pair", T) /\ RowsMeet("sign", T)
  BY DEF RowsMeet
<1>2. ASSUME \A o \in Order : db.kinds[o] \subseteq {"sale"}
      PROVE  RowsMeet("ix", T) /\ RowsMeet("uq", T) /\ RowsMeet("not_negative", T)
  <2>1. ASSUME NEW o \in Order
        PROVE  Cardinality(db.kinds[o]) <= 1 /\ "reversal" \notin db.kinds[o]
    <3>1. db.kinds[o] = {} \/ db.kinds[o] = {"sale"}
      BY <1>2
    <3>2. Cardinality({}) = 0 /\ Cardinality({"sale"}) = 1
      BY FS_EmptySet, FS_Singleton, Zenon
    <3>3. CASE db.kinds[o] = {}
      BY <3>2, <3>3
    <3>4. CASE db.kinds[o] = {"sale"}
      BY <3>2, <3>4
    <3>5. QED
      BY <3>1, <3>3, <3>4
  <2>2. QED
    BY <2>1 DEF RowsMeet
<1>3. QED
  BY <1>1, <1>2

\* The three steps of a table keep its column unique throughout, on the way up.
LEMMA UniqueUpStep ==
    ASSUME NEW t \in 4..9, NEW n \in 0..20, DbAt(db, 3, t, n)
    PROVE  /\ CanExecute(Up("unique")[n + 1])
           /\ db' = Executed(Up("unique")[n + 1]) => DbAt(db', 3, t, n + 1)
<1>1. PICK j \in 0..6 : n = 3 * j \/ n = 3 * j + 1 \/ n = 3 * j + 2
  <2>1. n = 3 * (n \div 3) \/ n = 3 * (n \div 3) + 1 \/ n = 3 * (n \div 3) + 2
    OBVIOUS
  <2>2. n \div 3 \in 0..6
    OBVIOUS
  <2>3. QED
    BY <2>1, <2>2
<1> DEFINE T == UniqueTables[j + 1]
           e == Up("unique")[n + 1]
<1>2. /\ n = 3 * j => e = <<"drop_rule", "plain", T>>
      /\ n = 3 * j + 1 => e = <<"add_rule", "ix", T>>
      /\ n = 3 * j + 2 => e = <<"drop_rule", "uq", T>>
  BY BothUnique
<1>3. /\ \A i \in 1..7 : UniqueTables[i] \in db.tables =>
            /\ n < 3 * i => <<"uq", UniqueTables[i]>> \in db.rules
            /\ n >= 3 * i - 1 => <<"ix", UniqueTables[i]>> \in db.rules
      /\ "sales" \in db.tables => <<"not_negative", "sales">> \in db.rules
  BY DEF DbAt, RulesAt, Past
<1>4. CanExecute(e)
  <2>1. \A o \in Order : db.kinds[o] \subseteq {"sale"}
    BY DEF DbAt, RowsTyped, RowsAt, Past
  <2>2. RowsMeet("ix", T)
    BY <2>1, RulesMet
  <2>3. QED
    BY <1>1, <1>2, <2>2, CanCreateOrDrop
<1> HIDE DEF e, T
<1>5. ASSUME db' = Executed(e)
      PROVE  DbAt(db', 3, t, n + 1)
  <2>1. /\ IsDb(db') /\ db'.tables = db.tables /\ db'.types = db.types
        /\ db'.status = db.status /\ db'.kinds = db.kinds /\ db'.shipment = db.shipment
        /\ n = 3 * j => db'.rules = db.rules \ {<<"plain", T>>}
        /\ n = 3 * j + 1 => db'.rules = db.rules \cup {<<"ix", T>>}
        /\ n = 3 * j + 2 => db'.rules = db.rules \ {<<"uq", T>>}
    BY <1>1, <1>2, <1>5, AddRule, DropRule DEF DbAt
  <2>2. TablesAt(db', 3, t, n + 1) /\ TypesAt(db', 3, t, n + 1) /\ RowsAt(db', 3, t, n + 1)
    BY <2>1, TablesKept, TypesKept, RowsKept DEF DbAt, Crossed
  <2>3. ASSUME NEW i \in 1..7, UniqueTables[i] \in db.tables
        PROVE  /\ n + 1 < 3 * i => <<"uq", UniqueTables[i]>> \in db'.rules
               /\ n + 1 >= 3 * i - 1 => <<"ix", UniqueTables[i]>> \in db'.rules
    <3>1. UniqueTables[i] = T <=> i = j + 1
      BY ListedOnce DEF T
    <3>2. QED
      BY <1>1, <1>3, <2>1, <2>3, <3>1
  <2>4. "sales" \in db.tables => <<"not_negative", "sales">> \in db'.rules
    BY <1>1, <1>3, <2>1
  <2>5. RulesAt(db', 3, t, n + 1)
    BY <2>1, <2>3, <2>4 DEF RulesAt, Past
  <2>6. QED
    BY <2>1, <2>2, <2>5 DEF DbAt, RowsTyped
<1>6. QED
  BY <1>4, <1>5 DEF e

\* And on the way down.
LEMMA UniqueDownStep ==
    ASSUME NEW t \in 0..3, NEW n \in 0..20, DbAt(db, 4, t, n)
    PROVE  /\ CanExecute(Down("unique")[n + 1])
           /\ db' = Executed(Down("unique")[n + 1]) => DbAt(db', 4, t, n + 1)
<1>1. PICK j \in 0..6 : n = 3 * j \/ n = 3 * j + 1 \/ n = 3 * j + 2
  <2>1. n = 3 * (n \div 3) \/ n = 3 * (n \div 3) + 1 \/ n = 3 * (n \div 3) + 2
    OBVIOUS
  <2>2. n \div 3 \in 0..6
    OBVIOUS
  <2>3. QED
    BY <2>1, <2>2
<1> DEFINE T == UniqueTables[j + 1]
           e == Down("unique")[n + 1]
<1>2. /\ n = 3 * j => e = <<"add_rule", "uq", T>>
      /\ n = 3 * j + 1 => e = <<"drop_rule", "ix", T>>
      /\ n = 3 * j + 2 => e = <<"add_rule", "plain", T>>
  BY BothUnique
<1>3. /\ \A i \in 1..7 : UniqueTables[i] \in db.tables =>
            /\ n >= 3 * i - 2 => <<"uq", UniqueTables[i]>> \in db.rules
            /\ n < 3 * i - 1 => <<"ix", UniqueTables[i]>> \in db.rules
      /\ "sales" \in db.tables => <<"not_negative", "sales">> \in db.rules
  BY DEF DbAt, RulesAt, Past
<1>4. CanExecute(e)
  <2>1. \A o \in Order : db.kinds[o] \subseteq {"sale"}
    BY DEF DbAt, RowsTyped, RowsAt, Past
  <2>2. RowsMeet("uq", T) /\ RowsMeet("plain", T)
    BY <2>1, RulesMet
  <2>3. QED
    BY <1>1, <1>2, <2>2, CanCreateOrDrop
<1> HIDE DEF e, T
<1>5. ASSUME db' = Executed(e)
      PROVE  DbAt(db', 4, t, n + 1)
  <2>1. /\ IsDb(db') /\ db'.tables = db.tables /\ db'.types = db.types
        /\ db'.status = db.status /\ db'.kinds = db.kinds /\ db'.shipment = db.shipment
        /\ n = 3 * j => db'.rules = db.rules \cup {<<"uq", T>>}
        /\ n = 3 * j + 1 => db'.rules = db.rules \ {<<"ix", T>>}
        /\ n = 3 * j + 2 => db'.rules = db.rules \cup {<<"plain", T>>}
    BY <1>1, <1>2, <1>5, AddRule, DropRule DEF DbAt
  <2>2. TablesAt(db', 4, t, n + 1) /\ TypesAt(db', 4, t, n + 1) /\ RowsAt(db', 4, t, n + 1)
    BY <2>1, TablesKept, TypesKept, RowsKept DEF DbAt, Crossed
  <2>3. ASSUME NEW i \in 1..7, UniqueTables[i] \in db.tables
        PROVE  /\ n + 1 >= 3 * i - 2 => <<"uq", UniqueTables[i]>> \in db'.rules
               /\ n + 1 < 3 * i - 1 => <<"ix", UniqueTables[i]>> \in db'.rules
    <3>1. UniqueTables[i] = T <=> i = j + 1
      BY ListedOnce DEF T
    <3>2. QED
      BY <1>1, <1>3, <2>1, <2>3, <3>1
  <2>4. "sales" \in db.tables => <<"not_negative", "sales">> \in db'.rules
    BY <1>1, <1>3, <2>1
  <2>5. RulesAt(db', 4, t, n + 1)
    BY <2>1, <2>3, <2>4 DEF RulesAt, Past
  <2>6. QED
    BY <2>1, <2>2, <2>5 DEF DbAt, RowsTyped
<1>6. QED
  BY <1>4, <1>5 DEF e

\* The ledger's rules are exchanged one by one, and the reversals owed are written last.
LEMMA LedgerUp ==
    ASSUME NEW t \in 5..9, NEW n \in 0..5, DbAt(db, 4, t, n)
    PROVE  /\ CanExecute(Up("ledger")[n + 1])
           /\ db' = Executed(Up("ledger")[n + 1]) => DbAt(db', 4, t, n + 1)
<1> DEFINE e == Up("ledger")[n + 1]
<1>1. /\ n = 0 => e = <<"create_type", "sale_kind", "-">>
      /\ n = 1 => e = <<"add_rule", "pair", "sales">>
      /\ n = 2 => e = <<"drop_rule", "ix", "sales">>
      /\ n = 3 => e = <<"add_rule", "sign", "sales">>
      /\ n = 4 => e = <<"drop_rule", "not_negative", "sales">>
      /\ n = 5 => e = <<"rows", "reverse", "-">>
  BY BothLedger
<1>2. n = 0 \/ n = 1 \/ n = 2 \/ n = 3 \/ n = 4 \/ n = 5
  OBVIOUS
<1>3. /\ \A i \in 1..7 : UniqueTables[i] \in db.tables /\ UniqueTables[i] # "sales" =>
            <<"ix", UniqueTables[i]>> \in db.rules
      /\ "sales" \in db.tables =>
            /\ n < 3 => <<"ix", "sales">> \in db.rules
            /\ n >= 2 => <<"pair", "sales">> \in db.rules
            /\ n < 5 => <<"not_negative", "sales">> \in db.rules
            /\ n >= 4 => <<"sign", "sales">> \in db.rules
  BY Listed DEF DbAt, RulesAt, Past
<1>4. CanExecute(e)
  <2>1. n = 0 => "sale_kind" \notin db.types
    BY DEF DbAt, TypesAt, Past
  <2>2. RowsMeet("pair", "sales") /\ RowsMeet("sign", "sales")
    BY RulesMet
  <2>3. /\ "sale_kind" \notin db.types => CanExecute(<<"create_type", "sale_kind", "-">>)
        /\ CanExecute(<<"add_rule", "pair", "sales">>)
        /\ CanExecute(<<"drop_rule", "ix", "sales">>)
        /\ CanExecute(<<"add_rule", "sign", "sales">>)
        /\ CanExecute(<<"drop_rule", "not_negative", "sales">>)
        /\ CanExecute(<<"rows", "reverse", "-">>)
    BY <2>2, CanCreateOrDrop, Zenon
  <2>4. QED
    BY <1>1, <1>2, <2>1, <2>3
<1> HIDE DEF e
<1>5. ASSUME db' = Executed(e)
      PROVE  DbAt(db', 4, t, n + 1)
  <2>1. CASE n < 5
    <3>1. /\ IsDb(db') /\ db'.tables = db.tables
          /\ db'.status = db.status /\ db'.kinds = db.kinds /\ db'.shipment = db.shipment
          /\ n = 0 => db'.types = db.types \cup {"sale_kind"} /\ db'.rules = db.rules
          /\ n # 0 => db'.types = db.types
          /\ n = 1 => db'.rules = db.rules \cup {<<"pair", "sales">>}
          /\ n = 2 => db'.rules = db.rules \ {<<"ix", "sales">>}
          /\ n = 3 => db'.rules = db.rules \cup {<<"sign", "sales">>}
          /\ n = 4 => db'.rules = db.rules \ {<<"not_negative", "sales">>}
      BY <1>1, <1>2, <1>5, <2>1, CreateType, AddRule, DropRule DEF DbAt
    <3>2. TablesAt(db', 4, t, n + 1)
      BY <3>1, TablesKept DEF DbAt, Crossed
    <3>3. TypesAt(db', 4, t, n + 1)
      BY <2>1, <3>1 DEF DbAt, TypesAt, Past
    <3>4. RulesAt(db', 4, t, n + 1)
      <4>1. \A i \in 1..7 : UniqueTables[i] \in db.tables /\ UniqueTables[i] # "sales" =>
                <<"ix", UniqueTables[i]>> \in db'.rules
        BY <1>2, <1>3, <2>1, <3>1
      <4>2. "sales" \in db.tables =>
                /\ n + 1 < 3 => <<"ix", "sales">> \in db'.rules
                /\ n + 1 >= 2 => <<"pair", "sales">> \in db'.rules
                /\ n + 1 < 5 => <<"not_negative", "sales">> \in db'.rules
                /\ n + 1 >= 4 => <<"sign", "sales">> \in db'.rules
        BY <1>2, <1>3, <2>1, <3>1
      <4>3. QED
        BY <3>1, <4>1, <4>2, Listed DEF RulesAt, Past
    <3>5. RowsAt(db', 4, t, n + 1)
      BY <2>1, <3>1 DEF DbAt, RowsAt, Past
    <3>6. QED
      BY <3>1, <3>2, <3>3, <3>4, <3>5 DEF DbAt, RowsTyped
  <2>2. CASE n = 5
    <3>1. /\ IsDb(db') /\ db'.tables = db.tables /\ db'.types = db.types /\ db'.rules = db.rules
          /\ db'.status = db.status /\ db'.shipment = db.shipment
          /\ db'.kinds = [o \in Order |-> IF Owes(o) THEN db.kinds[o] \cup {"reversal"}
                                          ELSE db.kinds[o]]
      BY <1>1, <1>5, <2>2, RewrittenRows DEF DbAt
    <3>2. TablesAt(db', 4, t, n + 1)
      BY <3>1, TablesKept DEF DbAt, Crossed
    <3>3. TypesAt(db', 4, t, n + 1)
      BY <2>2, <3>1 DEF DbAt, TypesAt, Past
    <3>4. RulesAt(db', 4, t, n + 1)
      BY <1>3, <2>2, <3>1, Listed DEF RulesAt, Past
    <3>5. RowsTyped(db')
      BY <3>1 DEF DbAt, RowsTyped
    <3>6. RowsAt(db', 4, t, n + 1)
      BY <2>2, <3>1 DEF DbAt, RowsAt, Past, Owes
    <3>7. QED
      BY <3>1, <3>2, <3>3, <3>4, <3>5, <3>6 DEF DbAt
  <2>3. QED
    BY <2>1, <2>2
<1>6. QED
  BY <1>4, <1>5 DEF e

\* On the way down the reversals go first.
LEMMA LedgerDown ==
    ASSUME NEW t \in 0..4, NEW n \in 0..5, DbAt(db, 5, t, n)
    PROVE  /\ CanExecute(Down("ledger")[n + 1])
           /\ db' = Executed(Down("ledger")[n + 1]) => DbAt(db', 5, t, n + 1)
<1> DEFINE e == Down("ledger")[n + 1]
<1>1. /\ n = 0 => e = <<"rows", "delete_reversals", "-">>
      /\ n = 1 => e = <<"add_rule", "not_negative", "sales">>
      /\ n = 2 => e = <<"drop_rule", "sign", "sales">>
      /\ n = 3 => e = <<"add_rule", "ix", "sales">>
      /\ n = 4 => e = <<"drop_rule", "pair", "sales">>
      /\ n = 5 => e = <<"drop_type", "sale_kind", "-">>
  BY BothLedger
<1>2. n = 0 \/ n = 1 \/ n = 2 \/ n = 3 \/ n = 4 \/ n = 5
  OBVIOUS
<1>3. /\ \A i \in 1..7 : UniqueTables[i] \in db.tables /\ UniqueTables[i] # "sales" =>
            <<"ix", UniqueTables[i]>> \in db.rules
      /\ "sales" \in db.tables =>
            /\ n >= 4 => <<"ix", "sales">> \in db.rules
            /\ n < 5 => <<"pair", "sales">> \in db.rules
            /\ n >= 2 => <<"not_negative", "sales">> \in db.rules
            /\ n < 3 => <<"sign", "sales">> \in db.rules
  BY Listed DEF DbAt, RulesAt, Past
<1> HIDE DEF e
<1>4. CanExecute(e)
  <2>1. n > 0 => \A o \in Order : db.kinds[o] \subseteq {"sale"}
    BY DEF DbAt, RowsTyped, RowsAt, Past
  <2>2. \A u \in db.tables : "sale_kind" \notin TypesOf(u)
    BY UsersOfTypes DEF DbAt
  <2>3. n > 0 => RowsMeet("not_negative", "sales") /\ RowsMeet("ix", "sales")
    BY <2>1, RulesMet
  <2>4. CASE n = 0 \/ n = 2 \/ n = 4
    <3>1. /\ CanExecute(<<"rows", "delete_reversals", "-">>)
          /\ CanExecute(<<"drop_rule", "sign", "sales">>)
          /\ CanExecute(<<"drop_rule", "pair", "sales">>)
      BY CanCreateOrDrop, Zenon
    <3>2. QED
      BY <1>1, <2>4, <3>1
  <2>5. CASE n = 1 \/ n = 3
    <3>1. RowsMeet("not_negative", "sales") /\ RowsMeet("ix", "sales")
      BY <2>3, <2>5
    <3>2. /\ CanExecute(<<"add_rule", "not_negative", "sales">>)
          /\ CanExecute(<<"add_rule", "ix", "sales">>)
      BY <3>1, CanCreateOrDrop, Zenon
    <3>3. QED
      BY <1>1, <2>5, <3>2
  <2>6. CASE n = 5
    BY <1>1, <2>2, <2>6, CanCreateOrDrop
  <2>7. QED
    BY <1>2, <2>4, <2>5, <2>6
<1>5. ASSUME db' = Executed(e)
      PROVE  DbAt(db', 5, t, n + 1)
  <2>1. CASE n > 0
    <3>1. /\ IsDb(db') /\ db'.tables = db.tables
          /\ db'.status = db.status /\ db'.kinds = db.kinds /\ db'.shipment = db.shipment
          /\ n = 5 => db'.types = db.types \ {"sale_kind"} /\ db'.rules = db.rules
          /\ n # 5 => db'.types = db.types
          /\ n = 1 => db'.rules = db.rules \cup {<<"not_negative", "sales">>}
          /\ n = 2 => db'.rules = db.rules \ {<<"sign", "sales">>}
          /\ n = 3 => db'.rules = db.rules \cup {<<"ix", "sales">>}
          /\ n = 4 => db'.rules = db.rules \ {<<"pair", "sales">>}
      BY <1>1, <1>2, <1>5, <2>1, DropType, AddRule, DropRule DEF DbAt
    <3>2. TablesAt(db', 5, t, n + 1)
      BY <3>1, TablesKept DEF DbAt, Crossed
    <3>3. TypesAt(db', 5, t, n + 1)
      BY <1>2, <2>1, <3>1 DEF DbAt, TypesAt, Past
    <3>4. RulesAt(db', 5, t, n + 1)
      <4>1. \A i \in 1..7 : UniqueTables[i] \in db.tables /\ UniqueTables[i] # "sales" =>
                <<"ix", UniqueTables[i]>> \in db'.rules
        BY <1>2, <1>3, <2>1, <3>1
      <4>2. "sales" \in db.tables =>
                /\ n + 1 >= 4 => <<"ix", "sales">> \in db'.rules
                /\ n + 1 < 5 => <<"pair", "sales">> \in db'.rules
                /\ n + 1 >= 2 => <<"not_negative", "sales">> \in db'.rules
                /\ n + 1 < 3 => <<"sign", "sales">> \in db'.rules
        BY <1>2, <1>3, <2>1, <3>1
      <4>3. QED
        BY <3>1, <4>1, <4>2, Listed DEF RulesAt, Past
    <3>5. RowsAt(db', 5, t, n + 1)
      BY <2>1, <3>1 DEF DbAt, RowsAt, Past
    <3>6. QED
      BY <3>1, <3>2, <3>3, <3>4, <3>5 DEF DbAt, RowsTyped
  <2>2. CASE n = 0
    <3>1. /\ IsDb(db') /\ db'.tables = db.tables /\ db'.types = db.types /\ db'.rules = db.rules
          /\ db'.status = db.status /\ db'.shipment = db.shipment
          /\ db'.kinds = [o \in Order |-> db.kinds[o] \ {"reversal"}]
      BY <1>1, <1>5, <2>2, RewrittenRows DEF DbAt
    <3>2. TablesAt(db', 5, t, n + 1)
      BY <3>1, TablesKept DEF DbAt, Crossed
    <3>3. TypesAt(db', 5, t, n + 1)
      BY <2>2, <3>1 DEF DbAt, TypesAt, Past
    <3>4. RulesAt(db', 5, t, n + 1)
      BY <1>3, <2>2, <3>1, Listed DEF RulesAt, Past
    <3>5. RowsTyped(db')
      BY <3>1 DEF DbAt, RowsTyped
    <3>6. RowsAt(db', 5, t, n + 1)
      BY <2>2, <3>1 DEF DbAt, RowsAt, Past
    <3>7. QED
      BY <3>1, <3>2, <3>3, <3>4, <3>5, <3>6 DEF DbAt
  <2>3. QED
    BY <1>2, <2>1, <2>2
<1>6. QED
  BY <1>4, <1>5 DEF e

-----------------------------------------------------------------------------
(***************************************************************************)
(* The cancelled shipments, the histories and the dates.                   *)
(***************************************************************************)
\* The unsent shipments of closed orders are cancelled once the type has the value.
LEMMA CancelledUp ==
    ASSUME NEW t \in 6..9, NEW n \in 0..1, DbAt(db, 5, t, n)
    PROVE  /\ CanExecute(Up("cancelled")[n + 1])
           /\ db' = Executed(Up("cancelled")[n + 1]) => DbAt(db', 5, t, n + 1)
<1>1. CASE n = 0
  <2>1. Up("cancelled")[n + 1] = <<"swap_type", "shipment_status", "new">>
    BY <1>1, ShortRevisions
  <2>2. \A o \in Order : db.shipment[o].status \in NewShipmentStatus \cup {"none"}
    BY DEF DbAt, RowsTyped
  <2>3. ValuesOf("shipment_status", "new") = NewShipmentStatus
    BY DEF ValuesOf
  <2>4. CanExecute(Up("cancelled")[n + 1])
    <3>1. \A o \in Order : db.shipment[o].status \in ValuesOf("shipment_status", "new") \cup {"none"}
      BY <2>2, <2>3
    <3>2. TablesAt(db, 5, t, n) /\ 5 \in 2..9 /\ t \in 0..9
      BY DEF DbAt
    <3>3. QED
      BY <2>1, <3>1, <3>2, CanSwapShipments, Zenon
  <2>5. ASSUME db' = Executed(Up("cancelled")[n + 1])
        PROVE  DbAt(db', 5, t, n + 1)
    <3>1. /\ IsDb(db') /\ db'.tables = db.tables /\ db'.types = db.types /\ db'.rules = db.rules
          /\ db'.status = db.status /\ db'.kinds = db.kinds /\ db'.shipment = db.shipment
      BY <2>1, <2>5, SwapType, Zenon DEF DbAt
    <3>2. TablesAt(db', 5, t, n + 1) /\ TypesAt(db', 5, t, n + 1)
      BY <3>1, TablesKept, TypesKept DEF DbAt, Crossed
    <3>3. RulesAt(db', 5, t, n + 1)
      <4>1. KeepsRules(db, db')
        BY <3>1 DEF KeepsRules
      <4>2. QED
        BY <4>1, RulesKept DEF DbAt, Crossed
    <3>4. RowsAt(db', 5, t, n + 1)
      BY <1>1, <3>1 DEF DbAt, RowsAt, Past
    <3>5. QED
      BY <3>1, <3>2, <3>3, <3>4 DEF DbAt, RowsTyped
  <2>6. QED
    BY <2>4, <2>5
<1>2. CASE n = 1
  <2>1. Up("cancelled")[n + 1] = <<"rows", "cancel_shipments", "-">>
    BY <1>2, ShortRevisions
  <2>2. CanExecute(Up("cancelled")[n + 1])
    BY <2>1, CanCreateOrDrop
  <2>3. ASSUME db' = Executed(Up("cancelled")[n + 1])
        PROVE  DbAt(db', 5, t, n + 1)
    <3>1. /\ IsDb(db') /\ db'.tables = db.tables /\ db'.types = db.types /\ db'.rules = db.rules
          /\ db'.status = db.status /\ db'.kinds = db.kinds
          /\ db'.shipment = [o \in Order |->
                IF Unsent(o) THEN [db.shipment[o] EXCEPT !.status = "cancelled"]
                ELSE db.shipment[o]]
      BY <2>1, <2>3, RewrittenRows DEF DbAt
    <3>2. TablesAt(db', 5, t, n + 1) /\ TypesAt(db', 5, t, n + 1)
      BY <3>1, TablesKept, TypesKept DEF DbAt, Crossed
    <3>3. RulesAt(db', 5, t, n + 1)
      <4>1. KeepsRules(db, db')
        BY <3>1 DEF KeepsRules
      <4>2. QED
        BY <4>1, RulesKept DEF DbAt, Crossed
    <3>4. RowsTyped(db')
      BY <3>1 DEF DbAt, RowsTyped, NewShipmentStatus, OldShipmentStatus
    <3>5. \A o \in Order : /\ db.shipment[o] \in [status: NewShipmentStatus \cup {"none"}, dated: BOOLEAN]
                           /\ db'.shipment[o].status = IF Unsent(o) THEN "cancelled"
                                                       ELSE db.shipment[o].status
      BY <3>1 DEF DbAt, RowsTyped
    <3>6. RowsAt(db', 5, t, n + 1)
      BY <1>2, <3>1, <3>5 DEF DbAt, RowsAt, Past, Unsent, NotSent
    <3>7. QED
      BY <3>1, <3>2, <3>3, <3>4, <3>6 DEF DbAt
  <2>4. QED
    BY <2>2, <2>3
<1>3. QED
  BY <1>1, <1>2

\* They become failed ones before the value goes.
LEMMA CancelledDown ==
    ASSUME NEW t \in 0..5, NEW n \in 0..1, DbAt(db, 6, t, n)
    PROVE  /\ CanExecute(Down("cancelled")[n + 1])
           /\ db' = Executed(Down("cancelled")[n + 1]) => DbAt(db', 6, t, n + 1)
<1>1. CASE n = 0
  <2>1. Down("cancelled")[n + 1] = <<"rows", "fail_shipments", "-">>
    BY <1>1, ShortRevisions
  <2>2. CanExecute(Down("cancelled")[n + 1])
    BY <2>1, CanCreateOrDrop
  <2>3. ASSUME db' = Executed(Down("cancelled")[n + 1])
        PROVE  DbAt(db', 6, t, n + 1)
    <3>1. /\ IsDb(db') /\ db'.tables = db.tables /\ db'.types = db.types /\ db'.rules = db.rules
          /\ db'.status = db.status /\ db'.kinds = db.kinds
          /\ db'.shipment = [o \in Order |->
                IF db.shipment[o].status = "cancelled"
                THEN [db.shipment[o] EXCEPT !.status = "failed"] ELSE db.shipment[o]]
      BY <2>1, <2>3, RewrittenRows DEF DbAt
    <3>2. TablesAt(db', 6, t, n + 1) /\ TypesAt(db', 6, t, n + 1)
      BY <3>1, TablesKept, TypesKept DEF DbAt, Crossed
    <3>3. RulesAt(db', 6, t, n + 1)
      <4>1. KeepsRules(db, db')
        BY <3>1 DEF KeepsRules
      <4>2. QED
        BY <4>1, RulesKept DEF DbAt, Crossed
    <3>4. RowsTyped(db')
      BY <3>1 DEF DbAt, RowsTyped, NewShipmentStatus, OldShipmentStatus
    <3>5. \A o \in Order : /\ db.shipment[o] \in [status: NewShipmentStatus \cup {"none"}, dated: BOOLEAN]
                           /\ db'.shipment[o].status # "cancelled"
      BY <3>1 DEF DbAt, RowsTyped
    <3>6. RowsAt(db', 6, t, n + 1)
      BY <1>1, <3>1, <3>5 DEF DbAt, RowsAt, Past
    <3>7. QED
      BY <3>1, <3>2, <3>3, <3>4, <3>6 DEF DbAt
  <2>4. QED
    BY <2>2, <2>3
<1>2. CASE n = 1
  <2>1. Down("cancelled")[n + 1] = <<"swap_type", "shipment_status", "old">>
    BY <1>2, ShortRevisions
  <2>2. \A o \in Order : db.shipment[o].status \in OldShipmentStatus \cup {"none"}
    BY <1>2 DEF DbAt, RowsTyped, RowsAt, Past, NewShipmentStatus
  <2>3. ValuesOf("shipment_status", "old") = OldShipmentStatus
    BY DEF ValuesOf
  <2>4. CanExecute(Down("cancelled")[n + 1])
    <3>1. \A o \in Order : db.shipment[o].status \in ValuesOf("shipment_status", "old") \cup {"none"}
      BY <2>2, <2>3
    <3>2. TablesAt(db, 6, t, n) /\ 6 \in 2..9 /\ t \in 0..9
      BY DEF DbAt
    <3>3. QED
      BY <2>1, <3>1, <3>2, CanSwapShipments, Zenon
  <2>5. ASSUME db' = Executed(Down("cancelled")[n + 1])
        PROVE  DbAt(db', 6, t, n + 1)
    <3>1. /\ IsDb(db') /\ db'.tables = db.tables /\ db'.types = db.types /\ db'.rules = db.rules
          /\ db'.status = db.status /\ db'.kinds = db.kinds /\ db'.shipment = db.shipment
      BY <2>1, <2>5, SwapType, Zenon DEF DbAt
    <3>2. TablesAt(db', 6, t, n + 1) /\ TypesAt(db', 6, t, n + 1)
      BY <3>1, TablesKept, TypesKept DEF DbAt, Crossed
    <3>3. RulesAt(db', 6, t, n + 1)
      <4>1. KeepsRules(db, db')
        BY <3>1 DEF KeepsRules
      <4>2. QED
        BY <4>1, RulesKept DEF DbAt, Crossed
    <3>4. RowsAt(db', 6, t, n + 1)
      BY <1>2, <3>1 DEF DbAt, RowsAt, Past
    <3>5. QED
      BY <3>1, <3>2, <3>3, <3>4 DEF DbAt, RowsTyped
  <2>6. QED
    BY <2>4, <2>5
<1>3. QED
  BY <1>1, <1>2

\* Nothing refers to the histories, no column of theirs is unique, and they have types
\* of their own.
LEMMA HistoriesApart ==
    /\ References("inventory_history") = {"products", "users"}
    /\ References("order_status_history") = {"orders", "users"}
    /\ CreatedTypes("inventory_history") = {"inventory_change_kind"}
    /\ CreatedTypes("order_status_history") = {"order_status_change_source"}
    /\ \A d, r, t, n : TablesAt(d, r, t, n) =>
          \A u \in d.tables : References(u) \cap {"inventory_history", "order_status_history"} = {}
    /\ \A i \in 1..7 : UniqueTables[i] \notin {"inventory_history", "order_status_history"}
<1>1. /\ References("inventory_history") = {"products", "users"}
      /\ References("order_status_history") = {"orders", "users"}
      /\ References("product_images") = {"products"}
  BY DEF References
<1>2. /\ CreatedTypes("inventory_history") = {"inventory_change_kind"}
      /\ CreatedTypes("order_status_history") = {"order_status_change_source"}
  BY TypesOfTables DEF CreatedTypes
<1>3. ASSUME NEW d, NEW r, NEW t, NEW n, TablesAt(d, r, t, n), NEW u \in d.tables
      PROVE  References(u) \cap {"inventory_history", "order_status_history"} = {}
  <2>1. CASE u \in {"product_images", "inventory_history", "order_status_history"}
    BY <1>1, <2>1
  <2>2. CASE u \in ToSet(InitialTables)
    <3>1. PICK i \in 1..10 : u = InitialTables[i]
      BY <2>2, ListedOnce
    <3>2. QED
      BY <3>1, RefersBack, ListedOnce
  <2>3. QED
    BY <1>3, <2>1, <2>2 DEF TablesAt
<1>4. \A i \in 1..7 : UniqueTables[i] \notin {"inventory_history", "order_status_history"}
  BY Listed
<1>5. QED
  BY <1>1, <1>2, <1>3, <1>4

\* The histories are created beside the tables they refer to.
LEMMA HistoryUp ==
    ASSUME NEW t \in 7..9, NEW n \in 0..1, DbAt(db, 6, t, n)
    PROVE  /\ CanExecute(Up("history")[n + 1])
           /\ db' = Executed(Up("history")[n + 1]) => DbAt(db', 6, t, n + 1)
<1> DEFINE T == IF n = 0 THEN "inventory_history" ELSE "order_status_history"
<1>1. Up("history")[n + 1] = <<"create_table", T, "-">>
  BY BothHistory
<1>2. /\ db.tables \subseteq ToSet(InitialTables) \cup
                    {"product_images", "inventory_history", "order_status_history"}
      /\ \A i \in 1..10 : InitialTables[i] \in db.tables
      /\ "product_images" \in db.tables
      /\ "inventory_history" \in db.tables <=> n >= 1
      /\ "order_status_history" \notin db.tables
  BY DEF DbAt, TablesAt, Past
<1>3. /\ db.types \subseteq {"user_role", "order_status", "payment_status", "shipment_status",
                            "sale_kind", "inventory_change_kind", "order_status_change_source"}
      /\ "user_role" \in db.types /\ "order_status" \in db.types
      /\ "payment_status" \in db.types /\ "shipment_status" \in db.types
      /\ "sale_kind" \in db.types
      /\ "inventory_change_kind" \in db.types <=> n >= 1
      /\ "order_status_change_source" \notin db.types
  BY DEF DbAt, TypesAt, Past
<1>4. CanExecute(Up("history")[n + 1])
  <2>1. {"products", "users", "orders"} \subseteq db.tables
    BY <1>2, Listed
  <2>2. References(T) \subseteq db.tables /\ CreatedTypes(T) \cap db.types = {}
    BY <1>3, <2>1, HistoriesApart
  <2>3. QED
    BY <1>1, <2>2, CanCreateOrDrop
<1>5. ASSUME db' = Executed(Up("history")[n + 1])
      PROVE  DbAt(db', 6, t, n + 1)
  <2>1. /\ IsDb(db') /\ db'.tables = db.tables \cup {T}
        /\ db'.types = db.types \cup TypesOf(T) /\ db'.rules = db.rules \cup RulesOf(T)
        /\ db'.status = db.status /\ db'.kinds = db.kinds /\ db'.shipment = db.shipment
    BY <1>1, <1>5, CreateTable, Zenon DEF DbAt
  <2>2. TablesAt(db', 6, t, n + 1)
    BY <1>2, <2>1, ListedOnce DEF TablesAt, Past
  <2>3. TypesAt(db', 6, t, n + 1)
    BY <1>3, <2>1, TypesOfTables DEF TypesAt, Past
  <2>4. RulesAt(db', 6, t, n + 1)
    <3>1. KeepsRules(db, db')
      BY <2>1, HistoriesApart DEF KeepsRules
    <3>2. QED
      BY <3>1, RulesKept DEF DbAt, Crossed
  <2>5. RowsAt(db', 6, t, n + 1)
    BY <2>1, RowsKept DEF DbAt, Crossed
  <2>6. QED
    BY <2>1, <2>2, <2>3, <2>4, <2>5 DEF DbAt, RowsTyped
<1>6. QED
  BY <1>4, <1>5

\* They are dropped before their types, and order_status stays for the orders.
LEMMA HistoryDown ==
    ASSUME NEW t \in 0..6, NEW n \in 0..3, DbAt(db, 7, t, n)
    PROVE  /\ CanExecute(Down("history")[n + 1])
           /\ db' = Executed(Down("history")[n + 1]) => DbAt(db', 7, t, n + 1)
<1>1. /\ db.tables \subseteq ToSet(InitialTables) \cup
                    {"product_images", "inventory_history", "order_status_history"}
      /\ \A i \in 1..10 : InitialTables[i] \in db.tables
      /\ "product_images" \in db.tables
      /\ "inventory_history" \in db.tables <=> n < 2
      /\ "order_status_history" \in db.tables <=> n < 1
  BY DEF DbAt, TablesAt, Past
<1>2. /\ db.types \subseteq {"user_role", "order_status", "payment_status", "shipment_status",
                            "sale_kind", "inventory_change_kind", "order_status_change_source"}
      /\ "user_role" \in db.types /\ "order_status" \in db.types
      /\ "payment_status" \in db.types /\ "shipment_status" \in db.types
      /\ "sale_kind" \in db.types
      /\ "inventory_change_kind" \in db.types
      /\ "order_status_change_source" \in db.types <=> n < 3
  BY DEF DbAt, TypesAt, Past
<1>3. CASE n \in 0..1
  <2> DEFINE T == IF n = 0 THEN "order_status_history" ELSE "inventory_history"
  <2>1. Down("history")[n + 1] = <<"drop_table", T, "-">>
    BY <1>3, BothHistory
  <2>2. CanExecute(Down("history")[n + 1])
    <3>1. \A u \in db.tables \ {T} : T \notin References(u)
      BY HistoriesApart DEF DbAt
    <3>2. QED
      BY <2>1, <3>1, CanCreateOrDrop
  <2>3. ASSUME db' = Executed(Down("history")[n + 1])
        PROVE  DbAt(db', 7, t, n + 1)
    <3>1. T \notin {"orders", "sales", "shipments"}
      OBVIOUS
    <3>2. /\ IsDb(db') /\ db'.tables = db.tables \ {T}
          /\ db'.types = db.types /\ db'.rules = {r \in db.rules : r[2] # T}
          /\ db'.status = db.status /\ db'.kinds = db.kinds /\ db'.shipment = db.shipment
      BY <2>1, <2>3, <3>1, DropTable DEF DbAt
    <3>3. TablesAt(db', 7, t, n + 1)
      BY <1>1, <1>3, <3>2, ListedOnce DEF TablesAt, Past
    <3>4. TypesAt(db', 7, t, n + 1)
      BY <1>2, <1>3, <3>2 DEF TypesAt, Past
    <3>5. RulesAt(db', 7, t, n + 1)
      <4>1. KeepsRules(db, db')
        BY <3>2, HistoriesApart DEF KeepsRules
      <4>2. QED
        BY <4>1, RulesKept DEF DbAt, Crossed
    <3>6. RowsAt(db', 7, t, n + 1)
      BY <3>2, RowsKept DEF DbAt, Crossed
    <3>7. QED
      BY <3>2, <3>3, <3>4, <3>5, <3>6 DEF DbAt, RowsTyped
  <2>4. QED
    BY <2>2, <2>3
<1>4. CASE n \in 2..3
  <2> DEFINE Y == IF n = 2 THEN "order_status_change_source" ELSE "inventory_change_kind"
  <2>1. Down("history")[n + 1] = <<"drop_type", Y, "-">>
    BY <1>4, BothHistory
  <2>2. CanExecute(Down("history")[n + 1])
    <3>1. \A u \in db.tables : Y \notin TypesOf(u)
      BY <1>1, <1>4, UsersOfTypes DEF DbAt
    <3>2. QED
      BY <2>1, <3>1, CanCreateOrDrop
  <2>3. ASSUME db' = Executed(Down("history")[n + 1])
        PROVE  DbAt(db', 7, t, n + 1)
    <3>1. /\ IsDb(db') /\ db'.tables = db.tables
          /\ db'.types = db.types \ {Y} /\ db'.rules = db.rules
          /\ db'.status = db.status /\ db'.kinds = db.kinds /\ db'.shipment = db.shipment
      BY <2>1, <2>3, DropType, Zenon DEF DbAt
    <3>2. TablesAt(db', 7, t, n + 1)
      BY <1>1, <1>4, <3>1 DEF TablesAt, Past
    <3>3. TypesAt(db', 7, t, n + 1)
      BY <1>2, <1>4, <3>1 DEF TypesAt, Past
    <3>4. RulesAt(db', 7, t, n + 1)
      <4>1. KeepsRules(db, db')
        BY <3>1 DEF KeepsRules
      <4>2. QED
        BY <4>1, RulesKept DEF DbAt, Crossed
    <3>5. RowsAt(db', 7, t, n + 1)
      BY <3>1, RowsKept DEF DbAt, Crossed
    <3>6. QED
      BY <3>1, <3>2, <3>3, <3>4, <3>5 DEF DbAt, RowsTyped
  <2>4. QED
    BY <2>2, <2>3
<1>5. QED
  BY <1>3, <1>4

\* The date checks are added only to shipments that meet them.
LEMMA DatesUp ==
    ASSUME NEW t \in 8..9, DbAt(db, 7, t, 0)
    PROVE  /\ Up("dates")[1][2] = "dates"
           /\ CanExecute(Up("dates")[1]) /\ db' = Executed(Up("dates")[1]) => DbAt(db', 7, t, 1)
<1>1. Up("dates")[1] = <<"add_rule", "dates", "shipments">>
  BY ShortRevisions
<1>2. ASSUME CanExecute(Up("dates")[1]), db' = Executed(Up("dates")[1])
      PROVE  DbAt(db', 7, t, 1)
  <2>1. RowsMeet("dates", "shipments")
    BY <1>1, <1>2, CanCreateOrDrop, Zenon
  <2>2. \A o \in Order : db.shipment[o].status \in {"in_transit", "delivered"} => db.shipment[o].dated
    BY <2>1 DEF RowsMeet
  <2>3. /\ IsDb(db') /\ db'.tables = db.tables /\ db'.types = db.types
        /\ db'.rules = db.rules \cup {<<"dates", "shipments">>}
        /\ db'.status = db.status /\ db'.kinds = db.kinds /\ db'.shipment = db.shipment
    BY <1>1, <1>2, AddRule, Zenon DEF DbAt
  <2>4. TablesAt(db', 7, t, 1) /\ TypesAt(db', 7, t, 1)
    BY <2>3, TablesKept, TypesKept DEF DbAt, Crossed
  <2>5. RulesAt(db', 7, t, 1)
    <3>1. KeepsRules(db, db')
      BY <2>3 DEF KeepsRules
    <3>2. QED
      BY <3>1, RulesKept DEF DbAt, Crossed
  <2>6. RowsAt(db', 7, t, 1)
    BY <2>2, <2>3 DEF DbAt, RowsAt, Past
  <2>7. QED
    BY <2>3, <2>4, <2>5, <2>6 DEF DbAt, RowsTyped
<1>3. QED
  BY <1>1, <1>2

\* They can be dropped at any time.
LEMMA DatesDown ==
    ASSUME NEW t \in 0..7, DbAt(db, 8, t, 0)
    PROVE  /\ CanExecute(Down("dates")[1])
           /\ db' = Executed(Down("dates")[1]) => DbAt(db', 8, t, 1)
<1>1. Down("dates")[1] = <<"drop_rule", "dates", "shipments">>
  BY ShortRevisions
<1>2. CanExecute(Down("dates")[1])
  BY <1>1, CanCreateOrDrop
<1>3. ASSUME db' = Executed(Down("dates")[1])
      PROVE  DbAt(db', 8, t, 1)
  <2>1. /\ IsDb(db') /\ db'.tables = db.tables /\ db'.types = db.types
        /\ db'.rules = db.rules \ {<<"dates", "shipments">>}
        /\ db'.status = db.status /\ db'.kinds = db.kinds /\ db'.shipment = db.shipment
    BY <1>1, <1>3, DropRule, Zenon DEF DbAt
  <2>2. TablesAt(db', 8, t, 1) /\ TypesAt(db', 8, t, 1)
    BY <2>1, TablesKept, TypesKept DEF DbAt, Crossed
  <2>3. RulesAt(db', 8, t, 1)
    <3>1. \A i \in 1..7 : \A x \in {"uq", "ix", "pair", "sign", "not_negative"} :
              <<x, UniqueTables[i]>> \in db.rules => <<x, UniqueTables[i]>> \in db'.rules
      BY <2>1
    <3>2. \A a, b : (Past(8, t, 0, 4, a, b) <=> Past(8, t, 1, 4, a, b))
                    /\ (Past(8, t, 0, 5, a, b) <=> Past(8, t, 1, 5, a, b))
      BY DEF Past
    <3>3. QED
      BY <2>1, <3>1, <3>2, Listed DEF DbAt, RulesAt
  <2>4. RowsAt(db', 8, t, 1)
    BY <2>1 DEF DbAt, RowsAt, Past
  <2>5. QED
    BY <2>1, <2>2, <2>3, <2>4 DEF DbAt, RowsTyped
<1>4. QED
  BY <1>2, <1>3

-----------------------------------------------------------------------------
(***************************************************************************)
(* A run of alembic preserves the invariant.                               *)
(***************************************************************************)
\* The steps of the revision that is crossed.
StepsOf(r, t) == IF r < t THEN Up(Revisions[r + 1]) ELSE Down(Revisions[r])

\* How many there are.
LEMMA StepsToGo ==
    ASSUME NEW r \in 0..9, NEW t \in 0..9, r # t
    PROVE  /\ r < t => Len(StepsOf(r, t)) = UpLen[r + 1]
           /\ t < r => Len(StepsOf(r, t)) = DownLen[r]
           /\ Len(StepsOf(r, t)) \in Nat
<1>1. \A k \in 1..9 : UpLen[k] \in Nat /\ DownLen[k] \in Nat
  BY DEF UpLen, DownLen
<1>2. CASE r < t
  <2>1. r + 1 \in 1..9 /\ StepsOf(r, t) = Up(Revisions[r + 1])
    BY <1>2 DEF StepsOf
  <2>2. Len(StepsOf(r, t)) = UpLen[r + 1]
    BY <1>2, <2>1, Lengths
  <2>3. QED
    BY <1>1, <1>2, <2>1, <2>2
<1>3. CASE t < r
  <2>1. r \in 1..9 /\ StepsOf(r, t) = Down(Revisions[r])
    BY <1>3 DEF StepsOf
  <2>2. Len(StepsOf(r, t)) = DownLen[r]
    BY <1>3, <2>1, Lengths
  <2>3. QED
    BY <1>1, <1>3, <2>1, <2>2
<1>4. QED
  BY <1>2, <1>3

\* Every step on the way up but the date checks can be executed, and does what the
\* invariant says.
LEMMA StepUp ==
    ASSUME rev \in 0..9, target \in 0..9, rev < target, done \in Nat, done < Len(Steps),
           DbAt(db, rev, target, done)
    PROVE  /\ CanExecute(Steps[done + 1]) \/ Steps[done + 1][2] = "dates"
           /\ CanExecute(Steps[done + 1]) /\ db' = Executed(Steps[done + 1])
                 => DbAt(db', rev, target, done + 1)
<1>1. Steps = Up(Revisions[rev + 1])
  BY DEF Steps
<1>2. Len(Steps) = UpLen[rev + 1]
  <2>1. Steps = StepsOf(rev, target) /\ rev # target
    BY DEF Steps, StepsOf
  <2>2. rev < target => Len(StepsOf(rev, target)) = UpLen[rev + 1]
    BY <2>1, StepsToGo, Zenon
  <2>3. QED
    BY <2>1, <2>2
<1>3. CASE rev = 0
  <2>1. Steps = Up("initial") /\ done \in 0..9 /\ target \in 1..9
    BY <1>1, <1>2, <1>3, Chain DEF UpLen
  <2>2. QED
    BY <1>3, <2>1, InitialUp
<1>4. CASE rev = 1
  <2>1. Steps = Up("images") /\ done = 0 /\ target \in 2..9
    BY <1>1, <1>2, <1>4, Chain DEF UpLen
  <2>2. QED
    BY <1>4, <2>1, ImagesUp
<1>5. CASE rev = 2
  <2>1. Steps = Up("awaiting") /\ done \in 0..1 /\ target \in 3..9
    BY <1>1, <1>2, <1>5, Chain DEF UpLen
  <2>2. QED
    BY <1>5, <2>1, AwaitingUp
<1>6. CASE rev = 3
  <2>1. Steps = Up("unique") /\ done \in 0..20 /\ target \in 4..9
    BY <1>1, <1>2, <1>6, Chain DEF UpLen
  <2>2. QED
    BY <1>6, <2>1, UniqueUpStep
<1>7. CASE rev = 4
  <2>1. Steps = Up("ledger") /\ done \in 0..5 /\ target \in 5..9
    BY <1>1, <1>2, <1>7, Chain DEF UpLen
  <2>2. QED
    BY <1>7, <2>1, LedgerUp
<1>8. CASE rev = 5
  <2>1. Steps = Up("cancelled") /\ done \in 0..1 /\ target \in 6..9
    BY <1>1, <1>2, <1>8, Chain DEF UpLen
  <2>2. QED
    BY <1>8, <2>1, CancelledUp
<1>9. CASE rev = 6
  <2>1. Steps = Up("history") /\ done \in 0..1 /\ target \in 7..9
    BY <1>1, <1>2, <1>9, Chain DEF UpLen
  <2>2. QED
    BY <1>9, <2>1, HistoryUp
<1>10. CASE rev = 7
  <2>1. Steps = Up("dates") /\ done = 0 /\ target \in 8..9
    BY <1>1, <1>2, <1>10, Chain DEF UpLen
  <2>2. QED
    BY <1>10, <2>1, DatesUp
<1>11. CASE rev = 8
  BY <1>2, <1>11 DEF UpLen
<1>12. QED
  BY <1>3, <1>4, <1>5, <1>6, <1>7, <1>8, <1>9, <1>10, <1>11

\* So does every step on the way down.
LEMMA StepDown ==
    ASSUME rev \in 0..9, target \in 0..9, target < rev, done \in Nat, done < Len(Steps),
           DbAt(db, rev, target, done)
    PROVE  /\ CanExecute(Steps[done + 1])
           /\ db' = Executed(Steps[done + 1]) => DbAt(db', rev, target, done + 1)
<1>1. Steps = Down(Revisions[rev])
  BY DEF Steps
<1>2. Len(Steps) = DownLen[rev]
  <2>1. Steps = StepsOf(rev, target) /\ rev # target
    BY DEF Steps, StepsOf
  <2>2. target < rev => Len(StepsOf(rev, target)) = DownLen[rev]
    BY <2>1, StepsToGo, Zenon
  <2>3. QED
    BY <2>1, <2>2
<1>3. CASE rev = 1
  <2>1. Steps = Down("initial") /\ done \in 0..13 /\ target = 0
    BY <1>1, <1>2, <1>3, Chain DEF DownLen
  <2>2. QED
    BY <1>3, <2>1, InitialDown
<1>4. CASE rev = 2
  <2>1. Steps = Down("images") /\ done = 0 /\ target \in 0..1
    BY <1>1, <1>2, <1>4, Chain DEF DownLen
  <2>2. QED
    BY <1>4, <2>1, ImagesDown
<1>5. CASE rev = 3
  <2>1. Steps = Down("awaiting") /\ done = 0 /\ target \in 0..2
    BY <1>1, <1>2, <1>5, Chain DEF DownLen
  <2>2. QED
    BY <1>5, <2>1, AwaitingDown
<1>6. CASE rev = 4
  <2>1. Steps = Down("unique") /\ done \in 0..20 /\ target \in 0..3
    BY <1>1, <1>2, <1>6, Chain DEF DownLen
  <2>2. QED
    BY <1>6, <2>1, UniqueDownStep
<1>7. CASE rev = 5
  <2>1. Steps = Down("ledger") /\ done \in 0..5 /\ target \in 0..4
    BY <1>1, <1>2, <1>7, Chain DEF DownLen
  <2>2. QED
    BY <1>7, <2>1, LedgerDown
<1>8. CASE rev = 6
  <2>1. Steps = Down("cancelled") /\ done \in 0..1 /\ target \in 0..5
    BY <1>1, <1>2, <1>8, Chain DEF DownLen
  <2>2. QED
    BY <1>8, <2>1, CancelledDown
<1>9. CASE rev = 7
  <2>1. Steps = Down("history") /\ done \in 0..3 /\ target \in 0..6
    BY <1>1, <1>2, <1>9, Chain DEF DownLen
  <2>2. QED
    BY <1>9, <2>1, HistoryDown
<1>10. CASE rev = 8
  <2>1. Steps = Down("dates") /\ done = 0 /\ target \in 0..7
    BY <1>1, <1>2, <1>10, Chain DEF DownLen
  <2>2. QED
    BY <1>10, <2>1, DatesDown
<1>11. CASE rev = 9
  BY <1>2, <1>11 DEF DownLen
<1>12. QED
  BY <1>3, <1>4, <1>5, <1>6, <1>7, <1>8, <1>9, <1>10, <1>11

\* The numbers of the invariant during a run.
LEMMA RunBounds ==
    ASSUME MigrationInv, Running
    PROVE  /\ rev \in 0..9 /\ target \in 0..9 /\ (rev < target \/ target < rev)
           /\ done \in Nat /\ Len(Steps) \in Nat /\ done <= Len(Steps)
<1>1. rev \in 0..9 /\ target \in 0..9 /\ done \in 0..Len(Steps)
  BY DEF MigrationInv
<1>2. Len(Steps) \in Nat
  <2>1. Steps = StepsOf(rev, target)
    BY DEF Steps, StepsOf
  <2>2. QED
    BY <1>1, <2>1, StepsToGo DEF Running
<1>3. QED
  BY <1>1, <1>2 DEF Running

\* A run begins at the revision the database is at, and remembers the database.
LEMMA BeginKeeps ==
    ASSUME MigrationInv, NEW to \in 0..Latest, Begin(to)
    PROVE  MigrationInv'
<1>1. /\ rev \in 0..9 /\ rev = target /\ done = 0 /\ to \in 0..9 /\ to # rev
      /\ target' = to /\ done' = 0 /\ saved' = [db |-> db, rev |-> rev]
      /\ stopped' = "none" /\ db' = db /\ rev' = rev
  BY Chain DEF MigrationInv, Begin, Running
<1>2. DbAt(db, rev, rev, 0)
  BY <1>1 DEF MigrationInv
<1>3. DbAt(db, rev, to, 0)
  BY <1>1, <1>2, BeginsSame, SameEffects
<1>4. Len(Steps)' \in Nat
  <2>1. Steps' = StepsOf(rev', target')
    BY DEF Steps, StepsOf
  <2>2. QED
    BY <1>1, <2>1, StepsToGo
<1>5. QED
  BY <1>1, <1>2, <1>3, <1>4 DEF MigrationInv, OnlyDatesStop, Running

\* An operation that is executed.
LEMMA ExecuteKeeps ==
    ASSUME MigrationInv, Execute
    PROVE  MigrationInv'
<1>1. /\ rev \in 0..9 /\ target \in 0..9 /\ (rev < target \/ target < rev)
      /\ done \in Nat /\ Len(Steps) \in Nat /\ done < Len(Steps) /\ Running
  BY RunBounds DEF Execute
<1>2. /\ CanExecute(Steps[done + 1]) /\ db' = Executed(Steps[done + 1])
      /\ done' = done + 1 /\ rev' = rev /\ target' = target /\ saved' = saved
      /\ stopped' = stopped
  BY DEF Execute
<1>3. DbAt(db, rev, target, done)
  BY DEF MigrationInv
<1>4. DbAt(db', rev, target, done + 1)
  BY <1>1, <1>2, <1>3, StepUp, StepDown
<1>5. Steps' = Steps /\ Running'
  BY <1>1, <1>2 DEF Steps, Running
<1>6. QED
  BY <1>1, <1>2, <1>4, <1>5 DEF MigrationInv, OnlyDatesStop

\* A revision that is crossed.
LEMMA StampKeeps ==
    ASSUME MigrationInv, Stamp
    PROVE  MigrationInv'
<1>1. /\ rev \in 0..9 /\ target \in 0..9 /\ (rev < target \/ target < rev)
      /\ done = Len(Steps)
  BY RunBounds DEF Stamp
<1>2. /\ rev' = IF rev < target THEN rev + 1 ELSE rev - 1
      /\ done' = 0 /\ db' = db /\ target' = target /\ saved' = saved /\ stopped' = stopped
  BY DEF Stamp
<1>3. rev' \in 0..9
  BY <1>1, <1>2
<1>4. \/ rev < target /\ done = UpLen[rev + 1]
      \/ target < rev /\ done = DownLen[rev]
  <2>1. Steps = StepsOf(rev, target) /\ rev # target
    BY <1>1 DEF Steps, StepsOf
  <2>2. /\ rev < target => Len(StepsOf(rev, target)) = UpLen[rev + 1]
        /\ target < rev => Len(StepsOf(rev, target)) = DownLen[rev]
    BY <1>1, <2>1, StepsToGo, Zenon
  <2>3. QED
    BY <1>1, <2>1, <2>2
<1>5. DbAt(db, rev', target, 0)
  <2>1. Same(rev, target, done, IF rev < target THEN rev + 1 ELSE rev - 1, target, 0)
    BY <1>1, <1>4, StampsSame
  <2>2. DbAt(db, rev, target, done)
    BY DEF MigrationInv
  <2>3. QED
    BY <1>2, <2>1, <2>2, SameEffects
<1>6. Running' => Len(Steps)' \in Nat
  <2>1. Steps' = StepsOf(rev', target')
    BY DEF Steps, StepsOf
  <2>2. QED
    BY <1>1, <1>2, <1>3, <2>1, StepsToGo DEF Running
<1>7. QED
  BY <1>1, <1>2, <1>3, <1>5, <1>6 DEF MigrationInv, OnlyDatesStop

\* A run that fails was adding the date checks, and leaves what it found.
LEMMA FailKeeps ==
    ASSUME MigrationInv, Fail
    PROVE  MigrationInv'
<1>1. /\ rev \in 0..9 /\ target \in 0..9 /\ (rev < target \/ target < rev)
      /\ done \in Nat /\ Len(Steps) \in Nat /\ done < Len(Steps)
  BY RunBounds DEF Fail, RollBack
<1>2. /\ ~CanExecute(Steps[done + 1]) /\ db' = saved.db /\ rev' = saved.rev
      /\ target' = saved.rev /\ done' = 0 /\ stopped' = Steps[done + 1][2] /\ saved' = saved
  BY DEF Fail, RollBack
<1>3. DbAt(db, rev, target, done)
  BY DEF MigrationInv
<1>4. Steps[done + 1][2] = "dates"
  BY <1>1, <1>2, <1>3, StepUp, StepDown
<1>5. QED
  BY <1>2, <1>4 DEF MigrationInv, OnlyDatesStop, Running

\* So does a run that is interrupted anywhere.
LEMMA InterruptKeeps ==
    ASSUME MigrationInv, Interrupt
    PROVE  MigrationInv'
<1>1. /\ db' = saved.db /\ rev' = saved.rev /\ target' = saved.rev /\ done' = 0
      /\ saved' = saved /\ stopped' = stopped
  BY DEF Interrupt, RollBack
<1>2. QED
  BY <1>1 DEF MigrationInv, OnlyDatesStop, Running

-----------------------------------------------------------------------------
(***************************************************************************)
(* So does the application between two runs.                               *)
(***************************************************************************)
\* The row of an order that the application of revision r may write.
RowFits(row, r) ==
    /\ row.status \in OldOrderStatus \cup {"none"}
    /\ row.kinds \in SUBSET {"sale", "reversal"}
    /\ row.shipment \in [status: NewShipmentStatus \cup {"none"}, dated: BOOLEAN]
    /\ r >= 3 => row.status # "awaiting_payment"
    /\ r < 5 => "reversal" \notin row.kinds
    /\ r >= 5 => ("reversal" \in row.kinds <=> "sale" \in row.kinds /\ row.status \in Closed)
    /\ r < 6 => row.shipment.status # "cancelled"
    /\ r >= 6 /\ row.status \in Closed => row.shipment.status \notin NotSent
    /\ r >= 8 /\ row.shipment.status \in {"in_transit", "delivered"} => row.shipment.dated

\* At rest the effects of the revisions up to the present one are there.
LEMMA RestingPast ==
    ASSUME NEW r \in 0..9, NEW k \in 1..9, NEW a, NEW b
    PROVE  Past(r, r, 0, k, a, b) <=> r >= k
BY DEF Past

\* Between runs the rows of every order fit the revision.
LEMMA RestingRows ==
    ASSUME MigrationInv, ~Running
    PROVE  /\ rev \in 0..9 /\ target = rev /\ done = 0 /\ DbAt(db, rev, rev, 0)
           /\ \A o \in Order : RowFits(Row(db.status[o], db.kinds[o], db.shipment[o]), rev)
<1>1. rev \in 0..9 /\ target = rev /\ done = 0 /\ DbAt(db, rev, rev, 0)
  BY DEF MigrationInv, Running
<1>2. ASSUME NEW o \in Order
      PROVE  RowFits(Row(db.status[o], db.kinds[o], db.shipment[o]), rev)
  BY <1>1, RestingPast DEF DbAt, RowsTyped, RowsAt, Row, RowFits
<1>3. QED
  BY <1>1, <1>2

\* Writing a row that fits keeps the invariant.
LEMMA WriteKeeps ==
    ASSUME MigrationInv, NEW o \in Order, NEW row, RowFits(row, rev), Writes(o, row)
    PROVE  MigrationInv'
<1>1. ~Running /\ rev \in 0..9 /\ target = rev /\ done = 0 /\ DbAt(db, rev, rev, 0)
  BY RestingRows DEF Writes
<1>2. /\ db' = [db EXCEPT !.status[o] = row.status, !.kinds[o] = row.kinds,
                          !.shipment[o] = row.shipment]
      /\ rev' = rev /\ target' = target /\ done' = done /\ saved' = saved /\ stopped' = stopped
  BY DEF Writes
<1>3. /\ IsDb(db') /\ db'.tables = db.tables /\ db'.types = db.types /\ db'.rules = db.rules
      /\ db'.status = [db.status EXCEPT ![o] = row.status]
      /\ db'.kinds = [db.kinds EXCEPT ![o] = row.kinds]
      /\ db'.shipment = [db.shipment EXCEPT ![o] = row.shipment]
  BY <1>1, <1>2 DEF DbAt, IsDb
<1>4. RowsTyped(db')
  BY <1>1, <1>3 DEF DbAt, RowsTyped, RowFits
<1>5. RowsAt(db', rev, rev, 0)
  <2>1. ASSUME NEW p \in Order
        PROVE  /\ p = o => /\ db'.status[p] = row.status /\ db'.kinds[p] = row.kinds
                           /\ db'.shipment[p] = row.shipment
               /\ p # o => /\ db'.status[p] = db.status[p] /\ db'.kinds[p] = db.kinds[p]
                           /\ db'.shipment[p] = db.shipment[p]
    BY <1>1, <1>3 DEF DbAt, RowsTyped
  <2>2. ASSUME NEW p \in Order
        PROVE  RowFits(Row(db'.status[p], db'.kinds[p], db'.shipment[p]), rev)
    <3>1. CASE p = o
      BY <2>1, <3>1 DEF RowFits, Row
    <3>2. CASE p # o
      BY <1>1, <2>1, <3>2, RestingRows
    <3>3. QED
      BY <3>1, <3>2
  <2>3. QED
    BY <1>1, <2>2, RestingPast DEF RowsAt, RowFits, Row
<1>6. TablesAt(db', rev, rev, 0) /\ TypesAt(db', rev, rev, 0) /\ RulesAt(db', rev, rev, 0)
  BY <1>1, <1>3 DEF DbAt, TablesAt, TypesAt, RulesAt
<1>7. DbAt(db', rev, rev, 0)
  BY <1>3, <1>4, <1>5, <1>6 DEF DbAt
<1>8. QED
  BY <1>1, <1>2, <1>7 DEF MigrationInv, OnlyDatesStop, Running

\* Which features the application of a revision has.
LEMMA Features ==
    ASSUME rev \in 0..9
    PROVE  /\ At("awaiting") <=> rev >= 3
           /\ At("ledger") <=> rev >= 5
           /\ At("cancelled") <=> rev >= 6
           /\ At("dates") <=> rev >= 8
BY Positions DEF At

\* Every action of the application writes a row that fits its revision.
LEMMA ApplicationKeeps ==
    ASSUME MigrationInv, NEW o \in Order,
           \/ Place(o)
           \/ Pay(o)
           \/ Prepare(o)
           \/ Send(o)
           \/ Deliver(o)
           \/ \E new \in Closed : Close(o, new)
    PROVE  MigrationInv'
<1>1. ~Running
  BY DEF Place, Pay, Prepare, Send, Deliver, Close, Writes
<1>2. /\ rev \in 0..9
      /\ RowFits(Row(db.status[o], db.kinds[o], db.shipment[o]), rev)
  BY <1>1, RestingRows
<1>3. /\ db.status[o] \in OldOrderStatus \cup {"none"}
      /\ db.kinds[o] \in SUBSET {"sale", "reversal"}
      /\ db.shipment[o] \in [status: NewShipmentStatus \cup {"none"}, dated: BOOLEAN]
      /\ rev >= 3 => db.status[o] # "awaiting_payment"
      /\ rev < 5 => "reversal" \notin db.kinds[o]
      /\ rev >= 5 => ("reversal" \in db.kinds[o] <=> "sale" \in db.kinds[o] /\ db.status[o] \in Closed)
      /\ rev < 6 => db.shipment[o].status # "cancelled"
      /\ rev >= 6 /\ db.status[o] \in Closed => db.shipment[o].status \notin NotSent
      /\ rev >= 8 /\ db.shipment[o].status \in {"in_transit", "delivered"} => db.shipment[o].dated
  BY <1>2 DEF RowFits, Row
<1>4. /\ At("awaiting") <=> rev >= 3
      /\ At("ledger") <=> rev >= 5
      /\ At("cancelled") <=> rev >= 6
      /\ At("dates") <=> rev >= 8
  BY <1>2, Features, Zenon
<1>5. ASSUME Place(o)
      PROVE  MigrationInv'
  <2>1. PICK s \in {"pending"} \cup IF At("awaiting") THEN {} ELSE {"awaiting_payment"} :
           Writes(o, Row(s, {}, Absent))
    BY <1>5 DEF Place
  <2>2. RowFits(Row(s, {}, Absent), rev)
    BY <1>2, <1>4, <2>1
       DEF RowFits, Row, Absent, Closed, NotSent, OldOrderStatus, NewShipmentStatus
  <2>3. QED
    BY <2>1, <2>2, WriteKeeps, Zenon
<1>6. ASSUME Pay(o)
      PROVE  MigrationInv'
  <2>1. RowFits(Row("paid", {"sale"}, Absent), rev)
    BY <1>2 DEF RowFits, Row, Absent, Closed, NotSent, OldOrderStatus, NewShipmentStatus
  <2>2. QED
    BY <1>6, <2>1, WriteKeeps, Zenon DEF Pay
<1>7. ASSUME Prepare(o)
      PROVE  MigrationInv'
  <2>1. PICK s \in {"preparing"} \cup IF At("cancelled") THEN {} ELSE {"pending"} :
           Writes(o, Row("preparing", db.kinds[o], [status |-> s, dated |-> FALSE]))
    BY <1>7 DEF Prepare
  <2>2. RowFits(Row("preparing", db.kinds[o], [status |-> s, dated |-> FALSE]), rev)
    BY <1>2, <1>3, <1>7, <2>1
       DEF Prepare, RowFits, Row, Closed, OldOrderStatus, NewShipmentStatus, OldShipmentStatus
  <2>3. QED
    BY <2>1, <2>2, WriteKeeps, Zenon
<1>8. ASSUME Send(o)
      PROVE  MigrationInv'
  <2>1. PICK dated \in {TRUE} \cup IF At("dates") THEN {} ELSE {FALSE} :
           Writes(o, Row("shipped", db.kinds[o], [status |-> "in_transit", dated |-> dated]))
    BY <1>8 DEF Send
  <2>2. dated \in BOOLEAN /\ (rev >= 8 => dated)
    BY <1>4, <2>1
  <2>3. RowFits(Row("shipped", db.kinds[o], [status |-> "in_transit", dated |-> dated]), rev)
    BY <1>2, <1>3, <1>8, <2>2
       DEF Send, RowFits, Row, Closed, OldOrderStatus, NewShipmentStatus, OldShipmentStatus
  <2>4. QED
    BY <2>1, <2>3, WriteKeeps, Zenon
<1>9. ASSUME Deliver(o)
      PROVE  MigrationInv'
  <2>1. PICK dated \in {TRUE} \cup IF At("dates") THEN {} ELSE {FALSE} :
           Writes(o, Row("delivered", db.kinds[o], [status |-> "delivered", dated |-> dated]))
    BY <1>9 DEF Deliver
  <2>2. dated \in BOOLEAN /\ (rev >= 8 => dated)
    BY <1>4, <2>1
  <2>3. RowFits(Row("delivered", db.kinds[o], [status |-> "delivered", dated |-> dated]), rev)
    BY <1>2, <1>3, <1>9, <2>2
       DEF Deliver, RowFits, Row, Closed, OldOrderStatus, NewShipmentStatus, OldShipmentStatus
  <2>4. QED
    BY <2>1, <2>3, WriteKeeps, Zenon
<1>10. ASSUME NEW new \in Closed, Close(o, new)
       PROVE  MigrationInv'
  <2> DEFINE kinds == IF At("ledger") /\ "sale" \in db.kinds[o] THEN {"sale", "reversal"}
                      ELSE db.kinds[o]
             shipment == IF At("cancelled") /\ db.shipment[o].status \in NotSent
                         THEN [db.shipment[o] EXCEPT !.status = "cancelled"] ELSE db.shipment[o]
  <2>1. /\ Writes(o, Row(new, kinds, shipment))
        /\ db.status[o] \notin Closed
    <3>1. db.status[o] \in IF new = "refunded" THEN {"paid"}
                           ELSE {"pending", "awaiting_payment", "paid", "preparing"}
      BY <1>10, Zenon DEF Close
    <3>2. db.status[o] \notin Closed
      BY <3>1 DEF Closed
    <3>3. QED
      BY <1>10, <3>2, Zenon DEF Close
  <2>2. /\ kinds \in SUBSET {"sale", "reversal"}
        /\ rev < 5 => "reversal" \notin kinds
        /\ rev >= 5 => ("reversal" \in kinds <=> "sale" \in kinds)
    BY <1>2, <1>3, <1>4, <2>1
  <2>3. /\ shipment \in [status: NewShipmentStatus \cup {"none"}, dated: BOOLEAN]
        /\ rev < 6 => shipment.status # "cancelled"
        /\ rev >= 6 => shipment.status \notin NotSent
        /\ rev >= 8 /\ shipment.status \in {"in_transit", "delivered"} => shipment.dated
    BY <1>2, <1>3, <1>4 DEF NewShipmentStatus, NotSent
  <2> HIDE DEF kinds, shipment
  <2>4. new \in OldOrderStatus /\ new # "awaiting_payment"
    BY DEF Closed, OldOrderStatus
  <2>5. RowFits(Row(new, kinds, shipment), rev)
    BY <2>2, <2>3, <2>4 DEF RowFits, Row
  <2>6. QED
    BY <2>1, <2>5, WriteKeeps, Zenon
<1>11. QED
  BY <1>5, <1>6, <1>7, <1>8, <1>9, <1>10

\* The empty database is where the chain begins.
LEMMA InitFits ==
    ASSUME MigrationInit
    PROVE  MigrationInv
<1>1. /\ IsDb(EmptyDb) /\ EmptyDb.tables = {} /\ EmptyDb.types = {} /\ EmptyDb.rules = {}
      /\ EmptyDb.status = [o \in Order |-> "none"] /\ EmptyDb.kinds = [o \in Order |-> {}]
      /\ EmptyDb.shipment = [o \in Order |-> Absent]
  BY DEF EmptyDb, IsDb
<1>2. \A k \in 1..9 : \A a, b : ~Past(0, 0, 0, k, a, b)
  BY DEF Past
<1>3. TablesAt(EmptyDb, 0, 0, 0) /\ TypesAt(EmptyDb, 0, 0, 0) /\ RulesAt(EmptyDb, 0, 0, 0)
  BY <1>1, <1>2 DEF TablesAt, TypesAt, RulesAt
<1>4. RowsTyped(EmptyDb) /\ RowsAt(EmptyDb, 0, 0, 0)
  BY <1>1, <1>2 DEF RowsTyped, RowsAt, Absent
<1>5. DbAt(EmptyDb, 0, 0, 0)
  BY <1>1, <1>3, <1>4 DEF DbAt
<1>6. QED
  BY <1>5 DEF MigrationInit, MigrationInv, OnlyDatesStop, Running

-----------------------------------------------------------------------------
(***************************************************************************)
(* The promises of the migrations.                                         *)
(***************************************************************************)
\* At every step of every run, up or down, the tables, types, rules and rows are
\* those that the effects of the steps executed so far make, and a rollback goes
\* back to such a database.  It is the inductive invariant of the migrations.
THEOREM MigrationInvariant == MigrationSpec => []MigrationInv
<1>1. MigrationInit => MigrationInv
  BY InitFits
<1>2. MigrationInv /\ [MigrationNext]_migrationVars => MigrationInv'
  <2> SUFFICES ASSUME MigrationInv, [MigrationNext]_migrationVars
               PROVE  MigrationInv'
    OBVIOUS
  <2>1. ASSUME NEW to \in 0..Latest, Begin(to)
        PROVE  MigrationInv'
    BY <2>1, BeginKeeps
  <2>2. CASE Execute
    BY <2>2, ExecuteKeeps
  <2>3. CASE Stamp
    BY <2>3, StampKeeps
  <2>4. CASE Fail
    BY <2>4, FailKeeps
  <2>5. CASE Interrupt
    BY <2>5, InterruptKeeps
  <2>6. ASSUME NEW o \in Order,
               \/ Place(o) \/ Pay(o) \/ Prepare(o) \/ Send(o) \/ Deliver(o)
               \/ \E new \in Closed : Close(o, new)
        PROVE  MigrationInv'
    BY <2>6, ApplicationKeeps
  <2>7. CASE UNCHANGED migrationVars
    BY <2>7 DEF migrationVars, MigrationInv, Running, Steps, OnlyDatesStop
  <2>8. QED
    BY <2>1, <2>2, <2>3, <2>4, <2>5, <2>6, <2>7 DEF MigrationNext
<1>3. QED
  BY <1>1, <1>2, PTL DEF MigrationSpec

\* The numbers of the invariant, between runs as well.
LEMMA InvBounds ==
    ASSUME MigrationInv
    PROVE  rev \in 0..9 /\ target \in 0..9 /\ done \in Nat
<1>1. rev \in 0..9 /\ target \in 0..9
  BY DEF MigrationInv
<1>2. CASE Running
  BY <1>1, <1>2, RunBounds
<1>3. CASE ~Running
  BY <1>1, <1>3 DEF MigrationInv
<1>4. QED
  BY <1>1, <1>2, <1>3

\* At rest each type is there exactly when a table, or the ledger, uses it.
LEMMA TypesUsed ==
    ASSUME NEW d, NEW r \in 0..9, TablesAt(d, r, r, 0), TypesAt(d, r, r, 0)
    PROVE  d.types = (UNION {TypesOf(u) : u \in d.tables}) \cup
                     IF r >= 5 THEN {"sale_kind"} ELSE {}
<1> DEFINE used == UNION {TypesOf(u) : u \in d.tables}
<1>1. /\ d.tables \subseteq ToSet(InitialTables) \cup
                    {"product_images", "inventory_history", "order_status_history"}
      /\ \A i \in 1..10 : InitialTables[i] \in d.tables <=> r >= 1
      /\ "inventory_history" \in d.tables <=> r >= 7
      /\ "order_status_history" \in d.tables <=> r >= 7
      /\ "product_images" \in d.tables <=> r >= 2
  BY RestingPast DEF TablesAt
<1>2. /\ d.types \subseteq {"user_role", "order_status", "payment_status", "shipment_status",
                            "sale_kind", "inventory_change_kind", "order_status_change_source"}
      /\ "user_role" \in d.types <=> r >= 1
      /\ "order_status" \in d.types <=> r >= 1
      /\ "payment_status" \in d.types <=> r >= 1
      /\ "shipment_status" \in d.types <=> r >= 1
      /\ "sale_kind" \in d.types <=> r >= 5
      /\ "inventory_change_kind" \in d.types <=> r >= 7
      /\ "order_status_change_source" \in d.types <=> r >= 7
  BY RestingPast DEF TypesAt
<1>3. /\ TypesOf(InitialTables[1]) = {"user_role"} /\ TypesOf(InitialTables[6]) = {"order_status"}
      /\ TypesOf(InitialTables[8]) = {"payment_status"}
      /\ TypesOf(InitialTables[9]) = {"shipment_status"}
      /\ TypesOf("inventory_history") = {"inventory_change_kind"}
      /\ TypesOf("order_status_history") = {"order_status", "order_status_change_source"}
  BY TypesOfTables
<1>4. /\ r >= 1 => {"user_role", "order_status", "payment_status", "shipment_status"} \subseteq used
      /\ r >= 7 => {"inventory_change_kind", "order_status_change_source"} \subseteq used
  BY <1>1, <1>3
<1>5. ASSUME NEW y \in used
      PROVE  \/ y \in {"user_role", "order_status", "payment_status", "shipment_status"} /\ r >= 1
             \/ y \in {"inventory_change_kind", "order_status_change_source"} /\ r >= 7
  <2>1. PICK u \in d.tables : y \in TypesOf(u)
    OBVIOUS
  <2>2. CASE u \in {"product_images", "inventory_history", "order_status_history"}
    BY <1>1, <2>1, <2>2, TypesOfTables
  <2>3. CASE u \in ToSet(InitialTables)
    <3>1. PICK i \in 1..10 : u = InitialTables[i]
      BY <2>3, ListedOnce
    <3>2. TypesOf(u) = IF i = 1 THEN {"user_role"} ELSE IF i = 6 THEN {"order_status"}
          ELSE IF i = 8 THEN {"payment_status"} ELSE IF i = 9 THEN {"shipment_status"} ELSE {}
      BY <3>1, TypesOfTables, Zenon
    <3>3. r >= 1
      BY <1>1, <2>1, <3>1
    <3>4. TypesOf(u) \subseteq {"user_role", "order_status", "payment_status", "shipment_status"}
      <4>1. CASE i \in {1, 6, 8, 9}
        BY <3>2, <4>1
      <4>2. CASE i \notin {1, 6, 8, 9}
        BY <3>2, <4>2
      <4>3. QED
        BY <4>1, <4>2
    <3>5. QED
      BY <2>1, <3>3, <3>4
  <2>4. QED
    BY <1>1, <2>1, <2>2, <2>3
<1> HIDE DEF used
<1>6. ASSUME NEW y
      PROVE  y \in d.types <=> y \in used \/ (r >= 5 /\ y = "sale_kind")
  <2>1. CASE y \in used
    BY <1>2, <1>5, <2>1
  <2>2. CASE y \notin used
    BY <1>2, <1>4, <2>2
  <2>3. QED
    BY <2>1, <2>2
<1>7. d.types = used \cup IF r >= 5 THEN {"sale_kind"} ELSE {}
  BY <1>6
<1>8. QED
  BY <1>7 DEF used

\* The databases and rows are well formed at every step, and between runs there is an
\* enum type exactly for the columns that use it: no upgrade finds a type of an earlier
\* one in its way, and no downgrade leaves one behind.
THEOREM MigrationTypesProved == MigrationSpec => []MigrationTypeOK
<1>1. MigrationInv => MigrationTypeOK
  <2> SUFFICES ASSUME MigrationInv
               PROVE  MigrationTypeOK
    OBVIOUS
  <2>1. rev \in 0..9 /\ target \in 0..9 /\ done \in Nat
    BY InvBounds
  <2>2. done \in 0..Len(IF Running THEN Steps ELSE <<>>)
    BY DEF MigrationInv
  <2>3. /\ db.status \in [Order -> OldOrderStatus \cup {"none"}]
        /\ db.kinds \in [Order -> SUBSET {"sale", "reversal"}]
        /\ db.shipment \in [Order -> [status: NewShipmentStatus \cup {"none"}, dated: BOOLEAN]]
    BY DEF MigrationInv, DbAt, RowsTyped
  <2>4. ASSUME ~Running
        PROVE  db.types = (UNION {TypesOf(u) : u \in db.tables}) \cup
                          IF At("ledger") THEN {"sale_kind"} ELSE {}
    <3>1. TablesAt(db, rev, rev, 0) /\ TypesAt(db, rev, rev, 0)
      BY <2>4, RestingRows DEF DbAt
    <3>2. At("ledger") <=> rev >= 5
      BY <2>1, Features
    <3>3. QED
      BY <2>1, <3>1, <3>2, TypesUsed
  <2>5. QED
    BY <2>1, <2>2, <2>3, <2>4, Chain DEF MigrationTypeOK
<1>2. QED
  BY <1>1, MigrationInvariant, PTL

\* No step of any run leaves a unique column without its guarantee, or the amounts of
\* the sales unchecked.
THEOREM RulesStayEnforcedProved == MigrationSpec => []RulesStayEnforced
<1>1. MigrationInv => RulesStayEnforced
  <2> SUFFICES ASSUME MigrationInv
               PROVE  RulesStayEnforced
    OBVIOUS
  <2>1. rev \in 0..9 /\ target \in 0..9 /\ done \in Nat /\ RulesAt(db, rev, target, done)
    BY InvBounds DEF MigrationInv, DbAt
  <2>2. Past(rev, target, done, 5, 3, 4) => Past(rev, target, done, 5, 2, 5)
    BY <2>1 DEF Past
  <2>3. Past(rev, target, done, 5, 5, 2) => Past(rev, target, done, 5, 4, 3)
    BY <2>1 DEF Past
  <2>4. ASSUME NEW u \in db.tables \cap ToSet(UniqueTables)
        PROVE  \E rule \in {"uq", "ix", "pair"} : <<rule, u>> \in db.rules
    <3>1. PICK i \in 1..7 : u = UniqueTables[i]
      BY ListedOnce
    <3>2. Past(rev, target, done, 4, 3 * i, 3 * i - 2)
             => Past(rev, target, done, 4, 3 * i - 1, 3 * i - 1)
      BY <2>1 DEF Past
    <3>3. QED
      BY <2>1, <2>2, <3>1, <3>2 DEF RulesAt
  <2>5. "sales" \in db.tables =>
            \E rule \in {"not_negative", "sign"} : <<rule, "sales">> \in db.rules
    BY <2>1, <2>3 DEF RulesAt
  <2>6. QED
    BY <2>4, <2>5 DEF RulesStayEnforced
<1>2. QED
  BY <1>1, MigrationInvariant, PTL

\* A run of alembic, up or down, from any revision and with any rows, stops at nothing
\* but a shipment without its date.
THEOREM OnlyDatesStopProved == MigrationSpec => []OnlyDatesStop
<1>1. MigrationInv => OnlyDatesStop
  BY DEF MigrationInv
<1>2. QED
  BY <1>1, MigrationInvariant, PTL

\* Between runs, whatever path the database took through the revisions, every sale of
\* a closed order has its reversal from the ledger's revision on, no shipment of a
\* closed order can still be sent from the next one on, and every dispatched shipment
\* carries its date from the checks on.
THEOREM RowsAsMigratedProved == MigrationSpec => []RowsAsMigrated
<1>1. MigrationInv => RowsAsMigrated
  <2> SUFFICES ASSUME MigrationInv, ~Running
               PROVE  /\ At("ledger") => \A o \in Order :
                            "reversal" \in db.kinds[o] <=>
                                "sale" \in db.kinds[o] /\ db.status[o] \in Closed
                      /\ At("cancelled") => \A o \in Order :
                            db.status[o] \in Closed => db.shipment[o].status \notin NotSent
                      /\ At("dates") => \A o \in Order :
                            db.shipment[o].status \in {"in_transit", "delivered"}
                                => db.shipment[o].dated
    BY DEF RowsAsMigrated, LedgerComplete, NothingLeftToShip, DatesHold
  <2>1. /\ rev \in 0..9
        /\ \A o \in Order : RowFits(Row(db.status[o], db.kinds[o], db.shipment[o]), rev)
    BY RestingRows
  <2>2. /\ At("ledger") <=> rev >= 5
        /\ At("cancelled") <=> rev >= 6
        /\ At("dates") <=> rev >= 8
    BY <2>1, Features
  <2>3. QED
    BY <2>1, <2>2 DEF RowFits, Row
<1>2. QED
  BY <1>1, MigrationInvariant, PTL
=============================================================================

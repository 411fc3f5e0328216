-------------------------- MODULE OlistLoaderProofs --------------------------
(***************************************************************************)
(* What the Olist loader promises, proved for every folder, every set of   *)
(* orders and products and every bound: what it brings in satisfies what   *)
(* the services keep for their own orders, whatever the shop does between  *)
(* two runs, and a second run takes nothing back.                          *)
(***************************************************************************)
EXTENDS OlistLoader, OrderFlowProofs, SequenceTheorems

-----------------------------------------------------------------------------
(***************************************************************************)
(* Reading the steps of an order by created_at.                            *)
(***************************************************************************)
\* A status change with the date the loader gives it.
DatedChange == [change: Change, date: Nat]

\* The steps read up to step n.
ReadUpTo(steps, n) == {m \in 1..Len(steps) : CreatedAt(steps, m) <= CreatedAt(steps, n)}

\* created_at is a number, and no two of at most nine steps share one.
LEMMA CreatedAtDistinct ==
    ASSUME NEW steps \in Seq(DatedChange), Len(steps) <= 9,
           NEW m \in 1..Len(steps), NEW n \in 1..Len(steps)
    PROVE  /\ CreatedAt(steps, m) \in Nat /\ CreatedAt(steps, n) \in Nat
           /\ CreatedAt(steps, m) = CreatedAt(steps, n) => m = n
<1>1. Len(steps) \in Nat /\ steps[m] \in DatedChange /\ steps[n] \in DatedChange
  BY LenProperties, ElementOfSeq
<1>2. steps[m].date \in Nat /\ steps[n].date \in Nat
  BY <1>1 DEF DatedChange
<1>3. m \in 1..9 /\ n \in 1..9
  BY <1>1
<1>4. \A a, b \in Nat, i, j \in 1..9 : 10 * a + i = 10 * b + j => i = j
  OBVIOUS
<1>5. CreatedAt(steps, m) \in Nat /\ CreatedAt(steps, n) \in Nat
  BY <1>2, <1>3 DEF CreatedAt
<1>6. QED
  BY <1>2, <1>3, <1>4, <1>5 DEF CreatedAt

\* A rank is a position in the history.
LEMMA RankBounds ==
    ASSUME NEW steps \in Seq(DatedChange), NEW n \in 1..Len(steps), CreatedAt(steps, n) \in Nat
    PROVE  /\ IsFiniteSet(ReadUpTo(steps, n)) /\ Rank(steps, n) = Cardinality(ReadUpTo(steps, n))
           /\ Rank(steps, n) \in 1..Len(steps)
<1>1. Len(steps) \in Nat
  BY LenProperties
<1>2. IsFiniteSet(1..Len(steps)) /\ Cardinality(1..Len(steps)) = Len(steps)
  <2>1. 1 \in Int /\ Len(steps) \in Int
    BY <1>1
  <2>2. /\ IsFiniteSet(1..Len(steps))
        /\ Cardinality(1..Len(steps)) = IF 1 > Len(steps) THEN 0 ELSE Len(steps) - 1 + 1
    BY <2>1, FS_Interval
  <2>3. QED
    BY <1>1, <2>2
<1>3. ReadUpTo(steps, n) \in SUBSET (1..Len(steps)) /\ n \in ReadUpTo(steps, n)
  BY DEF ReadUpTo
<1>4. IsFiniteSet(ReadUpTo(steps, n)) /\ Cardinality(ReadUpTo(steps, n)) <= Len(steps)
  BY <1>2, <1>3, FS_Subset
<1>5. Cardinality(ReadUpTo(steps, n)) \in Nat /\ Cardinality(ReadUpTo(steps, n)) # 0
  BY <1>3, <1>4, FS_EmptySet, FS_CardinalityType
<1>6. QED
  BY <1>1, <1>4, <1>5 DEF Rank, ReadUpTo

\* Two steps never have the same rank.
LEMMA RankDistinct ==
    ASSUME NEW steps \in Seq(DatedChange), Len(steps) <= 9,
           NEW m \in 1..Len(steps), NEW n \in 1..Len(steps), Rank(steps, m) = Rank(steps, n)
    PROVE  m = n
<1>1. \A i \in 1..Len(steps) : CreatedAt(steps, i) \in Nat
  BY CreatedAtDistinct
<1>2. ASSUME NEW i \in 1..Len(steps), NEW j \in 1..Len(steps), Rank(steps, i) = Rank(steps, j),
             CreatedAt(steps, i) <= CreatedAt(steps, j)
      PROVE  i = j
  <2>1. ReadUpTo(steps, i) \in SUBSET ReadUpTo(steps, j)
    BY <1>1, <1>2 DEF ReadUpTo
  <2>2. ReadUpTo(steps, i) = ReadUpTo(steps, j)
    <3>1. /\ IsFiniteSet(ReadUpTo(steps, j))
          /\ Cardinality(ReadUpTo(steps, j)) = Cardinality(ReadUpTo(steps, i))
      BY <1>1, <1>2, RankBounds
    <3>2. QED
      BY <2>1, <3>1, FS_Subset
  <2>3. CreatedAt(steps, j) <= CreatedAt(steps, i)
    BY <1>1, <2>2 DEF ReadUpTo
  <2>4. QED
    BY <1>1, <1>2, <2>3, CreatedAtDistinct
<1>3. QED
  BY <1>1, <1>2

\* Every position of the history has its step.
LEMMA RankOnto ==
    ASSUME NEW steps \in Seq(DatedChange), Len(steps) <= 9, NEW k \in 1..Len(steps)
    PROVE  \E n \in 1..Len(steps) : Rank(steps, n) = k
<1> DEFINE others == (1..Len(steps)) \ {k}
           rank == [n \in 1..Len(steps) |-> Rank(steps, n)]
<1>1. SUFFICES ASSUME \A n \in 1..Len(steps) : Rank(steps, n) # k PROVE FALSE
  OBVIOUS
<1>2. Len(steps) \in Nat
  BY LenProperties
<1>3. \A n \in 1..Len(steps) : Rank(steps, n) \in 1..Len(steps)
  BY CreatedAtDistinct, RankBounds
<1>4. rank \in [1..Len(steps) -> others] /\ \A n \in 1..Len(steps) : rank[n] = Rank(steps, n)
  BY <1>1, <1>3
<1> HIDE DEF rank
<1>5. IsFiniteSet(1..Len(steps)) /\ Cardinality(1..Len(steps)) = Len(steps)
  <2>1. 1 \in Int /\ Len(steps) \in Int
    BY <1>2
  <2>2. /\ IsFiniteSet(1..Len(steps))
        /\ Cardinality(1..Len(steps)) = IF 1 > Len(steps) THEN 0 ELSE Len(steps) - 1 + 1
    BY <2>1, FS_Interval
  <2>3. QED
    BY <1>2, <2>2
<1>o. others = (1..Len(steps)) \ {k}
  OBVIOUS
<1> HIDE DEF others
<1>6. IsFiniteSet(others) /\ Cardinality(others) = Len(steps) - 1
  BY <1>5, <1>o, FS_RemoveElement
<1>7. \E x, y \in 1..Len(steps) : x # y /\ rank[x] = rank[y]
  <2>1. Cardinality(others) < Cardinality(1..Len(steps))
    BY <1>2, <1>5, <1>6
  <2>2. QED
    BY <1>4, <1>5, <1>6, <2>1, FS_PigeonHole
<1>8. QED
  BY <1>4, <1>7, RankDistinct

\* Steps whose dates never go back are read in the order they were made.
LEMMA RankInOrder ==
    ASSUME NEW steps \in Seq(DatedChange), Len(steps) <= 9,
           \A i, j \in 1..Len(steps) : i <= j => steps[i].date <= steps[j].date,
           NEW n \in 1..Len(steps)
    PROVE  Rank(steps, n) = n
<1>1. Len(steps) \in Nat /\ \A i \in 1..Len(steps) : steps[i].date \in Nat
  <2>1. Len(steps) \in Nat /\ \A i \in 1..Len(steps) : steps[i] \in DatedChange
    BY LenProperties, ElementOfSeq
  <2>2. QED
    BY <2>1 DEF DatedChange
<1>2. \A m \in 1..Len(steps) : CreatedAt(steps, m) <= CreatedAt(steps, n) <=> m <= n
  BY <1>1 DEF CreatedAt
<1>3. ReadUpTo(steps, n) = 1..n
  BY <1>1, <1>2 DEF ReadUpTo
<1>4. Cardinality(1..n) = n
  BY <1>1, FS_Interval
<1>5. QED
  BY <1>3, <1>4 DEF Rank, ReadUpTo

-----------------------------------------------------------------------------
(***************************************************************************)
(* The steps of an order.                                                  *)
(***************************************************************************)
\* The steps tell, by legal changes in the order of their dates, how an order came to
\* the status `reached`; none is dated after `until`.
Tells(steps, reached, until) ==
    /\ steps # <<>> /\ steps[Len(steps)].change.to = reached
    /\ \A i \in 1..Len(steps) :
          /\ LegalChange(steps[i].change)
          /\ steps[i].change.from = (IF i = 1 THEN "none" ELSE steps[i - 1].change.to)
          /\ steps[i].date <= until
    /\ \A i, j \in 1..Len(steps) : i <= j => steps[i].date <= steps[j].date

\* A step of the loader is a dated change of the status.
LEMMA AtType ==
    ASSUME NEW from \in OrderStatus \cup {"none"}, NEW to \in OrderStatus,
           NEW source \in Source, NEW date \in Nat
    PROVE  /\ At(from, to, source, date) \in DatedChange
           /\ At(from, to, source, date).change = Entry(from, to, source)
           /\ At(from, to, source, date).date = date
BY EntryType DEF At, DatedChange

\* One more step, legal and not earlier, continues what the steps tell.
LEMMA TellsOn ==
    ASSUME NEW steps \in Seq(DatedChange), NEW reached, NEW until \in Nat,
           Tells(steps, reached, until),
           NEW step \in DatedChange, step.change.from = reached, LegalChange(step.change),
           until <= step.date
    PROVE  Tells(Append(steps, step), step.change.to, step.date)
<1> DEFINE more == Append(steps, step)
<1>1. /\ more \in Seq(DatedChange) /\ Len(more) = Len(steps) + 1 /\ Len(steps) \in Nat \ {0}
      /\ \A i \in 1..Len(steps) : more[i] = steps[i]
      /\ more[Len(steps) + 1] = step
  BY DEF Tells
<1>2. /\ step.date \in Nat
      /\ \A i \in 1..Len(steps) : steps[i].date \in Nat /\ steps[i].date <= until
  <2>1. \A i \in 1..Len(steps) : steps[i] \in DatedChange
    BY ElementOfSeq
  <2>2. QED
    BY <2>1 DEF Tells, DatedChange
<1> HIDE DEF more
<1>3. more # <<>> /\ more[Len(more)].change.to = step.change.to
  BY <1>1
<1>4. ASSUME NEW i \in 1..Len(more)
      PROVE  /\ LegalChange(more[i].change)
             /\ more[i].change.from = (IF i = 1 THEN "none" ELSE more[i - 1].change.to)
             /\ more[i].date <= step.date
  <2>1. CASE i \in 1..Len(steps)
    <3>1. more[i] = steps[i] /\ (i # 1 => more[i - 1] = steps[i - 1])
      BY <1>1, <2>1
    <3>2. steps[i].date <= step.date
      BY <1>2, <2>1
    <3>3. QED
      BY <2>1, <3>1, <3>2 DEF Tells
  <2>2. CASE i = Len(steps) + 1
    <3>1. more[i] = step /\ i # 1 /\ more[i - 1] = steps[Len(steps)]
      BY <1>1, <2>2
    <3>2. QED
      BY <1>2, <3>1 DEF Tells
  <2>3. QED
    BY <1>1, <2>1, <2>2
<1>5. ASSUME NEW i \in 1..Len(more), NEW j \in 1..Len(more), i <= j
      PROVE  more[i].date <= more[j].date
  <2>1. CASE j \in 1..Len(steps)
    <3>1. i \in 1..Len(steps)
      BY <1>1, <1>5, <2>1
    <3>2. QED
      BY <1>1, <1>5, <2>1, <3>1 DEF Tells
  <2>2. CASE j = Len(steps) + 1
    BY <1>1, <1>4, <2>2
  <2>3. QED
    BY <1>1, <2>1, <2>2
<1>6. QED
  BY <1>3, <1>4, <1>5 DEF Tells, more

\* A step taken on a condition adds at most one.
LEMMA WhenAdds ==
    ASSUME NEW steps \in Seq(DatedChange), NEW condition \in BOOLEAN, NEW step,
           condition => step \in DatedChange
    PROVE  /\ steps \o When(condition, step) \in Seq(DatedChange)
           /\ Len(steps \o When(condition, step)) <= Len(steps) + 1
           /\ steps \o When(condition, step) = IF condition THEN Append(steps, step) ELSE steps
<1>1. Len(steps) \in Nat
  BY LenProperties
<1>2. CASE condition
  <2>1. step \in DatedChange
    BY <1>2
  <2>2. steps \o <<step>> = Append(steps, step)
    BY <2>1, AppendIsConcat
  <2>3. Append(steps, step) \in Seq(DatedChange) /\ Len(Append(steps, step)) = Len(steps) + 1
    BY <2>1, AppendProperties
  <2>4. QED
    BY <1>1, <1>2, <2>2, <2>3 DEF When
<1>3. CASE ~condition
  <2>1. steps \o <<>> = steps
    BY ConcatEmptySeq
  <2>2. QED
    BY <1>1, <1>3, <2>1 DEF When
<1>4. QED
  BY <1>2, <1>3

\* So do what the steps tell.
LEMMA TellsWhen ==
    ASSUME NEW steps \in Seq(DatedChange), NEW reached, NEW until \in Nat,
           Tells(steps, reached, until),
           NEW condition \in BOOLEAN, NEW step,
           condition => /\ step \in DatedChange
                        /\ step.change.from = reached /\ LegalChange(step.change)
                        /\ until <= step.date
    PROVE  Tells(steps \o When(condition, step),
                 IF condition THEN step.change.to ELSE reached,
                 IF condition THEN step.date ELSE until)
BY WhenAdds, TellsOn

-----------------------------------------------------------------------------
(***************************************************************************)
(* The history of an imported order.                                       *)
(***************************************************************************)
\* Whatever the dates, the steps read back are a history.
LEMMA ReadType ==
    ASSUME NEW steps \in Seq(DatedChange), Len(steps) <= 9
    PROVE  /\ \A k \in 1..Len(steps) :
                 (CHOOSE n \in 1..Len(steps) : Rank(steps, n) = k) \in 1..Len(steps)
           /\ [k \in 1..Len(steps) |->
                  steps[CHOOSE n \in 1..Len(steps) : Rank(steps, n) = k].change] \in Seq(Change)
<1> DEFINE read(k) == CHOOSE n \in 1..Len(steps) : Rank(steps, n) = k
<1>1. \A k \in 1..Len(steps) : read(k) \in 1..Len(steps)
  BY RankOnto
<1>2. Len(steps) \in Nat /\ \A i \in 1..Len(steps) : steps[i] \in DatedChange
  BY LenProperties, ElementOfSeq
<1>3. \A i \in 1..Len(steps) : steps[i].change \in Change
  BY <1>2 DEF DatedChange
<1> HIDE DEF read
<1>4. [k \in 1..Len(steps) |-> steps[read(k)].change] \in [1..Len(steps) -> Change]
  BY <1>1, <1>3
<1>5. [k \in 1..Len(steps) |-> steps[read(k)].change] \in Seq(Change)
  BY <1>2, <1>4, SeqDef
<1>6. QED
  BY <1>1, <1>5 DEF read

\* Steps that tell a life in the order of their dates read back as its chain.
LEMMA ReadTells ==
    ASSUME NEW steps \in Seq(DatedChange), Len(steps) <= 9, NEW reached, NEW until,
           Tells(steps, reached, until)
    PROVE  Chain([k \in 1..Len(steps) |->
                    steps[CHOOSE n \in 1..Len(steps) : Rank(steps, n) = k].change], reached)
<1> DEFINE read(k) == CHOOSE n \in 1..Len(steps) : Rank(steps, n) = k
           told == [k \in 1..Len(steps) |-> steps[read(k)].change]
<1>1. \A n \in 1..Len(steps) : Rank(steps, n) = n
  BY RankInOrder DEF Tells
<1>2. \A k \in 1..Len(steps) : read(k) = k
  BY <1>1
<1>3. told \in Seq(Change)
  BY ReadType
<1>4. \A k \in 1..Len(steps) : told[k] = steps[k].change
  BY <1>2
<1>5. DOMAIN told = 1..Len(steps) /\ Len(steps) \in Nat /\ DOMAIN told = 1..Len(told)
      /\ Len(told) \in Nat
  BY <1>3, LenProperties
<1> HIDE DEF read, told
<1>6. Len(told) = Len(steps)
  BY <1>5
<1>7. Len(steps) # 0
  <2>1. steps # <<>>
    BY DEF Tells
  <2>2. QED
    BY <2>1, EmptySeq
<1>8. told # <<>> /\ told[Len(told)].to = reached
  BY <1>4, <1>5, <1>6, <1>7 DEF Tells
<1>9. ASSUME NEW i \in 1..Len(told)
      PROVE  LegalChange(told[i]) /\ told[i].from = (IF i = 1 THEN "none" ELSE told[i - 1].to)
  <2>1. i \in 1..Len(steps) /\ (i # 1 => i - 1 \in 1..Len(steps))
    BY <1>5, <1>6
  <2>2. told[i] = steps[i].change /\ (i # 1 => told[i - 1] = steps[i - 1].change)
    BY <1>4, <2>1
  <2>3. QED
    BY <2>1, <2>2 DEF Tells
<1>10. Chain(told, reached)
  BY <1>8, <1>9 DEF Chain
<1>11. QED
  BY <1>10 DEF told, read

\* The fields of a folder's order.
LEMMA CsvFields ==
    ASSUME NEW csv \in CsvOrder
    PROVE  /\ csv.raw \in RawStatus /\ csv.customer \in BOOLEAN /\ csv.badLine \in BOOLEAN
           /\ csv.lines \in [Product -> 0..MaxQty] /\ csv.payments \in Nat
           /\ csv.purchased \in Nat /\ csv.approved \in Nat
           /\ csv.dispatched \in Nat /\ csv.delivered \in Nat
<1>1. MaxDate \in Nat /\ MaxCsvPayments \in Nat /\ MaxQty \in Nat
  BY OrderFlowAssumption, OlistLoaderAssumption
<1>2. EmptyCart \in [Product -> 0..MaxQty]
  BY <1>1 DEF EmptyCart
<1>3. csv.lines \in [Product -> 0..MaxQty]
  BY <1>2 DEF CsvOrder, Cart
<1>4. /\ csv.raw \in RawStatus /\ csv.customer \in BOOLEAN /\ csv.badLine \in BOOLEAN
      /\ csv.payments \in 0..MaxCsvPayments /\ csv.purchased \in 0..MaxDate
      /\ csv.approved \in 0..MaxDate /\ csv.dispatched \in 0..MaxDate
      /\ csv.delivered \in 0..MaxDate
  BY DEF CsvOrder, Date
<1>5. QED
  BY <1>1, <1>3, <1>4

\* The last timestamp of an order is one of its timestamps, and none is later.
LEMMA LastLatest ==
    ASSUME NEW csv \in CsvOrder
    PROVE  /\ Last(csv) \in Nat
           /\ csv.purchased <= Last(csv) /\ csv.approved <= Last(csv)
           /\ csv.dispatched <= Last(csv) /\ csv.delivered <= Last(csv)
<1> DEFINE dates == {csv.purchased, csv.approved, csv.dispatched, csv.delivered}
<1>1. /\ csv.purchased \in Nat /\ csv.approved \in Nat
      /\ csv.dispatched \in Nat /\ csv.delivered \in Nat
  BY CsvFields
<1>2. \E d \in dates : \A e \in dates : e <= d
  <2>1. \A a, b, c, d \in Nat : \E m \in {a, b, c, d} : a <= m /\ b <= m /\ c <= m /\ d <= m
    OBVIOUS
  <2>2. QED
    BY <1>1, <2>1
<1>3. Last(csv) \in dates /\ \A e \in dates : e <= Last(csv)
  BY <1>2 DEF Last
<1>4. QED
  BY <1>1, <1>3

\* An accepted order that counts as paid has payments; one whose status says so is paid.
LEMMA PaidFacts ==
    ASSUME NEW csv \in CsvOrder, ~Rejected(csv)
    PROVE  /\ csv.raw \in RawStatus \ {"other"}
           /\ csv.raw = "created" => ~Paid(csv)
           /\ csv.raw \in {"approved", "processing", "shipped", "delivered"} => Paid(csv)
           /\ Paid(csv) => csv.payments > 0
           /\ StatusOf(csv.raw) \in PaidStatus
                 <=> csv.raw \in {"approved", "processing", "shipped", "delivered"}
           /\ StatusOf(csv.raw) = "pending" <=> csv.raw = "created"
           /\ StatusOf(csv.raw) = "cancelled" <=> csv.raw = "canceled"
           /\ StatusOf(csv.raw) = "shipped" <=> csv.raw = "shipped"
           /\ StatusOf(csv.raw) = "delivered" <=> csv.raw = "delivered"
           /\ StatusOf(csv.raw) \in OrderStatus \ {"refunded"}
<1>1. csv.raw \in RawStatus \ {"other"} /\ csv.payments \in Nat
  BY CsvFields DEF Rejected
<1>2. StatusOf(csv.raw) = CASE csv.raw = "created" -> "pending"
                            [] csv.raw = "approved" -> "paid"
                            [] csv.raw = "processing" -> "preparing"
                            [] csv.raw = "canceled" -> "cancelled"
                            [] csv.raw = "shipped" -> "shipped"
                            [] csv.raw = "delivered" -> "delivered"
  BY <1>1 DEF StatusOf, RawStatus
<1>3. StatusOf(csv.raw) \in PaidStatus => csv.payments # 0
  BY DEF Rejected
<1>4. QED
  BY <1>1, <1>2, <1>3 DEF Paid, PaidStatus, RawStatus, OrderStatus

\* The steps of an accepted order are at most seven; unless its approval is dated astray
\* they tell how it came to its status.
LEMMA StepsTell ==
    ASSUME NEW csv \in CsvOrder, ~Rejected(csv)
    PROVE  /\ Steps(csv) \in Seq(DatedChange) /\ Len(Steps(csv)) <= 9
           /\ ~ApprovedAstray(csv) =>
                 \E until \in Nat : Tells(Steps(csv), StatusOf(csv.raw), until)
<1> DEFINE paid == At("pending", "paid", "payment", PaidAt(csv))
           prepared == At("paid", "preparing", "manual", PaidAt(csv))
           packed == At("paid", "preparing", "shipment_created", csv.dispatched)
           sent == At("preparing", "shipped", "shipment_dispatched", csv.dispatched)
           arrived == At("shipped", "delivered", "shipment_delivered", csv.delivered)
           called == At(IF Paid(csv) THEN "paid" ELSE "pending", "cancelled", "manual", Last(csv))
           s1 == <<At("none", "pending", "order_created", csv.purchased)>>
           s2 == s1 \o When(Paid(csv), paid)
           s3 == s2 \o When(csv.raw = "processing", prepared)
           s4 == s3 \o When(csv.raw \in Dispatched, packed)
           s5 == s4 \o When(csv.raw \in Dispatched, sent)
           s6 == s5 \o When(csv.raw = "delivered", arrived)
           s7 == s6 \o When(csv.raw = "canceled", called)
<1>s. Steps(csv) = s7
  BY DEF Steps
<1>d. /\ csv.purchased \in Nat /\ csv.dispatched \in Nat /\ csv.delivered \in Nat
      /\ PaidAt(csv) \in Nat /\ Last(csv) \in Nat
      /\ csv.raw \in {"created", "approved", "processing", "shipped", "delivered", "canceled"}
  BY CsvFields, LastLatest, PaidFacts DEF PaidAt, RawStatus
<1>b. Paid(csv) \in BOOLEAN /\ (csv.raw \in Dispatched) \in BOOLEAN
      /\ (csv.raw = "processing") \in BOOLEAN /\ (csv.raw = "delivered") \in BOOLEAN
      /\ (csv.raw = "canceled") \in BOOLEAN
  BY DEF Paid
<1> HIDE DEF paid, prepared, packed, sent, arrived, called, s1, s2, s3, s4, s5, s6, s7
<1>y. /\ {"none", "pending", "paid", "preparing", "shipped"} \subseteq OrderStatus \cup {"none"}
      /\ {"pending", "paid", "preparing", "shipped", "delivered", "cancelled"} \subseteq OrderStatus
      /\ {"order_created", "payment", "manual", "shipment_created", "shipment_dispatched",
           "shipment_delivered"} \subseteq Source
  BY DEF OrderStatus, Source
<1>p. /\ paid \in DatedChange /\ paid.date = PaidAt(csv)
      /\ paid.change = Entry("pending", "paid", "payment")
  <2>1. paid \in DatedChange
    BY <1>d, <1>y, AtType DEF paid
  <2>2. QED
    BY <2>1 DEF paid, At
<1>r. /\ prepared \in DatedChange /\ prepared.date = PaidAt(csv)
      /\ prepared.change = Entry("paid", "preparing", "manual")
  <2>1. prepared \in DatedChange
    BY <1>d, <1>y, AtType DEF prepared
  <2>2. QED
    BY <2>1 DEF prepared, At
<1>k. /\ packed \in DatedChange /\ packed.date = csv.dispatched
      /\ packed.change = Entry("paid", "preparing", "shipment_created")
  <2>1. packed \in DatedChange
    BY <1>d, <1>y, AtType DEF packed
  <2>2. QED
    BY <2>1 DEF packed, At
<1>n. /\ sent \in DatedChange /\ sent.date = csv.dispatched
      /\ sent.change = Entry("preparing", "shipped", "shipment_dispatched")
  <2>1. sent \in DatedChange
    BY <1>d, <1>y, AtType DEF sent
  <2>2. QED
    BY <2>1 DEF sent, At
<1>a. /\ arrived \in DatedChange /\ arrived.date = csv.delivered
      /\ arrived.change = Entry("shipped", "delivered", "shipment_delivered")
  <2>1. arrived \in DatedChange
    BY <1>d, <1>y, AtType DEF arrived
  <2>2. QED
    BY <2>1 DEF arrived, At
<1>c. /\ called \in DatedChange /\ called.date = Last(csv)
      /\ called.change = Entry(IF Paid(csv) THEN "paid" ELSE "pending", "cancelled", "manual")
  <2>1. called \in DatedChange
    BY <1>d, <1>y, AtType DEF called
  <2>2. QED
    BY <2>1 DEF called, At
<1>1. s1 \in Seq(DatedChange) /\ Len(s1) = 1
  <2>1. At("none", "pending", "order_created", csv.purchased) \in DatedChange
    BY <1>d, <1>y, AtType
  <2>2. QED
    BY <2>1 DEF s1
<1>e. s1[1].change = Entry("none", "pending", "order_created") /\ s1[1].date = csv.purchased
  BY DEF s1, At
<1>2. s2 \in Seq(DatedChange) /\ Len(s2) <= Len(s1) + 1
  BY <1>1, <1>b, <1>p, WhenAdds DEF s2
<1>3. s3 \in Seq(DatedChange) /\ Len(s3) <= Len(s2) + 1
  BY <1>2, <1>b, <1>r, WhenAdds DEF s3
<1>4. s4 \in Seq(DatedChange) /\ Len(s4) <= Len(s3) + 1
  BY <1>3, <1>b, <1>k, WhenAdds DEF s4
<1>5. s5 \in Seq(DatedChange) /\ Len(s5) <= Len(s4) + 1
  BY <1>4, <1>b, <1>n, WhenAdds DEF s5
<1>6. s6 \in Seq(DatedChange) /\ Len(s6) <= Len(s5) + 1
  BY <1>5, <1>b, <1>a, WhenAdds DEF s6
<1>7. s7 \in Seq(DatedChange) /\ Len(s7) <= Len(s6) + 1
  BY <1>6, <1>b, <1>c, WhenAdds DEF s7
<1>8. Len(s7) <= 9
  <2>1. /\ Len(s1) \in Nat /\ Len(s2) \in Nat /\ Len(s3) \in Nat /\ Len(s4) \in Nat
        /\ Len(s5) \in Nat /\ Len(s6) \in Nat /\ Len(s7) \in Nat
    BY <1>1, <1>2, <1>3, <1>4, <1>5, <1>6, <1>7, LenProperties
  <2>2. QED
    BY <2>1, <1>1, <1>2, <1>3, <1>4, <1>5, <1>6, <1>7
<1>9. ASSUME ~ApprovedAstray(csv)
      PROVE  \E until \in Nat : Tells(s7, StatusOf(csv.raw), until)
  <2>o. /\ Paid(csv) => csv.purchased <= PaidAt(csv)
        /\ csv.raw \in Dispatched => Paid(csv) /\ PaidAt(csv) <= csv.dispatched
        /\ csv.raw = "processing" => Paid(csv)
        /\ csv.raw = "created" => ~Paid(csv)
        /\ csv.raw = "approved" => Paid(csv)
        /\ csv.raw = "delivered" => csv.dispatched <= csv.delivered
        /\ csv.purchased <= Last(csv) /\ PaidAt(csv) <= Last(csv)
    <3>1. csv.raw \in Dispatched => Paid(csv)
      BY PaidFacts DEF Dispatched
    <3>2. Paid(csv) => csv.purchased <= PaidAt(csv)
      BY <1>9, <1>d DEF ApprovedAstray
    <3>3. csv.raw \in Dispatched => PaidAt(csv) <= csv.dispatched
      BY <1>9, <1>d, <3>1 DEF ApprovedAstray
    <3>4. csv.raw = "delivered" => csv.dispatched <= csv.delivered
      BY <1>d DEF Rejected, Dispatched
    <3>5. csv.purchased <= Last(csv) /\ PaidAt(csv) <= Last(csv)
      BY LastLatest DEF PaidAt
    <3>6. QED
      BY <3>1, <3>2, <3>3, <3>4, <3>5, PaidFacts
  <2> DEFINE r2 == IF Paid(csv) THEN "paid" ELSE "pending"
             u2 == IF Paid(csv) THEN PaidAt(csv) ELSE csv.purchased
             r3 == IF csv.raw = "processing" THEN "preparing" ELSE r2
             r5 == IF csv.raw \in Dispatched THEN "shipped" ELSE r3
             u4 == IF csv.raw \in Dispatched THEN csv.dispatched ELSE u2
             r6 == IF csv.raw = "delivered" THEN "delivered" ELSE r5
             u6 == IF csv.raw = "delivered" THEN csv.delivered ELSE u4
  <2>u. csv.purchased \in Nat /\ u2 \in Nat /\ u4 \in Nat /\ u6 \in Nat
    BY <1>d
  <2>e. \A from, to, source : /\ Entry(from, to, source).from = from
                              /\ Entry(from, to, source).to = to
                              /\ Entry(from, to, source).source = source
    BY DEF Entry
  <2>g. /\ LegalChange(Entry("none", "pending", "order_created"))
        /\ LegalChange(Entry("pending", "paid", "payment"))
        /\ LegalChange(Entry("paid", "preparing", "manual"))
        /\ LegalChange(Entry("paid", "preparing", "shipment_created"))
        /\ LegalChange(Entry("preparing", "shipped", "shipment_dispatched"))
        /\ LegalChange(Entry("shipped", "delivered", "shipment_delivered"))
        /\ LegalChange(Entry("paid", "cancelled", "manual"))
        /\ LegalChange(Entry("pending", "cancelled", "manual"))
    BY DEF LegalChange, Entry, Holding, AllowedTransitions
  <2>1. Tells(s1, "pending", csv.purchased)
    <3>1. s1 # <<>> /\ 1..Len(s1) = {1} /\ s1[Len(s1)] = s1[1]
      BY <1>1
    <3>2. /\ LegalChange(s1[1].change) /\ s1[1].change.from = "none"
          /\ s1[1].change.to = "pending" /\ s1[1].date <= csv.purchased
      BY <1>e, <1>d, <2>e, <2>g
    <3>3. \A i, j \in 1..Len(s1) : i = 1 /\ j = 1
      BY <3>1
    <3>4. \A i, j \in 1..Len(s1) : i <= j => s1[i].date <= s1[j].date
      BY <1>e, <1>d, <3>3
    <3>5. QED
      BY <3>1, <3>2, <3>3, <3>4 DEF Tells
  <2> HIDE DEF r2, r3, r5, r6, u2, u4, u6
  <2>2. Tells(s2, r2, u2)
    <3>1. Paid(csv) => /\ paid \in DatedChange /\ paid.change.from = "pending"
                    /\ LegalChange(paid.change) /\ csv.purchased <= paid.date
      BY <1>d, <1>p, <2>e, <2>g, <2>o, <2>u DEF r2, u2
    <3>2. Tells(s2, IF Paid(csv) THEN paid.change.to ELSE "pending", IF Paid(csv) THEN paid.date ELSE csv.purchased)
      BY <1>1, <1>b, <1>d, <2>1, <2>u, <3>1, TellsWhen DEF s2
    <3>3. QED
      BY <1>p, <2>e, <3>2 DEF r2, u2
  <2>3. Tells(s3, r3, u2)
    <3>1. (csv.raw = "processing") => /\ prepared \in DatedChange /\ prepared.change.from = r2
                    /\ LegalChange(prepared.change) /\ u2 <= prepared.date
      BY <1>d, <1>r, <2>e, <2>g, <2>o, <2>u DEF r3, r2, u2
    <3>2. Tells(s3, IF (csv.raw = "processing") THEN prepared.change.to ELSE r2, IF (csv.raw = "processing") THEN prepared.date ELSE u2)
      BY <1>2, <1>b, <1>d, <2>2, <2>u, <3>1, TellsWhen DEF s3
    <3>3. QED
      BY <1>r, <2>e, <2>o, <3>2 DEF r3, r2, u2
  <2>4. Tells(s4, IF csv.raw \in Dispatched THEN "preparing" ELSE r3, u4)
    <3>1. (csv.raw \in Dispatched) => /\ packed \in DatedChange /\ packed.change.from = r3
                    /\ LegalChange(packed.change) /\ u2 <= packed.date
      BY <1>d, <1>k, <2>e, <2>g, <2>o, <2>u DEF r3, r2, u2, u4, Dispatched
    <3>2. Tells(s4, IF (csv.raw \in Dispatched) THEN packed.change.to ELSE r3, IF (csv.raw \in Dispatched) THEN packed.date ELSE u2)
      BY <1>3, <1>b, <1>d, <2>3, <2>u, <3>1, TellsWhen DEF s4
    <3>3. QED
      BY <1>k, <2>e, <3>2 DEF r3, r2, u2, u4, Dispatched
  <2>5. Tells(s5, r5, u4)
    <3>1. (csv.raw \in Dispatched) => /\ sent \in DatedChange /\ sent.change.from = (IF csv.raw \in Dispatched THEN "preparing" ELSE r3)
                    /\ LegalChange(sent.change) /\ u4 <= sent.date
      BY <1>d, <1>n, <2>e, <2>g, <2>o, <2>u DEF r5, u4, Dispatched
    <3>2. Tells(s5, IF (csv.raw \in Dispatched) THEN sent.change.to ELSE (IF csv.raw \in Dispatched THEN "preparing" ELSE r3), IF (csv.raw \in Dispatched) THEN sent.date ELSE u4)
      BY <1>4, <1>b, <1>d, <2>4, <2>u, <3>1, TellsWhen DEF s5
    <3>3. QED
      BY <1>n, <2>e, <3>2 DEF r5, u4, Dispatched
  <2>6. Tells(s6, r6, u6)
    <3>1. (csv.raw = "delivered") => /\ arrived \in DatedChange /\ arrived.change.from = r5
                    /\ LegalChange(arrived.change) /\ u4 <= arrived.date
      BY <1>d, <1>a, <2>e, <2>g, <2>o, <2>u DEF r6, r5, u4, u6, Dispatched
    <3>2. Tells(s6, IF (csv.raw = "delivered") THEN arrived.change.to ELSE r5, IF (csv.raw = "delivered") THEN arrived.date ELSE u4)
      BY <1>5, <1>b, <1>d, <2>5, <2>u, <3>1, TellsWhen DEF s6
    <3>3. QED
      BY <1>a, <2>e, <3>2 DEF r6, r5, u4, u6, Dispatched
  <2>7. Tells(s7, IF csv.raw = "canceled" THEN "cancelled" ELSE r6, IF csv.raw = "canceled" THEN Last(csv) ELSE u6)
    <3>1. (csv.raw = "canceled") => /\ called \in DatedChange /\ called.change.from = r6
                    /\ LegalChange(called.change) /\ u6 <= called.date
      BY <1>d, <1>c, <2>e, <2>g, <2>o, <2>u DEF r6, r5, r3, r2, u6, u4, u2, Dispatched
    <3>2. Tells(s7, IF (csv.raw = "canceled") THEN called.change.to ELSE r6, IF (csv.raw = "canceled") THEN called.date ELSE u6)
      BY <1>6, <1>b, <1>d, <2>6, <2>u, <3>1, TellsWhen DEF s7
    <3>3. QED
      BY <1>c, <2>e, <3>2 DEF r6, r5, r3, r2, u6, u4, u2, Dispatched
  <2>8. StatusOf(csv.raw) = IF csv.raw = "canceled" THEN "cancelled" ELSE r6
    BY <1>d, <2>o DEF StatusOf, Dispatched, r6, r5, r3, r2
  <2>9. QED
    BY <1>d, <2>7, <2>8, <2>u
<1>10. QED
  BY <1>s, <1>7, <1>8, <1>9

-----------------------------------------------------------------------------
(***************************************************************************)
(* The rows of an order, as transform makes them.                          *)
(***************************************************************************)
\* What ImportedLedger says of one order: its status, its ledger, its completed payments.
LedgerFits(s, kinds, completed) ==
    /\ "sale" \in kinds <=> completed > 0
    /\ s \in PaidStatus => "sale" \in kinds
    /\ s \in {"none", "pending"} => kinds = {}
    /\ "reversal" \in kinds <=> "sale" \in kinds /\ s \in {"cancelled", "refunded"}

\* What ImportedShipments says of one order and its shipment.
ShipmentFits(s, sent) ==
    /\ s = "shipped" <=> sent = "in_transit"
    /\ s = "delivered" <=> sent = "delivered"
    /\ sent = "preparing" => s = "preparing"
    /\ sent = "cancelled" => s = "cancelled"

RowType(row) ==
    /\ row.status \in (OrderStatus \ {"refunded"}) \cup {"none"}
    /\ row.items \in [Product -> 0..MaxQty]
    /\ row.ledger \in SUBSET SaleKind
    /\ row.completed \in Nat
    /\ row.shipment \in Shipment
    /\ row.history \in Seq(Change)
    /\ row.sold \in SUBSET Product

\* The rows of one order fit together, and the products of its lines are brought too.
SoundRow(row) ==
    /\ RowType(row)
    /\ row.status # "none" => row.sold = {p \in Product : row.items[p] > 0}
    /\ LedgerFits(row.status, row.ledger, row.completed)
    /\ ShipmentFits(row.status, row.shipment.status)
    /\ ~row.astray => Chain(row.history, row.status)

\* The history of an accepted order.
LEMMA HistoryTold ==
    ASSUME NEW csv \in CsvOrder, ~Rejected(csv)
    PROVE  /\ HistoryOf(csv) \in Seq(Change)
           /\ ~ApprovedAstray(csv) => Chain(HistoryOf(csv), StatusOf(csv.raw))
<1> DEFINE steps == Steps(csv)
<1>1. /\ steps \in Seq(DatedChange) /\ Len(steps) <= 9
      /\ ~ApprovedAstray(csv) => \E until \in Nat : Tells(steps, StatusOf(csv.raw), until)
  BY StepsTell
<1>2. HistoryOf(csv) = [k \in 1..Len(steps) |->
                          steps[CHOOSE n \in 1..Len(steps) : Rank(steps, n) = k].change]
  BY DEF HistoryOf
<1> HIDE DEF steps
<1>3. QED
  BY <1>1, <1>2, ReadType, ReadTells

\* transform makes sound rows, whatever the folder holds.
LEMMA RowsSound == ASSUME NEW csv \in CsvOrder PROVE SoundRow(Rows(csv))
<1> DEFINE row == Rows(csv)
           sold == {p \in Product : csv.lines[p] > 0}
<1>n. NoShipment \in Shipment /\ NoShipment.status = "none"
  BY DEF NoShipment, Shipment
<1>1. CASE Rejected(csv)
  <2>1. /\ row.status = "none" /\ row.items = EmptyCart /\ row.ledger = {} /\ row.completed = 0
        /\ row.shipment = NoShipment /\ row.history = <<>> /\ row.sold = sold
    BY <1>1 DEF Rows
  <2> HIDE DEF row
  <2>2. EmptyCart \in [Product -> 0..MaxQty]
    BY OrderFlowAssumption DEF EmptyCart
  <2>3. RowType(row)
    BY <2>1, <2>2, <1>n DEF RowType
  <2>4. LedgerFits(row.status, row.ledger, row.completed)
    BY <2>1 DEF LedgerFits, PaidStatus
  <2>5. ShipmentFits(row.status, row.shipment.status)
    BY <2>1, <1>n DEF ShipmentFits
  <2>6. Chain(row.history, row.status)
    BY <2>1 DEF Chain
  <2>7. QED
    BY <2>1, <2>3, <2>4, <2>5, <2>6 DEF SoundRow, row
<1>2. CASE ~Rejected(csv)
  <2>1. /\ row.status = StatusOf(csv.raw) /\ row.items = csv.lines /\ row.ledger = Ledger(csv)
        /\ row.completed = (IF Paid(csv) THEN csv.payments ELSE 0)
        /\ row.shipment = ShipmentOf(csv) /\ row.history = HistoryOf(csv)
        /\ row.astray = ApprovedAstray(csv) /\ row.sold = sold
    BY <1>2 DEF Rows
  <2> HIDE DEF row
  <2>f. /\ csv.lines \in [Product -> 0..MaxQty] /\ csv.payments \in Nat
    BY CsvFields
  <2>p. /\ csv.raw \in RawStatus \ {"other"}
        /\ csv.raw = "created" => ~Paid(csv)
        /\ csv.raw \in {"approved", "processing", "shipped", "delivered"} => Paid(csv)
        /\ Paid(csv) => csv.payments > 0
        /\ StatusOf(csv.raw) \in PaidStatus
              <=> csv.raw \in {"approved", "processing", "shipped", "delivered"}
        /\ StatusOf(csv.raw) = "pending" <=> csv.raw = "created"
        /\ StatusOf(csv.raw) = "cancelled" <=> csv.raw = "canceled"
        /\ StatusOf(csv.raw) = "shipped" <=> csv.raw = "shipped"
        /\ StatusOf(csv.raw) = "delivered" <=> csv.raw = "delivered"
        /\ StatusOf(csv.raw) \in OrderStatus \ {"refunded"}
    BY <1>2, PaidFacts
  <2>2. /\ ShipmentOf(csv) \in Shipment
        /\ ShipmentOf(csv).status = CASE csv.raw = "shipped" -> "in_transit"
                                      [] csv.raw = "delivered" -> "delivered"
                                      [] OTHER -> "none"
    BY <1>n DEF ShipmentOf, Shipment, ShipmentStatus
  <2>3. /\ "sale" \in Ledger(csv) <=> Paid(csv)
        /\ "reversal" \in Ledger(csv) <=> Paid(csv) /\ csv.raw = "canceled"
        /\ ~Paid(csv) => Ledger(csv) = {}
        /\ Ledger(csv) \in SUBSET SaleKind
    BY DEF Ledger, SaleKind
  <2>4. RowType(row)
    <3>1. row.completed \in Nat
      BY <2>1, <2>f
    <3>2. row.history \in Seq(Change)
      BY <1>2, <2>1, HistoryTold
    <3>3. QED
      BY <2>1, <2>f, <2>p, <2>2, <2>3, <3>1, <3>2 DEF RowType
  <2>5. LedgerFits(row.status, row.ledger, row.completed)
    <3>1. row.completed > 0 <=> Paid(csv)
      BY <2>1, <2>f, <2>p
    <3>2. row.status \in PaidStatus => Paid(csv)
      BY <2>1, <2>p
    <3>3. row.status \in {"none", "pending"} => ~Paid(csv)
      BY <2>1, <2>p DEF OrderStatus
    <3>4. row.status \in {"cancelled", "refunded"} <=> csv.raw = "canceled"
      BY <2>1, <2>p
    <3>5. QED
      BY <2>1, <2>3, <3>1, <3>2, <3>3, <3>4 DEF LedgerFits
  <2>6. ShipmentFits(row.status, row.shipment.status)
    BY <2>1, <2>2, <2>p DEF ShipmentFits
  <2>7. ~row.astray => Chain(row.history, row.status)
    BY <1>2, <2>1, HistoryTold
  <2>8. QED
    BY <2>1, <2>4, <2>5, <2>6, <2>7 DEF SoundRow, row
<1>3. QED
  BY <1>1, <1>2

-----------------------------------------------------------------------------
(***************************************************************************)
(* What a request of the shop does to one order.                           *)
(***************************************************************************)
\* A request keeps the shipment of every order in step with it.
LEMMA ShopShipments ==
    ASSUME TypeOK, Next, NEW x \in Order, OnItsWay, ShipmentFits(status[x], shipment[x].status)
    PROVE  ShipmentFits(status'[x], shipment'[x].status)
<1> USE DEF ShipmentFits
<1> DEFINE Goal == ShipmentFits(status'[x], shipment'[x].status)
<1>t. ASSUME NEW o \in Order
      PROVE  /\ status[o] \in OrderStatus \cup {"none"}
             /\ shipment[o] = [status |-> shipment[o].status, tracked |-> shipment[o].tracked]
             /\ shipment[o].status \in ShipmentStatus \cup {"none"}
  BY DEF TypeOK, Shipment
<1>d. DOMAIN status = Order /\ DOMAIN shipment = Order
  BY DEF TypeOK
<1>1. ASSUME NEW o \in Order, NEW cart \in Cart, CreateOrder(o, cart) PROVE Goal
  BY <1>1, <1>d DEF CreateOrder, WriteOrder, MoveTo, MoveFrom
<1>2. ASSUME NEW o \in Order, NEW cart \in Cart, NEW outcome \in GatewayOutcome,
             Checkout(o, cart, outcome)
      PROVE  Goal
  BY <1>2, <1>d DEF Checkout, WriteCheckout, MoveTo, MoveFrom
<1>3. ASSUME NEW o \in Order, NEW outcome \in GatewayOutcome, CreatePayment(o, outcome)
      PROVE  Goal
  BY <1>3, <1>d DEF CreatePayment, WritePayment, MoveFrom
<1>4. ASSUME NEW o \in Order, NEW new, NEW source,
             new \in AllowedTransitions(status[o]), WriteTransition(o, new, source)
      PROVE  Goal
  <2>1. status' = [status EXCEPT ![o] = new]
    BY <1>4 DEF WriteTransition, MoveTo, MoveFrom
  <2>2. CASE new \in Reversing
    <3>1. shipment' = [shipment EXCEPT ![o] = CancelledShipment(shipment[o])]
      BY <1>4, <2>2 DEF WriteTransition
    <3>2. QED
      BY <1>4, <1>t, <1>d, <2>1, <2>2, <3>1, AllowedEdges
      DEF Reversing, CancelledShipment, Undispatched, Holding, ShipmentStatus
  <2>3. CASE new \notin Reversing
    BY <1>4, <1>d, <2>1, <2>3, AllowedEdges DEF WriteTransition, Reversing, Holding
  <2>4. QED
    BY <2>2, <2>3
<1>5. ASSUME NEW o \in Order, NEW tracked \in BOOLEAN, CreateShipment(o, tracked) PROVE Goal
  BY <1>5, <1>d DEF CreateShipment, WriteShipment, MoveOrder, MoveTo, MoveFrom
<1>6. ASSUME NEW o \in Order, NEW tracked \in BOOLEAN, UpdateShipment(o, tracked) PROVE Goal
  BY <1>6, <1>d, <1>t DEF UpdateShipment, WriteEdit, Undispatched
<1>7. ASSUME NEW o \in Order, MarkShipped(o) PROVE Goal
  BY <1>7, <1>d DEF MarkShipped, WriteDispatch, MoveOrder, MoveTo, MoveFrom
<1>8. ASSUME NEW o \in Order, MarkDelivered(o) PROVE Goal
  BY <1>8, <1>d, <1>t DEF MarkDelivered, WriteDelivery, MoveOrder, MoveTo, MoveFrom, OnItsWay
<1>9. ASSUME NEW p \in Product, NEW level, WriteStock(p, level) PROVE Goal
  BY <1>9 DEF WriteStock
<1>10. QED
  BY <1>1, <1>2, <1>3, <1>4, <1>5, <1>6, <1>7, <1>8, <1>9
  DEF Next, TransitionStatus, Cancel, AdjustStock, SetLevels

\* A request keeps the ledger of every order in step with its payments and its status.
LEMMA ShopLedger ==
    ASSUME TypeOK, Next, NEW x \in Order, OnItsWay,
           LedgerFits(status[x], ledger[x], payments[x]["completed"])
    PROVE  LedgerFits(status'[x], ledger'[x], payments'[x]["completed"])
<1> USE DEF LedgerFits, PaidStatus
<1> DEFINE Goal == LedgerFits(status'[x], ledger'[x], payments'[x]["completed"])
<1>t. ASSUME NEW o \in Order
      PROVE  /\ payments[o] \in [PaymentStatus -> Nat]
             /\ payments[o]["completed"] \in Nat
             /\ status[o] \in OrderStatus \cup {"none"}
  BY DEF TypeOK, PaymentStatus
<1>d. DOMAIN status = Order /\ DOMAIN ledger = Order /\ DOMAIN payments = Order
  BY DEF TypeOK
\* A step that moves o between two statuses of a paid order.
<1>m. ASSUME NEW o \in Order, NEW to \in {"preparing", "shipped", "delivered"},
             status[o] \in {"paid", "preparing", "shipped", "delivered"},
             status' = [status EXCEPT ![o] = to], UNCHANGED <<ledger, payments>>
      PROVE  Goal
  BY <1>m, <1>d
<1>1. ASSUME NEW o \in Order, NEW cart \in Cart, CreateOrder(o, cart) PROVE Goal
  BY <1>1, <1>d DEF CreateOrder, WriteOrder, MoveTo, MoveFrom
\* One more payment of o, which has had no sale.
<1>2. ASSUME NEW o \in Order, NEW outcome \in GatewayOutcome,
             status[o] \in {"none", "pending"}, AddPayment(o, outcome),
             IF outcome = "completed"
             THEN status' = [status EXCEPT ![o] = "paid"] /\ AddSale(o)
             ELSE status' = [status EXCEPT ![o] = "pending"] /\ UNCHANGED ledger
      PROVE  Goal
  <2>1. payments' = [payments EXCEPT ![o] = [payments[o] EXCEPT ![outcome] = @ + 1]]
    BY <1>2 DEF AddPayment
  <2>2. CASE x # o
    <3>1. status'[x] = status[x] /\ ledger'[x] = ledger[x] /\ payments'[x] = payments[x]
      BY <1>2, <1>d, <2>1, <2>2 DEF AddSale
    <3>2. QED
      BY <3>1
  <2>3. CASE x = o
    <3>1. ledger[x] = {} /\ ~(payments[x]["completed"] > 0)
      BY <1>2, <2>3
    <3>2. CASE outcome = "completed"
      <4>1. payments'[x]["completed"] = payments[x]["completed"] + 1
        BY <1>d, <1>t, <2>1, <2>3, <3>2 DEF PaymentStatus
      <4>2. ledger'[x] = {"sale"} /\ status'[x] = "paid"
        BY <1>2, <1>d, <2>3, <3>1, <3>2 DEF AddSale
      <4>3. QED
        BY <1>t, <4>1, <4>2
    <3>3. CASE outcome # "completed"
      <4>1. payments'[x]["completed"] = payments[x]["completed"]
        BY <1>d, <1>t, <2>1, <2>3, <3>3 DEF PaymentStatus
      <4>2. ledger'[x] = {} /\ status'[x] = "pending"
        BY <1>2, <1>d, <2>3, <3>1, <3>3
      <4>3. QED
        BY <3>1, <4>1, <4>2
    <3>4. QED
      BY <3>2, <3>3
  <2>4. QED
    BY <2>2, <2>3
<1>3. ASSUME NEW o \in Order, NEW cart \in Cart, NEW outcome \in GatewayOutcome,
             Checkout(o, cart, outcome)
      PROVE  Goal
  BY <1>2, <1>3 DEF Checkout, WriteCheckout, MoveTo, MoveFrom
<1>4. ASSUME NEW o \in Order, NEW outcome \in GatewayOutcome, CreatePayment(o, outcome)
      PROVE  Goal
  <2>1. outcome # "completed" => status' = [status EXCEPT ![o] = "pending"]
    BY <1>4, <1>d DEF CreatePayment, WritePayment, TypeOK
  <2>2. QED
    BY <1>2, <1>4, <2>1 DEF CreatePayment, WritePayment, MoveFrom
<1>5. ASSUME NEW o \in Order, NEW new, NEW source,
             new \in AllowedTransitions(status[o]), WriteTransition(o, new, source)
      PROVE  Goal
  <2>1. status' = [status EXCEPT ![o] = new] /\ UNCHANGED payments
    BY <1>5 DEF WriteTransition, MoveTo, MoveFrom
  <2>2. CASE new \in Reversing
    <3>1. ledger' = [ledger EXCEPT ![o] = Reversed(ledger[o])]
      BY <1>5, <2>2 DEF WriteTransition
    <3>2. /\ "sale" \in Reversed(ledger[o]) <=> "sale" \in ledger[o]
          /\ "sale" \in ledger[o] => "reversal" \in Reversed(ledger[o])
          /\ "sale" \notin ledger[o] => Reversed(ledger[o]) = ledger[o]
      BY DEF Reversed
    <3>3. QED
      BY <1>d, <2>1, <2>2, <3>1, <3>2 DEF Reversing
  <2>3. CASE new \notin Reversing
    <3>1. new = "preparing" /\ status[o] = "paid"
      BY <1>5, <2>3, AllowedEdges DEF Reversing
    <3>2. UNCHANGED ledger
      BY <1>5, <2>3 DEF WriteTransition
    <3>3. QED
      BY <1>m, <2>1, <3>1, <3>2
  <2>4. QED
    BY <2>2, <2>3
<1>6. ASSUME NEW o \in Order, NEW tracked \in BOOLEAN, CreateShipment(o, tracked) PROVE Goal
  <2>1. status' = [status EXCEPT ![o] = "preparing"]
    BY <1>6, <1>d DEF CreateShipment, WriteShipment, MoveOrder, MoveTo, MoveFrom, TypeOK
  <2>2. QED
    BY <1>6, <1>m, <2>1 DEF CreateShipment, WriteShipment
<1>7. ASSUME NEW o \in Order, NEW tracked \in BOOLEAN, UpdateShipment(o, tracked) PROVE Goal
  BY <1>7 DEF UpdateShipment, WriteEdit
<1>8. ASSUME NEW o \in Order, MarkShipped(o) PROVE Goal
  <2>1. status' = [status EXCEPT ![o] = "shipped"] /\ UNCHANGED <<ledger, payments>>
    BY <1>8 DEF MarkShipped, WriteDispatch, MoveOrder, MoveTo, MoveFrom
  <2>2. QED
    BY <1>8, <1>m, <2>1 DEF MarkShipped
<1>9. ASSUME NEW o \in Order, MarkDelivered(o) PROVE Goal
  <2>1. status[o] = "shipped"
    BY <1>9 DEF MarkDelivered, OnItsWay
  <2>2. status' = [status EXCEPT ![o] = "delivered"] /\ UNCHANGED <<ledger, payments>>
    BY <1>9, <2>1 DEF MarkDelivered, WriteDelivery, MoveOrder, MoveTo, MoveFrom
  <2>3. QED
    BY <1>m, <2>1, <2>2
<1>10. ASSUME NEW p \in Product, NEW level, WriteStock(p, level) PROVE Goal
  BY <1>10 DEF WriteStock
<1>11. QED
  BY <1>1, <1>3, <1>4, <1>5, <1>6, <1>7, <1>8, <1>9, <1>10
  DEF Next, TransitionStatus, Cancel, AdjustStock, SetLevels

\* A request leaves the lines of an order that exists, and takes nothing out of its ledger.
LEMMA ShopLeaves ==
    ASSUME TypeOK, Next, NEW x \in Order, status[x] # "none"
    PROVE  status'[x] # "none" /\ items'[x] = items[x] /\ ledger[x] \subseteq ledger'[x]
<1> DEFINE Goal == status'[x] # "none" /\ items'[x] = items[x] /\ ledger[x] \subseteq ledger'[x]
<1>d. DOMAIN status = Order /\ DOMAIN items = Order /\ DOMAIN ledger = Order
  BY DEF TypeOK
<1>1. ASSUME NEW o \in Order, NEW cart \in Cart, CreateOrder(o, cart) PROVE Goal
  BY <1>1, <1>d DEF CreateOrder, WriteOrder, MoveTo, MoveFrom
<1>2. ASSUME NEW o \in Order, NEW cart \in Cart, NEW outcome \in GatewayOutcome,
             Checkout(o, cart, outcome)
      PROVE  Goal
  BY <1>2, <1>d DEF Checkout, WriteCheckout, AddSale, MoveTo, MoveFrom
<1>3. ASSUME NEW o \in Order, NEW outcome \in GatewayOutcome, CreatePayment(o, outcome)
      PROVE  Goal
  BY <1>3, <1>d DEF CreatePayment, WritePayment, AddSale, MoveFrom
<1>4. ASSUME NEW o \in Order, NEW new, NEW source,
             new \in AllowedTransitions(status[o]), WriteTransition(o, new, source)
      PROVE  Goal
  <2>1. /\ status' = [status EXCEPT ![o] = new] /\ UNCHANGED items /\ new # "none"
        /\ ledger' = [ledger EXCEPT ![o] = Reversed(ledger[o])] \/ UNCHANGED ledger
    BY <1>4, AllowedEdges DEF WriteTransition, MoveTo, MoveFrom
  <2>2. QED
    BY <1>d, <2>1 DEF Reversed
<1>5. ASSUME NEW o \in Order, NEW tracked \in BOOLEAN, CreateShipment(o, tracked) PROVE Goal
  BY <1>5, <1>d DEF CreateShipment, WriteShipment, MoveOrder, MoveTo, MoveFrom
<1>6. ASSUME NEW o \in Order, NEW tracked \in BOOLEAN, UpdateShipment(o, tracked) PROVE Goal
  BY <1>6 DEF UpdateShipment, WriteEdit
<1>7. ASSUME NEW o \in Order, MarkShipped(o) PROVE Goal
  BY <1>7, <1>d DEF MarkShipped, WriteDispatch, MoveOrder, MoveTo, MoveFrom
<1>8. ASSUME NEW o \in Order, MarkDelivered(o) PROVE Goal
  BY <1>8, <1>d DEF MarkDelivered, WriteDelivery, MoveOrder, MoveTo, MoveFrom
<1>9. ASSUME NEW p \in Product, NEW level, WriteStock(p, level) PROVE Goal
  BY <1>9 DEF WriteStock
<1>10. QED
  BY <1>1, <1>2, <1>3, <1>4, <1>5, <1>6, <1>7, <1>8, <1>9
  DEF Next, TransitionStatus, Cancel, AdjustStock, SetLevels

\* A product that has no stock gets into no order.
LEMMA ShopUnsold ==
    ASSUME TypeOK, Next, NEW p \in Product, onHand[p] = 0, \A o \in Order : items[o][p] = 0,
           NEW x \in Order
    PROVE  items'[x][p] = 0
<1>d. DOMAIN items = Order /\ reserved[p] \in Nat
  BY DEF TypeOK
<1>1. ASSUME NEW o \in Order, NEW cart \in Cart, \A q \in Product : Available(q, cart[q]),
             items' = [items EXCEPT ![o] = cart]
      PROVE  items'[x][p] = 0
  <2>1. cart[p] \in 0..MaxQty
    BY DEF Cart
  <2>2. cart[p] \in Nat /\ cart[p] <= 0 - reserved[p]
    BY <1>1, <2>1, OrderFlowAssumption DEF Available
  <2>3. cart[p] = 0
    BY <1>d, <2>2
  <2>4. QED
    BY <1>1, <1>d, <2>3
<1>2. \/ UNCHANGED items
      \/ \E o \in Order, cart \in Cart : /\ \A q \in Product : Available(q, cart[q])
                                         /\ items' = [items EXCEPT ![o] = cart]
  BY DEF Next, CreateOrder, WriteOrder, Checkout, WriteCheckout, CreatePayment, WritePayment,
         TransitionStatus, Cancel, WriteTransition, CreateShipment, WriteShipment,
         UpdateShipment, WriteEdit, MarkShipped, WriteDispatch, MarkDelivered, WriteDelivery,
         AdjustStock, SetLevels, WriteStock
<1>3. QED
  BY <1>1, <1>2

-----------------------------------------------------------------------------
(***************************************************************************)
(* The inductive invariant.  Before the first run there is no row of the   *)
(* folder's; from then on every order it brings is there, with the lines   *)
(* it was brought with, so no later run finds anything to bring but the    *)
(* products nothing needs.  A product without a row is in no order.        *)
(***************************************************************************)
FolderSound == \A o \in OlistOrder : SoundRow(tables[o])

BeforeFirst ==
    ~committed =>
        category["olist"] = "none" /\ \A p \in Product : products[p] = "none"

AfterFirst == committed => \A o \in OlistOrder : Loaded(o) => status[o] # "none"

AsBrought ==
    \A o \in OlistOrder :
        Loaded(o) /\ status[o] # "none" =>
            items[o] = tables[o].items /\ tables[o].ledger \subseteq ledger[o]

NoRowNoUnits ==
    \A p \in Product :
        products[p] = "none" => onHand[p] = 0 /\ \A o \in Order : items[o][p] = 0

LoaderInv ==
    /\ LoaderTypeOK
    /\ StockExact
    /\ ImportedOrders
    /\ FolderSound /\ BeforeFirst /\ AfterFirst /\ AsBrought /\ NoRowNoUnits

\* A product without units in any order counts none, reserved or dispatched.
LEMMA NoneHeld ==
    ASSUME NEW st, NEW it, NEW S, NEW p, \A o \in Order : it[o][p] = 0
    PROVE  Cardinality(HeldUnits(st, it, S, p)) = 0
<1>1. HeldUnits(st, it, S, p) = {}
  BY OrderFlowAssumption DEF HeldUnits
<1>2. QED
  BY <1>1, FS_EmptySet

\* Which it has none of either.
LEMMA NoRowNoStock ==
    ASSUME LoaderInv, NEW p \in Product, products[p] = "none"
    PROVE  onHand[p] = 0 /\ reserved[p] = 0 /\ stocked[p] = 0
<1>1. onHand[p] = 0 /\ \A o \in Order : items[o][p] = 0
  BY DEF LoaderInv, NoRowNoUnits
<1>2. /\ Cardinality(HeldUnits(status, items, Holding, p)) = 0
      /\ Cardinality(HeldUnits(status, items, Dispatched, p)) = 0
  BY <1>1, NoneHeld
<1>3. QED
  BY <1>1, <1>2 DEF LoaderInv, StockExact, ReservationExact, StockConserved

\* The parts of the invariant, order by order.
LEMMA InvParts ==
    ASSUME LoaderInv
    PROVE  /\ TypeOK /\ StockSound /\ OnItsWay
           /\ \A o \in Order :
                 /\ LedgerFits(status[o], ledger[o], payments[o]["completed"])
                 /\ ShipmentFits(status[o], shipment[o].status)
                 /\ (o \in OlistOrder => ~tables[o].astray) => Chain(history[o], status[o])
<1>1. TypeOK /\ StockSound
  BY DEF LoaderInv, LoaderTypeOK, StockSound
<1>2. OnItsWay
  BY DEF LoaderInv, ImportedOrders, ImportedShipments, OnItsWay
<1>3. \A o \in Order : LedgerFits(status[o], ledger[o], payments[o]["completed"])
  BY DEF LoaderInv, ImportedOrders, ImportedLedger, LedgerFits
<1>4. \A o \in Order : ShipmentFits(status[o], shipment[o].status)
  BY DEF LoaderInv, ImportedOrders, ImportedShipments, ShipmentFits
<1>5. \A o \in Order : (o \in OlistOrder => ~tables[o].astray) => Chain(history[o], status[o])
  BY DEF LoaderInv, ImportedOrders, ImportedHistory, Chain
<1>6. QED
  BY <1>1, <1>2, <1>3, <1>4, <1>5

\* And put together again after a step.
LEMMA ImportedParts ==
    ASSUME \A o \in Order :
              /\ LedgerFits(status'[o], ledger'[o], payments'[o]["completed"])
              /\ ShipmentFits(status'[o], shipment'[o].status)
              /\ (o \in OlistOrder => ~tables'[o].astray) => Chain(history'[o], status'[o])
    PROVE  ImportedOrders'
<1>1. ImportedLedger'
  BY DEF ImportedLedger, LedgerFits
<1>2. ImportedShipments'
  BY DEF ImportedShipments, ShipmentFits
<1>3. ImportedHistory'
  BY DEF ImportedHistory, Chain
<1>4. QED
  BY <1>1, <1>2, <1>3 DEF ImportedOrders

\* A request of the shop keeps the invariant.
LEMMA ShopStep == ASSUME LoaderInv, Shop PROVE LoaderInv'
<1>1. /\ TypeOK /\ StockSound /\ OnItsWay
      /\ \A o \in Order :
            /\ LedgerFits(status[o], ledger[o], payments[o]["completed"])
            /\ ShipmentFits(status[o], shipment[o].status)
            /\ (o \in OlistOrder => ~tables[o].astray) => Chain(history[o], status[o])
  BY InvParts
<1>2. /\ Next /\ UNCHANGED <<tables, category, products, committed>>
      /\ \A o \in OlistOrder : status[o] = "none" => status'[o] = "none"
      /\ \A p \in Product : products[p] = "none" => onHand'[p] = onHand[p]
  BY DEF Shop
<1>3. LoaderTypeOK'
  BY <1>1, <1>2, TypeStep DEF LoaderInv, LoaderTypeOK
<1>4. StockExact'
  BY <1>1, <1>2, StockExactKept
<1>5. ImportedOrders'
  BY <1>1, <1>2, ShopLedger, ShopShipments, ChainStep, ImportedParts
<1>6. FolderSound' /\ BeforeFirst'
  BY <1>2 DEF LoaderInv, FolderSound, BeforeFirst
<1>7. \A o \in OlistOrder : Loaded(o)' <=> Loaded(o)
  BY <1>2 DEF Loaded
<1>8. \A o \in OlistOrder : o \in Order
  BY OlistLoaderAssumption
<1>9. AfterFirst'
  BY <1>1, <1>2, <1>7, <1>8, ShopLeaves DEF LoaderInv, AfterFirst
<1>10. AsBrought'
  <2>1. SUFFICES ASSUME NEW o \in OlistOrder, Loaded(o), status'[o] # "none"
                 PROVE  items'[o] = tables[o].items /\ tables[o].ledger \subseteq ledger'[o]
    BY <1>2, <1>7 DEF AsBrought
  <2>2. status[o] # "none" /\ o \in Order
    BY <1>2, <1>8, <2>1
  <2>3. items[o] = tables[o].items /\ tables[o].ledger \subseteq ledger[o]
    BY <2>1, <2>2 DEF LoaderInv, AsBrought
  <2>4. items'[o] = items[o] /\ ledger[o] \subseteq ledger'[o]
    BY <1>1, <1>2, <2>2, ShopLeaves
  <2>5. QED
    BY <2>3, <2>4
<1>11. NoRowNoUnits'
  <2>1. SUFFICES ASSUME NEW p \in Product, products[p] = "none"
                 PROVE  onHand'[p] = 0 /\ \A o \in Order : items'[o][p] = 0
    BY <1>2 DEF NoRowNoUnits
  <2>2. onHand[p] = 0 /\ \A o \in Order : items[o][p] = 0
    BY <2>1 DEF LoaderInv, NoRowNoUnits
  <2>3. QED
    BY <1>1, <1>2, <2>1, <2>2, ShopUnsold
<1>12. QED
  BY <1>3, <1>4, <1>5, <1>6, <1>9, <1>10, <1>11 DEF LoaderInv

\* So does what staff do to the catalogue.
LEMMA StaffStep ==
    ASSUME LoaderInv,
           \/ \E c \in DOMAIN category, name \in {"named", "renamed", "none"} : EditCategory(c, name)
           \/ \E p \in Product, c \in DOMAIN category : MoveProduct(p, c)
    PROVE  LoaderInv'
<1>1. DOMAIN category = {"olist", "staff"} /\ DOMAIN products = Product
  BY DEF LoaderInv, LoaderTypeOK
<1>2. UNCHANGED vars /\ UNCHANGED tables
  BY DEF EditCategory, MoveProduct
<1>3. TypeOK' /\ StockExact' /\ ImportedOrders'
  BY <1>2 DEF vars, LoaderInv, LoaderTypeOK, TypeOK, StockExact, ReservationExact, NoOversell,
              StockConserved, ImportedOrders, ImportedLedger, ImportedShipments, ImportedHistory
<1>4. FolderSound' /\ AsBrought'
  BY <1>2 DEF vars, LoaderInv, FolderSound, AsBrought, Loaded
<1>5. ASSUME NEW c \in DOMAIN category, NEW name \in {"named", "renamed", "none"},
             EditCategory(c, name)
      PROVE  LoaderInv'
  <2>1. category' = [category EXCEPT ![c] = name] /\ UNCHANGED <<products, committed>>
    BY <1>5 DEF EditCategory
  <2>2. LoaderTypeOK'
    <3>1. category' \in [{"olist", "staff"} -> {"none", "named", "renamed"}]
      BY <2>1 DEF LoaderInv, LoaderTypeOK
    <3>2. \A p \in Product : products'[p] # "none" => category'[products'[p]] # "none"
      BY <1>1, <1>5, <2>1 DEF LoaderInv, LoaderTypeOK, EditCategory
    <3>3. QED
      BY <1>3, <2>1, <3>1, <3>2 DEF LoaderInv, LoaderTypeOK
  <2>3. BeforeFirst'
    BY <1>1, <1>5, <2>1 DEF LoaderInv, BeforeFirst, EditCategory
  <2>4. AfterFirst' /\ NoRowNoUnits'
    BY <1>2, <2>1 DEF vars, LoaderInv, AfterFirst, NoRowNoUnits, Loaded
  <2>5. QED
    BY <1>3, <1>4, <2>2, <2>3, <2>4 DEF LoaderInv
<1>6. ASSUME NEW p \in Product, NEW c \in DOMAIN category, MoveProduct(p, c) PROVE LoaderInv'
  <2>1. /\ products' = [products EXCEPT ![p] = c] /\ UNCHANGED <<category, committed>>
        /\ products[p] # "none" /\ category[c] # "none" /\ c \in {"olist", "staff"}
    BY <1>1, <1>6 DEF MoveProduct
  <2>2. LoaderTypeOK'
    BY <1>1, <1>3, <2>1 DEF LoaderInv, LoaderTypeOK
  <2>3. BeforeFirst' /\ AfterFirst' /\ NoRowNoUnits'
    BY <1>1, <1>2, <2>1 DEF vars, LoaderInv, BeforeFirst, AfterFirst, NoRowNoUnits, Loaded
  <2>4. QED
    BY <1>3, <1>4, <2>2, <2>3 DEF LoaderInv
<1>7. QED
  BY <1>5, <1>6

\* A product that goes takes no unit of any order with it.
LEMMA DeleteStep == ASSUME LoaderInv, NEW p \in Product, DeleteProduct(p) PROVE LoaderInv'
<1>1. /\ products' = [products EXCEPT ![p] = "none"] /\ onHand' = [onHand EXCEPT ![p] = 0]
      /\ reserved' = [reserved EXCEPT ![p] = 0] /\ stocked' = [stocked EXCEPT ![p] = 0]
      /\ UNCHANGED <<status, items, ledger, payments, shipment, history, tables, category, committed>>
      /\ products[p] # "none" /\ \A o \in Order : items[o][p] = 0
  BY DEF DeleteProduct
<1>2. TypeOK /\ DOMAIN products = Product
  BY DEF LoaderInv, LoaderTypeOK
<1>3. TypeOK'
  BY <1>1, <1>2 DEF TypeOK
<1>4. LoaderTypeOK'
  BY <1>1, <1>2, <1>3 DEF LoaderInv, LoaderTypeOK
<1>5. StockExact'
  <2>1. SUFFICES ASSUME NEW q \in Product
                 PROVE  /\ reserved'[q] = Cardinality(HeldUnits(status, items, Holding, q))
                        /\ reserved'[q] <= onHand'[q]
                        /\ stocked'[q] = onHand'[q]
                             + Cardinality(HeldUnits(status, items, Dispatched, q))
    BY <1>1 DEF StockExact, ReservationExact, NoOversell, StockConserved
  <2>2. CASE q = p
    <3>1. reserved'[q] = 0 /\ onHand'[q] = 0 /\ stocked'[q] = 0
      BY <1>1, <1>2, <2>2 DEF TypeOK
    <3>2. /\ Cardinality(HeldUnits(status, items, Holding, q)) = 0
          /\ Cardinality(HeldUnits(status, items, Dispatched, q)) = 0
      BY <1>1, <2>2, NoneHeld
    <3>3. QED
      BY <3>1, <3>2
  <2>3. CASE q # p
    <3>1. reserved'[q] = reserved[q] /\ onHand'[q] = onHand[q] /\ stocked'[q] = stocked[q]
      BY <1>1, <1>2, <2>3 DEF TypeOK
    <3>2. QED
      BY <3>1 DEF LoaderInv, StockExact, ReservationExact, NoOversell, StockConserved
  <2>4. QED
    BY <2>2, <2>3
<1>6. ImportedOrders'
  BY <1>1 DEF LoaderInv, ImportedOrders, ImportedLedger, ImportedShipments, ImportedHistory
<1>7. FolderSound' /\ BeforeFirst' /\ AfterFirst' /\ AsBrought'
  BY <1>1, <1>2 DEF LoaderInv, FolderSound, BeforeFirst, AfterFirst, AsBrought, Loaded
<1>8. NoRowNoUnits'
  BY <1>1, <1>2 DEF LoaderInv, NoRowNoUnits, TypeOK
<1>9. QED
  BY <1>4, <1>5, <1>6, <1>7, <1>8 DEF LoaderInv

-----------------------------------------------------------------------------
(***************************************************************************)
(* A run of the loader.                                                    *)
(***************************************************************************)
\* An order is brought in if the folder has it and the shop does not.
Brought(o) == Loaded(o) /\ status[o] = "none"

\* The folder's orders are sound.
LEMMA LoadedSound ==
    ASSUME LoaderInv, NEW o \in Order, Loaded(o)
    PROVE  /\ o \in OlistOrder /\ tables[o].status # "none"
           /\ SoundRow(tables[o]) /\ RowType(tables[o])
           /\ tables[o].sold = {p \in Product : tables[o].items[p] > 0}
           /\ LoadedStatus[o] = tables[o].status /\ LoadedItems[o] = tables[o].items
BY DEF LoaderInv, FolderSound, Loaded, SoundRow, LoadedStatus, LoadedItems

\* The first run brings in all it ever will: later ones find every order there.
LEMMA BroughtFirst ==
    ASSUME LoaderInv, NEW o \in Order, Brought(o)
    PROVE  ~committed /\ \A p \in Product : products[p] = "none"
BY DEF LoaderInv, AfterFirst, BeforeFirst, Brought, Loaded

\* The rows of an order after a run: the folder's if it was brought in.
LEMMA LoadBrings ==
    ASSUME LoaderInv, Load, NEW o \in Order, Brought(o)
    PROVE  /\ status'[o] = tables[o].status /\ items'[o] = tables[o].items
           /\ ledger'[o] = tables[o].ledger
           /\ payments'[o] = [payments[o] EXCEPT !["completed"] = tables[o].completed]
           /\ shipment'[o] = tables[o].shipment /\ history'[o] = tables[o].history
<1>1. Loaded(o) /\ status[o] = "none"
  BY DEF Brought
<1>2. LoadedStatus[o] = tables[o].status /\ LoadedItems[o] = tables[o].items
  BY <1>1, LoadedSound
<1>3. ledger[o] = {}
  BY <1>1 DEF LoaderInv, ImportedOrders, ImportedLedger
<1>4. /\ status'[o] = tables[o].status /\ items'[o] = tables[o].items
      /\ shipment'[o] = tables[o].shipment /\ history'[o] = tables[o].history
      /\ payments'[o] = [payments[o] EXCEPT !["completed"] = tables[o].completed]
  BY <1>1, <1>2 DEF Load, Kept
<1>5. ledger'[o] = tables[o].ledger
  BY <1>1, <1>3 DEF Load
<1>6. QED
  BY <1>4, <1>5

\* And its own if it was not: nothing of it changes, the ledger entries included.
LEMMA LoadLeaves ==
    ASSUME LoaderInv, Load, NEW o \in Order, ~Brought(o)
    PROVE  /\ status'[o] = status[o] /\ items'[o] = items[o] /\ ledger'[o] = ledger[o]
           /\ payments'[o] = payments[o] /\ shipment'[o] = shipment[o]
           /\ history'[o] = history[o]
<1>1. ~(Loaded(o) /\ status[o] = "none")
  BY DEF Brought
<1>2. Loaded(o) => tables[o].ledger \subseteq ledger[o]
  BY <1>1 DEF LoaderInv, AsBrought, Loaded
<1>3. payments[o] \in [PaymentStatus -> Nat]
  BY DEF LoaderInv, LoaderTypeOK, TypeOK
<1>4. status'[o] = status[o] /\ items'[o] = items[o]
  BY <1>1 DEF Load, Kept
<1>5. shipment'[o] = shipment[o] /\ history'[o] = history[o]
  BY <1>1 DEF Load, Kept
<1>6. payments'[o] = payments[o]
  BY <1>1, <1>3 DEF Load, Kept
<1>7. ledger'[o] = ledger[o]
  BY <1>2 DEF Load
<1>8. QED
  BY <1>4, <1>5, <1>6, <1>7

\* A run of the loader that finds its category.
LEMMA LoadNames ==
    ASSUME LoaderInv, Load
    PROVE  /\ category' \in [{"olist", "staff"} -> {"none", "named", "renamed"}]
           /\ products' \in [Product -> {"olist", "staff", "none"}]
           /\ \A p \in Product : p \in New => products'[p] # "none"
           /\ \A p \in Product : p \notin New => products'[p] = products[p]
           /\ \A p \in Product : products'[p] # "none" => category'[products'[p]] # "none"
<1> DEFINE named == CHOOSE c \in NamedNow : TRUE
<1>1. /\ category \in [{"olist", "staff"} -> {"none", "named", "renamed"}]
      /\ products \in [Product -> {"olist", "staff", "none"}]
      /\ \A p \in Product : products[p] # "none" => category[products[p]] # "none"
  BY DEF LoaderInv, LoaderTypeOK
<1>2. /\ category' = IF LoadedProducts = {} THEN category ELSE OfferedCategory
      /\ products' = [p \in Product |-> IF p \in New THEN named ELSE products[p]]
      /\ LoadedProducts = {} \/ NamedNow # {}
  BY DEF Load, Resolved
<1>3. /\ OfferedCategory \in [{"olist", "staff"} -> {"none", "named", "renamed"}]
      /\ \A c \in {"olist", "staff"} : category[c] # "none" => OfferedCategory[c] # "none"
  BY <1>1 DEF OfferedCategory
<1>4. LoadedProducts # {} =>
         named \in {"olist", "staff"} /\ OfferedCategory[named] = "named"
  <2>1. LoadedProducts # {} => named \in NamedNow
    BY <1>2
  <2>2. QED
    BY <1>1, <2>1 DEF NamedNow
<1>5. \A p \in New : LoadedProducts # {}
  BY DEF New
<1> HIDE DEF named
<1>6. products' \in [Product -> {"olist", "staff", "none"}]
  BY <1>1, <1>2, <1>4, <1>5
<1>7. ASSUME NEW p \in Product
      PROVE  /\ p \in New => products'[p] # "none"
             /\ p \notin New => products'[p] = products[p]
             /\ products'[p] # "none" => category'[products'[p]] # "none"
  <2>1. CASE p \in New
    <3>1. products'[p] = named /\ category' = OfferedCategory
      BY <1>2, <1>5, <2>1
    <3>2. QED
      BY <1>4, <1>5, <2>1, <3>1
  <2>2. CASE p \notin New
    <3>1. products'[p] = products[p]
      BY <1>2, <2>2
    <3>2. products[p] # "none" => products[p] \in {"olist", "staff"} /\ category[products[p]] # "none"
      BY <1>1
    <3>3. QED
      BY <1>2, <1>3, <2>2, <3>1, <3>2
  <2>3. QED
    BY <2>1, <2>2
<1>8. QED
  BY <1>1, <1>2, <1>3, <1>6, <1>7

\* The units of a new product are those of the folder's orders, of the others none change.
LEMMA LoadUnits ==
    ASSUME LoaderInv, Load, NEW p \in Product, NEW S, "none" \notin S
    PROVE  /\ p \in New => HeldUnits(status', items', S, p)
                              = HeldUnits(LoadedStatus, LoadedItems, S, p)
           /\ p \notin New => HeldUnits(status', items', S, p) = HeldUnits(status, items, S, p)
<1>1. ASSUME p \in New, NEW o \in Order, NEW n \in 1..MaxQty
      PROVE  (status'[o] \in S /\ n <= items'[o][p])
                <=> (LoadedStatus[o] \in S /\ n <= LoadedItems[o][p])
  <2>1. items[o][p] = 0
    BY <1>1 DEF New, LoaderInv, NoRowNoUnits
  <2>2. ~(n <= 0)
    BY OrderFlowAssumption
  <2>3. CASE Brought(o)
    <3>1. LoadedStatus[o] = tables[o].status /\ LoadedItems[o] = tables[o].items
      BY <2>3, LoadedSound DEF Brought
    <3>2. QED
      BY <2>3, <3>1, LoadBrings
  <2>4. CASE ~Brought(o) /\ Loaded(o)
    <3>1. o \in OlistOrder /\ status[o] # "none"
      BY <2>4 DEF Brought, Loaded
    <3>2. LoadedItems[o] = items[o]
      BY <2>4, <3>1, LoadedSound DEF LoaderInv, AsBrought
    <3>3. items'[o] = items[o]
      BY <2>4, LoadLeaves
    <3>4. QED
      BY <2>1, <2>2, <3>2, <3>3
  <2>5. CASE ~Loaded(o)
    <3>1. LoadedStatus[o] = "none"
      BY <2>5 DEF LoadedStatus
    <3>2. items'[o] = items[o]
      BY <2>5, LoadLeaves DEF Brought
    <3>3. QED
      BY <2>1, <2>2, <3>1, <3>2
  <2>6. QED
    BY <2>3, <2>4, <2>5
<1>2. ASSUME p \notin New, NEW o \in Order, NEW n \in 1..MaxQty
      PROVE  (status'[o] \in S /\ n <= items'[o][p]) <=> (status[o] \in S /\ n <= items[o][p])
  <2>1. CASE Brought(o)
    <3>1. products[p] = "none" /\ status[o] = "none" /\ Loaded(o)
      BY <2>1, BroughtFirst DEF Brought
    <3>2. p \notin tables[o].sold
      BY <1>2, <3>1 DEF New, LoadedProducts, Loaded
    <3>3. ~(tables[o].items[p] > 0) /\ tables[o].items[p] \in 0..MaxQty
      BY <3>1, <3>2, LoadedSound DEF RowType
    <3>4. ~(n <= items'[o][p])
      <4>1. items'[o][p] = tables[o].items[p]
        BY <2>1, LoadBrings
      <4>2. MaxQty \in Nat
        BY OrderFlowAssumption
      <4>3. QED
        BY <3>3, <4>1, <4>2
    <3>5. QED
      BY <3>1, <3>4
  <2>2. CASE ~Brought(o)
    BY <2>2, LoadLeaves
  <2>3. QED
    BY <2>1, <2>2
<1>3. QED
  BY <1>1, <1>2 DEF HeldUnits

\* A run keeps the types of the shop's tables.
LEMMA LoadType == ASSUME LoaderInv, Load PROVE TypeOK'
<1>1. TypeOK
  BY DEF LoaderInv, LoaderTypeOK
<1>2. ASSUME NEW o \in Order
      PROVE  /\ status'[o] \in OrderStatus \cup {"none"} /\ items'[o] \in [Product -> 0..MaxQty]
             /\ ledger'[o] \in SUBSET SaleKind /\ payments'[o] \in [PaymentStatus -> Nat]
             /\ shipment'[o] \in Shipment /\ history'[o] \in Seq(Change)
  <2>1. CASE Brought(o)
    <3>1. RowType(tables[o])
      BY <2>1, LoadedSound DEF Brought
    <3>2. payments[o] \in [PaymentStatus -> Nat]
      BY <1>1 DEF TypeOK
    <3>3. [payments[o] EXCEPT !["completed"] = tables[o].completed] \in [PaymentStatus -> Nat]
      BY <3>1, <3>2 DEF RowType
    <3>4. QED
      BY <2>1, <3>1, <3>3, LoadBrings DEF RowType
  <2>2. CASE ~Brought(o)
    BY <1>1, <2>2, LoadLeaves DEF TypeOK
  <2>3. QED
    BY <2>1, <2>2
<1>3. ASSUME NEW p \in Product
      PROVE  onHand'[p] \in Nat /\ reserved'[p] \in Nat /\ stocked'[p] \in Int
  <2>1. /\ onHand[p] \in Nat /\ reserved[p] \in Nat /\ stocked[p] \in Int
    BY <1>1 DEF TypeOK
  <2>2. LoadedUnits(Reserving, p) \in Nat /\ LoadedUnits(Dispatched, p) \in Nat
    BY HeldFinite DEF LoadedUnits
  <2>3. QED
    BY <2>1, <2>2 DEF Load, OnHandOf
<1>4. /\ DOMAIN status' = Order /\ DOMAIN items' = Order /\ DOMAIN ledger' = Order
      /\ DOMAIN payments' = Order /\ DOMAIN shipment' = Order /\ DOMAIN history' = Order
      /\ DOMAIN onHand' = Product /\ DOMAIN reserved' = Product /\ DOMAIN stocked' = Product
  BY DEF Load
<1>5. /\ status' = [o \in Order |-> status'[o]] /\ items' = [o \in Order |-> items'[o]]
      /\ ledger' = [o \in Order |-> ledger'[o]] /\ payments' = [o \in Order |-> payments'[o]]
      /\ shipment' = [o \in Order |-> shipment'[o]] /\ history' = [o \in Order |-> history'[o]]
      /\ onHand' = [p \in Product |-> onHand'[p]]
      /\ reserved' = [p \in Product |-> reserved'[p]]
      /\ stocked' = [p \in Product |-> stocked'[p]]
  BY DEF Load
<1>6. /\ status' \in [Order -> OrderStatus \cup {"none"}]
      /\ items' \in [Order -> [Product -> 0..MaxQty]]
      /\ ledger' \in [Order -> SUBSET SaleKind]
      /\ payments' \in [Order -> [PaymentStatus -> Nat]]
      /\ shipment' \in [Order -> Shipment]
      /\ history' \in [Order -> Seq(Change)]
  BY <1>2, <1>5
<1>7. onHand' \in [Product -> Nat] /\ reserved' \in [Product -> Nat] /\ stocked' \in [Product -> Int]
  BY <1>3, <1>5
<1>8. QED
  BY <1>6, <1>7 DEF TypeOK

\* The stock invented for the new products is what the folder's orders account for.
LEMMA LoadStock == ASSUME LoaderInv, Load PROVE StockExact'
<1>1. SUFFICES ASSUME NEW p \in Product
               PROVE  /\ reserved'[p] = Cardinality(HeldUnits(status', items', Holding, p))
                      /\ reserved'[p] <= onHand'[p]
                      /\ stocked'[p] = onHand'[p]
                           + Cardinality(HeldUnits(status', items', Dispatched, p))
  BY DEF StockExact, ReservationExact, NoOversell, StockConserved
<1>2. Reserving = Holding /\ "none" \notin Holding /\ "none" \notin Dispatched
  BY DEF Reserving, Holding, Dispatched
<1>3. CASE p \in New
  <2>1. /\ reserved'[p] = LoadedUnits(Holding, p) /\ onHand'[p] = LoadedUnits(Holding, p)
        /\ stocked'[p] = LoadedUnits(Holding, p) + LoadedUnits(Dispatched, p)
    BY <1>2, <1>3 DEF Load, OnHandOf
  <2>2. /\ HeldUnits(status', items', Holding, p)
              = HeldUnits(LoadedStatus, LoadedItems, Holding, p)
        /\ HeldUnits(status', items', Dispatched, p)
              = HeldUnits(LoadedStatus, LoadedItems, Dispatched, p)
    BY <1>2, <1>3, LoadUnits
  <2>3. /\ LoadedUnits(Holding, p) = Cardinality(HeldUnits(status', items', Holding, p))
        /\ LoadedUnits(Dispatched, p) = Cardinality(HeldUnits(status', items', Dispatched, p))
    BY <2>2 DEF LoadedUnits
  <2>4. LoadedUnits(Holding, p) \in Nat
    BY HeldFinite DEF LoadedUnits
  <2>5. QED
    BY <2>1, <2>3, <2>4
<1>4. CASE p \notin New
  <2>1. reserved'[p] = reserved[p] /\ onHand'[p] = onHand[p] /\ stocked'[p] = stocked[p]
    BY <1>4 DEF Load
  <2>2. /\ HeldUnits(status', items', Holding, p) = HeldUnits(status, items, Holding, p)
        /\ HeldUnits(status', items', Dispatched, p) = HeldUnits(status, items, Dispatched, p)
    BY <1>2, <1>4, LoadUnits
  <2>3. QED
    BY <2>1, <2>2 DEF LoaderInv, StockExact, ReservationExact, NoOversell, StockConserved
<1>5. QED
  BY <1>3, <1>4

\* A run of the loader keeps the invariant, the first one and every later one.
LEMMA LoadStep == ASSUME LoaderInv, Load PROVE LoaderInv'
<1>0. UNCHANGED tables /\ committed' = TRUE
  BY DEF Load
<1>1. LoaderTypeOK'
  BY <1>0, LoadType, LoadNames DEF LoaderTypeOK
<1>2. StockExact'
  BY LoadStock
<1>3. ImportedOrders'
  <2>1. ASSUME NEW o \in Order
        PROVE  /\ LedgerFits(status'[o], ledger'[o], payments'[o]["completed"])
               /\ ShipmentFits(status'[o], shipment'[o].status)
               /\ (o \in OlistOrder => ~tables'[o].astray) => Chain(history'[o], status'[o])
    <3>1. CASE Brought(o)
      <4>1. SoundRow(tables[o]) /\ o \in OlistOrder
        BY <3>1, LoadedSound DEF Brought
      <4>2. payments'[o]["completed"] = tables[o].completed
        <5>1. payments[o] \in [PaymentStatus -> Nat] /\ "completed" \in PaymentStatus
          BY DEF LoaderInv, LoaderTypeOK, TypeOK, PaymentStatus
        <5>2. QED
          BY <3>1, <5>1, LoadBrings
      <4>3. QED
        BY <1>0, <3>1, <4>1, <4>2, LoadBrings DEF SoundRow
    <3>2. CASE ~Brought(o)
      <4>1. /\ LedgerFits(status[o], ledger[o], payments[o]["completed"])
            /\ ShipmentFits(status[o], shipment[o].status)
            /\ (o \in OlistOrder => ~tables[o].astray) => Chain(history[o], status[o])
        BY InvParts
      <4>2. QED
        BY <1>0, <3>2, <4>1, LoadLeaves
    <3>3. QED
      BY <3>1, <3>2
  <2>2. QED
    BY <2>1, ImportedParts
<1>4. FolderSound' /\ BeforeFirst'
  BY <1>0 DEF LoaderInv, FolderSound, BeforeFirst
<1>5. ASSUME NEW o \in OlistOrder, Loaded(o)
      PROVE  /\ status'[o] # "none" /\ items'[o] = tables[o].items
             /\ tables[o].ledger \subseteq ledger'[o]
  <2>1. o \in Order /\ tables[o].status # "none"
    BY <1>5, OlistLoaderAssumption DEF Loaded
  <2>2. CASE Brought(o)
    BY <2>1, <2>2, LoadBrings
  <2>3. CASE ~Brought(o)
    <3>1. status[o] # "none"
      BY <1>5, <2>3 DEF Brought
    <3>2. items[o] = tables[o].items /\ tables[o].ledger \subseteq ledger[o]
      BY <1>5, <3>1 DEF LoaderInv, AsBrought
    <3>3. QED
      BY <2>1, <2>3, <3>1, <3>2, LoadLeaves
  <2>4. QED
    BY <2>2, <2>3
<1>6. AfterFirst' /\ AsBrought'
  <2>1. \A o \in OlistOrder : Loaded(o)' <=> Loaded(o)
    BY <1>0 DEF Loaded
  <2>2. QED
    BY <1>0, <1>5, <2>1 DEF AfterFirst, AsBrought
<1>7. NoRowNoUnits'
  <2>1. SUFFICES ASSUME NEW p \in Product, products'[p] = "none"
                 PROVE  onHand'[p] = 0 /\ \A o \in Order : items'[o][p] = 0
    BY DEF NoRowNoUnits
  <2>2. p \notin New /\ products[p] = "none"
    BY <2>1, LoadNames
  <2>3. onHand[p] = 0 /\ \A o \in Order : items[o][p] = 0
    BY <2>2 DEF LoaderInv, NoRowNoUnits
  <2>4. onHand'[p] = 0
    BY <2>2, <2>3 DEF Load
  <2>5. ASSUME NEW o \in Order PROVE items'[o][p] = 0
    <3>1. CASE Brought(o)
      <4>1. p \notin tables[o].sold
        BY <2>2, <3>1 DEF New, LoadedProducts, Brought, Loaded
      <4>2. ~(tables[o].items[p] > 0) /\ tables[o].items[p] \in 0..MaxQty
        BY <3>1, <4>1, LoadedSound DEF Brought, RowType
      <4>3. tables[o].items[p] = 0
        BY <4>2, OrderFlowAssumption
      <4>4. QED
        BY <3>1, <4>3, LoadBrings
    <3>2. CASE ~Brought(o)
      BY <2>3, <3>2, LoadLeaves
    <3>3. QED
      BY <3>1, <3>2
  <2>6. QED
    BY <2>4, <2>5
<1>8. QED
  BY <1>1, <1>2, <1>3, <1>4, <1>6, <1>7 DEF LoaderInv

-----------------------------------------------------------------------------
(***************************************************************************)
(* Every run, and every request between two runs.                          *)
(***************************************************************************)
\* The shop starts empty, with any folder.
LEMMA LoaderStart == LoaderInit => LoaderInv
<1> SUFFICES ASSUME LoaderInit PROVE LoaderInv
  OBVIOUS
<1>1. /\ Init /\ onHand = [p \in Product |-> 0]
      /\ tables \in [OlistOrder -> {Rows(csv) : csv \in CsvOrder}]
      /\ category = [c \in {"olist", "staff"} |-> "none"]
      /\ products = [p \in Product |-> "none"] /\ committed = FALSE
  BY DEF LoaderInit
<1>2. StockInv
  BY <1>1, StockInit
<1>3. LoaderTypeOK
  BY <1>1, <1>2 DEF LoaderTypeOK, StockInv, StockSound
<1>4. \A o \in Order : /\ status[o] = "none" /\ items[o] = EmptyCart /\ ledger[o] = {}
                       /\ payments[o]["completed"] = 0 /\ shipment[o] = NoShipment
                       /\ history[o] = <<>>
  BY <1>1 DEF Init, PaymentStatus
<1>5. ImportedOrders
  <2>1. ImportedLedger
    BY <1>4 DEF ImportedLedger, PaidStatus
  <2>2. ImportedShipments
    BY <1>4 DEF ImportedShipments, NoShipment
  <2>3. ImportedHistory
    BY <1>4 DEF ImportedHistory
  <2>4. QED
    BY <2>1, <2>2, <2>3 DEF ImportedOrders
<1>6. FolderSound
  <2>1. ASSUME NEW o \in OlistOrder PROVE SoundRow(tables[o])
    <3>1. PICK csv \in CsvOrder : tables[o] = Rows(csv)
      BY <1>1
    <3>2. QED
      BY <3>1, RowsSound
  <2>2. QED
    BY <2>1 DEF FolderSound
<1>7. BeforeFirst /\ AfterFirst
  BY <1>1 DEF BeforeFirst, AfterFirst
<1>8. AsBrought
  BY <1>4, OlistLoaderAssumption DEF AsBrought
<1>9. NoRowNoUnits
  BY <1>1, <1>4 DEF NoRowNoUnits, EmptyCart
<1>10. QED
  BY <1>2, <1>3, <1>5, <1>6, <1>7, <1>8, <1>9 DEF LoaderInv, StockInv, StockSound

\* Every step keeps the invariant.
LEMMA LoaderStep == LoaderInv /\ [LoaderNext]_loaderVars => LoaderInv'
<1> SUFFICES ASSUME LoaderInv, [LoaderNext]_loaderVars PROVE LoaderInv'
  OBVIOUS
<1>1. CASE UNCHANGED loaderVars
  <2>1. UNCHANGED <<status, items, onHand, reserved, stocked, ledger, payments, shipment,
                    history, tables, category, products, committed>>
    BY <1>1 DEF loaderVars, vars
  <2>2. LoaderTypeOK' /\ StockExact'
    BY <2>1 DEF LoaderInv, LoaderTypeOK, TypeOK, StockExact, ReservationExact, NoOversell,
                StockConserved
  <2>3. ImportedOrders'
    BY <2>1 DEF LoaderInv, ImportedOrders, ImportedLedger, ImportedShipments, ImportedHistory
  <2>4. FolderSound' /\ BeforeFirst' /\ AfterFirst' /\ AsBrought' /\ NoRowNoUnits'
    BY <2>1 DEF LoaderInv, FolderSound, BeforeFirst, AfterFirst, AsBrought, NoRowNoUnits, Loaded
  <2>5. QED
    BY <2>2, <2>3, <2>4 DEF LoaderInv
<1>2. QED
  BY <1>1, LoadStep, ShopStep, StaffStep, DeleteStep DEF LoaderNext

\* The inductive invariant holds in every reachable state: between any two runs of the
\* loader on any folder, after any requests of the shop.
THEOREM LoaderInvariant == LoaderSpec => []LoaderInv
<1>1. QED
  BY LoaderStart, LoaderStep, PTL DEF LoaderSpec

\* Every column keeps its type through every run, and no product is left in a category
\* that does not exist.
THEOREM LoaderTypesProved == LoaderSpec => []LoaderTypeOK
<1>1. LoaderInv => LoaderTypeOK
  BY DEF LoaderInv
<1>2. QED
  BY <1>1, LoaderInvariant, PTL

\* The stock invented for imported products (on hand is what their open orders hold) is
\* exact, never oversold and conserved, whatever the shop sells of it afterwards.
THEOREM ImportedStockProved == LoaderSpec => []ImportedStock
<1>1. LoaderInv => ImportedStock
  BY DEF LoaderInv, StockExact, ImportedStock
<1>2. QED
  BY <1>1, LoaderInvariant, PTL

\* Every imported order agrees with its ledger, its payments and its shipment and, unless
\* the folder dates its approval astray, with the history read by created_at.
THEOREM ImportedOrdersProved == LoaderSpec => []ImportedOrders
<1>1. LoaderInv => ImportedOrders
  BY DEF LoaderInv
<1>2. QED
  BY <1>1, LoaderInvariant, PTL

\* What a later run of the loader leaves: all orders, and the products that have a row.
LEMMA ReloadLeaves ==
    ASSUME LoaderInv, Load, committed
    PROVE  /\ UNCHANGED <<status, items, ledger, payments, shipment, history>>
           /\ \A p \in Product : products[p] # "none" =>
                 UNCHANGED <<onHand[p], reserved[p], products[p]>>
<1>1. \A o \in Order : ~Brought(o)
  BY BroughtFirst
<1>2. \A o \in Order : /\ status'[o] = status[o] /\ items'[o] = items[o]
                       /\ ledger'[o] = ledger[o] /\ payments'[o] = payments[o]
                       /\ shipment'[o] = shipment[o] /\ history'[o] = history[o]
  BY <1>1, LoadLeaves
<1>3. TypeOK /\ TypeOK'
  BY LoadType DEF LoaderInv, LoaderTypeOK
<1>4. UNCHANGED <<status, items, ledger, payments, shipment, history>>
  BY <1>2, <1>3 DEF TypeOK
<1>5. \A p \in Product : products[p] # "none" =>
         onHand'[p] = onHand[p] /\ reserved'[p] = reserved[p] /\ products'[p] = products[p]
  BY DEF Load, New
<1>6. QED
  BY <1>4, <1>5

\* A second run never takes back what the shop did since the first: it leaves every order
\* and the stock of every product that is there (ON CONFLICT DO NOTHING).
THEOREM ReloadKept == LoaderSpec => ReloadKeeps
<1>1. LoaderInv /\ [LoaderNext]_loaderVars
        => [Load /\ committed =>
              /\ UNCHANGED <<status, items, ledger, payments, shipment, history>>
              /\ \A p \in Product : products[p] # "none" =>
                    UNCHANGED <<onHand[p], reserved[p], products[p]>>]_loaderVars
  BY ReloadLeaves
<1>2. QED
  BY <1>1, LoaderInvariant, PTL DEF LoaderSpec, ReloadKeeps
=============================================================================

----------------------------- MODULE ReportsProofs -----------------------------
(***************************************************************************)
(* The summaries of Reports, proved for every number of viewers, every     *)
(* cache time and every length of a computation.                           *)
(*                                                                         *)
(* Two facts carry the proofs.  Entries of the ledger are never taken      *)
(* away, so a statement that runs later sees what an earlier one saw; and  *)
(* an entry that the totals of a summary miss was committed after the      *)
(* computation of that summary began.                                      *)
(***************************************************************************)
EXTENDS Reports, OrderFlowProofs

\* What was read into seen by a computation that began at started misses no older entry.
Misses(seen, started) == \A e \in Entries : e \notin seen.totals => started <= since[e]

\* An order the totals count as sold is in the top products, or was reversed by then.
TopAgrees(seen, entries) ==
    \A o \in Order : <<o, "sale">> \in seen.totals => o \in seen.top \/ <<o, "reversal">> \in entries

\* A summary in the making, as far as its statements have run.
ReadingSound(r) ==
    /\ r \in Reading
    /\ r.started <= clock /\ clock - r.started <= MaxCompute
    /\ r.next > 1 => Misses(r.seen, r.started) /\ r.seen.totals \subseteq Entries
    /\ r.next > 2 => TopAgrees(r.seen, Entries)
    /\ r.next > 3 => /\ r.seen.totals \subseteq r.seen.regions
                     /\ r.seen.regions \subseteq Entries
                     /\ TopAgrees(r.seen, r.seen.regions)

\* A summary that was computed.
SummarySound(s) ==
    /\ s \in Computed
    /\ s.started <= s.generated /\ s.generated <= clock
    /\ s.generated - s.started <= MaxCompute
    /\ Misses(s.seen, s.started)
    /\ s.seen.totals \subseteq s.seen.regions /\ s.seen.regions \subseteq Entries
    /\ TopAgrees(s.seen, s.seen.regions)

ReadingsSound ==
    /\ reading \in [Viewer -> Reading \cup {None}]
    /\ \A v \in Viewer : Computing(v) => ReadingSound(reading[v])

CacheSound == cache # None => SummarySound(cache) /\ CacheTime > 0

\* An answer is as old as it was in the cache, or new.
ShownSound ==
    shown # None =>
        /\ shown \in Shown /\ SummarySound(shown.summary)
        /\ shown.summary.generated <= shown.at /\ shown.at <= clock
        /\ shown.at = shown.summary.generated
              \/ shown.at - shown.summary.generated < CacheTime

\* The cache holds nothing older than what was shown.
CacheIsNewest == cache # None /\ shown # None => shown.summary.generated <= cache.generated

ReportInv ==
    /\ TypeOK
    /\ clock \in Time
    /\ since \in [LedgerEntry -> Time]
    /\ ReadingsSound
    /\ CacheSound
    /\ ShownSound
    /\ CacheIsNewest

-----------------------------------------------------------------------------
(***************************************************************************)
(* The ledger only grows, and what is new in it is new now.                *)
(***************************************************************************)

\* What a step of the trade does to the entries, and to the times of those there were.
LedgerGrows ==
    /\ Entries \subseteq Entries'
    /\ \A e \in Entries : since'[e] = since[e]
    /\ \A e \in Entries' \ Entries : since'[e] = clock

\* A request of the shop adds entries, dated now.
LEMMA TradeGrows ==
    ASSUME TypeOK, since \in [LedgerEntry -> Time], clock \in Time, Trade
    PROVE  LedgerGrows /\ since' \in [LedgerEntry -> Time] /\ [Next]_vars
<1>1. DOMAIN ledger = Order
  BY DEF TypeOK
<1>2. PICK o \in Order :
          \/ \E cart \in Cart, outcome \in GatewayOutcome : Checkout(o, cart, outcome)
          \/ \E outcome \in GatewayOutcome : CreatePayment(o, outcome)
          \/ \E new \in Reversing : TransitionStatus(o, new)
  BY DEF Trade
<1>3. Next
  <2>1. Reversing \subseteq OrderStatus
    BY DEF Reversing, OrderStatus
  <2>2. QED
    BY <1>2, <2>1 DEF Next
<1>4. \A q \in Order : ledger[q] \subseteq ledger'[q]
  <2>1. ledger' = ledger \/ AddSale(o) \/ ledger' = [ledger EXCEPT ![o] = Reversed(ledger[o])]
    BY <1>2 DEF Checkout, WriteCheckout, CreatePayment, WritePayment, TransitionStatus,
                WriteTransition
  <2>2. QED
    BY <1>1, <2>1 DEF AddSale, Reversed
<1>5. Entries \subseteq Entries'
  BY <1>4 DEF Entries, LedgerEntry
<1>6. since' = [e \in LedgerEntry |->
                  IF e \notin Entries /\ e[2] \in ledger'[e[1]] THEN clock ELSE since[e]]
  BY DEF Trade
<1>7. Entries \subseteq LedgerEntry /\ Entries' \subseteq LedgerEntry
      /\ \A e \in Entries' : e[2] \in ledger'[e[1]]
  BY DEF Entries
<1>8. /\ \A e \in Entries : since'[e] = since[e]
      /\ \A e \in Entries' \ Entries : since'[e] = clock
  BY <1>6, <1>7
<1>9. since' \in [LedgerEntry -> Time]
  BY <1>6
<1>10. QED
  BY <1>3, <1>5, <1>8, <1>9 DEF LedgerGrows

\* So it does when nothing happens to it.
LEMMA NoTradeGrows ==
    ASSUME UNCHANGED <<vars, since>>
    PROVE  LedgerGrows
BY DEF LedgerGrows, Entries, vars

\* A computation in progress, and one that is done, stay sound while the ledger grows and
\* the clock, if it runs, leaves the computation its time.
LEMMA ReadingStays ==
    ASSUME LedgerGrows, clock \in Time, clock' \in Time, NEW r, ReadingSound(r),
           clock' = clock \/ (clock' = clock + 1 /\ clock + 1 - r.started <= MaxCompute)
    PROVE  ReadingSound(r)'
<1>1. r \in Reading /\ r.started \in Nat /\ clock \in Nat
  BY DEF ReadingSound, Reading, Time
<1>2. Misses(r.seen, r.started) => Misses(r.seen, r.started)'
  BY <1>1 DEF ReadingSound, LedgerGrows, Misses
<1>3. TopAgrees(r.seen, Entries) => TopAgrees(r.seen, Entries)'
  BY DEF LedgerGrows, TopAgrees
<1>4. r.started <= clock' /\ clock' - r.started <= MaxCompute
  BY <1>1 DEF ReadingSound
<1>5. QED
  BY <1>1, <1>2, <1>3, <1>4 DEF ReadingSound, LedgerGrows, TopAgrees

\* So does a finished summary, for which the clock may run on.
LEMMA SummaryStays ==
    ASSUME LedgerGrows, clock \in Time, clock' \in Time, clock <= clock', NEW s, SummarySound(s)
    PROVE  SummarySound(s)'
<1>1. s \in Computed /\ s.started \in Nat /\ s.generated \in Nat /\ clock \in Nat /\ clock' \in Nat
      /\ s.started <= clock
  BY DEF SummarySound, Computed, Time
<1>2. Misses(s.seen, s.started)'
  BY <1>1 DEF SummarySound, LedgerGrows, Misses
<1>3. s.generated <= clock'
  BY <1>1 DEF SummarySound
<1>4. QED
  BY <1>2, <1>3 DEF SummarySound, LedgerGrows, TopAgrees

-----------------------------------------------------------------------------
(***************************************************************************)
(* The statements.                                                         *)
(***************************************************************************)
\* The statements of a summary, in their order.
LEMMA Statements ==
    /\ Len(Statement) = 3
    /\ Statement[1] = "totals" /\ Statement[2] = "top" /\ Statement[3] = "regions"
BY DEF Statement

\* What a statement leaves of a computation: one more result, and the next number.
LEMMA StatementRead ==
    ASSUME ReportInv, NEW v \in Viewer, RunStatement(v)
    PROVE  \E r \in Reading :
              /\ reading' = [reading EXCEPT ![v] = r]
              /\ r.started = reading[v].started
              /\ r.next = reading[v].next + 1
              /\ reading[v].next = 1 => r.seen.totals = Entries
              /\ reading[v].next = 2 => r.seen.totals = reading[v].seen.totals
                                        /\ r.seen.top = TopProducts
              /\ reading[v].next = 3 => r.seen.totals = reading[v].seen.totals
                                        /\ r.seen.top = reading[v].seen.top
                                        /\ r.seen.regions = Entries
<1> DEFINE old == reading[v]
           name == Statement[old.next]
           seen == [old.seen EXCEPT ![name] = ReadStatement(name)]
           r == [next |-> old.next + 1, started |-> old.started, seen |-> seen]
           one == [reading EXCEPT ![v] = [old EXCEPT !.next = old.next + 1]]
<1>1. old \in Reading /\ DOMAIN reading = Viewer /\ old.next \in 1..3
  <2>1. old \in Reading /\ DOMAIN reading = Viewer /\ old.next <= 3
    BY Statements DEF ReportInv, ReadingsSound, RunStatement, Computing, ReadingSound
  <2>2. QED
    BY <2>1, Statements DEF Reading
<1>2. old = [next |-> old.next, started |-> old.started, seen |-> old.seen]
      /\ old.seen \in Summary /\ old.started \in Time
  BY <1>1 DEF Reading
<1>3. old.seen = [totals |-> old.seen.totals, top |-> old.seen.top, regions |-> old.seen.regions]
  BY <1>2 DEF Summary
<1>4. Entries \subseteq LedgerEntry /\ TopProducts \subseteq Order
  BY DEF Entries, TopProducts
<1>5. /\ seen \in Summary
      /\ old.next = 1 => seen.totals = Entries
      /\ old.next = 2 => seen.totals = old.seen.totals /\ seen.top = TopProducts
      /\ old.next = 3 => /\ seen.totals = old.seen.totals /\ seen.top = old.seen.top
                         /\ seen.regions = Entries
  <2>1. CASE old.next = 1
    <3>1. seen = [old.seen EXCEPT !.totals = Entries]
      BY <2>1, Statements DEF ReadStatement, LedgerTotals
    <3>2. QED
      BY <2>1, <3>1, <1>2, <1>4 DEF Summary
  <2>2. CASE old.next = 2
    <3>1. seen = [old.seen EXCEPT !.top = TopProducts]
      BY <2>2, Statements DEF ReadStatement
    <3>2. QED
      BY <2>2, <3>1, <1>2, <1>4 DEF Summary
  <2>3. CASE old.next = 3
    <3>1. seen = [old.seen EXCEPT !.regions = Entries]
      BY <2>3, Statements DEF ReadStatement, SalesByRegion
    <3>2. QED
      BY <2>3, <3>1, <1>2, <1>4 DEF Summary
  <2>4. QED
    BY <1>1, <2>1, <2>2, <2>3
<1>6. reading' = [one EXCEPT ![v] = [one[v] EXCEPT !.seen = [one[v].seen EXCEPT ![name] = ReadStatement(name)]]]
  BY DEF RunStatement
<1>7. one[v] = [next |-> old.next + 1, started |-> old.started, seen |-> old.seen]
  BY <1>1, <1>2
<1>8. one[v].seen = old.seen
  BY <1>7
<1>9. reading' = [one EXCEPT ![v] = [one[v] EXCEPT !.seen = seen]]
  BY <1>6, <1>8
<1> HIDE DEF seen, name
<1>10. [one[v] EXCEPT !.seen = seen] = r
  BY <1>7
<1>11. reading' = [one EXCEPT ![v] = r]
  BY <1>9, <1>10
<1>12. reading' = [reading EXCEPT ![v] = r]
  BY <1>1, <1>11
<1>13. r \in Reading
  BY <1>1, <1>2, <1>5, Statements DEF Reading
<1>14. r.started = old.started /\ r.next = old.next + 1 /\ r.seen = seen
  OBVIOUS
<1> HIDE DEF r, old
<1>15. QED
  BY <1>5, <1>12, <1>13, <1>14 DEF old

\* A computation that has run one more statement is as sound as before.
LEMMA StatementSound ==
    ASSUME ReportInv, NEW v \in Viewer, RunStatement(v), NEW r \in Reading,
           r.started = reading[v].started, r.next = reading[v].next + 1,
           reading[v].next = 1 => r.seen.totals = Entries,
           reading[v].next = 2 => r.seen.totals = reading[v].seen.totals /\ r.seen.top = TopProducts,
           reading[v].next = 3 => /\ r.seen.totals = reading[v].seen.totals
                                  /\ r.seen.top = reading[v].seen.top /\ r.seen.regions = Entries
    PROVE  ReadingSound(r)
<1>1. ReadingSound(reading[v]) /\ reading[v].next <= 3
  BY Statements DEF ReportInv, ReadingsSound, RunStatement
<1>2. reading[v].next \in 1..3
  BY <1>1, Statements DEF ReadingSound, Reading
<1>3. CASE reading[v].next = 1
  BY <1>1, <1>3 DEF ReadingSound, Misses
<1>4. CASE reading[v].next = 2
  <2>1. Misses(r.seen, r.started) /\ r.seen.totals \subseteq Entries
    BY <1>1, <1>4 DEF ReadingSound, Misses
  <2>2. TopAgrees(r.seen, Entries)
    <3>1. ASSUME NEW o \in Order, <<o, "sale">> \in Entries, <<o, "reversal">> \notin Entries
          PROVE  o \in TopProducts
      <4>1. "sale" \in ledger[o] /\ "reversal" \notin ledger[o]
        BY <3>1 DEF Entries, LedgerEntry, SaleKind
      <4>2. ledger[o] \subseteq {"sale", "reversal"}
        BY DEF ReportInv, TypeOK, SaleKind
      <4>3. QED
        BY <4>1, <4>2 DEF TopProducts
    <3>2. QED
      BY <1>4, <2>1, <3>1 DEF TopAgrees
  <2>3. QED
    BY <1>1, <1>4, <2>1, <2>2 DEF ReadingSound
<1>5. CASE reading[v].next = 3
  BY <1>1, <1>5 DEF ReadingSound, Misses, TopAgrees
<1>6. QED
  BY <1>2, <1>3, <1>4, <1>5

\* A computation whose last statement has run is a sound summary.
LEMMA FinishedSound ==
    ASSUME ReportInv, NEW v \in Viewer, Computing(v), reading[v].next > Len(Statement)
    PROVE  SummarySound(Finished(reading[v])) /\ Finished(reading[v]).generated = clock
<1>1. ReadingSound(reading[v]) /\ reading[v].next > 3 /\ reading[v].next \in Nat
  BY Statements DEF ReportInv, ReadingsSound, ReadingSound, Reading
<1>2. reading[v] \in Reading /\ clock \in Time
  BY <1>1 DEF ReadingSound, ReportInv
<1>3. PICK s : s = Finished(reading[v])
  OBVIOUS
<1>4. /\ s \in Computed /\ s.generated = clock
      /\ s.started = reading[v].started /\ s.seen = reading[v].seen
  BY <1>2, <1>3 DEF Finished, Computed, Reading
<1>5. SummarySound(s)
  <2>1. /\ Misses(s.seen, s.started) /\ TopAgrees(s.seen, s.seen.regions)
        /\ s.seen.totals \subseteq s.seen.regions /\ s.seen.regions \subseteq Entries
        /\ s.started <= clock /\ clock - s.started <= MaxCompute
    BY <1>1, <1>4 DEF ReadingSound
  <2>2. clock \in Nat
    BY <1>2 DEF Time
  <2>3. QED
    BY <1>4, <2>1, <2>2 DEF SummarySound
<1>6. QED
  BY <1>3, <1>4, <1>5

-----------------------------------------------------------------------------
(***************************************************************************)
(* The invariant.                                                          *)
(***************************************************************************)

\* A sound value stays sound in the variable that holds it.
LEMMA HeldReading ==
    ASSUME NEW v, NEW r, reading'[v] = r, ReadingSound(r)'
    PROVE  ReadingSound(reading[v])'
BY DEF ReadingSound, Misses, TopAgrees

\* The same for the summary in the cache.
LEMMA HeldCache ==
    ASSUME NEW s, cache' = s, SummarySound(s)'
    PROVE  SummarySound(cache)'
BY DEF SummarySound, Misses, TopAgrees

\* The same for the summary that was shown last.
LEMMA HeldShown ==
    ASSUME NEW s, shown'.summary = s, SummarySound(s)'
    PROVE  SummarySound(shown.summary)'
BY DEF SummarySound, Misses, TopAgrees

\* What a viewer's request does not touch stays sound, while the clock has not run too far.
LEMMA ReadingsStay ==
    ASSUME ReportInv, LedgerGrows, clock' \in Time, UNCHANGED reading,
           \/ clock' = clock
           \/ clock' = clock + 1 /\ \A v \in Viewer : Computing(v) => clock + 1 - reading[v].started <= MaxCompute
    PROVE  ReadingsSound'
<1>1. ASSUME NEW v \in Viewer, Computing(v)
      PROVE  ReadingSound(reading[v])'
  <2>1. PICK r : r = reading[v]
    OBVIOUS
  <2>2. ReadingSound(r) /\ clock \in Time
    BY <1>1, <2>1 DEF ReportInv, ReadingsSound
  <2>3. ReadingSound(r)'
    BY <1>1, <2>1, <2>2, ReadingStays
  <2>4. QED
    BY <2>1, <2>3, HeldReading
<1>2. QED
  BY <1>1 DEF ReportInv, ReadingsSound, Computing

\* One viewer's computation changes, or ends, and the others' stay.
LEMMA ReadingsChange ==
    ASSUME ReportInv, UNCHANGED <<vars, clock, since>>, NEW v \in Viewer,
           NEW r \in Reading \cup {None}, r = None \/ ReadingSound(r),
           reading' = [reading EXCEPT ![v] = r]
    PROVE  ReadingsSound'
<1>1. LedgerGrows /\ clock \in Time
  BY NoTradeGrows DEF ReportInv
<1>2. ASSUME NEW w \in Viewer, reading'[w] # None
      PROVE  ReadingSound(reading[w])'
  <2>1. PICK q : q = reading'[w]
    OBVIOUS
  <2>2. ReadingSound(q)
    BY <1>2, <2>1 DEF ReportInv, ReadingsSound, Computing
  <2>3. ReadingSound(q)'
    BY <1>1, <2>2, ReadingStays
  <2>4. QED
    BY <2>1, <2>3, HeldReading
<1>3. QED
  BY <1>2 DEF ReportInv, ReadingsSound, Computing

\* The cache stays sound while nothing is stored.
LEMMA CacheStays ==
    ASSUME ReportInv, LedgerGrows, clock' \in Time, clock <= clock', UNCHANGED cache
    PROVE  CacheSound'
<1>1. PICK s : s = cache
  OBVIOUS
<1>2. s # None => SummarySound(s) /\ CacheTime > 0
  BY <1>1 DEF ReportInv, CacheSound
<1>3. s # None => SummarySound(s)'
  BY <1>2, SummaryStays DEF ReportInv
<1>4. QED
  BY <1>1, <1>2, <1>3, HeldCache DEF CacheSound

\* The last answer stays sound while nothing is shown.
LEMMA ShownStays ==
    ASSUME ReportInv, LedgerGrows, clock' \in Time, clock <= clock', UNCHANGED shown
    PROVE  ShownSound'
<1>1. PICK s : s = shown.summary
  OBVIOUS
<1>2. shown # None => SummarySound(s)
  BY <1>1 DEF ReportInv, ShownSound
<1>3. shown # None => SummarySound(s)'
  BY <1>2, SummaryStays DEF ReportInv
<1>4. shown # None => shown.at <= clock'
  <2>1. shown # None => shown.at \in Nat /\ shown.at <= clock
    BY DEF ReportInv, ShownSound, Shown, Time
  <2>2. QED
    BY <2>1 DEF ReportInv, Time
<1>5. QED
  BY <1>1, <1>3, <1>4, HeldShown DEF ShownSound, ReportInv

\* An answer that is given shows a sound summary at its age.
LEMMA AnswerSound ==
    ASSUME ReportInv, UNCHANGED <<vars, clock, since>>, NEW s, SummarySound(s),
           shown' = [at |-> clock, summary |-> s],
           clock = s.generated \/ clock - s.generated < CacheTime
    PROVE  ShownSound'
<1>1. SummarySound(s)' /\ s \in Computed /\ s.generated <= clock /\ clock \in Time
  BY NoTradeGrows, SummaryStays DEF ReportInv, SummarySound, Time
<1>2. shown' \in Shown /\ shown'.summary = s /\ shown'.at = clock
  BY <1>1 DEF Shown
<1>3. SummarySound(shown.summary)'
  BY <1>1, <1>2, HeldShown
<1>4. /\ shown'.summary.generated <= shown'.at /\ shown'.at <= clock'
      /\ \/ shown'.at = shown'.summary.generated
         \/ shown'.at - shown'.summary.generated < CacheTime
  BY <1>1, <1>2 DEF Time
<1>5. QED
  BY <1>2, <1>3, <1>4 DEF ShownSound

\* A request that is answered from the cache.
LEMMA ServeStep ==
    ASSUME ReportInv, NEW v \in Viewer, ServeCached(v)
    PROVE  ReportInv'
<1>1. UNCHANGED <<vars, clock, since, reading, cache>> /\ LedgerGrows /\ clock \in Time
  BY NoTradeGrows DEF ServeCached, ReportInv
<1>2. cache # None /\ SummarySound(cache) /\ clock - cache.generated < CacheTime
  BY DEF ServeCached, Fresh, ReportInv, CacheSound
<1>3. PICK s : s = cache
  OBVIOUS
<1>4. ShownSound'
  BY <1>1, <1>2, <1>3, AnswerSound DEF ServeCached
<1>5. CacheIsNewest'
  <2>1. cache.generated \in Nat
    BY <1>2 DEF SummarySound, Computed, Time
  <2>2. QED
    BY <1>1, <2>1 DEF CacheIsNewest, ServeCached
<1>6. TypeOK'
  BY <1>1 DEF ReportInv, TypeOK, vars
<1>7. clock <= clock
  BY <1>1 DEF Time
<1>8. ReadingsSound' /\ CacheSound'
  BY <1>1, <1>7, ReadingsStay, CacheStays
<1>9. QED
  BY <1>1, <1>4, <1>5, <1>6, <1>8 DEF ReportInv

\* Steps that touch the computations only.
LEMMA ComputingStep ==
    ASSUME ReportInv, UNCHANGED <<vars, clock, since, cache, shown>>, ReadingsSound'
    PROVE  ReportInv'
<1>1. LedgerGrows /\ clock \in Time
  BY NoTradeGrows DEF ReportInv
<1>2. TypeOK' /\ clock <= clock
  BY <1>1 DEF ReportInv, TypeOK, vars, Time
<1>3. CacheSound' /\ ShownSound'
  BY <1>1, <1>2, CacheStays, ShownStays
<1>4. CacheIsNewest'
  BY DEF ReportInv, CacheIsNewest
<1>5. QED
  BY <1>2, <1>3, <1>4 DEF ReportInv

\* A computation starts with nothing read.
LEMMA StartStep ==
    ASSUME ReportInv, NEW v \in Viewer, StartSummary(v)
    PROVE  ReportInv'
<1> DEFINE r == [next |-> 1, started |-> clock, seen |-> Unread]
<1>1. r \in Reading /\ r.next = 1 /\ r.started = clock
  BY Statements DEF Reading, Unread, Summary, ReportInv
<1>2. ReadingSound(r)
  BY <1>1, ReportsAssumption DEF ReadingSound, ReportInv, Time
<1>3. reading' = [reading EXCEPT ![v] = r] /\ UNCHANGED <<vars, clock, since, cache, shown>>
  BY DEF StartSummary
<1> HIDE DEF r
<1>4. ReadingsSound'
  BY <1>1, <1>2, <1>3, ReadingsChange
<1>5. QED
  BY <1>3, <1>4, ComputingStep

\* A statement adds its result to its computation.
LEMMA StatementStep ==
    ASSUME ReportInv, NEW v \in Viewer, RunStatement(v)
    PROVE  ReportInv'
<1>1. PICK r \in Reading :
          /\ reading' = [reading EXCEPT ![v] = r]
          /\ ReadingSound(r)
  BY StatementRead, StatementSound
<1>2. UNCHANGED <<vars, clock, since, cache, shown>>
  BY DEF RunStatement
<1>3. ReadingsSound'
  BY <1>1, <1>2, ReadingsChange
<1>4. QED
  BY <1>2, <1>3, ComputingStep

\* A computation that fails leaves nothing.
LEMMA FailStep ==
    ASSUME ReportInv, NEW v \in Viewer, FailSummary(v)
    PROVE  ReportInv'
BY ReadingsChange, ComputingStep DEF FailSummary

\* A finished summary is shown at once, and put in the cache if there is one.
LEMMA StoreStep ==
    ASSUME ReportInv, NEW v \in Viewer, StoreSummary(v)
    PROVE  ReportInv'
<1>1. PICK s : s = Finished(reading[v])
  OBVIOUS
<1>2. SummarySound(s) /\ s.generated = clock /\ clock \in Time
  BY <1>1, FinishedSound DEF StoreSummary, ReportInv
<1>3. /\ UNCHANGED <<vars, clock, since>> /\ LedgerGrows
      /\ shown' = [at |-> clock, summary |-> s]
      /\ cache' = IF CacheTime > 0 THEN s ELSE cache
      /\ reading' = [reading EXCEPT ![v] = None]
  BY <1>1, NoTradeGrows DEF StoreSummary
<1>4. TypeOK' /\ clock <= clock
  BY <1>2, <1>3 DEF ReportInv, TypeOK, vars, Time
<1>5. ShownSound'
  BY <1>2, <1>3, AnswerSound
<1>6. CacheSound'
  <2>1. SummarySound(s)'
    BY <1>2, <1>3, <1>4, SummaryStays
  <2>2. CASE CacheTime > 0
    BY <1>3, <2>1, <2>2, HeldCache DEF CacheSound
  <2>3. CASE ~(CacheTime > 0)
    BY <1>2, <1>3, <1>4, <2>3, CacheStays
  <2>4. QED
    BY <2>2, <2>3
<1>7. ReadingsSound'
  BY <1>3, ReadingsChange
<1>8. CacheIsNewest'
  <2>1. shown'.summary.generated = clock
    BY <1>2, <1>3
  <2>2. CASE CacheTime > 0
    BY <1>2, <1>3, <2>1, <2>2 DEF CacheIsNewest, Time
  <2>3. CASE ~(CacheTime > 0)
    BY <1>3, <2>3 DEF CacheIsNewest, ReportInv, CacheSound
  <2>4. QED
    BY <2>2, <2>3
<1>9. QED
  BY <1>2, <1>3, <1>4, <1>5, <1>6, <1>7, <1>8 DEF ReportInv

\* A restart forgets the cache and the computations.
LEMMA RestartStep ==
    ASSUME ReportInv, Restart
    PROVE  ReportInv'
<1>1. UNCHANGED <<vars, clock, since, shown>> /\ LedgerGrows /\ clock \in Time
  BY NoTradeGrows DEF Restart, ReportInv
<1>2. TypeOK' /\ clock <= clock
  BY <1>1 DEF ReportInv, TypeOK, vars, Time
<1>3. ShownSound'
  BY <1>1, <1>2, ShownStays
<1>4. ReadingsSound' /\ CacheSound' /\ CacheIsNewest'
  BY DEF Restart, ReadingsSound, CacheSound, CacheIsNewest, Computing
<1>5. QED
  BY <1>1, <1>2, <1>3, <1>4 DEF ReportInv

\* The shop trades while summaries are computed, cached and shown.
LEMMA TradeStep ==
    ASSUME ReportInv, Trade
    PROVE  ReportInv'
<1>1. TypeOK /\ since \in [LedgerEntry -> Time] /\ clock \in Time
  BY DEF ReportInv
<1>2. LedgerGrows /\ since' \in [LedgerEntry -> Time] /\ TypeOK'
  BY <1>1, TradeGrows, TypeStep
<1>3. UNCHANGED <<clock, reading, cache, shown>> /\ clock <= clock
  BY <1>1 DEF Trade, Time
<1>4. ReadingsSound' /\ CacheSound' /\ ShownSound'
  BY <1>1, <1>2, <1>3, ReadingsStay, CacheStays, ShownStays
<1>5. CacheIsNewest'
  BY <1>3 DEF ReportInv, CacheIsNewest
<1>6. QED
  BY <1>1, <1>2, <1>3, <1>4, <1>5 DEF ReportInv

\* The clock runs, no further than the computations in progress allow.
LEMMA TickStep ==
    ASSUME ReportInv, Tick
    PROVE  ReportInv'
<1>1. UNCHANGED <<vars, since, reading, cache, shown>> /\ LedgerGrows
  BY NoTradeGrows DEF Tick
<1>2. clock \in Time /\ clock' = clock + 1 /\ clock' \in Time /\ clock <= clock'
  BY ReportsAssumption DEF Tick, ReportInv, Time
<1>3. ReadingsSound'
  BY <1>1, <1>2, ReadingsStay DEF Tick
<1>4. CacheSound' /\ ShownSound'
  BY <1>1, <1>2, CacheStays, ShownStays
<1>5. TypeOK' /\ CacheIsNewest'
  BY <1>1 DEF ReportInv, CacheIsNewest, TypeOK, vars
<1>6. QED
  BY <1>1, <1>2, <1>3, <1>4, <1>5 DEF ReportInv

\* An empty cache and no computation satisfy the invariant.
LEMMA ReportStart ==
    ASSUME Init, ReportInit
    PROVE  ReportInv
<1>1. TypeOK
  BY OrderFlowAssumption DEF Init, TypeOK, EmptyCart, NoShipment, Shipment
<1>2. 0 \in Time
  BY ReportsAssumption DEF Time
<1>3. QED
  BY <1>1, <1>2 DEF ReportInit, ReportInv, ReadingsSound, CacheSound, ShownSound, CacheIsNewest,
                    Computing

\* Every step keeps the invariant.
LEMMA ReportStep ==
    ASSUME ReportInv, [ReportNext]_allVars
    PROVE  ReportInv'
<1>1. CASE UNCHANGED allVars
  <2>1. UNCHANGED <<vars, clock, since, reading, cache, shown>>
    BY <1>1 DEF allVars, reportVars
  <2>2. LedgerGrows /\ clock \in Time
    BY <2>1, NoTradeGrows DEF ReportInv
  <2>3. ReadingsSound'
    BY <2>1, <2>2, ReadingsStay
  <2>4. QED
    BY <2>1, <2>3, ComputingStep
<1>2. CASE ReportNext
  BY <1>2, ServeStep, StartStep, StatementStep, StoreStep, FailStep, RestartStep, TradeStep, TickStep
     DEF ReportNext
<1>3. QED
  BY <1>1, <1>2

-----------------------------------------------------------------------------
(***************************************************************************)
(* What the dashboard may be told.                                         *)
(***************************************************************************)

\* The invariant holds in every reachable state.
THEOREM ReportInvariant == ReportSpec => []ReportInv
<1>1. Init /\ ReportInit => ReportInv
  BY ReportStart
<1>2. ReportInv /\ [ReportNext]_allVars => ReportInv'
  BY ReportStep
<1>3. QED
  BY <1>1, <1>2, PTL DEF ReportSpec

\* Every variable has its type.
THEOREM ReportsTyped == ReportSpec => []ReportTypeOK
<1>1. ReportInv => ReportTypeOK
  BY DEF ReportInv, ReadingsSound, CacheSound, ShownSound, SummarySound, ReportTypeOK
<1>2. QED
  BY <1>1, ReportInvariant, PTL

\* An entry an answer misses was committed after that answer's computation began, and
\* the age of the answer is bounded by the cache time and the time of one computation.
LEMMA AnswersAge ==
    ASSUME ReportInv, shown # None, NEW e \in Entries, e \notin shown.summary.seen.totals
    PROVE  /\ shown.at <= since[e] + CacheTime + MaxCompute
           /\ CacheTime > 0 => shown.at < since[e] + CacheTime + MaxCompute
<1>1. /\ shown.at \in Nat /\ shown.summary.generated \in Nat /\ shown.summary.started \in Nat
      /\ since[e] \in Nat /\ CacheTime \in Nat /\ MaxCompute \in Nat
  BY ReportsAssumption DEF ReportInv, ShownSound, Shown, Computed, Time, Entries
<1>2. /\ shown.summary.started <= since[e]
      /\ shown.summary.generated - shown.summary.started <= MaxCompute
  BY DEF ReportInv, ShownSound, SummarySound, Misses
<1>3. \/ shown.at = shown.summary.generated
      \/ shown.at - shown.summary.generated < CacheTime
  BY DEF ReportInv, ShownSound
<1>4. QED
  BY <1>1, <1>2, <1>3

\* With a cache, no answer misses what was paid or refunded before the cache time and the
\* time of one computation, whichever of many viewers computed it.
THEOREM AnswersAreRecent ==
    ASSUME CacheTime > 0
    PROVE  ReportSpec => []StaleByAtMost
<1>1. ReportInv => StaleByAtMost
  <2> SUFFICES ASSUME ReportInv, shown # None, NEW e \in Entries,
                      since[e] + CacheTime + MaxCompute <= shown.at
               PROVE  e \in shown.summary.seen.totals
    BY DEF StaleByAtMost
  <2>1. shown.at \in Nat /\ since[e] \in Nat /\ CacheTime \in Nat /\ MaxCompute \in Nat
    BY ReportsAssumption DEF ReportInv, ShownSound, Shown, Time, Entries
  <2>2. QED
    BY <2>1, AnswersAge
<1>2. QED
  BY <1>1, ReportInvariant, PTL

\* Without a cache (CacheTime = 0) an answer can miss what was committed in the very
\* tick in which its computation began, and nothing older.
WithinATick ==
    shown # None =>
        \A e \in Entries : since[e] + CacheTime + MaxCompute < shown.at
                              => e \in shown.summary.seen.totals

\* With a cache or without, an answer has every entry that is older than the cache time
\* and a computation.
THEOREM AnswersAreRecentWithinATick == ReportSpec => []WithinATick
<1>1. ReportInv => WithinATick
  <2> SUFFICES ASSUME ReportInv, shown # None, NEW e \in Entries,
                      since[e] + CacheTime + MaxCompute < shown.at
               PROVE  e \in shown.summary.seen.totals
    BY DEF WithinATick
  <2>1. shown.at \in Nat /\ since[e] \in Nat /\ CacheTime \in Nat /\ MaxCompute \in Nat
    BY ReportsAssumption DEF ReportInv, ShownSound, Shown, Time, Entries
  <2>2. QED
    BY <2>1, AnswersAge
<1>2. QED
  BY <1>1, ReportInvariant, PTL

\* The parts of one summary disagree only about what was committed while it was computed:
\* each is newer than the one before.
THEOREM PartsAreNewer == ReportSpec => []RegionsAreNewer
<1>1. ReportInv => RegionsAreNewer
  BY DEF ReportInv, ShownSound, SummarySound, Misses, TopAgrees, RegionsAreNewer
<1>2. QED
  BY <1>1, ReportInvariant, PTL

\* generated_at never goes back in what viewers are shown, however many of them compute
\* and store summaries, and whenever the process restarts.
THEOREM GeneratedIsMonotonic == ReportSpec => GeneratedNeverGoesBack
<1>1. ASSUME ReportInv, [ReportNext]_allVars, shown # None
      PROVE  shown.summary.generated <= shown'.summary.generated
  <2>1. shown.summary.generated \in Nat /\ shown.summary.generated <= clock /\ clock \in Nat
    BY <1>1 DEF ReportInv, ShownSound, SummarySound, Computed, Time
  <2>2. CASE UNCHANGED shown
    BY <2>1, <2>2
  <2>3. ASSUME NEW v \in Viewer, ServeCached(v)
        PROVE  shown.summary.generated <= shown'.summary.generated
    BY <1>1, <2>3 DEF ServeCached, Fresh, ReportInv, CacheIsNewest
  <2>4. ASSUME NEW v \in Viewer, StoreSummary(v)
        PROVE  shown.summary.generated <= shown'.summary.generated
    BY <2>1, <2>4 DEF StoreSummary, Finished
  <2>5. QED
    BY <1>1, <2>2, <2>3, <2>4 DEF ReportNext, StartSummary, RunStatement, FailSummary, Restart,
                                  Trade, Tick, allVars, reportVars
<1>2. ReportInv /\ [ReportNext]_allVars
        => [shown # None => shown.summary.generated <= shown'.summary.generated]_allVars
  BY <1>1
<1>3. QED
  BY <1>2, ReportInvariant, PTL DEF ReportSpec, GeneratedNeverGoesBack
=============================================================================

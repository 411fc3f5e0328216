------------------------------- MODULE Reports -------------------------------
(***************************************************************************)
(* GET /reports/summary over the ledger of OrderFlow.                      *)
(*                                                                         *)
(* A summary is computed by statements that run one after the other in a   *)
(* READ COMMITTED transaction, so each sees what was committed when it     *)
(* began, and orders are paid and refunded between them.  The result is    *)
(* kept in the memory of the API process for REPORT_CACHE_SECONDS.         *)
(* Amounts are abstracted: every order is worth one unit of money, and a   *)
(* sum over ledger rows is known from the set of rows it saw.  The counts  *)
(* of orders, customers and products, three statements that stand alone,   *)
(* are left out.                                                           *)
(***************************************************************************)
EXTENDS OrderFlow

CONSTANTS
    Viewer,        \* staff who look at the dashboard
    CacheTime,     \* REPORT_CACHE_SECONDS
    MaxCompute,    \* bound: how long the statements of one summary may take
    MaxTime        \* bound: how long the clock runs

ASSUME ReportsAssumption ==
    /\ IsFiniteSet(Viewer)
    /\ CacheTime \in Nat
    /\ MaxCompute \in Nat
    /\ MaxTime \in Nat

VARIABLES
    clock,      \* time.monotonic() of the process
    since,      \* when each ledger entry was committed
    reading,    \* the summary each viewer's request is computing
    cache,      \* the last summary computed, if any
    shown       \* the last answer given to any viewer, and when

reportVars == <<clock, since, reading, cache, shown>>
allVars == <<vars, reportVars>>

Time == 0..MaxTime
LedgerEntry == Order \X SaleKind
Entries == {e \in LedgerEntry : e[2] \in ledger[e[1]]}

\* The statements, in the order _compute runs them.
Statement == <<"totals", "top", "regions">>

Unread == [totals |-> {}, top |-> {}, regions |-> {}]

Summary == [totals: SUBSET LedgerEntry, top: SUBSET Order, regions: SUBSET LedgerEntry]
Reading == [next: 1..(Len(Statement) + 1), started: Time, seen: Summary]
Computed == [started: Time, generated: Time, seen: Summary]
Shown == [at: Time, summary: Computed]
None == [none |-> TRUE]

\* Money in minus money out: sales count once, reversals take one back.
Net(entries) ==
    Cardinality({e \in entries : e[2] = "sale"}) - Cardinality({e \in entries : e[2] = "reversal"})

\* What each statement sees at the moment it runs.
LedgerTotals == Entries
TopProducts == {o \in Order : ledger[o] = {"sale"}}
SalesByRegion == Entries

ReadStatement(name) ==
    CASE name = "totals"  -> LedgerTotals
      [] name = "top"     -> TopProducts
      [] name = "regions" -> SalesByRegion

-----------------------------------------------------------------------------
ReportInit ==
    /\ clock = 0
    /\ since = [e \in LedgerEntry |-> 0]
    /\ reading = [v \in Viewer |-> None]
    /\ cache = None
    /\ shown = None

Computing(v) == reading[v] # None

\* Mutant of Fresh: the age of the summary is never looked at.
AnyCached == cache # None

\* The cached summary is young enough to be returned.
Fresh == cache # None /\ clock - cache.generated < CacheTime

\* A request that finds a fresh summary in the cache returns it.
ServeCached(v) ==
    /\ ~Computing(v)
    /\ Fresh
    /\ shown' = [at |-> clock, summary |-> cache]
    /\ UNCHANGED <<vars, clock, since, reading, cache>>

\* Otherwise it computes one, also while other requests do.
StartSummary(v) ==
    /\ ~Computing(v)
    /\ ~Fresh
    /\ reading' = [reading EXCEPT ![v] = [next |-> 1, started |-> clock, seen |-> Unread]]
    /\ UNCHANGED <<vars, clock, since, cache, shown>>

\* Mutant of RunStatement: the regions are read before the totals.
RunReversed(v) ==
    /\ Computing(v)
    /\ reading[v].next <= Len(Statement)
    /\ LET name == Statement[Len(Statement) + 1 - reading[v].next] IN
       reading' = [reading EXCEPT ![v].next = @ + 1, ![v].seen[name] = ReadStatement(name)]
    /\ UNCHANGED <<vars, clock, since, cache, shown>>

RunStatement(v) ==
    /\ Computing(v)
    /\ reading[v].next <= Len(Statement)
    /\ LET name == Statement[reading[v].next] IN
       reading' = [reading EXCEPT ![v].next = @ + 1, ![v].seen[name] = ReadStatement(name)]
    /\ UNCHANGED <<vars, clock, since, cache, shown>>

\* Mutant of Finished: generated_at is taken before the first statement.
StampedAtStart(r) == [started |-> r.started, generated |-> r.started, seen |-> r.seen]

\* Mutant of Finished: the rows are returned without generated_at.
Unstamped(r) == [started |-> r.started, seen |-> r.seen]

\* The ReportSummary, stamped when its last statement has returned.
Finished(r) == [started |-> r.started, generated |-> clock, seen |-> r.seen]

\* The summary is stored, whatever the cache holds by now, and returned.
StoreSummary(v) ==
    /\ Computing(v)
    /\ reading[v].next > Len(Statement)
    /\ cache' = IF CacheTime > 0 THEN Finished(reading[v]) ELSE cache
    /\ shown' = [at |-> clock, summary |-> Finished(reading[v])]
    /\ reading' = [reading EXCEPT ![v] = None]
    /\ UNCHANGED <<vars, clock, since>>

\* A statement fails or the client is gone: nothing is stored.
FailSummary(v) ==
    /\ Computing(v)
    /\ reading' = [reading EXCEPT ![v] = None]
    /\ UNCHANGED <<vars, clock, since, cache, shown>>

\* The API process restarts: its cache and its requests are lost.
Restart ==
    /\ cache # None
    /\ cache' = None
    /\ reading' = [v \in Viewer |-> None]
    /\ UNCHANGED <<vars, clock, since, shown>>

\* The requests that write in the ledger, and the creation of what they are about.
Trade ==
    /\ \E o \in Order :
          \/ \E cart \in Cart, outcome \in GatewayOutcome : Checkout(o, cart, outcome)
          \/ \E outcome \in GatewayOutcome : CreatePayment(o, outcome)
          \/ \E new \in Reversing : TransitionStatus(o, new)
    /\ since' = [e \in LedgerEntry |->
                    IF e \notin Entries /\ e[2] \in ledger'[e[1]] THEN clock ELSE since[e]]
    /\ UNCHANGED <<clock, reading, cache, shown>>

Tick ==
    /\ clock < MaxTime
    /\ \A v \in Viewer : Computing(v) => clock + 1 - reading[v].started <= MaxCompute
    /\ clock' = clock + 1
    /\ UNCHANGED <<vars, since, reading, cache, shown>>

ReportNext ==
    \/ \E v \in Viewer :
          \/ ServeCached(v)
          \/ StartSummary(v)
          \/ RunStatement(v)
          \/ StoreSummary(v)
          \/ FailSummary(v)
    \/ Restart
    \/ Trade
    \/ Tick

ReportSpec == Init /\ ReportInit /\ [][ReportNext]_allVars

-----------------------------------------------------------------------------
(***************************************************************************)
(* What the dashboard may be told.                                         *)
(***************************************************************************)

\* Every variable holds a value of its type.
ReportTypeOK ==
    /\ clock \in Time
    /\ since \in [LedgerEntry -> Time]
    /\ \A v \in Viewer : reading[v] \in Reading \/ reading[v] = None
    /\ cache \in Computed \/ cache = None
    /\ shown \in Shown \/ shown = None

\* No answer is older than the cache time and the time of one computation together (the
\* cache time alone is not enough: the age counts from the end of the computation): all
\* that was paid or refunded before is in it, whoever computed it and when.
StaleByAtMost ==
    shown # None =>
        \A e \in Entries : since[e] + CacheTime + MaxCompute <= shown.at
                            => e \in shown.summary.seen.totals

\* Totals, top products and regions of one summary differ only by what was committed while
\* it was computed, each newer than the one before: an order that the totals count is in
\* the top products unless the regions show its reversal, and no revenue is missing there.
RegionsAreNewer ==
    shown # None =>
        LET s == shown.summary IN
        /\ s.seen.totals \subseteq s.seen.regions
        /\ \A o \in Order :
              (<<o, "sale">> \in s.seen.totals /\ <<o, "reversal">> \notin s.seen.regions)
                  => o \in s.seen.top
        /\ \A e \in s.seen.regions \ s.seen.totals : since[e] >= s.started

\* What a step may never do: generated_at, as the viewers see it one after the other,
\* never goes back while several requests compute summaries and store them in any order.
GeneratedNeverGoesBack ==
    [][shown # None => shown.summary.generated <= shown'.summary.generated]_allVars
=============================================================================

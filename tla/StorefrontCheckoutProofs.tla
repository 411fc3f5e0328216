----------------------- MODULE StorefrontCheckoutProofs -----------------------
(***************************************************************************)
(* The storefront in front of the backend, proved for every number of      *)
(* products, orders, saves and, unless a theorem says otherwise, workers.  *)
(*                                                                         *)
(* The answer of a checkout leaves before its commit.  What makes the      *)
(* commit safe all the same is FlushedSound: as long as a call is flushed, *)
(* nobody else moves the stock of its lines, so what was available when    *)
(* the call was checked is available when it is written.                   *)
(***************************************************************************)
EXTENDS StorefrontCheckout, OrderFlowProofs

BusyWorkers == {w \in Worker : Busy(w)}

\* A call that was flushed can still be written, and shares no line with another one.
FlushedSound ==
    \A o \in Order : call[o].at = "flushed" =>
        /\ \A p \in Product : call[o].cart[p] > 0 => Available(p, call[o].cart[p])
        /\ \A q \in Order : \A p \in Product :
              q # o /\ call[q].at = "flushed" => call[o].cart[p] = 0 \/ call[q].cart[p] = 0

\* A cart is sent with lines, and only for a checkout.
CallsSound ==
    /\ \A w \in Worker : work[w].at = "waiting" => work[w].req.op = "checkout"
    /\ \A o \in Order : call[o].at # "unsent" => call[o].cart \in Cart

\* Every busy worker may still save the session once.
SavesSound == saves + Cardinality(BusyWorkers) <= MaxSaves

StoreInv ==
    /\ StockInv
    /\ StoreTypeOK
    /\ CallsSound
    /\ FlushedSound
    /\ SavesSound

\* With one worker, no one saves the session during a request.  A checkout is answered
\* once, and its confirmation is the end of the version of the session it came from.
OneAtATime ==
    /\ \A w \in Worker : Busy(w) => work[w].mem = session /\ work[w].row = saves
    /\ \A o \in Order : call[o].at = "unsent" => told[o] = "nothing"
    /\ \A w \in Worker : \A o \in Order : CheckingOut(w, o) =>
          /\ told[o] = "nothing"
          /\ work[w].at = "viewing" => call[o].at = "unsent"
          /\ work[w].at = "waiting" =>
                call[o].at # "unsent" /\ call[o].row = saves /\ call[o].cart = session.cart
    /\ \A o \in Order : told[o] = "created" => call[o].at # "unsent" /\ call[o].row < saves
    /\ OneOrderPerCart

-----------------------------------------------------------------------------
(***************************************************************************)
(* What the steps do to a request and to a call.                           *)
(***************************************************************************)

\* A busy worker has a request, and a request is not the mark of an idle worker.
LEMMA WorkFields ==
    ASSUME StoreTypeOK, NEW w \in Worker
    PROVE  /\ Busy(w) <=> work[w] \in Work
           /\ Busy(w) => /\ work[w].req \in Input /\ work[w].req.op \in Ops
                         /\ work[w].mem \in Session /\ work[w].row \in 0..MaxSaves
           /\ Idle.at = "idle" /\ Idle \notin Work
BY DEF StoreTypeOK, Busy, Work, Idle, VisitorInput

\* A request carries what its kind needs.
LEMMA InputFields ==
    ASSUME NEW r \in Input
    PROVE  /\ r.op \in {"add", "update", "remove", "toggle", "reorder", "checkout"}
           /\ r.op \in {"add", "update", "remove", "toggle"} => r.p \in Product
           /\ r.op \in {"add", "update"} => r.q \in Int
           /\ r.op \in {"reorder", "checkout"} => r.o \in Order
           /\ r.op = "checkout" => r = [op |-> "checkout", o |-> r.o]
<1>1. -MaxQty..MaxQty \subseteq Int
  BY OrderFlowAssumption
<1>2. QED
  BY <1>1 DEF Input

\* A call goes to another place, with an answer or without: its cart and the session it
\* came from stay.
CallMoved(o, at) ==
    /\ call' \in [Order -> Call]
    /\ call'[o].at = at /\ call'[o].cart = call[o].cart /\ call'[o].row = call[o].row
    /\ \A q \in Order : q # o => call'[q] = call[q]

Places == {"unsent", "open", "flushed", "committed", "refused", "dropped"}

\* An answer moves one call to its place.
LEMMA AnswerMoves ==
    ASSUME StoreTypeOK, NEW o \in Order, NEW at \in Places,
           NEW answer \in {"none", "created", "conflict", "error"}, Answer(o, at, answer)
    PROVE  CallMoved(o, at)
<1>1. call[o] \in Call /\ DOMAIN call = Order
  BY DEF StoreTypeOK
<1> DEFINE one == [call EXCEPT ![o] = [call[o] EXCEPT !.at = at]]
           moved == [[call[o] EXCEPT !.at = at] EXCEPT !.answer = answer]
<1>2. one[o] = [call[o] EXCEPT !.at = at] /\ DOMAIN one = Order
  BY <1>1
<1>3. call' = [one EXCEPT ![o] = [one[o] EXCEPT !.answer = answer]]
  BY <1>1 DEF Answer
<1>4. call' = [one EXCEPT ![o] = moved]
  BY <1>2, <1>3
<1>5. /\ moved \in Call /\ moved.at = at
      /\ moved.cart = call[o].cart /\ moved.row = call[o].row
  BY <1>1 DEF Call, Places
<1> HIDE DEF moved
<1>6. call' = [call EXCEPT ![o] = moved]
  BY <1>1, <1>4
<1>7. QED
  BY <1>1, <1>5, <1>6 DEF CallMoved, StoreTypeOK

\* So does any other change of its place.
LEMMA PlaceMoves ==
    ASSUME StoreTypeOK, NEW o \in Order, NEW at \in Places,
           call' = [call EXCEPT ![o].at = at]
    PROVE  CallMoved(o, at)
<1>1. call[o] \in Call /\ DOMAIN call = Order
  BY DEF StoreTypeOK
<1> DEFINE moved == [call[o] EXCEPT !.at = at]
<1>2. /\ moved \in Call /\ moved.at = at
      /\ moved.cart = call[o].cart /\ moved.row = call[o].row
  BY <1>1 DEF Call, Places
<1>3. call' = [call EXCEPT ![o] = moved]
  BY <1>1
<1> HIDE DEF moved
<1>4. QED
  BY <1>1, <1>2, <1>3 DEF CallMoved, StoreTypeOK

\* The backend's steps on a call, seen from the call.
LEMMA BackendMoves ==
    ASSUME StoreTypeOK, NEW o \in Order
    PROVE  /\ HandleCheckout(o) => CallMoved(o, "flushed") /\ call[o].at = "open"
           /\ RefuseCheckout(o) => CallMoved(o, "refused") /\ call[o].at = "open"
           /\ CommitCheckout(o) => CallMoved(o, "committed") /\ call[o].at = "flushed"
           /\ DropCheckout(o) => CallMoved(o, "dropped") /\ call[o].at \in {"open", "flushed"}
<1> USE DEF Places
<1>1. HandleCheckout(o) => CallMoved(o, "flushed") /\ call[o].at = "open"
  BY AnswerMoves DEF HandleCheckout
<1>2. RefuseCheckout(o) => CallMoved(o, "refused") /\ call[o].at = "open"
  BY AnswerMoves DEF RefuseCheckout
<1>3. CommitCheckout(o) => CallMoved(o, "committed") /\ call[o].at = "flushed"
  BY PlaceMoves DEF CommitCheckout
<1>4. DropCheckout(o) => CallMoved(o, "dropped") /\ call[o].at \in {"open", "flushed"}
  BY PlaceMoves DEF DropCheckout
<1>5. QED
  BY <1>1, <1>2, <1>3, <1>4

\* A request that ends leaves its worker idle, and the others at their work.
Ended(w) ==
    /\ Busy(w)
    /\ work' = [work EXCEPT ![w] = Idle]

\* Which steps end a request, and which of them save the session.
LEMMA WorkerEnds ==
    ASSUME NEW w \in Worker,
           \/ EditSession(w) \/ TurnBack(w) \/ Confirm(w)
           \/ ShowNoStock(w) \/ ShowFailure(w) \/ KillWorker(w)
    PROVE  /\ Ended(w)
           /\ UNCHANGED <<vars, active, call>>
           /\ \/ EditSession(w) /\ saves' = saves + 1 /\ told' = told
              \/ Confirm(w) /\ saves' = saves + 1
              \/ UNCHANGED <<session, saves>> /\ (told' = told \/ work[w].at = "waiting")
BY DEF EditSession, TurnBack, Confirm, ShowNoStock, ShowFailure, KillWorker, Answered,
       SaveSession, EndUnsaved, Ended, Busy

-----------------------------------------------------------------------------
(***************************************************************************)
(* The backend behind the storefront is OrderFlow's.                       *)
(***************************************************************************)

\* What a flushed call was promised is all that POST /orders/checkout asks for.
LEMMA CommitIsCheckout ==
    ASSUME StoreInv, NEW o \in Order, CommitCheckout(o)
    PROVE  Next
<1>1. call[o].cart \in Cart /\ call[o].at = "flushed"
  BY DEF CommitCheckout, StoreInv, CallsSound
<1>2. ASSUME NEW p \in Product
      PROVE  Available(p, call[o].cart[p])
  <2>1. call[o].cart[p] \in 0..MaxQty
    BY <1>1 DEF Cart
  <2>2. CASE call[o].cart[p] > 0
    BY <1>1, <2>2 DEF StoreInv, FlushedSound
  <2>3. CASE call[o].cart[p] = 0
    <3>1. /\ reserved[p] <= onHand[p] /\ reserved[p] \in Nat /\ onHand[p] \in Nat
      BY DEF StoreInv, StockInv, StockSound, StockExact, NoOversell, TypeOK
    <3>2. QED
      BY <2>3, <3>1 DEF Available
  <2>4. QED
    BY <2>1, <2>2, <2>3, OrderFlowAssumption
<1>3. PICK outcome \in GatewayOutcome : Checkout(o, call[o].cart, outcome)
  BY <1>2 DEF CommitCheckout, Checkout
<1>4. QED
  BY <1>1, <1>3 DEF Next

\* Every step of the storefront is a step of OrderFlow, or none of its.
LEMMA StoreStepIsOrderStep ==
    ASSUME StoreInv, [StoreNext]_allVars
    PROVE  [Next]_vars
<1>1. ASSUME NEW w \in Worker,
             \/ \E r \in VisitorInput : StartRequest(w, r)
             \/ WorkerStep(w)
             \/ KillWorker(w)
      PROVE  UNCHANGED vars
  BY <1>1 DEF StartRequest, WorkerStep, EditSession, TurnBack, SendCheckout, Confirm, ShowNoStock,
              ShowFailure, KillWorker, EndUnsaved
<1>2. ASSUME NEW o \in Order, BackendStep(o) \/ DropCheckout(o)
      PROVE  [Next]_vars
  BY <1>2, CommitIsCheckout DEF BackendStep, HandleCheckout, RefuseCheckout, DropCheckout
<1>3. ASSUME NEW o \in Order, NEW new \in Reversing, StaffReverse(o, new)
      PROVE  Next
  <2>1. new \in OrderStatus
    BY DEF Reversing, OrderStatus
  <2>2. QED
    BY <1>3, <2>1 DEF StaffReverse, Next
<1>4. ASSUME NEW p \in Product, NEW delta \in -MaxStock..MaxStock, StaffAdjust(p, delta)
      PROVE  Next
  BY <1>4 DEF StaffAdjust, Next
<1>5. ASSUME NEW p \in Product, SetActive(p)
      PROVE  UNCHANGED vars
  BY <1>5 DEF SetActive
<1>6. CASE UNCHANGED allVars
  BY <1>6 DEF allVars
<1>7. CASE StoreNext
  BY <1>7, <1>1, <1>2, <1>3, <1>4, <1>5 DEF StoreNext
<1>8. QED
  BY <1>6, <1>7

-----------------------------------------------------------------------------
(***************************************************************************)
(* Types.                                                                  *)
(***************************************************************************)

\* A cart that is edited has no line of zero or fewer units.
LEMMA WithUnitsTyped ==
    ASSUME NEW cart \in Quantity, NEW p \in Product, NEW n \in Int,
           \A q \in Product : WithUnits(cart, p, n)[q] <= MaxQty
    PROVE  WithUnits(cart, p, n) \in Quantity
<1> DEFINE edited == WithUnits(cart, p, n)
<1>1. MaxQty \in Nat
  BY OrderFlowAssumption
<1>2. edited = [cart EXCEPT ![p] = IF n <= 0 THEN 0 ELSE n]
  BY DEF WithUnits
<1>3. edited[p] = IF n <= 0 THEN 0 ELSE n
  BY <1>2 DEF Quantity
<1>4. edited[p] \in 0..MaxQty
  BY <1>1, <1>3
<1>5. QED
  BY <1>2, <1>3, <1>4 DEF Quantity

\* A cart refilled from an order is a cart while no line goes over its maximum.
LEMMA WithOrderTyped ==
    ASSUME TypeOK, NEW cart \in Quantity, NEW o \in Order,
           \A q \in Product : WithOrder(cart, o)[q] <= MaxQty
    PROVE  WithOrder(cart, o) \in Quantity
<1>1. ASSUME NEW p \in Product
      PROVE  cart[p] + items[o][p] \in 0..MaxQty
  <2>1. cart[p] \in Nat /\ items[o][p] \in Nat /\ MaxQty \in Nat
    BY OrderFlowAssumption, LeftoverNat DEF Quantity
  <2>2. cart[p] + items[o][p] <= MaxQty
    BY DEF WithOrder
  <2>3. QED
    BY <2>1, <2>2
<1>2. QED
  BY <1>1 DEF WithOrder, Quantity

\* Whatever a request makes of the session in its memory is a session.
LEMMA EditsTyped ==
    ASSUME TypeOK, NEW m \in Session, NEW r \in Input, NEW s \in Edits(m, r),
           \A p \in Product : s.cart[p] <= MaxQty
    PROVE  s \in Session
<1>1. m = [cart |-> m.cart, wishes |-> m.wishes] /\ m.cart \in Quantity /\ m.wishes \subseteq Product
  BY DEF Session
<1>2. ASSUME NEW cart, s = [m EXCEPT !.cart = cart], cart \in Quantity
      PROVE  s \in Session
  BY <1>1, <1>2 DEF Session
<1>3. ASSUME NEW cart, s = [m EXCEPT !.cart = cart]
      PROVE  s.cart = cart
  BY <1>1, <1>3
<1>4. CASE r.op = "add"
  <2>1. PICK p \in {r.p} \cap active : s = [m EXCEPT !.cart = WithUnits(m.cart, p, m.cart[p] + r.q)]
    BY <1>4 DEF Edits
  <2>2. p \in Product /\ m.cart[p] + r.q \in Int
    <3>1. p \in Product /\ r.q \in Int
      BY <1>4, <2>1, InputFields
    <3>2. m.cart[p] \in 0..MaxQty
      BY <1>1, <3>1 DEF Quantity
    <3>3. QED
      BY <3>1, <3>2, OrderFlowAssumption
  <2>3. s.cart = WithUnits(m.cart, p, m.cart[p] + r.q)
    BY <2>1, <1>3
  <2>4. QED
    BY <1>1, <1>2, <2>1, <2>2, <2>3, WithUnitsTyped
<1>5. CASE r.op = "update"
  <2>1. s = [m EXCEPT !.cart = WithUnits(m.cart, r.p, r.q)] /\ r.p \in Product /\ r.q \in Int
    BY <1>5, InputFields DEF Edits
  <2>2. s.cart = WithUnits(m.cart, r.p, r.q)
    BY <2>1, <1>3
  <2>3. QED
    BY <1>1, <1>2, <2>1, <2>2, WithUnitsTyped
<1>6. CASE r.op = "remove"
  <2>1. s = [m EXCEPT !.cart = WithUnits(m.cart, r.p, 0)] /\ r.p \in Product
    BY <1>6, InputFields DEF Edits
  <2>2. s.cart = WithUnits(m.cart, r.p, 0)
    BY <2>1, <1>3
  <2>3. QED
    BY <1>1, <1>2, <2>1, <2>2, WithUnitsTyped
<1>7. CASE r.op = "toggle"
  <2>1. s = [m EXCEPT !.wishes = ToggleWish(m.wishes, r.p)] /\ r.p \in Product
    BY <1>7, InputFields DEF Edits
  <2>2. ToggleWish(m.wishes, r.p) \subseteq Product
    BY <1>1, <2>1 DEF ToggleWish
  <2>3. QED
    BY <1>1, <2>1, <2>2 DEF Session
<1>8. CASE r.op = "reorder"
  <2>1. s = [m EXCEPT !.cart = WithOrder(m.cart, r.o)] /\ r.o \in Order
    BY <1>8, InputFields DEF Edits
  <2>2. s.cart = WithOrder(m.cart, r.o)
    BY <2>1, <1>3
  <2>3. QED
    BY <1>1, <1>2, <2>1, <2>2, WithOrderTyped
<1>9. CASE r.op = "checkout"
  BY <1>9 DEF Edits
<1>10. QED
  BY <1>4, <1>5, <1>6, <1>7, <1>8, <1>9, InputFields

\* The workers can be counted.
LEMMA BusyFinite == IsFiniteSet(BusyWorkers) /\ Cardinality(BusyWorkers) \in Nat
<1>1. IsFiniteSet(Worker) /\ BusyWorkers \subseteq Worker
  BY StorefrontAssumption DEF BusyWorkers
<1>2. QED
  BY <1>1, FS_Subset, FS_CardinalityType

\* A request that starts is one more busy worker, and holds a version of the session.
LEMMA StartTyped ==
    ASSUME StoreTypeOK, SavesSound, NEW w \in Worker, NEW r \in VisitorInput, StartRequest(w, r)
    PROVE  StoreTypeOK' /\ SavesSound'
<1> DEFINE job == [at |-> "viewing", req |-> r, mem |-> session, row |-> saves]
<1>1. job \in Work /\ job.at # "idle"
  BY DEF StoreTypeOK, Work
<1>2. work' = [work EXCEPT ![w] = job] /\ ~Busy(w)
  BY DEF StartRequest
<1>3. UNCHANGED <<active, session, saves, call, told>>
  BY DEF StartRequest
<1> HIDE DEF job
<1>4. StoreTypeOK'
  BY <1>1, <1>2, <1>3 DEF StoreTypeOK
<1>5. BusyWorkers' = BusyWorkers \cup {w} /\ w \notin BusyWorkers
  BY <1>1, <1>2 DEF StoreTypeOK, BusyWorkers, Busy
<1>6. Cardinality(BusyWorkers') = Cardinality(BusyWorkers) + 1
  BY <1>5, BusyFinite, FS_AddElement
<1>7. saves + Cardinality(BusyWorkers) < MaxSaves
  BY DEF StartRequest, SavesLeft, BusyWorkers
<1>8. saves \in Nat
  BY DEF StoreTypeOK
<1>9. QED
  BY <1>3, <1>4, <1>6, <1>7, <1>8, BusyFinite, StorefrontAssumption DEF SavesSound

\* A request that ends is one less, and may have saved the session once.
LEMMA EndTyped ==
    ASSUME StoreTypeOK, SavesSound, NEW w \in Worker, Ended(w),
           saves' \in {saves, saves + 1}, session' \in Session, UNCHANGED <<active, call>>,
           told' \in [Order -> {"nothing", "created", "no_stock", "failed", "cut"}]
    PROVE  StoreTypeOK' /\ SavesSound'
<1>1. work' = [work EXCEPT ![w] = Idle] /\ w \in BusyWorkers
  BY DEF Ended, BusyWorkers
<1>2. BusyWorkers' = BusyWorkers \ {w}
  BY <1>1 DEF StoreTypeOK, BusyWorkers, Busy, Idle
<1>3. Cardinality(BusyWorkers') = Cardinality(BusyWorkers) - 1
  BY <1>1, <1>2, BusyFinite, FS_RemoveElement
<1>4. IsFiniteSet(BusyWorkers') /\ Cardinality(BusyWorkers') \in Nat
  BY <1>2, BusyFinite, FS_RemoveElement, FS_CardinalityType
<1>5. /\ saves' \in 0..MaxSaves
      /\ saves' + Cardinality(BusyWorkers') <= MaxSaves
  <2>1. saves \in Nat /\ MaxSaves \in Nat /\ Cardinality(BusyWorkers) \in Nat
    BY BusyFinite, StorefrontAssumption DEF StoreTypeOK
  <2>2. saves + Cardinality(BusyWorkers) <= MaxSaves
    BY DEF SavesSound
  <2>3. QED
    BY <2>1, <2>2, <1>3, <1>4
<1>6. work' \in [Worker -> Work \cup {Idle}]
  BY <1>1 DEF StoreTypeOK
<1>7. QED
  BY <1>5, <1>6 DEF StoreTypeOK, SavesSound

\* What the visitor is told is one of the messages.
LEMMA TellTyped ==
    ASSUME StoreTypeOK, NEW w \in Worker,
           NEW message \in {"created", "no_stock", "failed", "cut"}, Tell(w, message)
    PROVE  told' \in [Order -> {"nothing", "created", "no_stock", "failed", "cut"}]
BY DEF StoreTypeOK, Tell

\* Every way a request ends keeps the types and leaves a save for each other worker.
LEMMA EndsTyped ==
    ASSUME TypeOK, StoreTypeOK, SavesSound, NEW w \in Worker,
           \/ EditSession(w) \/ TurnBack(w) \/ Confirm(w)
           \/ ShowNoStock(w) \/ ShowFailure(w) \/ KillWorker(w)
    PROVE  StoreTypeOK' /\ SavesSound'
<1>1. Ended(w) /\ UNCHANGED <<active, call>> /\ saves' \in {saves, saves + 1}
  BY WorkerEnds DEF vars
<1>2. told' \in [Order -> {"nothing", "created", "no_stock", "failed", "cut"}]
  <2>1. CASE EditSession(w) \/ TurnBack(w)
    BY <2>1 DEF EditSession, TurnBack, StoreTypeOK
  <2>2. CASE Confirm(w) \/ ShowNoStock(w) \/ ShowFailure(w) \/ KillWorker(w)
    BY <2>2, TellTyped DEF Confirm, ShowNoStock, ShowFailure, KillWorker, EndUnsaved
  <2>3. QED
    BY <2>1, <2>2
<1>3. session' \in Session
  <2>1. work[w].mem \in Session /\ work[w].req \in Input
    BY <1>1, WorkFields DEF Ended
  <2>2. CASE EditSession(w)
    BY <2>1, <2>2, EditsTyped DEF EditSession, SaveSession
  <2>3. CASE Confirm(w)
    <3>1. EmptyCart \in Quantity
      BY OrderFlowAssumption DEF EmptyCart, Quantity
    <3>2. QED
      BY <2>1, <2>3, <3>1 DEF Confirm, SaveSession, Session
  <2>4. CASE UNCHANGED session
    BY <2>4 DEF StoreTypeOK
  <2>5. QED
    BY <2>2, <2>3, <2>4, WorkerEnds
<1>4. QED
  BY <1>1, <1>2, <1>3, EndTyped

\* A worker that sends a checkout goes on with the same request, and the call takes the
\* cart it has in memory.
LEMMA SendEffect ==
    ASSUME StoreTypeOK, NEW w \in Worker, SendCheckout(w)
    PROVE  /\ Busy(w) /\ work[w].req.op = "checkout" /\ work[w].req.o \in Order
           /\ work' \in [Worker -> Work \cup {Idle}] /\ call' \in [Order -> Call]
           /\ work'[w].at = "waiting" /\ work'[w].req = work[w].req
           /\ work'[w].mem = work[w].mem /\ work'[w].row = work[w].row
           /\ \A v \in Worker : v # w => work'[v] = work[v]
           /\ call'[work[w].req.o].at = "open"
           /\ call'[work[w].req.o].cart = work[w].mem.cart
           /\ call'[work[w].req.o].row = work[w].row
           /\ call'[work[w].req.o].cart \in Cart
           /\ \A q \in Order : q # work[w].req.o => call'[q] = call[q]
<1>1. Busy(w) /\ work[w].req.op = "checkout" /\ work[w].at = "viewing"
  BY DEF SendCheckout, Busy
<1>2. /\ work[w] \in Work /\ work[w].mem \in Session /\ work[w].row \in 0..MaxSaves
      /\ work[w].req \in Input
  BY <1>1, WorkFields
<1>3. PICK o \in Order : o = work[w].req.o
  BY <1>1, <1>2, InputFields
<1> DEFINE job == [work[w] EXCEPT !.at = "waiting"]
           sent == [at |-> "open", cart |-> work[w].mem.cart, row |-> work[w].row,
                    answer |-> "none"]
<1>4. /\ job \in Work /\ job.at = "waiting" /\ job.req = work[w].req
      /\ job.mem = work[w].mem /\ job.row = work[w].row
  BY <1>2 DEF Work
<1>5. work[w].mem.cart \in Quantity
  BY <1>2 DEF Session
<1>6. /\ sent \in Call /\ sent.at = "open" /\ sent.cart = work[w].mem.cart
      /\ sent.row = work[w].row
  BY <1>2, <1>5 DEF Call
<1>7. work[w].mem.cart \in Cart
  <2>1. CartLines(work[w].mem.cart) # {}
    BY DEF SendCheckout, MayCheckOut
  <2>2. work[w].mem.cart # EmptyCart
    BY <2>1 DEF CartLines, EmptyCart
  <2>3. QED
    BY <1>5, <2>2 DEF Cart, Quantity
<1>8. work' = [work EXCEPT ![w] = job] /\ call' = [call EXCEPT ![o] = sent]
  BY <1>3 DEF SendCheckout, StoreTypeOK
<1> HIDE DEF job, sent
<1>9. QED
  BY <1>1, <1>3, <1>4, <1>6, <1>7, <1>8 DEF StoreTypeOK

\* A checkout that is sent leaves the types and the saved versions as they are.
LEMMA SendTyped ==
    ASSUME StoreTypeOK, SavesSound, NEW w \in Worker, SendCheckout(w)
    PROVE  StoreTypeOK' /\ SavesSound'
<1>1. StoreTypeOK'
  BY SendEffect DEF SendCheckout, StoreTypeOK
<1>2. BusyWorkers' = BusyWorkers
  BY SendEffect DEF BusyWorkers, Busy
<1>3. saves' = saves
  BY DEF SendCheckout
<1>4. QED
  BY <1>1, <1>2, <1>3 DEF SavesSound

\* The types, step by step.
LEMMA StoreTypeStep ==
    ASSUME StoreInv, [StoreNext]_allVars
    PROVE  StoreTypeOK' /\ SavesSound'
<1>t. TypeOK /\ StoreTypeOK /\ SavesSound
  BY DEF StoreInv, StockInv, StockSound
<1>1. ASSUME UNCHANGED <<session, saves, work, told>>, active' \subseteq Product,
             call' \in [Order -> Call]
      PROVE  StoreTypeOK' /\ SavesSound'
  BY <1>1, <1>t DEF StoreTypeOK, SavesSound, BusyWorkers, Busy
<1>2. ASSUME NEW w \in Worker, WorkerStep(w) \/ KillWorker(w)
      PROVE  StoreTypeOK' /\ SavesSound'
  BY <1>2, <1>t, EndsTyped, SendTyped DEF WorkerStep
<1>3. ASSUME NEW o \in Order, BackendStep(o) \/ DropCheckout(o)
      PROVE  StoreTypeOK' /\ SavesSound'
  <2>1. active' = active /\ BackendOnly
    BY <1>3 DEF BackendStep, HandleCheckout, RefuseCheckout, CommitCheckout, DropCheckout
  <2>2. call' \in [Order -> Call]
    BY <1>3, <1>t, BackendMoves DEF BackendStep, CallMoved
  <2>3. QED
    BY <1>1, <1>t, <2>1, <2>2 DEF BackendOnly, StoreTypeOK
<1>4. ASSUME NEW o \in Order, NEW new \in Reversing, StaffReverse(o, new)
      PROVE  StoreTypeOK' /\ SavesSound'
  BY <1>1, <1>4, <1>t DEF StaffReverse, BackendOnly, StoreTypeOK
<1>5. ASSUME NEW p \in Product, SetActive(p) \/ \E delta \in -MaxStock..MaxStock : StaffAdjust(p, delta)
      PROVE  StoreTypeOK' /\ SavesSound'
  BY <1>1, <1>5, <1>t DEF SetActive, StaffAdjust, BackendOnly, StoreTypeOK
<1>6. CASE UNCHANGED allVars
  BY <1>1, <1>6, <1>t DEF allVars, storeVars, StoreTypeOK
<1>7. CASE StoreNext
  BY <1>7, <1>2, <1>3, <1>4, <1>5, <1>t, StartTyped DEF StoreNext
<1>8. QED
  BY <1>6, <1>7

-----------------------------------------------------------------------------
(***************************************************************************)
(* The calls: their carts, and what the flushed ones hold.                 *)
(***************************************************************************)

\* A call that moves on keeps its cart, and only an open one becomes flushed.
LEMMA CallsStep ==
    ASSUME StoreInv, [StoreNext]_allVars
    PROVE  CallsSound'
<1>t. StoreTypeOK /\ CallsSound
  BY DEF StoreInv
<1>1. ASSUME UNCHANGED <<work, call>>
      PROVE  CallsSound'
  BY <1>1, <1>t DEF CallsSound
<1>2. ASSUME NEW o \in Order, NEW at, CallMoved(o, at), call[o].at # "unsent", UNCHANGED work
      PROVE  CallsSound'
  BY <1>2, <1>t DEF CallsSound, CallMoved
<1>3. ASSUME NEW w \in Worker, NEW job, job.at # "waiting", work' = [work EXCEPT ![w] = job],
             UNCHANGED call
      PROVE  CallsSound'
  BY <1>3, <1>t DEF CallsSound, StoreTypeOK
<1>4. ASSUME NEW w \in Worker, SendCheckout(w)
      PROVE  CallsSound'
  BY <1>4, <1>t, SendEffect DEF CallsSound
<1>5. ASSUME NEW w \in Worker, NEW r \in VisitorInput, StartRequest(w, r)
      PROVE  CallsSound'
  BY <1>3, <1>5 DEF StartRequest
<1>6. ASSUME NEW w \in Worker,
             \/ EditSession(w) \/ TurnBack(w) \/ Confirm(w)
             \/ ShowNoStock(w) \/ ShowFailure(w) \/ KillWorker(w)
      PROVE  CallsSound'
  BY <1>3, <1>6, WorkerEnds DEF Ended, Idle, vars
<1>7. ASSUME NEW o \in Order, BackendStep(o) \/ DropCheckout(o)
      PROVE  CallsSound'
  <2>1. UNCHANGED work
    BY <1>7 DEF BackendStep, HandleCheckout, RefuseCheckout, CommitCheckout, DropCheckout, BackendOnly
  <2>2. QED
    BY <1>2, <1>7, <1>t, <2>1, BackendMoves DEF BackendStep
<1>8. ASSUME NEW o \in Order, NEW new \in Reversing, StaffReverse(o, new)
      PROVE  CallsSound'
  BY <1>1, <1>8 DEF StaffReverse, BackendOnly
<1>9. ASSUME NEW p \in Product, SetActive(p) \/ \E delta \in -MaxStock..MaxStock : StaffAdjust(p, delta)
      PROVE  CallsSound'
  BY <1>1, <1>9 DEF SetActive, StaffAdjust, BackendOnly
<1>10. CASE UNCHANGED allVars
  BY <1>1, <1>10 DEF allVars, storeVars
<1>11. CASE StoreNext
  BY <1>11, <1>4, <1>5, <1>6, <1>7, <1>8, <1>9 DEF StoreNext, WorkerStep
<1>12. QED
  BY <1>10, <1>11

\* What was promised to the flushed calls is still there after a step that flushes none
\* and takes nothing from the stock of their lines.
LEMMA FlushedStay ==
    ASSUME FlushedSound,
           \A o \in Order : call'[o].at = "flushed" => call'[o] = call[o],
           \A o \in Order, p \in Product :
              call'[o].at = "flushed" /\ call[o].cart[p] > 0
                /\ Available(p, call[o].cart[p]) => Available(p, call[o].cart[p])'
    PROVE  FlushedSound'
<1>1. ASSUME NEW o \in Order, call'[o].at = "flushed"
      PROVE  /\ \A p \in Product : call'[o].cart[p] > 0 => Available(p, call[o].cart[p])'
             /\ \A q \in Order : \A p \in Product :
                   q # o /\ call'[q].at = "flushed" => call'[o].cart[p] = 0 \/ call'[q].cart[p] = 0
  <2>1. call'[o] = call[o]
    BY <1>1
  <2>2. ASSUME NEW p \in Product, call'[o].cart[p] > 0
        PROVE  Available(p, call[o].cart[p])'
    <3>1. Available(p, call[o].cart[p])
      BY <1>1, <2>1, <2>2 DEF FlushedSound
    <3>2. QED
      BY <1>1, <2>1, <2>2, <3>1
  <2>3. QED
    BY <1>1, <2>1, <2>2 DEF FlushedSound
<1>2. QED
  BY <1>1 DEF FlushedSound

\* A call is flushed on what is available, on lines no other flushed call has.
LEMMA HandleFlushes ==
    ASSUME StoreInv, NEW o \in Order, HandleCheckout(o)
    PROVE  FlushedSound'
<1>1. /\ CallMoved(o, "flushed")
      /\ call[o].at = "open" /\ call[o].cart \in Cart
      /\ UNCHANGED <<onHand, reserved>>
  BY BackendMoves DEF StoreInv, CallsSound, HandleCheckout, vars
<1>2. ASSUME NEW p \in Product, call[o].cart[p] > 0
      PROVE  /\ Available(p, call[o].cart[p])
             /\ \A q \in Order : call[q].at = "flushed" => call[q].cart[p] = 0
  BY <1>2 DEF HandleCheckout, CartLines, Unlocked
<1>3. \A p \in Product : call[o].cart[p] > 0 \/ call[o].cart[p] = 0
  BY <1>1, OrderFlowAssumption DEF Cart
<1>4. QED
  BY <1>1, <1>2, <1>3 DEF FlushedSound, StoreInv, CallMoved, Available

\* The commit of one flushed call reserves nothing on the lines of another.
LEMMA CommitKeepsFlushed ==
    ASSUME StoreInv, NEW o \in Order, CommitCheckout(o)
    PROVE  FlushedSound'
<1>1. /\ CallMoved(o, "committed") /\ call[o].at = "flushed" /\ call[o].cart \in Cart
      /\ UNCHANGED onHand /\ Reserve(call[o].cart)
  BY BackendMoves DEF StoreInv, CallsSound, CommitCheckout, WriteCheckout
<1>2. ASSUME NEW q \in Order, NEW p \in Product, call'[q].at = "flushed", call[q].cart[p] > 0
      PROVE  reserved'[p] = reserved[p]
  <2>1. q # o /\ call[q].at = "flushed"
    BY <1>1, <1>2 DEF CallMoved
  <2>2. call[o].cart[p] = 0
    BY <1>1, <1>2, <2>1 DEF StoreInv, FlushedSound
  <2>3. reserved[p] \in Nat
    BY DEF StoreInv, StockInv, StockSound, TypeOK
  <2>4. QED
    BY <1>1, <2>2, <2>3 DEF Reserve
<1>3. \A q \in Order, p \in Product :
         call'[q].at = "flushed" /\ call[q].cart[p] > 0 /\ Available(p, call[q].cart[p])
            => Available(p, call[q].cart[p])'
  BY <1>1, <1>2 DEF CallMoved, Available
<1>4. \A q \in Order : call'[q].at = "flushed" => call'[q] = call[q]
  BY <1>1 DEF CallMoved
<1>5. QED
  BY <1>3, <1>4, FlushedStay DEF StoreInv

\* Staff who change the stock of a product wait for the calls that hold it.
LEMMA AdjustKeepsFlushed ==
    ASSUME StoreInv, NEW p \in Product, NEW delta \in -MaxStock..MaxStock, StaffAdjust(p, delta)
    PROVE  FlushedSound'
<1>1. UNCHANGED <<call, reserved>> /\ \A q \in Product : q # p => onHand'[q] = onHand[q]
  BY DEF StaffAdjust, AdjustStock, WriteStock, StoreInv, StockInv, StockSound, TypeOK
<1>2. \A o \in Order : call[o].at = "flushed" => call[o].cart[p] = 0
  BY DEF StaffAdjust, Unlocked
<1>3. \A o \in Order, q \in Product :
         call'[o].at = "flushed" /\ call[o].cart[q] > 0 /\ Available(q, call[o].cart[q])
            => Available(q, call[o].cart[q])'
  BY <1>1, <1>2 DEF Available
<1>4. QED
  BY <1>1, <1>3, FlushedStay DEF StoreInv

\* A reversal gives units back.
LEMMA ReverseKeepsFlushed ==
    ASSUME StoreInv, NEW o \in Order, NEW new \in Reversing, StaffReverse(o, new)
    PROVE  FlushedSound'
<1>1. UNCHANGED <<call, onHand>> /\ Release(o)
  BY DEF StaffReverse, TransitionStatus, WriteTransition
<1>2. ASSUME NEW p \in Product
      PROVE  reserved'[p] \in Nat /\ reserved[p] \in Nat /\ onHand[p] \in Nat
             /\ reserved'[p] <= reserved[p]
  <2>1. reserved[p] \in Nat /\ onHand[p] \in Nat /\ items[o][p] \in Nat
    BY LeftoverNat DEF StoreInv, StockInv, StockSound, TypeOK
  <2>2. reserved'[p] = Monus(reserved[p], items[o][p])
    BY <1>1 DEF Release
  <2>3. QED
    BY <2>1, <2>2 DEF Monus
<1>3. \A q \in Order : call[q].at = "flushed" => call[q].cart \in [Product -> 0..MaxQty]
  BY DEF StoreInv, CallsSound, Cart
<1>4. ASSUME NEW q \in Order, NEW p \in Product, call[q].at = "flushed",
             Available(p, call[q].cart[p])
      PROVE  Available(p, call[q].cart[p])'
  <2>1. call[q].cart[p] \in Nat
    BY <1>3, <1>4, OrderFlowAssumption
  <2>2. QED
    BY <1>1, <1>2, <1>4, <2>1 DEF Available
<1>5. QED
  BY <1>1, <1>4, FlushedStay DEF StoreInv

\* The other steps leave stock and flushed calls alone.
LEMMA FlushedStep ==
    ASSUME StoreInv, [StoreNext]_allVars
    PROVE  FlushedSound'
<1>t. StoreTypeOK /\ FlushedSound
  BY DEF StoreInv
<1>1. ASSUME UNCHANGED <<onHand, reserved>>,
             \A o \in Order : call'[o].at = "flushed" => call'[o] = call[o]
      PROVE  FlushedSound'
  BY <1>1, <1>t, FlushedStay DEF Available
<1>2. ASSUME NEW w \in Worker, SendCheckout(w)
      PROVE  FlushedSound'
  <2>1. \A o \in Order : call'[o].at = "flushed" => call'[o] = call[o]
    BY <1>2, <1>t, SendEffect
  <2>2. QED
    BY <1>1, <1>2, <2>1 DEF SendCheckout, vars
<1>3. ASSUME NEW w \in Worker, NEW r \in VisitorInput, StartRequest(w, r)
      PROVE  FlushedSound'
  BY <1>1, <1>3 DEF StartRequest, vars
<1>4. ASSUME NEW w \in Worker,
             \/ EditSession(w) \/ TurnBack(w) \/ Confirm(w)
             \/ ShowNoStock(w) \/ ShowFailure(w) \/ KillWorker(w)
      PROVE  FlushedSound'
  BY <1>1, <1>4, WorkerEnds DEF vars
<1>5. ASSUME NEW o \in Order, RefuseCheckout(o) \/ DropCheckout(o)
      PROVE  FlushedSound'
  <2>1. \A q \in Order : call'[q].at = "flushed" => call'[q] = call[q]
    BY <1>5, <1>t, BackendMoves DEF CallMoved
  <2>2. QED
    BY <1>1, <1>5, <2>1 DEF RefuseCheckout, DropCheckout, vars
<1>6. ASSUME NEW p \in Product, SetActive(p)
      PROVE  FlushedSound'
  BY <1>1, <1>6 DEF SetActive, vars
<1>7. CASE UNCHANGED allVars
  BY <1>1, <1>7 DEF allVars, storeVars, vars
<1>8. CASE StoreNext
  BY <1>8, <1>2, <1>3, <1>4, <1>5, <1>6, HandleFlushes, CommitKeepsFlushed, AdjustKeepsFlushed,
     ReverseKeepsFlushed DEF StoreNext, WorkerStep, BackendStep
<1>9. QED
  BY <1>7, <1>8

-----------------------------------------------------------------------------
(***************************************************************************)
(* For any number of workers.                                              *)
(***************************************************************************)
\* The empty shop, with a new session, satisfies the invariant.
LEMMA StoreStart ==
    ASSUME Init, StoreInit
    PROVE  StoreInv
<1>1. StockInv
  BY StockInit
<1>2. EmptyCart \in Quantity
  BY OrderFlowAssumption DEF EmptyCart, Quantity
<1>3. Unsent \in Call /\ Unsent.at = "unsent" /\ NewSession \in Session /\ Idle.at = "idle"
  BY <1>2, StorefrontAssumption DEF Unsent, Call, NewSession, Session, Idle
<1>4. StoreTypeOK
  BY <1>3, StorefrontAssumption DEF StoreInit, StoreTypeOK
<1>5. BusyWorkers = {}
  BY <1>3 DEF StoreInit, BusyWorkers, Busy
<1>6. SavesSound
  BY <1>5, FS_EmptySet, StorefrontAssumption DEF SavesSound, StoreInit
<1>7. CallsSound /\ FlushedSound
  BY <1>3 DEF StoreInit, CallsSound, FlushedSound
<1>8. QED
  BY <1>1, <1>4, <1>6, <1>7 DEF StoreInv

\* Every step keeps the invariant.
LEMMA StoreStep ==
    ASSUME StoreInv, [StoreNext]_allVars
    PROVE  StoreInv'
<1>1. StockInv'
  BY StoreStepIsOrderStep, StockStep DEF StoreInv
<1>2. QED
  BY <1>1, StoreTypeStep, CallsStep, FlushedStep DEF StoreInv

\* The invariant of the storefront and its calls.
THEOREM StoreInvariant == StoreSpec => []StoreInv
<1>1. Init /\ StoreInit => StoreInv
  BY StoreStart
<1>2. StoreInv /\ [StoreNext]_allVars => StoreInv'
  BY StoreStep
<1>3. QED
  BY <1>1, <1>2, PTL DEF StoreSpec

\* The cart has no line of zero or fewer units, and the rest has its type, whichever
\* requests of however many workers overwrite each other's session.
THEOREM StoreTyped == StoreSpec => []StoreTypeOK
<1>1. StoreInv => StoreTypeOK
  BY DEF StoreInv
<1>2. QED
  BY <1>1, StoreInvariant, PTL

\* The backend behind the storefront implements OrderFlow: a checkout that was answered
\* before its commit is still a whole checkout when it commits.
THEOREM StoreKeepsOrders == StoreSpec => OrdersAsPromised
<1>1. Init /\ StoreInit => Init
  OBVIOUS
<1>2. StoreInv /\ [StoreNext]_allVars => [Next]_vars
  BY StoreStepIsOrderStep
<1>3. QED
  BY <1>1, <1>2, StoreInvariant, PTL DEF StoreSpec, OrdersAsPromised, Spec

-----------------------------------------------------------------------------
(***************************************************************************)
(* For one worker, as the image of the storefront has.                     *)
(***************************************************************************)
OneWorker == \A v, w \in Worker : v = w

\* A worker that waits is checking out one order.
LEMMA WaitingFor ==
    ASSUME StoreInv, NEW w \in Worker, Busy(w), work[w].req.op = "checkout"
    PROVE  /\ work[w].req.o \in Order
           /\ CheckingOut(w, work[w].req.o)
           /\ \A o \in Order : CheckingOut(w, o) => o = work[w].req.o
<1>1. work[w].req \in Input
  BY WorkFields DEF StoreInv
<1>2. work[w].req = [op |-> "checkout", o |-> work[w].req.o] /\ work[w].req.o \in Order
  BY <1>1, InputFields
<1>3. ASSUME NEW o \in Order, work[w].req = [op |-> "checkout", o |-> o]
      PROVE  o = work[w].req.o
  BY <1>3
<1>4. QED
  BY <1>2, <1>3 DEF CheckingOut

\* A step of the backend, or of staff, on calls that were sent.
LEMMA OneKept ==
    ASSUME StoreInv, OneAtATime, UNCHANGED <<session, saves, work, told>>,
           \A o \in Order :
              /\ call[o].at = "unsent" <=> call'[o].at = "unsent"
              /\ call'[o].row = call[o].row /\ call'[o].cart = call[o].cart
    PROVE  OneAtATime'
BY DEF OneAtATime, OneOrderPerCart, CheckingOut, Busy

\* A request starts on the stored session.
LEMMA OneStarts ==
    ASSUME StoreInv, OneAtATime, OneWorker,
           NEW w \in Worker, NEW r \in VisitorInput, StartRequest(w, r)
    PROVE  OneAtATime'
<1>1. /\ work'[w] = [at |-> "viewing", req |-> r, mem |-> session, row |-> saves]
      /\ UNCHANGED <<session, saves, call, told>>
  BY DEF StartRequest, StoreInv, StoreTypeOK
<1>2. /\ work'[w].at = "viewing" /\ work'[w].req = r
      /\ work'[w].mem = session /\ work'[w].row = saves
  BY <1>1
<1>3. ASSUME NEW o \in Order, r = [op |-> "checkout", o |-> o]
      PROVE  call[o].at = "unsent" /\ told[o] = "nothing"
  <2>1. r.op = "checkout" /\ r.o = o
    BY <1>3
  <2>2. QED
    BY <2>1 DEF StartRequest, OneAtATime
<1>4. \A v \in Worker : \A o \in Order : CheckingOut(v, o)' =>
          told[o] = "nothing" /\ call[o].at = "unsent"
  BY <1>2, <1>3 DEF OneWorker, CheckingOut
<1>5. QED
  BY <1>1, <1>2, <1>4 DEF OneAtATime, OneOrderPerCart, OneWorker

\* A checkout is sent with the cart of the stored session.
LEMMA OneSends ==
    ASSUME StoreInv, OneAtATime, OneWorker, NEW w \in Worker, SendCheckout(w)
    PROVE  OneAtATime'
<1>1. StoreTypeOK
  BY DEF StoreInv
<1>2. PICK o \in Order : o = work[w].req.o
  BY <1>1, SendEffect
<1>3. /\ Busy(w) /\ CheckingOut(w, o)
      /\ \A q \in Order : CheckingOut(w, q)' => q = o
  <2>1. Busy(w) /\ work[w].req.op = "checkout" /\ work'[w].req = work[w].req
    BY <1>1, SendEffect
  <2>2. QED
    BY <1>2, <2>1, WaitingFor DEF CheckingOut
<1>4. /\ work[w].at = "viewing" /\ UNCHANGED <<session, saves, told>>
  BY DEF SendCheckout
<1>5. told[o] = "nothing" /\ work[w].mem = session /\ work[w].row = saves
  BY <1>3 DEF OneAtATime
<1>6. /\ call'[o].at = "open" /\ call'[o].cart = session.cart /\ call'[o].row = saves
      /\ \A q \in Order : q # o => call'[q] = call[q]
      /\ work'[w].at = "waiting" /\ work'[w].mem = session /\ work'[w].row = saves
  BY <1>1, <1>2, <1>5, SendEffect
<1>7. \A q \in Order : told[q] = "created" => q # o
  BY <1>5
<1>8. QED
  BY <1>3, <1>4, <1>5, <1>6, <1>7 DEF OneAtATime, OneOrderPerCart, OneWorker

\* No request is being served once the only worker has ended its own.
LEMMA NobodyBusy ==
    ASSUME StoreInv, OneWorker, NEW w \in Worker, Ended(w)
    PROVE  \A v \in Worker : ~Busy(v)'
BY DEF OneWorker, Ended, Busy, Idle, StoreInv, StoreTypeOK

\* A request that edits the session ends its version; nobody is told anything.
LEMMA OneEdits ==
    ASSUME StoreInv, OneAtATime, OneWorker, NEW w \in Worker, EditSession(w)
    PROVE  OneAtATime'
<1>1. Ended(w) /\ saves' = saves + 1 /\ UNCHANGED <<call, told>>
  BY DEF EditSession, SaveSession, Ended, Busy
<1>2. saves \in Nat /\ \A o \in Order : call[o].row \in Nat
  BY DEF StoreInv, StoreTypeOK, Call
<1>3. \A v \in Worker : ~Busy(v)'
  BY <1>1, NobodyBusy
<1>4. \A o \in Order : told[o] = "created" => call[o].row < saves'
  BY <1>1, <1>2 DEF OneAtATime
<1>5. QED
  BY <1>1, <1>3, <1>4 DEF OneAtATime, OneOrderPerCart, CheckingOut

\* A confirmation is the first for its version of the session, and ends it.
LEMMA OneConfirms ==
    ASSUME StoreInv, OneAtATime, OneWorker, NEW w \in Worker, Confirm(w)
    PROVE  OneAtATime'
<1>1. Ended(w) /\ saves' = saves + 1 /\ UNCHANGED call /\ work[w].at = "waiting" /\ Busy(w)
  BY DEF Confirm, SaveSession, Ended, Busy, Answered
<1>2. saves \in Nat /\ \A o \in Order : call[o].row \in Nat
  BY DEF StoreInv, StoreTypeOK, Call
<1>3. PICK o \in Order : o = work[w].req.o /\ CheckingOut(w, o)
  BY <1>1, WaitingFor DEF StoreInv, CallsSound
<1>4. call[o].at # "unsent" /\ call[o].row = saves
  BY <1>1, <1>3 DEF OneAtATime
<1>5. \A q \in Order : told'[q] = IF q = o THEN "created" ELSE told[q]
  BY <1>3 DEF Confirm, Tell, StoreInv, StoreTypeOK
<1>6. \A v \in Worker : ~Busy(v)'
  BY <1>1, NobodyBusy
<1>7. \A q \in Order : told'[q] = "created" => call[q].at # "unsent" /\ call[q].row < saves'
  BY <1>1, <1>2, <1>4, <1>5 DEF OneAtATime
<1>8. \A q \in Order : q # o /\ told'[q] = "created" => call[q].row # saves
  BY <1>2, <1>5 DEF OneAtATime
<1>9. OneOrderPerCart'
  BY <1>1, <1>4, <1>5, <1>8 DEF OneAtATime, OneOrderPerCart
<1>10. QED
  BY <1>1, <1>4, <1>5, <1>6, <1>7, <1>9 DEF OneAtATime, CheckingOut

\* Any other end of a request leaves the session, and confirms nothing.
LEMMA OneFails ==
    ASSUME StoreInv, OneAtATime, OneWorker, NEW w \in Worker,
           TurnBack(w) \/ ShowNoStock(w) \/ ShowFailure(w) \/ KillWorker(w)
    PROVE  OneAtATime'
<1>1. Ended(w) /\ UNCHANGED <<call, saves, session>>
  BY DEF TurnBack, ShowNoStock, ShowFailure, KillWorker, EndUnsaved, Answered, Ended, Busy
<1>2. \A v \in Worker : ~Busy(v)'
  BY <1>1, NobodyBusy
<1>3. ASSUME NEW q \in Order
      PROVE  told'[q] = told[q] \/ (told'[q] # "created" /\ call[q].at # "unsent")
  <2>1. CASE TurnBack(w)
    BY <2>1 DEF TurnBack
  <2>2. CASE ShowNoStock(w) \/ ShowFailure(w) \/ KillWorker(w)
    <3>1. Busy(w) /\ work[w].at = "waiting"
      BY <2>2 DEF ShowNoStock, ShowFailure, KillWorker, Answered, Busy
    <3>2. PICK o \in Order : o = work[w].req.o /\ CheckingOut(w, o)
      BY <3>1, WaitingFor DEF StoreInv, CallsSound
    <3>3. call[o].at # "unsent"
      BY <3>1, <3>2 DEF OneAtATime
    <3>4. PICK message \in {"no_stock", "failed", "cut"} : told' = [told EXCEPT ![o] = message]
      BY <2>2, <3>2 DEF ShowNoStock, ShowFailure, KillWorker, EndUnsaved, Tell
    <3>5. QED
      BY <3>3, <3>4 DEF StoreInv, StoreTypeOK
  <2>3. QED
    BY <2>1, <2>2
<1>4. QED
  BY <1>1, <1>2, <1>3 DEF OneAtATime, OneOrderPerCart, CheckingOut

\* Nobody but the worker changes the session or what the visitor was told.
LEMMA OneStep ==
    ASSUME StoreInv, OneAtATime, OneWorker, [StoreNext]_allVars
    PROVE  OneAtATime'
<1>1. ASSUME NEW o \in Order, BackendStep(o) \/ DropCheckout(o)
      PROVE  OneAtATime'
  <2>1. UNCHANGED <<session, saves, work, told>>
    BY <1>1 DEF BackendStep, HandleCheckout, RefuseCheckout, CommitCheckout, DropCheckout, BackendOnly
  <2>2. PICK at \in {"flushed", "refused", "committed", "dropped"} :
            CallMoved(o, at) /\ call[o].at # "unsent"
    BY <1>1, BackendMoves DEF BackendStep, StoreInv
  <2>3. QED
    BY <2>1, <2>2, OneKept DEF CallMoved
<1>2. ASSUME UNCHANGED <<session, saves, work, told, call>>
      PROVE  OneAtATime'
  BY <1>2, OneKept
<1>3. ASSUME NEW o \in Order, NEW new \in Reversing, StaffReverse(o, new)
      PROVE  OneAtATime'
  BY <1>2, <1>3 DEF StaffReverse, BackendOnly
<1>4. ASSUME NEW p \in Product, SetActive(p) \/ \E delta \in -MaxStock..MaxStock : StaffAdjust(p, delta)
      PROVE  OneAtATime'
  BY <1>2, <1>4 DEF SetActive, StaffAdjust, BackendOnly
<1>5. CASE UNCHANGED allVars
  BY <1>2, <1>5 DEF allVars, storeVars
<1>6. CASE StoreNext
  BY <1>6, <1>1, <1>3, <1>4, OneStarts, OneSends, OneEdits, OneConfirms, OneFails
     DEF StoreNext, WorkerStep
<1>7. QED
  BY <1>5, <1>6

\* At the start no request is served.
LEMMA OneStart ==
    ASSUME Init, StoreInit
    PROVE  OneAtATime
BY DEF StoreInit, Unsent, Idle, OneAtATime, OneOrderPerCart, CheckingOut, Busy

\* With one worker, no version of the session is saved over by a request that began
\* before it, and a version that was confirmed is never checked out again.
THEOREM OneRequestAtATime ==
    ASSUME OneWorker
    PROVE  StoreSpec => []OneAtATime
<1>1. Init /\ StoreInit => OneAtATime
  BY OneStart
<1>2. StoreInv /\ OneAtATime /\ [StoreNext]_allVars => OneAtATime'
  BY OneStep, OneWorker
<1>3. QED
  BY <1>1, <1>2, StoreInvariant, PTL DEF StoreSpec

\* With one worker, a cart is confirmed as one order only, whatever is lost, refused,
\* timed out or edited in between.
THEOREM CartsBoughtOnce ==
    ASSUME OneWorker
    PROVE  StoreSpec => []OneOrderPerCart
<1>1. OneAtATime => OneOrderPerCart
  BY DEF OneAtATime
<1>2. QED
  BY <1>1, OneRequestAtATime, OneWorker, PTL

\* With one worker, a confirmation empties exactly the cart that was ordered, and every
\* other end of a checkout leaves the session as it is.
LEMMA CheckoutEnd ==
    ASSUME StoreInv, OneAtATime, OneWorker, [StoreNext]_allVars,
           NEW w \in Worker, NEW o \in Order, CheckingOut(w, o), work'[w] = Idle
    PROVE  IF told'[o] = "created"
           THEN session.cart = call[o].cart /\ session' = [session EXCEPT !.cart = EmptyCart]
           ELSE UNCHANGED session
<1>1. Busy(w) /\ work[w].req.op = "checkout" /\ o = work[w].req.o /\ work[w].mem = session
      /\ told[o] = "nothing"
  <2>1. work[w].req.op = "checkout"
    BY DEF CheckingOut
  <2>2. QED
    BY <2>1, WaitingFor DEF CheckingOut, OneAtATime
<1>2. \/ EditSession(w) \/ TurnBack(w) \/ Confirm(w)
      \/ ShowNoStock(w) \/ ShowFailure(w) \/ KillWorker(w)
  <2>1. work'[w] # work[w]
    BY <1>1 DEF Busy, Idle
  <2>2. ~SendCheckout(w) /\ \A r \in VisitorInput : ~StartRequest(w, r)
    BY <1>1, SendEffect DEF StartRequest, StoreInv, Idle
  <2>3. work' # work
    BY <2>1
  <2>4. StoreNext
    BY <2>3 DEF allVars, storeVars
  <2>5. ASSUME NEW q \in Order,
               BackendStep(q) \/ DropCheckout(q) \/ \E new \in Reversing : StaffReverse(q, new)
        PROVE  FALSE
    BY <2>3, <2>5 DEF BackendStep, HandleCheckout, RefuseCheckout, CommitCheckout, DropCheckout,
                      StaffReverse, BackendOnly
  <2>6. ASSUME NEW p \in Product,
               SetActive(p) \/ \E delta \in -MaxStock..MaxStock : StaffAdjust(p, delta)
        PROVE  FALSE
    BY <2>3, <2>6 DEF SetActive, StaffAdjust, BackendOnly
  <2>7. QED
    BY <2>2, <2>4, <2>5, <2>6 DEF StoreNext, WorkerStep, OneWorker
<1>3. ~EditSession(w)
  BY <1>1 DEF EditSession, Edits
<1>4. CASE Confirm(w)
  <2>1. session' = [session EXCEPT !.cart = EmptyCart] /\ work[w].at = "waiting"
    BY <1>1, <1>4 DEF Confirm, SaveSession, Answered
  <2>2. told'[o] = "created"
    BY <1>1, <1>4 DEF Confirm, Tell, StoreInv, StoreTypeOK
  <2>3. session.cart = call[o].cart
    BY <2>1 DEF OneAtATime
  <2>4. QED
    BY <2>1, <2>2, <2>3
<1>5. CASE TurnBack(w) \/ ShowNoStock(w) \/ ShowFailure(w) \/ KillWorker(w)
  <2>1. UNCHANGED session
    BY <1>5 DEF TurnBack, ShowNoStock, ShowFailure, KillWorker, EndUnsaved
  <2>2. told'[o] # "created"
    BY <1>1, <1>5 DEF TurnBack, ShowNoStock, ShowFailure, KillWorker, EndUnsaved, Tell,
                      StoreInv, StoreTypeOK
  <2>3. QED
    BY <2>1, <2>2
<1>6. QED
  BY <1>2, <1>3, <1>4, <1>5

\* The same of every step of every behaviour.
THEOREM ConfirmedCartIsOrdered ==
    ASSUME OneWorker
    PROVE  StoreSpec => CartBecomesOrder
<1>1. StoreInv /\ OneAtATime /\ [StoreNext]_allVars
        => [\A w \in Worker, o \in Order :
              CheckingOut(w, o) /\ work'[w] = Idle =>
                  IF told'[o] = "created"
                  THEN session.cart = call[o].cart /\ session' = [session EXCEPT !.cart = EmptyCart]
                  ELSE UNCHANGED session]_allVars
  BY CheckoutEnd, OneWorker
<1>2. QED
  BY <1>1, StoreInvariant, OneRequestAtATime, OneWorker, PTL DEF StoreSpec, CartBecomesOrder
=============================================================================

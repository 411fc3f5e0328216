-------------------------- MODULE StorefrontCheckout --------------------------
(***************************************************************************)
(* One signed-in visitor of the Django storefront, from the cart to the    *)
(* order, in front of the orders and the stock of OrderFlow.               *)
(*                                                                         *)
(* The session is one row: it is loaded when a request starts, changed in  *)
(* the memory of the worker, and saved whole when the response is ready.   *)
(* A worker that is killed, or a view that fails, saves nothing.           *)
(* A checkout is one call to POST /orders/checkout, given up after a       *)
(* timeout; the backend knows nothing of that and goes on.                 *)
(* get_db is a dependency with yield, whose exit (the commit) FastAPI runs *)
(* after the response is sent, so the answer "created" is on its way       *)
(* before the order is stored.                                             *)
(***************************************************************************)
EXTENDS OrderFlow

CONSTANTS
    Worker,      \* processes or threads of the storefront that serve this visitor
    Ops,         \* what the visitor does in this instance
    MaxSaves     \* bound: requests that may save the session row

ASSUME StorefrontAssumption == IsFiniteSet(Worker) /\ MaxSaves \in Nat

VARIABLES
    active,     \* products with is_active
    session,    \* the stored session: the cart and the wishlist
    saves,      \* how often the row has been saved: names its versions
    work,       \* the request each worker is serving
    call,       \* the checkout calls, each named by the order it would create
    told        \* what the visitor was told of each checkout

storeVars == <<active, session, saves, work, call, told>>
allVars == <<vars, storeVars>>

Quantity == [Product -> 0..MaxQty]
Session == [cart: Quantity, wishes: SUBSET Product]
NewSession == [cart |-> EmptyCart, wishes |-> {}]

Input ==
    [op: {"add", "update"}, p: Product, q: -MaxQty..MaxQty]
    \cup [op: {"remove", "toggle"}, p: Product]
    \cup [op: {"reorder", "checkout"}, o: Order]
VisitorInput == {r \in Input : r.op \in Ops}

\* row is the version of the session that was loaded, and the cart of a call comes from.
Work == [at: {"viewing", "waiting"}, req: VisitorInput, mem: Session, row: 0..MaxSaves]
Idle == [at |-> "idle"]

Call == [at: {"unsent", "open", "flushed", "committed", "refused", "dropped"},
         cart: Quantity, row: 0..MaxSaves,
         answer: {"none", "created", "conflict", "error"}]
Unsent == [at |-> "unsent", cart |-> EmptyCart, row |-> 0, answer |-> "none"]

CartLines(cart) == {p \in Product : cart[p] > 0}

Busy(w) == work[w].at # "idle"
CheckingOut(w, o) == Busy(w) /\ work[w].req = [op |-> "checkout", o |-> o]

-----------------------------------------------------------------------------
(***************************************************************************)
(* The cart: a line of zero units is a key the dict does not have.         *)
(***************************************************************************)

\* Mutant of WithUnits: keeps the line whatever its quantity.
WithAnyUnits(cart, p, n) == [cart EXCEPT ![p] = n]

\* A line that is not positive is popped.
WithUnits(cart, p, n) == [cart EXCEPT ![p] = IF n <= 0 THEN 0 ELSE n]

\* Cart.add for every line of an old order.
WithOrder(cart, o) == [p \in Product |-> cart[p] + items[o][p]]

ToggleWish(wishes, p) == IF p \in wishes THEN wishes \ {p} ELSE wishes \cup {p}

\* The session a request leaves, if its view gets as far as changing it: of the
\* three ways into the cart only cart.views.add looks at is_active.
Edits(s, r) ==
    CASE r.op = "add" ->
            {[s EXCEPT !.cart = WithUnits(@, p, @[p] + r.q)] : p \in {r.p} \cap active}
      [] r.op = "update" -> {[s EXCEPT !.cart = WithUnits(@, r.p, r.q)]}
      [] r.op = "remove" -> {[s EXCEPT !.cart = WithUnits(@, r.p, 0)]}
      [] r.op = "toggle" -> {[s EXCEPT !.wishes = ToggleWish(@, r.p)]}
      [] r.op = "reorder" -> {[s EXCEPT !.cart = WithOrder(@, r.o)]}
      [] OTHER -> {}

-----------------------------------------------------------------------------
(***************************************************************************)
(* The storefront.                                                         *)
(***************************************************************************)
StoreInit ==
    /\ active = Product
    /\ session = NewSession
    /\ saves = 0
    /\ work = [w \in Worker |-> Idle]
    /\ call = [o \in Order |-> Unsent]
    /\ told = [o \in Order |-> "nothing"]

SavesLeft == saves + Cardinality({w \in Worker : Busy(w)}) < MaxSaves

\* CartMiddleware and WishlistMiddleware load the session.
StartRequest(w, r) ==
    /\ ~Busy(w)
    /\ SavesLeft
    /\ r.op = "checkout" => call[r.o].at = "unsent" /\ ~\E u \in Worker : CheckingOut(u, r.o)
    /\ r.op = "reorder" => status[r.o] # "none"
    /\ work' = [work EXCEPT ![w] =
                   [at |-> "viewing", req |-> r, mem |-> session, row |-> saves]]
    /\ UNCHANGED <<vars, active, session, saves, call, told>>

\* SessionMiddleware writes the row: all of it, as this worker has it in memory.
SaveSession(w, s) ==
    /\ session' = s
    /\ saves' = saves + 1
    /\ work' = [work EXCEPT ![w] = Idle]

\* The lookup of the product, the change and the save are one step: what others do
\* between them is overwritten or comes after, as when they do it before or after.
EditSession(w) ==
    /\ work[w].at = "viewing"
    /\ \E s \in Edits(work[w].mem, work[w].req) :
          /\ \A p \in Product : s.cart[p] <= MaxQty
          /\ SaveSession(w, s)
    /\ UNCHANGED <<vars, active, call, told>>

\* The view redirects with a message, an ApiError leaves it, or the worker is killed
\* (by gunicorn's timeout, or a restart) before it changed anything: nothing is saved.
TurnBack(w) ==
    /\ work[w].at = "viewing"
    /\ work' = [work EXCEPT ![w] = Idle]
    /\ UNCHANGED <<vars, active, session, saves, call, told>>

\* The checkout view has found lines, all of them of active products.
MayCheckOut(cart) == CartLines(cart) # {} /\ CartLines(cart) \subseteq active

SendCheckout(w) ==
    /\ work[w].at = "viewing" /\ work[w].req.op = "checkout"
    /\ MayCheckOut(work[w].mem.cart)
    /\ work' = [work EXCEPT ![w].at = "waiting"]
    /\ call' = [call EXCEPT ![work[w].req.o] =
                   [at |-> "open", cart |-> work[w].mem.cart,
                    row |-> work[w].row, answer |-> "none"]]
    /\ UNCHANGED <<vars, active, session, saves, told>>

Answered(w, answer) == work[w].at = "waiting" /\ call[work[w].req.o].answer = answer

Tell(w, message) == told' = [told EXCEPT ![work[w].req.o] = message]

\* The request ends without touching the session.
EndUnsaved(w, message) ==
    /\ Tell(w, message)
    /\ work' = [work EXCEPT ![w] = Idle]
    /\ UNCHANGED <<vars, active, session, saves, call>>

\* Mutant of Confirm: the cleared cart is not saved.
ConfirmUnsaved(w) == Answered(w, "created") /\ EndUnsaved(w, "created")

\* Mutant of Confirm: starts a new session instead of clearing the cart.
ConfirmFlush(w) ==
    /\ Answered(w, "created")
    /\ SaveSession(w, NewSession)
    /\ Tell(w, "created")
    /\ UNCHANGED <<vars, active, call>>

\* 201: the cart is cleared.
Confirm(w) ==
    /\ Answered(w, "created")
    /\ SaveSession(w, [work[w].mem EXCEPT !.cart = EmptyCart])
    /\ Tell(w, "created")
    /\ UNCHANGED <<vars, active, call>>

\* 409: the visitor is told that the stock does not suffice.
ShowNoStock(w) == Answered(w, "conflict") /\ EndUnsaved(w, "no_stock")

\* Mutant of ShowFailure: the call to the backend has no timeout.
ShowErrorOnly(w) == Answered(w, "error") /\ EndUnsaved(w, "failed")

\* Any other ApiError, among them ApiTimeoutError and ApiConnectionError, which can
\* come before the backend has even begun or with its answer on the way.
ShowFailure(w) ==
    /\ work[w].at = "waiting"
    /\ EndUnsaved(w, "failed")

\* The worker is killed while it waits: the visitor gets no page.
KillWorker(w) ==
    /\ work[w].at = "waiting"
    /\ EndUnsaved(w, "cut")

-----------------------------------------------------------------------------
(***************************************************************************)
(* The backend.  A call whose writes are flushed holds FOR UPDATE locks on *)
(* the inventory rows of its lines until it commits or is rolled back.     *)
(***************************************************************************)

\* Mutant of Unlocked: a reservation does not wait for the row's lock.
AlwaysUnlocked(p) == TRUE

Unlocked(p) == \A o \in Order : call[o].at = "flushed" => call[o].cart[p] = 0

Answer(o, at, answer) == call' = [call EXCEPT ![o].at = at, ![o].answer = answer]

BackendOnly == UNCHANGED <<session, saves, work, told>>

\* All checks pass and all rows are flushed; the response is sent.
HandleCheckout(o) ==
    /\ call[o].at = "open"
    /\ CartLines(call[o].cart) \subseteq active
    /\ \A p \in CartLines(call[o].cart) : Unlocked(p) /\ Available(p, call[o].cart[p])
    /\ Answer(o, "flushed", "created")
    /\ UNCHANGED <<vars, active>> /\ BackendOnly

\* 404 for an inactive product, 409 for missing stock.
RefuseCheckout(o) ==
    LET lines == CartLines(call[o].cart) IN
    /\ call[o].at = "open"
    /\ \/ ~(lines \subseteq active) /\ Answer(o, "refused", "error")
       \/ /\ lines \subseteq active
          /\ \E p \in lines : Unlocked(p) /\ ~Available(p, call[o].cart[p])
          /\ Answer(o, "refused", "conflict")
    /\ UNCHANGED <<vars, active>> /\ BackendOnly

\* The exit of get_db: all the writes of the checkout, at once.
CommitCheckout(o) ==
    /\ call[o].at = "flushed"
    /\ status[o] = "none"
    /\ \E outcome \in GatewayOutcome : WriteCheckout(o, call[o].cart, outcome)
    /\ call' = [call EXCEPT ![o].at = "committed"]
    /\ UNCHANGED active /\ BackendOnly

\* The backend or its connection to the database stops: the transaction is undone.
\* What had been answered has been answered.
DropCheckout(o) ==
    /\ call[o].at \in {"open", "flushed"}
    /\ call' = [call EXCEPT ![o].at = "dropped"]
    /\ UNCHANGED <<vars, active>> /\ BackendOnly

\* PATCH /products/{id}: staff publish or withdraw a product.
SetActive(p) ==
    /\ active' = (active \ {p}) \cup ({p} \ active)
    /\ UNCHANGED <<vars, call>> /\ BackendOnly

\* A manual stock change, once the row is free.
StaffAdjust(p, delta) ==
    /\ Unlocked(p)
    /\ AdjustStock(p, delta)
    /\ UNCHANGED <<active, call>> /\ BackendOnly

\* Staff cancel or refund an order, which releases its units.
StaffReverse(o, new) ==
    /\ \A p \in CartLines(items[o]) : Unlocked(p)
    /\ TransitionStatus(o, new)
    /\ UNCHANGED <<active, call>> /\ BackendOnly

-----------------------------------------------------------------------------
WorkerStep(w) ==
    \/ EditSession(w)
    \/ TurnBack(w)
    \/ SendCheckout(w)
    \/ Confirm(w)
    \/ ShowNoStock(w)
    \/ ShowFailure(w)

BackendStep(o) == HandleCheckout(o) \/ RefuseCheckout(o) \/ CommitCheckout(o)

StoreNext ==
    \/ \E w \in Worker :
          \/ \E r \in VisitorInput : StartRequest(w, r)
          \/ WorkerStep(w)
          \/ KillWorker(w)
    \/ \E o \in Order :
          \/ BackendStep(o)
          \/ DropCheckout(o)
          \/ \E new \in Reversing : StaffReverse(o, new)
    \/ \E p \in Product :
          \/ SetActive(p)
          \/ \E delta \in -MaxStock..MaxStock : StaffAdjust(p, delta)

StoreSpec == Init /\ StoreInit /\ [][StoreNext]_allVars

\* httpx ends every wait after API_TIMEOUT_SECONDS and a view that is not killed
\* returns; the backend executes what it accepted.
Fairness ==
    /\ \A w \in Worker : WF_allVars(WorkerStep(w))
    /\ \A o \in Order : WF_allVars(BackendStep(o))
FairStoreSpec == StoreSpec /\ Fairness

-----------------------------------------------------------------------------
(***************************************************************************)
(* What the storefront promises.                                           *)
(***************************************************************************)

\* Every variable holds a value of its type: the cart has no line of zero or fewer units.
StoreTypeOK ==
    /\ active \subseteq Product
    /\ session \in Session
    /\ saves \in 0..MaxSaves
    /\ work \in [Worker -> Work \cup {Idle}]
    /\ call \in [Order -> Call]
    /\ told \in [Order -> {"nothing", "created", "no_stock", "failed", "cut"}]

\* Orders and stock change as OrderFlow says, one whole request at a time, although the
\* answer of a checkout is out before its commit: the row locks make the difference.
OrdersAsPromised == Spec

Bought(o) == status[o] # "none"

\* The cart of one stored session is bought twice only if the visitor was told of a
\* failure, or of nothing, the first time: never after two confirmations.
OneOrderPerCart ==
    \A o1, o2 \in Order :
        o1 # o2 /\ call[o1].row = call[o2].row => ~(told[o1] = "created" /\ told[o2] = "created")

\* What a step may never do: a confirmed checkout takes from the cart exactly the lines
\* it ordered, and no other end of a checkout touches the session.
CartBecomesOrder ==
    [][\A w \in Worker, o \in Order :
          CheckingOut(w, o) /\ work'[w] = Idle =>
              IF told'[o] = "created"
              THEN session.cart = call[o].cart /\ session' = [session EXCEPT !.cart = EmptyCart]
              ELSE UNCHANGED session]_allVars

\* A worker never waits for ever, and what the visitor was told was created is stored
\* in the end, unless the backend stopped before its commit.
CheckoutsEnd ==
    /\ \A w \in Worker : Busy(w) ~> ~Busy(w)
    /\ \A o \in Order : call[o].at \in {"open", "flushed"} ~>
                            Bought(o) \/ call[o].at \in {"refused", "dropped"}
=============================================================================

----------------------------- MODULE StockPromise -----------------------------
(***************************************************************************)
(* What the shop promises about the units of an order, without saying how: *)
(* an order is accepted whole, out of units nobody else holds, and its     *)
(* units leave it once: all back to the free ones, if it is called off     *)
(* before its dispatch, or all with the dispatch.  Between those moments   *)
(* nothing touches them; staff can add and remove free units only.         *)
(* OrderFlow, with its two counters, its payments and its shipments, is    *)
(* shown to implement this.                                                *)
(***************************************************************************)
EXTENDS Integers

CONSTANTS Order, Product,
          Cart          \* what one order may ask for: functions from Product to Nat

VARIABLES phase,        \* of an order: "none", "held", "sent" or "called_off"
          units,        \* the units an order asked for
          free          \* units on the shelf that no order holds

promiseVars == <<phase, units, free>>

PromiseInit ==
    /\ phase = [o \in Order |-> "none"]
    /\ units = [o \in Order |-> [p \in Product |-> 0]]
    /\ free \in [Product -> Nat]

Accept(o, cart) ==
    /\ phase[o] = "none"
    /\ \A p \in Product : cart[p] <= free[p]
    /\ phase' = [phase EXCEPT ![o] = "held"]
    /\ units' = [units EXCEPT ![o] = cart]
    /\ free' = [p \in Product |-> free[p] - cart[p]]

CallOff(o) ==
    /\ phase[o] = "held"
    /\ phase' = [phase EXCEPT ![o] = "called_off"]
    /\ free' = [p \in Product |-> free[p] + units[o][p]]
    /\ UNCHANGED units

Dispatch(o) ==
    /\ phase[o] = "held"
    /\ phase' = [phase EXCEPT ![o] = "sent"]
    /\ UNCHANGED <<units, free>>

Restock(p) ==
    /\ free'[p] \in Nat
    /\ free' = [free EXCEPT ![p] = free'[p]]
    /\ UNCHANGED <<phase, units>>

PromiseNext ==
    \/ \E o \in Order :
          \/ \E cart \in Cart : Accept(o, cart)
          \/ CallOff(o)
          \/ Dispatch(o)
    \/ \E p \in Product : Restock(p)

PromiseSpec == PromiseInit /\ [][PromiseNext]_promiseVars
=============================================================================

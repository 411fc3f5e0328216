----------------------------- MODULE MCOrderTxns -----------------------------
(* Values for TLC's instances of OrderTxns. *)
EXTENDS OrderTxns, TLC

AnyOutcome == {"completed", "failed"}
ManualGateway == {"completed"}

\* Every endpoint that takes the locks the code's comments promise.
LockingOps == AllOps \ {"pay", "update_shipment"}
\* The life of an order without manual stock changes.
OrderOps == AllOps \ StockOps
\* The endpoints through which orders compete for the units of a product.
SharedStockOps == OrderOps \ {"checkout", "update_shipment", "deliver"}
\* Carts of several products against each other and against cancellations.
StockContention == {"create", "cancel", "pay"}

\* Sessions are interchangeable, and so are orders: no definition names one of them.
TxOrderSymmetry == Permutations(Tx) \cup Permutations(Order)
TxSymmetry == Permutations(Tx)
=============================================================================

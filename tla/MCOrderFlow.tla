----------------------------- MODULE MCOrderFlow -----------------------------
(* Values for TLC's instances of OrderFlow. *)
EXTENDS OrderFlow, TLC

AnyOutcome == {"completed", "failed"}
ManualGateway == {"completed"}

\* Orders are interchangeable: no definition names one of them.
OrderSymmetry == Permutations(Order)
=============================================================================

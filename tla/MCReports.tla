------------------------------ MODULE MCReports ------------------------------
(* Values for TLC's instances of Reports. *)
EXTENDS Reports, TLC

ManualGateway == {"completed"}

\* Viewers are interchangeable: no definition names one of them.
ReportSymmetry == Permutations(Viewer)
=============================================================================

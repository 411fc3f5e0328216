------------------------------ MODULE MCAccounts ------------------------------
(* Values for TLC's instance of Accounts. *)
EXTENDS Accounts, TLC

\* Visitors type in lower case; FIRST_ADMIN_EMAIL has capitals.
LowerCase == {e \in Email : ~e.capitals}

\* Users, addresses and workers are interchangeable: no definition names one of them.
AccountSymmetry ==
    Permutations(User) \cup Permutations(Address) \cup Permutations(Writer)
        \cup Permutations(Worker)
=============================================================================

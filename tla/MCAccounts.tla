----------------------------- MODULE MCAccounts -----------------------------
(* Values for model checking Accounts.                                       *)
EXTENDS Accounts, TLC

CONSTANTS root, ann, h1, h2

MCUsers == {root, ann}

\* The first administrator as startup creates him, alone or with another account.
Bootstrapped == [NewRow("admin", "local") EXCEPT !.mustChange = TRUE]
MCInitial == {root :> Bootstrapped,
              (root :> [Bootstrapped EXCEPT !.mustChange = FALSE]) @@ (ann :> NewRow("user", "local"))}

Symmetry == Permutations({h1, h2})
=============================================================================

-------------------------- MODULE MCAdministration --------------------------
(* Values for model checking Administration.                                *)
EXTENDS Administration, TLC

CONSTANTS k1, u1, u2, h1, h2, e1, e2, l1, l2

\* Two providers that call the same model by the same name.
MCDefaultRoute == [pair \in {"seed", "other"} \X {"gpt"} |->
                     IF pair[1] = "seed" THEN "seed/gpt" ELSE "other/gpt"]

Symmetry ==
  Permutations({e1, e2}) \cup Permutations({h1, h2}) \cup Permutations({u1, u2})
    \cup Permutations({l1, l2})
=============================================================================

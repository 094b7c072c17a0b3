----------------------------- MODULE MCGateway -----------------------------
(* Values for model checking Gateway.                                       *)
EXTENDS Gateway, TLC

CONSTANTS r1, r2, m1, m2, m3, p1, p2

MCRequests == {r1, r2}
MCModels == {m1, m2, m3}
MCProviders == {p1, p2}
MCProviderOf == (m1 :> p1) @@ (m2 :> p2) @@ (m3 :> p2)

\* m1 is priced, the others are not.
MCPrice == (m1 :> 1) @@ (m2 :> 0) @@ (m3 :> 0)

MCOwner == [r \in MCRequests |-> [user |-> "user", department |-> "dept", key |-> "key"]]

\* The key may not use m3.
MCAllowed == [k \in {"key"} |-> {m1, m2}]

\* MCGatewayPlan.cfg: a fallback, with two attempts at each candidate.
RetryPlans == {[candidates |-> <<m1, m2>>, attempts |-> 2, health |-> TRUE]}
NoLimits   == {}

\* MCGatewayLimits.cfg: a priced model called up to twice, alone or as the
\* fallback of one that is not priced.
LimitPlans == {[candidates |-> <<m1>>, attempts |-> 2, health |-> FALSE],
               [candidates |-> <<m2, m1>>, attempts |-> 1, health |-> TRUE]}
KeyRequests == [kind |-> "rpm", field |-> "key", value |-> "key", max |-> 2]
UserBudget  == [kind |-> "usd", field |-> "user", value |-> "user", max |-> 1]
ModelTokens == [kind |-> "tpm", field |-> "model", value |-> m1, max |-> 1]
MCLimits    == {KeyRequests, UserBudget, ModelTokens}

\* MCGatewayFaults.cfg
FaultPlans  == {[candidates |-> <<m2, m3, m1>>, attempts |-> 1, health |-> TRUE],
                [candidates |-> <<m3>>, attempts |-> 1, health |-> FALSE]}
FaultLimits == {UserBudget}

\* MCGatewayDisconnect.cfg and MCGatewayTransport.cfg
PrimaryPlans == {[candidates |-> <<m1>>, attempts |-> 2, health |-> TRUE]}

Symmetry == Permutations(MCRequests)
=============================================================================

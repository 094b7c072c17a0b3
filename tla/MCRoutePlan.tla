---------------------------- MODULE MCRoutePlan ----------------------------
(* Values for model checking RoutePlan.                                      *)
EXTENDS RoutePlan

CONSTANTS a, b, c, p1, p2, routeA, routeB, routeC, gpt, llama

MCIds     == {a, b, c}
MCSlashed == {routeA, routeB, routeC}
MCBare    == {gpt, llama}
AllNames  == MCSlashed \cup MCBare

Entry(name, weight) == [name |-> name, weight |-> weight]
Row(provider, upstream, route, weights, names) ==
  [provider |-> provider, upstream |-> upstream, route |-> route, enabled |-> TRUE,
   weighted |-> weights, fallbacks |-> names]

\* a is asked for; b and c are fallbacks or share its traffic, and some names repeat
\* one another, stand for no model or for two.
MCCatalogs ==
  {[id \in MCIds |-> CASE id = a -> Row(p1, gpt, routeA, weights, names)
                       [] id = b -> Row(p2, upstream, routeB, <<>>, <<>>)
                       [] id = c -> Row(p2, gpt, routeC, <<>>, <<>>)] :
     upstream \in {gpt, llama},
     weights \in {<<>>, <<Entry(routeB, 2), Entry(routeC, 1), Entry(llama, 1)>>},
     names \in {<<routeB, llama, routeC>>, <<routeC, routeA, routeB>>}}
  \cup
  {[id \in {a, b} |-> IF id = a THEN Row(p1, gpt, routeA, <<>>, <<llama, routeC>>)
                                ELSE Row(p2, llama, routeB, <<>>, <<>>)]}
=============================================================================

----------------------------- MODULE RoutePlan -----------------------------
(***************************************************************************)
(* How the name a client asks for becomes the list of candidates that      *)
(* module Gateway walks: resolveRoutePlan and the catalog query            *)
(* ResolveModel.  Every name costs a query of its own; administrators edit *)
(* the catalog, and queries fail, between any two of them.                 *)
(*                                                                         *)
(* A name with a slash is looked up among the routes.  Any other name is   *)
(* an upstream model id, which stands for a model when only one has it.    *)
(***************************************************************************)
EXTENDS Integers, Sequences, FiniteSets, FiniteSetsExt, Functions

CONSTANTS
  Ids,        \* ids of models
  Providers,
  Slashed,    \* names with a slash
  Bare,       \* names without one
  Routes,     \* names that administrators may give to models as routes
  Catalogs,   \* catalogs there may be to begin with
  Requested,  \* names a client may ask for
  MaxEdits    \* bound on the edits of the catalog

Names   == Slashed \cup Bare
Entries == [name : Names, weight : Nat \ {0}]
Models  == [provider : Providers, upstream : Names, route : Names, enabled : BOOLEAN,
            weighted : Seq(Entries), fallbacks : Seq(Names)]

\* Routes are unique in the table models.
UniqueRoutes(table) ==
  \A a, b \in DOMAIN table : table[a].route = table[b].route => a = b

ASSUME NamesAssumption == Slashed \cap Bare = {} /\ Routes \subseteq Names /\ Requested \subseteq Names
ASSUME IdsAssumption == IsFiniteSet(Ids)
ASSUME MaxEditsAssumption == MaxEdits \in Nat
ASSUME CatalogsAssumption ==
  \A table \in Catalogs :
    DOMAIN table \subseteq Ids /\ table \in [DOMAIN table -> Models] /\ UniqueRoutes(table)

VARIABLES
  models,      \* the table models
  disabled,    \* providers that are disabled
  pc,          \* where resolveRoutePlan is
  primary,     \* the model that was asked for, as it was read
  next,        \* position in the list of names being resolved
  weighted,    \* the weighted routes that were resolved
  candidates,  \* the plan so far
  edits,       \* edits of the catalog so far
  firm,        \* history: <<name, id>> of the fallbacks that have stood for one
               \* model, on one route, since the primary was read
  quiet        \* history: neither an edit nor a failed query since then

catalogVars == <<models, disabled>>
planVars    == <<pc, primary, next, weighted, candidates>>
vars == <<catalogVars, planVars, edits, firm, quiet>>

-----------------------------------------------------------------------------
Servable(id) == models[id].enabled /\ models[id].provider \notin disabled

\* ResolveModel: the model a name stands for, as a set of at most one id.
Resolve(name) ==
  IF name \in Slashed
  THEN {id \in DOMAIN models : Servable(id) /\ models[id].route = name}
  ELSE LET matches == {id \in DOMAIN models : Servable(id) /\ models[id].upstream = name}
       IN  IF Cardinality(matches) = 1 THEN matches ELSE {}

\* What the rest of the request knows a model by: the row as it was read.
Read(id) == [id |-> id, route |-> models[id].route]

\* The weights of the first n entries.
Total(entries, n) ==
  SumFunctionOnSet([i \in DOMAIN entries |-> entries[i].weight], 1..n)

\* Mutant of Chosen: the boundary of two entries belongs to the first.
ChosenInclusive(entries, pick) ==
  {i \in DOMAIN entries : Total(entries, i - 1) < pick /\ pick <= Total(entries, i)}

\* The loop of selectWeightedCandidate takes each weight off the pick, until the pick
\* is less than the next one: the entry it stops at.
Chosen(entries, pick) ==
  {i \in DOMAIN entries : Total(entries, i - 1) <= pick /\ pick < Total(entries, i)}

\* The set `seen': by name before the query, by row after it.
SeenName(name) == \E i \in DOMAIN candidates : candidates[i].route = name

\* Mutant of SeenRow: rows are told apart by their ids alone.
SeenRowById(model) == \E i \in DOMAIN candidates : candidates[i].id = model.id

\* Mutant of SeenRow: the primary counts as seen even when a weighted model stands in.
SeenRowOrPrimary(model) ==
  \/ model.id = primary.model.id
  \/ \E i \in DOMAIN candidates : candidates[i].id = model.id \/ candidates[i].route = model.route

SeenRow(model) ==
  \E i \in DOMAIN candidates : candidates[i].id = model.id \/ candidates[i].route = model.route

-----------------------------------------------------------------------------
NoModel == [weighted |-> <<>>, fallbacks |-> <<>>]

Init ==
  /\ models \in Catalogs
  /\ disabled \in SUBSET Providers
  /\ pc = "start"
  /\ primary = NoModel
  /\ next = 1
  /\ weighted = <<>>
  /\ candidates = <<>>
  /\ edits = 0
  /\ firm = {}
  /\ quiet = TRUE

ResolvePrimary(name) ==
  /\ pc = "start"
  /\ \E id \in Resolve(name) :
       /\ primary' = [model |-> Read(id), weighted |-> models[id].weighted,
                      fallbacks |-> models[id].fallbacks]
       /\ firm' = {pair \in Names \X DOMAIN models :
                     /\ pair[1] \in Range(models[id].fallbacks)
                     /\ Resolve(pair[1]) = {pair[2]}}
  /\ pc' = "weigh"
  /\ quiet' = TRUE
  /\ UNCHANGED <<catalogVars, next, weighted, candidates, edits>>

\* The name is unknown, ambiguous or disabled.
Refuse(name) ==
  /\ pc = "start" /\ Resolve(name) = {}
  /\ pc' = "refused"
  /\ UNCHANGED <<catalogVars, primary, next, weighted, candidates, edits, firm, quiet>>

\* Entries that do not resolve are passed over.
ResolveWeighted ==
  /\ pc = "weigh" /\ next \in DOMAIN primary.weighted
  /\ LET entry == primary.weighted[next]
     IN  \/ /\ Resolve(entry.name) = {}
            /\ UNCHANGED weighted
         \/ \E id \in Resolve(entry.name) :
              weighted' = Append(weighted, [model |-> Read(id), weight |-> entry.weight])
  /\ next' = next + 1
  /\ UNCHANGED <<catalogVars, pc, primary, candidates, edits, firm, quiet>>

\* The first candidate is drawn by weight, or is the primary when no entry has resolved.
SelectFirst ==
  /\ pc = "weigh" /\ next \notin DOMAIN primary.weighted
  /\ \/ /\ weighted = <<>>
        /\ candidates' = <<primary.model>>
     \/ /\ weighted # <<>>
        /\ \E pick \in 0..(Total(weighted, Len(weighted)) - 1), i \in DOMAIN weighted :
             i \in Chosen(weighted, pick) /\ candidates' = <<weighted[i].model>>
  /\ pc' = "fall"
  /\ next' = 1
  /\ UNCHANGED <<catalogVars, primary, weighted, edits, firm, quiet>>

\* Mutant of ResolveFallback: a name that does not resolve ends the list.
ResolveFallbackOrEnd ==
  /\ pc = "fall" /\ next \in DOMAIN primary.fallbacks
  /\ LET name  == primary.fallbacks[next]
         found == IF SeenName(name) THEN {} ELSE {Read(id) : id \in Resolve(name)}
         new   == {model \in found : ~SeenRow(model)}
     IN  /\ \/ new = {} /\ UNCHANGED candidates
            \/ \E model \in new : candidates' = Append(candidates, model)
         /\ next' = IF found = {} THEN Len(primary.fallbacks) + 1 ELSE next + 1
  /\ UNCHANGED <<catalogVars, pc, primary, weighted, edits, firm, quiet>>

\* A fallback that has been seen, by its name or by its row, is passed over, and so
\* is one that does not resolve.
ResolveFallback ==
  /\ pc = "fall" /\ next \in DOMAIN primary.fallbacks
  /\ LET name == primary.fallbacks[next]
         new  == {model \in {Read(id) : id \in Resolve(name)} : ~SeenName(name) /\ ~SeenRow(model)}
     IN  \/ new = {} /\ UNCHANGED candidates
         \/ \E model \in new : candidates' = Append(candidates, model)
  /\ next' = next + 1
  /\ UNCHANGED <<catalogVars, pc, primary, weighted, edits, firm, quiet>>

Finish ==
  /\ pc = "fall" /\ next \notin DOMAIN primary.fallbacks
  /\ pc' = "done"
  /\ UNCHANGED <<catalogVars, primary, next, weighted, candidates, edits, firm, quiet>>

\* A query may fail.  Without the primary there is no plan; any other name is
\* passed over.
QueryFault ==
  /\ \/ /\ pc = "start"
        /\ pc' = "refused"
        /\ UNCHANGED <<next, firm>>
     \/ /\ pc = "weigh" /\ next \in DOMAIN primary.weighted
        /\ next' = next + 1
        /\ UNCHANGED <<pc, firm>>
     \/ /\ pc = "fall" /\ next \in DOMAIN primary.fallbacks
        /\ next' = next + 1
        /\ firm' = {pair \in firm : pair[1] # primary.fallbacks[next]}
        /\ UNCHANGED pc
  /\ quiet' = FALSE
  /\ UNCHANGED <<catalogVars, primary, weighted, candidates, edits>>

-----------------------------------------------------------------------------
\* What an edit does to the history.
Edit ==
  /\ pc \in {"weigh", "fall"} /\ edits < MaxEdits
  /\ edits' = edits + 1
  /\ firm' = {pair \in firm : /\ Resolve(pair[1])' = {pair[2]}
                              /\ models'[pair[2]].route = models[pair[2]].route}
  /\ quiet' = FALSE
  /\ UNCHANGED planVars

CreateModel(id, row) ==
  /\ id \in Ids \ DOMAIN models
  /\ models' = [other \in DOMAIN models \cup {id} |-> IF other = id THEN row ELSE models[other]]
  /\ UniqueRoutes(models')
  /\ UNCHANGED disabled
  /\ Edit

\* Mutant of UpdateModel: routes need not be unique.
UpdateModelUnchecked(id, row) ==
  /\ models' = [models EXCEPT ![id] = row]
  /\ UNCHANGED disabled
  /\ Edit

UpdateModel(id, row) ==
  /\ models' = [models EXCEPT ![id] = row]
  /\ UniqueRoutes(models')
  /\ UNCHANGED disabled
  /\ Edit

DeleteModel(id) ==
  /\ models' = [other \in DOMAIN models \ {id} |-> models[other]]
  /\ UNCHANGED disabled
  /\ Edit

\* An administrator enables or disables a provider.
UpdateProvider(provider) ==
  /\ disabled' = IF provider \in disabled THEN disabled \ {provider} ELSE disabled \cup {provider}
  /\ UNCHANGED models
  /\ Edit

\* Rows that differ from one of the table in one of the fields that queries look at.
Updates(row) ==
  {[row EXCEPT !.enabled = ~@]}
    \cup {[row EXCEPT !.route = route] : route \in Routes}
    \cup {[row EXCEPT !.upstream = name] : name \in Bare}

NewRows == {[provider |-> p, upstream |-> u, route |-> route, enabled |-> TRUE,
             weighted |-> <<>>, fallbacks |-> <<>>] :
              p \in Providers, u \in Bare, route \in Routes}

Resolving ==
  \/ \E name \in Requested : ResolvePrimary(name) \/ Refuse(name)
  \/ ResolveWeighted \/ SelectFirst \/ ResolveFallback \/ Finish \/ QueryFault

Editing ==
  \/ \E id \in Ids, row \in NewRows : CreateModel(id, row)
  \/ \E id \in DOMAIN models : DeleteModel(id) \/ \E row \in Updates(models[id]) : UpdateModel(id, row)
  \/ \E provider \in Providers : UpdateProvider(provider)

Next == Resolving \/ Editing
Spec == Init /\ [][Next]_vars

-----------------------------------------------------------------------------
Candidates == [id : Ids, route : Names]

TypeOK ==
  /\ DOMAIN models \subseteq Ids /\ models \in [DOMAIN models -> Models] /\ UniqueRoutes(models)
  /\ disabled \subseteq Providers
  /\ pc \in {"start", "weigh", "fall", "done", "refused"}
  /\ pc \in {"weigh", "fall", "done"} =>
       primary \in [model : Candidates, weighted : Seq(Entries), fallbacks : Seq(Names)]
  /\ next \in Nat \ {0}
  /\ weighted \in Seq([model : Candidates, weight : Nat \ {0}])
  /\ candidates \in Seq(Candidates)
  /\ pc \in {"fall", "done"} => candidates # <<>>
  /\ edits \in 0..MaxEdits
  /\ firm \subseteq Names \X Ids
  /\ quiet \in BOOLEAN

\* No model is in a plan twice, nor is a route, whatever edits come between the
\* queries: a failed model would be called again, and a client's data sent to it
\* twice, as a candidate of its own.  (seen, resolveRoutePlan.)
DistinctCandidates ==
  \A i, j \in DOMAIN candidates :
    candidates[i].id = candidates[j].id \/ candidates[i].route = candidates[j].route => i = j

\* Picks are drawn evenly from 0..total-1, so entries share the traffic in proportion
\* to their weights exactly when as many picks choose an entry as its weight says.
\* (selectWeightedCandidate, randomWeightedPick.)
WeightsRespected ==
  \A i \in DOMAIN weighted :
    Cardinality({pick \in 0..(Total(weighted, Len(weighted)) - 1) : Chosen(weighted, pick) = {i}})
      = weighted[i].weight

\* When nothing interferes, the plan is the one the documentation describes: first
\* one of the weighted models that can be served, or the model requested when there
\* are none; then the models that the fallbacks name, each where it is named first.
PlanAsDocumented ==
  quiet /\ pc = "done" =>
    LET resolved(names) == UNION {Resolve(name) : name \in names}
        drawn    == resolved({primary.weighted[i].name : i \in DOMAIN primary.weighted})
        heads    == IF drawn = {} THEN {primary.model.id} ELSE drawn
        plan     == [i \in DOMAIN candidates |-> candidates[i].id]
        mention(id) == Min({k \in DOMAIN primary.fallbacks : id \in Resolve(primary.fallbacks[k])})
    IN  /\ plan[1] \in heads
        /\ Range(plan) = {plan[1]} \cup resolved(Range(primary.fallbacks))
        /\ \A i, j \in DOMAIN plan : 1 < i /\ i < j => mention(plan[i]) < mention(plan[j])

\* A fallback that stands for one model all the while is in the plan, whatever
\* happens to the other names of the list.
FirmFallbacksKept ==
  pc = "done" => \A pair \in firm : \E i \in DOMAIN candidates : candidates[i].id = pair[2]

\* The route of a model is the public name that clients use when they call the
\* gateway: it stands for that model.  (docs/ROUTING.md, "Route ID".)
RoutesAreNames == \A id \in DOMAIN models : Servable(id) => Resolve(models[id].route) = {id}
=============================================================================

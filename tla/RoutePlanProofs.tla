-------------------------- MODULE RoutePlanProofs --------------------------
(***************************************************************************)
(* Proofs about RoutePlan, for every catalog, every list of names and any  *)
(* number of edits and failed queries.                                     *)
(***************************************************************************)
EXTENDS RoutePlan, FiniteFolds, TLAPS

-----------------------------------------------------------------------------
\* A row that is read has the type of a candidate.
LEMMA ReadType ==
  ASSUME TypeOK, NEW id \in DOMAIN models
  PROVE  Read(id) \in Candidates
BY DEF TypeOK, Read, Candidates, Models

LEMMA ResolveFinds ==
  ASSUME NEW name, NEW id \in Resolve(name)
  PROVE  id \in DOMAIN models
BY DEF Resolve

\* The new row of an edit is a row of the table.
LEMMA UpdatesType ==
  ASSUME NEW row \in Models, NEW new \in Updates(row)
  PROVE  new \in Models
BY NamesAssumption DEF Updates, Models, Names

LEMMA NewRowsType == ASSUME NEW row \in NewRows PROVE row \in Models
<1>1. PICK p \in Providers, u \in Bare, route \in Routes :
        row = [provider |-> p, upstream |-> u, route |-> route, enabled |-> TRUE,
               weighted |-> <<>>, fallbacks |-> <<>>]
  BY DEF NewRows
<1>2. u \in Names /\ route \in Names
  BY NamesAssumption DEF Names
<1>3. <<>> \in Seq(Entries) /\ <<>> \in Seq(Names)
  OBVIOUS
<1> QED
  BY <1>1, <1>2, <1>3 DEF Models

LEMMA ElementType == ASSUME NEW S, NEW s \in Seq(S), NEW i \in DOMAIN s PROVE s[i] \in S
OBVIOUS

LEMMA SingletonType == ASSUME NEW S, NEW e \in S PROVE <<e>> \in Seq(S) /\ <<e>> # <<>>
OBVIOUS

LEMMA AppendType ==
  ASSUME NEW S, NEW s \in Seq(S), NEW e \in S
  PROVE  Append(s, e) \in Seq(S) /\ Append(s, e) # <<>>
<1>1. Append(s, e) \in Seq(S) /\ Len(Append(s, e)) = Len(s) + 1 /\ Len(s) \in Nat
  OBVIOUS
<1> QED
  BY <1>1

LEMMA InitType == Init => TypeOK
<1> SUFFICES ASSUME Init PROVE TypeOK
  OBVIOUS
<1>1. DOMAIN models \subseteq Ids /\ models \in [DOMAIN models -> Models] /\ UniqueRoutes(models)
  BY CatalogsAssumption DEF Init
<1>2. edits \in 0..MaxEdits
  BY MaxEditsAssumption DEF Init
<1> QED
  BY <1>1, <1>2 DEF Init, TypeOK

LEMMA EditType == 
  ASSUME TypeOK, Edit,
         DOMAIN models' \subseteq Ids, models' \in [DOMAIN models' -> Models], UniqueRoutes(models'),
         disabled' \subseteq Providers
  PROVE  TypeOK'
<1>1. UNCHANGED <<pc, primary, next, weighted, candidates>>
  BY DEF Edit, planVars
<1>2. firm' \subseteq firm
  BY DEF Edit
<1>3. edits' \in 0..MaxEdits /\ quiet' \in BOOLEAN
  <2>1. edits < MaxEdits /\ edits' = edits + 1 /\ quiet' = FALSE
    BY DEF Edit
  <2>2. edits \in 0..MaxEdits
    BY DEF TypeOK
  <2>3. edits' \in 0..MaxEdits
    BY <2>1, <2>2, MaxEditsAssumption
  <2> QED
    BY <2>1, <2>3
<1> QED
  BY <1>1, <1>2, <1>3 DEF TypeOK

LEMMA StepType == TypeOK /\ [Next]_vars => TypeOK'
<1> SUFFICES ASSUME TypeOK, [Next]_vars PROVE TypeOK'
  OBVIOUS
<1>1. ASSUME NEW name \in Requested, ResolvePrimary(name) PROVE TypeOK'
  <2> PICK id \in Resolve(name) :
        /\ primary' = [model |-> Read(id), weighted |-> models[id].weighted,
                       fallbacks |-> models[id].fallbacks]
        /\ firm' = {pair \in Names \X DOMAIN models :
                      pair[1] \in Range(models[id].fallbacks) /\ Resolve(pair[1]) = {pair[2]}}
    BY <1>1 DEF ResolvePrimary
  <2>1. id \in DOMAIN models /\ models[id] \in Models
    BY ResolveFinds DEF TypeOK
  <2>2. primary' \in [model : Candidates, weighted : Seq(Entries), fallbacks : Seq(Names)]
    BY <2>1, ReadType DEF Models
  <2>3. firm' \subseteq Names \X Ids
    BY DEF TypeOK
  <2> QED
    BY <1>1, <2>2, <2>3 DEF ResolvePrimary, TypeOK, catalogVars
<1>2. ASSUME NEW name \in Requested, Refuse(name) PROVE TypeOK'
  BY <1>2 DEF Refuse, TypeOK, catalogVars
<1>3. ASSUME ResolveWeighted PROVE TypeOK'
  <2> DEFINE entry == primary.weighted[next]
  <2>0. primary.weighted \in Seq(Entries) /\ next \in DOMAIN primary.weighted
    BY <1>3 DEF ResolveWeighted, TypeOK
  <2>1. entry \in Entries /\ entry.weight \in Nat \ {0}
    <3>1. entry \in Entries
      BY <2>0
    <3> QED
      BY <3>1 DEF Entries
  <2>2. \A id \in Resolve(entry.name) :
          [model |-> Read(id), weight |-> entry.weight] \in [model : Candidates, weight : Nat \ {0}]
    BY <2>1, ResolveFinds, ReadType
  <2>3. weighted' \in Seq([model : Candidates, weight : Nat \ {0}])
    <3>1. CASE UNCHANGED weighted
      BY <3>1 DEF TypeOK
    <3>2. CASE \E id \in Resolve(entry.name) :
                 weighted' = Append(weighted, [model |-> Read(id), weight |-> entry.weight])
      BY <2>2, <3>2, AppendType DEF TypeOK
    <3> QED
      BY <1>3, <3>1, <3>2 DEF ResolveWeighted
  <2> QED
    BY <1>3, <2>3 DEF ResolveWeighted, TypeOK, catalogVars
<1>4. ASSUME SelectFirst PROVE TypeOK'
  <2>1. PICK model \in Candidates : candidates' = <<model>>
    <3>1. CASE candidates' = <<primary.model>>
      BY <1>4, <3>1 DEF SelectFirst, TypeOK
    <3>2. CASE \E i \in DOMAIN weighted : candidates' = <<weighted[i].model>>
      <4> PICK i \in DOMAIN weighted : candidates' = <<weighted[i].model>>
        BY <3>2
      <4>1. weighted[i] \in [model : Candidates, weight : Nat \ {0}]
        <5>1. weighted \in Seq([model : Candidates, weight : Nat \ {0}])
          BY DEF TypeOK
        <5> QED
          BY <5>1, ElementType
      <4> QED
        BY <4>1
    <3> QED
      BY <1>4, <3>1, <3>2 DEF SelectFirst
  <2>2. candidates' \in Seq(Candidates) /\ candidates' # <<>>
    BY <2>1, SingletonType
  <2> QED
    BY <1>4, <2>2 DEF SelectFirst, TypeOK, catalogVars
<1>5. ASSUME ResolveFallback PROVE TypeOK'
  <2>1. \A id \in Resolve(primary.fallbacks[next]) : Read(id) \in Candidates
    BY ResolveFinds, ReadType
  <2>2. candidates' \in Seq(Candidates) /\ candidates' # <<>>
    <3>1. CASE UNCHANGED candidates
      BY <1>5, <3>1 DEF ResolveFallback, TypeOK
    <3>2. CASE \E id \in Resolve(primary.fallbacks[next]) : candidates' = Append(candidates, Read(id))
      BY <2>1, <3>2, AppendType DEF TypeOK
    <3> QED
      BY <1>5, <3>1, <3>2 DEF ResolveFallback
  <2> QED
    BY <1>5, <2>2 DEF ResolveFallback, TypeOK, catalogVars
<1>6. ASSUME Finish PROVE TypeOK'
  BY <1>6 DEF Finish, TypeOK, catalogVars
<1>7. ASSUME QueryFault PROVE TypeOK'
  <2>1. next' \in Nat \ {0} /\ firm' \subseteq firm /\ (pc' = pc \/ pc' = "refused")
    BY <1>7 DEF QueryFault, TypeOK
  <2>2. UNCHANGED <<models, disabled, primary, weighted, candidates, edits>> /\ quiet' \in BOOLEAN
    BY <1>7 DEF QueryFault, catalogVars
  <2> QED
    BY <2>1, <2>2 DEF TypeOK
<1>8. ASSUME NEW id \in Ids, NEW row \in NewRows, CreateModel(id, row) PROVE TypeOK'
  BY <1>8, NewRowsType, EditType DEF CreateModel, TypeOK
<1>9. ASSUME NEW id \in DOMAIN models, DeleteModel(id) PROVE TypeOK'
  BY <1>9, EditType DEF DeleteModel, TypeOK, UniqueRoutes
<1>10. ASSUME NEW id \in DOMAIN models, NEW row \in Updates(models[id]), UpdateModel(id, row) PROVE TypeOK'
  <2>1. row \in Models
    BY UpdatesType DEF TypeOK
  <2> QED
    BY <1>10, <2>1, EditType DEF UpdateModel, TypeOK
<1>11. ASSUME NEW provider \in Providers, UpdateProvider(provider) PROVE TypeOK'
  <2>1. disabled' \subseteq Providers /\ models' = models
    BY <1>11 DEF UpdateProvider, TypeOK
  <2> QED
    BY <1>11, <2>1, EditType DEF UpdateProvider, TypeOK
<1>12. CASE UNCHANGED vars
  BY <1>12 DEF vars, catalogVars, planVars, TypeOK
<1> QED
  BY <1>1, <1>2, <1>3, <1>4, <1>5, <1>6, <1>7, <1>8, <1>9, <1>10, <1>11, <1>12
  DEF Next, Resolving, Editing

\* Every variable of the plan stays of its type, whatever the catalog becomes.
THEOREM PlanTypeCorrect == Spec => []TypeOK
BY InitType, StepType, PTL DEF Spec

-----------------------------------------------------------------------------
(* DistinctCandidates is inductive with the fact that there is no candidate *)
(* before the first is selected.                                            *)
NoneYet == pc \in {"start", "weigh"} => candidates = <<>>

LEMMA StepDistinct ==
  TypeOK /\ NoneYet /\ DistinctCandidates /\ [Next]_vars => NoneYet' /\ DistinctCandidates'
<1> SUFFICES ASSUME TypeOK, NoneYet, DistinctCandidates, [Next]_vars
             PROVE  NoneYet' /\ DistinctCandidates'
  OBVIOUS
<1>1. ASSUME UNCHANGED <<pc, candidates>> PROVE NoneYet' /\ DistinctCandidates'
  BY <1>1 DEF NoneYet, DistinctCandidates
<1>2. ASSUME SelectFirst PROVE NoneYet' /\ DistinctCandidates'
  <2>1. PICK model : candidates' = <<model>>
    BY <1>2 DEF SelectFirst
  <2>2. DOMAIN candidates' = {1}
    BY <2>1
  <2> QED
    BY <1>2, <2>2 DEF SelectFirst, NoneYet, DistinctCandidates
<1>3. ASSUME ResolveFallback PROVE NoneYet' /\ DistinctCandidates'
  <2>1. CASE UNCHANGED candidates
    BY <1>3, <2>1 DEF ResolveFallback, NoneYet, DistinctCandidates
  <2>2. CASE \E id \in Resolve(primary.fallbacks[next]) :
               ~SeenRow(Read(id)) /\ candidates' = Append(candidates, Read(id))
    <3> PICK id \in Resolve(primary.fallbacks[next]) :
               ~SeenRow(Read(id)) /\ candidates' = Append(candidates, Read(id))
      BY <2>2
    <3>1. /\ candidates \in Seq(Candidates) /\ Len(candidates) \in Nat
          /\ DOMAIN candidates = 1..Len(candidates)
      BY DEF TypeOK
    <3>2. /\ DOMAIN candidates' = 1..(Len(candidates) + 1)
          /\ \A i \in 1..Len(candidates) : candidates'[i] = candidates[i]
          /\ candidates'[Len(candidates) + 1] = Read(id)
      BY <3>1
    <3>3. \A i \in 1..Len(candidates) : candidates[i].id # Read(id).id /\ candidates[i].route # Read(id).route
      BY <3>1 DEF SeenRow
    <3>4. DistinctCandidates'
      BY <3>1, <3>2, <3>3 DEF DistinctCandidates
    <3> QED
      BY <1>3, <3>4 DEF ResolveFallback, NoneYet
  <2> QED
    BY <1>3, <2>1, <2>2 DEF ResolveFallback
<1>4. ASSUME Resolving PROVE NoneYet' /\ DistinctCandidates'
  <2>1. ASSUME NEW name \in Requested, ResolvePrimary(name) \/ Refuse(name)
        PROVE  NoneYet' /\ DistinctCandidates'
    BY <2>1 DEF ResolvePrimary, Refuse, NoneYet, DistinctCandidates
  <2>2. ASSUME ResolveWeighted \/ Finish \/ QueryFault PROVE NoneYet' /\ DistinctCandidates'
    BY <2>2 DEF ResolveWeighted, Finish, QueryFault, NoneYet, DistinctCandidates
  <2> QED
    BY <1>2, <1>3, <1>4, <2>1, <2>2 DEF Resolving
<1>5. ASSUME Editing PROVE UNCHANGED <<pc, candidates>>
  BY <1>5 DEF Editing, CreateModel, DeleteModel, UpdateModel, UpdateProvider, Edit, planVars
<1>6. CASE UNCHANGED vars
  BY <1>1, <1>6 DEF vars, planVars
<1> QED
  BY <1>1, <1>4, <1>5, <1>6 DEF Next

\* However the catalog is edited between the queries, no model and no route is in a
\* plan twice.
THEOREM NoCandidateTwice == Spec => []DistinctCandidates
<1>1. Init => NoneYet /\ DistinctCandidates
  BY DEF Init, NoneYet, DistinctCandidates
<1> QED
  BY <1>1, InitType, StepType, StepDistinct, PTL DEF Spec

-----------------------------------------------------------------------------
(* FirmFallbacksKept holds when no route is without a slash.  A fallback is *)
(* passed over only when its name or its row has been seen; a row that was  *)
(* read with the route of a firm fallback must be that model, because       *)
(* routes are unique and the firm one has kept its own.                     *)
SlashedRoutes ==
  /\ Routes \subseteq Slashed
  /\ \A table \in Catalogs : \A id \in DOMAIN table : table[id].route \in Slashed

WasRead(model) ==
  \/ pc \in {"weigh", "fall", "done"} /\ model = primary.model
  \/ \E i \in DOMAIN weighted : model = weighted[i].model
  \/ \E i \in DOMAIN candidates : model = candidates[i]

Phases ==
  /\ pc = "start" => weighted = <<>> /\ candidates = <<>> /\ firm = {}
  /\ pc = "weigh" => candidates = <<>>
  /\ pc = "refused" => firm = {}
  /\ pc = "done" => next \notin DOMAIN primary.fallbacks

RoutesSlashed ==
  /\ \A id \in DOMAIN models : models[id].route \in Slashed
  /\ \A model \in Candidates : WasRead(model) => model.route \in Slashed

\* A firm pair stands, and no other row was read with its route.
FirmStands ==
  \A pair \in firm :
    /\ Resolve(pair[1]) = {pair[2]}
    /\ \A model \in Candidates :
         WasRead(model) /\ model.route = models[pair[2]].route => model.id = pair[2]

\* A firm pair is a fallback, and is in the plan once its name has had its turn.
FirmDone ==
  pc \in {"weigh", "fall", "done"} => \A pair \in firm :
    /\ pair[1] \in Range(primary.fallbacks)
    /\ pc # "weigh" => \A k \in DOMAIN primary.fallbacks :
         k < next /\ primary.fallbacks[k] = pair[1] =>
           \E i \in DOMAIN candidates : candidates[i].id = pair[2]

FirmInv == Phases /\ RoutesSlashed /\ FirmStands /\ FirmDone

\* Two rows read with one route at one time are the same row.
LEMMA SameRoute ==
  ASSUME TypeOK, NEW a \in DOMAIN models, NEW b \in DOMAIN models,
         Read(a).route = models[b].route
  PROVE  Read(a).id = b
BY DEF TypeOK, Read, UniqueRoutes

\* A firm id is in the table.
LEMMA FirmExists == ASSUME FirmStands, NEW pair \in firm PROVE pair[2] \in DOMAIN models
BY ResolveFinds DEF FirmStands

LEMMA InitFirm == ASSUME SlashedRoutes PROVE Init => FirmInv
<1> SUFFICES ASSUME Init PROVE FirmInv
  OBVIOUS
<1>1. \A model : ~WasRead(model)
  BY DEF Init, WasRead
<1> QED
  BY <1>1 DEF Init, FirmInv, Phases, RoutesSlashed, FirmStands, FirmDone, SlashedRoutes

\* What an edit leaves of the invariant.
LEMMA EditFirm ==
  ASSUME TypeOK, FirmInv, Edit, \A id \in DOMAIN models' : models'[id].route \in Slashed
  PROVE  FirmInv'
<1>1. UNCHANGED <<pc, primary, next, weighted, candidates>> /\ pc \in {"weigh", "fall"}
  BY DEF Edit, planVars
<1>2. /\ firm' \subseteq firm
      /\ \A pair \in firm' : /\ Resolve(pair[1])' = {pair[2]}
                             /\ models'[pair[2]].route = models[pair[2]].route
  BY DEF Edit
<1>3. \A model : WasRead(model)' = WasRead(model)
  BY <1>1 DEF WasRead
<1>4. Phases'
  BY <1>1 DEF Phases, FirmInv
<1>5. RoutesSlashed'
  BY <1>3 DEF RoutesSlashed, FirmInv
<1>6. FirmStands'
  BY <1>2, <1>3 DEF FirmStands, FirmInv
<1>7. FirmDone'
  BY <1>1, <1>2 DEF FirmDone, FirmInv
<1> QED
  BY <1>4, <1>5, <1>6, <1>7 DEF FirmInv

\* A step of the request that reads at most one row, and leaves the catalog alone.
LEMMA ReadFirm ==
  ASSUME TypeOK, FirmInv, UNCHANGED <<models, disabled>>, firm' \subseteq firm,
         \A model \in Candidates :
           WasRead(model)' => WasRead(model) \/ \E id \in DOMAIN models : model = Read(id)
  PROVE  RoutesSlashed' /\ FirmStands'
<1>1. \A id \in DOMAIN models : Read(id).route \in Slashed
  BY DEF Read, FirmInv, RoutesSlashed
<1>2. RoutesSlashed'
  BY <1>1 DEF FirmInv, RoutesSlashed
<1>3. ASSUME NEW pair \in firm' PROVE Resolve(pair[1])' = {pair[2]}
  BY <1>3 DEF FirmInv, FirmStands, Resolve, Servable
<1>4. ASSUME NEW pair \in firm', NEW model \in Candidates, WasRead(model)',
             model.route = models[pair[2]].route
      PROVE  model.id = pair[2]
  <2>1. pair[2] \in DOMAIN models
    BY FirmExists DEF FirmInv
  <2>2. CASE WasRead(model)
    BY <1>4, <2>2 DEF FirmInv, FirmStands
  <2>3. CASE \E id \in DOMAIN models : model = Read(id)
    BY <1>4, <2>1, <2>3, SameRoute
  <2> QED
    BY <1>4, <2>2, <2>3
<1>5. FirmStands'
  BY <1>3, <1>4 DEF FirmStands
<1> QED
  BY <1>2, <1>5

LEMMA PrimaryFirm ==
  ASSUME TypeOK, FirmInv, NEW name, ResolvePrimary(name)
  PROVE  FirmInv'
<1> PICK id \in Resolve(name) :
      /\ primary' = [model |-> Read(id), weighted |-> models[id].weighted,
                     fallbacks |-> models[id].fallbacks]
      /\ firm' = {pair \in Names \X DOMAIN models :
                    pair[1] \in Range(models[id].fallbacks) /\ Resolve(pair[1]) = {pair[2]}}
  BY DEF ResolvePrimary
<1>1. id \in DOMAIN models
  BY ResolveFinds
<1>2. /\ weighted' = <<>> /\ candidates' = <<>> /\ pc' = "weigh"
      /\ UNCHANGED <<models, disabled>>
  BY DEF ResolvePrimary, FirmInv, Phases, catalogVars
<1>3. \A model : WasRead(model)' => model = Read(id)
  BY <1>2 DEF WasRead
<1>4. Phases'
  BY <1>2 DEF Phases
<1>5. RoutesSlashed'
  BY <1>1, <1>2, <1>3 DEF FirmInv, RoutesSlashed, Read
<1>6. FirmStands'
  <2>1. ASSUME NEW pair \in firm' PROVE Resolve(pair[1])' = {pair[2]} /\ pair[2] \in DOMAIN models
    BY <1>2, <2>1 DEF Resolve, Servable
  <2> QED
    BY <1>1, <1>2, <1>3, <2>1, SameRoute DEF FirmStands
<1>7. FirmDone'
  BY <1>2 DEF FirmDone
<1> QED
  BY <1>4, <1>5, <1>6, <1>7 DEF FirmInv

LEMMA WeightedFirm == ASSUME TypeOK, FirmInv, ResolveWeighted PROVE FirmInv'
<1>1. UNCHANGED <<models, disabled, pc, primary, candidates, firm>> /\ pc = "weigh"
  BY DEF ResolveWeighted, catalogVars
<1>2. ASSUME NEW model \in Candidates, WasRead(model)'
      PROVE  WasRead(model) \/ \E id \in DOMAIN models : model = Read(id)
  <2>1. CASE UNCHANGED weighted
    BY <1>1, <1>2, <2>1 DEF WasRead
  <2>2. CASE \E id \in Resolve(primary.weighted[next].name) :
               weighted' = Append(weighted, [model |-> Read(id), weight |-> primary.weighted[next].weight])
    <3> PICK id \in Resolve(primary.weighted[next].name) :
               weighted' = Append(weighted, [model |-> Read(id), weight |-> primary.weighted[next].weight])
      BY <2>2
    <3>1. \A i \in DOMAIN weighted' : \/ i \in DOMAIN weighted /\ weighted'[i] = weighted[i]
                                    \/ weighted'[i].model = Read(id)
      BY DEF TypeOK
    <3> QED
      BY <1>1, <1>2, <3>1, ResolveFinds DEF WasRead
  <2> QED
    BY <2>1, <2>2 DEF ResolveWeighted
<1>3. RoutesSlashed' /\ FirmStands'
  BY <1>1, <1>2, ReadFirm
<1>4. Phases' /\ FirmDone'
  BY <1>1 DEF FirmInv, Phases, FirmDone
<1> QED
  BY <1>3, <1>4 DEF FirmInv

LEMMA FirstFirm == ASSUME TypeOK, FirmInv, SelectFirst PROVE FirmInv'
<1>1. UNCHANGED <<models, disabled, primary, weighted, firm>> /\ pc = "weigh" /\ pc' = "fall" /\ next' = 1
  BY DEF SelectFirst, catalogVars
<1>2. \E model : candidates' = <<model>> /\ WasRead(model)
  BY <1>1 DEF SelectFirst, WasRead
<1>3. \A model \in Candidates : WasRead(model)' => WasRead(model)
  BY <1>1, <1>2 DEF WasRead
<1>4. RoutesSlashed' /\ FirmStands'
  BY <1>1, <1>3, ReadFirm
<1>5. Phases'
  BY <1>1 DEF Phases
<1>6. FirmDone'
  <2>1. DOMAIN primary.fallbacks \subseteq Nat \ {0}
    BY <1>1 DEF TypeOK
  <2> QED
    BY <1>1, <2>1 DEF FirmInv, FirmDone
<1> QED
  BY <1>4, <1>5, <1>6 DEF FirmInv

LEMMA FallbackFirm == ASSUME TypeOK, FirmInv, ResolveFallback PROVE FirmInv'
<1> DEFINE name == primary.fallbacks[next]
<1>1. UNCHANGED <<models, disabled, pc, primary, weighted, firm>> /\ pc = "fall" /\ next' = next + 1
  BY DEF ResolveFallback, catalogVars
<1>2. next \in DOMAIN primary.fallbacks /\ DOMAIN primary.fallbacks \subseteq Nat
  BY <1>1 DEF ResolveFallback, TypeOK
<1>3. \/ /\ \A id \in Resolve(name) : SeenName(name) \/ SeenRow(Read(id))
         /\ UNCHANGED candidates
      \/ \E id \in Resolve(name) : candidates' = Append(candidates, Read(id))
  BY DEF ResolveFallback
<1>4. /\ candidates \in Seq(Candidates)
      /\ \A i \in DOMAIN candidates : candidates[i] \in Candidates /\ WasRead(candidates[i])
  BY DEF TypeOK, WasRead
<1>5. ASSUME NEW id \in Resolve(name), candidates' = Append(candidates, Read(id))
      PROVE  /\ \A i \in DOMAIN candidates : i \in DOMAIN candidates' /\ candidates'[i] = candidates[i]
             /\ \A i \in DOMAIN candidates' : \/ i \in DOMAIN candidates /\ candidates'[i] = candidates[i]
                                            \/ candidates'[i] = Read(id)
             /\ \E i \in DOMAIN candidates' : candidates'[i] = Read(id)
  <2>1. /\ Len(candidates) \in Nat /\ DOMAIN candidates = 1..Len(candidates)
        /\ DOMAIN candidates' = 1..(Len(candidates) + 1)
        /\ \A i \in 1..Len(candidates) : candidates'[i] = candidates[i]
        /\ candidates'[Len(candidates) + 1] = Read(id)
    BY <1>4, <1>5
  <2> QED
    BY <2>1
<1>6. ASSUME NEW model \in Candidates, WasRead(model)'
      PROVE  WasRead(model) \/ \E id \in DOMAIN models : model = Read(id)
  BY <1>1, <1>3, <1>5, <1>6, ResolveFinds DEF WasRead
<1>7. RoutesSlashed' /\ FirmStands'
  BY <1>1, <1>6, ReadFirm
<1>8. ASSUME NEW pair \in firm, name = pair[1]
      PROVE  \E i \in DOMAIN candidates' : candidates'[i].id = pair[2]
  <2>1. Resolve(name) = {pair[2]} /\ pair[2] \in DOMAIN models /\ Read(pair[2]).id = pair[2]
    BY <1>8, FirmExists DEF FirmInv, FirmStands, Read
  <2>2. CASE \E id \in Resolve(name) : candidates' = Append(candidates, Read(id))
    BY <1>5, <2>1, <2>2
  <2>3. CASE UNCHANGED candidates /\ SeenRow(Read(pair[2]))
    <3>1. PICK i \in DOMAIN candidates : \/ candidates[i].id = Read(pair[2]).id
                                         \/ candidates[i].route = Read(pair[2]).route
      BY <2>3 DEF SeenRow
    <3>2. Read(pair[2]).route = models[pair[2]].route
      BY DEF Read
    <3> QED
      BY <1>4, <2>1, <2>3, <3>1, <3>2 DEF FirmInv, FirmStands
  <2>4. CASE UNCHANGED candidates /\ SeenName(name)
    <3>1. PICK i \in DOMAIN candidates : candidates[i].route = name
      BY <2>4 DEF SeenName
    <3>2. name \in Slashed
      BY <1>4, <3>1 DEF FirmInv, RoutesSlashed
    <3>3. models[pair[2]].route = name
      BY <2>1, <3>2 DEF Resolve
    <3> QED
      BY <1>4, <2>4, <3>1, <3>3 DEF FirmInv, FirmStands
  <2> QED
    BY <1>3, <2>1, <2>2, <2>3, <2>4
<1>9. ASSUME NEW pair \in firm, \E i \in DOMAIN candidates : candidates[i].id = pair[2]
      PROVE  \E i \in DOMAIN candidates' : candidates'[i].id = pair[2]
  BY <1>3, <1>5, <1>9
<1>10. FirmDone'
  <2>1. ASSUME NEW k \in DOMAIN primary.fallbacks, k < next + 1 PROVE k < next \/ k = next
    BY <1>2, <2>1
  <2> QED
    BY <1>1, <1>8, <1>9, <2>1 DEF FirmInv, FirmDone
<1> QED
  BY <1>1, <1>7, <1>10 DEF FirmInv, Phases

LEMMA FaultFirm == ASSUME TypeOK, FirmInv, QueryFault PROVE FirmInv'
<1>1. UNCHANGED <<models, disabled, primary, weighted, candidates>> /\ firm' \subseteq firm
  BY DEF QueryFault, catalogVars
<1>2. \A model \in Candidates : WasRead(model)' => WasRead(model)
  BY <1>1 DEF WasRead, QueryFault
<1>3. RoutesSlashed' /\ FirmStands'
  BY <1>1, <1>2, ReadFirm
<1>4. Phases'
  BY <1>1 DEF FirmInv, Phases, QueryFault
<1>5. FirmDone'
  <2>1. CASE pc = "fall"
    <3>1. /\ next' = next + 1 /\ pc' = pc /\ DOMAIN primary.fallbacks \subseteq Nat /\ next \in Nat
          /\ firm' = {pair \in firm : pair[1] # primary.fallbacks[next]}
      BY <2>1 DEF QueryFault, TypeOK
    <3>2. ASSUME NEW pair \in firm', NEW k \in DOMAIN primary.fallbacks, k < next',
                 primary.fallbacks[k] = pair[1]
          PROVE  k < next
      BY <3>1, <3>2
    <3> QED
      BY <1>1, <2>1, <3>1, <3>2 DEF FirmInv, FirmDone
  <2>2. CASE pc # "fall"
    BY <1>1, <2>2 DEF QueryFault, FirmInv, FirmDone
  <2> QED
    BY <2>1, <2>2
<1> QED
  BY <1>3, <1>4, <1>5 DEF FirmInv

LEMMA EditingFirm == ASSUME SlashedRoutes, TypeOK, FirmInv, Editing PROVE FirmInv'
<1>1. \A id \in DOMAIN models : models[id].route \in Slashed
  BY DEF FirmInv, RoutesSlashed
<1>2. ASSUME NEW id \in Ids, NEW row \in NewRows, CreateModel(id, row) PROVE FirmInv'
  <2>1. row.route \in Slashed
    BY DEF NewRows, SlashedRoutes
  <2> QED
    BY <1>1, <1>2, <2>1, EditFirm DEF CreateModel
<1>3. ASSUME NEW id \in DOMAIN models, DeleteModel(id) PROVE FirmInv'
  BY <1>1, <1>3, EditFirm DEF DeleteModel
<1>4. ASSUME NEW id \in DOMAIN models, NEW row \in Updates(models[id]), UpdateModel(id, row) PROVE FirmInv'
  <2>1. models[id] \in Models
    BY DEF TypeOK
  <2>2. row.route \in Slashed
    BY <1>1, <2>1 DEF Updates, SlashedRoutes, Models
  <2>3. \A other \in DOMAIN models' : other \in DOMAIN models /\ (models'[other] = row \/ models'[other] = models[other])
    BY <1>4 DEF UpdateModel
  <2> QED
    BY <1>1, <1>4, <2>2, <2>3, EditFirm DEF UpdateModel
<1>5. ASSUME NEW provider \in Providers, UpdateProvider(provider) PROVE FirmInv'
  BY <1>1, <1>5, EditFirm DEF UpdateProvider
<1> QED
  BY <1>2, <1>3, <1>4, <1>5 DEF Editing

LEMMA StepFirm == ASSUME SlashedRoutes PROVE TypeOK /\ FirmInv /\ [Next]_vars => FirmInv'
<1> SUFFICES ASSUME TypeOK, FirmInv, [Next]_vars PROVE FirmInv'
  OBVIOUS
<1>1. ASSUME NEW name, Refuse(name) PROVE FirmInv'
  <2>1. UNCHANGED <<models, disabled, primary, next, weighted, candidates, firm>> /\ pc = "start" /\ pc' = "refused"
    BY <1>1 DEF Refuse, catalogVars
  <2>2. \A model \in Candidates : WasRead(model)' => WasRead(model)
    BY <2>1 DEF WasRead
  <2>3. RoutesSlashed' /\ FirmStands'
    BY <2>1, <2>2, ReadFirm
  <2> QED
    BY <2>1, <2>3 DEF FirmInv, Phases, FirmDone
<1>2. ASSUME Finish PROVE FirmInv'
  <2>1. UNCHANGED <<models, disabled, primary, next, weighted, candidates, firm>> /\ pc = "fall" /\ pc' = "done"
        /\ next \notin DOMAIN primary.fallbacks
    BY <1>2 DEF Finish, catalogVars
  <2>2. \A model \in Candidates : WasRead(model)' => WasRead(model)
    BY <2>1 DEF WasRead
  <2>3. RoutesSlashed' /\ FirmStands'
    BY <2>1, <2>2, ReadFirm
  <2> QED
    BY <2>1, <2>3 DEF FirmInv, Phases, FirmDone
<1>3. CASE UNCHANGED vars
  <2>1. UNCHANGED <<models, disabled, pc, primary, next, weighted, candidates, firm>>
    BY <1>3 DEF vars, catalogVars, planVars
  <2>2. \A model \in Candidates : WasRead(model)' => WasRead(model)
    BY <2>1 DEF WasRead
  <2>3. RoutesSlashed' /\ FirmStands'
    BY <2>1, <2>2, ReadFirm
  <2> QED
    BY <2>1, <2>3 DEF FirmInv, Phases, FirmDone
<1> QED
  BY <1>1, <1>2, <1>3, PrimaryFirm, WeightedFirm, FirstFirm, FallbackFirm, FaultFirm, EditingFirm
  DEF Next, Resolving

\* Where every route has a slash, a fallback that stands for one model all the while
\* is never lost, whatever edits and failed queries do to the others.
THEOREM NoFirmFallbackLost == ASSUME SlashedRoutes PROVE Spec => []FirmFallbacksKept
<1>1. TypeOK /\ FirmInv => FirmFallbacksKept
  <2> SUFFICES ASSUME TypeOK, FirmInv, pc = "done", NEW pair \in firm
               PROVE  \E i \in DOMAIN candidates : candidates[i].id = pair[2]
    BY DEF FirmFallbacksKept
  <2>1. PICK k \in DOMAIN primary.fallbacks : primary.fallbacks[k] = pair[1]
    BY DEF FirmInv, FirmDone, Range
  <2>2. primary.fallbacks \in Seq(Names) /\ next \in Nat \ {0} /\ next \notin DOMAIN primary.fallbacks
    BY DEF TypeOK, FirmInv, Phases
  <2>3. k < next
    BY <2>2
  <2> QED
    BY <2>1, <2>3 DEF FirmInv, FirmDone
<1> QED
  BY <1>1, InitType, StepType, InitFirm, StepFirm, PTL DEF Spec

-----------------------------------------------------------------------------
(***************************************************************************)
(* Weights.  The entries cut 0..total-1 into intervals, one for each of    *)
(* them in their order, as long as their weights.                          *)
(***************************************************************************)
Weighings == Seq([model : Candidates, weight : Nat \ {0}])

LEMMA TotalGrows ==
  ASSUME NEW entries \in Weighings
  PROVE  /\ Total(entries, 0) = 0
         /\ \A n \in 0..Len(entries) : Total(entries, n) \in Nat
         /\ \A n \in 1..Len(entries) :
              Total(entries, n) = entries[n].weight + Total(entries, n - 1)
         /\ \A m, n \in 0..Len(entries) : m <= n => Total(entries, m) <= Total(entries, n)
<1> DEFINE w == [i \in DOMAIN entries |-> entries[i].weight]
<1>1. DOMAIN entries = 1..Len(entries) /\ Len(entries) \in Nat
  BY DEF Weighings
<1>2. \A n : Total(entries, n) = SumFunctionOnSet(w, 1..n)
  BY DEF Total
<1>3. \A i \in 1..Len(entries) : w[i] = entries[i].weight /\ w[i] \in Nat
  <2>1. \A i \in DOMAIN entries : entries[i] \in [model : Candidates, weight : Nat \ {0}]
    BY ElementType DEF Weighings
  <2> QED
    BY <1>1, <2>1
<1> HIDE DEF w
<1>4. \A n \in 0..Len(entries) : IsFiniteSet(1..n) /\ \A i \in 1..n : w[i] \in Nat
  BY <1>1, <1>3, FS_Interval
<1>5. Total(entries, 0) = 0
  <2>1. 1..0 = {}
    OBVIOUS
  <2> QED
    BY <1>2, <2>1, SumEmpty
<1>6. \A n \in 0..Len(entries) : Total(entries, n) \in Nat
  BY <1>2, <1>4, SumType
<1>7. ASSUME NEW n \in 1..Len(entries)
      PROVE  Total(entries, n) = entries[n].weight + Total(entries, n - 1)
  <2>1. n \in Nat \ {0} /\ \A i \in 1..n : w[i] \in Nat
    BY <1>1, <1>3
  <2>2. SumFunctionOnSet(w, 1..n) = w[n] + SumFunctionOnSet(w, 1..(n - 1))
    BY <2>1, SumOfFirst
  <2> QED
    BY <1>2, <1>3, <2>2
<1>8. ASSUME NEW m \in 0..Len(entries), NEW n \in 0..Len(entries), m <= n
      PROVE  Total(entries, m) <= Total(entries, n)
  <2> DEFINE R == 1..m
             S == 1..n
  <2>1. R \in SUBSET S /\ IsFiniteSet(S) /\ \A i \in S : w[i] \in Nat
    BY <1>4, <1>8
  <2>2. SumFunctionOnSet(w, R) <= SumFunctionOnSet(w, S)
    <3> HIDE DEF R, S
    <3> QED
      BY <2>1, SumSubset
  <2> QED
    BY <1>2, <2>2
<1> QED
  BY <1>5, <1>6, <1>7, <1>8

LEMMA PicksOfEntry ==
  ASSUME NEW entries \in Weighings, NEW i \in DOMAIN entries
  PROVE  {pick \in 0..(Total(entries, Len(entries)) - 1) : Chosen(entries, pick) = {i}}
           = Total(entries, i - 1)..(Total(entries, i) - 1)
<1> DEFINE n == Len(entries)
           T(k) == Total(entries, k)
<1>1. n \in Nat /\ DOMAIN entries = 1..n
  BY DEF Weighings
<1>2. \A k \in 0..n : T(k) \in Nat
  BY TotalGrows
<1>3. \A j, k \in 0..n : j <= k => T(j) <= T(k)
  BY TotalGrows
<1>4. \A pick : Chosen(entries, pick) = {j \in 1..n : T(j - 1) <= pick /\ pick < T(j)}
  BY <1>1 DEF Chosen
<1> HIDE DEF n, T
<1>5. ASSUME NEW pick \in T(i - 1)..(T(i) - 1)
      PROVE  pick \in 0..(T(n) - 1) /\ Chosen(entries, pick) = {i}
  <2>1. T(i - 1) \in Nat /\ T(i) \in Nat /\ T(n) \in Nat /\ T(i) <= T(n)
    BY <1>1, <1>2, <1>3
  <2>2. pick \in Nat /\ T(i - 1) <= pick /\ pick < T(i) /\ pick < T(n)
    BY <2>1
  <2>3. ASSUME NEW j \in 1..n, j # i, T(j - 1) <= pick, pick < T(j)
        PROVE  FALSE
    <3>1. CASE j < i
      <4>1. T(j) <= T(i - 1) /\ T(j) \in Nat
        BY <1>1, <1>2, <1>3, <3>1
      <4> QED
        BY <2>1, <2>2, <2>3, <4>1
    <3>2. CASE j > i
      <4>1. T(i) <= T(j - 1) /\ T(j - 1) \in Nat
        BY <1>1, <1>2, <1>3, <3>2
      <4> QED
        BY <2>1, <2>2, <2>3, <4>1
    <3> QED
      BY <1>1, <2>3, <3>1, <3>2
  <2> QED
    BY <1>1, <1>4, <2>1, <2>2, <2>3
<1>6. ASSUME NEW pick \in 0..(T(n) - 1), Chosen(entries, pick) = {i}
      PROVE  pick \in T(i - 1)..(T(i) - 1)
  <2>1. T(i - 1) <= pick /\ pick < T(i)
    BY <1>4, <1>6
  <2>2. T(i - 1) \in Nat /\ T(i) \in Nat /\ T(n) \in Nat
    BY <1>1, <1>2
  <2> QED
    BY <2>1, <2>2
<1> QED
  BY <1>5, <1>6 DEF n, T

\* However many routes are weighed and whatever their weights, each is chosen by as many
\* of the picks as its weight says, and no pick chooses two (selectWeightedCandidate).
THEOREM WeightsAreRespected == Spec => []WeightsRespected
<1>1. TypeOK => WeightsRespected
  <2> SUFFICES ASSUME TypeOK, NEW i \in DOMAIN weighted
               PROVE  Cardinality({pick \in 0..(Total(weighted, Len(weighted)) - 1) :
                                     Chosen(weighted, pick) = {i}}) = weighted[i].weight
    BY DEF WeightsRespected
  <2>1. weighted \in Weighings
    BY DEF TypeOK, Weighings
  <2>2. i \in 1..Len(weighted) /\ weighted[i].weight \in Nat \ {0}
    <3>1. weighted[i] \in [model : Candidates, weight : Nat \ {0}]
      BY <2>1, ElementType DEF Weighings
    <3> QED
      BY <2>1, <3>1 DEF Weighings
  <2> DEFINE before == Total(weighted, i - 1)
             after  == Total(weighted, i)
  <2>3. before \in Nat /\ after = weighted[i].weight + before
    BY <2>1, <2>2, TotalGrows
  <2>4. {pick \in 0..(Total(weighted, Len(weighted)) - 1) : Chosen(weighted, pick) = {i}}
          = before..(after - 1)
    BY <2>1, PicksOfEntry
  <2> HIDE DEF before, after
  <2>5. Cardinality(before..(after - 1)) = weighted[i].weight
    <3>1. before \in Int /\ after - 1 \in Int /\ ~(before > after - 1)
          /\ (after - 1) - before + 1 = weighted[i].weight
      BY <2>2, <2>3
    <3> QED
      BY <3>1, FS_Interval
  <2> QED
    BY <2>4, <2>5
<1> QED
  BY <1>1, PlanTypeCorrect, PTL

-----------------------------------------------------------------------------
(***************************************************************************)
(* PlanAsDocumented.  As long as nothing interferes, names stand for the   *)
(* same models all the while: each model of the plan stands where a        *)
(* fallback names it first, because a model that was named before is       *)
(* there already.                                                          *)
(***************************************************************************)
\* The first of the fallbacks that stands for a model.
FirstNamed(id, k) ==
  /\ k \in DOMAIN primary.fallbacks /\ id \in Resolve(primary.fallbacks[k])
  /\ \A j \in DOMAIN primary.fallbacks : j < k => id \notin Resolve(primary.fallbacks[j])

Drawn == UNION {Resolve(name) : name \in {primary.weighted[i].name : i \in DOMAIN primary.weighted}}
Heads == IF Drawn = {} THEN {primary.model.id} ELSE Drawn

\* The weighted routes so far.
QuietWeights ==
  pc = "weigh" =>
    /\ \A i \in DOMAIN weighted : \E id \in Drawn : weighted[i].model = Read(id)
    /\ weighted = <<>> =>
         \A k \in DOMAIN primary.weighted : k < next => Resolve(primary.weighted[k].name) = {}

\* Rows are as they were read.
QuietRows ==
  /\ pc = "weigh" => primary.model.id \in DOMAIN models /\ primary.model = Read(primary.model.id)
  /\ pc \in {"fall", "done"} => \A i \in DOMAIN candidates :
       candidates[i].id \in DOMAIN models /\ candidates[i] = Read(candidates[i].id)

\* The plan so far: its first model, and those of the fallbacks that had their turn.
QuietPlan ==
  pc \in {"fall", "done"} =>
    /\ candidates[1].id \in Heads
    /\ \A i \in DOMAIN candidates : i > 1 => \E k : k < next /\ FirstNamed(candidates[i].id, k)
    /\ \A k \in DOMAIN primary.fallbacks : k < next =>
         \A id \in Resolve(primary.fallbacks[k]) : \E i \in DOMAIN candidates : candidates[i].id = id
    /\ \A i, j \in DOMAIN candidates : 1 < i /\ i < j => \A k, l \in DOMAIN primary.fallbacks :
         FirstNamed(candidates[i].id, k) /\ FirstNamed(candidates[j].id, l) => k < l

QuietInv ==
  /\ pc = "start" => next = 1
  /\ quiet => QuietWeights /\ QuietRows /\ QuietPlan

\* With the catalog as it is, names stand for what they did.
LEMMA QuietNames ==
  ASSUME UNCHANGED <<models, disabled>>
  PROVE  /\ \A name : Resolve(name)' = Resolve(name)
         /\ \A id : Read(id)' = Read(id)
         /\ primary' = primary => Drawn' = Drawn /\ Heads' = Heads
         /\ primary' = primary => \A id, k : FirstNamed(id, k)' = FirstNamed(id, k)
<1>1. (\A name : Resolve(name)' = Resolve(name)) /\ (\A id : Read(id)' = Read(id))
  BY DEF Resolve, Servable, Read
<1>2. primary' = primary => Drawn' = Drawn
  BY <1>1 DEF Drawn
<1>3. primary' = primary => Heads' = Heads
  BY <1>2 DEF Heads
<1>4. primary' = primary => \A id, k : FirstNamed(id, k)' = FirstNamed(id, k)
  BY <1>1 DEF FirstNamed
<1> QED
  BY <1>1, <1>2, <1>3, <1>4

LEMMA QuietPrimary == ASSUME NEW name, ResolvePrimary(name), TypeOK, FirmInv, QuietInv PROVE QuietInv'
<1>1. PICK id \in Resolve(name) :
        primary' = [model |-> Read(id), weighted |-> models[id].weighted,
                    fallbacks |-> models[id].fallbacks]
  BY DEF ResolvePrimary
<1>2. /\ pc' = "weigh" /\ weighted' = <<>> /\ next' = 1 /\ UNCHANGED <<models, disabled>>
      /\ id \in DOMAIN models
  BY ResolveFinds DEF ResolvePrimary, FirmInv, Phases, catalogVars, QuietInv
<1>3. models[id].weighted \in Seq(Entries)
  BY <1>2 DEF TypeOK, Models
<1>4. QuietWeights'
  BY <1>1, <1>2, <1>3 DEF QuietWeights
<1>5. QuietRows'
  BY <1>1, <1>2 DEF QuietRows, Read
<1> QED
  BY <1>2, <1>4, <1>5 DEF QuietInv, QuietPlan

LEMMA QuietWeighted == ASSUME TypeOK, FirmInv, QuietInv, ResolveWeighted PROVE QuietInv'
<1> SUFFICES ASSUME quiet PROVE QuietInv'
  BY DEF ResolveWeighted, QuietInv
<1>1. /\ UNCHANGED <<models, disabled, pc, primary, candidates>> /\ pc = "weigh"
      /\ next' = next + 1 /\ next \in DOMAIN primary.weighted
  BY DEF ResolveWeighted, catalogVars
<1>2. /\ \A name : Resolve(name)' = Resolve(name)
      /\ \A id : Read(id)' = Read(id)
      /\ Drawn' = Drawn
  BY <1>1, QuietNames
<1>3. DOMAIN primary.weighted \subseteq Nat /\ next \in Nat
  BY <1>1 DEF TypeOK
<1>4. QuietWeights'
  <2>1. CASE Resolve(primary.weighted[next].name) = {} /\ UNCHANGED weighted
    <3>1. \A k \in DOMAIN primary.weighted : k < next + 1 => k < next \/ k = next
      BY <1>3
    <3> QED
      BY <1>1, <1>2, <2>1, <3>1 DEF QuietInv, QuietWeights
  <2>2. CASE \E id \in Resolve(primary.weighted[next].name) :
               weighted' = Append(weighted, [model |-> Read(id), weight |-> primary.weighted[next].weight])
    <3> PICK id \in Resolve(primary.weighted[next].name) :
               weighted' = Append(weighted, [model |-> Read(id), weight |-> primary.weighted[next].weight])
      BY <2>2
    <3>1. weighted' # <<>> /\ \A i \in DOMAIN weighted' : \/ i \in DOMAIN weighted /\ weighted'[i] = weighted[i]
                                                       \/ weighted'[i].model = Read(id)
      BY DEF TypeOK
    <3>2. id \in Drawn
      BY <1>1 DEF Drawn
    <3> QED
      BY <1>1, <1>2, <3>1, <3>2 DEF QuietInv, QuietWeights
  <2> QED
    BY <2>1, <2>2 DEF ResolveWeighted
<1>5. QuietRows'
  BY <1>1, <1>2 DEF QuietInv, QuietRows
<1> QED
  BY <1>1, <1>4, <1>5 DEF QuietInv, QuietPlan

LEMMA QuietFirst == ASSUME TypeOK, FirmInv, QuietInv, SelectFirst PROVE QuietInv'
<1> SUFFICES ASSUME quiet PROVE QuietInv'
  BY DEF SelectFirst, QuietInv
<1>1. /\ UNCHANGED <<models, disabled, primary, weighted>> /\ pc = "weigh" /\ pc' = "fall"
      /\ next' = 1 /\ next \notin DOMAIN primary.weighted
  BY DEF SelectFirst, catalogVars
<1>2. /\ \A name : Resolve(name)' = Resolve(name)
      /\ \A id : Read(id)' = Read(id)
      /\ Heads' = Heads
      /\ \A id, k : FirstNamed(id, k)' = FirstNamed(id, k)
  BY <1>1, QuietNames
<1>3. ASSUME NEW id \in DOMAIN models PROVE Read(id).id = id
  BY DEF Read
<1>4. \E id \in Heads : id \in DOMAIN models /\ candidates' = <<Read(id)>>
  <2>1. CASE weighted = <<>> /\ candidates' = <<primary.model>>
    <3>1. primary.weighted \in Seq(Entries) /\ next \in Nat \ {0}
      BY <1>1 DEF TypeOK
    <3>2. \A k \in DOMAIN primary.weighted : k < next
      BY <1>1, <3>1
    <3>3. Drawn = {}
      <4>1. \A k \in DOMAIN primary.weighted : Resolve(primary.weighted[k].name) = {}
        BY <1>1, <2>1, <3>2 DEF QuietInv, QuietWeights
      <4> QED
        BY <4>1 DEF Drawn
    <3> QED
      BY <1>1, <2>1, <3>3 DEF QuietInv, QuietRows, Heads
  <2>2. CASE \E i \in DOMAIN weighted : candidates' = <<weighted[i].model>>
    <3>1. PICK id \in Drawn : candidates' = <<Read(id)>>
      BY <1>1, <2>2 DEF QuietInv, QuietWeights
    <3>2. id \in Heads /\ id \in DOMAIN models
      BY <3>1, ResolveFinds DEF Heads, Drawn
    <3> QED
      BY <3>1, <3>2
  <2> QED
    BY <2>1, <2>2 DEF SelectFirst
<1>5. PICK id \in Heads : id \in DOMAIN models /\ candidates' = <<Read(id)>>
  BY <1>4
<1>6. DOMAIN candidates' = {1} /\ candidates'[1] = Read(id) /\ Read(id).id = id
  BY <1>3, <1>5
<1>7. QuietRows'
  BY <1>1, <1>2, <1>5, <1>6 DEF QuietRows
<1>8. QuietPlan'
  <2>1. \A k \in DOMAIN primary.fallbacks : ~(k < 1)
    BY <1>1 DEF TypeOK
  <2> QED
    BY <1>1, <1>2, <1>5, <1>6, <2>1 DEF QuietPlan
<1> QED
  BY <1>1, <1>7, <1>8 DEF QuietInv, QuietWeights

\* A fallback that is passed over stands for no model, or for one of the plan.
LEMMA QuietSeen ==
  ASSUME TypeOK, FirmInv, QuietRows, pc = "fall", NEW name, NEW id \in Resolve(name),
         SeenName(name) \/ SeenRow(Read(id))
  PROVE  \E i \in DOMAIN candidates : candidates[i].id = id
<1>1. id \in DOMAIN models /\ Read(id).id = id /\ Read(id).route = models[id].route
  BY ResolveFinds DEF Read
<1>2. \A i \in DOMAIN candidates : /\ candidates[i].id \in DOMAIN models
                                   /\ candidates[i].route = models[candidates[i].id].route
  BY DEF QuietRows, Read
<1>3. CASE SeenRow(Read(id))
  BY <1>1, <1>2, <1>3 DEF SeenRow, TypeOK, UniqueRoutes
<1>4. CASE SeenName(name)
  <2>1. PICK i \in DOMAIN candidates : candidates[i].route = name
    BY <1>4 DEF SeenName
  <2>2. name \in Slashed
    BY <1>2, <2>1 DEF FirmInv, RoutesSlashed
  <2>3. models[id].route = name
    BY <2>2 DEF Resolve
  <2> QED
    BY <1>1, <1>2, <2>1, <2>3 DEF TypeOK, UniqueRoutes
<1> QED
  BY <1>3, <1>4

\* A name stands for one model at most: routes are unique, and other names stand for a
\* model only when they stand for no second.
LEMMA OneModel ==
  ASSUME TypeOK, NEW name, NEW id \in Resolve(name), NEW other \in Resolve(name)
  PROVE  id = other
<1>1. CASE name \in Slashed
  BY <1>1 DEF Resolve, TypeOK, UniqueRoutes
<1>2. CASE name \notin Slashed
  <2> DEFINE matches == {m \in DOMAIN models : Servable(m) /\ models[m].upstream = name}
  <2>1. Cardinality(matches) = 1 /\ id \in matches /\ other \in matches
    BY <1>2 DEF Resolve
  <2>2. matches \in SUBSET Ids
    BY DEF TypeOK
  <2> HIDE DEF matches
  <2>3. IsFiniteSet(matches)
    BY <2>2, IdsAssumption, FS_Subset
  <2>4. PICK x : matches = {x}
    BY <2>1, <2>3, FS_Singleton
  <2> QED
    BY <2>1, <2>4
<1> QED
  BY <1>1, <1>2

LEMMA QuietFallback == ASSUME TypeOK, FirmInv, QuietInv, ResolveFallback PROVE QuietInv'
<1> SUFFICES ASSUME quiet PROVE QuietInv'
  BY DEF ResolveFallback, QuietInv
<1> DEFINE name == primary.fallbacks[next]
<1>1. /\ UNCHANGED <<models, disabled, pc, primary, weighted>> /\ pc = "fall"
      /\ next' = next + 1 /\ next \in DOMAIN primary.fallbacks
  BY DEF ResolveFallback, catalogVars
<1>2. /\ \A n : Resolve(n)' = Resolve(n)
      /\ \A id : Read(id)' = Read(id)
      /\ Heads' = Heads
      /\ \A id, k : FirstNamed(id, k)' = FirstNamed(id, k)
  BY <1>1, QuietNames
<1>3. /\ DOMAIN primary.fallbacks \subseteq Nat /\ next \in Nat
      /\ candidates \in Seq(Candidates) /\ candidates # <<>>
  BY <1>1 DEF TypeOK
<1>4. \A k \in DOMAIN primary.fallbacks : k < next + 1 <=> k < next \/ k = next
  BY <1>1, <1>3
<1>5. QuietRows /\ QuietPlan
  BY DEF QuietInv
<1>6. \A id, other \in Resolve(name) : id = other
  BY OneModel
<1>7. CASE /\ \A id \in Resolve(name) : SeenName(name) \/ SeenRow(Read(id))
           /\ UNCHANGED candidates
  <2>1. \A id \in Resolve(name) : \E i \in DOMAIN candidates : candidates[i].id = id
    BY <1>1, <1>5, <1>7, QuietSeen
  <2>2. QuietRows'
    BY <1>1, <1>2, <1>5, <1>7 DEF QuietRows
  <2>3. QuietPlan'
    <3>1. \A i \in DOMAIN candidates : i > 1 => \E k : k < next + 1 /\ FirstNamed(candidates[i].id, k)
      <4>1. \A id, k : FirstNamed(id, k) => k \in DOMAIN primary.fallbacks
        BY DEF FirstNamed
      <4> QED
        BY <1>1, <1>4, <1>5, <4>1 DEF QuietPlan
    <3> QED
      BY <1>1, <1>2, <1>4, <1>5, <1>7, <2>1, <3>1 DEF QuietPlan
  <2> QED
    BY <1>1, <2>2, <2>3 DEF QuietInv, QuietWeights
<1>8. ASSUME NEW id \in Resolve(name), ~SeenName(name), ~SeenRow(Read(id)),
             candidates' = Append(candidates, Read(id))
      PROVE  QuietInv'
  <2> DEFINE n == Len(candidates) + 1
  <2>1. /\ n \in Nat /\ n > 1 /\ DOMAIN candidates' = 1..n /\ DOMAIN candidates = 1..(n - 1)
        /\ candidates'[n] = Read(id) /\ \A i \in 1..(n - 1) : candidates'[i] = candidates[i]
    BY <1>3, <1>8
  <2>2. \A i \in 1..n : i = n \/ i \in 1..(n - 1)
    BY <2>1
  <2> HIDE DEF n
  <2>3. id \in DOMAIN models /\ Read(id).id = id
    BY ResolveFinds DEF Read
  <2>4. \A k \in DOMAIN primary.fallbacks : k < next => id \notin Resolve(primary.fallbacks[k])
    BY <1>1, <1>5, <1>8, <2>3 DEF QuietPlan, SeenRow
  <2>5. FirstNamed(id, next)
    BY <1>1, <2>4 DEF FirstNamed
  <2>6. \A k \in DOMAIN primary.fallbacks : FirstNamed(id, k) => k = next
    BY <1>1, <1>3, <2>5 DEF FirstNamed
  <2>7. \A other, k, l : FirstNamed(other, k) /\ FirstNamed(other, l) => k = l
    <3>1. \A k, l \in DOMAIN primary.fallbacks : k < l \/ l < k \/ k = l
      BY <1>3
    <3> QED
      BY <3>1 DEF FirstNamed
  <2>8. QuietRows'
    BY <1>1, <1>2, <1>5, <2>1, <2>2, <2>3 DEF QuietRows
  <2>9. candidates'[1].id \in Heads
    BY <1>1, <1>5, <2>1 DEF QuietPlan
  <2>10. ASSUME NEW i \in 1..n, i > 1
         PROVE  \E k : k < next + 1 /\ FirstNamed(candidates'[i].id, k)
    <3>1. \A j, k : FirstNamed(j, k) => k \in DOMAIN primary.fallbacks
      BY DEF FirstNamed
    <3>2. CASE i = n
      BY <1>1, <1>4, <2>1, <2>3, <2>5, <3>2
    <3>3. CASE i \in 1..(n - 1)
      BY <1>1, <1>4, <1>5, <2>1, <2>10, <3>1, <3>3 DEF QuietPlan
    <3> QED
      BY <2>2, <3>2, <3>3
  <2>11. ASSUME NEW k \in DOMAIN primary.fallbacks, k < next + 1,
                NEW other \in Resolve(primary.fallbacks[k])
         PROVE  \E i \in 1..n : candidates'[i].id = other
    <3>1. CASE k < next
      <4>1. PICK i \in DOMAIN candidates : candidates[i].id = other
        BY <1>1, <1>5, <3>1 DEF QuietPlan
      <4> QED
        BY <2>1, <4>1
    <3>2. CASE k = next
      BY <1>6, <2>1, <2>3, <3>2
    <3> QED
      BY <1>4, <2>11, <3>1, <3>2
  <2>12. ASSUME NEW i \in 1..n, NEW j \in 1..n, 1 < i, i < j,
                NEW k \in DOMAIN primary.fallbacks, NEW l \in DOMAIN primary.fallbacks,
                FirstNamed(candidates'[i].id, k), FirstNamed(candidates'[j].id, l)
         PROVE  k < l
    <3>1. i \in 1..(n - 1) /\ i > 1
      BY <2>1, <2>12
    <3>2. CASE j = n
      <4>1. PICK m : m < next /\ FirstNamed(candidates[i].id, m)
        BY <1>1, <1>5, <2>1, <3>1 DEF QuietPlan
      <4>2. m = k /\ l = next
        BY <2>1, <2>3, <2>6, <2>7, <2>12, <3>1, <3>2, <4>1
      <4> QED
        BY <4>1, <4>2
    <3>3. CASE j \in 1..(n - 1)
      BY <1>1, <1>5, <2>1, <2>12, <3>1, <3>3 DEF QuietPlan
    <3> QED
      BY <2>2, <3>2, <3>3
  <2>13. QuietPlan'
    BY <1>1, <1>2, <2>1, <2>9, <2>10, <2>11, <2>12 DEF QuietPlan
  <2> QED
    BY <1>1, <2>8, <2>13 DEF QuietInv, QuietWeights
<1> QED
  BY <1>7, <1>8 DEF ResolveFallback

LEMMA QuietStep == TypeOK /\ FirmInv /\ QuietInv /\ [Next]_vars => QuietInv'
<1> SUFFICES ASSUME TypeOK, FirmInv, QuietInv, [Next]_vars PROVE QuietInv'
  OBVIOUS
<1>1. ASSUME NEW name, Refuse(name) PROVE QuietInv'
  BY <1>1 DEF Refuse, QuietInv, QuietWeights, QuietRows, QuietPlan
<1>2. CASE QueryFault
  BY <1>2 DEF QueryFault, QuietInv
<1>3. CASE Editing
  BY <1>3 DEF Editing, CreateModel, DeleteModel, UpdateModel, UpdateProvider, Edit, planVars, QuietInv
<1>4. CASE Finish \/ UNCHANGED vars
  <2>1. /\ UNCHANGED <<models, disabled, primary, next, weighted, candidates, quiet>>
        /\ pc' = pc \/ (pc = "fall" /\ pc' = "done")
    BY <1>4 DEF Finish, vars, catalogVars, planVars
  <2>2. /\ \A name : Resolve(name)' = Resolve(name)
        /\ \A id : Read(id)' = Read(id)
        /\ Drawn' = Drawn /\ Heads' = Heads
        /\ \A id, k : FirstNamed(id, k)' = FirstNamed(id, k)
    BY <2>1, QuietNames
  <2>3. QuietWeights => QuietWeights'
    BY <2>1, <2>2 DEF QuietWeights
  <2>4. QuietRows => QuietRows'
    BY <2>1, <2>2 DEF QuietRows
  <2>5. QuietPlan => QuietPlan'
    BY <2>1, <2>2 DEF QuietPlan
  <2> QED
    BY <2>1, <2>3, <2>4, <2>5 DEF QuietInv
<1> QED
  BY <1>1, <1>2, <1>3, <1>4, QuietPrimary, QuietWeighted, QuietFirst, QuietFallback
  DEF Next, Resolving

\* Where every route has a slash and nothing interferes, the plan is the documented one:
\* a model drawn by weight, or the one requested, and then the fallbacks in the order in
\* which they are named first.
THEOREM PlanIsDocumented == ASSUME SlashedRoutes PROVE Spec => []PlanAsDocumented
<1>1. Init => QuietInv
  BY DEF Init, QuietInv, QuietWeights, QuietRows, QuietPlan
<1>2. TypeOK /\ FirmInv /\ QuietInv => PlanAsDocumented
  <2> DEFINE resolved(names) == UNION {Resolve(name) : name \in names}
             plan == [i \in DOMAIN candidates |-> candidates[i].id]
             mention(id) == Min({k \in DOMAIN primary.fallbacks : id \in Resolve(primary.fallbacks[k])})
  <2> SUFFICES ASSUME TypeOK, FirmInv, QuietInv, quiet, pc = "done"
               PROVE  /\ plan[1] \in Heads
                      /\ Range(plan) = {plan[1]} \cup resolved(Range(primary.fallbacks))
                      /\ \A i, j \in DOMAIN plan : 1 < i /\ i < j => mention(plan[i]) < mention(plan[j])
    BY DEF PlanAsDocumented, Heads, Drawn
  <2>1. QuietPlan
    BY DEF QuietInv
  <2>2. /\ DOMAIN candidates = 1..Len(candidates) /\ Len(candidates) \in Nat /\ 1 \in DOMAIN candidates
        /\ DOMAIN plan = DOMAIN candidates /\ \A i \in DOMAIN candidates : plan[i] = candidates[i].id
    <3>1. candidates \in Seq(Candidates) /\ candidates # <<>>
      BY DEF TypeOK
    <3> QED
      BY <3>1
  <2>3. /\ DOMAIN primary.fallbacks \subseteq Nat
        /\ \A k \in DOMAIN primary.fallbacks : k < next
    <3>1. primary.fallbacks \in Seq(Names) /\ next \in Nat \ {0} /\ next \notin DOMAIN primary.fallbacks
      BY DEF TypeOK, FirmInv, Phases
    <3> QED
      BY <3>1
  <2>4. \A i \in DOMAIN plan : i > 1 => \E k \in DOMAIN primary.fallbacks : FirstNamed(plan[i], k)
    BY <2>1, <2>2 DEF QuietPlan, FirstNamed
  <2> HIDE DEF plan
  <2>5. ASSUME NEW id, NEW k, FirstNamed(id, k)
        PROVE  mention(id) = k
    <3> DEFINE S == {j \in DOMAIN primary.fallbacks : id \in Resolve(primary.fallbacks[j])}
    <3>1. k \in S /\ S \subseteq Nat /\ \A j \in S : k <= j
      BY <2>3, <2>5 DEF FirstNamed
    <3>2. mention(id) = Min(S)
      OBVIOUS
    <3> HIDE DEF S
    <3>3. PICK m : m = Min(S)
      OBVIOUS
    <3>4. m \in S /\ \A j \in S : m <= j
      BY <3>1, <3>3 DEF Min
    <3>5. m = k
      <4>1. m \in Nat /\ k \in Nat /\ m <= k /\ k <= m
        BY <3>1, <3>4
      <4> QED
        BY <4>1
    <3> QED
      BY <3>2, <3>3, <3>5
  <2>6. plan[1] \in Heads
    BY <2>1, <2>2 DEF QuietPlan
  <2>7. Range(plan) \subseteq {plan[1]} \cup resolved(Range(primary.fallbacks))
    <3>1. ASSUME NEW i \in DOMAIN plan, i > 1 PROVE plan[i] \in resolved(Range(primary.fallbacks))
      <4>1. PICK k \in DOMAIN primary.fallbacks : FirstNamed(plan[i], k)
        BY <2>4, <3>1
      <4>2. primary.fallbacks[k] \in Range(primary.fallbacks)
        BY DEF Range
      <4> QED
        BY <4>1, <4>2 DEF FirstNamed
    <3>2. \A i \in DOMAIN plan : i = 1 \/ i > 1
      BY <2>2
    <3> HIDE DEF resolved
    <3> QED
      BY <3>1, <3>2 DEF Range
  <2>8. {plan[1]} \cup resolved(Range(primary.fallbacks)) \subseteq Range(plan)
    <3>1. ASSUME NEW name \in Range(primary.fallbacks), NEW id \in Resolve(name)
          PROVE  id \in Range(plan)
      <4>1. PICK k \in DOMAIN primary.fallbacks : primary.fallbacks[k] = name
        BY <3>1 DEF Range
      <4>2. PICK i \in DOMAIN candidates : candidates[i].id = id
        BY <2>1, <2>3, <3>1, <4>1 DEF QuietPlan
      <4> QED
        BY <2>2, <4>2 DEF Range
    <3>2. plan[1] \in Range(plan)
      BY <2>2 DEF Range
    <3> QED
      BY <3>1, <3>2
  <2>9. ASSUME NEW i \in DOMAIN plan, NEW j \in DOMAIN plan, 1 < i, i < j
        PROVE  mention(plan[i]) < mention(plan[j])
    <3>1. j > 1
      BY <2>2, <2>9
    <3>2. PICK k \in DOMAIN primary.fallbacks : FirstNamed(plan[i], k)
      BY <2>4, <2>9
    <3>3. PICK l \in DOMAIN primary.fallbacks : FirstNamed(plan[j], l)
      BY <2>4, <3>1
    <3>4. k < l
      BY <2>1, <2>2, <2>9, <3>2, <3>3 DEF QuietPlan
    <3>5. mention(plan[i]) = k /\ mention(plan[j]) = l
      BY <2>5, <3>2, <3>3
    <3> HIDE DEF mention
    <3> QED
      BY <3>4, <3>5
  <2> QED
    BY <2>6, <2>7, <2>8, <2>9
<1> QED
  BY <1>1, <1>2, InitType, StepType, InitFirm, StepFirm, QuietStep, PTL DEF Spec

=============================================================================

------------------------------ MODULE Catalog ------------------------------
(***************************************************************************)
(* What administrators configure: providers with their write-only secrets, *)
(* models, budgets and rate limits (httpapi/providers.go, models.go,       *)
(* budgets.go, ratelimits.go and their tables in store/), and the rows     *)
(* that every start of a node inserts again (store/schema.go).             *)
(*                                                                         *)
(* A handler that is one statement or one transaction is one step.  A      *)
(* model is deleted in two: its names are read before the transaction.     *)
(* Requests that are refused leave nothing behind, and are no steps.       *)
(***************************************************************************)
EXTENDS FiniteSets, Functions, Naturals

CONSTANTS ProviderIds, ModelIds, LimitIds, Admins,
          Upstreams,      \* the names models have at their provider
          Routes,         \* the names they are requested under
          DefaultRoute,   \* the route of a provider's model, if none is given
          People,         \* the users that limits are set for (or departments,
                          \* which nobody deletes)
          DirectTypes,    \* the types of provider that are called directly
          SeedProvider,   \* the id of a provider that every start inserts,
          SeedType,       \* its type,
          SeedModel,      \* and of a model of it,
          SeedUpstream,   \* with its name there
          None,
          MaxOps          \* the number of operations

ASSUME CatalogAssumption ==
  /\ DefaultRoute \in [ProviderIds \X Upstreams -> Routes]
  /\ DirectTypes \subseteq
       {"openai", "anthropic", "azure-openai", "azure-anthropic", "google"}
  /\ SeedProvider \in ProviderIds /\ SeedType \in DirectTypes
  /\ SeedModel \in ModelIds
  /\ SeedUpstream \in Upstreams
  /\ MaxOps \in Nat

VARIABLES
  providers,   \* the rows of providers: how a provider is called, and the
               \* secrets that are stored, as the method they were entered for
  models,      \* the rows of models
  limits,      \* the rows of budgets and of rate_limits
  deleting,    \* the model that an administrator's handler has read to delete
  seeding,     \* a node that is starting has inserted its providers
  ops
catalogVars == <<providers, models, limits, deleting, seeding, ops>>

(***************************************************************************)
(* A provider is of a type that is called directly, with an API key, or is *)
(* Bedrock, with the credentials of the host, a pair of AWS keys, or a     *)
(* Bedrock API key.                                                        *)
(***************************************************************************)
Methods == DirectTypes \cup {"chain", "keys", "api_key"}
Slots   == {"api_key", "aws_secret_access_key", "bedrock_api_key"}

\* The columns whose secret a method uses.
Uses(method) ==
  CASE method \in DirectTypes -> {"api_key"}
    [] method = "chain"   -> {}
    [] method = "keys"    -> {"aws_secret_access_key"}
    [] method = "api_key" -> {"bedrock_api_key"}

Forms == [method : Methods, given : SUBSET Slots]

\* Mutant of Overwritten: what the form leaves blank is kept.
OverwrittenIfGiven(form) == form.given

\* The columns that an update writes; it keeps a secret that its method uses
\* and that the form leaves blank.
Overwritten(form) == (Slots \ Uses(form.method)) \cup form.given

\* What is written there.
Submitted(form) ==
  [s \in Slots |-> IF s \in form.given \cap Uses(form.method)
                   THEN form.method ELSE None]

Count == ops < MaxOps /\ ops' = ops + 1

CreateProvider(p, form) ==
  /\ p \notin DOMAIN providers
  /\ Uses(form.method) \ {"api_key"} \subseteq form.given
  /\ providers' = [q \in DOMAIN providers \cup {p} |->
                     IF q = p THEN [method  |-> form.method,
                                    secrets |-> Submitted(form)]
                              ELSE providers[q]]
  /\ Count
  /\ UNCHANGED <<models, limits, deleting, seeding>>

UpdateProvider(p, form) ==
  /\ p \in DOMAIN providers
  /\ providers' = [providers EXCEPT
       ![p] = [method  |-> form.method,
               secrets |-> [s \in Slots |-> IF s \in Overwritten(form)
                                            THEN Submitted(form)[s]
                                            ELSE @.secrets[s]]]]
  /\ Count
  /\ UNCHANGED <<models, limits, deleting, seeding>>

(***************************************************************************)
(* Limits.  Budgets and rate limits are rows of two tables, and each has   *)
(* at most one row for a scope and value; nothing asks whether the value   *)
(* names anything.                                                         *)
(***************************************************************************)
Scopes(table) ==
  {[table |-> table, scope |-> "person", value |-> v] : v \in People}
    \cup IF table = "budgets" THEN {}
         ELSE {[table |-> table, scope |-> "provider", value |-> v] : v \in ProviderIds}
           \cup {[table |-> table, scope |-> "model", value |-> v] :
                   v \in Routes \cup Upstreams}

LimitRows == Scopes("budgets") \cup Scopes("rate_limits")

CreateLimit(l, row) ==
  /\ l \notin DOMAIN limits
  /\ row \notin Range(limits)
  /\ limits' = [k \in DOMAIN limits \cup {l} |-> IF k = l THEN row ELSE limits[k]]
  /\ Count
  /\ UNCHANGED <<providers, models, deleting, seeding>>

UpdateLimit(l, row) ==
  /\ l \in DOMAIN limits
  /\ row.table = limits[l].table
  /\ \A k \in DOMAIN limits \ {l} : limits[k] # row
  /\ limits' = [limits EXCEPT ![l] = row]
  /\ Count
  /\ UNCHANGED <<providers, models, deleting, seeding>>

DeleteLimit(l) ==
  /\ l \in DOMAIN limits
  /\ limits' = Restrict(limits, DOMAIN limits \ {l})
  /\ Count
  /\ UNCHANGED <<providers, models, deleting, seeding>>

\* The limits of a user go with the user.
LimitsOf(v) == {l \in DOMAIN limits : limits[l].scope = "person" /\ limits[l].value = v}

DeletePerson(v) ==
  /\ LimitsOf(v) # {}
  /\ limits' = Restrict(limits, DOMAIN limits \ LimitsOf(v))
  /\ Count
  /\ UNCHANGED <<providers, models, deleting, seeding>>

\* The rate limits that a request for this model is held to as its.
Binds(limit, model) ==
  \/ limit.scope = "provider" /\ limit.value = model.provider
  \/ limit.scope = "model" /\ limit.value = model.route

(***************************************************************************)
(* Models.  Their routes are unique and their provider exists.             *)
(***************************************************************************)
ModelForms == [provider : ProviderIds, upstream : Upstreams,
               route : Routes \cup {None}]

ModelFrom(form) ==
  [provider |-> form.provider, upstream |-> form.upstream,
   route    |-> IF form.route = None
                THEN DefaultRoute[form.provider, form.upstream] ELSE form.route]

\* The row may be stored under this id.
Fits(m, row) ==
  /\ row.provider \in DOMAIN providers
  /\ \A n \in DOMAIN models \ {m} : models[n].route # row.route

CreateModel(m, form) ==
  /\ m \notin DOMAIN models
  /\ Fits(m, ModelFrom(form))
  /\ models' = [n \in DOMAIN models \cup {m} |->
                  IF n = m THEN ModelFrom(form) ELSE models[n]]
  /\ Count
  /\ UNCHANGED <<providers, limits, deleting, seeding>>

UpdateModel(m, form) ==
  /\ m \in DOMAIN models
  /\ Fits(m, ModelFrom(form))
  /\ models' = [models EXCEPT ![m] = ModelFrom(form)]
  /\ Count
  /\ UNCHANGED <<providers, limits, deleting, seeding>>

\* Mutant of LimitsWithout: routes are forgotten.
LimitsWithoutRoutes(rows, gone) ==
  {l \in DOMAIN limits :
     \/ limits[l].table = "budgets"
     \/ /\ ~(limits[l].scope = "model" /\ \E m \in rows : limits[l].value = m.upstream)
        /\ ~(limits[l].scope = "provider" /\ limits[l].value \in gone)}

\* The limits that stay when these models and providers go: a rate limit may
\* name a model by its route or by its name at the provider.  (It may name it
\* by its id too, which no request is held to.)
LimitsWithout(rows, gone) ==
  {l \in DOMAIN limits :
     \/ limits[l].table = "budgets"
     \/ /\ ~(limits[l].scope = "model"
               /\ \E m \in rows : limits[l].value \in {m.route, m.upstream})
        /\ ~(limits[l].scope = "provider" /\ limits[l].value \in gone)}

\* DeleteModel reads the row for its names, then removes it in a transaction.
ReadToDelete(a, m) ==
  /\ deleting[a] = None
  /\ m \in DOMAIN models
  /\ deleting' = [deleting EXCEPT ![a] = [id |-> m, row |-> models[m]]]
  /\ Count
  /\ UNCHANGED <<providers, models, limits, seeding>>

DeleteModel(a) ==
  /\ deleting[a] # None
  /\ deleting' = [deleting EXCEPT ![a] = None]
  /\ LET d == deleting[a] IN
     IF d.id \in DOMAIN models
     THEN /\ models' = Restrict(models, DOMAIN models \ {d.id})
          /\ limits' = Restrict(limits, LimitsWithout({d.row}, {}))
     ELSE UNCHANGED <<models, limits>>
  /\ UNCHANGED <<providers, seeding, ops>>

ModelsOf(p) == {m \in DOMAIN models : models[m].provider = p}

\* Mutant of DeleteProvider: nothing goes with it.
DeleteProviderOnly(p) ==
  /\ p \in DOMAIN providers
  /\ providers' = Restrict(providers, DOMAIN providers \ {p})
  /\ limits' = Restrict(limits,
                 LimitsWithout({models[m] : m \in ModelsOf(p)}, {p}))
  /\ Count
  /\ UNCHANGED <<models, deleting, seeding>>

\* The models of the provider go with it.
DeleteProvider(p) ==
  /\ p \in DOMAIN providers
  /\ providers' = Restrict(providers, DOMAIN providers \ {p})
  /\ models' = Restrict(models, DOMAIN models \ ModelsOf(p))
  /\ limits' = Restrict(limits,
                 LimitsWithout({models[m] : m \in ModelsOf(p)}, {p}))
  /\ Count
  /\ UNCHANGED <<deleting, seeding>>

(***************************************************************************)
(* A start of a node inserts the providers that are missing, and then the  *)
(* models whose id and route are free.  It fails if the provider has gone  *)
(* in between.                                                             *)
(***************************************************************************)
SeededProvider == [method |-> SeedType, secrets |-> [s \in Slots |-> None]]
SeededModel ==
  [provider |-> SeedProvider, upstream |-> SeedUpstream,
   route    |-> DefaultRoute[SeedProvider, SeedUpstream]]

SeedProviders ==
  /\ ~seeding
  /\ seeding' = TRUE
  /\ providers' = [p \in DOMAIN providers \cup {SeedProvider} |->
                     IF p \in DOMAIN providers THEN providers[p] ELSE SeededProvider]
  /\ Count
  /\ UNCHANGED <<models, limits, deleting>>

SeedModels ==
  /\ seeding
  /\ seeding' = FALSE
  /\ IF SeedModel \notin DOMAIN models /\ Fits(SeedModel, SeededModel)
     THEN models' = [m \in DOMAIN models \cup {SeedModel} |->
                       IF m = SeedModel THEN SeededModel ELSE models[m]]
     ELSE UNCHANGED models
  /\ UNCHANGED <<providers, limits, deleting, ops>>

\* The database as the first start has left it.
CatalogInit ==
  /\ providers = [p \in {SeedProvider} |-> SeededProvider]
  /\ models = [m \in {SeedModel} |-> SeededModel]
  /\ limits = [l \in {} |-> None]
  /\ deleting = [a \in Admins |-> None]
  /\ seeding = FALSE
  /\ ops = 0

CatalogNext ==
  \/ \E p \in ProviderIds :
       \/ \E form \in Forms : CreateProvider(p, form) \/ UpdateProvider(p, form)
       \/ DeleteProvider(p)
  \/ \E m \in ModelIds, form \in ModelForms :
       CreateModel(m, form) \/ UpdateModel(m, form)
  \/ \E l \in LimitIds :
       \/ \E row \in LimitRows : CreateLimit(l, row) \/ UpdateLimit(l, row)
       \/ DeleteLimit(l)
  \/ \E v \in People : DeletePerson(v)
  \/ \E a \in Admins : DeleteModel(a) \/ \E m \in ModelIds : ReadToDelete(a, m)
  \/ SeedProviders
  \/ SeedModels

\* The methods that may have been the provider's when a secret of it was entered.
Family(method) == IF method \in DirectTypes THEN DirectTypes ELSE {method}

(***************************************************************************)
(* Whatever administrators do one after another, a provider stores a       *)
(* secret only in the column that it is called with now, and there one     *)
(* that was entered for Bedrock and this very method, or, if it is called  *)
(* directly, for some type that is: a change to Bedrock, from Bedrock, or  *)
(* among Bedrock's methods leaves no secret behind ("stale credentials do  *)
(* not linger", httpapi/providers.go, providerFromRequest).  A change      *)
(* among the other types may: they share the API key, which is kept when   *)
(* the form leaves it blank.                                               *)
(***************************************************************************)
NoStaleSecrets ==
  \A p \in DOMAIN providers, s \in Slots :
    LET provider == providers[p]
    IN  provider.secrets[s] # None =>
          s \in Uses(provider.method) /\ provider.secrets[s] \in Family(provider.method)

DeletesAsRead ==
  \A a \in Admins : deleting[a] # None /\ deleting[a].id \in DOMAIN models
                      => deleting[a].row = models[deleting[a].id]

GoneModels    == DOMAIN models \ DOMAIN models'
GoneProviders == DOMAIN providers \ DOMAIN providers'

\* A limit on something that has gone, and one that no model is held to.
Orphaned(limit) ==
  \/ limit.scope = "provider" /\ limit.value \in GoneProviders
  \/ limit.scope = "model" /\ \E m \in GoneModels : limit.value = models[m].route
Idle(limit) ==
  /\ limit.table = "rate_limits" /\ limit.scope # "person"
  /\ \A m \in DOMAIN models' : ~Binds(limit, models'[m])

LimitsGoAlong ==
  DeletesAsRead /\ GoneModels \cup GoneProviders # {} =>
    \A l \in DOMAIN limits :
      IF Orphaned(limits[l]) THEN l \notin DOMAIN limits'
                             ELSE l \in DOMAIN limits' \/ Idle(limits[l])

(***************************************************************************)
(* When a model or a provider is deleted, the rate limits on it and on the *)
(* provider's models go as well, so that a later one of the same name does *)
(* not meet them; no other limit goes that holds a model which stays.      *)
(* This is so unless somebody changes the model after the deletion has     *)
(* read it (store/models.go, DeleteModel; store/providers.go,              *)
(* DeleteProvider).                                                        *)
(***************************************************************************)
DeletionTakesItsLimits == [][LimitsGoAlong]_catalogVars
=============================================================================

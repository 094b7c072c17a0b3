------------------------ MODULE AdministrationProofs ------------------------
(***************************************************************************)
(* Proofs about Administration: the catalog, the configuration exports and *)
(* the API keys, for any providers, models, limits, administrators,        *)
(* exports, keys, owners, handlers and bounds.                             *)
(***************************************************************************)
EXTENDS Administration, TLAPS

-----------------------------------------------------------------------------
\* A behaviour of the whole is one of each part: the other part rests.
LEMMA PartsImplemented == AdministrationSpec => Spec /\ KeysSpec
<1>1. AdministrationInit => Init /\ KeysInit
  BY DEF AdministrationInit
<1>2. [AdministrationNext]_AdministrationVars => [Next]_vars /\ [KeysNext]_keyVars
  BY DEF AdministrationNext, AdministrationVars
<1> QED
  BY <1>1, <1>2, PTL DEF AdministrationSpec, Spec, KeysSpec

-----------------------------------------------------------------------------
(***************************************************************************)
(* Secrets.  What is stored is in a column that the present method uses    *)
(* and was entered for a method of its family; as no two families use one  *)
(* column, an update that keeps a secret cannot keep it for another.       *)
(***************************************************************************)
Stored(provider) ==
  \A s \in Slots : provider.secrets[s] # None =>
     s \in Uses(provider.method) /\ provider.secrets[s] \in Family(provider.method)
SecretsInv ==
  \A p \in DOMAIN providers : providers[p].method \in Methods /\ Stored(providers[p])

LEMMA UsesApart ==
  ASSUME NEW a \in Methods, NEW b \in Methods, NEW s \in Uses(a), s \in Uses(b)
  PROVE  Family(a) = Family(b)
BY CatalogAssumption DEF Methods, Uses, Family

LEMMA SubmittedStored ==
  ASSUME NEW form \in Forms, NEW s \in Slots, Submitted(form)[s] # None
  PROVE  s \in Uses(form.method) /\ Submitted(form)[s] \in Family(form.method)
BY DEF Submitted, Family

LEMMA SeededStored == SeededProvider.method \in Methods /\ Stored(SeededProvider)
BY CatalogAssumption DEF SeededProvider, Stored, Methods

LEMMA SecretsInit == CatalogInit => SecretsInv
BY SeededStored DEF CatalogInit, SecretsInv

LEMMA SecretsCreate ==
  ASSUME SecretsInv, NEW p \in ProviderIds, NEW form \in Forms, CreateProvider(p, form)
  PROVE  SecretsInv'
<1> DEFINE new == [method |-> form.method, secrets |-> Submitted(form)]
<1>1. new.method \in Methods /\ Stored(new)
  BY SubmittedStored DEF Forms, Stored
<1>2. \A q \in DOMAIN providers' :
        providers'[q] = IF q = p THEN new ELSE providers[q]
  BY DEF CreateProvider
<1>3. DOMAIN providers' = DOMAIN providers \cup {p}
  BY DEF CreateProvider
<1> HIDE DEF new
<1>4. \A q \in DOMAIN providers' : providers'[q].method \in Methods /\ Stored(providers'[q])
  BY <1>1, <1>2, <1>3 DEF SecretsInv
<1> QED
  BY <1>4 DEF SecretsInv, Stored

LEMMA SecretsUpdate ==
  ASSUME SecretsInv, NEW p \in ProviderIds, NEW form \in Forms, UpdateProvider(p, form)
  PROVE  SecretsInv'
<1> DEFINE old == providers[p]
           new == [method  |-> form.method,
                   secrets |-> [s \in Slots |-> IF s \in Overwritten(form)
                                                THEN Submitted(form)[s] ELSE old.secrets[s]]]
<1>1. form.method \in Methods /\ new.method = form.method
  BY DEF Forms
<1>2. ASSUME NEW s \in Slots, new.secrets[s] # None
      PROVE  s \in Uses(form.method) /\ new.secrets[s] \in Family(form.method)
  <2>1. CASE s \in Overwritten(form)
    BY <1>2, <2>1, SubmittedStored
  <2>2. CASE s \notin Overwritten(form)
    <3>1. s \in Uses(form.method) /\ new.secrets[s] = old.secrets[s]
      BY <2>2 DEF Overwritten
    <3>2. old.method \in Methods /\ s \in Uses(old.method)
          /\ old.secrets[s] \in Family(old.method)
      BY <1>2, <3>1 DEF SecretsInv, Stored, UpdateProvider
    <3> QED
      BY <1>1, <3>1, <3>2, UsesApart
  <2> QED
    BY <2>1, <2>2
<1>3. Stored(new)
  BY <1>2 DEF Stored
<1>4. providers' = [providers EXCEPT ![p] = new]
  BY DEF UpdateProvider
<1> HIDE DEF new
<1>5. \A q \in DOMAIN providers' : providers'[q].method \in Methods /\ Stored(providers'[q])
  <2> TAKE q \in DOMAIN providers'
  <2>1. q \in DOMAIN providers /\ providers'[q] = IF q = p THEN new ELSE providers[q]
    BY <1>4
  <2> QED
    BY <1>1, <1>3, <2>1 DEF SecretsInv
<1> QED
  BY <1>5 DEF SecretsInv, Stored

\* The other steps remove rows, insert seeded ones or leave the table alone.
LEMMA SecretsOther ==
  ASSUME SecretsInv,
         DOMAIN providers' \subseteq DOMAIN providers \cup {SeedProvider},
         \A p \in DOMAIN providers' :
           providers'[p] = IF p \in DOMAIN providers THEN providers[p] ELSE SeededProvider
  PROVE  SecretsInv'
<1>1. \A q \in DOMAIN providers' : providers'[q].method \in Methods /\ Stored(providers'[q])
  BY SeededStored DEF SecretsInv
<1> QED
  BY <1>1 DEF SecretsInv, Stored

LEMMA SecretsStep == SecretsInv /\ [Next]_vars => SecretsInv'
<1> SUFFICES ASSUME SecretsInv, [Next]_vars PROVE SecretsInv'
  OBVIOUS
<1>1. CASE UNCHANGED providers
  BY <1>1 DEF SecretsInv, Stored
<1>2. ASSUME NEW p \in ProviderIds, NEW form \in Forms, CreateProvider(p, form)
      PROVE  SecretsInv'
  BY <1>2, SecretsCreate
<1>3. ASSUME NEW p \in ProviderIds, NEW form \in Forms, UpdateProvider(p, form)
      PROVE  SecretsInv'
  BY <1>3, SecretsUpdate
<1>4. ASSUME NEW p \in ProviderIds, DeleteProvider(p)
      PROVE  SecretsInv'
  BY <1>4, SecretsOther DEF DeleteProvider, Restrict
<1>5. CASE SeedProviders
  BY <1>5, SecretsOther DEF SeedProviders
<1>6. CASE CatalogNext
  BY <1>1, <1>2, <1>3, <1>4, <1>5, <1>6
     DEF CatalogNext, CreateModel, UpdateModel, CreateLimit, UpdateLimit, DeleteLimit,
         DeletePerson, DeleteModel, ReadToDelete, SeedModels
<1> QED
  BY <1>1, <1>6 DEF Next, Administer, vars, catalogVars

\* Whatever changes of type, method and secrets providers go through, none keeps a secret
\* in a column that it is not called with now, and none that was entered for another method
\* of Bedrock, or for Bedrock if it is called directly (providerFromRequest,
\* UpdateProvider).
THEOREM NoStaleSecretsEver == AdministrationSpec => []NoStaleSecrets
<1>1. Init => SecretsInv
  BY SecretsInit DEF Init
<1>2. SecretsInv => NoStaleSecrets
  BY DEF SecretsInv, Stored, NoStaleSecrets
<1> QED
  BY PartsImplemented, <1>1, <1>2, SecretsStep, PTL DEF Spec

-----------------------------------------------------------------------------
(***************************************************************************)
(* Exports.  Models have providers at every moment, because the database   *)
(* removes a model with its provider.                                      *)
(***************************************************************************)
Places == {"providers", "models", "key", "create", "write", "signed", "failed"}
Bundles == [at : Places, holds : SUBSET ProviderIds, refersTo : SUBSET ProviderIds]
ExportType ==
  /\ export \in [Exports -> Bundles]
  /\ since \in [Exports -> SUBSET ProviderIds]
ReferencesInv ==
  /\ DOMAIN providers \subseteq ProviderIds
  /\ \A m \in DOMAIN models : models[m].provider \in DOMAIN providers

LEMMA ReferencesInit == CatalogInit => ReferencesInv
<1> SUFFICES ASSUME CatalogInit PROVE ReferencesInv
  OBVIOUS
<1>1. DOMAIN providers = {SeedProvider} /\ SeedProvider \in ProviderIds
  BY CatalogAssumption DEF CatalogInit
<1>2. \A m \in DOMAIN models : models[m].provider = SeedProvider
  BY DEF CatalogInit, SeededModel
<1> QED
  BY <1>1, <1>2 DEF ReferencesInv

LEMMA ReferencesStep == ReferencesInv /\ [Next]_vars => ReferencesInv'
<1> SUFFICES ASSUME ReferencesInv, [Next]_vars PROVE ReferencesInv'
  OBVIOUS
<1> USE DEF ReferencesInv
<1>1. CASE UNCHANGED <<providers, models>>
  BY <1>1
<1>2. ASSUME NEW p \in ProviderIds, NEW form \in Forms,
             CreateProvider(p, form) \/ UpdateProvider(p, form)
      PROVE  ReferencesInv'
  <2>1. DOMAIN providers' \in {DOMAIN providers, DOMAIN providers \cup {p}} /\ models' = models
    BY <1>2 DEF CreateProvider, UpdateProvider
  <2> QED
    BY <2>1
<1>3. ASSUME NEW p \in ProviderIds, DeleteProvider(p)
      PROVE  ReferencesInv'
  BY <1>3 DEF DeleteProvider, Restrict, ModelsOf
<1>4. CASE SeedProviders
  BY <1>4, CatalogAssumption DEF SeedProviders
<1>5. ASSUME NEW m \in ModelIds, NEW form \in ModelForms,
             CreateModel(m, form) \/ UpdateModel(m, form)
      PROVE  ReferencesInv'
  <2>1. /\ providers' = providers /\ ModelFrom(form).provider \in DOMAIN providers
        /\ DOMAIN models' \subseteq DOMAIN models \cup {m}
        /\ \A n \in DOMAIN models' :
             models'[n] = IF n = m THEN ModelFrom(form) ELSE models[n]
    BY <1>5 DEF CreateModel, UpdateModel, Fits
  <2> QED
    BY <2>1
<1>6. ASSUME NEW a \in Admins, DeleteModel(a)
      PROVE  ReferencesInv'
  BY <1>6 DEF DeleteModel, Restrict
<1>7. CASE SeedModels
  <2>1. CASE models' = models
    BY <1>7, <2>1 DEF SeedModels
  <2>2. CASE models' # models
    <3>1. SeededModel.provider \in DOMAIN providers /\ providers' = providers
      BY <1>7, <2>2 DEF SeedModels, Fits
    <3> QED
      BY <1>7, <2>2, <3>1 DEF SeedModels
  <2> QED
    BY <2>1, <2>2
<1>8. CASE CatalogNext
  BY <1>1, <1>2, <1>3, <1>4, <1>5, <1>6, <1>7, <1>8
     DEF CatalogNext, CreateLimit, UpdateLimit, DeleteLimit, DeletePerson, ReadToDelete
<1> QED
  BY <1>1, <1>8 DEF Next, Administer, vars, catalogVars

\* An export that has read the providers lacks only those created since; they hold for the
\* models when it reads them, and once read the bundle and the history only grow.
BundleInv(e) ==
  /\ export[e].at = "models" => DOMAIN providers \subseteq export[e].holds \cup since[e]
  /\ export[e].at \in {"key", "create", "write", "signed"} =>
       export[e].refersTo \subseteq export[e].holds \cup since[e]
BundlesInv == ExportType /\ \A e \in Exports : BundleInv(e)

LEMMA ToType ==
  ASSUME ExportType, NEW e \in Exports, NEW place \in Places, To(e, place)
  PROVE  /\ export' \in [Exports -> Bundles]
         /\ \A f \in Exports : /\ export'[f].holds = export[f].holds
                               /\ export'[f].refersTo = export[f].refersTo
                               /\ export'[f].at = IF f = e THEN place ELSE export[f].at
<1>1. [export[e] EXCEPT !.at = place] \in Bundles
  BY DEF ExportType, Bundles
<1>2. export' = [export EXCEPT ![e] = [export[e] EXCEPT !.at = place]]
  BY DEF To
<1> QED
  BY <1>1, <1>2 DEF ExportType, Bundles

LEMMA BundlesStep ==
  ASSUME BundlesInv, ReferencesInv, ReferencesInv', [Next]_vars
  PROVE  BundlesInv'
<1> USE DEF BundlesInv
<1>1. CASE UNCHANGED <<providers, export, since>>
  BY <1>1 DEF ExportType, BundleInv
<1>2. CASE Administer
  <2>1. /\ export' = export
        /\ since' = [e \in Exports |-> since[e] \cup (DOMAIN providers' \ DOMAIN providers)]
    BY <1>2 DEF Administer
  <2>2. DOMAIN providers' \subseteq ProviderIds
    BY DEF ReferencesInv
  <2>3. ExportType'
    BY <2>1, <2>2 DEF ExportType
  <2>4. ASSUME NEW e \in Exports
        PROVE  BundleInv(e)'
    <3>1. since'[e] = since[e] \cup (DOMAIN providers' \ DOMAIN providers)
      BY <2>1
    <3> QED
      BY <2>1, <3>1 DEF BundleInv
  <2> QED
    BY <2>3, <2>4
<1>3. ASSUME NEW e \in Exports, ReadProviders(e), providers' = providers
      PROVE  BundlesInv'
  <2> DEFINE read == [at |-> "models", holds |-> DOMAIN providers, refersTo |-> {}]
  <2>1. /\ export' = [export EXCEPT ![e] = read]
        /\ since' = [since EXCEPT ![e] = {}]
    BY <1>3 DEF ReadProviders
  <2>2. read \in Bundles
    BY DEF Bundles, Places, ReferencesInv
  <2>3. ExportType'
    BY <2>1, <2>2 DEF ExportType
  <2>4. ASSUME NEW f \in Exports
        PROVE  BundleInv(f)'
    <3>1. CASE f = e
      BY <1>3, <2>1, <3>1 DEF BundleInv, ExportType
    <3>2. CASE f # e
      BY <1>3, <2>1, <3>2 DEF BundleInv, ExportType
    <3> QED
      BY <3>1, <3>2
  <2> QED
    BY <2>3, <2>4
<1>4. ASSUME NEW e \in Exports, ReadModels(e), providers' = providers
      PROVE  BundlesInv'
  <2> DEFINE refers == {models[m].provider : m \in DOMAIN models}
             read == [at |-> "key", holds |-> export[e].holds, refersTo |-> refers]
  <2>1. /\ export' = [export EXCEPT ![e] = read]
        /\ since' = since /\ export[e].at = "models"
    BY <1>4 DEF ReadModels
  <2>2. refers \subseteq DOMAIN providers
    BY DEF ReferencesInv
  <2>3. refers \subseteq export[e].holds \cup since[e]
    BY <2>1, <2>2 DEF BundleInv
  <2> HIDE DEF refers
  <2>4. read \in Bundles
    BY <2>2 DEF Bundles, Places, ReferencesInv, ExportType
  <2>5. ExportType'
    BY <2>1, <2>4 DEF ExportType
  <2>6. ASSUME NEW f \in Exports
        PROVE  BundleInv(f)'
    <3>1. CASE f = e
      BY <2>1, <2>3, <3>1 DEF BundleInv, ExportType
    <3>2. CASE f # e
      BY <1>4, <2>1, <3>2 DEF BundleInv, ExportType
    <3> QED
      BY <3>1, <3>2
  <2> QED
    BY <2>5, <2>6
<1>5. ASSUME NEW e \in Exports, NEW place \in {"create", "write", "signed", "failed"}, To(e, place),
             export[e].at \in {"key", "create", "write"} \/ place = "failed",
             providers' = providers, since' = since
      PROVE  BundlesInv'
  <2>1. place \in Places
    BY DEF Places
  <2>2. ExportType'
    BY <1>5, <2>1, ToType DEF ExportType
  <2>3. ASSUME NEW f \in Exports
        PROVE  BundleInv(f)'
    BY <1>5, <2>1, ToType DEF BundleInv
  <2> QED
    BY <2>2, <2>3
<1>6. CASE ExportNext /\ UNCHANGED catalogVars
  <2>1. providers' = providers
    BY <1>6 DEF catalogVars
  <2>2. PICK e \in Exports : ReadProviders(e) \/ ReadModels(e) \/ ReadKey(e) \/ CreateKey(e)
                               \/ WriteKey(e) \/ BreakOff(e)
    BY <1>6 DEF ExportNext
  <2>3. CASE ReadKey(e) \/ CreateKey(e) \/ WriteKey(e) \/ BreakOff(e)
    <3>1. /\ since' = since
          /\ export[e].at \in {"key", "create", "write"} \/ To(e, "failed")
          /\ \E place \in {"create", "write", "signed", "failed"} : To(e, place)
      BY <2>3 DEF ReadKey, CreateKey, WriteKey, BreakOff, UseKeyFile, Sign, Fail
    <3> QED
      BY <1>5, <2>1, <3>1
  <2> QED
    BY <1>3, <1>4, <2>1, <2>2, <2>3
<1> QED
  BY <1>1, <1>2, <1>6 DEF Next, vars, catalogVars, exportVars

LEMMA BundlesInit == Init => BundlesInv
<1>1. ExportInit => ExportType
  BY DEF ExportInit, ExportType, New, Bundles, Places
<1>2. ExportInit => \A e \in Exports : BundleInv(e)
  BY DEF ExportInit, BundleInv, New
<1> QED
  BY <1>1, <1>2 DEF Init, BundlesInv

\* A bundle lacks no provider of its models but one that was created while it was read,
\* whatever administrators do between its queries (adminConfigExportPayload).
THEOREM BundlesFitTogether == AdministrationSpec => []ModelsComeWithProviders
<1>1. Init => ReferencesInv /\ BundlesInv
  BY ReferencesInit, BundlesInit DEF Init
<1>2. ReferencesInv /\ BundlesInv /\ [Next]_vars => (ReferencesInv /\ BundlesInv)'
  BY ReferencesStep, BundlesStep
<1>3. BundlesInv => ModelsComeWithProviders
  BY DEF BundlesInv, BundleInv, ModelsComeWithProviders
<1> QED
  BY PartsImplemented, <1>1, <1>2, <1>3, PTL DEF Spec

-----------------------------------------------------------------------------
(***************************************************************************)
(* The signing key.  Until the file holds a key, nothing was signed; the   *)
(* one export that creates the file is the only one that writes to it.     *)
(***************************************************************************)
KeyInv ==
  /\ signers \subseteq Exports /\ OneSigner
  /\ keyFile \in Exports \cup {None, Empty}
  /\ \A e \in Exports : export[e].at = "write" =>
       keyFile = Empty /\ \A f \in Exports : export[f].at = "write" => f = e

LEMMA KeyStep ==
  ASSUME ExportType, KeyInv, [Next]_vars
  PROVE  KeyInv'
<1> USE DEF KeyInv
<1>1. CASE UNCHANGED <<keyFile, export, signers>>
  BY <1>1 DEF OneSigner
<1>2. ASSUME NEW e \in Exports, ReadProviders(e) \/ ReadModels(e)
      PROVE  KeyInv'
  <2>1. /\ UNCHANGED <<keyFile, signers>>
        /\ \A f \in Exports : export'[f].at = "write" => export[f].at = "write"
    BY <1>2 DEF ReadProviders, ReadModels, ExportType
  <2> QED
    BY <2>1 DEF OneSigner
<1>3. ASSUME NEW e \in Exports, NEW place \in {"create", "failed"}, To(e, place),
             UNCHANGED <<keyFile, signers>>
      PROVE  KeyInv'
  <2>1. \A f \in Exports : export'[f].at = "write" => export[f].at = "write"
    BY <1>3, ToType DEF Places
  <2> QED
    BY <1>3, <2>1 DEF OneSigner
<1>4. ASSUME NEW e \in Exports, keyFile # None, UseKeyFile(e)
      PROVE  KeyInv'
  <2>1. CASE keyFile = Empty
    BY <1>3, <1>4, <2>1 DEF UseKeyFile, Fail
  <2>2. CASE keyFile # Empty
    <3>1. /\ keyFile' = keyFile /\ signers' = signers \cup {keyFile} /\ keyFile \in Exports
          /\ To(e, "signed")
      BY <1>4, <2>2 DEF UseKeyFile, Sign
    <3>2. \A f \in Exports : export'[f].at # "write"
      BY <2>2, <3>1, ToType DEF Places
    <3> QED
      BY <3>1, <3>2 DEF OneSigner
  <2> QED
    BY <2>1, <2>2
<1>5. ASSUME NEW e \in Exports, ReadKey(e)
      PROVE  KeyInv'
  BY <1>3, <1>4, <1>5 DEF ReadKey
<1>6. ASSUME NEW e \in Exports, CreateKey(e)
      PROVE  KeyInv'
  <2>1. CASE keyFile # None
    BY <1>4, <1>6, <2>1 DEF CreateKey
  <2>2. CASE keyFile = None
    <3>1. keyFile' = Empty /\ To(e, "write") /\ signers' = signers
      BY <1>6, <2>2 DEF CreateKey
    <3>2. signers = {} /\ \A f \in Exports : export[f].at # "write"
      BY <2>2, KeysAssumption DEF OneSigner
    <3>3. \A f \in Exports : export'[f].at = "write" => f = e
      BY <3>1, <3>2, ToType DEF Places
    <3> QED
      BY <3>1, <3>2, <3>3 DEF OneSigner
  <2> QED
    BY <2>1, <2>2
<1>7. ASSUME NEW e \in Exports, WriteKey(e)
      PROVE  KeyInv'
  <2>1. /\ keyFile = Empty /\ keyFile' = e /\ signers' = signers \cup {e} /\ To(e, "signed")
        /\ \A f \in Exports : export[f].at = "write" => f = e
    BY <1>7 DEF WriteKey
  <2>2. signers = {}
    BY <2>1, KeysAssumption DEF OneSigner
  <2>3. \A f \in Exports : export'[f].at # "write"
    BY <2>1, ToType DEF Places
  <2> QED
    BY <2>1, <2>2, <2>3 DEF OneSigner
<1>8. ASSUME NEW e \in Exports, BreakOff(e)
      PROVE  KeyInv'
  BY <1>3, <1>8 DEF BreakOff, Fail
<1> QED
  BY <1>1, <1>2, <1>5, <1>6, <1>7, <1>8 DEF Next, Administer, ExportNext, vars, exportVars

\* One public key verifies every bundle that was handed out, however many first exports
\* race for the key file, and wherever they break off (adminConfigSigningKey).
THEOREM OneKeySigns == AdministrationSpec => []OneSigner
<1>1. Init => ReferencesInv /\ BundlesInv /\ KeyInv
  <2>1. Init => KeyInv
    BY DEF Init, ExportInit, KeyInv, OneSigner, New
  <2> QED
    BY <2>1, ReferencesInit, BundlesInit DEF Init
<1>2. ReferencesInv /\ BundlesInv /\ KeyInv /\ [Next]_vars
        => (ReferencesInv /\ BundlesInv /\ KeyInv)'
  BY ReferencesStep, BundlesStep, KeyStep DEF BundlesInv
<1>3. KeyInv => OneSigner
  BY DEF KeyInv
<1> QED
  BY PartsImplemented, <1>1, <1>2, <1>3, PTL DEF Spec

-----------------------------------------------------------------------------
(***************************************************************************)
(* Limits.  Where no route is the name of a model at its provider, the     *)
(* limits that go with a model or a provider hold no other.                *)
(***************************************************************************)
RoutesApart == Routes \cap Upstreams = {}
NamesInv ==
  /\ \A l \in DOMAIN limits : limits[l] \in LimitRows
  /\ \A m \in DOMAIN models : models[m].route \in Routes /\ models[m].upstream \in Upstreams

LEMMA ModelFromNames ==
  ASSUME NEW form \in ModelForms
  PROVE  ModelFrom(form).route \in Routes /\ ModelFrom(form).upstream \in Upstreams
<1>1. form.provider \in ProviderIds /\ form.upstream \in Upstreams /\ form.route \in Routes \cup {None}
  BY DEF ModelForms
<1>2. \A p \in ProviderIds, u \in Upstreams : DefaultRoute[p, u] \in Routes
  BY CatalogAssumption
<1> QED
  BY <1>1, <1>2 DEF ModelFrom

LEMMA SeededNames == SeededModel.route \in Routes /\ SeededModel.upstream \in Upstreams
<1>1. \A p \in ProviderIds, u \in Upstreams : DefaultRoute[p, u] \in Routes
  BY CatalogAssumption
<1> QED
  BY <1>1, CatalogAssumption DEF SeededModel

LEMMA NamesInit == CatalogInit => NamesInv
<1> SUFFICES ASSUME CatalogInit PROVE NamesInv
  OBVIOUS
<1>1. DOMAIN limits = {} /\ \A m \in DOMAIN models : models[m] = SeededModel
  BY DEF CatalogInit
<1> QED
  BY <1>1, SeededNames DEF NamesInv

LEMMA NamesStep == NamesInv /\ [Next]_vars => NamesInv'
<1> SUFFICES ASSUME NamesInv, [Next]_vars PROVE NamesInv'
  OBVIOUS
<1> USE DEF NamesInv
<1>1. CASE UNCHANGED <<limits, models>>
  BY <1>1
<1>2. ASSUME NEW l \in LimitIds, NEW row \in LimitRows,
             CreateLimit(l, row) \/ UpdateLimit(l, row)
      PROVE  NamesInv'
  <2>1. models' = models /\ \A k \in DOMAIN limits' :
          limits'[k] = row \/ (k \in DOMAIN limits /\ limits'[k] = limits[k])
    BY <1>2 DEF CreateLimit, UpdateLimit
  <2> QED
    BY <2>1
<1>3. ASSUME NEW m \in ModelIds, NEW form \in ModelForms,
             CreateModel(m, form) \/ UpdateModel(m, form)
      PROVE  NamesInv'
  <2>1. limits' = limits /\ \A n \in DOMAIN models' :
          models'[n] = ModelFrom(form) \/ (n \in DOMAIN models /\ models'[n] = models[n])
    BY <1>3 DEF CreateModel, UpdateModel
  <2> QED
    BY <2>1, ModelFromNames
<1>4. CASE SeedModels
  <2>1. limits' = limits /\ \A n \in DOMAIN models' :
          models'[n] = SeededModel \/ (n \in DOMAIN models /\ models'[n] = models[n])
    BY <1>4 DEF SeedModels
  <2> QED
    BY <2>1, SeededNames
<1>5. ASSUME NEW l \in LimitIds, DeleteLimit(l)
      PROVE  NamesInv'
  BY <1>5 DEF DeleteLimit, Restrict
<1>6. ASSUME NEW v \in People, DeletePerson(v)
      PROVE  NamesInv'
  BY <1>6 DEF DeletePerson, Restrict
<1>7. ASSUME NEW a \in Admins, DeleteModel(a)
      PROVE  NamesInv'
  BY <1>7 DEF DeleteModel, Restrict, LimitsWithout
<1>8. ASSUME NEW p \in ProviderIds, DeleteProvider(p)
      PROVE  NamesInv'
  BY <1>8 DEF DeleteProvider, Restrict, LimitsWithout
<1>9. CASE CatalogNext
  BY <1>1, <1>2, <1>3, <1>4, <1>5, <1>6, <1>7, <1>8, <1>9
     DEF CatalogNext, CreateProvider, UpdateProvider, ReadToDelete, SeedProviders
<1> QED
  BY <1>1, <1>9 DEF Next, Administer, vars, catalogVars

LEMMA LimitRowKinds ==
  ASSUME NEW limit \in LimitRows, limit.scope # "person"
  PROVE  limit.table = "rate_limits"
BY DEF LimitRows, Scopes

\* What goes without being on something that has gone is on a name that is no route.
LEMMA NothingElseGoes ==
  ASSUME RoutesApart, NamesInv, NamesInv', NEW l \in DOMAIN limits,
         limits[l].scope = "model", limits[l].value \in Upstreams
  PROVE  Idle(limits[l])
<1>1. \A m \in DOMAIN models' : models'[m].route \notin Upstreams
  BY DEF NamesInv, RoutesApart
<1> QED
  BY <1>1, LimitRowKinds DEF Idle, Binds, NamesInv

LEMMA DeleteModelTakes ==
  ASSUME RoutesApart, NamesInv, NamesInv', NEW a \in Admins, DeleteModel(a)
  PROVE  LimitsGoAlong
<1> SUFFICES ASSUME DeletesAsRead, GoneModels \cup GoneProviders # {}, NEW l \in DOMAIN limits
             PROVE  IF Orphaned(limits[l]) THEN l \notin DOMAIN limits'
                                           ELSE l \in DOMAIN limits' \/ Idle(limits[l])
  BY DEF LimitsGoAlong
<1> DEFINE d == deleting[a]
<1>1. GoneProviders = {}
  BY DEF DeleteModel, GoneProviders
<1>2. d.id \in DOMAIN models
  BY <1>1 DEF DeleteModel, GoneModels
<1>3. d.row = models[d.id]
  BY <1>2 DEF DeletesAsRead, DeleteModel
<1>4. /\ GoneModels = {d.id}
      /\ DOMAIN limits' = LimitsWithout({d.row}, {})
  BY <1>2 DEF DeleteModel, Restrict, GoneModels
<1>5. l \in DOMAIN limits' <=> \/ limits[l].table = "budgets"
                               \/ ~(limits[l].scope = "model" /\ limits[l].value \in {d.row.route, d.row.upstream})
  BY <1>4 DEF LimitsWithout
<1>6. Orphaned(limits[l]) <=> limits[l].scope = "model" /\ limits[l].value = d.row.route
  BY <1>1, <1>3, <1>4 DEF Orphaned
<1>7. limits[l].scope = "model" => limits[l].table = "rate_limits"
  BY LimitRowKinds DEF NamesInv
<1>8. d.row.upstream \in Upstreams
  BY <1>2, <1>3 DEF NamesInv
<1> QED
  BY <1>5, <1>6, <1>7, <1>8, NothingElseGoes

LEMMA DeleteProviderTakes ==
  ASSUME RoutesApart, NamesInv, NamesInv', NEW p \in ProviderIds, DeleteProvider(p)
  PROVE  LimitsGoAlong
<1> SUFFICES ASSUME NEW l \in DOMAIN limits
             PROVE  IF Orphaned(limits[l]) THEN l \notin DOMAIN limits'
                                           ELSE l \in DOMAIN limits' \/ Idle(limits[l])
  BY DEF LimitsGoAlong
<1>1. GoneProviders = {p} /\ GoneModels = ModelsOf(p)
  BY DEF DeleteProvider, Restrict, GoneModels, GoneProviders, ModelsOf
<1>2. l \in DOMAIN limits' <=>
        \/ limits[l].table = "budgets"
        \/ /\ ~(limits[l].scope = "model" /\ \E m \in ModelsOf(p) :
                  limits[l].value \in {models[m].route, models[m].upstream})
           /\ ~(limits[l].scope = "provider" /\ limits[l].value = p)
  BY DEF DeleteProvider, Restrict, LimitsWithout
<1>3. Orphaned(limits[l]) <=>
        \/ limits[l].scope = "provider" /\ limits[l].value = p
        \/ limits[l].scope = "model" /\ \E m \in ModelsOf(p) : limits[l].value = models[m].route
  BY <1>1 DEF Orphaned
<1>4. limits[l].scope \in {"model", "provider"} => limits[l].table = "rate_limits"
  BY LimitRowKinds DEF NamesInv
<1>5. \A m \in ModelsOf(p) : models[m].upstream \in Upstreams
  BY DEF NamesInv, ModelsOf
<1> QED
  BY <1>2, <1>3, <1>4, <1>5, NothingElseGoes

\* Nothing goes in the other steps.
LEMMA OthersKeep ==
  ASSUME DOMAIN models \subseteq DOMAIN models', DOMAIN providers \subseteq DOMAIN providers'
  PROVE  LimitsGoAlong
BY DEF LimitsGoAlong, GoneModels, GoneProviders

\* The limits on what is deleted go along, and no other that holds anything (DeleteModel,
\* DeleteProvider), provided that no route is the name of a model at its provider.
THEOREM LimitsGoWithTheirs ==
  ASSUME RoutesApart
  PROVE  AdministrationSpec => DeletionTakesItsLimits
<1>1. Init => NamesInv
  BY NamesInit DEF Init
<1>2. NamesInv /\ NamesInv' /\ [Next]_vars => [LimitsGoAlong]_catalogVars
  <2> SUFFICES ASSUME NamesInv, NamesInv', [Next]_vars PROVE [LimitsGoAlong]_catalogVars
    OBVIOUS
  <2>1. CASE UNCHANGED catalogVars
    BY <2>1
  <2>2. CASE CatalogNext
    <3>1. CASE DOMAIN models \subseteq DOMAIN models' /\ DOMAIN providers \subseteq DOMAIN providers'
      BY <3>1, OthersKeep
    <3>2. CASE \E a \in Admins : DeleteModel(a)
      BY <3>2, DeleteModelTakes
    <3>3. CASE \E p \in ProviderIds : DeleteProvider(p)
      BY <3>3, DeleteProviderTakes
    <3> QED
      BY <2>2, <3>1, <3>2, <3>3
         DEF CatalogNext, CreateProvider, UpdateProvider, CreateModel, UpdateModel, CreateLimit,
             UpdateLimit, DeleteLimit, DeletePerson, ReadToDelete, SeedProviders, SeedModels
  <2> QED
    BY <2>1, <2>2 DEF Next, Administer, vars
<1> QED
  BY PartsImplemented, <1>1, <1>2, NamesStep, PTL DEF Spec, DeletionTakesItsLimits

-----------------------------------------------------------------------------
(***************************************************************************)
(* API keys.                                                               *)
(***************************************************************************)
KeysType ==
  /\ keys \in [KeyIds -> Rows]
  /\ session \in [Handlers -> Owners \cup {Nobody}]
  /\ made \in Nat /\ dead \subseteq Nat

\* Secrets are made in order, each for one key; what is in the row of an active key has
\* not died.  A secret that is 0 has not been made.
KeySecretsInv ==
  /\ \A k \in KeyIds : keys[k].secret <= made
  /\ \A n \in dead : n <= made
  /\ \A k \in KeyIds : Exists(k) => keys[k].secret # 0
  /\ \A j, k \in KeyIds : keys[j].secret = keys[k].secret => j = k \/ keys[j].secret = 0
  /\ \A k \in KeyIds : keys[k].active => Exists(k) /\ keys[k].secret \notin dead
KeysInv == KeysType /\ KeySecretsInv

LEMMA NoKeyType == NoKey \in Rows
BY DEF NoKey, Rows

LEMMA KeysInitInv == KeysInit => KeysInv
<1>1. KeysInit => KeysType
  BY NoKeyType DEF KeysInit, KeysType
<1>2. KeysInit => KeySecretsInv
  BY DEF KeysInit, KeySecretsInv, Exists, NoKey
<1> QED
  BY <1>1, <1>2 DEF KeysInv

-----------------------------------------------------------------------------
\* What a step may do to the rows: at most one of them changes, by one of these.

\* Flags that say nothing of the secret.
LEMMA FlagsChange ==
  ASSUME KeysInv, NEW k \in KeyIds, NEW row \in Rows,
         keys' = [keys EXCEPT ![k] = row],
         row.owner = keys[k].owner, row.secret = keys[k].secret, row.active = keys[k].active,
         UNCHANGED <<made, dead>>, session' \in [Handlers -> Owners \cup {Nobody}]
  PROVE  KeysInv'
<1>1. KeysType'
  BY DEF KeysInv, KeysType
<1>2. \A j \in KeyIds : /\ keys'[j].owner = keys[j].owner
                        /\ keys'[j].secret = keys[j].secret /\ keys'[j].active = keys[j].active
  BY DEF KeysInv, KeysType
<1>3. KeySecretsInv'
  BY <1>2 DEF KeysInv, KeySecretsInv, Exists
<1> QED
  BY <1>1, <1>3 DEF KeysInv

\* A new secret, for a new key or in place of an older secret.
LEMMA SecretMade ==
  ASSUME KeysInv, NEW k \in KeyIds, NEW row \in Rows,
         keys' = [keys EXCEPT ![k] = row],
         row.owner # Nobody, row.secret = made + 1,
         made' = made + 1, dead' \subseteq dead \cup {keys[k].secret},
         session' \in [Handlers -> Owners \cup {Nobody}]
  PROVE  KeysInv'
<1> USE DEF KeysInv, KeysType
<1>1. KeysType'
  BY DEF Rows
<1>2. \A j \in KeyIds : keys'[j] = IF j = k THEN row ELSE keys[j]
  OBVIOUS
<1>3. \A j \in KeyIds : keys[j].secret \in Nat /\ keys[j].secret <= made
  BY DEF Rows, KeySecretsInv
<1>4. \A n \in dead' : n \in Nat /\ n <= made
  BY <1>3 DEF KeySecretsInv
<1>5. made + 1 # 0 /\ made + 1 > made /\ \A n \in Nat : n <= made => n <= made + 1 /\ n # made + 1
  OBVIOUS
<1>6. (\A j \in KeyIds : keys[j].secret <= made)' /\ (\A n \in dead : n <= made)'
  BY <1>2, <1>3, <1>4, <1>5
<1>7. (\A j \in KeyIds : Exists(j) => keys[j].secret # 0)'
  BY <1>2, <1>5 DEF KeySecretsInv, Exists
<1>8. (\A i, j \in KeyIds : keys[i].secret = keys[j].secret => i = j \/ keys[i].secret = 0)'
  BY <1>2, <1>3, <1>5 DEF KeySecretsInv
<1>9. ASSUME NEW j \in KeyIds, keys'[j].active
      PROVE  Exists(j)' /\ keys'[j].secret \notin dead'
  <2>1. CASE j = k
    BY <1>2, <1>4, <1>5, <2>1 DEF Exists
  <2>2. CASE j # k
    <3>1. keys'[j] = keys[j] /\ Exists(j) /\ keys[j].secret \notin dead /\ keys[j].secret # 0
      BY <1>2, <1>9, <2>2 DEF KeySecretsInv
    <3>2. keys[j].secret # keys[k].secret
      BY <2>2, <3>1 DEF KeySecretsInv
    <3> QED
      BY <3>1, <3>2 DEF Exists
  <2> QED
    BY <2>1, <2>2
<1> QED
  BY <1>1, <1>6, <1>7, <1>8, <1>9 DEF KeySecretsInv

\* A secret dies with its key, or lives again.
LEMMA SecretSwitched ==
  ASSUME KeysInv, NEW k \in KeyIds, Exists(k), NEW row \in Rows,
         keys' = [keys EXCEPT ![k] = row],
         row.owner = keys[k].owner, row.secret = keys[k].secret,
         dead' = IF row.active THEN dead \ {keys[k].secret} ELSE dead \cup {keys[k].secret},
         made' = made, session' \in [Handlers -> Owners \cup {Nobody}]
  PROVE  KeysInv'
<1> USE DEF KeysInv, KeysType
<1>1. KeysType'
  BY DEF Rows
<1>2. \A j \in KeyIds : keys'[j] = IF j = k THEN row ELSE keys[j]
  OBVIOUS
<1>3. \A j \in KeyIds : keys'[j].owner = keys[j].owner /\ keys'[j].secret = keys[j].secret
  BY <1>2
<1>4. \A j \in KeyIds : keys[j].active => Exists(j) /\ keys[j].secret \notin dead
  BY DEF KeySecretsInv
<1>5. ASSUME NEW j \in KeyIds, keys'[j].active
      PROVE  Exists(j)' /\ keys'[j].secret \notin dead'
  <2>1. CASE j = k
    BY <1>2, <1>5, <2>1 DEF Exists
  <2>2. CASE j # k
    <3>1. keys'[j] = keys[j] /\ Exists(j) /\ keys[j].secret \notin dead /\ keys[j].secret # 0
      BY <1>2, <1>4, <1>5, <2>2 DEF KeySecretsInv
    <3>2. keys[j].secret # keys[k].secret
      BY <2>2, <3>1 DEF KeySecretsInv
    <3> QED
      BY <3>1, <3>2 DEF Exists
  <2> QED
    BY <2>1, <2>2
<1>6. KeySecretsInv'
  BY <1>3, <1>5 DEF KeySecretsInv, Exists
<1> QED
  BY <1>1, <1>6

\* The keys of a user die with the user.
LEMMA UserDeleted ==
  ASSUME KeysInv, NEW u \in Owners, DeleteUser(u)
  PROVE  KeysInv'
<1> USE DEF KeysInv, KeysType
<1> DEFINE gone == {j \in KeyIds : keys[j].owner = u}
<1>1. \A j \in KeyIds : [NoKey EXCEPT !.secret = keys[j].secret] \in Rows
  BY DEF NoKey, Rows
<1>2. /\ keys' = [j \in KeyIds |-> IF keys[j].owner # u THEN keys[j]
                                   ELSE [NoKey EXCEPT !.secret = keys[j].secret]]
      /\ dead' = dead \cup {keys[j].secret : j \in gone}
      /\ made' = made /\ session' = session
  BY DEF DeleteUser
<1>3. KeysType'
  BY <1>1, <1>2 DEF Rows
<1>4. \A j \in KeyIds : /\ keys'[j].secret = keys[j].secret
                        /\ keys'[j].owner # Nobody => j \notin gone /\ keys'[j] = keys[j]
                        /\ keys'[j].active => j \notin gone /\ keys'[j] = keys[j]
  BY <1>2 DEF NoKey
<1>5. \A n \in dead' : n <= made'
  BY <1>2 DEF KeySecretsInv
<1>6. ASSUME NEW j \in KeyIds, keys'[j].active
      PROVE  Exists(j)' /\ keys'[j].secret \notin dead'
  <2>1. keys'[j] = keys[j] /\ Exists(j) /\ keys[j].secret \notin dead /\ keys[j].secret # 0
    BY <1>4, <1>6 DEF KeySecretsInv
  <2>2. \A i \in gone : keys[i].secret # keys[j].secret
    BY <1>4, <1>6, <2>1 DEF KeySecretsInv
  <2> QED
    BY <1>2, <2>1, <2>2 DEF Exists
<1>7. (\A j \in KeyIds : Exists(j) => keys[j].secret # 0)'
  BY <1>4 DEF KeySecretsInv, Exists
<1>8. KeySecretsInv'
  BY <1>2, <1>4, <1>5, <1>6, <1>7 DEF KeySecretsInv
<1> QED
  BY <1>3, <1>8

-----------------------------------------------------------------------------
\* The steps.

LEMMA ServedType ==
  ASSUME KeysType, NEW h \in Handlers, Served(h)
  PROVE  session' \in [Handlers -> Owners \cup {Nobody}]
BY DEF KeysType, Served

LEMMA ReplaceStep ==
  ASSUME KeysInv, NEW k \in KeyIds, Replace(k), session' \in [Handlers -> Owners \cup {Nobody}]
  PROVE  KeysInv'
<1> DEFINE row == [keys[k] EXCEPT !.secret = made + 1, !.used = FALSE]
<1>1. keys[k] \in Rows /\ made + 1 \in Nat /\ Exists(k)
  BY DEF KeysInv, KeysType, KeySecretsInv, Replace
<1>2. \A n \in Nat : LET new == [keys[k] EXCEPT !.secret = n, !.used = FALSE]
                     IN  new \in Rows /\ new.owner = keys[k].owner /\ new.secret = n
  BY <1>1 DEF Rows
<1>3. row \in Rows /\ row.owner # Nobody /\ row.secret = made + 1
  BY <1>1, <1>2 DEF Exists
<1>4. /\ keys' = [keys EXCEPT ![k] = row]
      /\ made' = made + 1 /\ dead' = dead \cup {keys[k].secret}
  BY <1>1 DEF Replace, NewSecret, KeysInv, KeysType
<1> HIDE DEF row
<1> QED
  BY <1>3, <1>4, SecretMade

LEMMA DeactivateStep ==
  ASSUME KeysInv, NEW k \in KeyIds, Exists(k), Deactivate(k), made' = made,
         session' \in [Handlers -> Owners \cup {Nobody}]
  PROVE  KeysInv'
<1> DEFINE row == [keys[k] EXCEPT !.active = FALSE]
<1>1. /\ row \in Rows /\ row.owner = keys[k].owner /\ row.secret = keys[k].secret
      /\ ~row.active
  BY DEF KeysInv, KeysType, Rows
<1>2. keys' = [keys EXCEPT ![k] = row] /\ dead' = dead \cup {keys[k].secret}
  BY DEF Deactivate
<1> HIDE DEF row
<1> QED
  BY <1>1, <1>2, SecretSwitched

LEMMA OwnerStep ==
  ASSUME KeysInv, NEW h \in Handlers, OwnerNext(h)
  PROVE  KeysInv'
<1> USE DEF KeysInv
<1>1. ASSUME NEW u \in Owners, CheckSession(h, u)
      PROVE  KeysInv'
  BY <1>1 DEF CheckSession, KeysType, KeySecretsInv, Exists
<1>2. CASE Refused(h)
  BY <1>2, ServedType DEF Refused, KeysType, KeySecretsInv, Exists
<1>3. ASSUME NEW k \in KeyIds, CreateAPIKey(h, k)
      PROVE  KeysInv'
  <2> DEFINE row == [owner |-> session[h], secret |-> made + 1,
                     active |-> TRUE, expired |-> FALSE, used |-> FALSE]
  <2>1. row \in Rows /\ row.owner # Nobody /\ row.secret = made + 1
    BY <1>3 DEF CreateAPIKey, Rows, KeysType
  <2>2. keys' = [keys EXCEPT ![k] = row] /\ made' = made + 1 /\ dead' = dead /\ Served(h)
    BY <1>3 DEF CreateAPIKey, NewSecret
  <2> HIDE DEF row
  <2> QED
    BY <2>1, <2>2, ServedType, SecretMade
<1>4. ASSUME NEW k \in KeyIds, UpdateAPIKeySelf(h, k)
      PROVE  KeysInv'
  <2> DEFINE row == [keys[k] EXCEPT !.expired = FALSE]
  <2>1. /\ row \in Rows /\ row.owner = keys[k].owner /\ row.secret = keys[k].secret
        /\ row.active = keys[k].active
    BY DEF KeysType, Rows
  <2>2. keys' = [keys EXCEPT ![k] = row] /\ UNCHANGED <<made, dead>> /\ Served(h)
    BY <1>4 DEF UpdateAPIKeySelf
  <2> HIDE DEF row
  <2> QED
    BY <2>1, <2>2, ServedType, FlagsChange
<1>5. ASSUME NEW k \in KeyIds, RotateAPIKey(h, k)
      PROVE  KeysInv'
  BY <1>5, ServedType, ReplaceStep DEF RotateAPIKey
<1>6. ASSUME NEW k \in KeyIds, RevokeAPIKey(h, k)
      PROVE  KeysInv'
  BY <1>6, ServedType, DeactivateStep DEF RevokeAPIKey, Exists
<1> QED
  BY <1>1, <1>2, <1>3, <1>4, <1>5, <1>6 DEF OwnerNext

LEMMA AdministratorStep ==
  ASSUME KeysInv, AdministratorNext
  PROVE  KeysInv'
<1> USE DEF KeysInv
<1>1. ASSUME NEW k \in KeyIds, NEW active \in BOOLEAN, NEW expired \in BOOLEAN,
             UpdateAPIKeyControls(k, active, expired)
      PROVE  KeysInv'
  <2> DEFINE row == [keys[k] EXCEPT !.active = active, !.expired = expired]
  <2>1. /\ row \in Rows /\ row.owner = keys[k].owner /\ row.secret = keys[k].secret
        /\ row.active = active
    BY DEF KeysType, Rows
  <2>2. /\ keys' = [keys EXCEPT ![k] = row] /\ Exists(k) /\ UNCHANGED <<made, session>>
        /\ dead' = IF active THEN dead \ {keys[k].secret} ELSE dead \cup {keys[k].secret}
    BY <1>1 DEF UpdateAPIKeyControls
  <2>3. session' \in [Handlers -> Owners \cup {Nobody}]
    BY <2>2 DEF KeysType
  <2> HIDE DEF row
  <2> QED
    BY <2>1, <2>2, <2>3, SecretSwitched
<1>2. ASSUME NEW k \in KeyIds, RotateAPIKeyAdmin(k)
      PROVE  KeysInv'
  BY <1>2, ReplaceStep DEF RotateAPIKeyAdmin, KeysType
<1>3. ASSUME NEW k \in KeyIds, RevokeAPIKeyAdmin(k)
      PROVE  KeysInv'
  BY <1>3, DeactivateStep DEF RevokeAPIKeyAdmin, KeysType
<1>4. ASSUME NEW u \in Owners, NEW status, SetActive(u, status)
      PROVE  KeysInv'
  BY <1>4 DEF SetActive, KeysType, KeySecretsInv, Exists
<1> QED
  BY <1>1, <1>2, <1>3, <1>4, UserDeleted DEF AdministratorNext

LEMMA CallStep ==
  ASSUME KeysInv, NEW h \in Handlers, MarkUsed(h), call[h].key \in KeyIds
  PROVE  KeysInv'
<1> DEFINE k == call[h].key
           row == [keys[k] EXCEPT !.used = @ \/ Exists(k)]
<1>1. (keys[k].used \/ Exists(k)) \in BOOLEAN
  OBVIOUS
<1>2. \A b \in BOOLEAN : [keys[k] EXCEPT !.used = b] \in Rows
  BY DEF KeysInv, KeysType, Rows
<1>3. row \in Rows
  BY <1>1, <1>2
<1>4. /\ row.owner = keys[k].owner /\ row.secret = keys[k].secret
      /\ row.active = keys[k].active
  BY DEF KeysInv, KeysType, Rows
<1>5. keys' = [keys EXCEPT ![k] = row] /\ UNCHANGED <<made, dead, session>>
  BY DEF MarkUsed
<1>6. session' \in [Handlers -> Owners \cup {Nobody}]
  BY <1>5 DEF KeysInv, KeysType
<1> HIDE DEF row
<1> QED
  BY <1>3, <1>4, <1>5, <1>6, FlagsChange

-----------------------------------------------------------------------------
\* A call is with a key that there is, or was.
CallType == call \in [Handlers -> [key : KeyIds \cup {Nobody}, row : Rows]]

LEMMA CallTypeStep ==
  ASSUME KeysInv, CallType, KeysNext
  PROVE  CallType'
<1>1. ASSUME NEW h \in Handlers, NEW new \in [key : KeyIds \cup {Nobody}, row : Rows],
             call' = [call EXCEPT ![h] = new]
      PROVE  CallType'
  BY <1>1 DEF CallType
<1>2. CASE call' = call
  BY <1>2 DEF CallType
<1>3. ASSUME NEW h \in Handlers, MarkUsed(h)
      PROVE  CallType'
  <2>1. [key |-> Nobody, row |-> NoKey] \in [key : KeyIds \cup {Nobody}, row : Rows]
    BY NoKeyType
  <2> QED
    BY <1>1, <1>3, <2>1 DEF MarkUsed
<1>4. ASSUME NEW h \in Handlers, NEW k \in KeyIds, ResolveAPIKey(h, k)
      PROVE  CallType'
  <2>1. [key |-> k, row |-> keys[k]] \in [key : KeyIds \cup {Nobody}, row : Rows]
    BY DEF KeysInv, KeysType
  <2> QED
    BY <1>1, <1>4, <2>1 DEF ResolveAPIKey
<1>5. ASSUME NEW h \in Handlers, OwnerNext(h)
      PROVE  call' = call
  BY <1>5 DEF OwnerNext, CheckSession, CreateAPIKey, UpdateAPIKeySelf, RotateAPIKey,
              RevokeAPIKey, Refused
<1>6. ASSUME AdministratorNext
      PROVE  call' = call
  BY <1>6 DEF AdministratorNext, UpdateAPIKeyControls, RotateAPIKeyAdmin,
              RevokeAPIKeyAdmin, SetActive, DeleteUser
<1>7. ASSUME NEW k \in KeyIds, Expire(k)
      PROVE  call' = call
  BY <1>7 DEF Expire
<1> QED
  BY <1>2, <1>3, <1>4, <1>5, <1>6, <1>7 DEF KeysNext

LEMMA KeysStep ==
  ASSUME KeysInv, CallType, [KeysNext]_keyVars
  PROVE  KeysInv'
<1>1. CASE UNCHANGED keyVars
  BY <1>1 DEF keyVars, KeysInv, KeysType, KeySecretsInv, Exists
<1>2. ASSUME NEW h \in Handlers, MarkUsed(h)
      PROVE  KeysInv'
  <2>1. call[h].key \in KeyIds
    BY <1>2 DEF MarkUsed, CallType
  <2> QED
    BY <1>2, <2>1, CallStep
<1>3. ASSUME NEW h \in Handlers, NEW k \in KeyIds, ResolveAPIKey(h, k)
      PROVE  KeysInv'
  BY <1>3 DEF ResolveAPIKey, KeysInv, KeysType, KeySecretsInv, Exists
<1>4. ASSUME NEW k \in KeyIds, Expire(k)
      PROVE  KeysInv'
  <2> DEFINE row == [keys[k] EXCEPT !.expired = TRUE]
  <2>1. /\ row \in Rows /\ row.owner = keys[k].owner /\ row.secret = keys[k].secret
        /\ row.active = keys[k].active
    BY DEF KeysInv, KeysType, Rows
  <2>2. keys' = [keys EXCEPT ![k] = row] /\ UNCHANGED <<made, dead, session>>
    BY <1>4 DEF Expire
  <2>3. session' \in [Handlers -> Owners \cup {Nobody}]
    BY <2>2 DEF KeysInv, KeysType
  <2> HIDE DEF row
  <2> QED
    BY <2>1, <2>2, <2>3, FlagsChange
<1> QED
  BY <1>1, <1>2, <1>3, <1>4, OwnerStep, AdministratorStep DEF KeysNext

-----------------------------------------------------------------------------
\* A secret that was rotated away, revoked or deleted with its user opens no key, whatever
\* requests and calls were under way at the time (store/apikeys.go:213): for any number
\* of keys, owners and requests.
THEOREM DeadSecretsStayDead == AdministrationSpec => []RevocationHolds
<1>1. KeysInit => KeysInv /\ CallType
  BY KeysInitInv, NoKeyType DEF KeysInit, CallType
<1>2. KeysInv /\ CallType /\ [KeysNext]_keyVars => (KeysInv /\ CallType)'
  <2>1. UNCHANGED keyVars /\ CallType => CallType'
    BY DEF keyVars, CallType
  <2> QED
    BY <2>1, CallTypeStep, KeysStep
<1>3. KeysInv => RevocationHolds
  BY DEF KeysInv, KeySecretsInv, RevocationHolds, Opens
<1> QED
  BY PartsImplemented, <1>1, <1>2, <1>3, PTL DEF KeysSpec
=============================================================================

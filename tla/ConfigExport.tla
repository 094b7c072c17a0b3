---------------------------- MODULE ConfigExport ----------------------------
(***************************************************************************)
(* Signed exports of the configuration (httpapi/config_export.go), taken   *)
(* while administrators change it.  An export reads one table after        *)
(* another, outside any transaction, and then needs the signing key, a     *)
(* file that the nodes share: the first export that finds none creates the *)
(* file, and only then writes its key there.  Budgets, limits and the      *)
(* guardrail policy are read after the models, and refer to nothing that   *)
(* the bundle holds.                                                       *)
(***************************************************************************)
EXTENDS Catalog

CONSTANTS Exports,  \* requests for an export; a key that one generates has its name
          Empty     \* a file that is empty, or does not hold all of a key

ASSUME KeysAssumption == None \notin Exports /\ Empty \notin Exports /\ None # Empty

VARIABLES
  keyFile,  \* the file: missing (None), Empty, or a key
  export,   \* where each export is, and what it has read
  since,    \* history: the providers created since its first query
  signers   \* history: the keys that bundles were signed with
exportVars == <<keyFile, export, since, signers>>
vars == <<catalogVars, exportVars>>

\* A bundle as far as it has been read: the providers it holds, and those
\* that its models refer to.
New == [at |-> "providers", holds |-> {}, refersTo |-> {}]

To(e, place) == export' = [export EXCEPT ![e].at = place]

ReadProviders(e) ==
  /\ export[e].at = "providers"
  /\ export' = [export EXCEPT ![e] = [at |-> "models", holds |-> DOMAIN providers,
                                      refersTo |-> {}]]
  /\ since' = [since EXCEPT ![e] = {}]
  /\ UNCHANGED <<keyFile, signers>>

ReadModels(e) ==
  /\ export[e].at = "models"
  /\ export' = [export EXCEPT ![e] = [at |-> "key", holds |-> @.holds,
                  refersTo |-> {models[m].provider : m \in DOMAIN models}]]
  /\ UNCHANGED <<keyFile, since, signers>>

Sign(e, key) ==
  /\ signers' = signers \cup {key}
  /\ To(e, "signed")
  /\ UNCHANGED <<keyFile, since>>

Fail(e) == To(e, "failed") /\ UNCHANGED <<keyFile, since, signers>>

\* A file without a key in it fails the export.
UseKeyFile(e) ==
  \/ keyFile # Empty /\ Sign(e, keyFile)
  \/ keyFile = Empty /\ Fail(e)

ReadKey(e) ==
  /\ export[e].at = "key"
  /\ \/ keyFile # None /\ UseKeyFile(e)
     \/ keyFile = None /\ To(e, "create") /\ UNCHANGED <<keyFile, since, signers>>

\* Mutant of CreateKey: the file is created even if there is one.
CreateKeyAnyway(e) ==
  /\ export[e].at = "create"
  /\ keyFile' = Empty
  /\ To(e, "write")
  /\ UNCHANGED <<since, signers>>

\* The file is created only if there is still none.
CreateKey(e) ==
  /\ export[e].at = "create"
  /\ \/ keyFile # None /\ UseKeyFile(e)
     \/ /\ keyFile = None
        /\ keyFile' = Empty
        /\ To(e, "write")
        /\ UNCHANGED <<since, signers>>

WriteKey(e) ==
  /\ export[e].at = "write"
  /\ keyFile' = e
  /\ signers' = signers \cup {e}
  /\ To(e, "signed")
  /\ UNCHANGED since

\* The client leaves, the process ends, or the disk is full.
BreakOff(e) ==
  /\ export[e].at \notin {"signed", "failed"}
  /\ Fail(e)

ExportInit ==
  /\ keyFile = None
  /\ export = [e \in Exports |-> New]
  /\ since = [e \in Exports |-> {}]
  /\ signers = {}

ExportNext ==
  \E e \in Exports :
    \/ ReadProviders(e) \/ ReadModels(e)
    \/ ReadKey(e) \/ CreateKey(e) \/ WriteKey(e)
    \/ BreakOff(e)

\* A step of an administrator, seen by the exports under way.
Administer ==
  /\ CatalogNext
  /\ since' = [e \in Exports |-> since[e] \cup (DOMAIN providers' \ DOMAIN providers)]
  /\ UNCHANGED <<keyFile, export, signers>>

Init == CatalogInit /\ ExportInit
Next == Administer \/ (ExportNext /\ UNCHANGED catalogVars)
Spec == Init /\ [][Next]_vars

-----------------------------------------------------------------------------
(***************************************************************************)
(* A bundle has the provider of each of its models, although its tables    *)
(* are read one after the other and administrators go on: the only ones    *)
(* it may lack were created after the export began (adminConfigExport-     *)
(* Payload reads providers first, and a model goes with its provider).     *)
(***************************************************************************)
ModelsComeWithProviders ==
  \A e \in Exports : export[e].at = "signed"
    => export[e].refersTo \subseteq export[e].holds \cup since[e]

(***************************************************************************)
(* However many nodes export for the first time at once, and whichever of  *)
(* them break off, every bundle handed out is signed with the key that is  *)
(* in the file, so that one public key verifies all of them                *)
(* (adminConfigSigningKey).                                                *)
(***************************************************************************)
OneSigner == signers \subseteq {keyFile}
=============================================================================

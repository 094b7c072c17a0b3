------------------------------ MODULE ApiKeys ------------------------------
(***************************************************************************)
(* The API keys that users make for themselves and administrators control  *)
(* (httpapi/apikeys.go, store/apikeys.go), and the requests that come with *)
(* one.  A request of a user is let in by its session, then sends one      *)
(* statement; what the user was when the session was checked may have      *)
(* changed by then.  A call is let in by one statement, and a second one   *)
(* notes that the key was used.                                            *)
(*                                                                         *)
(* A secret is known by its number.  Names, budgets and limits of a key    *)
(* are not modelled; Gateway models what budgets and limits do.            *)
(***************************************************************************)
EXTENDS Naturals

CONSTANTS KeyIds, Owners, Handlers, Nobody,
          MaxSecrets  \* bound on the secrets made

ASSUME NobodyAssumption == Nobody \notin Owners
ASSUME SecretsAssumption == MaxSecrets \in Nat

VARIABLES
  owners,   \* accounts: "active", "disabled" or "deleted"
  keys,     \* rows of api_keys; one that does not exist has no owner, and no
            \* secret before it was made: ids are used once
  session,  \* the user whose session a handler has checked
  call,     \* the key that a call was let in with, and its row as it was read
  made,     \* how many secrets have been made
  dead      \* history: secrets that were replaced, revoked or deleted since an
            \* administrator last gave them out or back
keyVars == <<owners, keys, session, call, made, dead>>

Rows  == [owner : Owners \cup {Nobody}, secret : Nat, active : BOOLEAN,
          expired : BOOLEAN, used : BOOLEAN]
NoKey == [owner |-> Nobody, secret |-> 0, active |-> FALSE,
          expired |-> FALSE, used |-> FALSE]
Exists(k) == keys[k].owner # Nobody

\* ResolveAPIKey lets a call with the secret of this row in.
Opens(row) ==
  /\ row.owner # Nobody
  /\ row.active /\ ~row.expired
  /\ owners[row.owner] = "active"

(***************************************************************************)
(* What users do with their keys.                                          *)
(***************************************************************************)
CheckSession(h, u) ==
  /\ session[h] = Nobody
  /\ owners[u] = "active"
  /\ session' = [session EXCEPT ![h] = u]
  /\ UNCHANGED <<owners, keys, call, made, dead>>

\* The statement of the handler is its last.
Served(h) == session' = [session EXCEPT ![h] = Nobody]

NewSecret == made < MaxSecrets /\ made' = made + 1

CreateAPIKey(h, k) ==
  /\ session[h] # Nobody
  /\ keys[k] = NoKey
  /\ owners[session[h]] # "deleted"
  /\ NewSecret
  /\ keys' = [keys EXCEPT ![k] = [owner |-> session[h], secret |-> made + 1,
                active |-> TRUE, expired |-> FALSE, used |-> FALSE]]
  /\ Served(h)
  /\ UNCHANGED <<owners, call, dead>>

\* A new expiry is in the future.
UpdateAPIKeySelf(h, k) ==
  /\ session[h] # Nobody
  /\ keys[k].owner = session[h] /\ keys[k].active
  /\ keys' = [keys EXCEPT ![k].expired = FALSE]
  /\ Served(h)
  /\ UNCHANGED <<owners, call, made, dead>>

\* A new secret replaces the one in the row, of a key that is active.
Replace(k) ==
  /\ keys[k].active
  /\ NewSecret
  /\ keys' = [keys EXCEPT ![k] = [@ EXCEPT !.secret = made + 1, !.used = FALSE]]
  /\ dead' = dead \cup {keys[k].secret}

RotateAPIKey(h, k) ==
  /\ session[h] # Nobody
  /\ keys[k].owner = session[h]
  /\ Replace(k)
  /\ Served(h)
  /\ UNCHANGED <<owners, call>>

Deactivate(k) ==
  /\ keys' = [keys EXCEPT ![k].active = FALSE]
  /\ dead' = dead \cup {keys[k].secret}

RevokeAPIKey(h, k) ==
  /\ session[h] # Nobody
  /\ keys[k].owner = session[h]
  /\ Deactivate(k)
  /\ Served(h)
  /\ UNCHANGED <<owners, call, made>>

\* Nothing matches, or the handler fails.
Refused(h) ==
  /\ session[h] # Nobody
  /\ Served(h)
  /\ UNCHANGED <<owners, keys, call, made, dead>>

(***************************************************************************)
(* What administrators do with them.  The form for the controls has all of *)
(* its fields, whether the key is active among them.                       *)
(***************************************************************************)
UpdateAPIKeyControls(k, active, expired) ==
  /\ Exists(k)
  /\ keys' = [keys EXCEPT ![k].active = active, ![k].expired = expired]
  /\ dead' = IF active THEN dead \ {keys[k].secret} ELSE dead \cup {keys[k].secret}
  /\ UNCHANGED <<owners, session, call, made>>

RotateAPIKeyAdmin(k) ==
  /\ Replace(k)
  /\ UNCHANGED <<owners, session, call>>

RevokeAPIKeyAdmin(k) ==
  /\ Exists(k)
  /\ Deactivate(k)
  /\ UNCHANGED <<owners, session, call, made>>

SetActive(u, status) ==
  /\ owners[u] # "deleted"
  /\ owners[u] # status
  /\ owners' = [owners EXCEPT ![u] = status]
  /\ UNCHANGED <<keys, session, call, made, dead>>

\* The keys of a user are deleted with the user.
DeleteUser(u) ==
  /\ owners[u] # "deleted"
  /\ owners' = [owners EXCEPT ![u] = "deleted"]
  /\ keys' = [k \in KeyIds |-> IF keys[k].owner # u THEN keys[k]
                               ELSE [NoKey EXCEPT !.secret = keys[k].secret]]
  /\ dead' = dead \cup {keys[k].secret : k \in {j \in KeyIds : keys[j].owner = u}}
  /\ UNCHANGED <<session, call, made>>

(***************************************************************************)
(* Calls.                                                                  *)
(***************************************************************************)
ResolveAPIKey(h, k) ==
  /\ call[h].key = Nobody
  /\ Opens(keys[k])
  /\ call' = [call EXCEPT ![h] = [key |-> k, row |-> keys[k]]]
  /\ UNCHANGED <<owners, keys, session, made, dead>>

\* Mutant of MarkUsed: the row is stored as it was read.
MarkUsedAsRead(h) ==
  /\ call[h].key # Nobody
  /\ keys' = [keys EXCEPT ![call[h].key] = IF Exists(call[h].key)
                THEN [call[h].row EXCEPT !.used = TRUE] ELSE @]
  /\ call' = [call EXCEPT ![h] = [key |-> Nobody, row |-> NoKey]]
  /\ UNCHANGED <<owners, session, made, dead>>

MarkUsed(h) ==
  /\ call[h].key # Nobody
  /\ keys' = [keys EXCEPT ![call[h].key].used = @ \/ Exists(call[h].key)]
  /\ call' = [call EXCEPT ![h] = [key |-> Nobody, row |-> NoKey]]
  /\ UNCHANGED <<owners, session, made, dead>>

Expire(k) ==
  /\ Exists(k)
  /\ ~keys[k].expired
  /\ keys' = [keys EXCEPT ![k].expired = TRUE]
  /\ UNCHANGED <<owners, session, call, made, dead>>

KeysInit ==
  /\ owners = [u \in Owners |-> "active"]
  /\ keys = [k \in KeyIds |-> NoKey]
  /\ session = [h \in Handlers |-> Nobody]
  /\ call = [h \in Handlers |-> [key |-> Nobody, row |-> NoKey]]
  /\ made = 0
  /\ dead = {}

OwnerNext(h) ==
  \/ \E u \in Owners : CheckSession(h, u)
  \/ \E k \in KeyIds : \/ CreateAPIKey(h, k) \/ UpdateAPIKeySelf(h, k)
                       \/ RotateAPIKey(h, k) \/ RevokeAPIKey(h, k)
  \/ Refused(h)

AdministratorNext ==
  \/ \E k \in KeyIds :
       \/ \E active, expired \in BOOLEAN : UpdateAPIKeyControls(k, active, expired)
       \/ RotateAPIKeyAdmin(k) \/ RevokeAPIKeyAdmin(k)
  \/ \E u \in Owners : \/ \E status \in {"active", "disabled"} : SetActive(u, status)
                       \/ DeleteUser(u)

KeysNext ==
  \/ \E h \in Handlers : OwnerNext(h) \/ MarkUsed(h) \/ \E k \in KeyIds : ResolveAPIKey(h, k)
  \/ AdministratorNext
  \/ \E k \in KeyIds : Expire(k)

KeysSpec == KeysInit /\ [][KeysNext]_keyVars

-----------------------------------------------------------------------------
(***************************************************************************)
(* A secret that was rotated away, revoked, or deleted with its user opens *)
(* no key again, whatever was under way at the time, until an              *)
(* administrator activates its key (store/apikeys.go: the late update of   *)
(* last_used_at in ResolveAPIKey writes nothing else).                     *)
(***************************************************************************)
RevocationHolds ==
  \A k \in KeyIds : Opens(keys[k]) => keys[k].secret \notin dead
=============================================================================

------------------------------ MODULE Accounts ------------------------------
(***************************************************************************)
(* User accounts and browser sessions: local login, the forced change of a *)
(* temporary password, OIDC login, and what administrators do to accounts. *)
(*                                                                         *)
(* A handler authenticates once and keeps the row that it read; each       *)
(* statement that it sends to the store is an action of its own.  A token  *)
(* is signed with the session version of the row it is issued from, and is *)
(* accepted as long as the table has the same version.                     *)
(*                                                                         *)
(* A password is known by its number: each one that is set for an account  *)
(* is new.  Usernames are the ids of accounts, and no id is used again.    *)
(***************************************************************************)
EXTENDS Integers, FiniteSets

CONSTANTS
  Users, Nobody,  \* ids of accounts, and a value that is none
  Handlers,       \* requests in progress at one time
  AdminGroup,     \* users whose OIDC claims grant the role of administrator
  AutoProvision,  \* TRUE when OIDC may create accounts
  Initial,        \* tables of users there may be to begin with
  MaxVersion,     \* bound on the session version of an account
  MaxTokens       \* bound on the tokens issued

Roles == {"user", "admin"}
Rows  == [role : Roles, active : BOOLEAN, mustChange : BOOLEAN,
          provider : {"local", "oidc"}, version : Nat, password : Nat]

ASSUME NobodyAssumption == Nobody \notin Users
ASSUME BoundsAssumption == MaxVersion \in Nat /\ MaxTokens \in Nat
ASSUME AdminGroupAssumption == AdminGroup \subseteq Users
ASSUME InitialAssumption ==
  \A table \in Initial : /\ DOMAIN table \subseteq Users
                         /\ table \in [DOMAIN table -> Rows]
                         /\ \A u \in DOMAIN table : table[u].version = 0 /\ table[u].password = 0
                         /\ \E u \in DOMAIN table : table[u].active /\ table[u].role = "admin"

VARIABLES
  users,    \* the table users
  gone,     \* ids of deleted accounts
  tokens,   \* tokens issued so far, with what their holder has shown to get them
  pc,       \* pc[h]: where handler h is
  local,    \* local[h]: the account that h acts for, and its row as h has read it
  granted,  \* history: the role that an administrator or a group gave last
  stale     \* history: a handler has written what it had not read any more

vars == <<users, gone, tokens, pc, local, granted, stale>>

-----------------------------------------------------------------------------
NoRow   == [role |-> "user", active |-> FALSE, mustChange |-> FALSE,
            provider |-> "oidc", version |-> 0, password |-> 0]
NoLocal == [user |-> Nobody, row |-> NoRow, how |-> "login", knows |-> 0]

\* CreateUser of the store: the row of a new account.
NewRow(role, provider) ==
  [role |-> role, active |-> TRUE, mustChange |-> (provider = "local"),
   provider |-> provider, version |-> 0, password |-> 0]

\* An account made by OIDC has no password until an administrator sets one.
HasPassword(row) == row.provider = "local" \/ row.password > 0

\* Mutant of WithPassword: the session version stays.
WithPasswordOnly(row, mustChange) ==
  [row EXCEPT !.password = @ + 1, !.mustChange = mustChange]

\* SetUserPassword, CompleteRequiredPasswordChange: a new password ends the sessions.
WithPassword(row, mustChange) ==
  [row EXCEPT !.password = @ + 1, !.version = @ + 1, !.mustChange = mustChange]

Added(u, row) == [v \in DOMAIN users \cup {u} |-> IF v = u THEN row ELSE users[v]]

\* The checks of requireSession, but for the forced change.
Accepted(t) ==
  t.user \in DOMAIN users /\ users[t.user].active /\ users[t.user].version = t.version

IsAdmin(u) == u \in DOMAIN users /\ users[u].active /\ users[u].role = "admin"

Goto(h, place) == pc' = [pc EXCEPT ![h] = place]

\* A handler reads an account and keeps its row, with the password its client knows.
Keep(h, u, how, knows) ==
  local' = [local EXCEPT ![h] = [user |-> u, row |-> users[u], how |-> how, knows |-> knows]]

\* A handler answers its client.
Finish(h) == Goto(h, "idle") /\ local' = [local EXCEPT ![h] = NoLocal]

-----------------------------------------------------------------------------
Init ==
  /\ users \in Initial
  /\ gone = {}
  /\ tokens = {}
  /\ pc = [h \in Handlers |-> "idle"]
  /\ local = [h \in Handlers |-> NoLocal]
  /\ granted = [u \in Users |-> IF u \in DOMAIN users THEN users[u].role ELSE "user"]
  /\ stale = FALSE

\* login: whoever knows the password is given a token for the row that was read.
Login(h, u) ==
  /\ pc[h] = "idle"
  /\ u \in DOMAIN users /\ users[u].active /\ HasPassword(users[u])
  /\ Keep(h, u, "login", users[u].password)
  /\ Goto(h, "issue")
  /\ UNCHANGED <<users, gone, tokens, granted, stale>>

\* issueSessionToken.
IssueToken(h) ==
  /\ pc[h] = "issue" /\ Cardinality(tokens) < MaxTokens
  /\ tokens' = tokens \cup {[user |-> local[h].user, version |-> local[h].row.version,
                             how |-> local[h].how, knows |-> local[h].knows]}
  /\ Finish(h)
  /\ UNCHANGED <<users, gone, granted, stale>>

\* requireSession: an account that must change its password may do nothing else.
Authenticate(h, t) ==
  /\ pc[h] = "idle" /\ t \in tokens /\ Accepted(t)
  /\ Keep(h, t.user, t.how, t.knows)
  /\ Goto(h, IF users[t.user].mustChange THEN "forced" ELSE "session")
  /\ UNCHANGED <<users, gone, tokens, granted, stale>>

\* Mutant of ChangePassword: the version is not compared.
ChangePasswordUnversioned(h) ==
  /\ pc[h] = "forced" /\ local[h].row.provider = "local"
  /\ LET u == local[h].user
     IN  IF u \in DOMAIN users /\ users[u].mustChange /\ users[u].version < MaxVersion
         THEN /\ users' = [users EXCEPT ![u] = WithPassword(@, FALSE)]
              /\ local' = [local EXCEPT ![h].how = "change", ![h].knows = users[u].password + 1]
              /\ Goto(h, "reload")
         ELSE UNCHANGED users /\ Finish(h)
  /\ UNCHANGED <<gone, tokens, granted, stale>>

\* changePassword: the statement compares the row with the one that was read.
ChangePassword(h) ==
  /\ pc[h] = "forced" /\ local[h].row.provider = "local"
  /\ LET u == local[h].user
     IN  \/ /\ u \in DOMAIN users
            /\ users[u].mustChange /\ users[u].version = local[h].row.version
            /\ users[u].version < MaxVersion
            /\ users' = [users EXCEPT ![u] = WithPassword(@, FALSE)]
            /\ local' = [local EXCEPT ![h].how = "change", ![h].knows = users[u].password + 1]
            /\ Goto(h, "reload")
         \/ /\ u \in DOMAIN users => ~users[u].mustChange \/ users[u].version # local[h].row.version
            /\ UNCHANGED users
            /\ Finish(h)
  /\ UNCHANGED <<gone, tokens, granted, stale>>

\* GetUserByID before a token is issued: the account may have changed since.
Reload(h) ==
  /\ pc[h] = "reload"
  /\ \/ /\ local[h].user \in DOMAIN users
        /\ Keep(h, local[h].user, local[h].how, local[h].knows)
        /\ Goto(h, "issue")
     \/ local[h].user \notin DOMAIN users /\ Finish(h)
  /\ UNCHANGED <<users, gone, tokens, granted, stale>>

-----------------------------------------------------------------------------
\* A handler of an administrator makes its change, whether he still is one or not.
Administer(h) ==
  /\ pc[h] = "session" /\ local[h].row.role = "admin"
  /\ stale' = (stale \/ ~IsAdmin(local[h].user))
  /\ Finish(h)
  /\ UNCHANGED tokens

\* An administrator creates a local account with a temporary password.
CreateUser(h, u, role) ==
  /\ u \notin DOMAIN users \cup gone
  /\ Administer(h)
  /\ users' = Added(u, NewRow(role, "local"))
  /\ granted' = [granted EXCEPT ![u] = role]
  /\ UNCHANGED gone

\* Mutant of UpdateUser: administrators may update themselves as they like.
UpdateAnyUser(h, u, role, active) ==
  /\ u \in DOMAIN users
  /\ Administer(h)
  /\ users' = [users EXCEPT ![u].role = role, ![u].active = active]
  /\ granted' = [granted EXCEPT ![u] = role]
  /\ UNCHANGED gone

\* An administrator cannot demote or disable himself.
UpdateUser(h, u, role, active) ==
  /\ u \in DOMAIN users
  /\ u = local[h].user => role = "admin" /\ active
  /\ Administer(h)
  /\ users' = [users EXCEPT ![u].role = role, ![u].active = active]
  /\ granted' = [granted EXCEPT ![u] = role]
  /\ UNCHANGED gone

ResetUserPassword(h, u) ==
  /\ u \in DOMAIN users /\ users[u].version < MaxVersion
  /\ Administer(h)
  /\ users' = [users EXCEPT ![u] = WithPassword(@, TRUE)]
  /\ UNCHANGED <<gone, granted>>

DeleteUser(h, u) ==
  /\ u \in DOMAIN users /\ u # local[h].user
  /\ Administer(h)
  /\ users' = [v \in DOMAIN users \ {u} |-> users[v]]
  /\ gone' = gone \cup {u}
  /\ UNCHANGED granted

-----------------------------------------------------------------------------
\* oidcCallback, userFromOIDCClaims: read the account, then create or update it.
OIDCRead(h, u) ==
  /\ pc[h] = "idle" /\ u \notin gone
  /\ \/ /\ u \in DOMAIN users /\ users[u].active
        /\ Keep(h, u, "sso", 0)
        /\ Goto(h, "update")
     \/ /\ u \notin DOMAIN users /\ AutoProvision
        /\ local' = [local EXCEPT ![h] = [user |-> u, row |-> NoRow, how |-> "sso", knows |-> 0]]
        /\ Goto(h, "create")
  /\ UNCHANGED <<users, gone, tokens, granted, stale>>

\* oidcRoleForClaims: the role that was read, unless a group grants more.
OIDCRole(h) == IF local[h].user \in AdminGroup THEN "admin" ELSE local[h].row.role

OIDCCreate(h) ==
  /\ pc[h] = "create"
  /\ LET u == local[h].user
     IN  \/ /\ u \notin DOMAIN users \cup gone
            /\ users' = Added(u, NewRow(OIDCRole(h), "oidc"))
            /\ granted' = [granted EXCEPT ![u] = OIDCRole(h)]
            /\ Goto(h, "reload")
            /\ UNCHANGED local
         \/ u \in DOMAIN users \cup gone /\ Finish(h) /\ UNCHANGED <<users, granted>>
  /\ UNCHANGED <<gone, tokens, stale>>

\* Mutant of OIDCUpdate: the row is written back as a whole.
OIDCWriteBack(h) ==
  /\ pc[h] = "update" /\ local[h].user \in DOMAIN users
  /\ LET u == local[h].user
     IN  /\ users' = [users EXCEPT ![u] = [local[h].row EXCEPT !.role = OIDCRole(h)]]
         /\ granted' = IF u \in AdminGroup THEN [granted EXCEPT ![u] = "admin"] ELSE granted
         /\ stale' = (stale \/ users[u].role # local[h].row.role)
  /\ Goto(h, "reload")
  /\ UNCHANGED <<gone, tokens, local>>

\* UpdateFederatedUser writes the role that was read.
OIDCUpdate(h) ==
  /\ pc[h] = "update"
  /\ LET u == local[h].user
     IN  \/ /\ u \in DOMAIN users
            /\ users' = [users EXCEPT ![u].role = OIDCRole(h)]
            /\ granted' = IF u \in AdminGroup THEN [granted EXCEPT ![u] = "admin"] ELSE granted
            /\ stale' = (stale \/ users[u].role # local[h].row.role)
            /\ Goto(h, "reload")
            /\ UNCHANGED local
         \/ u \notin DOMAIN users /\ Finish(h) /\ UNCHANGED <<users, granted, stale>>
  /\ UNCHANGED <<gone, tokens>>

\* A handler ends early: a refused operation, a failed statement, a client that has
\* gone away, a node that stops.
Abandon(h) ==
  /\ pc[h] # "idle"
  /\ Finish(h)
  /\ UNCHANGED <<users, gone, tokens, granted, stale>>

Next ==
  \E h \in Handlers :
    \/ \E u \in Users : Login(h, u) \/ OIDCRead(h, u)
    \/ \E t \in tokens : Authenticate(h, t)
    \/ IssueToken(h) \/ ChangePassword(h) \/ Reload(h) \/ OIDCCreate(h) \/ OIDCUpdate(h)
    \/ \E u \in Users :
         \/ ResetUserPassword(h, u) \/ DeleteUser(h, u)
         \/ \E role \in Roles :
              CreateUser(h, u, role) \/ \E active \in BOOLEAN : UpdateUser(h, u, role, active)
    \/ Abandon(h)

Spec == Init /\ [][Next]_vars

-----------------------------------------------------------------------------
Places == {"idle", "issue", "forced", "session", "reload", "create", "update"}
Tokens == [user : Users, version : Nat, how : {"login", "change", "sso"}, knows : Nat]

TypeOK ==
  /\ DOMAIN users \subseteq Users /\ users \in [DOMAIN users -> Rows]
  /\ gone \subseteq Users /\ gone \cap DOMAIN users = {}
  /\ tokens \subseteq Tokens
  /\ pc \in [Handlers -> Places]
  /\ local \in [Handlers -> [user : Users \cup {Nobody}, row : Rows,
                             how : {"login", "change", "sso"}, knows : Nat]]
  /\ \A h \in Handlers : pc[h] = "idle" <=> local[h].user = Nobody
  /\ granted \in [Users -> Roles]
  /\ stale \in BOOLEAN

\* A new password ends every session that a login with an older one has opened.  The
\* session that changePassword opens is another matter: its row is read again, and may
\* have a password that its holder does not know.  (docs/OPERATIONS.md, "Password rotation".)
OldLoginsEnd ==
  \A t \in tokens : Accepted(t) /\ t.how = "login" => t.knows = users[t.user].password

\* The forced change replaces the password that its session stands for, never one
\* that was set meanwhile.  (CompleteRequiredPasswordChange, session_version.)
ChangeReplacesOwn ==
  \A h \in Handlers :
    pc[h] = "reload" /\ local[h].how = "change" => local[h].knows = local[h].row.password + 1

\* As long as every administrator still is one when his request takes effect, and no
\* OIDC login has undone a change of role, one administrator remains: the guards
\* against demoting and deleting oneself are enough.  (updateUser, deleteUser.)
AdministratorRemains == stale \/ \E u \in Users : IsAdmin(u)

\* A disabled account stays so until an administrator enables it, even when an OIDC
\* login is under way.  (DESIGN.md, "Browser Authentication".)
DisabledStaysDisabled ==
  [][\A u \in DOMAIN users : ~users[u].active /\ u \in DOMAIN users' /\ users'[u].active =>
       \E h \in Handlers : pc[h] = "session" /\ local[h].row.role = "admin"]_vars

\* Roles are preserved unless a group of an OIDC login grants that of administrator.
\* (DESIGN.md, "Browser Authentication".)
RolesPreserved == \A u \in DOMAIN users : users[u].role = granted[u]
=============================================================================

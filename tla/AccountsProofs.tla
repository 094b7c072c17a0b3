--------------------------- MODULE AccountsProofs ---------------------------
(***************************************************************************)
(* Proofs about Accounts, for any accounts, handlers and bounds.           *)
(***************************************************************************)
EXTENDS Accounts, TLAPS

-----------------------------------------------------------------------------
\* Type correctness.

LEMMA NoRowType == NoRow \in Rows
BY DEF NoRow, Rows, Roles

LEMMA NewRowType ==
  ASSUME NEW role \in Roles, NEW provider \in {"local", "oidc"}
  PROVE  NewRow(role, provider) \in Rows
<1>1. (provider = "local") \in BOOLEAN
  OBVIOUS
<1>2. \A b \in BOOLEAN : [role |-> role, active |-> TRUE, mustChange |-> b,
                          provider |-> provider, version |-> 0, password |-> 0] \in Rows
  BY DEF Rows
<1> QED
  BY <1>1, <1>2 DEF NewRow

LEMMA WithPasswordType ==
  ASSUME NEW row \in Rows, NEW b \in BOOLEAN
  PROVE  /\ WithPassword(row, b) \in Rows
         /\ WithPassword(row, b).version = row.version + 1
         /\ WithPassword(row, b).password = row.password + 1
         /\ WithPassword(row, b).role = row.role /\ WithPassword(row, b).active = row.active
<1>1. \A x \in Nat, y \in Nat :
        [row EXCEPT !.password = x, !.version = y, !.mustChange = b] \in Rows
  BY DEF Rows
<1>2. row.password + 1 \in Nat /\ row.version + 1 \in Nat
  BY DEF Rows
<1>3. WithPassword(row, b) \in Rows
  BY <1>1, <1>2 DEF WithPassword
<1>4. /\ WithPassword(row, b).version = row.version + 1
      /\ WithPassword(row, b).password = row.password + 1
  BY DEF Rows, WithPassword
<1>5. WithPassword(row, b).role = row.role /\ WithPassword(row, b).active = row.active
  BY DEF Rows, WithPassword
<1> QED
  BY <1>3, <1>4, <1>5

Locals == [user : Users \cup {Nobody}, row : Rows, how : {"login", "change", "sso"}, knows : Nat]

LEMMA LocalTypes ==
  /\ NoLocal \in Locals
  /\ \A l \in Locals, how \in {"login", "change", "sso"}, n \in Nat :
       [l EXCEPT !.how = how, !.knows = n] \in Locals
BY NoRowType DEF NoLocal, Locals

LEMMA AddedType ==
  ASSUME users \in [DOMAIN users -> Rows], NEW u, NEW row \in Rows
  PROVE  /\ DOMAIN Added(u, row) = DOMAIN users \cup {u}
         /\ Added(u, row) \in [DOMAIN Added(u, row) -> Rows]
         /\ Added(u, row)[u] = row
         /\ \A v \in DOMAIN users : v # u => Added(u, row)[v] = users[v]
BY DEF Added

LEMMA FinishType ==
  ASSUME TypeOK, NEW h \in Handlers, Finish(h)
  PROVE  /\ pc' \in [Handlers -> Places] /\ local' \in [Handlers -> Locals]
         /\ \A g \in Handlers : pc'[g] = "idle" <=> local'[g].user = Nobody
<1>1. pc \in [Handlers -> Places] /\ local \in [Handlers -> Locals]
  BY DEF TypeOK, Locals
<1>2. local' \in [Handlers -> Locals] /\ pc' \in [Handlers -> Places]
  BY <1>1, LocalTypes DEF Finish, Goto, Places
<1>3. ASSUME NEW g \in Handlers PROVE pc'[g] = "idle" <=> local'[g].user = Nobody
  <2>1. CASE g = h
    BY <2>1, <1>1 DEF Finish, Goto, NoLocal
  <2>2. CASE g # h
    BY <2>2, <1>1 DEF TypeOK, Finish, Goto
  <2> QED
    BY <2>1, <2>2
<1> QED
  BY <1>2, <1>3

LEMMA KeepType ==
  ASSUME TypeOK, NEW h \in Handlers, NEW u \in DOMAIN users,
         NEW how \in {"login", "change", "sso"}, NEW knows \in Nat,
         NEW place \in Places \ {"idle"}, Keep(h, u, how, knows), Goto(h, place)
  PROVE  /\ pc' \in [Handlers -> Places] /\ local' \in [Handlers -> Locals]
         /\ \A g \in Handlers : pc'[g] = "idle" <=> local'[g].user = Nobody
<1>1. [user |-> u, row |-> users[u], how |-> how, knows |-> knows] \in Locals /\ u # Nobody
  BY NobodyAssumption DEF TypeOK, Locals
<1> QED
  <2>1. pc \in [Handlers -> Places] /\ local \in [Handlers -> Locals]
    BY DEF TypeOK, Locals
  <2>2. local' \in [Handlers -> Locals]
    BY <1>1, <2>1 DEF Keep
  <2>3. pc' \in [Handlers -> Places]
    BY <2>1 DEF Goto
  <2>4. ASSUME NEW g \in Handlers PROVE pc'[g] = "idle" <=> local'[g].user = Nobody
    <3>1. CASE g = h
      BY <3>1, <1>1, <2>1 DEF Keep, Goto
    <3>2. CASE g # h
      BY <3>2, <2>1 DEF TypeOK, Keep, Goto
    <3> QED
      BY <3>1, <3>2
  <2> QED
    BY <2>2, <2>3, <2>4

LEMMA InitType == Init => TypeOK
<1> SUFFICES ASSUME Init PROVE TypeOK
  OBVIOUS
<1>1. DOMAIN users \subseteq Users /\ users \in [DOMAIN users -> Rows]
  BY InitialAssumption DEF Init
<1>2. granted \in [Users -> Roles]
  BY <1>1 DEF Init, Rows, Roles
<1>3. local \in [Handlers -> Locals] /\ pc \in [Handlers -> Places]
  BY LocalTypes DEF Init, Places
<1> QED
  BY <1>1, <1>2, <1>3 DEF Init, TypeOK, NoLocal, Locals

-----------------------------------------------------------------------------
\* What a step needs to keep the types, when the handlers' part is known.
LEMMA StepType == TypeOK /\ [Next]_vars => TypeOK'
<1> SUFFICES ASSUME TypeOK, [Next]_vars PROVE TypeOK'
  OBVIOUS
<1> DEFINE HandlersOK == /\ pc' \in [Handlers -> Places] /\ local' \in [Handlers -> Locals]
                         /\ \A g \in Handlers : pc'[g] = "idle" <=> local'[g].user = Nobody
           TableOK == /\ DOMAIN users' \subseteq Users /\ users' \in [DOMAIN users' -> Rows]
                      /\ gone' \subseteq Users /\ gone' \cap DOMAIN users' = {}
<1>a. ASSUME HandlersOK, TableOK, tokens' \subseteq Tokens, granted' \in [Users -> Roles],
             stale' \in BOOLEAN
      PROVE  TypeOK'
  BY <1>a DEF TypeOK, Locals
<1>b. ASSUME UNCHANGED <<users, gone>> PROVE TableOK
  BY <1>b DEF TypeOK
<1>c. pc \in [Handlers -> Places] /\ local \in [Handlers -> Locals]
  BY DEF TypeOK, Locals
<1>1. ASSUME NEW h \in Handlers, NEW u \in Users, Login(h, u) PROVE TypeOK'
  <2>1. users[u].password \in Nat /\ HandlersOK
    BY <1>1, KeepType DEF Login, Places, TypeOK, Rows
  <2> QED
    BY <1>1, <1>a, <1>b, <2>1 DEF Login, TypeOK
<1>2. ASSUME NEW h \in Handlers, NEW t \in tokens, Authenticate(h, t) PROVE TypeOK'
  <2>1. t.user \in DOMAIN users /\ t.how \in {"login", "change", "sso"} /\ t.knows \in Nat
    BY <1>2 DEF Authenticate, Accepted, TypeOK, Tokens
  <2>2. (IF users[t.user].mustChange THEN "forced" ELSE "session") \in Places \ {"idle"}
    BY DEF Places
  <2>3. HandlersOK
    BY <1>2, <2>1, <2>2, KeepType DEF Authenticate
  <2> QED
    BY <1>2, <1>a, <1>b, <2>3 DEF Authenticate, TypeOK
<1>3. ASSUME NEW h \in Handlers, IssueToken(h) PROVE TypeOK'
  <2>1. local[h] \in Locals /\ local[h].user \in Users
    BY <1>3, <1>c DEF IssueToken, TypeOK, Locals
  <2>2. tokens' \subseteq Tokens
    BY <1>3, <2>1 DEF IssueToken, TypeOK, Tokens, Locals, Rows
  <2>3. HandlersOK
    BY <1>3, FinishType DEF IssueToken
  <2> QED
    BY <1>3, <1>a, <1>b, <2>2, <2>3 DEF IssueToken, TypeOK
<1>4. ASSUME NEW h \in Handlers, ChangePassword(h) PROVE TypeOK'
  <2> DEFINE u == local[h].user
  <2>1. ASSUME u \in DOMAIN users, users' = [users EXCEPT ![u] = WithPassword(@, FALSE)],
               local' = [local EXCEPT ![h].how = "change", ![h].knows = users[u].password + 1],
               Goto(h, "reload")
        PROVE  HandlersOK /\ TableOK
    <3>1. users[u] \in Rows /\ users[u].password + 1 \in Nat
      BY <2>1 DEF TypeOK, Rows
    <3>2. TableOK
      BY <1>4, <2>1, <3>1, WithPasswordType DEF TypeOK, ChangePassword
    <3>3. local' \in [Handlers -> Locals] /\ pc' \in [Handlers -> Places]
      BY <1>c, <2>1, <3>1, LocalTypes DEF Goto, Places
    <3>4. ASSUME NEW g \in Handlers PROVE pc'[g] = "idle" <=> local'[g].user = Nobody
      <4>1. local'[g].user = local[g].user
        BY <1>c, <2>1 DEF Locals
      <4>2. pc'[g] = "idle" <=> pc[g] = "idle"
        BY <1>c, <2>1, <1>4 DEF Goto, ChangePassword
      <4> QED
        BY <4>1, <4>2 DEF TypeOK
    <3> QED
      BY <3>2, <3>3, <3>4
  <2>2. ASSUME UNCHANGED users, Finish(h) PROVE HandlersOK /\ TableOK
    BY <1>4, <1>b, <2>2, FinishType DEF ChangePassword
  <2>3. HandlersOK /\ TableOK
    BY <1>4, <2>1, <2>2 DEF ChangePassword
  <2> QED
    BY <1>4, <1>a, <2>3 DEF ChangePassword, TypeOK
<1>5. ASSUME NEW h \in Handlers, Reload(h) PROVE TypeOK'
  <2>1. local[h].how \in {"login", "change", "sso"} /\ local[h].knows \in Nat
    BY <1>c DEF Locals
  <2>2. HandlersOK
    BY <1>5, <2>1, KeepType, FinishType DEF Reload, Places
  <2> QED
    BY <1>5, <1>a, <1>b, <2>2 DEF Reload, TypeOK
<1>6. ASSUME NEW h \in Handlers, NEW u \in Users, OIDCRead(h, u) PROVE TypeOK'
  <2>1. ASSUME u \in DOMAIN users, Keep(h, u, "sso", 0), Goto(h, "update") PROVE HandlersOK
    BY <2>1, KeepType DEF Places
  <2>2. ASSUME local' = [local EXCEPT ![h] = [user |-> u, row |-> NoRow, how |-> "sso", knows |-> 0]],
               Goto(h, "create")
        PROVE  HandlersOK
    <3>1. [user |-> u, row |-> NoRow, how |-> "sso", knows |-> 0] \in Locals /\ u # Nobody
      BY NoRowType, NobodyAssumption DEF Locals
    <3>2. local' \in [Handlers -> Locals] /\ pc' \in [Handlers -> Places]
      BY <1>c, <2>2, <3>1 DEF Goto, Places
    <3>3. ASSUME NEW g \in Handlers PROVE pc'[g] = "idle" <=> local'[g].user = Nobody
      <4>1. CASE g = h
        BY <4>1, <1>c, <2>2, <3>1 DEF Goto
      <4>2. CASE g # h
        BY <4>2, <1>c, <2>2 DEF Goto, TypeOK
      <4> QED
        BY <4>1, <4>2
    <3> QED
      BY <3>2, <3>3
  <2>3. HandlersOK
    BY <1>6, <2>1, <2>2 DEF OIDCRead
  <2> QED
    BY <1>6, <1>a, <1>b, <2>3 DEF OIDCRead, TypeOK
<1>7. ASSUME NEW h \in Handlers, OIDCCreate(h) PROVE TypeOK'
  <2> DEFINE u == local[h].user
  <2>1. u \in Users /\ OIDCRole(h) \in Roles
    BY <1>7, <1>c DEF OIDCCreate, TypeOK, Locals, OIDCRole, Roles, Rows
  <2>2. ASSUME u \notin DOMAIN users \cup gone, users' = Added(u, NewRow(OIDCRole(h), "oidc")),
               granted' = [granted EXCEPT ![u] = OIDCRole(h)], Goto(h, "reload"), UNCHANGED local
        PROVE  HandlersOK /\ TableOK /\ granted' \in [Users -> Roles]
    <3>1. TableOK
      <4>1. NewRow(OIDCRole(h), "oidc") \in Rows
        BY <2>1, NewRowType
      <4>2. DOMAIN users' = DOMAIN users \cup {u} /\ users' \in [DOMAIN users' -> Rows]
        BY <2>2, <4>1, AddedType DEF TypeOK
      <4> QED
        BY <1>7, <2>1, <2>2, <4>2 DEF TypeOK, OIDCCreate
    <3>2. HandlersOK
      BY <1>7, <1>c, <2>2 DEF OIDCCreate, TypeOK, Goto, Places
    <3> QED
      BY <2>1, <2>2, <3>1, <3>2 DEF TypeOK
  <2>3. ASSUME Finish(h), UNCHANGED <<users, granted>>
        PROVE  HandlersOK /\ TableOK /\ granted' \in [Users -> Roles]
    BY <1>7, <1>b, <2>3, FinishType DEF OIDCCreate, TypeOK
  <2>4. HandlersOK /\ TableOK /\ granted' \in [Users -> Roles]
    BY <1>7, <2>2, <2>3 DEF OIDCCreate
  <2> QED
    BY <1>7, <1>a, <2>4 DEF OIDCCreate, TypeOK
<1>8. ASSUME NEW h \in Handlers, OIDCUpdate(h) PROVE TypeOK'
  <2> DEFINE u == local[h].user
  <2>1. OIDCRole(h) \in Roles /\ "admin" \in Roles
    BY <1>c DEF Locals, OIDCRole, Roles, Rows
  <2>2. ASSUME u \in DOMAIN users, users' = [users EXCEPT ![u].role = OIDCRole(h)],
               granted' = IF u \in AdminGroup THEN [granted EXCEPT ![u] = "admin"] ELSE granted,
               stale' = (stale \/ users[u].role # local[h].row.role), Goto(h, "reload"), UNCHANGED local
        PROVE  HandlersOK /\ TableOK /\ granted' \in [Users -> Roles] /\ stale' \in BOOLEAN
    <3>1. [users[u] EXCEPT !.role = OIDCRole(h)] \in Rows
      <4>1. users[u] \in Rows
        BY <2>2 DEF TypeOK
      <4>2. \A role \in Roles : [users[u] EXCEPT !.role = role] \in Rows
        BY <4>1 DEF Rows
      <4> QED
        BY <2>1, <4>2
    <3>2. TableOK
      <4>1. users' \in [DOMAIN users -> Rows] /\ DOMAIN users' = DOMAIN users
        BY <2>2, <3>1 DEF TypeOK
      <4>2. UNCHANGED <<gone, tokens>>
        BY <1>8 DEF OIDCUpdate
      <4> QED
        BY <4>1, <4>2 DEF TypeOK
    <3>3. HandlersOK
      BY <1>8, <1>c, <2>2 DEF OIDCUpdate, TypeOK, Goto, Places
    <3> QED
      BY <2>1, <2>2, <3>2, <3>3 DEF TypeOK
  <2>3. ASSUME Finish(h), UNCHANGED <<users, granted, stale>>
        PROVE  HandlersOK /\ TableOK /\ granted' \in [Users -> Roles] /\ stale' \in BOOLEAN
    BY <1>8, <1>b, <2>3, FinishType DEF OIDCUpdate, TypeOK
  <2>4. HandlersOK /\ TableOK /\ granted' \in [Users -> Roles] /\ stale' \in BOOLEAN
    BY <1>8, <2>2, <2>3 DEF OIDCUpdate
  <2> QED
    BY <1>8, <1>a, <2>4 DEF OIDCUpdate, TypeOK
<1>9. ASSUME NEW h \in Handlers, Abandon(h) PROVE TypeOK'
  BY <1>9, <1>a, <1>b, FinishType DEF Abandon, TypeOK
<1>d. ASSUME NEW h \in Handlers, Administer(h), TableOK, granted' \in [Users -> Roles] PROVE TypeOK'
  BY <1>d, <1>a, FinishType DEF Administer, TypeOK
<1>10. ASSUME NEW h \in Handlers, NEW u \in Users, ResetUserPassword(h, u) PROVE TypeOK'
  <2>1. WithPassword(users[u], TRUE) \in Rows
    BY <1>10, WithPasswordType DEF ResetUserPassword, TypeOK
  <2> QED
    BY <1>10, <1>d, <2>1 DEF ResetUserPassword, TypeOK
<1>11. ASSUME NEW h \in Handlers, NEW u \in Users, DeleteUser(h, u) PROVE TypeOK'
  BY <1>11, <1>d DEF DeleteUser, TypeOK
<1>12. ASSUME NEW h \in Handlers, NEW u \in Users, NEW role \in Roles, CreateUser(h, u, role)
       PROVE  TypeOK'
  <2>1. NewRow(role, "local") \in Rows
    BY NewRowType
  <2>2. DOMAIN users' = DOMAIN users \cup {u} /\ users' \in [DOMAIN users' -> Rows]
    BY <1>12, <2>1, AddedType DEF CreateUser, TypeOK
  <2> QED
    BY <1>12, <1>d, <2>2 DEF CreateUser, TypeOK
<1>13. ASSUME NEW h \in Handlers, NEW u \in Users, NEW role \in Roles, NEW active \in BOOLEAN,
              UpdateUser(h, u, role, active)
       PROVE  TypeOK'
  <2>1. [[users[u] EXCEPT !.role = role] EXCEPT !.active = active] \in Rows
    <3>1. users[u] \in Rows
      BY <1>13 DEF UpdateUser, TypeOK
    <3> QED
      BY <3>1 DEF Rows
  <2>2. users' \in [DOMAIN users -> Rows]
    BY <1>13, <2>1 DEF UpdateUser, TypeOK
  <2> QED
    BY <1>13, <1>d, <2>2 DEF UpdateUser, TypeOK
<1>14. CASE UNCHANGED vars
  BY <1>14 DEF vars, TypeOK
<1> QED
  BY <1>1, <1>2, <1>3, <1>4, <1>5, <1>6, <1>7, <1>8, <1>9, <1>10, <1>11, <1>12, <1>13, <1>14 DEF Next

\* Type correctness of accounts and sessions, ids that are never used again included.
THEOREM TypeCorrect == Spec => []TypeOK
BY InitType, StepType, PTL DEF Spec

-----------------------------------------------------------------------------
\* Sessions.  The version of a row counts its passwords, and what a session that a
\* login opened stands for is the password with the number of its version.

Counts(row) == row.version = row.password

LEMMA PasswordCounts ==
  ASSUME NEW row \in Rows, NEW b \in BOOLEAN, Counts(row)
  PROVE  Counts(WithPassword(row, b))
<1>1. row.version + 1 = row.password + 1
  BY DEF Counts
<1> QED
  BY <1>1, WithPasswordType DEF Counts

HandlerInv(h) ==
  /\ Counts(local[h].row)
  /\ local[h].how = "login" =>
       local[h].knows = local[h].row.version /\ pc[h] # "reload"
  /\ pc[h] \in {"update", "create"} => local[h].how = "sso"
  /\ pc[h] = "reload" /\ local[h].how = "change" => local[h].knows = local[h].row.password + 1

TableInv == \A u \in DOMAIN users : Counts(users[u])
TokenInv == \A t \in tokens : t.how = "login" => t.knows = t.version

SessionInv == TableInv /\ TokenInv /\ \A h \in Handlers : HandlerInv(h)

LEMMA InitSession == Init => SessionInv
<1> SUFFICES ASSUME Init PROVE SessionInv
  OBVIOUS
<1>1. TableInv
  BY InitialAssumption DEF Init, TableInv, Counts
<1>2. ASSUME NEW h \in Handlers PROVE HandlerInv(h)
  BY DEF Init, HandlerInv, Counts, NoLocal, NoRow
<1> QED
  BY <1>1, <1>2 DEF Init, SessionInv, TokenInv

\* A handler that is not concerned keeps its part, and one that answers loses it.
LEMMA FinishSession ==
  ASSUME TypeOK, SessionInv, NEW h \in Handlers, Finish(h)
  PROVE  \A g \in Handlers : HandlerInv(g)'
<1> SUFFICES ASSUME NEW g \in Handlers PROVE HandlerInv(g)'
  OBVIOUS
<1>1. CASE g = h
  BY <1>1 DEF TypeOK, Finish, Goto, HandlerInv, Counts, NoLocal, NoRow
<1>2. CASE g # h
  BY <1>2 DEF TypeOK, SessionInv, Finish, Goto, HandlerInv, Counts
<1> QED
  BY <1>1, <1>2

LEMMA KeepSession ==
  ASSUME TypeOK, SessionInv, NEW h \in Handlers, NEW u \in DOMAIN users, NEW how, NEW knows,
         NEW place, Keep(h, u, how, knows), Goto(h, place), place # "reload",
         how = "login" => knows = users[u].version, place \in {"update", "create"} => how = "sso"
  PROVE  \A g \in Handlers : HandlerInv(g)'
<1> SUFFICES ASSUME NEW g \in Handlers PROVE HandlerInv(g)'
  OBVIOUS
<1>1. CASE g = h
  BY <1>1 DEF TypeOK, SessionInv, TableInv, Keep, Goto, HandlerInv, Counts
<1>2. CASE g # h
  BY <1>2 DEF TypeOK, SessionInv, Keep, Goto, HandlerInv, Counts
<1> QED
  BY <1>1, <1>2

LEMMA StepSession == TypeOK /\ SessionInv /\ [Next]_vars => SessionInv'
<1> SUFFICES ASSUME TypeOK, SessionInv, [Next]_vars PROVE SessionInv'
  OBVIOUS
<1> DEFINE HandlersInv == \A g \in Handlers : HandlerInv(g)
<1>a. TableInv /\ TokenInv /\ HandlersInv
  BY DEF SessionInv
<1>b. ASSUME UNCHANGED <<users, tokens>>, HandlersInv' PROVE SessionInv'
  BY <1>a, <1>b DEF SessionInv, TableInv, TokenInv, Counts
<1>c. ASSUME UNCHANGED tokens PROVE TokenInv'
  BY <1>a, <1>c DEF TokenInv
<1>1. ASSUME NEW h \in Handlers, NEW u \in Users, Login(h, u) PROVE SessionInv'
  <2>1. users[u].password = users[u].version /\ "issue" \notin {"reload", "update", "create"}
    BY <1>1, <1>a DEF Login, TableInv, Counts
  <2>2. HandlersInv'
    BY <1>1, <2>1, KeepSession DEF Login
  <2> QED
    BY <1>1, <1>b, <2>2 DEF Login
<1>2. ASSUME NEW h \in Handlers, NEW t \in tokens, Authenticate(h, t) PROVE SessionInv'
  <2> DEFINE place == IF users[t.user].mustChange THEN "forced" ELSE "session"
  <2>1. t.user \in DOMAIN users /\ (t.how = "login" => t.knows = users[t.user].version)
    BY <1>2, <1>a DEF Authenticate, Accepted, TokenInv
  <2>2. place \notin {"reload", "update", "create"}
    OBVIOUS
  <2>3. Keep(h, t.user, t.how, t.knows) /\ Goto(h, place)
    BY <1>2 DEF Authenticate
  <2> HIDE DEF place
  <2>4. HandlersInv'
    BY <2>1, <2>2, <2>3, KeepSession
  <2> QED
    BY <1>2, <1>b, <2>4 DEF Authenticate
<1>3. ASSUME NEW h \in Handlers, IssueToken(h) PROVE SessionInv'
  <2>1. TokenInv'
    BY <1>3, <1>a DEF IssueToken, TokenInv, HandlerInv
  <2>2. TableInv' /\ HandlersInv'
    BY <1>3, <1>a, FinishSession DEF IssueToken, TableInv, Counts
  <2> QED
    BY <2>1, <2>2 DEF SessionInv
<1>4. ASSUME NEW h \in Handlers, ChangePassword(h) PROVE SessionInv'
  <2> DEFINE u == local[h].user
  <2>1. ASSUME u \in DOMAIN users, users[u].version = local[h].row.version,
               users' = [users EXCEPT ![u] = WithPassword(@, FALSE)],
               local' = [local EXCEPT ![h].how = "change", ![h].knows = users[u].password + 1],
               Goto(h, "reload")
        PROVE  TableInv' /\ HandlersInv'
    <3>1. Counts(WithPassword(users[u], FALSE))
      BY <2>1, <1>a, PasswordCounts DEF TypeOK, TableInv
    <3>2. TableInv'
      BY <1>a, <2>1, <3>1 DEF TableInv, Counts
    <3>3. ASSUME NEW g \in Handlers PROVE HandlerInv(g)'
      <4>1. CASE g = h
        <5>1. users[u].password = local[h].row.password
          BY <1>a, <2>1 DEF TableInv, HandlerInv, Counts
        <5>2. local'[h].row = local[h].row /\ local'[h].how = "change"
              /\ local'[h].knows = local[h].row.password + 1
          BY <2>1, <5>1 DEF TypeOK
        <5> QED
          BY <4>1, <5>2, <1>a, <2>1 DEF TypeOK, Goto, HandlerInv, Counts
      <4>2. CASE g # h
        BY <4>2, <1>a, <2>1 DEF TypeOK, Goto, HandlerInv, Counts
      <4> QED
        BY <4>1, <4>2
    <3> QED
      BY <3>2, <3>3
  <2>2. ASSUME UNCHANGED users, Finish(h) PROVE TableInv' /\ HandlersInv'
    BY <1>a, <2>2, FinishSession DEF TableInv, Counts
  <2>3. TableInv' /\ HandlersInv'
    BY <1>4, <2>1, <2>2 DEF ChangePassword
  <2> QED
    BY <1>4, <1>c, <2>3 DEF ChangePassword, SessionInv
<1>5. ASSUME NEW h \in Handlers, Reload(h) PROVE SessionInv'
  <2>1. local[h].how # "login"
    BY <1>5, <1>a DEF Reload, HandlerInv
  <2>2. HandlersInv'
    BY <1>5, <2>1, KeepSession, FinishSession DEF Reload
  <2> QED
    BY <1>5, <1>b, <2>2 DEF Reload
<1>6. ASSUME NEW h \in Handlers, NEW u \in Users, OIDCRead(h, u) PROVE SessionInv'
  <2>1. ASSUME u \in DOMAIN users, Keep(h, u, "sso", 0), Goto(h, "update") PROVE HandlersInv'
    BY <2>1, KeepSession
  <2>2. ASSUME local' = [local EXCEPT ![h] = [user |-> u, row |-> NoRow, how |-> "sso", knows |-> 0]],
               Goto(h, "create"), NEW g \in Handlers
        PROVE  HandlerInv(g)'
    <3>1. CASE g = h
      BY <2>2, <3>1 DEF TypeOK, Goto, HandlerInv, Counts, NoRow
    <3>2. CASE g # h
      BY <2>2, <3>2, <1>a DEF TypeOK, Goto, HandlerInv, Counts
    <3> QED
      BY <3>1, <3>2
  <2>3. HandlersInv'
    BY <1>6, <2>1, <2>2 DEF OIDCRead
  <2> QED
    BY <1>6, <1>b, <2>3 DEF OIDCRead
<1>d. ASSUME NEW h \in Handlers, pc[h] \in {"update", "create"}, UNCHANGED local, Goto(h, "reload")
      PROVE  HandlersInv'
  <2> SUFFICES ASSUME NEW g \in Handlers PROVE HandlerInv(g)'
    OBVIOUS
  <2> QED
    BY <1>a, <1>d DEF TypeOK, Goto, HandlerInv, Counts
<1>e. ASSUME NEW h \in Handlers, Finish(h), TableInv', UNCHANGED tokens PROVE SessionInv'
  BY <1>c, <1>e, FinishSession DEF SessionInv
<1>7. ASSUME NEW h \in Handlers, OIDCCreate(h) PROVE SessionInv'
  <2> DEFINE u == local[h].user
  <2>1. ASSUME u \notin DOMAIN users, users' = Added(u, NewRow(OIDCRole(h), "oidc"))
        PROVE  TableInv'
    BY <1>a, <2>1 DEF TableInv, Counts, Added, NewRow
  <2>2. CASE Finish(h) /\ UNCHANGED users
    BY <1>7, <1>a, <1>e, <2>2 DEF OIDCCreate, TableInv, Counts
  <2>3. CASE u \notin DOMAIN users /\ users' = Added(u, NewRow(OIDCRole(h), "oidc"))
             /\ Goto(h, "reload") /\ UNCHANGED local
    BY <1>7, <1>c, <1>d, <2>1, <2>3 DEF OIDCCreate, SessionInv
  <2> QED
    BY <1>7, <2>2, <2>3 DEF OIDCCreate
<1>8. ASSUME NEW h \in Handlers, OIDCUpdate(h) PROVE SessionInv'
  <2> DEFINE u == local[h].user
  <2>1. ASSUME u \in DOMAIN users, users' = [users EXCEPT ![u].role = OIDCRole(h)]
        PROVE  TableInv'
    BY <1>a, <2>1 DEF TypeOK, TableInv, Counts, Rows
  <2>2. CASE Finish(h) /\ UNCHANGED users
    BY <1>8, <1>a, <1>e, <2>2 DEF OIDCUpdate, TableInv, Counts
  <2>3. CASE u \in DOMAIN users /\ users' = [users EXCEPT ![u].role = OIDCRole(h)]
             /\ Goto(h, "reload") /\ UNCHANGED local
    BY <1>8, <1>c, <1>d, <2>1, <2>3 DEF OIDCUpdate, SessionInv
  <2> QED
    BY <1>8, <2>2, <2>3 DEF OIDCUpdate
<1>9. ASSUME NEW h \in Handlers, Abandon(h) PROVE SessionInv'
  BY <1>9, <1>b, FinishSession DEF Abandon
<1>10. ASSUME NEW h \in Handlers, NEW u \in Users, ResetUserPassword(h, u) PROVE SessionInv'
  <2>1. Counts(WithPassword(users[u], TRUE))
    BY <1>10, <1>a, PasswordCounts DEF TypeOK, TableInv, ResetUserPassword
  <2>2. TableInv'
    BY <1>10, <1>a, <2>1 DEF ResetUserPassword, TableInv, Counts
  <2> QED
    BY <1>10, <1>e, <2>2 DEF ResetUserPassword, Administer
<1>11. ASSUME NEW h \in Handlers, NEW u \in Users, DeleteUser(h, u) PROVE SessionInv'
  <2>1. TableInv'
    BY <1>11, <1>a DEF DeleteUser, TableInv, Counts
  <2> QED
    BY <1>11, <1>e, <2>1 DEF DeleteUser, Administer
<1>12. ASSUME NEW h \in Handlers, NEW u \in Users, NEW role \in Roles, CreateUser(h, u, role)
       PROVE  SessionInv'
  <2>1. TableInv'
    BY <1>12, <1>a DEF CreateUser, TableInv, Counts, Added, NewRow
  <2> QED
    BY <1>12, <1>e, <2>1 DEF CreateUser, Administer
<1>13. ASSUME NEW h \in Handlers, NEW u \in Users, NEW role \in Roles, NEW active \in BOOLEAN,
              UpdateUser(h, u, role, active)
       PROVE  SessionInv'
  <2>1. TableInv'
    BY <1>13, <1>a DEF UpdateUser, TypeOK, TableInv, Counts, Rows
  <2> QED
    BY <1>13, <1>e, <2>1 DEF UpdateUser, Administer
<1>14. CASE UNCHANGED vars
  BY <1>14, <1>a, <1>b DEF vars, HandlerInv, Counts
<1> QED
  BY <1>1, <1>2, <1>3, <1>4, <1>5, <1>6, <1>7, <1>8, <1>9, <1>10, <1>11, <1>12, <1>13, <1>14 DEF Next

\* Whatever resets, changes and deletions come between the statements of a login, its
\* session ends with the password that was shown for it.
THEOREM LoginsEndWithTheirPassword == Spec => []OldLoginsEnd
<1>1. TypeOK /\ SessionInv => OldLoginsEnd
  BY DEF SessionInv, TableInv, TokenInv, Counts, OldLoginsEnd, Accepted
<1> QED
  BY <1>1, InitType, StepType, InitSession, StepSession, PTL DEF Spec

\* A forced change never replaces a password other than the one that its session
\* stands for, however long the request takes.
THEOREM ChangesReplaceTheirOwn == Spec => []ChangeReplacesOwn
<1>1. SessionInv => ChangeReplacesOwn
  BY DEF SessionInv, HandlerInv, ChangeReplacesOwn
<1> QED
  BY <1>1, InitType, StepType, InitSession, StepSession, PTL DEF Spec

-----------------------------------------------------------------------------
\* Administrators.

LEMMA InitAdministrator == Init => AdministratorRemains
BY InitialAssumption DEF Init, AdministratorRemains, IsAdmin

LEMMA StepAdministrator == TypeOK /\ AdministratorRemains /\ [Next]_vars => AdministratorRemains'
<1> SUFFICES ASSUME TypeOK, AdministratorRemains, [Next]_vars, ~stale' PROVE \E u \in Users : IsAdmin(u)'
  BY DEF AdministratorRemains
<1>a. ASSUME NEW a \in Users, a \in DOMAIN users', users'[a].active, users'[a].role = "admin"
      PROVE  \E u \in Users : IsAdmin(u)'
  BY <1>a DEF IsAdmin
<1>b. ASSUME ~stale, UNCHANGED users PROVE \E u \in Users : IsAdmin(u)'
  BY <1>b DEF AdministratorRemains, IsAdmin
\* The administrator whose request takes effect is the one that remains.
<1>c. ASSUME NEW h \in Handlers, Administer(h)
      PROVE  /\ local[h].user \in Users /\ local[h].user \in DOMAIN users
             /\ users[local[h].user].active /\ users[local[h].user].role = "admin"
  BY <1>c DEF Administer, IsAdmin, TypeOK
<1>1. ASSUME NEW h \in Handlers, NEW u \in Users, ResetUserPassword(h, u)
      PROVE  \E v \in Users : IsAdmin(v)'
  <2> DEFINE a == local[h].user
  <2>1. users'[a].active /\ users'[a].role = "admin"
    <3>1. users[u] \in Rows /\ TRUE \in BOOLEAN
      BY <1>1 DEF ResetUserPassword, TypeOK
    <3>2. WithPassword(users[u], TRUE).role = users[u].role
          /\ WithPassword(users[u], TRUE).active = users[u].active
      BY <3>1, WithPasswordType
    <3> QED
      BY <1>1, <1>c, <3>2 DEF ResetUserPassword, TypeOK
  <2> QED
    BY <1>1, <1>a, <1>c, <2>1 DEF ResetUserPassword
<1>2. ASSUME NEW h \in Handlers, NEW u \in Users, DeleteUser(h, u)
      PROVE  \E v \in Users : IsAdmin(v)'
  BY <1>2, <1>a, <1>c DEF DeleteUser
<1>3. ASSUME NEW h \in Handlers, NEW u \in Users, NEW role \in Roles, CreateUser(h, u, role)
      PROVE  \E v \in Users : IsAdmin(v)'
  BY <1>3, <1>a, <1>c DEF CreateUser, Added
<1>4. ASSUME NEW h \in Handlers, NEW u \in Users, NEW role \in Roles, NEW active \in BOOLEAN,
             UpdateUser(h, u, role, active)
      PROVE  \E v \in Users : IsAdmin(v)'
  <2> DEFINE a == local[h].user
  <2>1. users'[a].active /\ users'[a].role = "admin"
    BY <1>4, <1>c DEF UpdateUser, TypeOK, Rows
  <2> QED
    BY <1>4, <1>a, <1>c, <2>1 DEF UpdateUser
<1>5. ASSUME NEW h \in Handlers, OIDCCreate(h) PROVE \E v \in Users : IsAdmin(v)'
  <2>1. PICK a \in Users : IsAdmin(a)
    BY <1>5 DEF OIDCCreate, AdministratorRemains
  <2> QED
    BY <1>5, <1>a, <2>1 DEF OIDCCreate, IsAdmin, Added
<1>6. ASSUME NEW h \in Handlers, OIDCUpdate(h) PROVE \E v \in Users : IsAdmin(v)'
  <2> DEFINE u == local[h].user
  <2>1. ~stale
    BY <1>6 DEF OIDCUpdate
  <2>2. PICK a \in Users : IsAdmin(a)
    BY <2>1 DEF AdministratorRemains
  <2>3. ASSUME u \in DOMAIN users, users' = [users EXCEPT ![u].role = OIDCRole(h)],
               users[u].role = local[h].row.role
        PROVE  users'[a].active /\ users'[a].role = "admin" /\ a \in DOMAIN users'
    BY <2>2, <2>3 DEF IsAdmin, OIDCRole, TypeOK, Rows
  <2> QED
    BY <1>6, <1>a, <1>b, <2>1, <2>3 DEF OIDCUpdate
<1>7. ASSUME NEW h \in Handlers,
             IssueToken(h) \/ Reload(h) \/ Abandon(h) \/ ChangePassword(h)
             \/ (\E u \in Users : Login(h, u) \/ OIDCRead(h, u))
             \/ (\E t \in tokens : Authenticate(h, t))
      PROVE  \E v \in Users : IsAdmin(v)'
  <2>1. ~stale
    BY <1>7 DEF IssueToken, Reload, Abandon, ChangePassword, Login, OIDCRead, Authenticate
  <2>2. ASSUME ChangePassword(h) PROVE \E v \in Users : IsAdmin(v)'
    <3>1. PICK a \in Users : IsAdmin(a)
      BY <2>1 DEF AdministratorRemains
    <3>2. a \in DOMAIN users' /\ users'[a].active /\ users'[a].role = "admin"
      <4> DEFINE u == local[h].user
      <4>1. ASSUME u \in DOMAIN users, users' = [users EXCEPT ![u] = WithPassword(@, FALSE)]
            PROVE  a \in DOMAIN users' /\ users'[a].active /\ users'[a].role = "admin"
        <5>1. users[u] \in Rows /\ FALSE \in BOOLEAN
          BY <4>1 DEF TypeOK
        <5>2. WithPassword(users[u], FALSE).role = users[u].role
              /\ WithPassword(users[u], FALSE).active = users[u].active
          BY <5>1, WithPasswordType
        <5> QED
          BY <3>1, <4>1, <5>2 DEF IsAdmin, TypeOK
      <4> QED
        BY <2>2, <3>1, <4>1 DEF ChangePassword, IsAdmin
    <3> QED
      BY <1>a, <3>2
  <2> QED
    BY <1>7, <1>b, <2>1, <2>2 DEF IssueToken, Reload, Abandon, Login, OIDCRead, Authenticate
<1>8. CASE UNCHANGED vars
  BY <1>8, <1>b DEF vars
<1> QED
  BY <1>1, <1>2, <1>3, <1>4, <1>5, <1>6, <1>7, <1>8 DEF Next

\* No sequence of demotions, deletions, resets and OIDC logins leaves the system without
\* an administrator, as long as roles are not stale when they are used or written.
THEOREM AnAdministratorRemains == Spec => []AdministratorRemains
BY InitType, StepType, InitAdministrator, StepAdministrator, PTL DEF Spec

-----------------------------------------------------------------------------
\* Disabled accounts.

LEMMA StepDisabled ==
  ASSUME TypeOK, Next, NEW u \in DOMAIN users, ~users[u].active, u \in DOMAIN users', users'[u].active
  PROVE  \E h \in Handlers : pc[h] = "session" /\ local[h].row.role = "admin"
<1> SUFFICES ASSUME \A h \in Handlers : ~Administer(h) PROVE FALSE
  BY DEF Administer
<1>1. ASSUME NEW v \in DOMAIN users, users' = [users EXCEPT ![v] = WithPassword(@, FALSE)] PROVE FALSE
  <2>1. WithPassword(users[v], FALSE).active = users[v].active
    BY WithPasswordType DEF TypeOK
  <2> QED
    BY <1>1, <2>1 DEF TypeOK
<1>2. ASSUME NEW v \in DOMAIN users, NEW role, users' = [users EXCEPT ![v].role = role] PROVE FALSE
  BY <1>2 DEF TypeOK, Rows
<1>3. ASSUME NEW v, v \notin DOMAIN users, NEW row, users' = Added(v, row) PROVE FALSE
  BY <1>3 DEF Added
<1> DEFINE Changed == users' # users
<1>4. Changed
  OBVIOUS
<1> HIDE DEF Changed
<1>5. ASSUME NEW h \in Handlers, NEW v \in Users, Login(h, v) \/ OIDCRead(h, v) PROVE FALSE
  BY <1>4, <1>5 DEF Login, OIDCRead, Changed
<1>6. ASSUME NEW h \in Handlers, NEW t \in tokens, Authenticate(h, t) PROVE FALSE
  BY <1>4, <1>6 DEF Authenticate, Changed
<1>7. ASSUME NEW h \in Handlers, IssueToken(h) \/ Reload(h) \/ Abandon(h) PROVE FALSE
  BY <1>4, <1>7 DEF IssueToken, Reload, Abandon, Changed
<1>8. ASSUME NEW h \in Handlers, ChangePassword(h) PROVE FALSE
  BY <1>1, <1>4, <1>8 DEF ChangePassword, Changed
<1>9. ASSUME NEW h \in Handlers, OIDCCreate(h) PROVE FALSE
  BY <1>3, <1>4, <1>9 DEF OIDCCreate, Changed
<1>10. ASSUME NEW h \in Handlers, OIDCUpdate(h) PROVE FALSE
  BY <1>2, <1>4, <1>10 DEF OIDCUpdate, Changed
<1>11. ASSUME NEW h \in Handlers, NEW v \in Users, ResetUserPassword(h, v) \/ DeleteUser(h, v)
       PROVE  FALSE
  BY <1>11 DEF ResetUserPassword, DeleteUser
<1>12. ASSUME NEW h \in Handlers, NEW v \in Users, NEW role \in Roles, CreateUser(h, v, role)
       PROVE  FALSE
  BY <1>12 DEF CreateUser
<1>13. ASSUME NEW h \in Handlers, NEW v \in Users, NEW role \in Roles, NEW active \in BOOLEAN,
              UpdateUser(h, v, role, active)
       PROVE  FALSE
  BY <1>13 DEF UpdateUser
<1> QED
  BY <1>5, <1>6, <1>7, <1>8, <1>9, <1>10, <1>11, <1>12, <1>13 DEF Next

\* Only an administrator's own request enables a disabled account: neither a password
\* nor an OIDC login that is under way does.
THEOREM OnlyAdministratorsEnable == Spec => DisabledStaysDisabled
<1>1. TypeOK /\ [Next]_vars =>
        [\A u \in DOMAIN users : ~users[u].active /\ u \in DOMAIN users' /\ users'[u].active =>
           \E h \in Handlers : pc[h] = "session" /\ local[h].row.role = "admin"]_vars
  BY StepDisabled
<1> QED
  BY <1>1, InitType, StepType, PTL DEF Spec, DisabledStaysDisabled
=============================================================================

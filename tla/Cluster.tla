------------------------------ MODULE Cluster ------------------------------
(***************************************************************************)
(* Nodes that share a Postgres database: how they start, keep themselves   *)
(* listed in cluster_nodes, and stop.                                      *)
(*                                                                         *)
(* A start takes the advisory lock, adds the columns that are missing in   *)
(* one transaction, creates the administrator if there are no users, and   *)
(* prints the temporary password.  Then every heartbeat writes the node's  *)
(* row and removes rows that have expired; one that is under way when the  *)
(* process ends may still reach the database.  Times are ages: how long    *)
(* ago something was.                                                      *)
(***************************************************************************)
EXTENDS Integers, FiniteSets

CONSTANTS
  Nodes,       \* instance ids; one is used again only when nothing of its last
               \* process is under way (by default they have the process's id)
  Columns,     \* columns that migrations add
  Knows,       \* Knows[n]: those that the binary of n knows
  StaleAfter,  \* NodeStaleAfter, in ticks
  Retention,   \* clusterNodeRetention
  Timeout,     \* of a heartbeat
  MaxStarts    \* bound on the starts, and so on temporary passwords

ASSUME NodesAssumption == 0 - 1 \notin Nodes
ASSUME KnowsAssumption == Knows \in [Nodes -> SUBSET Columns]
ASSUME TimesAssumption ==
  /\ StaleAfter \in Nat /\ Retention \in Nat /\ Timeout \in Nat /\ MaxStarts \in Nat
  /\ Timeout < StaleAfter /\ StaleAfter < Retention

VARIABLES
  up,       \* does the database answer
  lock,     \* who holds the advisory lock
  columns,  \* columns that are committed
  admin,    \* the administrator's password: a temporary one, None, or Changed
  rows,     \* cluster_nodes: ages of last_seen_at
  pc,       \* where each process is
  added,    \* columns that its transaction has added
  lacks,    \* the column that it has found missing
  password, \* its temporary password
  sees,     \* has its insertion of the administrator seen no users, then: created one
  beat,     \* the age of the heartbeat under way
  last,     \* lastHeartbeatAt
  failed,   \* lastHeartbeatErr
  late,     \* the age of a heartbeat that a process has left under way when it ended
  starts,   \* how many starts there were; their numbers are the temporary passwords
  printed,  \* passwords printed (history)
  clash     \* has a migration added a column a second time (history)

database == <<lock, columns, admin>>
start    == <<added, lacks, password, sees, starts, printed, clash>>
member   == <<beat, last, failed>>
clusterVars     == <<up, database, rows, pc, start, member, late>>

None    == 0 - 1
Changed == 0
Oldest  == Retention + Timeout + 1  \* rows of this age have expired for every heartbeat

ClusterTypeOK ==
  /\ up \in BOOLEAN /\ clash \in BOOLEAN /\ starts \in 0..MaxStarts
  /\ lock \in Nodes \cup {None} /\ columns \subseteq Columns
  /\ admin \in (None..MaxStarts) /\ printed \subseteq 1..MaxStarts
  /\ rows \in [Nodes -> None..Oldest]
  /\ pc \in [Nodes -> {"down", "locking", "migrating", "seeding", "inserting", "banner",
                       "registering", "serving", "stopping"}]
  /\ added \in [Nodes -> SUBSET Columns] /\ lacks \in [Nodes -> SUBSET Columns]
  /\ password \in [Nodes -> 0..MaxStarts] /\ sees \in [Nodes -> BOOLEAN]
  /\ beat \in [Nodes -> None..Timeout] /\ late \in [Nodes -> None..Timeout]
  /\ last \in [Nodes -> 0..StaleAfter + 1] /\ failed \in [Nodes -> BOOLEAN]

ClusterInit ==
  /\ up = TRUE /\ lock = None /\ columns = {} /\ admin = None
  /\ rows = [n \in Nodes |-> None] /\ pc = [n \in Nodes |-> "down"]
  /\ added = [n \in Nodes |-> {}] /\ lacks = [n \in Nodes |-> {}]
  /\ password = [n \in Nodes |-> 0] /\ sees = [n \in Nodes |-> FALSE]
  /\ beat = [n \in Nodes |-> None] /\ late = [n \in Nodes |-> None]
  /\ last = [n \in Nodes |-> 0] /\ failed = [n \in Nodes |-> FALSE]
  /\ starts = 0 /\ printed = {} /\ clash = FALSE

Go(n, from, to) == pc[n] = from /\ pc' = [pc EXCEPT ![n] = to]

-----------------------------------------------------------------------------
\* Starting.

\* main generates a password before it knows whether it is needed.
Start(n) ==
  /\ up /\ starts < MaxStarts /\ late[n] = None
  /\ Go(n, "down", "locking")
  /\ starts' = starts + 1
  /\ password' = [password EXCEPT ![n] = starts + 1]
  /\ UNCHANGED <<up, database, rows, added, lacks, sees, printed, clash, member, late>>

Free == lock = None
Lock(n) ==
  /\ up /\ Free /\ Go(n, "locking", "migrating")
  /\ lock' = n
  /\ UNCHANGED <<up, columns, admin, rows, start, member, late>>

\* ensureColumnTx looks for a column, then adds it.
Lacking(n) == Knows[n] \ (columns \cup added[n])
FindMissing(n) ==
  /\ up /\ pc[n] = "migrating" /\ lacks[n] = {}
  /\ \E c \in Lacking(n) : lacks' = [lacks EXCEPT ![n] = {c}]
  /\ UNCHANGED <<up, database, rows, pc, added, password, sees, starts, printed, clash, member, late>>

AddColumn(n) ==
  /\ up /\ pc[n] = "migrating" /\ lacks[n] # {}
  /\ lacks' = [lacks EXCEPT ![n] = {}]
  /\ added' = [added EXCEPT ![n] = @ \cup lacks[n]]
  /\ clash' = (clash \/ lacks[n] \subseteq columns)
  /\ UNCHANGED <<up, database, rows, pc, password, sees, starts, printed, member, late>>

CommitSchema(n) ==
  /\ up /\ lacks[n] = {} /\ Lacking(n) = {} /\ Go(n, "migrating", "seeding")
  /\ columns' = columns \cup added[n] /\ lock' = None
  /\ added' = [added EXCEPT ![n] = {}]
  /\ UNCHANGED <<up, admin, rows, lacks, password, sees, starts, printed, clash, member, late>>

\* The insertion of the administrator sees the users as they were when it began; a row that
\* has come meanwhile is a conflict, and nothing is done.
LookForUsers(n) ==
  /\ up /\ Go(n, "seeding", "inserting")
  /\ sees' = [sees EXCEPT ![n] = (admin = None)]
  /\ UNCHANGED <<up, database, rows, added, lacks, password, starts, printed, clash, member, late>>

\* Mutant of Created: what was seen decides.
CreatedBySight(n) == sees[n]

Created(n) == sees[n] /\ admin = None
InsertAdmin(n) ==
  /\ up /\ Go(n, "inserting", "banner")
  /\ sees' = [sees EXCEPT ![n] = Created(n)]
  /\ admin' = IF sees[n] /\ admin = None THEN password[n] ELSE admin
  /\ UNCHANGED <<up, lock, columns, rows, added, lacks, password, starts, printed, clash, member, late>>

\* Only the node that has created the account prints.
PrintBanner(n) ==
  /\ Go(n, "banner", "registering")
  /\ printed' = IF sees[n] THEN printed \cup {password[n]} ELSE printed
  /\ password' = [password EXCEPT ![n] = 0] /\ sees' = [sees EXCEPT ![n] = FALSE]
  /\ UNCHANGED <<up, database, rows, added, lacks, starts, clash, member, late>>

\* A row has expired for a heartbeat of this age.
Expired(n, age) == rows[n] > Retention + age

\* Mutant of Pruned: nothing is removed.
PrunedNever(n, age) == [rows EXCEPT ![n] = age]

\* UpsertClusterNode and PruneClusterNodes.
Pruned(n, age) ==
  [m \in Nodes |-> IF m = n THEN age ELSE IF Expired(m, age) THEN None ELSE rows[m]]

\* The first heartbeat is part of the start, and must succeed; but it does not matter whether
\* expired rows could be removed.
Register(n) ==
  /\ up /\ Go(n, "registering", "serving")
  /\ rows' \in {Pruned(n, 0), [rows EXCEPT ![n] = 0]}
  /\ last' = [last EXCEPT ![n] = 0] /\ failed' = [failed EXCEPT ![n] = FALSE]
  /\ UNCHANGED <<up, database, start, beat, late>>

\* The process ends, whatever it was doing: its transaction is rolled back, and a
\* heartbeat that is under way is on its own.  (Also a start that fails or times out.)
End(n) ==
  /\ pc' = [pc EXCEPT ![n] = "down"]
  /\ lock' = IF lock = n THEN None ELSE lock
  /\ added' = [added EXCEPT ![n] = {}] /\ lacks' = [lacks EXCEPT ![n] = {}]
  /\ password' = [password EXCEPT ![n] = 0] /\ sees' = [sees EXCEPT ![n] = FALSE]
  /\ late' = [late EXCEPT ![n] = beat[n]] /\ beat' = [beat EXCEPT ![n] = None]
  /\ last' = [last EXCEPT ![n] = 0] /\ failed' = [failed EXCEPT ![n] = FALSE]
  /\ UNCHANGED <<up, columns, admin, starts, printed, clash>>

Crash(n) == pc[n] # "down" /\ End(n) /\ UNCHANGED rows

-----------------------------------------------------------------------------
\* Heartbeats.

BeginBeat(n) ==
  /\ pc[n] \in {"serving", "stopping"} /\ beat[n] = None /\ (last[n] > 0 \/ failed[n])
  /\ beat' = [beat EXCEPT ![n] = 0]
  /\ UNCHANGED <<up, database, rows, pc, start, last, failed, late>>

\* Mutant of Recorded: the time at the end of the heartbeat is kept.
RecordedAtEnd(age) == 0

\* The time that the heartbeat began with, which is also in the row.
Recorded(age) == age

Succeed(n) ==
  /\ last' = [last EXCEPT ![n] = Recorded(beat[n])]
  /\ failed' = [failed EXCEPT ![n] = FALSE]
Beat(n) ==
  /\ up /\ beat[n] # None
  /\ rows' = Pruned(n, beat[n])
  /\ Succeed(n)
  /\ beat' = [beat EXCEPT ![n] = None]
  /\ UNCHANGED <<up, database, pc, start, late>>

\* The database stops answering before the row is written, before that is known, or before
\* expired rows are removed, which does not matter to the heartbeat.
BeatFails(n) ==
  /\ ~up /\ beat[n] # None
  /\ \/ /\ rows' = [rows EXCEPT ![n] = beat[n]]
        /\ Succeed(n)
     \/ /\ rows' \in {rows, [rows EXCEPT ![n] = beat[n]]}
        /\ failed' = [failed EXCEPT ![n] = TRUE] /\ UNCHANGED last
  /\ beat' = [beat EXCEPT ![n] = None]
  /\ UNCHANGED <<up, database, pc, start, late>>

LateBeat(n) ==
  /\ late[n] # None
  /\ late' = [late EXCEPT ![n] = None]
  /\ \/ up /\ rows' = [rows EXCEPT ![n] = late[n]]
     \/ UNCHANGED rows
  /\ UNCHANGED <<up, database, pc, start, member>>

\* Shutdown waits for requests; the loop of heartbeats goes on until the process ends.
Stop(n) ==
  /\ Go(n, "serving", "stopping")
  /\ UNCHANGED <<up, database, rows, start, member, late>>

\* The node's row is deleted, if the database answers, and the process ends.
Leave(n) ==
  /\ pc[n] = "stopping" /\ End(n)
  /\ rows' = IF up THEN [rows EXCEPT ![n] = None] ELSE rows

-----------------------------------------------------------------------------
\* The surroundings.

\* The administrator signs in with what has been printed, and must choose a password.
ChangePassword ==
  /\ up /\ admin \in printed /\ \E n \in Nodes : pc[n] = "serving"
  /\ admin' = Changed
  /\ UNCHANGED <<up, lock, columns, rows, pc, start, member, late>>

\* When the database stops answering, transactions are rolled back, and starts that are
\* waiting for it fail.
Outage ==
  LET failing == {n \in Nodes : pc[n] \in {"locking", "migrating", "seeding", "inserting"}}
  IN  /\ up /\ up' = FALSE
      /\ pc' = [n \in Nodes |-> IF n \in failing THEN "down" ELSE pc[n]]
      /\ lock' = None
      /\ added' = [n \in Nodes |-> {}] /\ lacks' = [n \in Nodes |-> {}]
      /\ password' = [n \in Nodes |-> IF n \in failing THEN 0 ELSE password[n]]
      /\ sees' = [n \in Nodes |-> IF n \in failing THEN FALSE ELSE sees[n]]
      /\ UNCHANGED <<columns, admin, rows, starts, printed, clash, member, late>>
Return ==
  /\ ~up /\ up' = TRUE
  /\ UNCHANGED <<database, rows, pc, start, member, late>>

Older(age, most) == IF age = None \/ age = most THEN age ELSE age + 1
ClusterTick ==
  /\ \A n \in Nodes : beat[n] < Timeout /\ late[n] < Timeout
  /\ rows' = [n \in Nodes |-> Older(rows[n], Oldest)]
  /\ beat' = [n \in Nodes |-> Older(beat[n], Timeout)]
  /\ late' = [n \in Nodes |-> Older(late[n], Timeout)]
  /\ last' = [n \in Nodes |-> IF pc[n] \in {"serving", "stopping"} THEN Older(last[n], StaleAfter + 1) ELSE 0]
  /\ UNCHANGED <<up, database, pc, start, failed>>

ClusterNext ==
  \/ \E n \in Nodes :
       \/ Start(n) \/ Lock(n) \/ FindMissing(n) \/ AddColumn(n) \/ CommitSchema(n)
       \/ LookForUsers(n) \/ InsertAdmin(n) \/ PrintBanner(n) \/ Register(n) \/ Crash(n)
       \/ BeginBeat(n) \/ Beat(n) \/ BeatFails(n) \/ LateBeat(n) \/ Stop(n) \/ Leave(n)
  \/ ChangePassword \/ Outage \/ Return \/ ClusterTick

ClusterSpec == ClusterInit /\ [][ClusterNext]_clusterVars

\* Time passes, and a node's loop of heartbeats goes on.  Nobody must start or stop nodes.
Fairness ==
  /\ WF_clusterVars(ClusterTick)
  /\ \A n \in Nodes : /\ WF_clusterVars(BeginBeat(n)) /\ WF_clusterVars(Beat(n))
                      /\ WF_clusterVars(BeatFails(n)) /\ WF_clusterVars(LateBeat(n))
FairSpec == ClusterSpec /\ Fairness

-----------------------------------------------------------------------------
Serving(n) == pc[n] = "serving"

\* GET /ready, and the status that a node shows its administrator.
Ready(n) == Serving(n) /\ up /\ ~failed[n] /\ last[n] <= StaleAfter
Status(n) ==
  LET listed == {m \in Nodes : rows[m] # None}
      stale  == {m \in listed : rows[m] > StaleAfter}
  IN  IF failed[n] \/ stale = listed THEN "unavailable"
      ELSE IF stale # {} THEN "degraded" ELSE "healthy"

\* However many nodes start on an empty database, and wherever they crash: at most one
\* password is ever printed, and it opens the account until the administrator has chosen
\* another; and a node that serves has an administrator and every column it knows, none of
\* which has been added twice.  (EnsureBootstrapData and main's banner; initPostgresSchema.)
PrintedOpens ==
  /\ Cardinality(printed) <= 1
  /\ printed # {} => admin \in printed \cup {Changed}
SchemaReady ==
  /\ ~clash
  /\ \A n \in Nodes : Serving(n) => admin # None /\ Knows[n] \subseteq columns
StartsOnce == PrintedOpens /\ SchemaReady

\* A node that tells the load balancer it is ready has a row that is not stale, whatever
\* other nodes prune, and does not show itself as unavailable.  (updateClusterHeartbeat,
\* ready, buildClusterStatus.)
ReadyIsListed ==
  \A n \in Nodes : Ready(n) => rows[n] \in 0..StaleAfter /\ Status(n) # "unavailable"

\* Once the database answers for good, a node that goes on serving is ready again and
\* again, and the row of one that has ended, also one that its last heartbeat has brought
\* back, goes away if any other goes on serving.  (clusterHeartbeatLoop, PruneClusterNodes.)
ReadyAgain == \A n \in Nodes : <>[](up /\ Serving(n)) => []<>Ready(n)
GhostsVanish ==
  \A n \in Nodes :
    <>[](up /\ pc[n] = "down") /\ (\E m \in Nodes : <>[]Serving(m)) => <>[](rows[n] = None)
MembershipHeals == ReadyAgain /\ GhostsVanish
=============================================================================

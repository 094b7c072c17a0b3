------------------------ MODULE SharedDatabaseProofs ------------------------
(***************************************************************************)
(* Proofs about what nodes share in the database: the list of nodes and    *)
(* the schema they start on (Cluster), for any number of nodes, columns    *)
(* and starts, and any times; and the circuits of providers                *)
(* (ProviderHealth), for any number of providers and writers, any          *)
(* threshold and cooldown, on both databases.  Cluster's two invariants,   *)
(* one of starts and one of heartbeats, each follow from the types and     *)
(* their own part of the state.                                            *)
(***************************************************************************)
EXTENDS Cluster, ProviderHealth, FiniteSetTheorems, TLAPS

Starting == {"locking", "migrating", "seeding", "inserting", "banner"}
Migrated == {"seeding", "inserting", "banner", "registering", "serving", "stopping"}
Seeded   == {"banner", "registering", "serving", "stopping"}
Beating  == {"serving", "stopping"}

-----------------------------------------------------------------------------
\* Starts.

StartTypes ==
  /\ up \in BOOLEAN /\ starts \in Nat /\ admin \in Int
  /\ pc \in [Nodes -> {"down"} \cup {"locking", "migrating"} \cup Migrated]
  /\ added \in [Nodes -> SUBSET Columns] /\ lacks \in [Nodes -> SUBSET Columns]
  /\ password \in [Nodes -> Nat] /\ sees \in [Nodes -> BOOLEAN]

\* Who migrates holds the lock, so what it finds missing stays missing.
OneMigrates ==
  /\ \A n \in Nodes : pc[n] = "migrating" <=> lock = n
  /\ \A n \in Nodes : lacks[n] # {} => pc[n] = "migrating" /\ lacks[n] \cap columns = {}
  /\ clash = FALSE

\* What a start has done stays done.
Progress ==
  \A n \in Nodes : /\ pc[n] \in Migrated => Knows[n] \subseteq columns
                   /\ pc[n] \in Seeded => admin # None
                   /\ pc[n] = "inserting" /\ ~sees[n] => admin # None

\* The passwords of the starts under way differ, and the one that is about to print its
\* own has created the account and is the first to print.
OnePassword ==
  /\ \A n \in Nodes : pc[n] \in Starting => password[n] \in 1..starts
  /\ \A m, n \in Nodes :
       pc[m] \in Starting /\ pc[n] \in Starting /\ password[m] = password[n] => m = n
  /\ admin = None => printed = {}
  /\ \A n \in Nodes : pc[n] = "banner" /\ sees[n] => admin = password[n] /\ printed = {}
  /\ \A p, q \in printed : p = q /\ admin \in {p, Changed}

StartInv == StartTypes /\ OneMigrates /\ Progress /\ OnePassword

LEMMA StartInit == ClusterInit => StartInv
BY NodesAssumption DEF ClusterInit, StartInv, StartTypes, OneMigrates, Progress, OnePassword,
   Starting, Migrated, Seeded, None

\* One step per action; those of heartbeats and of the surroundings leave all of it alone.
LEMMA StartStep == StartInv /\ [ClusterNext]_clusterVars => StartInv'
<1> SUFFICES ASSUME StartInv, [ClusterNext]_clusterVars
             PROVE  StartInv'
  OBVIOUS
<1> USE NodesAssumption
    DEF StartInv, Starting, Migrated, Seeded, None, Changed, Go, database, start, member
<1>1. CASE UNCHANGED <<database, pc, start>> /\ up' \in BOOLEAN
  BY <1>1 DEF StartTypes, OneMigrates, Progress, OnePassword
<1>2. ASSUME NEW n \in Nodes, Start(n)
      PROVE  StartInv'
  <2>1. StartTypes' /\ OneMigrates' /\ Progress'
    BY <1>2 DEF Start, StartTypes, OneMigrates, Progress
  <2>2. OnePassword'
    BY <1>2 DEF Start, StartTypes, OnePassword
  <2> QED
    BY <2>1, <2>2
<1>3. ASSUME NEW n \in Nodes, Lock(n)
      PROVE  StartInv'
  <2>1. StartTypes' /\ OneMigrates' /\ Progress'
    BY <1>3 DEF Lock, Free, StartTypes, OneMigrates, Progress
  <2>2. OnePassword'
    BY <1>3 DEF Lock, StartTypes, OnePassword
  <2> QED
    BY <2>1, <2>2
<1>4. ASSUME NEW n \in Nodes, FindMissing(n)
      PROVE  StartInv'
  <2>1. /\ pc[n] = "migrating" /\ lacks[n] = {}
        /\ UNCHANGED <<lock, columns, admin, up, pc, added, password, sees, starts, printed, clash>>
    BY <1>4 DEF FindMissing
  <2>2. PICK c \in Lacking(n) : lacks' = [lacks EXCEPT ![n] = {c}]
    BY <1>4 DEF FindMissing
  <2>3. c \in Columns /\ c \notin columns
    BY KnowsAssumption DEF Lacking
  <2>4. StartTypes' /\ OneMigrates'
    BY <2>1, <2>2, <2>3 DEF StartTypes, OneMigrates
  <2>5. Progress' /\ OnePassword'
    BY <2>1 DEF Progress, OnePassword
  <2> QED
    BY <2>4, <2>5
<1>5. ASSUME NEW n \in Nodes, AddColumn(n)
      PROVE  StartInv'
  <2>1. ~(lacks[n] \subseteq columns) /\ clash' = (clash \/ lacks[n] \subseteq columns)
    BY <1>5 DEF AddColumn, OneMigrates
  <2>2. clash' = FALSE
    BY <2>1 DEF OneMigrates
  <2>3. StartTypes' /\ OneMigrates'
    BY <1>5, <2>2 DEF AddColumn, StartTypes, OneMigrates
  <2>4. Progress' /\ OnePassword'
    BY <1>5 DEF AddColumn, Progress, OnePassword
  <2> QED
    BY <2>3, <2>4
<1>6. ASSUME NEW n \in Nodes, CommitSchema(n)
      PROVE  StartInv'
  <2>1. StartTypes' /\ OneMigrates'
    BY <1>6 DEF CommitSchema, StartTypes, OneMigrates
  <2>2. Progress'
    BY <1>6 DEF CommitSchema, Lacking, StartTypes, Progress
  <2>3. OnePassword'
    BY <1>6 DEF CommitSchema, StartTypes, OnePassword
  <2> QED
    BY <2>1, <2>2, <2>3
<1>7. ASSUME NEW n \in Nodes, LookForUsers(n)
      PROVE  StartInv'
  <2>1. StartTypes' /\ OneMigrates' /\ Progress'
    BY <1>7 DEF LookForUsers, StartTypes, OneMigrates, Progress
  <2>2. OnePassword'
    BY <1>7 DEF LookForUsers, StartTypes, OnePassword
  <2> QED
    BY <2>1, <2>2
<1>8. ASSUME NEW n \in Nodes, InsertAdmin(n)
      PROVE  StartInv'
  <2>1. Created(n) \in BOOLEAN /\ (Created(n) <=> sees[n] /\ admin = None)
    BY DEF Created
  <2>2. /\ pc[n] = "inserting" /\ pc' = [pc EXCEPT ![n] = "banner"]
        /\ sees' = [sees EXCEPT ![n] = Created(n)]
        /\ admin' = IF sees[n] /\ admin = None THEN password[n] ELSE admin
        /\ UNCHANGED <<up, lock, columns, added, lacks, password, starts, printed, clash>>
    BY <1>8 DEF InsertAdmin
  <2>3. password[n] \in 1..starts
    BY <2>2 DEF OnePassword
  <2>4. StartTypes' /\ OneMigrates'
    BY <2>1, <2>2, <2>3 DEF StartTypes, OneMigrates
  <2>5. Progress'
    BY <2>2, <2>3 DEF StartTypes, Progress
  <2>6. OnePassword'
    BY <2>1, <2>2, <2>3 DEF StartTypes, OnePassword, Progress
  <2> QED
    BY <2>4, <2>5, <2>6
<1>9. ASSUME NEW n \in Nodes, PrintBanner(n)
      PROVE  StartInv'
  <2>1. StartTypes' /\ OneMigrates' /\ Progress'
    BY <1>9 DEF PrintBanner, StartTypes, OneMigrates, Progress
  <2>2. OnePassword'
    BY <1>9 DEF PrintBanner, StartTypes, OnePassword, Progress
  <2> QED
    BY <2>1, <2>2
<1>10. ASSUME NEW n \in Nodes,
              \/ Register(n) \/ Stop(n)
       PROVE  StartInv'
  <2>1. StartTypes' /\ OneMigrates' /\ Progress'
    BY <1>10 DEF Register, Stop, StartTypes, OneMigrates, Progress
  <2>2. OnePassword'
    BY <1>10 DEF Register, Stop, StartTypes, OnePassword
  <2> QED
    BY <2>1, <2>2
<1>11. ASSUME NEW n \in Nodes, End(n)
       PROVE  StartInv'
  <2>1. StartTypes' /\ OneMigrates' /\ Progress'
    BY <1>11 DEF End, StartTypes, OneMigrates, Progress
  <2>2. OnePassword'
    BY <1>11 DEF End, StartTypes, OnePassword
  <2> QED
    BY <2>1, <2>2
<1>12. CASE ChangePassword
  <2>1. StartTypes' /\ OneMigrates' /\ Progress'
    BY <1>12 DEF ChangePassword, StartTypes, OneMigrates, Progress
  <2>2. OnePassword'
    BY <1>12 DEF ChangePassword, StartTypes, OnePassword
  <2> QED
    BY <2>1, <2>2
<1>13. CASE Outage
  <2>1. StartTypes' /\ OneMigrates' /\ Progress'
    BY <1>13 DEF Outage, StartTypes, OneMigrates, Progress
  <2>2. OnePassword'
    BY <1>13 DEF Outage, StartTypes, OnePassword
  <2> QED
    BY <2>1, <2>2
<1>14. ASSUME NEW n \in Nodes,
              BeginBeat(n) \/ Beat(n) \/ BeatFails(n) \/ LateBeat(n)
       PROVE  UNCHANGED <<database, pc, start>> /\ up' \in BOOLEAN
  BY <1>14 DEF BeginBeat, Beat, BeatFails, LateBeat, StartTypes
<1>15. ASSUME Return \/ ClusterTick \/ UNCHANGED clusterVars
       PROVE  UNCHANGED <<database, pc, start>> /\ up' \in BOOLEAN
  BY <1>15 DEF Return, ClusterTick, clusterVars, StartTypes
<1> QED
  BY <1>1, <1>2, <1>3, <1>4, <1>5, <1>6, <1>7, <1>8, <1>9, <1>10, <1>11, <1>12, <1>13,
     <1>14, <1>15 DEF ClusterNext, Crash, Leave

\* However many nodes start at once on an empty database, crash or lose it: at most one
\* password is printed and it opens the account, and who serves has its administrator and
\* its columns (store/schema.go:251, main.go:95).
THEOREM StartsOnceEver == ClusterSpec => []StartsOnce
<1>1. StartInv => StartsOnce
  <2> SUFFICES ASSUME StartInv
               PROVE  StartsOnce
    OBVIOUS
  <2>1. printed = {} \/ \E p : printed = {p}
    BY DEF StartInv, OnePassword
  <2>2. Cardinality(printed) <= 1
    <3>1. CASE printed = {}
      <4>1. Cardinality(printed) = 0
        BY <3>1, FS_EmptySet
      <4> QED
        BY <4>1
    <3>2. ASSUME NEW p, printed = {p}
          PROVE  Cardinality(printed) <= 1
      <4>1. Cardinality({p}) = 1
        BY FS_Singleton
      <4> QED
        BY <3>2, <4>1
    <3> QED
      BY <2>1, <3>1, <3>2
  <2>3. PrintedOpens
    BY <2>2 DEF PrintedOpens, StartInv, OnePassword
  <2>4. SchemaReady
    BY DEF SchemaReady, Serving, StartInv, OneMigrates, Progress, Migrated, Seeded
  <2> QED
    BY <2>3, <2>4 DEF StartsOnce
<1> QED
  BY <1>1, StartInit, StartStep, PTL DEF ClusterSpec

-----------------------------------------------------------------------------
\* Heartbeats.

BeatTypes ==
  /\ pc \in [Nodes -> {"down"} \cup {"locking", "migrating"} \cup Migrated]
  /\ rows \in [Nodes -> Int] /\ late \in [Nodes -> Int]
  /\ beat \in [Nodes -> {None} \cup Nat] /\ last \in [Nodes -> Nat] /\ failed \in [Nodes -> BOOLEAN]

\* What is under way belongs to a process, or to none.
BeatsPlaced ==
  \A n \in Nodes : /\ beat[n] # None => pc[n] \in Beating
                   /\ late[n] # None => pc[n] = "down"

\* A node's row is at least as fresh as the heartbeat that it goes by.
RowsFresh ==
  \A n \in Nodes :
    pc[n] \in Beating /\ ~failed[n] /\ last[n] <= StaleAfter => rows[n] \in 0..last[n]

BeatInv == BeatTypes /\ BeatsPlaced /\ RowsFresh

LEMMA BeatInit == ClusterInit => BeatInv
BY DEF ClusterInit, BeatInv, BeatTypes, BeatsPlaced, RowsFresh, Migrated, Beating, None

\* Expired rows are older than those that a node goes by.
LEMMA PrunedKeepsFresh ==
  ASSUME BeatInv, NEW n \in Nodes, NEW m \in Nodes, m # n, NEW age \in Nat,
         pc[m] \in Beating, ~failed[m], last[m] <= StaleAfter
  PROVE  Pruned(n, age)[m] \in 0..last[m]
<1>1. rows[m] \in 0..last[m] /\ last[m] \in Nat
  BY DEF BeatInv, BeatTypes, RowsFresh
<1>2. ~Expired(m, age)
  BY <1>1, TimesAssumption DEF Expired
<1> QED
  BY <1>1, <1>2 DEF Pruned

LEMMA BeatStep == BeatInv /\ [ClusterNext]_clusterVars => BeatInv'
<1> SUFFICES ASSUME BeatInv, [ClusterNext]_clusterVars
             PROVE  BeatInv'
  OBVIOUS
<1> USE TimesAssumption DEF BeatInv, Migrated, Beating, None, Go, database, start, member
<1>1. CASE UNCHANGED <<pc, rows, late, beat, last, failed>>
  BY <1>1 DEF BeatTypes, BeatsPlaced, RowsFresh
<1>2. ASSUME NEW n \in Nodes, pc[n] \notin Beating, late[n] = None,
             NEW to \in {"locking", "migrating", "seeding", "inserting", "banner", "registering"},
             pc' = [pc EXCEPT ![n] = to], UNCHANGED <<rows, late, beat, last, failed>>
      PROVE  BeatInv'
  BY <1>2 DEF BeatTypes, BeatsPlaced, RowsFresh
<1>3. ASSUME NEW n \in Nodes,
             \/ Start(n) \/ Lock(n) \/ FindMissing(n) \/ AddColumn(n) \/ CommitSchema(n)
             \/ LookForUsers(n) \/ InsertAdmin(n) \/ PrintBanner(n)
      PROVE  BeatInv'
  <2>1. CASE Start(n)
    BY <1>2, <2>1 DEF Start
  <2>2. CASE FindMissing(n) \/ AddColumn(n)
    BY <1>1, <2>2 DEF FindMissing, AddColumn
  <2>3. CASE Lock(n)
    BY <1>2, <2>3 DEF Lock, BeatsPlaced
  <2>4. CASE CommitSchema(n)
    BY <1>2, <2>4 DEF CommitSchema, BeatsPlaced
  <2>5. CASE LookForUsers(n)
    BY <1>2, <2>5 DEF LookForUsers, BeatsPlaced
  <2>6. CASE InsertAdmin(n)
    BY <1>2, <2>6 DEF InsertAdmin, BeatsPlaced
  <2>7. CASE PrintBanner(n)
    BY <1>2, <2>7 DEF PrintBanner, BeatsPlaced
  <2> QED
    BY <1>3, <2>1, <2>2, <2>3, <2>4, <2>5, <2>6, <2>7
<1>4. ASSUME NEW n \in Nodes, Register(n)
      PROVE  BeatInv'
  <2>1. /\ rows' = Pruned(n, 0) \/ rows' = [rows EXCEPT ![n] = 0]
        /\ pc[n] = "registering" /\ pc' = [pc EXCEPT ![n] = "serving"] /\ UNCHANGED <<beat, late>>
        /\ last' = [last EXCEPT ![n] = 0] /\ failed' = [failed EXCEPT ![n] = FALSE]
    BY <1>4 DEF Register
  <2>2. /\ rows' \in [Nodes -> Int] /\ rows'[n] = 0
        /\ \A m \in Nodes : m # n => rows'[m] = rows[m] \/ rows'[m] = Pruned(n, 0)[m]
    BY <2>1 DEF Pruned, BeatTypes
  <2>3. BeatTypes' /\ BeatsPlaced'
    BY <2>1, <2>2 DEF BeatTypes, BeatsPlaced
  <2>4. ASSUME NEW m \in Nodes, pc'[m] \in Beating, ~failed'[m], last'[m] <= StaleAfter
        PROVE  rows'[m] \in 0..last'[m]
    <3>1. CASE m = n
      BY <2>1, <2>2, <3>1 DEF BeatTypes
    <3>2. CASE m # n
      <4>1. pc[m] \in Beating /\ ~failed[m] /\ last[m] <= StaleAfter /\ last'[m] = last[m]
        BY <2>1, <2>4, <3>2 DEF BeatTypes
      <4>2. rows[m] \in 0..last[m]
        BY <4>1 DEF RowsFresh
      <4>3. Pruned(n, 0)[m] \in 0..last[m]
        BY <3>2, <4>1, PrunedKeepsFresh
      <4> QED
        BY <2>2, <3>2, <4>1, <4>2, <4>3
    <3> QED
      BY <3>1, <3>2
  <2> QED
    BY <2>3, <2>4 DEF RowsFresh
<1>5. ASSUME NEW n \in Nodes, End(n), rows' = rows \/ rows' = [rows EXCEPT ![n] = None]
      PROVE  BeatInv'
  BY <1>5 DEF End, BeatTypes, BeatsPlaced, RowsFresh
<1>6. ASSUME NEW n \in Nodes, BeginBeat(n)
      PROVE  BeatInv'
  BY <1>6 DEF BeginBeat, BeatTypes, BeatsPlaced, RowsFresh
<1>7. ASSUME NEW n \in Nodes, Beat(n)
      PROVE  BeatInv'
  <2>1. /\ beat[n] # None /\ beat[n] \in Nat
        /\ rows' = Pruned(n, beat[n]) /\ beat' = [beat EXCEPT ![n] = None]
        /\ last' = [last EXCEPT ![n] = beat[n]] /\ failed' = [failed EXCEPT ![n] = FALSE]
        /\ UNCHANGED <<pc, late>>
    BY <1>7 DEF Beat, Succeed, Recorded, BeatTypes
  <2>2. /\ rows' \in [Nodes -> Int] /\ rows'[n] = beat[n]
        /\ \A m \in Nodes : m # n => rows'[m] = Pruned(n, beat[n])[m]
    BY <2>1 DEF Pruned, BeatTypes
  <2>3. BeatTypes' /\ BeatsPlaced'
    BY <2>1, <2>2 DEF BeatTypes, BeatsPlaced
  <2>4. ASSUME NEW m \in Nodes, pc'[m] \in Beating, ~failed'[m], last'[m] <= StaleAfter
        PROVE  rows'[m] \in 0..last'[m]
    <3>1. CASE m = n
      BY <2>1, <2>2, <3>1 DEF BeatTypes
    <3>2. CASE m # n
      BY <2>1, <2>2, <2>4, <3>2, PrunedKeepsFresh DEF BeatTypes
    <3> QED
      BY <3>1, <3>2
  <2> QED
    BY <2>3, <2>4 DEF RowsFresh
<1>8. ASSUME NEW n \in Nodes, BeatFails(n)
      PROVE  BeatInv'
  <2>1. CASE Succeed(n) /\ rows' = [rows EXCEPT ![n] = beat[n]]
    BY <1>8, <2>1 DEF BeatFails, Succeed, Recorded, BeatTypes, BeatsPlaced, RowsFresh
  <2>2. CASE /\ rows' \in {rows, [rows EXCEPT ![n] = beat[n]]}
             /\ failed' = [failed EXCEPT ![n] = TRUE] /\ UNCHANGED last
    BY <1>8, <2>2 DEF BeatFails, BeatTypes, BeatsPlaced, RowsFresh
  <2> QED
    BY <1>8, <2>1, <2>2 DEF BeatFails
<1>9. ASSUME NEW n \in Nodes, LateBeat(n)
      PROVE  BeatInv'
  BY <1>9 DEF LateBeat, BeatTypes, BeatsPlaced, RowsFresh
<1>10. ASSUME NEW n \in Nodes, Stop(n)
       PROVE  BeatInv'
  BY <1>10 DEF Stop, BeatTypes, BeatsPlaced, RowsFresh
<1>11. CASE Outage
  BY <1>11 DEF Outage, BeatTypes, BeatsPlaced, RowsFresh
<1>12. CASE ClusterTick
  <2>1. BeatTypes'
    BY <1>12 DEF ClusterTick, Older, BeatTypes
  <2>2. BeatsPlaced'
    BY <1>12 DEF ClusterTick, Older, BeatTypes, BeatsPlaced
  <2>3. RowsFresh'
    BY <1>12 DEF ClusterTick, Older, BeatTypes, RowsFresh
  <2> QED
    BY <2>1, <2>2, <2>3
<1>13. ASSUME ChangePassword \/ Return \/ UNCHANGED clusterVars
       PROVE  UNCHANGED <<pc, rows, late, beat, last, failed>>
  BY <1>13 DEF ChangePassword, Return, clusterVars
<1>14. ASSUME NEW n \in Nodes, Crash(n) \/ Leave(n)
       PROVE  BeatInv'
  BY <1>5, <1>14 DEF Crash, Leave
<1> QED
  BY <1>1, <1>3, <1>4, <1>6, <1>7, <1>8, <1>9, <1>10, <1>11, <1>12, <1>13, <1>14 DEF ClusterNext

\* A node that says it is ready has a row that is not stale, whatever the others prune, with
\* whatever delay (cmd/phlox-gw/main.go:161, httpapi/cluster.go:148).
THEOREM ReadyIsListedEver == ClusterSpec => []ReadyIsListed
<1>1. BeatInv => ReadyIsListed
  <2> SUFFICES ASSUME BeatInv, NEW n \in Nodes, Ready(n)
               PROVE  rows[n] \in 0..StaleAfter /\ Status(n) # "unavailable"
    BY DEF ReadyIsListed
  <2>1. ~failed[n] /\ rows[n] \in 0..StaleAfter
    BY TimesAssumption DEF Ready, Serving, BeatInv, BeatTypes, RowsFresh, Beating
  <2>2. n \in {m \in Nodes : rows[m] # None}
    BY <2>1 DEF None
  <2>3. n \notin {m \in {i \in Nodes : rows[i] # None} : rows[m] > StaleAfter}
    BY <2>1, TimesAssumption
  <2> QED
    BY <2>1, <2>2, <2>3 DEF Status
<1> QED
  BY <1>1, BeatInit, BeatStep, PTL DEF ClusterSpec

-----------------------------------------------------------------------------
\* The circuits of providers.
USE ThresholdAssumption, CooldownAssumption

\* What the two updates return.
LEMMA SuccessRowType == SuccessRow \in ProviderRows /\ FreshRow \in ProviderRows
  BY DEF SuccessRow, FreshRow, ProviderRows, HealthStatus, NoDeadline

LEMMA FailureRowType ==
  ASSUME NEW read \in Nat, NEW at \in Nat
  PROVE  /\ FailureRow(read, at) \in ProviderRows
         /\ FailureRow(read, at).failures = read + 1
         /\ FailureRow(read, at).circuit <= at + Cooldown
         /\ FailureRow(read, at).status \in {"degraded", "down"}
         /\ FailureRow(read, at).status = "down" <=> read + 1 >= Threshold
         /\ FailureRow(read, at).status = "down"
              <=> FailureRow(read, at).circuit # NoDeadline
  BY DEF FailureRow, ProviderRows, HealthStatus, NoDeadline

-----------------------------------------------------------------------------
\* Every variable keeps its type.
THEOREM TypeCorrect == Spec => []TypeOK
<1>1. Init => TypeOK
  BY SuccessRowType DEF Init, TypeOK, NoTx
<1>2. TypeOK /\ [Next]_vars => TypeOK'
  <2> SUFFICES ASSUME TypeOK, [Next]_vars PROVE TypeOK'
    OBVIOUS
  <2> USE DEF TypeOK
  <2>0. ASSUME NEW p \in Providers, NEW read \in Nat, NEW at \in Nat, 
               WriteFailure(p, read, at)
        PROVE  /\ row' \in [Providers -> ProviderRows]
               /\ streak' \in [Providers -> Nat]
               /\ reported' \in [Providers -> Nat]
    <3>1. FailureRow(read, at) \in ProviderRows
      BY FailureRowType
    <3>2. CASE p \in exists
      BY <2>0, <3>1, <3>2 DEF WriteFailure
    <3>3. CASE p \notin exists
      BY <2>0, <3>3 DEF WriteFailure
    <3>4. QED
      BY <3>2, <3>3
  <2>1. ASSUME NEW w \in Writers, NEW p \in Providers, RecordSuccess(w, p)
        PROVE  TypeOK'
    BY <2>1, SuccessRowType DEF RecordSuccess
  <2>2. ASSUME NEW w \in Writers, NEW p \in Providers, RecordFailure(w, p)
        PROVE  TypeOK'
    <3>1. row[p].failures \in Nat
      BY DEF ProviderRows
    <3>2. PICK at \in Nat : WriteFailure(p, row[p].failures, at)
      BY <2>2 DEF RecordFailure, Recent
    <3>3. QED
      BY <2>0, <2>2, <3>1, <3>2 DEF RecordFailure
  <2>3. ASSUME NEW w \in Writers, NEW p \in Providers, ReadFailures(w, p)
        PROVE  TypeOK'
    BY <2>3 DEF ReadFailures, Recent, OpenTxs, ProviderRows
  <2>4. ASSUME NEW w \in Writers, CommitFailure(w)
        PROVE  TypeOK'
    <3>1. tx[w] \in OpenTxs
      BY <2>4 DEF CommitFailure
    <3>2. tx[w].provider \in Providers /\ tx[w].read \in Nat /\ tx[w].at \in Nat
      BY <3>1 DEF OpenTxs
    <3>3. WriteFailure(tx[w].provider, tx[w].read, tx[w].at)
      BY <2>4 DEF CommitFailure
    <3>4. tx' \in [Writers -> OpenTxs \cup {NoTx}] /\ exists' = exists /\ now' = now
      BY <2>4 DEF CommitFailure
    <3>5. QED
      BY <2>0, <3>2, <3>3, <3>4
  <2>5. ASSUME NEW w \in Writers, Rollback(w)
        PROVE  TypeOK'
    BY <2>5 DEF Rollback
  <2>6. ASSUME NEW p \in Providers, Administer(p)
        PROVE  TypeOK'
    BY <2>6, SuccessRowType DEF Administer, DeleteProvider, CreateProvider
  <2>7. CASE Tick
    BY <2>7 DEF Tick
  <2>8. CASE UNCHANGED vars
    BY <2>8 DEF vars
  <2>9. QED
    BY <2>1, <2>2, <2>3, <2>4, <2>5, <2>6, <2>7, <2>8 DEF Next, Report
<1>3. QED
  BY <1>1, <1>2, PTL DEF Spec

-----------------------------------------------------------------------------
(***************************************************************************)
(* A step changes the health columns in one of four ways.  The facts every *)
(* invariant below needs of a step are gathered here once.                 *)
(***************************************************************************)
RowStep(p) ==
  \/ row'[p] = row[p]
  \/ row'[p] = SuccessRow
  \/ row'[p] = FreshRow
  \/ \E read, at \in Nat : row'[p] = FailureRow(read, at)

\* Every step leaves each row alone or writes all its health columns at once.
LEMMA StepWritesWholeRow ==
  ASSUME TypeOK, [Next]_vars, NEW q \in Providers
  PROVE  RowStep(q)
<1> USE DEF TypeOK, RowStep
<1>0. ASSUME NEW p \in Providers, NEW read \in Nat, NEW at \in Nat,
             WriteFailure(p, read, at)
      PROVE  RowStep(q)
  <2>1. CASE q = p /\ p \in exists
    BY <1>0, <2>1 DEF WriteFailure
  <2>2. CASE ~(q = p /\ p \in exists)
    BY <1>0, <2>2 DEF WriteFailure
  <2>3. QED
    BY <2>1, <2>2
<1>1. ASSUME NEW w \in Writers, NEW p \in Providers, RecordSuccess(w, p)
      PROVE  RowStep(q)
  BY <1>1 DEF RecordSuccess
<1>2. ASSUME NEW w \in Writers, NEW p \in Providers, RecordFailure(w, p)
      PROVE  RowStep(q)
  <2>1. row[p].failures \in Nat
    BY DEF ProviderRows
  <2>2. PICK at \in Nat : WriteFailure(p, row[p].failures, at)
    BY <1>2 DEF RecordFailure, Recent
  <2>3. QED
    BY <1>0, <2>1, <2>2
<1>3. ASSUME NEW w \in Writers, CommitFailure(w)
      PROVE  RowStep(q)
  <2>1. tx[w] \in OpenTxs
    BY <1>3 DEF CommitFailure
  <2>2. tx[w].provider \in Providers /\ tx[w].read \in Nat /\ tx[w].at \in Nat
    BY <2>1 DEF OpenTxs
  <2>3. QED
    BY <1>0, <1>3, <2>2 DEF CommitFailure
<1>4. ASSUME NEW w \in Writers, NEW p \in Providers, ReadFailures(w, p)
      PROVE  RowStep(q)
  BY <1>4 DEF ReadFailures
<1>5. ASSUME NEW w \in Writers, Rollback(w)
      PROVE  RowStep(q)
  BY <1>5 DEF Rollback
<1>6. ASSUME NEW p \in Providers, Administer(p)
      PROVE  RowStep(q)
  BY <1>6 DEF Administer, DeleteProvider, CreateProvider
<1>7. CASE Tick
  BY <1>7 DEF Tick
<1>8. CASE UNCHANGED vars
  BY <1>8 DEF vars
<1>9. QED
  BY <1>1, <1>2, <1>3, <1>4, <1>5, <1>6, <1>7, <1>8 DEF Next, Report

\* The health columns of a row always agree with each other, on both databases:
\* every writer writes all of them, so a stale read cannot mix two stories.
THEOREM RowsConsistent == Spec => []RowConsistent
<1>1. Init => RowConsistent
  BY DEF Init, RowConsistent, FreshRow, NoDeadline
<1>2. TypeOK /\ RowConsistent /\ [Next]_vars => RowConsistent'
  <2> SUFFICES ASSUME TypeOK, RowConsistent, [Next]_vars, NEW p \in Providers
               PROVE  /\ row'[p].status = "down" <=> row'[p].failures >= Threshold
                      /\ row'[p].status = "down" <=> row'[p].circuit # NoDeadline
                      /\ row'[p].status \in {"unknown", "healthy"}
                           <=> row'[p].failures = 0
    BY DEF RowConsistent
  <2>1. CASE row'[p] = row[p]
    BY <2>1 DEF RowConsistent
  <2>2. CASE row'[p] = SuccessRow \/ row'[p] = FreshRow
    BY <2>2 DEF SuccessRow, FreshRow, NoDeadline
  <2>3. CASE \E read, at \in Nat : row'[p] = FailureRow(read, at)
    <3>1. PICK read \in Nat, at \in Nat : row'[p] = FailureRow(read, at)
      BY <2>3
    <3>2. QED
      BY <3>1 DEF FailureRow, NoDeadline
  <2>4. QED
    BY <2>1, <2>2, <2>3, StepWritesWholeRow DEF RowStep
<1>3. QED
  BY <1>1, <1>2, TypeCorrect, PTL DEF Spec

-----------------------------------------------------------------------------
(***************************************************************************)
(* The inductive invariant behind the two bounds.  A transaction still     *)
(* open carries a time that has passed and a count that was true once;     *)
(* since reported never decreases, what it will write stays within bounds. *)
(***************************************************************************)
RowBounded(p) ==
  /\ row[p].circuit <= now + Cooldown
  /\ row[p].failures <= reported[p]

TxBounded(w) ==
  tx[w] # NoTx => /\ tx[w].at <= now
                  /\ tx[w].read <= reported[tx[w].provider]

BoundsInv == (\A p \in Providers : RowBounded(p)) /\ (\A w \in Writers : TxBounded(w))

\* Committing a failure that a bounded transaction carries keeps rows bounded.
LEMMA WriteKeepsBounds ==
  ASSUME TypeOK, BoundsInv, NEW p \in Providers, NEW read \in Nat, NEW at \in Nat,
         at <= now, read <= reported[p], WriteFailure(p, read, at), now' = now
  PROVE  /\ \A q \in Providers : RowBounded(q)'
         /\ \A q \in Providers : reported'[q] \in Nat /\ reported[q] <= reported'[q]
<1> SUFFICES ASSUME NEW q \in Providers
             PROVE  RowBounded(q)' /\ reported'[q] \in Nat /\ reported[q] <= reported'[q]
  OBVIOUS
<1> USE DEF TypeOK
<1>1. RowBounded(q) /\ reported[q] \in Nat
  BY DEF BoundsInv
<1>2. CASE q = p /\ p \in exists
  <2>1. row'[q] = FailureRow(read, at) /\ reported'[q] = reported[q] + 1
    BY <1>2 DEF WriteFailure
  <2>2. FailureRow(read, at).failures = read + 1
        /\ FailureRow(read, at).circuit <= at + Cooldown
        /\ FailureRow(read, at).circuit \in Nat
    BY FailureRowType DEF ProviderRows
  <2>3. QED
    BY <1>1, <1>2, <2>1, <2>2 DEF RowBounded
<1>3. CASE ~(q = p /\ p \in exists)
  <2>1. row'[q] = row[q] /\ reported'[q] = reported[q]
    BY <1>3 DEF WriteFailure
  <2>2. QED
    BY <1>1, <2>1 DEF RowBounded
<1>4. QED
  BY <1>2, <1>3

THEOREM BoundsHold == Spec => []BoundsInv
<1>1. Init => BoundsInv
  BY DEF Init, BoundsInv, RowBounded, TxBounded, FreshRow, NoDeadline
<1>2. TypeOK /\ BoundsInv /\ [Next]_vars => BoundsInv'
  <2> SUFFICES ASSUME TypeOK, BoundsInv, [Next]_vars PROVE BoundsInv'
    OBVIOUS
  <2> USE DEF TypeOK
  <2>a. \A v \in Writers : tx[v] # NoTx =>
          tx[v].provider \in Providers /\ tx[v].read \in Nat /\ tx[v].at \in Nat
    BY DEF OpenTxs
  <2>b. \A q \in Providers : row[q].failures \in Nat /\ row[q].circuit \in Nat
    BY DEF ProviderRows
  <2>1. ASSUME NEW w \in Writers, NEW p \in Providers, RecordSuccess(w, p)
        PROVE  BoundsInv'
    BY <2>1, <2>b DEF RecordSuccess, SuccessRow, NoDeadline, BoundsInv, RowBounded, TxBounded
  <2>2. ASSUME NEW w \in Writers, NEW p \in Providers, RecordFailure(w, p)
        PROVE  BoundsInv'
    <3>1. PICK at \in Nat : at <= now /\ WriteFailure(p, row[p].failures, at)
      BY <2>2 DEF RecordFailure, Recent
    <3>2. row[p].failures <= reported[p]
      BY DEF BoundsInv, RowBounded
    <3>3. now' = now /\ tx' = tx
      BY <2>2 DEF RecordFailure
    <3>4. /\ \A q \in Providers : RowBounded(q)'
          /\ \A q \in Providers : reported'[q] \in Nat /\ reported[q] <= reported'[q]
      BY <2>b, <3>1, <3>2, <3>3, WriteKeepsBounds
    <3>5. ASSUME NEW v \in Writers PROVE TxBounded(v)'
      BY <2>a, <3>3, <3>4 DEF BoundsInv, TxBounded
    <3>6. QED
      BY <3>4, <3>5 DEF BoundsInv
  <2>3. ASSUME NEW w \in Writers, NEW p \in Providers, ReadFailures(w, p)
        PROVE  BoundsInv'
    <3>0. PICK at \in Recent :
            tx' = [tx EXCEPT ![w] = [provider |-> p, read |-> row[p].failures, at |-> at]]
      BY <2>3 DEF ReadFailures
    <3>1. at \in Nat /\ at <= now
      BY DEF Recent
    <3>2. row' = row /\ now' = now /\ reported' = reported
      BY <2>3 DEF ReadFailures
    <3>3. ASSUME NEW v \in Writers PROVE TxBounded(v)'
      <4>1. CASE v = w
        BY <3>0, <3>1, <3>2, <4>1 DEF BoundsInv, RowBounded, TxBounded
      <4>2. CASE v # w
        BY <3>0, <3>2, <4>2 DEF BoundsInv, TxBounded
      <4>3. QED
        BY <4>1, <4>2
    <3>4. QED
      BY <3>2, <3>3 DEF BoundsInv, RowBounded
  <2>4. ASSUME NEW w \in Writers, CommitFailure(w)
        PROVE  BoundsInv'
    <3>1. /\ tx[w] # NoTx
          /\ WriteFailure(tx[w].provider, tx[w].read, tx[w].at)
          /\ tx' = [tx EXCEPT ![w] = NoTx]
          /\ now' = now
      BY <2>4 DEF CommitFailure
    <3>2. tx[w].at <= now /\ tx[w].read <= reported[tx[w].provider]
      BY <3>1 DEF BoundsInv, TxBounded
    <3>3. /\ \A q \in Providers : RowBounded(q)'
          /\ \A q \in Providers : reported'[q] \in Nat /\ reported[q] <= reported'[q]
      BY <2>a, <3>1, <3>2, WriteKeepsBounds
    <3>4. ASSUME NEW v \in Writers PROVE TxBounded(v)'
      BY <2>a, <3>1, <3>3 DEF BoundsInv, TxBounded
    <3>5. QED
      BY <3>3, <3>4 DEF BoundsInv
  <2>5. ASSUME NEW w \in Writers, Rollback(w)
        PROVE  BoundsInv'
    BY <2>5 DEF Rollback, BoundsInv, RowBounded, TxBounded
  <2>6. ASSUME NEW p \in Providers, Administer(p)
        PROVE  BoundsInv'
    BY <2>6, <2>b DEF Administer, DeleteProvider, CreateProvider, FreshRow, NoDeadline,
                      BoundsInv, RowBounded, TxBounded
  <2>7. CASE Tick
    BY <2>7, <2>a, <2>b DEF Tick, BoundsInv, RowBounded, TxBounded
  <2>8. CASE UNCHANGED vars
    BY <2>8 DEF vars, BoundsInv, RowBounded, TxBounded
  <2>9. QED
    BY <2>1, <2>2, <2>3, <2>4, <2>5, <2>6, <2>7, <2>8 DEF Next, Report
<1>3. QED
  BY <1>1, <1>2, TypeCorrect, PTL DEF Spec

\* No circuit stays open for longer than Cooldown from the present.
THEOREM CircuitsExpire == Spec => []CircuitWithinCooldown
<1>1. BoundsInv => CircuitWithinCooldown
  BY DEF BoundsInv, RowBounded, CircuitWithinCooldown
<1>2. QED
  BY <1>1, BoundsHold, PTL

\* A provider is down only after Threshold failures of it were committed.
THEOREM DownIsEarned == Spec => []DownNeedsThreshold
<1>1. TypeOK /\ RowConsistent /\ BoundsInv => DownNeedsThreshold
  BY DEF TypeOK, ProviderRows, RowConsistent, BoundsInv, RowBounded, DownNeedsThreshold
<1>2. QED
  BY <1>1, TypeCorrect, RowsConsistent, BoundsHold, PTL

-----------------------------------------------------------------------------
(***************************************************************************)
(* On SQLite the failure count is exact: no transaction is ever open        *)
(* between two steps, so the count read is the count of the last write.     *)
(***************************************************************************)
ExactInv ==
  Atomic => /\ \A w \in Writers : tx[w] = NoTx
            /\ \A p \in exists : row[p].failures = streak[p]

LEMMA ExactStep == TypeOK /\ ExactInv /\ [Next]_vars => ExactInv'
<1> SUFFICES ASSUME TypeOK, ExactInv, [Next]_vars, Atomic PROVE ExactInv'
  BY DEF ExactInv
<1> USE DEF TypeOK, ExactInv
<1>1. ASSUME NEW w \in Writers, NEW p \in Providers, RecordSuccess(w, p)
      PROVE  ExactInv'
  BY <1>1 DEF RecordSuccess, SuccessRow
<1>2. ASSUME NEW w \in Writers, NEW p \in Providers, RecordFailure(w, p)
      PROVE  ExactInv'
  <2>1. row[p].failures \in Nat
    BY DEF ProviderRows
  <2>2. PICK at \in Nat : WriteFailure(p, row[p].failures, at)
    BY <1>2 DEF RecordFailure, Recent
  <2>3. FailureRow(row[p].failures, at).failures = row[p].failures + 1
    BY <2>1, FailureRowType
  <2>4. QED
    BY <1>2, <2>2, <2>3 DEF RecordFailure, WriteFailure
<1>3. ASSUME NEW w \in Writers, NEW p \in Providers, ReadFailures(w, p)
      PROVE  ExactInv'
  BY <1>3 DEF ReadFailures
<1>4. ASSUME NEW w \in Writers, CommitFailure(w) \/ Rollback(w)
      PROVE  ExactInv'
  BY <1>4 DEF CommitFailure, Rollback
<1>5. ASSUME NEW p \in Providers, Administer(p)
      PROVE  ExactInv'
  BY <1>5 DEF Administer, DeleteProvider, CreateProvider, FreshRow
<1>6. CASE Tick
  BY <1>6 DEF Tick
<1>7. CASE UNCHANGED vars
  BY <1>7 DEF vars
<1>8. QED
  BY <1>1, <1>2, <1>3, <1>4, <1>5, <1>6, <1>7 DEF Next, Report

\* A provider is down exactly when its last Threshold outcomes were failures, on SQLite.
THEOREM ExactOnSQLite == Spec => [](Atomic => DownIffThreeInARow)
<1>1. Init => ExactInv
  BY DEF Init, ExactInv, FreshRow
<1>2. TypeOK /\ RowConsistent /\ ExactInv => (Atomic => DownIffThreeInARow)
  BY DEF TypeOK, RowConsistent, ExactInv, DownIffThreeInARow
<1>3. QED
  BY <1>1, <1>2, ExactStep, TypeCorrect, RowsConsistent, PTL DEF Spec

-----------------------------------------------------------------------------
\* On SQLite, a failure leaves an open circuit open: the count that it read is the one in
\* the row, so it writes a deadline again, and one that is not over yet when reports
\* reach the store within the cooldown (RecordProviderFailure).
THEOREM FailuresKeepOpen ==
  ASSUME Atomic, MaxWait < Cooldown
  PROVE  Spec => FailureNeverCloses
<1>1. Init => ExactInv
  BY DEF Init, ExactInv, FreshRow
<1>2. TypeOK /\ RowConsistent /\ ExactInv /\ [Next]_vars
        => [StaysOpen]_vars
  <2> SUFFICES ASSUME TypeOK, RowConsistent, ExactInv, [Next]_vars, NEW p \in Providers,
                      Open(p), ~Open(p)', exists' = exists, now' = now
               PROVE  row'[p] = SuccessRow
    BY DEF StaysOpen
  <2>1. row'[p] # row[p]
    BY DEF Open
  <2>2. ASSUME NEW w \in Writers, NEW q \in Providers, RecordSuccess(w, q)
        PROVE  row'[p] = SuccessRow
    BY <2>1, <2>2 DEF RecordSuccess, TypeOK
  <2>3. ASSUME NEW w \in Writers, NEW q \in Providers, RecordFailure(w, q)
        PROVE  FALSE
    <3>1. PICK at \in Recent : WriteFailure(q, row[q].failures, at)
      BY <2>3 DEF RecordFailure
    <3>2. q = p /\ row'[p] = FailureRow(row[p].failures, at)
      BY <2>1, <3>1 DEF WriteFailure, TypeOK
    <3>3. at \in Nat /\ now \in Nat /\ now <= at + MaxWait
      BY DEF Recent, TypeOK
    <3>4. row[p].failures \in Nat /\ row[p].failures >= Threshold
      <4>1. row[p].circuit # NoDeadline
        BY DEF Open, CircuitOpen, NoDeadline, TypeOK
      <4> QED
        BY <4>1 DEF RowConsistent, TypeOK, ProviderRows
    <3>5. row'[p].circuit = at + Cooldown
      BY <3>2, <3>4 DEF FailureRow
    <3>6. at + Cooldown > now
      BY <3>3, MaxWaitAssumption
    <3> QED
      BY <3>5, <3>6 DEF Open, CircuitOpen
  <2>4. ASSUME NEW w \in Writers, CommitFailure(w)
        PROVE  FALSE
    BY <2>4 DEF ExactInv, CommitFailure
  <2>5. ASSUME \/ \E w \in Writers, q \in Providers : ReadFailures(w, q)
               \/ \E w \in Writers : Rollback(w)
               \/ \E q \in Providers : Administer(q)
               \/ Tick \/ UNCHANGED vars
        PROVE  FALSE
    BY <2>1, <2>5 DEF ReadFailures, Rollback, Administer, DeleteProvider, CreateProvider, Tick, vars
  <2> QED
    BY <2>2, <2>3, <2>4, <2>5 DEF Next, Report
<1> QED
  BY <1>1, <1>2, ExactStep, TypeCorrect, RowsConsistent, PTL DEF Spec, FailureNeverCloses
=============================================================================

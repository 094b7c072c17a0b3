--------------------------- MODULE ProviderHealth ---------------------------
(***************************************************************************)
(* The circuit breaker kept on each provider row.  Writers are the request *)
(* handlers and the admin health tests that report the outcome of an       *)
(* upstream call, on any node of the cluster.                              *)
(*                                                                         *)
(* RecordProviderSuccess is one UPDATE.  RecordProviderFailure reads the   *)
(* failure count and writes the row back, in one transaction.  On SQLite   *)
(* the pool has a single connection, so the transaction is a single step   *)
(* of the store (Atomic = TRUE).  On Postgres it runs at READ COMMITTED    *)
(* and the SELECT takes no lock, so other writers run between the read and *)
(* the write (Atomic = FALSE).                                             *)
(***************************************************************************)
EXTENDS ProviderRow

CONSTANTS
  Providers,    \* provider ids
  Writers,      \* concurrent reporters of outcomes
  Atomic,       \* TRUE on SQLite, FALSE on Postgres
  MaxWait,      \* longest wait of a report for the store, in ticks
  MaxTime,      \* bound on the clock
  MaxReports    \* bound on the failures reported of one provider

ASSUME AtomicAssumption     == Atomic \in BOOLEAN
ASSUME MaxWaitAssumption    == MaxWait \in Nat
ASSUME MaxTimeAssumption    == MaxTime \in Nat
ASSUME MaxReportsAssumption == MaxReports \in Nat

VARIABLES
  exists,     \* the providers that have a row
  row,        \* row[p]: the health columns of p's row
  now,        \* the clock
  tx,         \* tx[w]: w's open failure transaction, or NoTx
  streak,     \* history: failures of p committed since its last success
  reported    \* history: failures of p ever committed

vars == <<exists, row, now, tx, streak, reported>>

OpenTxs == [provider : Providers, read : Nat, at : Nat]
NoTx    == [provider |-> "none"]

TypeOK ==
  /\ exists \subseteq Providers
  /\ row \in [Providers -> ProviderRows]
  /\ now \in Nat
  /\ tx \in [Writers -> OpenTxs \cup {NoTx}]
  /\ streak \in [Providers -> Nat]
  /\ reported \in [Providers -> Nat]

Init ==
  /\ exists = Providers
  /\ row = [p \in Providers |-> FreshRow]
  /\ now = 0
  /\ tx = [w \in Writers |-> NoTx]
  /\ streak = [p \in Providers |-> 0]
  /\ reported = [p \in Providers |-> 0]

\* recordProviderOutcome reads the clock before it asks the pool for a
\* connection: the time a report carries may be MaxWait old.
Recent == {t \in 0..now : now <= t + MaxWait}

-----------------------------------------------------------------------------
\* A success is one UPDATE of the row; of a row that is gone it is ErrNotFound,
\* which the caller logs.
RecordSuccess(w, p) ==
  /\ tx[w] = NoTx
  /\ p \in exists
  /\ row' = [row EXCEPT ![p] = SuccessRow]
  /\ streak' = [streak EXCEPT ![p] = 0]
  /\ UNCHANGED <<exists, now, tx, reported>>

\* The UPDATE and COMMIT of a failure: no effect when the row is gone.
WriteFailure(p, read, at) ==
  IF p \in exists
  THEN /\ row' = [row EXCEPT ![p] = FailureRow(read, at)]
       /\ streak' = [streak EXCEPT ![p] = @ + 1]
       /\ reported' = [reported EXCEPT ![p] = @ + 1]
  ELSE UNCHANGED <<row, streak, reported>>

\* The whole failure transaction, on SQLite.
RecordFailure(w, p) ==
  /\ Atomic
  /\ tx[w] = NoTx
  /\ p \in exists
  /\ reported[p] < MaxReports
  /\ \E at \in Recent : WriteFailure(p, row[p].failures, at)
  /\ UNCHANGED <<exists, now, tx>>

\* On Postgres, its SELECT ...
ReadFailures(w, p) ==
  /\ ~Atomic
  /\ tx[w] = NoTx
  /\ p \in exists
  /\ \E at \in Recent :
       tx' = [tx EXCEPT ![w] = [provider |-> p, read |-> row[p].failures, at |-> at]]
  /\ UNCHANGED <<exists, row, now, streak, reported>>

\* ... and its UPDATE and COMMIT.
CommitFailure(w) ==
  /\ tx[w] # NoTx
  /\ reported[tx[w].provider] < MaxReports
  /\ WriteFailure(tx[w].provider, tx[w].read, tx[w].at)
  /\ tx' = [tx EXCEPT ![w] = NoTx]
  /\ UNCHANGED <<exists, now>>

\* The request's context ends, or a statement fails: the transaction rolls back.
Rollback(w) ==
  /\ tx[w] # NoTx
  /\ tx' = [tx EXCEPT ![w] = NoTx]
  /\ UNCHANGED <<exists, row, now, streak, reported>>

DeleteProvider(p) ==
  /\ p \in exists
  /\ exists' = exists \ {p}
  /\ UNCHANGED <<row, now, tx, streak, reported>>

\* An id may be used again: its row starts from the column defaults.
CreateProvider(p) ==
  /\ p \notin exists
  /\ exists' = exists \cup {p}
  /\ row' = [row EXCEPT ![p] = FreshRow]
  /\ streak' = [streak EXCEPT ![p] = 0]
  /\ UNCHANGED <<now, tx, reported>>

Tick ==
  /\ now < MaxTime
  /\ now' = now + 1
  /\ UNCHANGED <<exists, row, tx, streak, reported>>

Report(w, p) ==
  \/ RecordSuccess(w, p)
  \/ RecordFailure(w, p)
  \/ ReadFailures(w, p)

Administer(p) == DeleteProvider(p) \/ CreateProvider(p)

Next ==
  \/ \E w \in Writers, p \in Providers : Report(w, p)
  \/ \E w \in Writers : CommitFailure(w) \/ Rollback(w)
  \/ \E p \in Providers : Administer(p)
  \/ Tick

Spec == Init /\ [][Next]_vars

-----------------------------------------------------------------------------
Open(p) == p \in exists /\ CircuitOpen(row[p].circuit, now)

\* The four health columns always tell one story: whatever writers interleave,
\* a row is down exactly when it carries a deadline and at least Threshold
\* failures, and a row without failures is healthy or was never used.
RowConsistent ==
  \A p \in Providers :
    /\ row[p].status = "down" <=> row[p].failures >= Threshold
    /\ row[p].status = "down" <=> row[p].circuit # NoDeadline
    /\ row[p].status \in {"unknown", "healthy"} <=> row[p].failures = 0

\* No circuit is open for longer than Cooldown from the present, whatever the
\* age of the transaction that wrote its deadline.
CircuitWithinCooldown ==
  \A p \in Providers : row[p].circuit <= now + Cooldown

\* A provider is down only after Threshold failures of it were committed,
\* even on Postgres, where failure counts are read without a lock.
DownNeedsThreshold ==
  \A p \in Providers : row[p].status = "down" => reported[p] >= Threshold

\* A provider is down exactly when its last Threshold outcomes, in the order
\* they were committed, were failures (docs/DESIGN.md, Provider Strategy).
DownIffThreeInARow ==
  \A p \in exists : row[p].status = "down" <=> streak[p] >= Threshold

\* What ends an open circuit in a step: a success, an administrator, or time.
StaysOpen ==
  \A p \in Providers :
    Open(p) /\ ~Open(p)' => \/ row'[p] = SuccessRow
                           \/ exists' # exists
                           \/ now' # now

\* On SQLite, a reported failure never closes a circuit that is open, as long as
\* reports reach the store within the cooldown (MaxWait < Cooldown): only a success, an
\* administrator or the passing of time does.
FailureNeverCloses == [][StaysOpen]_vars

=============================================================================

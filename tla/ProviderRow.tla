---------------------------- MODULE ProviderRow ----------------------------
(***************************************************************************)
(* The health columns of one row of the providers table and the two        *)
(* updates the store makes to them.  No state: the modules ProviderHealth  *)
(* and Gateway build their actions from these operators.                   *)
(*                                                                         *)
(* A deadline (circuit_open_until) is a clock reading; SQL NULL is         *)
(* NoDeadline.  The clock starts at 0 and Cooldown is positive, so every   *)
(* deadline the store writes is positive.                                  *)
(***************************************************************************)
EXTENDS Naturals

CONSTANTS
  Threshold,   \* failures in a row that open the circuit (3 in the gateway)
  Cooldown     \* how long an opened circuit stays open (5 minutes)

ASSUME ThresholdAssumption == Threshold \in Nat \ {0}
ASSUME CooldownAssumption  == Cooldown \in Nat \ {0}

NoDeadline == 0

HealthStatus == {"unknown", "healthy", "degraded", "down"}

ProviderRows == [status : HealthStatus, failures : Nat, circuit : Nat]

\* The health columns of a provider that was just created.
FreshRow == [status |-> "unknown", failures |-> 0, circuit |-> NoDeadline]

\* The columns RecordProviderSuccess writes.
SuccessRow == [status |-> "healthy", failures |-> 0, circuit |-> NoDeadline]

\* Mutants of FailureRow.  The circuit opens one failure late, ...
FailureRowLate(read, at) ==
  IF read >= Threshold
  THEN [status |-> "down", failures |-> read + 1, circuit |-> at + Cooldown]
  ELSE [status |-> "degraded", failures |-> read + 1, circuit |-> NoDeadline]

\* ... one failure early, ...
FailureRowEarly(read, at) ==
  IF read + 2 >= Threshold
  THEN [status |-> "down", failures |-> read + 1, circuit |-> at + Cooldown]
  ELSE [status |-> "degraded", failures |-> read + 1, circuit |-> NoDeadline]

\* ... only at the failure that reaches the threshold, ...
FailureRowOnce(read, at) ==
  [status   |-> IF read + 1 >= Threshold THEN "down" ELSE "degraded",
   failures |-> read + 1,
   circuit  |-> IF read + 1 = Threshold THEN at + Cooldown ELSE NoDeadline]

\* ... for longer at every failure, ...
FailureRowBackoff(read, at) ==
  IF read + 1 >= Threshold
  THEN [status |-> "down", failures |-> read + 1, circuit |-> at + Cooldown * read]
  ELSE [status |-> "degraded", failures |-> read + 1, circuit |-> NoDeadline]

\* The columns RecordProviderFailure writes, from the failure count it read
\* and the time its caller took before the transaction began.
FailureRow(read, at) ==
  LET failures == read + 1
  IN  IF failures >= Threshold
      THEN [status |-> "down", failures |-> failures, circuit |-> at + Cooldown]
      ELSE [status |-> "degraded", failures |-> failures, circuit |-> NoDeadline]

\* The health gate's test of a deadline.
CircuitOpen(circuit, time) == circuit > time

\* Which answers of an upstream count against the provider.
StatusIsFailure(status) == status \in {429, 401, 403} \/ status >= 500

\* Which answers allow another attempt at the same candidate.
StatusAllowsRetry(status) == status \in {408, 429} \/ status >= 500
============================================================================

--------------------------- MODULE AdmissionGate ---------------------------
(***************************************************************************)
(* What one limit (a monthly budget, a requests- or tokens-per-minute      *)
(* limit) promises.  The gateway checks the limit against a ledger that is *)
(* written only after the upstream has answered, so a request that passed  *)
(* the check holds permits: the ledger rows it may still add before the    *)
(* limit is checked for it again.  Module Gateway implements this one for  *)
(* each of its limits.                                                     *)
(***************************************************************************)
EXTENDS Naturals

CONSTANTS
  Limit,   \* usage at which the gate closes
  Unit,    \* most that one ledger row adds to the usage
  Cap      \* most permits that are held at a time

VARIABLES
  used,      \* usage the ledger shows in the limit's window
  permits    \* rows that admitted requests may still add

gateVars == <<used, permits>>

Init == used = 0 /\ permits = 0

\* The check: it hands out permits only below the limit.
Admit ==
  /\ used < Limit
  /\ permits' \in (permits + 1)..Cap
  /\ UNCHANGED used

\* A row is appended; permits that will not be used any more are given up.
Charge ==
  /\ \E left \in 0..permits : left < permits /\ permits' = left
  /\ \E sum \in used..(used + Unit) : used' = sum

\* An admitted request ends without another row.
Release ==
  /\ permits' \in 0..permits
  /\ UNCHANGED used

\* The window moves past old rows.
Slide ==
  /\ used' \in 0..used
  /\ UNCHANGED permits

Next == Admit \/ Charge \/ Release \/ Slide

Spec == Init /\ [][Next]_gateVars

\* The usage passes the limit by no more than the permits allow.  (Proved of every
\* limit of the gateway in GatewayProofs.)
Overshoot == used < Limit + Cap * Unit
============================================================================

--------------------------- MODULE GatewayProofs ----------------------------
(***************************************************************************)
(* Proofs about Gateway, for any requests, plans, limits and statuses.     *)
(*                                                                         *)
(* Each part rests on the ones before it.  PlaceInv says where a handler   *)
(* is, in which plan, and that its candidate in turn was checked.  WalkInv *)
(* says how far it is with its attempts and what the ledger shows of them. *)
(* BreakerInv relates the provider rows to the ledger, and CheckedInv and  *)
(* ReserveInv the limits to what the requests that passed them may still   *)
(* add.  Each action moves one handler, in one of three ways: to the end,  *)
(* to the next candidate, or on at the same candidate.                     *)
(***************************************************************************)
EXTENDS Gateway, FiniteFolds

PlanSet  == [candidates : Seq(Models), attempts : 1..6, health : BOOLEAN]
Circuits == UNION {[1..n -> Nat] : n \in Nat}
Codes    == Statuses \cup {0, 402, 403, 422, 429, 500, 503}
Locals   == [mode : {"plan", "stream"}, plan : PlanSet, circuits : Circuits, idx : Nat,
             passed : SUBSET Limits, attempt : Nat, seq : Nat,
             reply : [status : Codes, broken : BOOLEAN], last : Codes, answer : Codes]
Labels   == {"idle", "gate", "select", "call", "upstream", "outcome", "commit", "usage",
             "done", "gone"}
Calling  == {"call", "upstream", "outcome", "commit", "usage"}

Types ==
  /\ Health!TypeOK
  /\ pc \in [Requests -> Labels]
  /\ req \in [Requests -> Locals]

\* The candidate in turn is one of the plan's, with a deadline in the snapshot.
InPlan(r) ==
  pc[r] # "idle" => /\ req[r].idx \in 1..Len(req[r].plan.candidates)
                    /\ DOMAIN req[r].circuits = 1..Len(req[r].plan.candidates)

\* A candidate that is called was allowed; the first one is, before its circuit is looked at.
KeyChecked(r) ==
  pc[r] \in Calling \/ (pc[r] = "select" /\ req[r].idx = 1) => KeyAllows(r)

\* The snapshot's circuit of a candidate that is called was closed, and time only passes.
GateChecked(r) ==
  req[r].plan.health /\ (pc[r] \in Calling \/ (pc[r] = "gate" /\ req[r].idx # 1)) =>
    ~CircuitOpen(req[r].circuits[req[r].idx], now)

PlaceInv == Types /\ \A r \in Requests : InPlan(r) /\ KeyChecked(r) /\ GateChecked(r)

-----------------------------------------------------------------------------
\* What the health columns are, and what a step may do to them.

LEMMA HealthTypes ==
  ASSUME Health!TypeOK, [Health!Next]_(Health!vars)
  PROVE  Health!TypeOK'
<1> USE ThresholdAssumption, CooldownAssumption
    DEF Health!TypeOK, Health!ProviderRows, Health!HealthStatus, Health!FreshRow,
        Health!SuccessRow, Health!NoDeadline
<1>1. CASE UNCHANGED Health!vars
  BY <1>1 DEF Health!vars
<1>2. ASSUME NEW w \in Requests, NEW p \in Providers, Health!RecordSuccess(w, p)
      PROVE  Health!TypeOK'
  BY <1>2 DEF Health!RecordSuccess
<1>3. ASSUME NEW p \in Providers, NEW read \in Nat, NEW at \in Nat,
             Health!WriteFailure(p, read, at)
      PROVE  /\ row' \in [Providers -> Health!ProviderRows]
             /\ streak' \in [Providers -> Nat] /\ reported' \in [Providers -> Nat]
  <2>1. Health!FailureRow(read, at) \in Health!ProviderRows
    BY DEF Health!FailureRow
  <2> QED
    BY <1>3, <2>1 DEF Health!WriteFailure
<1>4. ASSUME NEW w \in Requests, NEW p \in Providers, Health!RecordFailure(w, p)
      PROVE  Health!TypeOK'
  <2>1. PICK at \in Health!Recent : Health!WriteFailure(p, row[p].failures, at)
    BY <1>4 DEF Health!RecordFailure
  <2>2. at \in Nat /\ row[p].failures \in Nat
    BY DEF Health!Recent
  <2> QED
    BY <1>3, <1>4, <2>1, <2>2 DEF Health!RecordFailure
<1>5. ASSUME NEW w \in Requests, NEW p \in Providers, Health!ReadFailures(w, p)
      PROVE  Health!TypeOK'
  <2>1. PICK at \in Health!Recent :
          tx' = [tx EXCEPT ![w] = [provider |-> p, read |-> row[p].failures, at |-> at]]
    BY <1>5 DEF Health!ReadFailures
  <2>2. [provider |-> p, read |-> row[p].failures, at |-> at] \in Health!OpenTxs
    BY DEF Health!Recent, Health!OpenTxs
  <2> QED
    BY <1>5, <2>1, <2>2 DEF Health!ReadFailures
<1>6. ASSUME NEW w \in Requests, Health!CommitFailure(w)
      PROVE  Health!TypeOK'
  <2>1. tx[w].provider \in Providers /\ tx[w].read \in Nat /\ tx[w].at \in Nat
    BY <1>6 DEF Health!CommitFailure, Health!OpenTxs
  <2> QED
    BY <1>3, <1>6, <2>1 DEF Health!CommitFailure
<1>7. ASSUME NEW w \in Requests, Health!Rollback(w)
      PROVE  Health!TypeOK'
  BY <1>7 DEF Health!Rollback
<1>8. CASE Health!Tick
  BY <1>8 DEF Health!Tick
<1>9. ASSUME NEW p \in Providers, Health!Administer(p)
      PROVE  Health!TypeOK'
  BY <1>9 DEF Health!Administer, Health!DeleteProvider, Health!CreateProvider
<1> QED
  BY <1>1, <1>2, <1>4, <1>5, <1>6, <1>7, <1>8, <1>9 DEF Health!Next, Health!Report

LEMMA CandidateInPlan ==
  ASSUME Types, NEW r \in Requests, InPlan(r), pc[r] # "idle"
  PROVE  Candidate(r) \in Models /\ ProviderIn(r) \in Providers
BY ProviderOfAssumption DEF Types, InPlan, Locals, PlanSet, Candidate, ProviderIn

\* A step of the gateway is one of ProviderHealth, or leaves the rows alone.
LEMMA HealthStep ==
  ASSUME PlaceInv, [Next]_vars
  PROVE  [Health!Next]_(Health!vars)
<1> USE DEF PlaceInv
<1>1. healthVars' = healthVars => UNCHANGED Health!vars
  BY DEF healthVars, Health!vars
<1>2. ASSUME NEW r \in Requests, ReportSuccess(r) \/ ReportFailure(r)
      PROVE  Health!Next
  <2>1. ProviderIn(r) \in Providers
    BY <1>2, CandidateInPlan DEF ReportSuccess, ReportFailure
  <2> QED
    BY <1>2, <2>1 DEF ReportSuccess, ReportFailure, Health!Next, Health!Report
<1>3. ASSUME NEW r \in Requests, CommitOutcome(r)
      PROVE  Health!Next
  BY <1>3 DEF CommitOutcome, Health!Next
<1>4. ASSUME NEW r \in Requests, OutcomeFault(r) \/ Disconnect(r)
      PROVE  Health!Next \/ healthVars' = healthVars
  BY <1>4, SMTT(30) DEF OutcomeFault, Disconnect, Health!Next
<1>5. ASSUME NEW r \in Requests,
             \/ Arrive(r) \/ RefuseModel(r) \/ CheckLimit(r) \/ GateFault(r) \/ Admit(r)
             \/ SkipOpenCircuit(r) \/ SelectCandidate(r) \/ Dispatch(r) \/ Reply(r)
             \/ RecordUsage(r) \/ UsageFault(r)
      PROVE  healthVars' = healthVars
  BY <1>5 DEF Arrive, RefuseModel, CheckLimit, GateFault, Admit, SkipOpenCircuit,
              SelectCandidate, Dispatch, Reply, RecordUsage, UsageFault
<1>6. ASSUME Tick
      PROVE  Health!Next
  BY <1>6 DEF Tick, Health!Next
<1>7. ASSUME MinutePasses \/ MonthBegins \/ UNCHANGED vars
      PROVE  healthVars' = healthVars
  BY <1>7 DEF MinutePasses, MonthBegins, vars
<1> QED
  BY <1>1, <1>2, <1>3, <1>4, <1>5, <1>6, <1>7 DEF Next, Handle

-----------------------------------------------------------------------------
\* The moves of a handler.

Others(r) == \A s \in Requests : s # r => pc'[s] = pc[s] /\ req'[s] = req[s]

\* What does not change while a plan is walked.
SamePlan(r) ==
  /\ req'[r] \in Locals /\ req'[r].plan = req[r].plan
  /\ req'[r].circuits = req[r].circuits /\ req'[r].mode = req[r].mode

Ends(r) == Others(r) /\ SamePlan(r) /\ req'[r].idx = req[r].idx /\ pc'[r] \in {"done", "gone"}
Advances(r) ==
  /\ Others(r) /\ SamePlan(r) /\ pc'[r] = "select"
  /\ req'[r].idx = req[r].idx + 1 /\ req'[r].idx <= Len(req[r].plan.candidates)
GoesOn(r, to) == Others(r) /\ SamePlan(r) /\ req'[r].idx = req[r].idx /\ pc'[r] = to

\* What becomes of the turn of the candidate, and of the reply.
SameTurn(r) ==
  /\ req'[r].idx = req[r].idx /\ req'[r].attempt = req[r].attempt
  /\ req'[r].seq = req[r].seq /\ req'[r].passed = req[r].passed
Answered(r, status) ==
  pc'[r] = "done" /\ SameTurn(r) /\ req'[r].reply = NoReply /\ req'[r].answer = status
NextTurn(r) ==
  /\ req'[r].attempt = 0 /\ req'[r].seq = req[r].seq /\ req'[r].passed = {}
  /\ req'[r].reply = NoReply
Retries(r) == SameTurn(r) /\ req'[r].reply = NoReply

\* The status that NextCandidate sends when there is none.
LastStatus(r, last) == IF req[r].mode = "stream" THEN 503 ELSE last

LEMMA GotoMoves ==
  ASSUME Types, NEW r \in Requests, NEW label \in Labels, Goto(r, label)
  PROVE  /\ pc' \in [Requests -> Labels] /\ pc'[r] = label
         /\ \A s \in Requests : s # r => pc'[s] = pc[s]
BY DEF Types, Goto

LEMMA UpdateMoves ==
  ASSUME Types, NEW r \in Requests, NEW q \in Locals, req' = [req EXCEPT ![r] = q]
  PROVE  /\ req' \in [Requests -> Locals] /\ req'[r] = q
         /\ \A s \in Requests : s # r => req'[s] = req[s]
BY DEF Types

LEMMA NoReplyType == NoReply \in [status : Codes, broken : BOOLEAN]
BY DEF NoReply, Codes

LEMMA AnswerMoves ==
  ASSUME Types, NEW r \in Requests, NEW status \in Codes, Answer(r, status)
  PROVE  /\ Ends(r) /\ Answered(r, status)
         /\ pc' \in [Requests -> Labels] /\ req' \in [Requests -> Locals]
<1> DEFINE q == [req[r] EXCEPT !.answer = status, !.reply = NoReply]
<1>1. /\ pc' \in [Requests -> Labels] /\ pc'[r] = "done"
      /\ \A s \in Requests : s # r => pc'[s] = pc[s]
  BY GotoMoves DEF Answer, Labels
<1>2. \A reply \in [status : Codes, broken : BOOLEAN] :
        LET new == [req[r] EXCEPT !.answer = status, !.reply = reply]
        IN  /\ new \in Locals /\ new.plan = req[r].plan /\ new.idx = req[r].idx
            /\ new.circuits = req[r].circuits /\ new.mode = req[r].mode
            /\ new.attempt = req[r].attempt /\ new.seq = req[r].seq
            /\ new.passed = req[r].passed /\ new.reply = reply /\ new.answer = status
  BY DEF Types, Locals
<1>3. /\ q \in Locals /\ q.plan = req[r].plan /\ q.idx = req[r].idx
      /\ q.circuits = req[r].circuits /\ q.mode = req[r].mode
      /\ q.attempt = req[r].attempt /\ q.seq = req[r].seq
      /\ q.passed = req[r].passed /\ q.reply = NoReply /\ q.answer = status
  BY <1>2, NoReplyType
<1>4. req' = [req EXCEPT ![r] = q]
  BY DEF Answer
<1> HIDE DEF q
<1> QED
  BY <1>1, <1>3, <1>4, UpdateMoves DEF Ends, Others, SamePlan, Answered, SameTurn

LEMMA NextCandidateMoves ==
  ASSUME Types, NEW r \in Requests, NEW last \in Codes, NextCandidate(r, last)
  PROVE  /\ \/ Ends(r) /\ Answered(r, LastStatus(r, last))
            \/ Advances(r) /\ NextTurn(r)
         /\ pc' \in [Requests -> Labels] /\ req' \in [Requests -> Locals]
<1>1. CASE ~(req[r].idx < Len(req[r].plan.candidates))
  <2>1. LastStatus(r, last) \in Codes
    BY DEF Codes, LastStatus
  <2>2. Answer(r, LastStatus(r, last))
    BY <1>1 DEF NextCandidate, LastStatus
  <2> QED
    BY <2>1, <2>2, AnswerMoves
<1>2. CASE req[r].idx < Len(req[r].plan.candidates)
  <2> DEFINE q == [req[r] EXCEPT !.idx = req[r].idx + 1, !.passed = {}, !.attempt = 0,
                                 !.reply = NoReply, !.last = last]
  <2>1. /\ pc' \in [Requests -> Labels] /\ pc'[r] = "select"
        /\ \A s \in Requests : s # r => pc'[s] = pc[s]
    BY <1>2, GotoMoves DEF NextCandidate, Labels
  <2>2. req[r] \in Locals /\ {} \in SUBSET Limits
    BY DEF Types
  <2>3. req[r].idx \in Nat /\ req[r].idx + 1 \in Nat /\ Len(req[r].plan.candidates) \in Nat
    BY <2>2 DEF Locals, PlanSet
  <2>4. /\ q \in Locals /\ q.plan = req[r].plan /\ q.idx = req[r].idx + 1
        /\ q.circuits = req[r].circuits /\ q.mode = req[r].mode
    <3>1. q \in Locals
      BY <2>2, <2>3, NoReplyType DEF Locals
    <3>2. q.plan = req[r].plan /\ q.idx = req[r].idx + 1
      BY <2>2 DEF Locals
    <3>3. q.circuits = req[r].circuits /\ q.mode = req[r].mode
      BY <2>2 DEF Locals
    <3> HIDE DEF q
    <3> QED
      BY <3>1, <3>2, <3>3
  <2>9. q.attempt = 0 /\ q.seq = req[r].seq /\ q.passed = {} /\ q.reply = NoReply
    BY <2>2 DEF Locals
  <2>5. req' = [req EXCEPT ![r] = q]
    BY <1>2 DEF NextCandidate
  <2> HIDE DEF q
  <2>6. /\ req' \in [Requests -> Locals] /\ req'[r] = q
        /\ \A s \in Requests : s # r => req'[s] = req[s]
    BY <2>4, <2>5, UpdateMoves
  <2>7. Others(r) /\ SamePlan(r)
    BY <2>1, <2>4, <2>6 DEF Others, SamePlan
  <2>8. req'[r].idx = req[r].idx + 1 /\ req'[r].idx <= Len(req[r].plan.candidates)
    BY <1>2, <2>3, <2>4, <2>6
  <2> QED
    BY <2>1, <2>6, <2>7, <2>8, <2>9 DEF Advances, NextTurn
<1> QED
  BY <1>1, <1>2

LEMMA RefuseMoves ==
  ASSUME Types, NEW r \in Requests, NEW status \in Codes, RefuseWith(r, status)
  PROVE  /\ \/ Ends(r) /\ (Answered(r, status) \/ Answered(r, LastStatus(r, status)))
            \/ Advances(r) /\ NextTurn(r)
         /\ pc' \in [Requests -> Labels] /\ req' \in [Requests -> Locals]
BY AnswerMoves, NextCandidateMoves DEF RefuseWith

\* The three ways on after an attempt.
Stops(r, status) ==
  /\ req[r].mode = "stream" \/ ~StatusIsFailure(status)
  /\ Ends(r) /\ Answered(r, status)
TriesAgain(r, status) ==
  /\ req[r].mode # "stream" /\ StatusIsFailure(status)
  /\ req[r].attempt < req[r].plan.attempts /\ StatusAllowsRetry(status)
  /\ GoesOn(r, "call") /\ Retries(r)
GivesUp(r, status) ==
  /\ req[r].mode # "stream" /\ StatusIsFailure(status)
  /\ \/ Ends(r) /\ Answered(r, status)
     \/ Advances(r) /\ NextTurn(r)

LEMMA AfterAttemptMoves ==
  ASSUME Types, NEW r \in Requests, NEW status \in Codes, AfterAttempt(r, status)
  PROVE  /\ Stops(r, status) \/ TriesAgain(r, status) \/ GivesUp(r, status)
         /\ pc' \in [Requests -> Labels] /\ req' \in [Requests -> Locals]
<1>1. CASE /\ req[r].mode = "stream" \/ ~StatusIsFailure(status)
           /\ Answer(r, status)
  BY <1>1, AnswerMoves DEF Stops
<1>2. CASE /\ req[r].mode # "stream" /\ StatusIsFailure(status)
           /\ NextCandidate(r, status)
  BY <1>2, NextCandidateMoves DEF GivesUp, LastStatus
<1>3. CASE /\ req[r].mode # "stream" /\ StatusIsFailure(status)
           /\ req[r].attempt < req[r].plan.attempts /\ StatusAllowsRetry(status)
           /\ Goto(r, "call")
           /\ req' = [req EXCEPT ![r] = [@ EXCEPT !.reply = NoReply, !.last = status]]
  <2> DEFINE q == [req[r] EXCEPT !.reply = NoReply, !.last = status]
  <2>1. /\ pc' \in [Requests -> Labels] /\ pc'[r] = "call"
        /\ \A s \in Requests : s # r => pc'[s] = pc[s]
    BY <1>3, GotoMoves DEF Labels
  <2>2. \A reply \in [status : Codes, broken : BOOLEAN] :
          LET new == [req[r] EXCEPT !.reply = reply, !.last = status]
          IN  /\ new \in Locals /\ new.plan = req[r].plan /\ new.idx = req[r].idx
              /\ new.circuits = req[r].circuits /\ new.mode = req[r].mode
              /\ new.attempt = req[r].attempt /\ new.seq = req[r].seq
              /\ new.passed = req[r].passed /\ new.reply = reply
    BY DEF Types, Locals
  <2>3. /\ q \in Locals /\ q.plan = req[r].plan /\ q.idx = req[r].idx
        /\ q.circuits = req[r].circuits /\ q.mode = req[r].mode
        /\ q.attempt = req[r].attempt /\ q.seq = req[r].seq
        /\ q.passed = req[r].passed /\ q.reply = NoReply
    BY <2>2, NoReplyType
  <2>4. req' = [req EXCEPT ![r] = q]
    BY <1>3
  <2> HIDE DEF q
  <2>5. GoesOn(r, "call") /\ Retries(r)
    BY <2>1, <2>3, <2>4, UpdateMoves DEF GoesOn, Others, SamePlan, Retries, SameTurn
  <2> QED
    BY <1>3, <2>1, <2>3, <2>4, <2>5, UpdateMoves DEF TriesAgain
<1>4. CASE req[r].mode = "stream" \/ ~StatusIsFailure(status)
  BY <1>1, <1>4 DEF AfterAttempt
<1>5. CASE ~(req[r].mode = "stream" \/ ~StatusIsFailure(status))
  BY <1>2, <1>3, <1>5 DEF AfterAttempt
<1> QED
  BY <1>4, <1>5

-----------------------------------------------------------------------------
\* The invariant is kept by each of the moves, and so by each action.

Places == \A r \in Requests : InPlan(r) /\ KeyChecked(r) /\ GateChecked(r)

\* What a move to a place at the same candidate has to show.
MayGoOn(r, to) ==
  /\ to \in Calling \/ (to = "select" /\ req[r].idx = 1) => KeyAllows(r)
  /\ req[r].plan.health /\ (to \in Calling \/ (to = "gate" /\ req[r].idx # 1)) =>
       ~CircuitOpen(req[r].circuits[req[r].idx], now)

LEMMA TimePasses ==
  ASSUME Health!TypeOK, [Health!Next]_(Health!vars)
  PROVE  now \in Nat /\ now' \in Nat /\ now' >= now
<1>1. now' = now \/ now' = now + 1
  BY DEF Health!Next, Health!vars, Health!Report, Health!RecordSuccess, Health!RecordFailure,
         Health!ReadFailures, Health!CommitFailure, Health!Rollback, Health!Administer,
         Health!DeleteProvider, Health!CreateProvider, Health!Tick
<1> QED
  BY <1>1 DEF Health!TypeOK

LEMMA DeadlineType ==
  ASSUME Types, NEW r \in Requests, InPlan(r), pc[r] # "idle"
  PROVE  /\ req[r].circuits[req[r].idx] \in Nat
         /\ req[r].idx \in Nat /\ req[r].idx >= 1 /\ Len(req[r].plan.candidates) \in Nat
<1>1. PICK n \in Nat : req[r].circuits \in [1..n -> Nat]
  BY DEF Types, Locals, Circuits
<1>2. req[r].idx \in DOMAIN req[r].circuits /\ Len(req[r].plan.candidates) \in Nat
  BY DEF InPlan, Types, Locals, PlanSet
<1> QED
  BY <1>1, <1>2

LEMMA ClosedStaysClosed ==
  ASSUME Types, NEW r \in Requests, InPlan(r), pc[r] # "idle",
         now' \in Nat, now' >= now, ~CircuitOpen(req[r].circuits[req[r].idx], now)
  PROVE  ~CircuitOpen(req[r].circuits[req[r].idx], now')
BY DeadlineType DEF CircuitOpen, Types, Health!TypeOK

LEMMA OthersKept ==
  ASSUME Types, Places, now' \in Nat, now' >= now, NEW s \in Requests,
         pc'[s] = pc[s], req'[s] = req[s]
  PROVE  (InPlan(s) /\ KeyChecked(s) /\ GateChecked(s))'
<1>1. InPlan(s)' /\ KeyChecked(s)'
  BY DEF Places, InPlan, KeyChecked, KeyAllows, Candidate
<1>2. GateChecked(s)'
  BY ClosedStaysClosed DEF Places, GateChecked, Calling
<1> QED
  BY <1>1, <1>2

LEMMA PlacesKept ==
  ASSUME PlaceInv, now' \in Nat, now' >= now, NEW r \in Requests, pc[r] # "idle",
         Ends(r) \/ Advances(r) \/ \E to \in Labels : GoesOn(r, to) /\ MayGoOn(r, to)
  PROVE  Places'
<1> USE DEF PlaceInv
<1>1. Places /\ Others(r) /\ SamePlan(r)
  BY DEF Places, Ends, Advances, GoesOn
<1>2. ASSUME NEW s \in Requests, s # r
      PROVE  (InPlan(s) /\ KeyChecked(s) /\ GateChecked(s))'
  BY <1>1, <1>2, OthersKept DEF Others
<1>3. InPlan(r) /\ req[r].idx \in Nat /\ req[r].idx >= 1 /\ Len(req[r].plan.candidates) \in Nat
  BY DeadlineType
<1>4. CASE Ends(r)
  BY <1>1, <1>2, <1>3, <1>4 DEF Places, Ends, SamePlan, InPlan, KeyChecked, GateChecked, Calling
<1>5. CASE Advances(r)
  <2>1. InPlan(r)'
    BY <1>1, <1>3, <1>5 DEF Advances, SamePlan, InPlan
  <2>2. KeyChecked(r)' /\ GateChecked(r)'
    BY <1>3, <1>5 DEF Advances, KeyChecked, GateChecked, Calling
  <2> QED
    BY <1>2, <2>1, <2>2 DEF Places
<1>6. ASSUME NEW to \in Labels, GoesOn(r, to), MayGoOn(r, to)
      PROVE  Places'
  <2>1. InPlan(r)'
    BY <1>1, <1>3, <1>6 DEF GoesOn, SamePlan, InPlan
  <2>2. KeyChecked(r)'
    BY <1>1, <1>6 DEF GoesOn, MayGoOn, SamePlan, KeyChecked, KeyAllows, Candidate
  <2>3. GateChecked(r)'
    BY <1>1, <1>3, <1>6, ClosedStaysClosed DEF GoesOn, MayGoOn, SamePlan, GateChecked
  <2> QED
    BY <1>2, <2>1, <2>2, <2>3 DEF Places
<1> QED
  BY <1>4, <1>5, <1>6

LEMMA StatusTypes ==
  ASSUME Types, NEW r \in Requests
  PROVE  {402, 403, 422, 429, 500, 503} \subseteq Codes /\ FinalStatuses(r) \subseteq Codes
BY DEF Codes, FinalStatuses, Types, Locals

\* A handler that goes on without a change of what it knows.
LEMMA StepMoves ==
  ASSUME Types, NEW r \in Requests, NEW to \in Labels, Goto(r, to), UNCHANGED req
  PROVE  GoesOn(r, to) /\ pc' \in [Requests -> Labels] /\ req' \in [Requests -> Locals]
BY GotoMoves DEF GoesOn, Others, SamePlan, Types

\* A step of a handler that has its plan.
LEMMA HandlerStep ==
  ASSUME PlaceInv, [Next]_vars, NEW r \in Requests, pc[r] # "idle",
         pc' \in [Requests -> Labels], req' \in [Requests -> Locals],
         Ends(r) \/ Advances(r) \/ \E to \in Labels : GoesOn(r, to) /\ MayGoOn(r, to)
  PROVE  PlaceInv'
<1>1. [Health!Next]_(Health!vars) /\ Health!TypeOK
  BY HealthStep DEF PlaceInv, Types
<1>2. Health!TypeOK' /\ now' \in Nat /\ now' >= now
  BY <1>1, HealthTypes, TimePasses
<1>3. Places'
  BY <1>2, PlacesKept
<1> QED
  BY <1>2, <1>3 DEF PlaceInv, Types, Places

\* A step that moves no handler.
LEMMA EnvironmentStep ==
  ASSUME PlaceInv, [Next]_vars, UNCHANGED <<pc, req>>
  PROVE  PlaceInv'
<1>1. [Health!Next]_(Health!vars) /\ Health!TypeOK
  BY HealthStep DEF PlaceInv, Types
<1>2. Health!TypeOK' /\ now' \in Nat /\ now' >= now
  BY <1>1, HealthTypes, TimePasses
<1>3. ASSUME NEW s \in Requests
      PROVE  (InPlan(s) /\ KeyChecked(s) /\ GateChecked(s))'
  BY <1>2, OthersKept DEF PlaceInv, Places
<1> QED
  BY <1>2, <1>3 DEF PlaceInv, Types

\* The steps of the gate, which looks at the key first.
LEMMA GateSteps ==
  ASSUME PlaceInv, [Next]_vars, NEW r \in Requests,
         RefuseModel(r) \/ CheckLimit(r) \/ GateFault(r) \/ Admit(r)
  PROVE  PlaceInv'
<1> USE DEF PlaceInv
<1>1. pc[r] = "gate"
  BY DEF RefuseModel, CheckLimit, GateFault, Admit
<1>2. ASSUME NEW status \in Codes, RefuseWith(r, status)
      PROVE  PlaceInv'
  BY <1>1, <1>2, RefuseMoves, HandlerStep
<1>3. CASE RefuseModel(r)
  BY <1>2, <1>3, StatusTypes DEF RefuseModel
<1>4. CASE GateFault(r)
  BY <1>2, <1>4, StatusTypes DEF GateFault
<1>5. ASSUME NEW l \in Limits, req' = [req EXCEPT ![r].passed = @ \cup {l}], UNCHANGED pc
      PROVE  PlaceInv'
  <2> DEFINE q == [req[r] EXCEPT !.passed = req[r].passed \cup {l}]
  <2>1. \A passed \in SUBSET Limits :
          LET new == [req[r] EXCEPT !.passed = passed]
          IN  /\ new \in Locals /\ new.plan = req[r].plan /\ new.idx = req[r].idx
              /\ new.circuits = req[r].circuits /\ new.mode = req[r].mode
    BY DEF Types, Locals
  <2>2. req[r].passed \cup {l} \in SUBSET Limits
    BY DEF Types, Locals
  <2>3. /\ q \in Locals /\ q.plan = req[r].plan /\ q.idx = req[r].idx
        /\ q.circuits = req[r].circuits /\ q.mode = req[r].mode
    BY <2>1, <2>2
  <2>4. req' = [req EXCEPT ![r] = q]
    BY <1>5
  <2> HIDE DEF q
  <2>5. GoesOn(r, "gate") /\ pc' \in [Requests -> Labels] /\ req' \in [Requests -> Locals]
    BY <1>1, <1>5, <2>3, <2>4, UpdateMoves DEF GoesOn, Others, SamePlan, Types
  <2>6. MayGoOn(r, "gate")
    BY <1>1 DEF MayGoOn, GateChecked, Calling
  <2> QED
    BY <1>1, <2>5, <2>6, HandlerStep DEF Labels
<1>6. CASE CheckLimit(r)
  <2>1. PICK l \in InTurn(r) :
          IF Exceeded(l) THEN RefuseWith(r, IF l.kind = "usd" THEN 402 ELSE 429)
          ELSE req' = [req EXCEPT ![r].passed = @ \cup {l}] /\ UNCHANGED pc
    BY <1>6 DEF CheckLimit
  <2>2. l \in Limits
    BY DEF InTurn, Pending
  <2>3. (IF l.kind = "usd" THEN 402 ELSE 429) \in Codes
    BY DEF Codes
  <2> QED
    BY <1>2, <1>5, <2>1, <2>2, <2>3
<1>7. CASE Admit(r)
  <2> DEFINE to == IF req[r].idx = 1 THEN "select" ELSE "call"
  <2>1. to \in Labels
    BY DEF Labels
  <2>2. GoesOn(r, to) /\ pc' \in [Requests -> Labels] /\ req' \in [Requests -> Locals]
    BY <1>7, <2>1, StepMoves DEF Admit
  <2>3. MayGoOn(r, to)
    BY <1>1, <1>7 DEF Admit, MayGoOn, GateChecked, Calling
  <2> HIDE DEF to
  <2> QED
    BY <1>1, <2>1, <2>2, <2>3, HandlerStep
<1> QED
  BY <1>3, <1>4, <1>6, <1>7

\* The steps of the health gate.
LEMMA SelectSteps ==
  ASSUME PlaceInv, [Next]_vars, NEW r \in Requests, SkipOpenCircuit(r) \/ SelectCandidate(r)
  PROVE  PlaceInv'
<1> USE DEF PlaceInv
<1>1. pc[r] = "select"
  BY DEF SkipOpenCircuit, SelectCandidate
<1>2. CASE SkipOpenCircuit(r)
  BY <1>1, <1>2, StatusTypes, NextCandidateMoves, HandlerStep DEF SkipOpenCircuit
<1>3. CASE SelectCandidate(r)
  <2> DEFINE to == IF req[r].idx = 1 THEN "call" ELSE "gate"
  <2>1. to \in Labels
    BY DEF Labels
  <2>2. GoesOn(r, to) /\ pc' \in [Requests -> Labels] /\ req' \in [Requests -> Locals]
    BY <1>3, <2>1, StepMoves DEF SelectCandidate
  <2>3. MayGoOn(r, to)
    BY <1>1, <1>3 DEF SelectCandidate, SnapshotOpen, MayGoOn, KeyChecked, Calling
  <2> HIDE DEF to
  <2> QED
    BY <1>1, <2>1, <2>2, <2>3, HandlerStep
<1> QED
  BY <1>2, <1>3

\* A handler that calls stays at its candidate until the call is written down.
LEMMA CallingMayGoOn ==
  ASSUME PlaceInv, NEW r \in Requests, pc[r] \in Calling
  PROVE  \A to \in Calling : to \in Labels /\ MayGoOn(r, to)
BY DEF PlaceInv, MayGoOn, KeyChecked, GateChecked, Calling, Labels

LEMMA CallSteps ==
  ASSUME PlaceInv, [Next]_vars, NEW r \in Requests,
         Dispatch(r) \/ Reply(r) \/ ReportSuccess(r) \/ ReportFailure(r)
         \/ CommitOutcome(r) \/ OutcomeFault(r)
  PROVE  PlaceInv'
<1> USE DEF PlaceInv
<1>1. pc[r] \in Calling /\ pc[r] # "idle"
  BY DEF Dispatch, Reply, ReportSuccess, ReportFailure, CommitOutcome, OutcomeFault, Calling
<1>2. ASSUME NEW to \in Calling, GoesOn(r, to), pc' \in [Requests -> Labels],
             req' \in [Requests -> Locals]
      PROVE  PlaceInv'
  BY <1>1, <1>2, CallingMayGoOn, HandlerStep
<1>3. ASSUME NEW to \in Calling, NEW q \in Locals, Goto(r, to),
             req' = [req EXCEPT ![r] = q], q.plan = req[r].plan, q.idx = req[r].idx,
             q.circuits = req[r].circuits, q.mode = req[r].mode
      PROVE  PlaceInv'
  <2>1. to \in Labels
    BY DEF Calling, Labels
  <2>2. GoesOn(r, to) /\ pc' \in [Requests -> Labels] /\ req' \in [Requests -> Locals]
    BY <1>3, <2>1, GotoMoves, UpdateMoves DEF GoesOn, Others, SamePlan
  <2> QED
    BY <1>2, <2>2
<1>4. CASE Dispatch(r)
  <2> DEFINE q == [req[r] EXCEPT !.attempt = req[r].attempt + 1, !.seq = req[r].seq + 1]
  <2>1. \A a \in Nat, n \in Nat :
          LET new == [req[r] EXCEPT !.attempt = a, !.seq = n]
          IN  /\ new \in Locals /\ new.plan = req[r].plan /\ new.idx = req[r].idx
              /\ new.circuits = req[r].circuits /\ new.mode = req[r].mode
    BY DEF Types, Locals
  <2>2. req[r].attempt + 1 \in Nat /\ req[r].seq + 1 \in Nat
    BY DEF Types, Locals
  <2>3. /\ q \in Locals /\ q.plan = req[r].plan /\ q.idx = req[r].idx
        /\ q.circuits = req[r].circuits /\ q.mode = req[r].mode
    BY <2>1, <2>2
  <2>4. req' = [req EXCEPT ![r] = q] /\ Goto(r, "upstream")
    BY <1>4 DEF Dispatch
  <2> HIDE DEF q
  <2> QED
    BY <1>3, <2>3, <2>4 DEF Calling
<1>5. CASE Reply(r)
  <2>1. PICK reply \in [status : Codes, broken : BOOLEAN] :
          req' = [req EXCEPT ![r].reply = reply]
    <3>1. PICK status \in Statuses, broken \in {FALSE, BrokenBodies} :
            /\ broken => status < 400
            /\ req' = [req EXCEPT ![r].reply = [status |-> status, broken |-> broken]]
      BY <1>5 DEF Reply
    <3>2. status \in Codes
      BY DEF Codes
    <3>3. broken \in BOOLEAN
      BY BrokenBodiesAssumption, Zenon
    <3> QED
      BY <3>1, <3>2, <3>3
  <2> DEFINE q == [req[r] EXCEPT !.reply = reply]
  <2>2. /\ q \in Locals /\ q.plan = req[r].plan /\ q.idx = req[r].idx
        /\ q.circuits = req[r].circuits /\ q.mode = req[r].mode
    BY DEF Types, Locals
  <2>3. req' = [req EXCEPT ![r] = q] /\ Goto(r, "outcome")
    BY <1>5, <2>1 DEF Reply
  <2> HIDE DEF q
  <2> QED
    BY <1>3, <2>2, <2>3 DEF Calling
<1>6. ASSUME NEW to \in Calling, Goto(r, to), UNCHANGED req
      PROVE  PlaceInv'
  <2>1. to \in Labels
    BY DEF Calling, Labels
  <2> QED
    BY <1>2, <1>6, <2>1, StepMoves
<1>7. CASE ReportSuccess(r) \/ ReportFailure(r) \/ CommitOutcome(r) \/ OutcomeFault(r)
  BY <1>6, <1>7 DEF ReportSuccess, ReportFailure, CommitOutcome, OutcomeFault, Calling
<1> QED
  BY <1>4, <1>5, <1>7

LEMMA UsageSteps ==
  ASSUME PlaceInv, [Next]_vars, NEW r \in Requests, RecordUsage(r) \/ UsageFault(r)
  PROVE  PlaceInv'
<1> USE DEF PlaceInv
<1>1. pc[r] = "usage" /\ pc[r] \in Calling
  BY DEF RecordUsage, UsageFault, Calling
<1>2. PICK status \in Codes : AfterAttempt(r, status)
  BY StatusTypes DEF RecordUsage, UsageFault
<1>3. "call" \in Labels /\ MayGoOn(r, "call")
  BY <1>1, CallingMayGoOn DEF Calling
<1> QED
  BY <1>1, <1>2, <1>3, AfterAttemptMoves, HandlerStep DEF Stops, TriesAgain, GivesUp

LEMMA DisconnectStep ==
  ASSUME PlaceInv, [Next]_vars, NEW r \in Requests, Disconnect(r)
  PROVE  PlaceInv'
<1>1. pc[r] # "idle" /\ Goto(r, "gone") /\ UNCHANGED req
  BY DEF Disconnect, Active
<1>2. GoesOn(r, "gone") /\ pc' \in [Requests -> Labels] /\ req' \in [Requests -> Locals]
  BY <1>1, StepMoves DEF PlaceInv, Labels
<1> QED
  BY <1>1, <1>2, HandlerStep DEF GoesOn, Ends

\* A request that arrives gets its plan, and the snapshot with it.
LEMMA ArriveStep ==
  ASSUME PlaceInv, [Next]_vars, NEW r \in Requests, Arrive(r)
  PROVE  PlaceInv'
<1> USE DEF PlaceInv
<1>1. PICK plan \in Plans, mode \in Modes :
        req' = [req EXCEPT ![r] = [@ EXCEPT
                  !.plan = [plan EXCEPT !.attempts =
                                             IF mode = "stream" THEN 1 ELSE plan.attempts],
                  !.mode = mode,
                  !.circuits = [i \in DOMAIN plan.candidates |->
                                     row[ProviderOf[plan.candidates[i]]].circuit],
                  !.idx = 1]]
  BY DEF Arrive
<1> DEFINE tries    == IF mode = "stream" THEN 1 ELSE plan.attempts
           fixed    == [plan EXCEPT !.attempts = tries]
           snapshot == [i \in DOMAIN plan.candidates |->
                          row[ProviderOf[plan.candidates[i]]].circuit]
           q        == [req[r] EXCEPT !.plan = fixed, !.mode = mode, !.circuits = snapshot,
                                      !.idx = 1]
<1>2. /\ plan.candidates \in Seq(Models) /\ plan.candidates # <<>>
      /\ plan.attempts \in 1..6 /\ plan.health \in BOOLEAN /\ mode \in {"plan", "stream"}
      /\ plan = [candidates |-> plan.candidates, attempts |-> plan.attempts,
                 health |-> plan.health]
  BY PlansAssumption, ModesAssumption
<1>3. /\ DOMAIN plan.candidates = 1..Len(plan.candidates)
      /\ Len(plan.candidates) \in Nat /\ 1 \in 1..Len(plan.candidates)
  BY <1>2
<1>4. fixed \in PlanSet /\ fixed.candidates = plan.candidates
  <2>1. \A n \in 1..6 : LET new == [plan EXCEPT !.attempts = n]
                         IN  new \in PlanSet /\ new.candidates = plan.candidates
    BY <1>2 DEF PlanSet
  <2>2. tries \in 1..6
    BY <1>2
  <2> QED
    BY <2>1, <2>2
<1>5. snapshot \in Circuits /\ DOMAIN snapshot = 1..Len(plan.candidates)
  <2>1. \A i \in DOMAIN plan.candidates : row[ProviderOf[plan.candidates[i]]].circuit \in Nat
    BY <1>2, ProviderOfAssumption DEF Types, Health!TypeOK, Health!ProviderRows
  <2> QED
    BY <1>3, <2>1 DEF Circuits
<1> HIDE DEF fixed, snapshot
<1>6. q \in Locals /\ q.plan = fixed /\ q.circuits = snapshot /\ q.idx = 1
  <2>1. req[r] \in Locals
    BY DEF Types
  <2>2. q \in Locals
    BY <1>2, <1>4, <1>5, <2>1 DEF Locals
  <2>3. q.plan = fixed /\ q.circuits = snapshot /\ q.idx = 1
    BY <2>1 DEF Locals
  <2> HIDE DEF q
  <2> QED
    BY <2>2, <2>3
<1>7. req' = [req EXCEPT ![r] = q]
  BY <1>1 DEF fixed, snapshot
<1> HIDE DEF q
<1>8. /\ req' \in [Requests -> Locals] /\ req'[r] = q
      /\ \A s \in Requests : s # r => req'[s] = req[s]
  BY <1>6, <1>7, UpdateMoves
<1>9. /\ pc' \in [Requests -> Labels] /\ pc'[r] = "gate"
      /\ \A s \in Requests : s # r => pc'[s] = pc[s]
  BY GotoMoves DEF Arrive, Labels
<1>10. Health!TypeOK' /\ now' \in Nat /\ now' >= now
  BY HealthStep, HealthTypes, TimePasses DEF Types
<1>11. InPlan(r)' /\ KeyChecked(r)' /\ GateChecked(r)'
  <2>1. InPlan(r)'
    BY <1>3, <1>4, <1>5, <1>6, <1>8 DEF InPlan
  <2> QED
    BY <2>1, <1>6, <1>8, <1>9 DEF KeyChecked, GateChecked, Calling
<1>12. ASSUME NEW s \in Requests, s # r
       PROVE  (InPlan(s) /\ KeyChecked(s) /\ GateChecked(s))'
  BY <1>8, <1>9, <1>10, <1>12, OthersKept DEF Places
<1> QED
  BY <1>8, <1>9, <1>10, <1>11, <1>12, SMTT(30) DEF Types

LEMMA PlaceInitially == Init => PlaceInv
<1> SUFFICES ASSUME Init PROVE PlaceInv
  OBVIOUS
<1>1. Health!TypeOK
  BY ThresholdAssumption, CooldownAssumption
     DEF Init, Health!Init, Health!TypeOK, Health!ProviderRows, Health!HealthStatus,
         Health!FreshRow, Health!NoDeadline
<1>2. NewRequest \in Locals
  <2>1. NoPlan \in PlanSet
    BY DEF NoPlan, PlanSet
  <2>2. <<>> \in Circuits
    <3>1. <<>> \in [1..0 -> Nat]
      OBVIOUS
    <3> QED
      BY <3>1 DEF Circuits
  <2>3. 0 \in Codes
    BY DEF Codes
  <2> QED
    BY <2>1, <2>2, <2>3, NoReplyType DEF NewRequest, Locals
<1>3. \A r \in Requests : pc[r] = "idle" /\ req[r].plan.health = FALSE
  BY DEF Init, NewRequest, NoPlan
<1> QED
  BY <1>1, <1>2, <1>3 DEF Init, PlaceInv, Types, Labels, InPlan, KeyChecked, GateChecked, Calling

LEMMA PlaceStep == PlaceInv /\ [Next]_vars => PlaceInv'
<1> SUFFICES ASSUME PlaceInv, [Next]_vars PROVE PlaceInv'
  OBVIOUS
<1>1. ASSUME NEW r \in Requests, Arrive(r) \/ Handle(r) \/ Disconnect(r)
      PROVE  PlaceInv'
  BY <1>1, ArriveStep, DisconnectStep, GateSteps, SelectSteps, CallSteps, UsageSteps DEF Handle
<1>2. CASE Tick \/ MinutePasses \/ MonthBegins \/ UNCHANGED vars
  BY <1>2, EnvironmentStep DEF Tick, MinutePasses, MonthBegins, vars
<1> QED
  BY <1>1, <1>2 DEF Next

LEMMA PlaceAlways == Spec => []PlaceInv
BY PlaceInitially, PlaceStep, PTL DEF Spec

-----------------------------------------------------------------------------
\* No request calls a model that its key does not allow, whichever candidate of the
\* plan it has reached and however it got there (checkAPIKeyPolicy runs for the first
\* candidate before the plan is walked, and for a fallback when it is reached).
THEOREM OnlyAllowedEver == Spec => []OnlyAllowedModels
<1>1. PlaceInv => OnlyAllowedModels
  BY DEF PlaceInv, OnlyAllowedModels, InFlight, KeyChecked, KeyAllows, Calling
<1> QED
  BY <1>1, PlaceAlways, PTL

\* A request that is about to call a provider whose circuit is open read its snapshot
\* before that circuit was opened: the deadline it holds is another one.
THEOREM ShieldedEver == Spec => []ShieldedOnceOpen
<1>1. PlaceInv => ShieldedOnceOpen
  BY DEF PlaceInv, ShieldedOnceOpen, GateChecked, Calling
<1> QED
  BY <1>1, PlaceAlways, PTL

\* The requests are writers of ProviderHealth: every step of the request path is a
\* step of the circuit breaker or leaves its rows alone, so what ProviderHealth
\* promises of them holds for the gateway.
THEOREM HealthImplemented == Spec => ImplementsHealth
<1>1. Init => Health!Init
  BY DEF Init
<1>2. PlaceInv /\ [Next]_vars => [Health!Next]_(Health!vars)
  BY HealthStep
<1> QED
  BY <1>1, <1>2, PlaceAlways, PTL DEF Spec, ImplementsHealth, Health!Spec

-----------------------------------------------------------------------------
(***************************************************************************)
(* The walk: how far the handler of a request is with its attempts, and    *)
(* what the ledger shows of those behind it.                               *)
(***************************************************************************)
Walking == {"gate", "select", "call"}

\* The attempts at the candidate in turn, and in all.
Counts(r) ==
  LET q == req[r]
  IN  /\ pc[r] = "idle" => q.idx = 0 /\ q.seq = 0 /\ q.passed = {}
      /\ pc[r] \in {"idle", "gate", "select"} => q.attempt = 0
      /\ pc[r] = "call" => q.attempt < q.plan.attempts
      /\ InFlight(r) => q.attempt >= 1
      /\ q.attempt <= q.plan.attempts /\ q.attempt <= q.seq
      /\ q.mode = "stream" /\ pc[r] # "idle" => q.plan.attempts = 1 /\ q.seq <= 1
      /\ q.mode = "stream" /\ pc[r] \in Walking => q.seq = 0
      /\ \A i, j \in DOMAIN q.plan.candidates :
           q.plan.candidates[i] = q.plan.candidates[j] => i = j

\* The reply that is not in the ledger yet.
Replied(r) ==
  /\ pc[r] \in {"idle", "done"} \cup Walking => req[r].reply = NoReply
  /\ pc[r] \in {"outcome", "commit", "usage"} => req[r].reply.status \in Statuses
  /\ pc[r] = "commit" => StatusIsFailure(req[r].reply.status)

\* Rows of the same request, an earlier and a later one.
InOrder(r) ==
  \A i, j \in RowsOf(r) : i < j =>
    /\ ledger[i].seq < ledger[j].seq
    /\ StatusIsFailure(ledger[i].status)
    /\ \/ ledger[i].model = ledger[j].model /\ StatusAllowsRetry(ledger[i].status)
       \/ Position(r, ledger[i].model) < Position(r, ledger[j].model)

\* The attempts at a model have numbers that follow each other.
Tries(r) ==
  \A m \in Models : \E base \in Nat : \A i \in RowsOf(r) :
    ledger[i].model = m => ledger[i].seq \in (base + 1)..(base + req[r].plan.attempts)

Complete(r) ==
  /\ \A i \in RowsOf(r) : ledger[i].seq \in 1..Past(r)
  /\ ~StoreFaults /\ pc[r] # "gone" =>
       \A n \in 1..Past(r) : \E i \in RowsOf(r) : ledger[i].seq = n

\* While the plan is walked every attempt in the ledger has failed.  It was made at the
\* candidate in turn or one before, and those at the candidate in turn allow a retry.
AtCandidate(r) ==
  pc[r] \in Active => \A i \in RowsOf(r) :
    /\ StatusIsFailure(ledger[i].status)
    /\ \E k \in 1..req[r].idx : ledger[i].model = req[r].plan.candidates[k]
    /\ ledger[i].model = Candidate(r) =>
         /\ ledger[i].seq > req[r].seq - req[r].attempt
         /\ StatusAllowsRetry(ledger[i].status)

\* The answer of a request agrees with its rows.
Served(r) ==
  ~StoreFaults /\ pc[r] = "done" =>
    \/ /\ req[r].answer >= 400
       /\ \A i \in RowsOf(r) : StatusIsFailure(ledger[i].status)
    \/ \E i \in RowsOf(r) : /\ ledger[i].status = req[r].answer
                            /\ \A j \in RowsOf(r) : j <= i

RowInv(r) == InOrder(r) /\ Tries(r) /\ Complete(r) /\ AtCandidate(r) /\ Served(r)

WalkInv ==
  /\ ledger \in Seq(LedgerRows)
  /\ \A r \in Requests : Counts(r) /\ Replied(r) /\ RowInv(r)

-----------------------------------------------------------------------------
\* What the steps of a handler do to its counts and to the ledger.

LedgerStands == UNCHANGED <<ledger, minuteStart, monthStart>>

Comes(r) ==
  /\ LedgerStands
  /\ pc[r] = "idle" /\ pc'[r] = "gate" /\ req'[r] \in Locals
  /\ req'[r].idx = 1 /\ req'[r].attempt = req[r].attempt /\ req'[r].seq = req[r].seq
  /\ req'[r].passed = req[r].passed /\ req'[r].reply = req[r].reply
  /\ req'[r].mode = "stream" => req'[r].plan.attempts = 1
  /\ \E plan \in Plans : /\ req'[r].plan.candidates = plan.candidates
                         /\ req'[r].plan.attempts <= plan.attempts

Refused(r) ==
  /\ LedgerStands
  /\ pc[r] \in {"gate", "select"}
  /\ \/ \E status \in {402, 403, 429, 500, 503} : Ends(r) /\ Answered(r, status)
     \/ Advances(r) /\ NextTurn(r)

Passes(r, l) ==
  /\ LedgerStands
  /\ pc[r] = "gate" /\ GoesOn(r, "gate")
  /\ l \in InTurn(r) /\ ~Exceeded(l)
  /\ req'[r].attempt = req[r].attempt /\ req'[r].seq = req[r].seq
  /\ req'[r].passed = req[r].passed \cup {l} /\ req'[r].reply = req[r].reply

Admitted(r) ==
  /\ pc[r] = "gate" /\ Pending(r) = {}
  /\ pc'[r] = IF req[r].idx = 1 THEN "select" ELSE "call"

Selected(r) ==
  /\ pc[r] = "select"
  /\ pc'[r] = IF req[r].idx = 1 THEN "call" ELSE "gate"

Reports(r) ==
  \/ pc[r] \in {"outcome", "commit"} /\ pc'[r] = "usage"
  \/ /\ pc[r] = "outcome" /\ pc'[r] = "commit"
     /\ StatusIsFailure(req[r].reply.status)

Steps(r) ==
  /\ LedgerStands
  /\ req'[r] = req[r] /\ Others(r)
  /\ \/ Admitted(r) \/ Selected(r) \/ Reports(r)
     \/ pc[r] \in Active /\ pc'[r] = "gone"

Dispatches(r) ==
  /\ LedgerStands
  /\ pc[r] = "call" /\ GoesOn(r, "upstream")
  /\ req'[r].attempt = req[r].attempt + 1 /\ req'[r].seq = req[r].seq + 1
  /\ req'[r].passed = req[r].passed /\ req'[r].reply = req[r].reply

Hears(r) ==
  /\ LedgerStands
  /\ pc[r] = "upstream" /\ GoesOn(r, "outcome") /\ SameTurn(r)
  /\ req'[r].reply.status \in Statuses

GoesOnAfter(r, status) ==
  /\ status \in FinalStatuses(r)
  /\ Stops(r, status) \/ TriesAgain(r, status) \/ GivesUp(r, status)

Records(r) ==
  /\ UNCHANGED <<minuteStart, monthStart>>
  /\ pc[r] = "usage"
  /\ \E status \in Codes, tokens \in 0..MaxTokens :
       Insert(Entry(r, status, tokens)) /\ GoesOnAfter(r, status)

Loses(r) ==
  /\ StoreFaults /\ LedgerStands
  /\ pc[r] = "usage"
  /\ \E status \in Codes : GoesOnAfter(r, status)

\* What recordUsage and what follows it do, whether the row is written or lost.
LEMMA UsageMoves ==
  ASSUME PlaceInv, NEW r \in Requests
  PROVE  /\ RecordUsage(r) => Others(r) /\ Records(r)
         /\ UsageFault(r) => Others(r) /\ Loses(r)
<1> USE DEF PlaceInv
<1>1. ASSUME NEW status \in FinalStatuses(r), AfterAttempt(r, status)
      PROVE  status \in Codes /\ GoesOnAfter(r, status) /\ Others(r)
  BY <1>1, StatusTypes, AfterAttemptMoves
     DEF GoesOnAfter, Stops, TriesAgain, GivesUp, Ends, Advances, GoesOn
<1>2. RecordUsage(r) => Others(r) /\ Records(r)
  BY <1>1 DEF RecordUsage, Records
<1>3. UsageFault(r) => Others(r) /\ Loses(r)
  BY <1>1 DEF UsageFault, Loses, LedgerStands
<1> QED
  BY <1>2, <1>3

\* Every step of a handler is of one of these kinds, and moves that handler alone.
LEMMA StepKinds ==
  ASSUME PlaceInv, PlaceInv', NEW r \in Requests, Arrive(r) \/ Handle(r) \/ Disconnect(r)
  PROVE  /\ Others(r)
         /\ \/ Comes(r) \/ Refused(r) \/ (\E l \in Limits : Passes(r, l)) \/ Steps(r)
            \/ Dispatches(r) \/ Hears(r) \/ Records(r) \/ Loses(r)
<1> USE DEF PlaceInv
<1> DEFINE Kinds == /\ Others(r)
                    /\ \/ Comes(r) \/ Refused(r) \/ (\E l \in Limits : Passes(r, l))
                       \/ Steps(r) \/ Dispatches(r) \/ Hears(r) \/ Records(r) \/ Loses(r)
<1>0. req[r] \in Locals /\ req'[r] \in Locals
  BY DEF Types
<1>1. CASE Arrive(r)
  <2>1. PICK plan \in Plans, mode \in Modes :
          req' = [req EXCEPT ![r] = [@ EXCEPT
                    !.plan = [plan EXCEPT !.attempts =
                                               IF mode = "stream" THEN 1 ELSE plan.attempts],
                    !.mode = mode,
                    !.circuits = [i \in DOMAIN plan.candidates |->
                                       row[ProviderOf[plan.candidates[i]]].circuit],
                    !.idx = 1]]
    BY <1>1 DEF Arrive
  <2> DEFINE tries    == IF mode = "stream" THEN 1 ELSE plan.attempts
             fixed    == [plan EXCEPT !.attempts = tries]
             snapshot == [i \in DOMAIN plan.candidates |->
                            row[ProviderOf[plan.candidates[i]]].circuit]
             q        == [req[r] EXCEPT !.plan = fixed, !.mode = mode, !.circuits = snapshot,
                                        !.idx = 1]
  <2>2. /\ plan = [candidates |-> plan.candidates, attempts |-> plan.attempts,
                   health |-> plan.health]
        /\ plan.attempts \in 1..6
    BY PlansAssumption
  <2>3. /\ fixed.candidates = plan.candidates /\ fixed.attempts = tries
        /\ tries \in Nat /\ tries <= plan.attempts
    BY <2>2
  <2> HIDE DEF fixed, snapshot
  <2>4. /\ q.plan = fixed /\ q.idx = 1 /\ q.mode = mode /\ q.attempt = req[r].attempt
        /\ q.seq = req[r].seq /\ q.passed = req[r].passed /\ q.reply = req[r].reply
    BY <1>0 DEF Locals
  <2>5. req' = [req EXCEPT ![r] = q]
    BY <2>1 DEF fixed, snapshot
  <2> HIDE DEF q
  <2>6. req'[r] = q /\ \A s \in Requests : s # r => req'[s] = req[s]
    BY <2>5, SMTT(30) DEF Types
  <2>7. pc[r] = "idle" /\ pc'[r] = "gate" /\ \A s \in Requests : s # r => pc'[s] = pc[s]
    BY <1>1, ZenonT(60) DEF Arrive, Goto, Types
  <2>8. LedgerStands
    BY <1>1 DEF Arrive, ledgerVars, LedgerStands
  <2> QED
    BY <1>0, <2>3, <2>4, <2>6, <2>7, <2>8, SMTT(30) DEF Others, Comes, tries
<1>2. ASSUME NEW status \in {402, 403, 429, 500}, RefuseWith(r, status), pc[r] = "gate",
             LedgerStands
      PROVE  Kinds
  <2>1. status \in Codes
    BY DEF Codes
  <2> QED
    BY <1>2, <2>1, RefuseMoves DEF Refused, LastStatus, Ends, Advances
<1>3. CASE RefuseModel(r)
  BY <1>2, <1>3 DEF RefuseModel, ledgerVars, LedgerStands
<1>4. CASE GateFault(r)
  BY <1>2, <1>4 DEF GateFault, ledgerVars, LedgerStands
<1>5. CASE CheckLimit(r)
  <2>1. PICK l \in InTurn(r) :
          IF Exceeded(l) THEN RefuseWith(r, IF l.kind = "usd" THEN 402 ELSE 429)
          ELSE req' = [req EXCEPT ![r].passed = @ \cup {l}] /\ UNCHANGED pc
    BY <1>5 DEF CheckLimit
  <2>2. l \in Limits
    BY DEF InTurn, Pending
  <2>3. CASE Exceeded(l)
    BY <1>2, <1>5, <2>1, <2>3 DEF CheckLimit, ledgerVars, LedgerStands
  <2>4. CASE ~Exceeded(l)
    <3> DEFINE passed == req[r].passed \cup {l}
               q      == [req[r] EXCEPT !.passed = passed]
    <3>1. req' = [req EXCEPT ![r] = q] /\ pc' = pc /\ pc[r] = "gate" /\ LedgerStands
      BY <1>5, <2>1, <2>4 DEF CheckLimit, ledgerVars, LedgerStands
    <3> HIDE DEF passed
    <3>2. /\ q.plan = req[r].plan /\ q.circuits = req[r].circuits /\ q.mode = req[r].mode
          /\ q.idx = req[r].idx /\ q.attempt = req[r].attempt /\ q.seq = req[r].seq
          /\ q.passed = passed /\ q.reply = req[r].reply
      BY <1>0 DEF Locals
    <3> HIDE DEF q
    <3>3. req'[r] = q /\ \A s \in Requests : s # r => req'[s] = req[s]
      BY <3>1 DEF Types
    <3> QED
      BY <1>0, <2>2, <2>4, <3>1, <3>2, <3>3 DEF Passes, GoesOn, SamePlan, Others, passed
  <2> QED
    BY <2>3, <2>4
<1>6. CASE SkipOpenCircuit(r)
  BY <1>6, StatusTypes, NextCandidateMoves
     DEF SkipOpenCircuit, Refused, LastStatus, Ends, Advances, ledgerVars, LedgerStands
<1>7. ASSUME NEW to \in Labels, Goto(r, to), UNCHANGED req
      PROVE  Others(r) /\ req'[r] = req[r] /\ pc'[r] = to
  BY <1>7, GotoMoves DEF Others
<1>8. CASE Admit(r)
  BY <1>7, <1>8 DEF Admit, Steps, Admitted, Labels, ledgerVars, LedgerStands
<1>9. CASE SelectCandidate(r)
  BY <1>7, <1>9 DEF SelectCandidate, Steps, Selected, Labels, ledgerVars, LedgerStands
<1>10. CASE ReportSuccess(r) \/ ReportFailure(r) \/ CommitOutcome(r) \/ OutcomeFault(r)
  BY <1>7, <1>10 DEF ReportSuccess, ReportFailure, CommitOutcome, OutcomeFault, Steps, Reports,
                     Labels, ledgerVars, LedgerStands
<1>11. CASE Disconnect(r)
  BY <1>7, <1>11 DEF Disconnect, Steps, Labels, LedgerStands
<1>12. CASE Dispatch(r)
  <2> DEFINE q == [req[r] EXCEPT !.attempt = req[r].attempt + 1, !.seq = req[r].seq + 1]
  <2>1. /\ q.plan = req[r].plan /\ q.circuits = req[r].circuits /\ q.mode = req[r].mode
        /\ q.idx = req[r].idx /\ q.attempt = req[r].attempt + 1 /\ q.seq = req[r].seq + 1
        /\ q.passed = req[r].passed /\ q.reply = req[r].reply
    BY <1>0 DEF Locals
  <2>2. req' = [req EXCEPT ![r] = q] /\ Goto(r, "upstream") /\ pc[r] = "call"
        /\ LedgerStands
    BY <1>12 DEF Dispatch, ledgerVars, LedgerStands
  <2> HIDE DEF q
  <2>3. req'[r] = q /\ \A s \in Requests : s # r => req'[s] = req[s]
    BY <2>2 DEF Types
  <2>4. pc'[r] = "upstream" /\ \A s \in Requests : s # r => pc'[s] = pc[s]
    BY <2>2, GotoMoves DEF Labels
  <2> QED
    BY <1>0, <2>1, <2>2, <2>3, <2>4 DEF Dispatches, GoesOn, SamePlan, Others
<1>13. CASE Reply(r)
  <2>1. PICK status \in Statuses, broken \in {FALSE, BrokenBodies} :
          req' = [req EXCEPT ![r].reply = [status |-> status, broken |-> broken]]
    BY <1>13 DEF Reply
  <2> DEFINE reply == [status |-> status, broken |-> broken]
             q     == [req[r] EXCEPT !.reply = reply]
  <2>2. reply.status = status
    OBVIOUS
  <2> HIDE DEF reply
  <2>3. /\ q.plan = req[r].plan /\ q.circuits = req[r].circuits /\ q.mode = req[r].mode
        /\ q.idx = req[r].idx /\ q.attempt = req[r].attempt /\ q.seq = req[r].seq
        /\ q.passed = req[r].passed /\ q.reply = reply
    BY <1>0 DEF Locals
  <2>4. req' = [req EXCEPT ![r] = q] /\ Goto(r, "outcome") /\ pc[r] = "upstream"
        /\ LedgerStands
    BY <1>13, <2>1 DEF Reply, reply, ledgerVars, LedgerStands
  <2> HIDE DEF q
  <2>5. req'[r] = q /\ \A s \in Requests : s # r => req'[s] = req[s]
    BY <2>4 DEF Types
  <2>6. pc'[r] = "outcome" /\ \A s \in Requests : s # r => pc'[s] = pc[s]
    BY <2>4, GotoMoves DEF Labels
  <2> QED
    BY <1>0, <2>2, <2>3, <2>4, <2>5, <2>6 DEF Hears, GoesOn, SamePlan, Others, SameTurn
<1>14. CASE RecordUsage(r) \/ UsageFault(r)
  BY <1>14, UsageMoves
<1> QED
  BY <1>1, <1>3, <1>4, <1>5, <1>6, <1>8, <1>9, <1>10, <1>11, <1>12, <1>13, <1>14
     DEF Handle

Moves(r) ==
  /\ Others(r)
  /\ \/ Comes(r) \/ Refused(r) \/ (\E l \in Limits : Passes(r, l)) \/ Steps(r)
     \/ Dispatches(r) \/ Hears(r) \/ Records(r) \/ Loses(r)

\* The fields of a handler, typed.
LEMMA CountTypes ==
  ASSUME Types, NEW r \in Requests
  PROVE  /\ req[r].attempt \in Nat /\ req[r].seq \in Nat /\ req[r].idx \in Nat
         /\ req[r].plan.attempts \in 1..6 /\ req[r].plan.candidates \in Seq(Models)
         /\ req[r].mode \in {"plan", "stream"} /\ req[r].reply.status \in Codes
         /\ pc[r] \in Labels /\ req[r].passed \subseteq Limits
BY DEF Types, Locals, PlanSet

\* What follows an attempt keeps the counts.
LEMMA AfterCounts ==
  ASSUME Types, Types', NEW r \in Requests, Counts(r), pc[r] = "usage", NEW status,
         GoesOnAfter(r, status)
  PROVE  Counts(r)' /\ Replied(r)'
<1> USE CountTypes DEF Counts, InFlight, Walking
<1>1. CASE Stops(r, status)
  BY <1>1 DEF Stops, Ends, SamePlan, Answered, SameTurn, Replied
<1>2. CASE TriesAgain(r, status)
  BY <1>2 DEF TriesAgain, GoesOn, SamePlan, Retries, SameTurn, Replied
<1>3. CASE GivesUp(r, status) /\ Ends(r) /\ Answered(r, status)
  BY <1>3 DEF Ends, SamePlan, Answered, SameTurn, Replied
<1>4. CASE GivesUp(r, status) /\ Advances(r) /\ NextTurn(r)
  <2>1. /\ pc'[r] = "select" /\ req'[r].plan = req[r].plan /\ req'[r].mode = req[r].mode
        /\ req'[r].attempt = 0 /\ req'[r].seq = req[r].seq
        /\ req'[r].passed = {} /\ req'[r].reply = NoReply
    BY <1>4 DEF Advances, SamePlan, NextTurn
  <2>2. req[r].mode # "stream"
    BY <1>4 DEF GivesUp
  <2>3. Counts(r)'
    BY <2>1, <2>2
  <2>4. Replied(r)'
    BY <2>1 DEF Replied
  <2> QED
    BY <2>3, <2>4
<1>5. GivesUp(r, status) => (Ends(r) /\ Answered(r, status)) \/ (Advances(r) /\ NextTurn(r))
  BY DEF GivesUp
<1>6. Stops(r, status) \/ TriesAgain(r, status) \/ GivesUp(r, status)
  BY DEF GoesOnAfter
<1> HIDE DEF Counts, InFlight, Walking
<1> QED
  BY <1>1, <1>2, <1>3, <1>4, <1>5, <1>6, Zenon

LEMMA CountsKept ==
  ASSUME PlaceInv, PlaceInv', NEW r \in Requests, Counts(r), Replied(r), Moves(r)
  PROVE  Counts(r)' /\ Replied(r)'
<1>0. Types /\ Types'
  BY DEF PlaceInv
<1> USE <1>0, CountTypes DEF Counts, Replied, InFlight, Walking
<1>1. CASE Comes(r)
  <2>1. PICK plan \in Plans : /\ req'[r].plan.candidates = plan.candidates
                              /\ req'[r].plan.attempts <= plan.attempts
    BY <1>1 DEF Comes
  <2>2. \A i, j \in DOMAIN plan.candidates : plan.candidates[i] = plan.candidates[j] => i = j
    BY PlansAssumption
  <2>3. req'[r].seq = 0 /\ req'[r].attempt = 0 /\ req'[r].passed = {} /\ req'[r].reply = NoReply
    BY <1>1 DEF Comes
  <2>4. /\ pc'[r] = "gate" /\ req'[r].plan.attempts \in 1..6
        /\ req'[r].mode = "stream" => req'[r].plan.attempts = 1
    BY <1>1 DEF Comes, Locals, PlanSet
  <2> QED
    BY <2>1, <2>2, <2>3, <2>4
<1>2. CASE Refused(r)
  <2>1. ASSUME NEW status, Ends(r), Answered(r, status)
        PROVE  Counts(r)' /\ Replied(r)'
    BY <1>2, <2>1 DEF Refused, Ends, SamePlan, Answered, SameTurn
  <2>2. CASE Advances(r) /\ NextTurn(r)
    BY <1>2, <2>2 DEF Refused, Advances, SamePlan, NextTurn
  <2> QED
    BY <1>2, <2>1, <2>2 DEF Refused
<1>3. CASE \E l \in Limits : Passes(r, l)
  BY <1>3 DEF Passes, GoesOn, SamePlan
<1>4. CASE Steps(r)
  <2>1. CASE Admitted(r) \/ Selected(r)
    BY <1>4, <2>1 DEF Steps, Admitted, Selected
  <2>2. CASE Reports(r)
    BY <1>4, <2>2 DEF Steps, Reports
  <2>3. CASE pc[r] \in Active /\ pc'[r] = "gone"
    BY <1>4, <2>3 DEF Steps, Active
  <2> QED
    BY <1>4, <2>1, <2>2, <2>3 DEF Steps
<1>5. CASE Dispatches(r)
  <2>1. /\ pc[r] = "call" /\ pc'[r] = "upstream" /\ req'[r].plan = req[r].plan
        /\ req'[r].mode = req[r].mode /\ req'[r].idx = req[r].idx /\ req'[r].passed = req[r].passed
        /\ req'[r].seq = req[r].seq + 1 /\ req'[r].attempt = req[r].attempt + 1
        /\ req'[r].reply = req[r].reply
    BY <1>5 DEF Dispatches, GoesOn, SamePlan
  <2>2. /\ req[r].attempt \in Nat /\ req[r].seq \in Nat /\ req[r].plan.attempts \in Nat
        /\ req[r].attempt < req[r].plan.attempts /\ req[r].attempt <= req[r].seq
        /\ req[r].mode = "stream" => req[r].plan.attempts = 1 /\ req[r].seq = 0
    BY <2>1
  <2>3. /\ req'[r].attempt >= 1 /\ req'[r].attempt <= req'[r].plan.attempts
        /\ req'[r].attempt <= req'[r].seq
        /\ req'[r].mode = "stream" => req'[r].plan.attempts = 1 /\ req'[r].seq <= 1
    BY <2>1, <2>2
  <2>4. \A i, j \in DOMAIN req'[r].plan.candidates :
          req'[r].plan.candidates[i] = req'[r].plan.candidates[j] => i = j
    BY <2>1
  <2> QED
    BY <2>1, <2>3, <2>4
<1>6. CASE Hears(r)
  BY <1>6 DEF Hears, GoesOn, SamePlan, SameTurn
<1>7. CASE Records(r) \/ Loses(r)
  BY <1>7, AfterCounts DEF Records, Loses
<1> QED
  BY <1>1, <1>2, <1>3, <1>4, <1>5, <1>6, <1>7 DEF Moves

-----------------------------------------------------------------------------
\* The rows of a request, when the ledger keeps them.

RowsSame(r) == RowsOf(r)' = RowsOf(r) /\ \A i \in RowsOf(r) : ledger'[i] = ledger[i]

LEMMA LedgerSame == ASSUME ledger' = ledger, NEW r PROVE RowsSame(r)
BY DEF RowsSame, RowsOf

\* The rows of the ledger, typed.
LEMMA RowTypes ==
  ASSUME ledger \in Seq(LedgerRows)
  PROVE  /\ Len(ledger) \in Nat /\ DOMAIN ledger = 1..Len(ledger)
         /\ \A i \in DOMAIN ledger : /\ ledger[i] \in LedgerRows /\ i \in Nat
                                     /\ ledger[i].seq \in Nat /\ ledger[i].status \in Nat
                                     /\ ledger[i].model \in Models
<1>1. Len(ledger) \in Nat /\ DOMAIN ledger = 1..Len(ledger)
  OBVIOUS
<1>2. \A i \in DOMAIN ledger : ledger[i] \in LedgerRows /\ i \in Nat
  OBVIOUS
<1>3. \A e \in LedgerRows : e.seq \in Nat /\ e.status \in Nat /\ e.model \in Models
  <2> TAKE e \in LedgerRows
  <2>1. e.seq \in Nat /\ e.status \in Statuses \cup {422} /\ e.model \in Models
    BY DEF LedgerRows
  <2>2. \A x \in Statuses \cup {422} : x \in Nat
    BY StatusesAssumption
  <2> QED
    BY <2>1, <2>2
<1> QED
  BY <1>1, <1>2, <1>3

\* The order of the rows and the numbers at a model depend on the plan only.
LEMMA OrderKept ==
  ASSUME NEW r \in Requests, InOrder(r), Tries(r), RowsSame(r), req'[r].plan = req[r].plan
  PROVE  InOrder(r)' /\ Tries(r)'
<1>1. \A m : Position(r, m)' = Position(r, m)
  BY DEF Position
<1>2. InOrder(r)'
  BY <1>1 DEF InOrder, RowsSame
<1>3. Tries(r)'
  BY DEF Tries, RowsSame
<1> QED
  BY <1>2, <1>3

\* A step of one handler leaves the rows of the others as they were.
LEMMA OtherRows ==
  ASSUME NEW s \in Requests, RowInv(s), RowsSame(s), pc'[s] = pc[s], req'[s] = req[s]
  PROVE  RowInv(s)'
<1>1. InOrder(s)' /\ Tries(s)'
  BY OrderKept DEF RowInv
<1>2. Complete(s)'
  BY DEF RowInv, Complete, RowsSame, Past, InFlight
<1>3. AtCandidate(s)'
  BY DEF RowInv, AtCandidate, RowsSame, Candidate
<1>4. Served(s)'
  BY DEF RowInv, Served, RowsSame
<1> QED
  BY <1>1, <1>2, <1>3, <1>4 DEF RowInv

\* The next candidate has no rows yet.
LEMMA NewCandidate ==
  ASSUME Types, NEW r \in Requests, InPlan(r), pc[r] # "idle", Counts(r), Advances(r)
  PROVE  /\ req'[r].plan = req[r].plan /\ req'[r].idx = req[r].idx + 1
         /\ \A k \in 1..req[r].idx :
              /\ k \in 1..(req[r].idx + 1)
              /\ req[r].plan.candidates[k] # req[r].plan.candidates[req[r].idx + 1]
<1>1. /\ DOMAIN req[r].plan.candidates = 1..Len(req[r].plan.candidates)
      /\ Len(req[r].plan.candidates) \in Nat /\ req[r].idx \in Nat
      /\ req[r].idx + 1 <= Len(req[r].plan.candidates)
      /\ req'[r].plan = req[r].plan /\ req'[r].idx = req[r].idx + 1
  BY CountTypes DEF Advances, SamePlan
<1>2. \A k \in 1..req[r].idx : /\ k \in DOMAIN req[r].plan.candidates
                              /\ req[r].idx + 1 \in DOMAIN req[r].plan.candidates
                              /\ k # req[r].idx + 1 /\ k \in 1..(req[r].idx + 1)
  BY <1>1
<1> QED
  BY <1>1, <1>2 DEF Counts

\* A step that writes no row keeps what is known of the rows.
LEMMA RowsWalked ==
  ASSUME PlaceInv, PlaceInv', ledger \in Seq(LedgerRows), NEW r \in Requests,
         Counts(r), Replied(r), RowInv(r), Counts(r)',
         \/ Comes(r) \/ Refused(r) \/ (\E l \in Limits : Passes(r, l)) \/ Steps(r)
         \/ Dispatches(r) \/ Hears(r)
  PROVE  RowInv(r)'
<1>0. /\ ledger' = ledger /\ RowsSame(r)
      /\ req[r].attempt \in Nat /\ req[r].seq \in Nat /\ req[r].idx \in Nat
      /\ \A i \in RowsOf(r) : i \in Nat /\ ledger[i].seq \in Nat /\ ledger[i].status \in Nat
  BY LedgerSame, RowTypes, CountTypes
     DEF Comes, Refused, Passes, Steps, Dispatches, Hears, LedgerStands, PlaceInv, RowsOf
<1>00. Types /\ InPlan(r)
  BY DEF PlaceInv
<1>1. CASE Comes(r)
  <2>1. RowsOf(r) = {} /\ Past(r)' = 0
    BY <1>0, <1>1 DEF Comes, RowInv, Complete, Past, InFlight, Counts
  <2>2. RowsOf(r)' = {}
    BY <1>0, <2>1 DEF RowsSame
  <2> QED
    BY <1>0, <1>1, <2>1, <2>2
       DEF RowInv, InOrder, Tries, Complete, AtCandidate, Served, Comes
<1>2. ASSUME req'[r].plan = req[r].plan, Past(r)' = Past(r), pc[r] # "gone", pc'[r] # "idle"
      PROVE  InOrder(r)' /\ Tries(r)' /\ Complete(r)'
  <2>1. InOrder(r)' /\ Tries(r)'
    BY <1>0, <1>2, OrderKept DEF RowInv
  <2>2. Complete(r)'
    BY <1>0, <1>2 DEF RowInv, Complete, RowsSame
  <2> QED
    BY <2>1, <2>2
<1>3. CASE Refused(r)
  <2>1. ASSUME NEW status \in {402, 403, 429, 500, 503}, Ends(r), Answered(r, status)
        PROVE  RowInv(r)'
    <3>1. InOrder(r)' /\ Tries(r)' /\ Complete(r)'
      BY <1>2, <1>3, <2>1 DEF Refused, Ends, SamePlan, Answered, SameTurn, Past, InFlight
    <3>2. AtCandidate(r)' /\ Served(r)'
      BY <1>0, <1>3, <2>1
         DEF Refused, Answered, RowInv, AtCandidate, Served, RowsSame, Active
    <3> QED
      BY <3>1, <3>2 DEF RowInv
  <2>2. CASE Advances(r) /\ NextTurn(r)
    <3>1. InOrder(r)' /\ Tries(r)' /\ Complete(r)'
      BY <1>2, <1>3, <2>2 DEF Refused, Advances, SamePlan, NextTurn, Past, InFlight
    <3>2. pc[r] \in Active /\ pc'[r] = "select"
      BY <1>3, <2>2 DEF Refused, Active, Advances
    <3>3. /\ req'[r].plan = req[r].plan /\ req'[r].idx = req[r].idx + 1
          /\ \A k \in 1..req[r].idx :
               /\ k \in 1..(req[r].idx + 1)
               /\ req[r].plan.candidates[k] # req[r].plan.candidates[req[r].idx + 1]
      BY <1>00, <1>3, <2>2, NewCandidate DEF Refused
    <3>4. AtCandidate(r)'
      <4> SUFFICES ASSUME NEW i \in RowsOf(r)
                   PROVE  /\ StatusIsFailure(ledger[i].status)
                          /\ \E k \in 1..req'[r].idx :
                               ledger[i].model = req'[r].plan.candidates[k]
                          /\ ledger[i].model # Candidate(r)'
        BY <1>0 DEF AtCandidate, RowsSame
      <4>1. StatusIsFailure(ledger[i].status)
        BY <3>2 DEF RowInv, AtCandidate
      <4>2. PICK k \in 1..req[r].idx : ledger[i].model = req[r].plan.candidates[k]
        BY <3>2 DEF RowInv, AtCandidate
      <4> QED
        BY <3>3, <4>1, <4>2 DEF Candidate
    <3>5. Served(r)'
      BY <3>2 DEF Served
    <3> QED
      BY <3>1, <3>4, <3>5 DEF RowInv
  <2> QED
    BY <1>3, <2>1, <2>2 DEF Refused
<1>4. CASE \E l \in Limits : Passes(r, l)
  <2>1. InOrder(r)' /\ Tries(r)' /\ Complete(r)'
    BY <1>2, <1>4 DEF Passes, GoesOn, SamePlan, Past, InFlight
  <2>2. AtCandidate(r)' /\ Served(r)'
    BY <1>0, <1>4
       DEF Passes, GoesOn, SamePlan, RowInv, AtCandidate, Served, RowsSame, Active, Candidate
  <2> QED
    BY <2>1, <2>2 DEF RowInv
<1>5. CASE Steps(r)
  <2>1. InOrder(r)' /\ Tries(r)'
    BY <1>0, <1>5, OrderKept DEF Steps, RowInv
  <2>2. Complete(r)'
    <3>1. pc[r] # "gone" /\ pc[r] # "idle" /\ Past(r) \in Nat /\ Past(r)' \in Nat
          /\ Past(r)' >= Past(r)
      BY <1>0, <1>5 DEF Steps, Admitted, Selected, Reports, Past, InFlight, Active, Counts
    <3>2. pc'[r] # "gone" => Past(r)' = Past(r)
      BY <1>0, <1>5 DEF Steps, Admitted, Selected, Reports, Past, InFlight, Active, Counts
    <3> HIDE DEF Past
    <3> QED
      BY <1>0, <3>1, <3>2 DEF RowInv, Complete, RowsSame
  <2>3. req'[r] = req[r] /\ pc[r] \in Active /\ pc'[r] # "done"
    BY <1>5 DEF Steps, Admitted, Selected, Reports, Active
  <2>4. AtCandidate(r)' /\ Served(r)'
    BY <1>0, <2>3 DEF RowInv, AtCandidate, Served, RowsSame, Candidate
  <2> QED
    BY <2>1, <2>2, <2>4 DEF RowInv
<1>6. CASE Dispatches(r)
  <2>1. InOrder(r)' /\ Tries(r)' /\ Complete(r)'
    BY <1>0, <1>2, <1>6 DEF Dispatches, GoesOn, SamePlan, Past, InFlight
  <2>2. /\ pc[r] = "call" /\ pc'[r] = "upstream" /\ SamePlan(r) /\ req'[r].idx = req[r].idx
        /\ req'[r].seq = req[r].seq + 1 /\ req'[r].attempt = req[r].attempt + 1
    BY <1>6 DEF Dispatches, GoesOn, SamePlan
  <2>3. req[r].seq \in Int /\ req[r].attempt \in Int
    BY <1>0
  <2>4. req'[r].seq - req'[r].attempt = req[r].seq - req[r].attempt
    BY <2>2, <2>3
  <2>5. AtCandidate(r)'
    <3>1. AtCandidate(r) /\ pc[r] \in Active
      BY <1>0, <2>2 DEF RowInv, Active
    <3>2. Candidate(r)' = Candidate(r) /\ req'[r].plan = req[r].plan
      BY <2>2 DEF SamePlan, Candidate
    <3>3. ASSUME NEW i \in RowsOf(r)'
          PROVE  /\ StatusIsFailure(ledger'[i].status)
                 /\ \E k \in 1..req'[r].idx : ledger'[i].model = req'[r].plan.candidates[k]
                 /\ ledger'[i].model = Candidate(r)' =>
                      /\ ledger'[i].seq > req'[r].seq - req'[r].attempt
                      /\ StatusAllowsRetry(ledger'[i].status)
      <4>1. i \in RowsOf(r) /\ ledger'[i] = ledger[i]
        BY <1>0 DEF RowsSame
      <4>2. /\ StatusIsFailure(ledger[i].status)
            /\ \E k \in 1..req[r].idx : ledger[i].model = req[r].plan.candidates[k]
            /\ ledger[i].model = Candidate(r) =>
                 /\ ledger[i].seq > req[r].seq - req[r].attempt
                 /\ StatusAllowsRetry(ledger[i].status)
        BY <3>1, <4>1 DEF AtCandidate
      <4> QED
        BY <2>2, <2>4, <3>2, <4>1, <4>2
    <3> QED
      BY <3>3 DEF AtCandidate
  <2>6. Served(r)'
    BY <2>2 DEF Served
  <2> QED
    BY <2>1, <2>5, <2>6 DEF RowInv
<1>7. CASE Hears(r)
  <2>1. InOrder(r)' /\ Tries(r)' /\ Complete(r)'
    BY <1>2, <1>7 DEF Hears, GoesOn, SamePlan, SameTurn, Past, InFlight
  <2>2. AtCandidate(r)' /\ Served(r)'
    BY <1>0, <1>7
       DEF Hears, GoesOn, SamePlan, SameTurn, RowInv, AtCandidate, Served, RowsSame, Active,
           Candidate
  <2> QED
    BY <2>1, <2>2 DEF RowInv
<1> QED
  BY <1>1, <1>3, <1>4, <1>5, <1>6, <1>7

-----------------------------------------------------------------------------
\* The row of an attempt is written, and then the handler goes on.

\* The row of an attempt, typed.
LEMMA EntryType ==
  ASSUME Types, NEW r \in Requests, InPlan(r), pc[r] = "usage", Replied(r),
         NEW status \in FinalStatuses(r), NEW tokens \in 0..MaxTokens
  PROVE  /\ Entry(r, status, tokens) \in LedgerRows
         /\ Entry(r, status, tokens).request = r
         /\ Entry(r, status, tokens).seq = req[r].seq
         /\ Entry(r, status, tokens).status = status
         /\ Entry(r, status, tokens).model = Candidate(r)
         /\ Entry(r, status, tokens).provider = ProviderIn(r)
<1>1. Candidate(r) \in Models /\ ProviderOf[Candidate(r)] \in Providers
  BY CandidateInPlan DEF ProviderIn
<1>2. req[r].seq \in Nat
  BY CountTypes
<1>3. status \in Statuses \cup {422}
  BY DEF FinalStatuses, Replied
<1>4. tokens \in Nat
  BY MaxTokensAssumption
<1>5. Price[Candidate(r)] \in Nat
  BY <1>1, PriceAssumption
<1>6. \A a, b \in Nat : a * b \in Nat
  OBVIOUS
<1>7. Price[Candidate(r)] * tokens \in Nat
  BY <1>4, <1>5, <1>6
<1>8. /\ Owner[r].user \in OwnerValues("user") /\ Owner[r].key \in OwnerValues("key")
      /\ Owner[r].department \in OwnerValues("department")
  BY DEF OwnerValues
<1> DEFINE cost == Price[Candidate(r)] * tokens
<1> HIDE DEF cost
<1>9. Entry(r, status, tokens) =
        [request |-> r, seq |-> req[r].seq, status |-> status, tokens |-> tokens,
         cost |-> cost, model |-> Candidate(r), provider |-> ProviderOf[Candidate(r)],
         user |-> Owner[r].user, department |-> Owner[r].department, key |-> Owner[r].key]
  BY DEF Entry, cost
<1>10. cost \in Nat
  BY <1>7 DEF cost
<1>11. Entry(r, status, tokens) \in LedgerRows
  BY <1>1, <1>2, <1>3, <1>8, <1>9, <1>10 DEF LedgerRows
<1> QED
  BY <1>9, <1>11 DEF ProviderIn

\* No row has the number of the attempt in flight, so its row is not dropped.
LEMMA InsertAppends ==
  ASSUME PlaceInv, WalkInv, NEW r \in Requests, pc[r] = "usage",
         NEW status \in FinalStatuses(r), NEW tokens \in 0..MaxTokens,
         Insert(Entry(r, status, tokens))
  PROVE  ledger' = Append(ledger, Entry(r, status, tokens))
<1>1. /\ Entry(r, status, tokens).request = r
      /\ Entry(r, status, tokens).seq = req[r].seq
  BY EntryType DEF PlaceInv, WalkInv
<1>2. \A i \in RowsOf(r) : ledger[i].seq \in 1..(req[r].seq - 1)
  BY DEF WalkInv, RowInv, Complete, Past, InFlight
<1>3. req[r].seq \in Nat
  BY CountTypes DEF PlaceInv
<1>4. ~\E i \in DOMAIN ledger : ledger[i].request = r /\ ledger[i].seq = req[r].seq
  BY <1>2, <1>3 DEF RowsOf
<1> QED
  BY <1>1, <1>4 DEF Insert

\* The ledger before and after a row is appended.
LEMMA Appended ==
  ASSUME ledger \in Seq(LedgerRows), NEW e \in LedgerRows, ledger' = Append(ledger, e)
  PROVE  /\ ledger' \in Seq(LedgerRows)
         /\ Len(ledger) \in Nat /\ Len(ledger') = Len(ledger) + 1
         /\ DOMAIN ledger' = 1..(Len(ledger) + 1) /\ DOMAIN ledger = 1..Len(ledger)
         /\ \A i \in DOMAIN ledger : ledger'[i] = ledger[i]
         /\ ledger'[Len(ledger) + 1] = e
         /\ RowsOf(e.request)' = RowsOf(e.request) \cup {Len(ledger) + 1}
         /\ \A s : s # e.request => RowsSame(s)
<1>1. /\ ledger' \in Seq(LedgerRows)
      /\ Len(ledger) \in Nat /\ Len(ledger') = Len(ledger) + 1
      /\ DOMAIN ledger' = 1..(Len(ledger) + 1) /\ DOMAIN ledger = 1..Len(ledger)
      /\ \A i \in DOMAIN ledger : ledger'[i] = ledger[i]
      /\ ledger'[Len(ledger) + 1] = e
  OBVIOUS
<1>2. /\ DOMAIN ledger' = DOMAIN ledger \cup {Len(ledger) + 1}
      /\ Len(ledger) + 1 \notin DOMAIN ledger
  BY <1>1
<1> QED
  BY <1>1, <1>2 DEF RowsSame, RowsOf

\* What the ledger shows of a request between its attempt and what follows it.
Written(r, status) ==
  /\ \A i, j \in RowsOf(r)' : i < j =>
       /\ ledger'[i].seq < ledger'[j].seq
       /\ StatusIsFailure(ledger'[i].status)
       /\ \/ ledger'[i].model = ledger'[j].model /\ StatusAllowsRetry(ledger'[i].status)
          \/ Position(r, ledger'[i].model) < Position(r, ledger'[j].model)
  /\ \A m \in Models : \E base \in Nat : \A i \in RowsOf(r)' :
       ledger'[i].model = m => ledger'[i].seq \in (base + 1)..(base + req[r].plan.attempts)
  /\ \A i \in RowsOf(r)' : ledger'[i].seq \in 1..req[r].seq
  /\ ~StoreFaults => \A n \in 1..req[r].seq : \E i \in RowsOf(r)' : ledger'[i].seq = n
  /\ \A i \in RowsOf(r)' :
       /\ StatusIsFailure(status) => StatusIsFailure(ledger'[i].status)
       /\ \E k \in 1..req[r].idx : ledger'[i].model = req[r].plan.candidates[k]
       /\ ledger'[i].model = Candidate(r) =>
            /\ ledger'[i].seq > req[r].seq - req[r].attempt
            /\ StatusAllowsRetry(status) => StatusAllowsRetry(ledger'[i].status)
  /\ ~StoreFaults => \E i \in RowsOf(r)' : /\ ledger'[i].status = status
                                           /\ \A j \in RowsOf(r)' : j <= i

\* A candidate has one position in its plan.
LEMMA PositionOf ==
  ASSUME Types, NEW r \in Requests, InPlan(r), pc[r] # "idle", Counts(r), NEW k \in 1..req[r].idx
  PROVE  Position(r, req[r].plan.candidates[k]) = k
<1>1. k \in DOMAIN req[r].plan.candidates
  BY CountTypes DEF InPlan
<1> QED
  BY <1>1 DEF Counts, Position

\* The row of an attempt comes after the rows before it, and fits the plan.
LEMMA RowWritten ==
  ASSUME PlaceInv, WalkInv, NEW r \in Requests, pc[r] = "usage",
         NEW status \in FinalStatuses(r), NEW tokens \in 0..MaxTokens,
         Insert(Entry(r, status, tokens))
  PROVE  /\ Written(r, status) /\ ledger' \in Seq(LedgerRows)
         /\ \A s \in Requests : s # r => RowsSame(s)
<1> DEFINE e == Entry(r, status, tokens)
           n == Len(ledger) + 1
<1>1. /\ e \in LedgerRows /\ e.request = r /\ e.seq = req[r].seq /\ e.status = status
      /\ e.model = Candidate(r)
  BY EntryType DEF PlaceInv, WalkInv
<1>2. ledger' = Append(ledger, e) /\ ledger \in Seq(LedgerRows)
  BY InsertAppends DEF WalkInv
<1> HIDE DEF e
<1>3. /\ ledger' \in Seq(LedgerRows) /\ Len(ledger) \in Nat
      /\ DOMAIN ledger = 1..Len(ledger)
      /\ \A i \in DOMAIN ledger : ledger'[i] = ledger[i]
      /\ ledger'[n] = e /\ RowsOf(r)' = RowsOf(r) \cup {n}
      /\ \A s : s # r => RowsSame(s)
  BY <1>1, <1>2, Appended
<1>4. n \in Nat /\ \A i \in RowsOf(r) : i \in Nat /\ i < n /\ ledger'[i] = ledger[i]
  BY <1>3 DEF RowsOf
<1> HIDE DEF n
<1>5. /\ req[r].seq \in Nat /\ req[r].attempt \in Nat /\ req[r].idx \in Nat
      /\ req[r].plan.attempts \in Nat
      /\ req[r].attempt >= 1 /\ req[r].attempt <= req[r].seq
      /\ req[r].attempt <= req[r].plan.attempts
      /\ req[r].idx \in 1..req[r].idx
  BY CountTypes DEF PlaceInv, InPlan, WalkInv, Counts, InFlight
<1>6. \A i \in RowsOf(r) :
        /\ ledger[i].seq \in 1..(req[r].seq - 1)
        /\ StatusIsFailure(ledger[i].status)
        /\ \E k \in 1..req[r].idx : ledger[i].model = req[r].plan.candidates[k]
        /\ ledger[i].model = Candidate(r) =>
             /\ ledger[i].seq > req[r].seq - req[r].attempt
             /\ StatusAllowsRetry(ledger[i].status)
  BY DEF WalkInv, RowInv, Complete, Past, InFlight, AtCandidate, Active
<1>7. \A i \in RowsOf(r) : \/ ledger[i].model = Candidate(r)
                           \/ Position(r, ledger[i].model) < Position(r, Candidate(r))
  <2> TAKE i \in RowsOf(r)
  <2>1. PICK k \in 1..req[r].idx : ledger[i].model = req[r].plan.candidates[k]
    BY <1>6
  <2>2. \A j \in 1..req[r].idx : Position(r, req[r].plan.candidates[j]) = j
    BY PositionOf DEF PlaceInv, WalkInv
  <2> QED
    BY <1>5, <2>1, <2>2 DEF Candidate
<1>8. ASSUME NEW i \in RowsOf(r)', NEW j \in RowsOf(r)', i < j
      PROVE  /\ ledger'[i].seq < ledger'[j].seq
             /\ StatusIsFailure(ledger'[i].status)
             /\ \/ ledger'[i].model = ledger'[j].model /\ StatusAllowsRetry(ledger'[i].status)
                \/ Position(r, ledger'[i].model) < Position(r, ledger'[j].model)
  <2>1. i \in RowsOf(r) /\ i # n
    BY <1>3, <1>4, <1>8
  <2>2. CASE j \in RowsOf(r)
    BY <1>4, <1>8, <2>1, <2>2 DEF WalkInv, RowInv, InOrder
  <2>3. CASE j = n
    <3>1. ledger'[j].seq = req[r].seq /\ ledger'[j].model = Candidate(r) /\ ledger'[i] = ledger[i]
      BY <1>1, <1>3, <2>1, <1>4, <2>3
    <3>2. ledger[i].seq < req[r].seq
      BY <1>5, <1>6, <2>1
    <3> QED
      BY <1>6, <1>7, <2>1, <3>1, <3>2
  <2> QED
    BY <1>3, <2>2, <2>3
<1>9. ASSUME NEW m \in Models
      PROVE  \E base \in Nat : \A i \in RowsOf(r)' :
               ledger'[i].model = m =>
                 ledger'[i].seq \in (base + 1)..(base + req[r].plan.attempts)
  <2>1. CASE m = Candidate(r)
    <3> DEFINE base == req[r].seq - req[r].attempt
    <3>1. base \in Nat
      BY <1>5
    <3>2. \A a \in 1..req[r].seq :
            a > req[r].seq - req[r].attempt =>
              a \in (base + 1)..(base + req[r].plan.attempts)
      BY <1>5
    <3> HIDE DEF base
    <3>3. ASSUME NEW i \in RowsOf(r)', ledger'[i].model = m
          PROVE  /\ ledger'[i].seq \in 1..req[r].seq
                 /\ ledger'[i].seq > req[r].seq - req[r].attempt
      <4>1. CASE i \in RowsOf(r)
        BY <1>4, <1>5, <1>6, <2>1, <3>3, <4>1
      <4>2. CASE i = n
        BY <1>1, <1>3, <1>5, <4>2
      <4> QED
        BY <1>3, <4>1, <4>2
    <3> QED
      BY <3>1, <3>2, <3>3
  <2>2. CASE m # Candidate(r)
    <3>1. PICK base \in Nat : \A i \in RowsOf(r) :
            ledger[i].model = m => ledger[i].seq \in (base + 1)..(base + req[r].plan.attempts)
      BY DEF WalkInv, RowInv, Tries
    <3> QED
      BY <1>1, <1>3, <1>4, <2>2, <3>1
  <2> QED
    BY <2>1, <2>2
<1>10. \A i \in RowsOf(r)' : ledger'[i].seq \in 1..req[r].seq
  <2>1. ASSUME NEW i \in RowsOf(r) PROVE ledger'[i].seq \in 1..req[r].seq
    BY <1>4, <1>5, <1>6
  <2>2. ledger'[n].seq = req[r].seq /\ req[r].seq \in 1..req[r].seq
    BY <1>1, <1>3, <1>5
  <2> QED
    BY <1>3, <2>1, <2>2
<1>11. ASSUME ~StoreFaults, NEW a \in 1..req[r].seq
       PROVE  \E i \in RowsOf(r)' : ledger'[i].seq = a
  <2>1. CASE a = req[r].seq
    BY <1>1, <1>3, <2>1
  <2>2. CASE a # req[r].seq
    <3>1. a \in 1..(req[r].seq - 1)
      BY <1>5, <2>2
    <3>2. \E i \in RowsOf(r) : ledger[i].seq = a
      BY <1>11, <3>1 DEF WalkInv, RowInv, Complete, Past, InFlight
    <3> QED
      BY <1>3, <1>4, <3>2
  <2> QED
    BY <2>1, <2>2
<1>12. ASSUME NEW i \in RowsOf(r)'
       PROVE  /\ StatusIsFailure(status) => StatusIsFailure(ledger'[i].status)
              /\ \E k \in 1..req[r].idx : ledger'[i].model = req[r].plan.candidates[k]
              /\ ledger'[i].model = Candidate(r) =>
                   /\ ledger'[i].seq > req[r].seq - req[r].attempt
                   /\ StatusAllowsRetry(status) => StatusAllowsRetry(ledger'[i].status)
  <2>1. CASE i \in RowsOf(r)
    BY <1>4, <1>6, <2>1
  <2>2. CASE i = n
    <3>1. /\ ledger'[i].seq = req[r].seq /\ ledger'[i].model = Candidate(r)
          /\ ledger'[i].status = status
      BY <1>1, <1>3, <2>2
    <3>2. req[r].seq > req[r].seq - req[r].attempt
      BY <1>5
    <3> QED
      BY <1>5, <3>1, <3>2 DEF Candidate
  <2> QED
    BY <1>3, <2>1, <2>2
<1>13. ledger'[n].status = status /\ n \in RowsOf(r)' /\ \A j \in RowsOf(r)' : j <= n
  BY <1>1, <1>3, <1>4
<1>14. Written(r, status)
  BY <1>8, <1>9, <1>10, <1>11, <1>12, <1>13 DEF Written
<1> QED
  BY <1>3, <1>14

\* An attempt whose row is lost.
LEMMA RowLost ==
  ASSUME PlaceInv, WalkInv, NEW r \in Requests, pc[r] = "usage", StoreFaults, ledger' = ledger,
         NEW status
  PROVE  Written(r, status)
<1>1. RowsSame(r)
  BY LedgerSame
<1>2. /\ req[r].seq \in Nat /\ req[r].attempt \in Nat /\ Counts(r) /\ RowInv(r)
      /\ pc[r] \in Active /\ Past(r) = req[r].seq - 1
  BY CountTypes DEF PlaceInv, WalkInv, Past, InFlight, Active
<1>3. \A i, j \in RowsOf(r)' : i < j =>
       /\ ledger'[i].seq < ledger'[j].seq
       /\ StatusIsFailure(ledger'[i].status)
       /\ \/ ledger'[i].model = ledger'[j].model /\ StatusAllowsRetry(ledger'[i].status)
          \/ Position(r, ledger'[i].model) < Position(r, ledger'[j].model)
  BY <1>1, <1>2 DEF RowsSame, RowInv, InOrder
<1>4. \A m \in Models : \E base \in Nat : \A i \in RowsOf(r)' :
       ledger'[i].model = m => ledger'[i].seq \in (base + 1)..(base + req[r].plan.attempts)
  BY <1>1, <1>2 DEF RowsSame, RowInv, Tries
<1>5. \A i \in RowsOf(r)' : ledger'[i].seq \in 1..req[r].seq
  BY <1>1, <1>2 DEF RowsSame, RowInv, Complete
<1>6. \A i \in RowsOf(r)' :
       /\ StatusIsFailure(ledger'[i].status)
       /\ \E k \in 1..req[r].idx : ledger'[i].model = req[r].plan.candidates[k]
       /\ ledger'[i].model = Candidate(r) =>
            /\ ledger'[i].seq > req[r].seq - req[r].attempt
            /\ StatusAllowsRetry(ledger'[i].status)
  BY <1>1, <1>2 DEF RowsSame, RowInv, AtCandidate
<1> QED
  BY <1>3, <1>4, <1>5, <1>6 DEF Written

\* What follows an attempt keeps what is known of the rows.
LEMMA RowsAfter ==
  ASSUME PlaceInv, NEW r \in Requests, pc[r] = "usage", Counts(r), NEW status,
         Written(r, status), GoesOnAfter(r, status)
  PROVE  RowInv(r)'
<1>1. /\ req'[r].plan = req[r].plan /\ req'[r].seq = req[r].seq
      /\ pc'[r] \in {"done", "select", "call"}
  BY DEF GoesOnAfter, Stops, TriesAgain, GivesUp, Ends, GoesOn, Advances, SamePlan, Answered,
         Retries, SameTurn, NextTurn
<1>2. (\A m : Position(r, m)' = Position(r, m)) /\ Past(r)' = req[r].seq
  BY <1>1 DEF Position, Past, InFlight
<1>3. InOrder(r)' /\ Tries(r)' /\ Complete(r)'
  <2>1. InOrder(r)'
    BY <1>2 DEF Written, InOrder
  <2>2. Tries(r)'
    BY <1>1 DEF Written, Tries
  <2>3. Complete(r)'
    BY <1>2 DEF Written, Complete
  <2> QED
    BY <2>1, <2>2, <2>3
<1>4. CASE Answered(r, status)
  BY <1>3, <1>4 DEF RowInv, Answered, AtCandidate, Active, Served, Written
<1>5. CASE TriesAgain(r, status)
  BY <1>3, <1>5
     DEF RowInv, TriesAgain, GoesOn, SamePlan, Retries, SameTurn, AtCandidate, Served, Written,
         Candidate
<1>6. CASE StatusIsFailure(status) /\ Advances(r) /\ NextTurn(r)
  <2>1. /\ req'[r].plan = req[r].plan /\ req'[r].idx = req[r].idx + 1
        /\ \A k \in 1..req[r].idx :
             /\ k \in 1..(req[r].idx + 1)
             /\ req[r].plan.candidates[k] # req[r].plan.candidates[req[r].idx + 1]
    BY <1>6, NewCandidate DEF PlaceInv
  <2>2. AtCandidate(r)'
    <3> SUFFICES ASSUME NEW i \in RowsOf(r)'
                 PROVE  /\ StatusIsFailure(ledger'[i].status)
                        /\ \E k \in 1..req'[r].idx :
                             ledger'[i].model = req'[r].plan.candidates[k]
                        /\ ledger'[i].model # Candidate(r)'
      BY DEF AtCandidate
    <3>1. StatusIsFailure(ledger'[i].status)
      BY <1>6 DEF Written
    <3>2. PICK k \in 1..req[r].idx : ledger'[i].model = req[r].plan.candidates[k]
      BY DEF Written
    <3> QED
      BY <2>1, <3>1, <3>2 DEF Candidate
  <2>3. Served(r)'
    BY <1>6 DEF Advances, Served
  <2> QED
    BY <1>3, <2>2, <2>3 DEF RowInv
<1> QED
  BY <1>4, <1>5, <1>6 DEF GoesOnAfter, Stops, GivesUp

\* A step of a handler keeps the walk.
LEMMA WalkMoves ==
  ASSUME PlaceInv, PlaceInv', WalkInv, NEW r \in Requests, Moves(r)
  PROVE  WalkInv'
<1>1. Counts(r)' /\ Replied(r)'
  BY CountsKept DEF WalkInv
<1>2. \A s \in Requests : s # r => pc'[s] = pc[s] /\ req'[s] = req[s]
  BY DEF Moves, Others
<1>3. ASSUME NEW s \in Requests, s # r
      PROVE  Counts(s)' /\ Replied(s)'
  BY <1>2, <1>3 DEF WalkInv, Counts, Replied, InFlight
<1>4. ASSUME ledger' \in Seq(LedgerRows), RowInv(r)',
             \A s \in Requests : s # r => RowsSame(s)
      PROVE  WalkInv'
  <2>1. ASSUME NEW s \in Requests, s # r
        PROVE  RowInv(s)'
    BY <1>2, <1>4, <2>1, OtherRows DEF WalkInv
  <2> QED
    BY <1>1, <1>3, <1>4, <2>1 DEF WalkInv
<1>5. CASE Records(r)
  <2>1. PICK status \in Codes, tokens \in 0..MaxTokens :
          Insert(Entry(r, status, tokens)) /\ GoesOnAfter(r, status)
    BY <1>5 DEF Records
  <2>2. pc[r] = "usage" /\ status \in FinalStatuses(r)
    BY <1>5, <2>1 DEF Records, GoesOnAfter
  <2>3. /\ Written(r, status) /\ ledger' \in Seq(LedgerRows)
        /\ \A s \in Requests : s # r => RowsSame(s)
    BY <2>1, <2>2, RowWritten
  <2>4. RowInv(r)'
    BY <2>1, <2>2, <2>3, RowsAfter DEF WalkInv
  <2> QED
    BY <1>4, <2>3, <2>4
<1>6. CASE Loses(r)
  <2>1. PICK status \in Codes : GoesOnAfter(r, status)
    BY <1>6 DEF Loses
  <2>2. pc[r] = "usage" /\ StoreFaults /\ ledger' = ledger
    BY <1>6 DEF Loses, LedgerStands
  <2>3. RowInv(r)'
    BY <2>1, <2>2, RowLost, RowsAfter DEF WalkInv
  <2> QED
    BY <1>4, <2>2, <2>3, LedgerSame DEF WalkInv
<1>7. CASE \/ Comes(r) \/ Refused(r) \/ (\E l \in Limits : Passes(r, l)) \/ Steps(r)
           \/ Dispatches(r) \/ Hears(r)
  <2>1. ledger' = ledger
    BY <1>7 DEF Comes, Refused, Passes, Steps, Dispatches, Hears, LedgerStands
  <2>2. RowInv(r)'
    BY <1>1, <1>7, RowsWalked DEF WalkInv
  <2> QED
    BY <1>4, <2>1, <2>2, LedgerSame DEF WalkInv
<1> QED
  BY <1>5, <1>6, <1>7 DEF Moves

\* A step of none does.
LEMMA WalkStands ==
  ASSUME WalkInv, UNCHANGED <<ledger, pc, req>>
  PROVE  WalkInv'
<1>1. ASSUME NEW s \in Requests
      PROVE  (Counts(s) /\ Replied(s) /\ RowInv(s))'
  <2>1. RowInv(s)'
    BY LedgerSame, OtherRows DEF WalkInv
  <2> QED
    BY <2>1 DEF WalkInv, Counts, Replied, InFlight
<1> QED
  BY <1>1 DEF WalkInv

LEMMA WalkInitially == Init => WalkInv
<1> SUFFICES ASSUME Init PROVE WalkInv
  OBVIOUS
<1>1. ledger = <<>> /\ \A r \in Requests : pc[r] = "idle" /\ req[r] = NewRequest
  BY DEF Init
<1>2. ledger \in Seq(LedgerRows) /\ \A r : RowsOf(r) = {}
  BY <1>1 DEF RowsOf
<1>3. ASSUME NEW r \in Requests
      PROVE  Counts(r) /\ Replied(r)
  BY <1>1, <1>3 DEF NewRequest, NoPlan, Counts, Replied, InFlight, Walking
<1>4. ASSUME NEW r \in Requests
      PROVE  RowInv(r)
  <2>1. Past(r) = 0
    BY <1>1 DEF Past, InFlight, NewRequest
  <2> QED
    BY <1>1, <1>2, <2>1 DEF RowInv, InOrder, Tries, Complete, AtCandidate, Served, Active
<1> QED
  BY <1>2, <1>3, <1>4 DEF WalkInv

LEMMA WalkStep == PlaceInv /\ PlaceInv' /\ WalkInv /\ [Next]_vars => WalkInv'
<1> SUFFICES ASSUME PlaceInv, PlaceInv', WalkInv, [Next]_vars PROVE WalkInv'
  OBVIOUS
<1>1. ASSUME NEW r \in Requests, Arrive(r) \/ Handle(r) \/ Disconnect(r)
      PROVE  WalkInv'
  BY <1>1, StepKinds, WalkMoves DEF Moves
<1>2. CASE Tick \/ MinutePasses \/ MonthBegins \/ UNCHANGED vars
  BY <1>2, WalkStands DEF Tick, MinutePasses, MonthBegins, vars, ledgerVars
<1> QED
  BY <1>1, <1>2 DEF Next

LEMMA WalkAlways == Spec => []WalkInv
BY PlaceAlways, WalkInitially, WalkStep, PTL DEF Spec

-----------------------------------------------------------------------------
\* The ledger has one row for each attempt, numbered in their order, and none of a retry
\* or a fallback is dropped as a duplicate: recordUsage's request_id is unique.
THEOREM RowsNumbered == Spec => []OneRowPerAttempt
<1>1. PlaceInv /\ WalkInv => OneRowPerAttempt
  <2> SUFFICES ASSUME PlaceInv, WalkInv, NEW r \in Requests
               PROVE  /\ \A i, j \in RowsOf(r) : i < j => ledger[i].seq < ledger[j].seq
                      /\ \A i \in RowsOf(r) : ledger[i].seq \in 1..Past(r)
                      /\ ~StoreFaults /\ pc[r] # "gone" =>
                           \A n \in 1..Past(r) : \E i \in RowsOf(r) : ledger[i].seq = n
    BY DEF OneRowPerAttempt
  <2> QED
    BY DEF WalkInv, RowInv, InOrder, Complete
<1> QED
  BY <1>1, PlaceAlways, WalkAlways, PTL

\* What a client is answered with is what the last row of its request shows, a guardrail's
\* refusal included, and an error when every attempt failed.
THEOREM AnswersLedgered == Spec => []AnswerIsLedgered
<1>1. PlaceInv /\ WalkInv => AnswerIsLedgered
  <2> SUFFICES ASSUME PlaceInv, WalkInv, ~StoreFaults, NEW r \in Requests, pc[r] = "done"
               PROVE  LET served == {i \in RowsOf(r) : ~StatusIsFailure(ledger[i].status)}
                      IN  IF served = {} THEN req[r].answer >= 400
                          ELSE \A i \in served : /\ \A j \in RowsOf(r) : j <= i
                                                 /\ ledger[i].status = req[r].answer
    BY DEF AnswerIsLedgered
  <2>1. Served(r) /\ InOrder(r)
    BY DEF WalkInv, RowInv
  <2>2. \A i \in RowsOf(r) : i \in Nat /\ ledger[i].status \in Nat
    BY RowTypes DEF WalkInv, RowsOf
  <2>3. CASE req[r].answer >= 400 /\ \A i \in RowsOf(r) : StatusIsFailure(ledger[i].status)
    BY <2>3
  <2>4. CASE \E i \in RowsOf(r) : /\ ledger[i].status = req[r].answer
                                  /\ \A j \in RowsOf(r) : j <= i
    <3>1. PICK i \in RowsOf(r) : /\ ledger[i].status = req[r].answer
                                 /\ \A j \in RowsOf(r) : j <= i
      BY <2>4
    <3>2. \A j \in RowsOf(r) : j # i => StatusIsFailure(ledger[j].status)
      BY <2>1, <2>2, <3>1 DEF InOrder
    <3>3. StatusIsFailure(ledger[i].status) => req[r].answer >= 400
      BY <2>2, <3>1 DEF StatusIsFailure
    <3> QED
      BY <3>1, <3>2, <3>3
  <2> QED
    BY <2>1, <2>3, <2>4 DEF Served
<1> QED
  BY <1>1, PlaceAlways, WalkAlways, PTL

\* The ledger shows the walk over the plan: candidates in their order, retries only after
\* failures that allow one, never more attempts than the policy has, one for a stream.
THEOREM PlansFollowed == Spec => []FollowsPlan
<1>1. PlaceInv /\ WalkInv => FollowsPlan
  <2> SUFFICES ASSUME PlaceInv, WalkInv, NEW r \in Requests
               PROVE  /\ \A i, j \in RowsOf(r) : i < j =>
                           /\ StatusIsFailure(ledger[i].status)
                           /\ \/ /\ ledger[i].model = ledger[j].model
                                 /\ StatusAllowsRetry(ledger[i].status)
                              \/ Position(r, ledger[i].model) < Position(r, ledger[j].model)
                      /\ \A i \in RowsOf(r) :
                           Cardinality({j \in RowsOf(r) : ledger[j].model = ledger[i].model})
                             <= req[r].plan.attempts
                      /\ req[r].mode = "stream" => \A i, j \in RowsOf(r) : i = j
    BY DEF FollowsPlan
  <2>1. /\ InOrder(r) /\ Tries(r) /\ Complete(r) /\ Counts(r)
        /\ req[r].plan.attempts \in Nat /\ req[r].seq \in Nat
        /\ RowsOf(r) \subseteq 1..Len(ledger) /\ Len(ledger) \in Nat
        /\ \A i \in RowsOf(r) : i \in Nat /\ ledger[i].seq \in Nat /\ ledger[i].model \in Models
    <3>1. InOrder(r) /\ Tries(r) /\ Complete(r) /\ Counts(r)
      BY DEF WalkInv, RowInv
    <3>2. req[r].plan.attempts \in Nat /\ req[r].seq \in Nat
      BY CountTypes DEF PlaceInv
    <3>3. /\ RowsOf(r) \subseteq 1..Len(ledger) /\ Len(ledger) \in Nat
          /\ \A i \in RowsOf(r) : i \in Nat /\ ledger[i].seq \in Nat /\ ledger[i].model \in Models
      BY RowTypes DEF WalkInv, RowsOf
    <3> QED
      BY <3>1, <3>2, <3>3
  <2>2. \A i, j \in RowsOf(r) : i # j => ledger[i].seq # ledger[j].seq
    BY <2>1 DEF InOrder
  <2>3. ASSUME NEW i \in RowsOf(r)
        PROVE  Cardinality({j \in RowsOf(r) : ledger[j].model = ledger[i].model})
                 <= req[r].plan.attempts
    <3> DEFINE tried    == {j \in RowsOf(r) : ledger[j].model = ledger[i].model}
               attempts == req[r].plan.attempts
    <3>1. PICK base \in Nat : \A j \in RowsOf(r) :
            ledger[j].model = ledger[i].model => ledger[j].seq \in (base + 1)..(base + attempts)
      BY <2>1 DEF Tries
    <3> DEFINE numbers == (base + 1)..(base + attempts)
               f       == [j \in tried |-> ledger[j].seq]
    <3>2. IsFiniteSet(tried) /\ Cardinality(tried) \in Nat
      <4>1. IsFiniteSet(1..Len(ledger)) /\ tried \in SUBSET (1..Len(ledger))
        BY <2>1, FS_Interval
      <4> HIDE DEF tried
      <4> QED
        BY <4>1, FS_Subset, FS_CardinalityType
    <3>3. IsFiniteSet(numbers) /\ Cardinality(numbers) = attempts
      <4>1. \A a, b \in Nat : /\ a + 1 \in Int /\ a + b \in Int
                              /\ (IF a + 1 > a + b THEN 0 ELSE a + b - (a + 1) + 1) = b
        OBVIOUS
      <4>2. base \in Nat /\ attempts \in Nat
        BY <2>1
      <4> HIDE DEF attempts
      <4> QED
        BY <4>1, <4>2, FS_Interval
    <3>4. f \in [tried -> numbers] /\ \A x, y \in tried : x # y => f[x] # f[y]
      BY <2>2, <3>1
    <3> HIDE DEF tried, numbers, f
    <3>5. ~(Cardinality(numbers) < Cardinality(tried))
      BY <3>2, <3>3, <3>4, FS_PigeonHole
    <3> QED
      BY <2>1, <3>2, <3>3, <3>5 DEF tried
  <2>4. ASSUME req[r].mode = "stream", NEW i \in RowsOf(r), NEW j \in RowsOf(r)
        PROVE  i = j
    <3>1. Past(r) <= 1 /\ Past(r) \in Int
      BY <2>1, <2>4 DEF Counts, Past, InFlight
    <3>2. ledger[i].seq \in 1..Past(r) /\ ledger[j].seq \in 1..Past(r)
      BY <2>1 DEF Complete
    <3> QED
      BY <2>1, <2>2, <3>1, <3>2
  <2> QED
    BY <2>1, <2>3, <2>4 DEF InOrder
<1> QED
  BY <1>1, PlaceAlways, WalkAlways, PTL

\* Attempts that have lost their row: their number never falls.
LossInv == unlisted \in [Providers -> Nat]

LEMMA LosesOne ==
  ASSUME LossInv, NEW r \in Requests, ProviderIn(r) \in Providers, LosesRow(r)
  PROVE  /\ LossInv'
         /\ \A p \in Providers : /\ unlisted[p] \in Nat /\ unlisted'[p] \in Nat
                                 /\ unlisted[p] <= unlisted'[p]
         /\ pc[r] = "usage" /\ StatusIsFailure(req[r].reply.status) =>
              unlisted'[ProviderIn(r)] = unlisted[ProviderIn(r)] + 1
<1>1. CASE pc[r] = "usage" /\ StatusIsFailure(req[r].reply.status)
  <2>1. unlisted' = [unlisted EXCEPT ![ProviderIn(r)] = @ + 1]
    BY <1>1 DEF LosesRow
  <2> QED
    BY <2>1 DEF LossInv
<1>2. CASE ~(pc[r] = "usage" /\ StatusIsFailure(req[r].reply.status))
  <2>1. unlisted' = unlisted
    BY <1>2 DEF LosesRow
  <2> QED
    BY <1>2, <2>1 DEF LossInv
<1> QED
  BY <1>1, <1>2

LEMMA LossStep ==
  PlaceInv /\ LossInv /\ [Next]_vars =>
    /\ LossInv'
    /\ \A p \in Providers : /\ unlisted[p] \in Nat /\ unlisted'[p] \in Nat
                            /\ unlisted[p] <= unlisted'[p]
<1> SUFFICES ASSUME PlaceInv, LossInv, [Next]_vars
             PROVE  /\ LossInv'
                    /\ \A p \in Providers : /\ unlisted[p] \in Nat /\ unlisted'[p] \in Nat
                                            /\ unlisted[p] <= unlisted'[p]
  OBVIOUS
<1>1. ASSUME NEW r \in Requests, UsageFault(r) \/ Disconnect(r)
      PROVE  LosesRow(r) /\ ProviderIn(r) \in Providers
  BY <1>1, CandidateInPlan, SMTT(30) DEF PlaceInv, UsageFault, Disconnect, Active
<1>2. ASSUME NEW r \in Requests,
             \/ Arrive(r) \/ RefuseModel(r) \/ CheckLimit(r) \/ GateFault(r) \/ Admit(r)
             \/ SkipOpenCircuit(r) \/ SelectCandidate(r) \/ Dispatch(r) \/ Reply(r)
             \/ ReportSuccess(r) \/ ReportFailure(r) \/ CommitOutcome(r) \/ OutcomeFault(r)
             \/ RecordUsage(r)
      PROVE  unlisted' = unlisted
  BY <1>2 DEF Arrive, RefuseModel, CheckLimit, GateFault, Admit, SkipOpenCircuit,
              SelectCandidate, Dispatch, Reply, ReportSuccess, ReportFailure, CommitOutcome,
              OutcomeFault, RecordUsage, ledgerVars
<1>3. Tick \/ MinutePasses \/ MonthBegins \/ UNCHANGED vars => unlisted' = unlisted
  BY DEF Tick, MinutePasses, MonthBegins, vars, ledgerVars
<1>4. CASE unlisted' = unlisted
  BY <1>4 DEF LossInv
<1>5. CASE \E r \in Requests : LosesRow(r) /\ ProviderIn(r) \in Providers
  BY <1>5, LosesOne
<1> QED
  BY <1>1, <1>2, <1>3, <1>4, <1>5 DEF Next, Handle

LEMMA LossAlways == Spec => []LossInv
<1>1. Init => LossInv
  BY DEF Init, LossInv
<1> QED
  BY <1>1, LossStep, PlaceAlways, PTL DEF Spec

\* The state has its types, whatever the requests do: no candidate out of the plan, no
\* attempt above the policy's, no window past the end of the ledger.
THEOREM TypesCorrect == Spec => []TypeOK
<1>1. ASSUME NEW n \in Nat, NEW m \in Nat, m <= n
      PROVE  m \in 0..n
  BY <1>1
<1> DEFINE Windows == minuteStart \in 0..Len(ledger) /\ monthStart \in 0..Len(ledger)
<1>2. Init => Windows
  BY DEF Init
<1>3. PlaceInv /\ PlaceInv' /\ WalkInv /\ Windows /\ [Next]_vars => Windows'
  <2> SUFFICES ASSUME PlaceInv, PlaceInv', WalkInv, Windows, [Next]_vars PROVE Windows'
    OBVIOUS
  <2>0. Len(ledger) \in Nat
    BY RowTypes DEF WalkInv
  <2>1. CASE LedgerStands
    BY <2>1 DEF LedgerStands
  <2>2. ASSUME NEW r \in Requests, Arrive(r) \/ Handle(r) \/ Disconnect(r)
        PROVE  Windows'
    <3>1. CASE Records(r)
      <4>1. PICK status \in Codes, tokens \in 0..MaxTokens :
              Insert(Entry(r, status, tokens)) /\ GoesOnAfter(r, status)
        BY <3>1 DEF Records
      <4>2. pc[r] = "usage" /\ status \in FinalStatuses(r)
        BY <3>1, <4>1 DEF Records, GoesOnAfter
      <4>3. ledger' = Append(ledger, Entry(r, status, tokens))
        BY <4>1, <4>2, InsertAppends
      <4>4. Entry(r, status, tokens) \in LedgerRows /\ ledger \in Seq(LedgerRows)
        BY <4>2, EntryType DEF PlaceInv, WalkInv
      <4>5. Len(ledger') = Len(ledger) + 1
        BY <4>3, <4>4, Appended
      <4> QED
        BY <2>0, <3>1, <4>5 DEF Records
    <3>2. CASE ~Records(r)
      BY <2>1, <2>2, <3>2, StepKinds
         DEF Comes, Refused, Passes, Steps, Dispatches, Hears, Loses
    <3> QED
      BY <3>1, <3>2
  <2>3. CASE MinutePasses
    BY <2>0, <2>3 DEF MinutePasses
  <2>4. CASE MonthBegins
    BY <2>0, <2>4 DEF MonthBegins
  <2>5. CASE Tick \/ UNCHANGED vars
    BY <2>1, <2>5 DEF Tick, vars, ledgerVars, LedgerStands
  <2> QED
    BY <2>2, <2>3, <2>4, <2>5 DEF Next
<1>4. PlaceInv /\ WalkInv /\ LossInv /\ Windows => TypeOK
  <2> SUFFICES ASSUME PlaceInv, WalkInv, LossInv, Windows PROVE TypeOK
    OBVIOUS
  <2>1. Health!TypeOK /\ ledger \in Seq(LedgerRows)
    BY DEF PlaceInv, Types, WalkInv
  <2>2. pc \in [Requests -> Active \cup {"idle", "done", "gone"}]
    <3>1. Labels = Active \cup {"idle", "done", "gone"}
      BY DEF Labels, Active
    <3> QED
      BY <3>1 DEF PlaceInv, Types
  <2>3. ASSUME NEW r \in Requests
        PROVE  /\ req[r].mode \in {"plan", "stream"}
               /\ req[r].plan.candidates \in Seq(Models)
               /\ req[r].idx \in 0..Len(req[r].plan.candidates)
               /\ req[r].attempt \in 0..req[r].plan.attempts
               /\ req[r].passed \subseteq Limits
    <3>1. req[r].attempt <= req[r].plan.attempts
      BY DEF WalkInv, Counts
    <3>2. req[r].idx <= Len(req[r].plan.candidates) /\ Len(req[r].plan.candidates) \in Nat
      BY CountTypes DEF PlaceInv, InPlan, WalkInv, Counts
    <3> QED
      BY <3>1, <3>2, CountTypes DEF PlaceInv
  <2> QED
    BY <2>1, <2>2, <2>3 DEF TypeOK, LossInv
<1> QED
  BY <1>2, <1>3, <1>4, PlaceAlways, WalkAlways, LossAlways, PTL DEF Spec

-----------------------------------------------------------------------------
(***************************************************************************)
(* The breaker and the ledger.  No row shows more failures than were       *)
(* reported, on Postgres neither, where a transaction may write back a     *)
(* count that is older; and a failure that was reported has a row in the   *)
(* ledger, or its request is about to write it, or the row was lost.       *)
(***************************************************************************)
Earned(p) ==
  /\ row[p].failures <= reported[p]
  /\ row[p].status = "down" => row[p].failures >= Threshold

OpenTx(w) ==
  tx[w] # Health!NoTx =>
    /\ pc[w] = "commit" /\ tx[w].provider = ProviderIn(w)
    /\ tx[w].read <= reported[tx[w].provider]

BreakerInv ==
  /\ LossInv
  /\ \A p \in Providers : Earned(p)
  /\ \A w \in Requests : OpenTx(w)
  /\ \A p \in Providers : reported[p] <= FailuresShown(p)

\* The counts of a provider row, typed.
LEMMA HealthFields ==
  ASSUME Types
  PROVE  /\ \A p \in Providers : row[p].failures \in Nat /\ reported[p] \in Nat
         /\ \A w \in Requests : tx[w] # Health!NoTx =>
              tx[w].provider \in Providers /\ tx[w].read \in Nat /\ tx[w].at \in Nat
         /\ row \in [Providers -> Health!ProviderRows] /\ reported \in [Providers -> Nat]
         /\ DOMAIN tx = Requests
BY DEF Types, Health!TypeOK, Health!ProviderRows, Health!OpenTxs

\* The failures that are shown can be counted.
LEMMA FailedFinite ==
  ASSUME ledger \in Seq(LedgerRows), NEW p
  PROVE  /\ IsFiniteSet(FailedRows(p)) /\ Cardinality(FailedRows(p)) \in Nat
         /\ IsFiniteSet(FailedCalls(p)) /\ Cardinality(FailedCalls(p)) \in Nat
<1>1. IsFiniteSet(1..Len(ledger)) /\ FailedRows(p) \in SUBSET (1..Len(ledger))
  BY RowTypes, FS_Interval DEF FailedRows
<1>2. IsFiniteSet(Requests) /\ FailedCalls(p) \in SUBSET Requests
  BY FiniteAssumption DEF FailedCalls
<1> QED
  BY <1>1, <1>2, FS_Subset, FS_CardinalityType

\* More rows and more calls show more failures.
LEMMA ShownGrows ==
  ASSUME ledger \in Seq(LedgerRows), (ledger \in Seq(LedgerRows))', NEW p,
         FailedRows(p) \subseteq FailedRows(p)', FailedCalls(p) \subseteq FailedCalls(p)',
         unlisted[p] \in Nat, unlisted'[p] \in Nat, unlisted[p] <= unlisted'[p]
  PROVE  /\ FailuresShown(p) \in Nat /\ FailuresShown(p)' \in Nat
         /\ FailuresShown(p) <= FailuresShown(p)'
<1>1. /\ IsFiniteSet(FailedRows(p)') /\ Cardinality(FailedRows(p)') \in Nat
      /\ IsFiniteSet(FailedCalls(p)') /\ Cardinality(FailedCalls(p)') \in Nat
  <2>1. IsFiniteSet(1..Len(ledger')) /\ FailedRows(p)' \in SUBSET (1..Len(ledger'))
    <3>1. Len(ledger') \in Nat /\ DOMAIN ledger' = 1..Len(ledger')
      OBVIOUS
    <3>2. IsFiniteSet(1..Len(ledger'))
      <4>1. \A n \in Nat : IsFiniteSet(1..n)
        BY FS_Interval
      <4> QED
        BY <3>1, <4>1
    <3>3. FailedRows(p)' \subseteq DOMAIN ledger'
      BY DEF FailedRows
    <3> QED
      BY <3>1, <3>2, <3>3
  <2>2. IsFiniteSet(Requests) /\ FailedCalls(p)' \in SUBSET Requests
    BY FiniteAssumption DEF FailedCalls
  <2> QED
    BY <2>1, <2>2, FS_Subset, FS_CardinalityType
<1>2. Cardinality(FailedRows(p)) \in Nat /\ Cardinality(FailedCalls(p)) \in Nat
  BY FailedFinite
<1>3. /\ Cardinality(FailedRows(p)) <= Cardinality(FailedRows(p)')
      /\ Cardinality(FailedCalls(p)) <= Cardinality(FailedCalls(p)')
  BY <1>1, FS_Subset
<1> QED
  BY <1>1, <1>2, <1>3, SMTT(30) DEF FailuresShown

\* The request that reports a failure has it among its calls.
LEMMA FailureReported ==
  ASSUME ledger \in Seq(LedgerRows), ledger' = ledger, NEW r \in Requests, NEW p,
         ProviderIn(r) = p, pc[r] \in {"outcome", "commit"}, pc'[r] = "usage",
         req' = req, Others(r), StatusIsFailure(req[r].reply.status),
         unlisted' = unlisted, unlisted[p] \in Nat
  PROVE  /\ FailuresShown(p) \in Nat /\ FailuresShown(p)' \in Nat
         /\ FailuresShown(p)' = FailuresShown(p) + 1
<1>1. FailedRows(p)' = FailedRows(p)
  BY DEF FailedRows
<1>2. r \notin FailedCalls(p)
  BY DEF FailedCalls
<1>4. FailedCalls(p)' = FailedCalls(p) \cup {r}
  BY DEF FailedCalls, Others, ProviderIn, Candidate
<1>5. /\ IsFiniteSet(FailedCalls(p)) /\ Cardinality(FailedCalls(p)) \in Nat
      /\ Cardinality(FailedRows(p)) \in Nat
  BY FailedFinite
<1>6. Cardinality(FailedCalls(p)') = Cardinality(FailedCalls(p)) + 1
  BY <1>2, <1>4, <1>5, FS_AddElement
<1> QED
  BY <1>1, <1>5, <1>6 DEF FailuresShown

\* The row of a failed attempt takes the place of its call.
LEMMA FailureRecorded ==
  ASSUME PlaceInv, WalkInv, WalkInv', NEW r \in Requests, Records(r), Others(r), NEW p,
         unlisted' = unlisted, unlisted[p] \in Nat
  PROVE  /\ FailuresShown(p) \in Nat /\ FailuresShown(p)' \in Nat
         /\ FailuresShown(p) <= FailuresShown(p)'
<1>1. PICK status \in Codes, tokens \in 0..MaxTokens :
        Insert(Entry(r, status, tokens)) /\ GoesOnAfter(r, status)
  BY DEF Records
<1>2. pc[r] = "usage" /\ status \in FinalStatuses(r) /\ Replied(r)
  BY <1>1 DEF Records, GoesOnAfter, WalkInv
<1> DEFINE e == Entry(r, status, tokens)
           n == Len(ledger) + 1
<1>3. /\ e \in LedgerRows /\ e.status = status /\ e.provider = ProviderIn(r)
  BY <1>2, EntryType DEF PlaceInv
<1>4. ledger \in Seq(LedgerRows) /\ (ledger \in Seq(LedgerRows))' /\ ledger' = Append(ledger, e)
  BY <1>1, <1>2, InsertAppends DEF WalkInv
<1> HIDE DEF e
<1>5. /\ Len(ledger) \in Nat /\ DOMAIN ledger = 1..Len(ledger)
      /\ DOMAIN ledger' = 1..(Len(ledger) + 1)
      /\ \A i \in DOMAIN ledger : ledger'[i] = ledger[i]
      /\ ledger'[n] = e
  BY <1>3, <1>4, Appended
<1>6. /\ DOMAIN ledger' = DOMAIN ledger \cup {n} /\ n \notin DOMAIN ledger
  BY <1>5
<1> HIDE DEF n
<1>7. FailedRows(p) \subseteq FailedRows(p)' /\ n \notin FailedRows(p)
  BY <1>5, <1>6 DEF FailedRows
<1>8. FailedCalls(p) \ {r} \subseteq FailedCalls(p)'
  BY DEF FailedCalls, Others, ProviderIn, Candidate
<1>9. CASE r \notin FailedCalls(p)
  BY <1>4, <1>7, <1>8, <1>9, ShownGrows
<1>10. CASE r \in FailedCalls(p)
  <2>1. StatusIsFailure(req[r].reply.status) /\ ProviderIn(r) = p
    BY <1>10 DEF FailedCalls
  <2>2. ~(req[r].reply.status < 400)
    <3>1. req[r].reply.status \in Nat
      BY <1>2, StatusesAssumption DEF Replied
    <3>2. \A s \in Nat : StatusIsFailure(s) => ~(s < 400)
      BY DEF StatusIsFailure
    <3> QED
      BY <2>1, <3>1, <3>2
  <2>3. status = req[r].reply.status
    BY <1>2, <2>2 DEF FinalStatuses
  <2>4. FailedRows(p)' = FailedRows(p) \cup {n}
    BY <1>3, <1>5, <1>6, <2>1, <2>3 DEF FailedRows
  <2>5. /\ IsFiniteSet(FailedRows(p)) /\ Cardinality(FailedRows(p)) \in Nat
        /\ IsFiniteSet(FailedCalls(p)) /\ Cardinality(FailedCalls(p)) \in Nat
    BY <1>4, FailedFinite
  <2>6. Cardinality(FailedRows(p)') = Cardinality(FailedRows(p)) + 1
    BY <1>7, <2>4, <2>5, FS_AddElement
  <2>7. /\ IsFiniteSet(FailedCalls(p) \ {r})
        /\ Cardinality(FailedCalls(p) \ {r}) = Cardinality(FailedCalls(p)) - 1
    BY <1>10, <2>5, FS_RemoveElement
  <2>8. IsFiniteSet(FailedCalls(p)') /\ Cardinality(FailedCalls(p)') \in Nat
    <3>1. IsFiniteSet(Requests) /\ FailedCalls(p)' \in SUBSET Requests
      BY FiniteAssumption DEF FailedCalls
    <3> QED
      BY <3>1, FS_Subset, FS_CardinalityType
  <2>9. Cardinality(FailedCalls(p) \ {r}) <= Cardinality(FailedCalls(p)')
    BY <1>8, <2>8, FS_Subset
  <2> QED
    BY <2>5, <2>6, <2>7, <2>8, <2>9 DEF FailuresShown
<1> QED
  BY <1>9, <1>10

\* A failed attempt that loses its row is counted as such.
LEMMA FailureLost ==
  ASSUME ledger \in Seq(LedgerRows), ledger' = ledger, LossInv, NEW r \in Requests,
         Others(r), ProviderIn(r) \in Providers, LosesRow(r), NEW p \in Providers
  PROVE  /\ FailuresShown(p) \in Nat /\ FailuresShown(p)' \in Nat
         /\ FailuresShown(p) <= FailuresShown(p)'
<1>1. FailedCalls(p) \ {r} \subseteq FailedCalls(p)' /\ FailedRows(p)' = FailedRows(p)
  BY DEF FailedCalls, FailedRows, Others, ProviderIn, Candidate
<1>2. CASE r \notin FailedCalls(p)
  BY <1>1, <1>2, ShownGrows, LosesOne
<1>3. CASE r \in FailedCalls(p)
  <2>1. unlisted'[p] = unlisted[p] + 1 /\ unlisted[p] \in Nat
    BY <1>3, LosesOne DEF FailedCalls
  <2>2. /\ Cardinality(FailedRows(p)) \in Nat
        /\ IsFiniteSet(FailedCalls(p)) /\ Cardinality(FailedCalls(p)) \in Nat
    BY FailedFinite
  <2>3. /\ IsFiniteSet(FailedCalls(p) \ {r})
        /\ Cardinality(FailedCalls(p) \ {r}) = Cardinality(FailedCalls(p)) - 1
    BY <1>3, <2>2, FS_RemoveElement
  <2>4. IsFiniteSet(FailedCalls(p)') /\ Cardinality(FailedCalls(p)') \in Nat
    <3>1. IsFiniteSet(Requests) /\ FailedCalls(p)' \in SUBSET Requests
      BY FiniteAssumption DEF FailedCalls
    <3> QED
      BY <3>1, FS_Subset, FS_CardinalityType
  <2>5. Cardinality(FailedCalls(p) \ {r}) <= Cardinality(FailedCalls(p)')
    BY <1>1, <2>4, FS_Subset
  <2> QED
    BY <1>1, <2>1, <2>2, <2>3, <2>4, <2>5, SMTT(30) DEF FailuresShown
<1> QED
  BY <1>2, <1>3

\* A provider that is reported a failure: its count, and that of the reports.
LEMMA FailureWritten ==
  ASSUME Types, NEW p \in Providers, NEW read \in Nat, NEW at,
         read <= reported[p], Health!WriteFailure(p, read, at), \A q \in Providers : Earned(q)
  PROVE  /\ reported'[p] = reported[p] + 1
         /\ \A q \in Providers : q # p => reported'[q] = reported[q]
         /\ \A q \in Providers : Earned(q)' /\ reported[q] <= reported'[q]
<1>1. /\ row' = [row EXCEPT ![p] = Health!FailureRow(read, at)]
      /\ reported' = [reported EXCEPT ![p] = @ + 1]
  BY DEF Health!WriteFailure
<1>2. /\ Health!FailureRow(read, at).failures = read + 1
      /\ Health!FailureRow(read, at).status = "down" => read + 1 >= Threshold
  BY DEF Health!FailureRow
<1>3. /\ row'[p] = Health!FailureRow(read, at)
      /\ \A q \in Providers : q # p => row'[q] = row[q] /\ reported'[q] = reported[q]
      /\ reported'[p] = reported[p] + 1
  BY <1>1, HealthFields
<1>4. \A q \in Providers : reported[q] \in Nat
  BY HealthFields
<1>5. Earned(p)'
  BY <1>2, <1>3, <1>4 DEF Earned
<1> QED
  BY <1>3, <1>4, <1>5 DEF Earned

\* What a step that reports an outcome leaves of the other transactions.
LEMMA OtherTxs ==
  ASSUME Types, BreakerInv, NEW r \in Requests, Others(r),
         \A w \in Requests : w # r => tx'[w] = tx[w],
         \A q \in Providers : reported[q] <= reported'[q] /\ reported'[q] \in Nat,
         OpenTx(r)'
  PROVE  \A w \in Requests : OpenTx(w)'
<1>1. ASSUME NEW w \in Requests, w # r
      PROVE  OpenTx(w)'
  BY <1>1, HealthFields DEF BreakerInv, OpenTx, Others, ProviderIn, Candidate
<1> QED
  BY <1>1

\* A step that leaves the provider rows alone, and shows no fewer failures.
LEMMA BreakerStands ==
  ASSUME Types, BreakerInv, UNCHANGED healthVars, NEW r \in Requests, Others(r),
         pc[r] # "commit", LossInv',
         \A p \in Providers : /\ FailuresShown(p) <= FailuresShown(p)'
                              /\ FailuresShown(p) \in Nat /\ FailuresShown(p)' \in Nat
  PROVE  BreakerInv'
<1>1. row' = row /\ tx' = tx /\ reported' = reported
  BY DEF healthVars
<1>2. \A p \in Providers : Earned(p)'
  BY <1>1 DEF BreakerInv, Earned
<1>3. \A w \in Requests : OpenTx(w)'
  BY <1>1 DEF BreakerInv, OpenTx, Others, ProviderIn, Candidate
<1>4. \A p \in Providers : reported'[p] <= FailuresShown(p)'
  BY <1>1, HealthFields DEF BreakerInv
<1> QED
  BY <1>2, <1>3, <1>4 DEF BreakerInv

\* The calls that failed are kept by every step but those that end their report.
LEMMA CallsKept ==
  ASSUME NEW r \in Requests, Others(r), pc[r] # "usage", NEW p
  PROVE  FailedCalls(p) \subseteq FailedCalls(p)'
BY DEF FailedCalls, Others, ProviderIn, Candidate

\* recordProviderOutcome keeps the breaker.
LEMMA ReportSteps ==
  ASSUME PlaceInv, WalkInv, BreakerInv, NEW r \in Requests, Moves(r),
         ReportSuccess(r) \/ ReportFailure(r) \/ CommitOutcome(r)
  PROVE  BreakerInv'
<1> USE DEF PlaceInv
<1>1. /\ req' = req /\ ledger' = ledger /\ Others(r) /\ Replied(r)
      /\ ledger \in Seq(LedgerRows) /\ (ledger \in Seq(LedgerRows))'
      /\ pc[r] \in {"outcome", "commit"} /\ unlisted' = unlisted
  BY DEF ReportSuccess, ReportFailure, CommitOutcome, ledgerVars, Moves, WalkInv
<1>2. PICK p \in Providers : p = ProviderIn(r)
  BY <1>1, CandidateInPlan
<1>3. /\ \A q \in Providers : row[q].failures \in Nat /\ reported[q] \in Nat
      /\ \A q \in Providers : Earned(q)
      /\ \A q \in Providers : FailedCalls(q) \subseteq FailedCalls(q)'
      /\ \A q \in Providers : FailedRows(q) \subseteq FailedRows(q)'
  BY <1>1, HealthFields, CallsKept DEF BreakerInv, FailedRows
<1>0. LossInv' /\ \A q \in Providers : unlisted[q] \in Nat
  BY <1>1 DEF BreakerInv, LossInv
<1>4. \A q \in Providers : /\ FailuresShown(q) \in Nat /\ FailuresShown(q)' \in Nat
                           /\ FailuresShown(q) <= FailuresShown(q)'
  BY <1>0, <1>1, <1>3, ShownGrows
<1>5. CASE ReportSuccess(r)
  <2>1. /\ row' = [row EXCEPT ![p] = Health!SuccessRow] /\ UNCHANGED <<tx, reported>>
        /\ tx[r] = Health!NoTx
    BY <1>2, <1>5 DEF ReportSuccess, Health!RecordSuccess
  <2>2. Health!SuccessRow.failures = 0 /\ Health!SuccessRow.status # "down"
    BY DEF Health!SuccessRow
  <2>3. \A q \in Providers : Earned(q)'
    <3>1. row'[p] = Health!SuccessRow /\ \A q \in Providers : q # p => row'[q] = row[q]
      BY <1>2, <2>1, HealthFields
    <3> QED
      BY <1>3, <2>1, <2>2, <3>1 DEF Earned
  <2>4. \A w \in Requests : OpenTx(w)'
    BY <1>1, <1>3, <2>1, OtherTxs DEF OpenTx
  <2> QED
    BY <1>0, <1>3, <1>4, <2>1, <2>3, <2>4 DEF BreakerInv
<1>6. ASSUME NEW read \in Nat, NEW at, read <= reported[p], Health!WriteFailure(p, read, at),
             pc'[r] = "usage", StatusIsFailure(req[r].reply.status),
             \A w \in Requests : w # r => tx'[w] = tx[w], tx'[r] = Health!NoTx
      PROVE  BreakerInv'
  <2>1. /\ reported'[p] = reported[p] + 1
        /\ \A q \in Providers : q # p => reported'[q] = reported[q]
        /\ \A q \in Providers : Earned(q)' /\ reported[q] <= reported'[q]
    BY <1>2, <1>3, <1>6, FailureWritten
  <2>2. FailuresShown(p)' = FailuresShown(p) + 1
    BY <1>0, <1>1, <1>2, <1>6, FailureReported
  <2>3. \A q \in Providers : reported'[q] \in Nat
    BY <1>3, <2>1
  <2>4. \A w \in Requests : OpenTx(w)'
    BY <1>1, <1>6, <2>1, <2>3, OtherTxs DEF OpenTx
  <2>5. ASSUME NEW q \in Providers
        PROVE  reported'[q] <= FailuresShown(q)'
    <3>1. reported[q] <= FailuresShown(q)
      BY <2>5 DEF BreakerInv
    <3>2. CASE q = p
      BY <1>2, <1>3, <1>4, <2>1, <2>2, <3>1, <3>2
    <3>3. CASE q # p
      BY <1>3, <1>4, <2>1, <3>1, <3>3
    <3> QED
      BY <3>2, <3>3
  <2> QED
    BY <1>0, <2>1, <2>4, <2>5 DEF BreakerInv
<1>7. CASE ReportFailure(r) /\ Health!RecordFailure(r, p) /\ Goto(r, "usage")
  <2>1. PICK at \in Health!Recent : Health!WriteFailure(p, row[p].failures, at)
    BY <1>7 DEF Health!RecordFailure
  <2>2. tx' = tx /\ tx[r] = Health!NoTx /\ StatusIsFailure(req[r].reply.status)
    BY <1>7 DEF Health!RecordFailure, ReportFailure
  <2>3. pc'[r] = "usage"
    BY <1>7, GotoMoves DEF Labels
  <2>4. row[p].failures <= reported[p]
    BY <1>2, <1>3 DEF Earned
  <2> QED
    BY <1>2, <1>3, <1>6, <2>1, <2>2, <2>3, <2>4
<1>8. CASE ReportFailure(r) /\ Health!ReadFailures(r, p) /\ Goto(r, "commit")
  <2>1. PICK at \in Health!Recent :
          tx' = [tx EXCEPT ![r] = [provider |-> p, read |-> row[p].failures, at |-> at]]
    BY <1>8 DEF Health!ReadFailures
  <2>2. row' = row /\ reported' = reported
    BY <1>8 DEF Health!ReadFailures
  <2>3. pc'[r] = "commit"
    BY <1>8, GotoMoves DEF Labels
  <2>4. /\ tx'[r].provider = p /\ tx'[r].read = row[p].failures
        /\ \A w \in Requests : w # r => tx'[w] = tx[w]
    BY <2>1, HealthFields
  <2>5. row[p].failures <= reported[p]
    BY <1>2, <1>3 DEF Earned
  <2>6. OpenTx(r)'
    BY <1>1, <1>2, <2>2, <2>3, <2>4, <2>5 DEF OpenTx, ProviderIn, Candidate
  <2>7. \A w \in Requests : OpenTx(w)'
    BY <1>1, <1>3, <2>2, <2>4, <2>6, OtherTxs
  <2>8. \A q \in Providers : Earned(q)'
    BY <1>3, <2>2 DEF Earned
  <2> QED
    BY <1>0, <1>3, <1>4, <2>2, <2>7, <2>8 DEF BreakerInv
<1>9. CASE CommitOutcome(r)
  <2>1. /\ tx[r] # Health!NoTx /\ Health!WriteFailure(tx[r].provider, tx[r].read, tx[r].at)
        /\ tx' = [tx EXCEPT ![r] = Health!NoTx] /\ pc[r] = "commit"
    BY <1>9 DEF CommitOutcome, Health!CommitFailure
  <2>2. pc'[r] = "usage"
    BY <1>9, GotoMoves DEF CommitOutcome, Labels
  <2>3. /\ tx[r].provider = p /\ tx[r].read <= reported[p] /\ tx[r].read \in Nat
    BY <1>2, <2>1, HealthFields DEF BreakerInv, OpenTx
  <2>4. StatusIsFailure(req[r].reply.status)
    BY <1>1, <2>1 DEF Replied
  <2>5. tx'[r] = Health!NoTx /\ \A w \in Requests : w # r => tx'[w] = tx[w]
    BY <2>1, HealthFields
  <2> QED
    BY <1>6, <2>1, <2>2, <2>3, <2>4, <2>5
<1>10. ReportFailure(r) => \/ ReportFailure(r) /\ Health!RecordFailure(r, p) /\ Goto(r, "usage")
                           \/ ReportFailure(r) /\ Health!ReadFailures(r, p) /\ Goto(r, "commit")
  BY <1>2 DEF ReportFailure
<1> QED
  BY <1>5, <1>7, <1>8, <1>9, <1>10

\* A transaction that rolls back: its request goes on, or is gone.
LEMMA RollbackSteps ==
  ASSUME PlaceInv, WalkInv, BreakerInv, NEW r \in Requests, Moves(r),
         OutcomeFault(r) \/ Disconnect(r)
  PROVE  BreakerInv'
<1> USE DEF PlaceInv
<1>1. /\ req' = req /\ ledger' = ledger /\ Others(r)
      /\ ledger \in Seq(LedgerRows) /\ (ledger \in Seq(LedgerRows))'
  BY DEF OutcomeFault, Disconnect, ledgerVars, Moves, WalkInv
<1>2. \/ StoreFaults /\ pc[r] \in {"outcome", "commit"}
      \/ pc[r] \in Active /\ pc'[r] = "gone" /\ req'[r] = req[r]
  BY <1>1, GotoMoves DEF OutcomeFault, Disconnect, Labels
<1>3. /\ row' = row /\ reported' = reported
      /\ \A w \in Requests : w # r => tx'[w] = tx[w]
      /\ tx'[r] = Health!NoTx
  <2>1. CASE Health!Rollback(r)
    BY <2>1, HealthFields DEF Health!Rollback
  <2>2. CASE pc[r] # "commit" /\ UNCHANGED healthVars
    BY <2>2 DEF healthVars, BreakerInv, OpenTx
  <2> QED
    BY <2>1, <2>2 DEF OutcomeFault, Disconnect
<1>4. \A q \in Providers : row[q].failures \in Nat /\ reported[q] \in Nat
  BY HealthFields
<1>5. \A w \in Requests : OpenTx(w)'
  BY <1>1, <1>3, <1>4, OtherTxs DEF OpenTx
<1>6. \A q \in Providers : Earned(q)'
  BY <1>3 DEF BreakerInv, Earned
<1>7. LossInv /\ LossInv' /\ \A q \in Providers : /\ unlisted[q] \in Nat
                                                   /\ unlisted'[q] \in Nat
                                                   /\ unlisted[q] <= unlisted'[q]
  BY LossStep DEF BreakerInv, Next, Handle
<1>8. ASSUME NEW q \in Providers
      PROVE  reported'[q] <= FailuresShown(q)'
  <2>1. /\ FailuresShown(q) \in Nat /\ FailuresShown(q)' \in Nat
        /\ FailuresShown(q) <= FailuresShown(q)'
    <3>1. CASE pc[r] # "usage"
      <4>1. FailedCalls(q) \subseteq FailedCalls(q)' /\ FailedRows(q) \subseteq FailedRows(q)'
        BY <1>1, <3>1, CallsKept DEF FailedRows
      <4> QED
        BY <1>1, <1>7, <4>1, ShownGrows
    <3>2. CASE pc[r] = "usage"
      <4>1. Disconnect(r) /\ LosesRow(r)
        BY <1>2, <3>2 DEF OutcomeFault, Disconnect
      <4>2. ProviderIn(r) \in Providers
        BY <3>2, CandidateInPlan
      <4> QED
        BY <1>1, <1>7, <4>1, <4>2, FailureLost
    <3> QED
      BY <3>1, <3>2
  <2> QED
    BY <1>3, <1>4, <2>1 DEF BreakerInv
<1> QED
  BY <1>5, <1>6, <1>7, <1>8 DEF BreakerInv

\* Every step does.
LEMMA BreakerStep ==
  PlaceInv /\ PlaceInv' /\ WalkInv /\ WalkInv' /\ BreakerInv /\ [Next]_vars => BreakerInv'
<1> SUFFICES ASSUME PlaceInv, PlaceInv', WalkInv, WalkInv', BreakerInv, [Next]_vars
             PROVE  BreakerInv'
  OBVIOUS
<1>0. LossInv /\ LossInv' /\ \A p \in Providers : /\ unlisted[p] \in Nat
                                                   /\ unlisted'[p] \in Nat
                                                   /\ unlisted[p] <= unlisted'[p]
  BY LossStep DEF BreakerInv
<1>1. ASSUME NEW r \in Requests,
             ReportSuccess(r) \/ ReportFailure(r) \/ CommitOutcome(r) \/ OutcomeFault(r)
             \/ Disconnect(r)
      PROVE  BreakerInv'
  BY <1>1, StepKinds, ReportSteps, RollbackSteps DEF Moves, Handle
<1>2. ASSUME NEW r \in Requests,
             \/ Arrive(r) \/ RefuseModel(r) \/ CheckLimit(r) \/ GateFault(r) \/ Admit(r)
             \/ SkipOpenCircuit(r) \/ SelectCandidate(r) \/ Dispatch(r) \/ Reply(r)
      PROVE  BreakerInv'
  <2>1. /\ UNCHANGED healthVars /\ ledger' = ledger /\ pc[r] \notin {"commit", "usage"}
    BY <1>2 DEF Arrive, RefuseModel, CheckLimit, GateFault, Admit, SkipOpenCircuit,
                SelectCandidate, Dispatch, Reply, ledgerVars
  <2>2. Others(r)
    BY <1>2, StepKinds DEF Handle
  <2>3. ledger \in Seq(LedgerRows) /\ (ledger \in Seq(LedgerRows))'
    BY DEF WalkInv
  <2>4. \A p \in Providers : /\ FailedCalls(p) \subseteq FailedCalls(p)'
                             /\ FailedRows(p) \subseteq FailedRows(p)'
    BY <2>1, <2>2, CallsKept DEF FailedRows
  <2>5. \A p \in Providers : /\ FailuresShown(p) <= FailuresShown(p)'
                             /\ FailuresShown(p) \in Nat /\ FailuresShown(p)' \in Nat
    BY <1>0, <2>3, <2>4, ShownGrows
  <2> QED
    BY <1>0, <2>1, <2>2, <2>5, BreakerStands, SMTT(30) DEF PlaceInv
<1>3. ASSUME NEW r \in Requests, RecordUsage(r)
      PROVE  BreakerInv'
  <2>1. UNCHANGED healthVars /\ pc[r] = "usage" /\ unlisted' = unlisted
    BY <1>3 DEF RecordUsage
  <2>2. Others(r) /\ Records(r)
    BY <1>3, UsageMoves
  <2> QED
    BY <1>0, <2>1, <2>2, FailureRecorded, BreakerStands DEF PlaceInv
<1>4. ASSUME NEW r \in Requests, UsageFault(r)
      PROVE  BreakerInv'
  <2>1. UNCHANGED healthVars /\ pc[r] = "usage" /\ LosesRow(r) /\ ledger' = ledger
    BY <1>4 DEF UsageFault
  <2>2. Others(r)
    BY <1>4, StepKinds DEF Handle
  <2>3. ProviderIn(r) \in Providers /\ ledger \in Seq(LedgerRows)
    BY <2>1, CandidateInPlan DEF PlaceInv, WalkInv
  <2> QED
    BY <1>0, <2>1, <2>2, <2>3, FailureLost, BreakerStands DEF PlaceInv
<1>5. CASE Tick \/ MinutePasses \/ MonthBegins \/ UNCHANGED vars
  <2>1. UNCHANGED <<row, tx, reported, ledger, unlisted, pc, req>>
    BY <1>5 DEF Tick, Health!Tick, MinutePasses, MonthBegins, vars, healthVars, ledgerVars
  <2>2. \A p : FailedRows(p)' = FailedRows(p) /\ FailedCalls(p)' = FailedCalls(p)
    BY <2>1 DEF FailedRows, FailedCalls, ProviderIn, Candidate
  <2>3. \A p : FailuresShown(p)' = FailuresShown(p)
    BY <2>1, <2>2 DEF FailuresShown
  <2> QED
    BY <1>0, <2>1, <2>3 DEF BreakerInv, Earned, OpenTx, ProviderIn, Candidate
<1> QED
  BY <1>1, <1>2, <1>3, <1>4, <1>5 DEF Next, Handle

LEMMA BreakerInitially == Init => BreakerInv
<1> SUFFICES ASSUME Init PROVE BreakerInv
  OBVIOUS
<1>1. /\ row = [p \in Providers |-> Health!FreshRow] /\ tx = [w \in Requests |-> Health!NoTx]
      /\ reported = [p \in Providers |-> 0] /\ ledger = <<>>
  BY DEF Init, Health!Init
<1>2. Health!FreshRow.failures = 0 /\ Health!FreshRow.status # "down"
  BY DEF Health!FreshRow
<1>3. ledger \in Seq(LedgerRows) /\ unlisted = [p \in Providers |-> 0]
  BY <1>1 DEF Init
<1>4. \A p \in Providers : 0 <= FailuresShown(p)
  BY <1>3, FailedFinite DEF FailuresShown
<1> QED
  BY <1>1, <1>2, <1>3, <1>4 DEF LossInv, BreakerInv, Earned, OpenTx

\* A provider is down only when as many attempts at it failed as the threshold says, each
\* of them with a row in the ledger, about to get it, or known to have lost it when the
\* INSERT failed or the client went away: MarkProviderFailure and recordUsage write the two
\* tables one after the other, and on Postgres two failures may be counted as one.
THEOREM DownIsExplained == Spec => []LedgerExplainsDown
<1>1. PlaceInv /\ WalkInv /\ BreakerInv => LedgerExplainsDown
  <2> SUFFICES ASSUME PlaceInv, WalkInv, BreakerInv, NEW p \in Providers,
                      row[p].status = "down"
               PROVE  FailuresShown(p) >= Threshold
    BY DEF LedgerExplainsDown
  <2>1. row[p].failures \in Nat /\ reported[p] \in Nat
    BY HealthFields DEF PlaceInv
  <2>2. FailuresShown(p) \in Nat
    BY FailedFinite DEF WalkInv, FailuresShown, BreakerInv, LossInv
  <2>3. Threshold \in Nat
    BY ThresholdAssumption
  <2> QED
    BY <2>1, <2>2, <2>3 DEF BreakerInv, Earned
<1> QED
  BY <1>1, PlaceAlways, WalkAlways, BreakerInitially, BreakerStep, PTL DEF Spec

-----------------------------------------------------------------------------
(***************************************************************************)
(* The limits.  What a limit's window shows, and what the requests that    *)
(* were checked for it may still add.                                      *)
(***************************************************************************)
MaxAttempts == Max({plan.attempts : plan \in Plans})

\* A plan's attempts are within the bound of all plans, and a request that calls was
\* checked for every limit that its candidate is subject to.
Checked(r) ==
  /\ req[r].plan.attempts <= MaxAttempts
  /\ pc[r] \in Calling \/ (pc[r] = "select" /\ req[r].idx = 1) => Pending(r) = {}

\* The plans have a greatest number of attempts.
LEMMA AttemptsBound ==
  MaxAttempts \in 1..6 /\ \A plan \in Plans : plan.attempts \in 1..MaxAttempts
<1> DEFINE tries == {plan.attempts : plan \in Plans}
<1>1. \A plan \in Plans : plan.attempts \in 1..6
  BY PlansAssumption
<1>2. tries \in SUBSET (1..6) /\ tries # {}
  BY <1>1, PlansAssumption
<1>3. IsFiniteSet(tries) /\ tries \in SUBSET Nat
  <2> DEFINE low  == 1
             high == 6
  <2>1. low \in Int /\ high \in Int /\ tries \in SUBSET (low..high) /\ tries \in SUBSET Nat
    BY <1>2
  <2> HIDE DEF tries, low, high
  <2> QED
    BY <2>1, FS_Interval, FS_Subset
<1>4. Max(tries) \in tries /\ \A x \in tries : x <= Max(tries)
  <2> HIDE DEF tries
  <2> QED
    BY <1>2, <1>3, MaxOf
<1>5. MaxAttempts = Max(tries)
  BY DEF MaxAttempts
<1> QED
  BY <1>1, <1>2, <1>4, <1>5

LEMMA SomeModel == Models # {}
<1>1. PICK plan \in Plans : TRUE
  BY PlansAssumption
<1>2. plan.candidates \in Seq(Models) /\ plan.candidates # <<>>
  BY PlansAssumption
<1> QED
  BY <1>2

\* A row adds at most the unit to a limit.
LEMMA UnitType ==
  ASSUME NEW l \in Limits
  PROVE  /\ UnitOf(l) \in Nat
         /\ l.kind = "usd" => \A m \in Models, tokens \in 0..MaxTokens :
                                /\ Price[m] * tokens \in Nat
                                /\ Price[m] * tokens <= UnitOf(l)
<1> DEFINE prices == {Price[m] : m \in Models}
           top    == Max(prices)
<1>1. l.kind \in {"usd", "rpm", "tpm"} /\ MaxTokens \in Nat
  BY LimitsAssumption, MaxTokensAssumption
<1>2. prices \in SUBSET Nat /\ prices # {}
  BY PriceAssumption, SomeModel
<1>3. IsFiniteSet(prices)
  <2>1. Price \in Surjection(Models, prices)
    BY PriceAssumption DEF Surjection
  <2> HIDE DEF prices
  <2> QED
    BY <2>1, FiniteAssumption, FS_Surjection
<1>4. top \in Nat /\ \A m \in Models : Price[m] \in Nat /\ Price[m] <= top
  <2>1. \A m \in Models : Price[m] \in prices
    OBVIOUS
  <2> HIDE DEF prices
  <2> QED
    BY <1>2, <1>3, <2>1, MaxOf
<1> HIDE DEF top
<1>5. l.kind = "usd" => UnitOf(l) = MaxTokens * top
  BY DEF UnitOf, top
<1>6. \A a, b \in Nat : a * b \in Nat /\ a * b = b * a
  OBVIOUS
<1>7. UnitOf(l) \in Nat
  BY <1>1, <1>4, <1>5, <1>6 DEF UnitOf
<1>8. ASSUME NEW m \in Models, NEW tokens \in 0..MaxTokens
      PROVE  Price[m] * tokens \in Nat /\ Price[m] * tokens <= MaxTokens * top
  <2>1. Price[m] \in Nat /\ tokens \in Nat /\ tokens <= MaxTokens /\ Price[m] <= top
    BY <1>1, <1>4
  <2>2. Price[m] * tokens \in Nat /\ Price[m] * tokens <= top * tokens
    BY <1>4, <2>1, ProductMonotone
  <2>3. tokens * top \in Nat /\ MaxTokens * top \in Nat /\ tokens * top <= MaxTokens * top
    BY <1>1, <1>4, <2>1, ProductMonotone
  <2>4. top * tokens = tokens * top
    BY <1>4, <1>6, <2>1
  <2> QED
    BY <2>2, <2>3, <2>4
<1> QED
  BY <1>5, <1>7, <1>8

LEMMA ChargeType ==
  ASSUME NEW l \in Limits, NEW e \in LedgerRows
  PROVE  ChargeTo(l, e) \in Nat
<1>1. e.cost \in Nat /\ e.tokens \in Nat
  BY MaxTokensAssumption DEF LedgerRows
<1>2. l.kind \in {"usd", "rpm", "tpm"}
  BY LimitsAssumption
<1> QED
  BY <1>1, <1>2 DEF ChargeTo, Amount

\* What the row of an attempt adds to a limit.
LEMMA EntryCharge ==
  ASSUME Types, NEW r \in Requests, InPlan(r), pc[r] = "usage", Replied(r),
         NEW status \in FinalStatuses(r), NEW tokens \in 0..MaxTokens, NEW l \in Limits
  PROVE  /\ ChargeTo(l, Entry(r, status, tokens)) \in Nat
         /\ ChargeTo(l, Entry(r, status, tokens)) <= UnitOf(l)
         /\ ~Applies(l, r, Candidate(r)) => ChargeTo(l, Entry(r, status, tokens)) = 0
<1> DEFINE e == Entry(r, status, tokens)
<1>1. e \in LedgerRows
  BY EntryType
<1>2. Candidate(r) \in Models /\ tokens \in Nat /\ tokens <= MaxTokens
  BY CandidateInPlan, MaxTokensAssumption
<1>3. /\ e.cost = Price[Candidate(r)] * tokens /\ e.tokens = tokens
      /\ e.user = Owner[r].user /\ e.department = Owner[r].department /\ e.key = Owner[r].key
      /\ e.provider = ProviderOf[Candidate(r)] /\ e.model = Candidate(r)
  BY DEF Entry
<1>4. /\ l.kind \in {"usd", "rpm", "tpm"}
      /\ l.field \in {"user", "department", "key", "provider", "model"}
  BY LimitsAssumption
<1>5. e[l.field] = Scope(r, Candidate(r))[l.field]
  BY <1>3, <1>4 DEF Scope
<1> HIDE DEF e
<1>6. ChargeTo(l, e) \in Nat
  BY <1>1, ChargeType
<1>7. ChargeTo(l, e) <= UnitOf(l)
  <2>1. l.kind = "usd" => e.cost <= UnitOf(l)
    BY <1>2, <1>3, UnitType
  <2>2. UnitOf(l) \in Nat
    BY UnitType
  <2> QED
    BY <1>2, <1>3, <1>4, <2>1, <2>2 DEF ChargeTo, Amount, UnitOf
<1>8. ~Applies(l, r, Candidate(r)) => ChargeTo(l, e) = 0
  <2>1. ~IsPriced(Candidate(r)) => e.cost = 0
    <3>1. Price[Candidate(r)] \in Nat
      BY <1>2, PriceAssumption
    <3>2. ~IsPriced(Candidate(r)) => Price[Candidate(r)] = 0
      BY <3>1 DEF IsPriced
    <3> QED
      BY <1>2, <1>3, <3>2
  <2> QED
    BY <1>5, <2>1 DEF Applies, ChargeTo, Amount
<1> QED
  BY <1>6, <1>7, <1>8 DEF e

CheckedInv == \A r \in Requests : Checked(r)

LEMMA CheckedInitially == Init => CheckedInv
<1> SUFFICES ASSUME Init, NEW r \in Requests PROVE Checked(r)
  BY DEF CheckedInv
<1>1. pc[r] = "idle" /\ req[r].plan.attempts = 1
  BY DEF Init, NewRequest, NoPlan
<1> QED
  BY <1>1, AttemptsBound DEF Checked, Calling

\* A candidate that is called stays checked.
LEMMA CheckedStep == PlaceInv /\ PlaceInv' /\ WalkInv /\ CheckedInv /\ [Next]_vars => CheckedInv'
<1> SUFFICES ASSUME PlaceInv, PlaceInv', WalkInv, CheckedInv, [Next]_vars
             PROVE  CheckedInv'
  OBVIOUS
<1>1. ASSUME NEW s \in Requests, pc'[s] = pc[s], req'[s] = req[s]
      PROVE  Checked(s)'
  BY <1>1 DEF CheckedInv, Checked, Pending, Candidate, Applies, Scope
<1>2. ASSUME NEW r \in Requests, Moves(r)
      PROVE  CheckedInv'
  <2>0. Checked(r) /\ req[r].idx \in Nat /\ (pc[r] # "idle" => req[r].idx >= 1)
    BY CountTypes DEF CheckedInv, PlaceInv, InPlan
  <2>1. Checked(r)'
    <3>1. CASE Comes(r)
      <4>1. PICK plan \in Plans : req'[r].plan.attempts <= plan.attempts
        BY <3>1 DEF Comes
      <4>2. req'[r].plan.attempts \in Nat /\ plan.attempts <= MaxAttempts /\ plan.attempts \in Nat
            /\ MaxAttempts \in Nat
        BY <3>1, AttemptsBound DEF Comes, Locals, PlanSet
      <4> QED
        BY <3>1, <4>1, <4>2 DEF Comes, Checked, Calling
    <3>2. ASSUME NEW status, Answered(r, status), Ends(r)
          PROVE  Checked(r)'
      BY <2>0, <3>2 DEF Answered, Ends, SamePlan, Checked, Calling
    <3>3. ASSUME Advances(r), pc[r] # "idle"
          PROVE  Checked(r)'
      BY <2>0, <3>3 DEF Advances, SamePlan, Checked, Calling
    <3>4. CASE Refused(r)
      BY <3>2, <3>3, <3>4 DEF Refused
    <3>5. CASE \E l \in Limits : Passes(r, l)
      BY <2>0, <3>5, SMTT(30) DEF Passes, GoesOn, SamePlan, Checked, Calling
    <3>6. CASE Steps(r)
      BY <2>0, <3>6 DEF Steps, Admitted, Selected, Reports, Checked, Calling, Pending, Candidate,
                        Applies, Scope
    <3>7. CASE Dispatches(r) \/ Hears(r)
      BY <2>0, <3>7 DEF Dispatches, Hears, GoesOn, SamePlan, SameTurn, Checked, Calling, Pending,
                        Candidate, Applies, Scope
    <3>8. CASE Records(r) \/ Loses(r)
      <4>1. PICK status : GoesOnAfter(r, status)
        BY <3>8 DEF Records, Loses
      <4>2. CASE TriesAgain(r, status)
        BY <2>0, <3>8, <4>2 DEF TriesAgain, GoesOn, SamePlan, Retries, SameTurn, Checked, Calling,
                                Pending, Candidate, Applies, Scope, Records, Loses
      <4> QED
        BY <3>2, <3>3, <3>8, <4>1, <4>2 DEF GoesOnAfter, Stops, GivesUp, Records, Loses
    <3> QED
      BY <1>2, <3>1, <3>4, <3>5, <3>6, <3>7, <3>8 DEF Moves
  <2> QED
    BY <1>1, <1>2, <2>1 DEF CheckedInv, Moves, Others
<1>3. ASSUME NEW r \in Requests, Arrive(r) \/ Handle(r) \/ Disconnect(r)
      PROVE  CheckedInv'
  BY <1>2, <1>3, StepKinds DEF Moves
<1>4. CASE Tick \/ MinutePasses \/ MonthBegins \/ UNCHANGED vars
  BY <1>1, <1>4 DEF Tick, MinutePasses, MonthBegins, vars, CheckedInv
<1> QED
  BY <1>3, <1>4 DEF Next

-----------------------------------------------------------------------------
\* The permits of a limit as the requests hold them, and its usage: their types.

PermitTypes ==
  \A l \in Limits : /\ Permits(l) \in Nat /\ Permits(l) <= PermitCap /\ PermitCap \in Nat
                    /\ \A r \in Requests : PermitsOf(r, l) \in Nat

UsageTypes ==
  /\ minuteStart \in 0..Len(ledger) /\ monthStart \in 0..Len(ledger)
  /\ \A l \in Limits : Used(l) \in Nat

\* No more permits are held than the cap has.
LEMMA PermitsBound == PlaceInv /\ WalkInv /\ CheckedInv => PermitTypes
<1> SUFFICES ASSUME PlaceInv, WalkInv, CheckedInv, NEW l \in Limits
             PROVE  /\ Permits(l) \in Nat /\ Permits(l) <= PermitCap /\ PermitCap \in Nat
                    /\ \A r \in Requests : PermitsOf(r, l) \in Nat
  BY DEF PermitTypes
<1> DEFINE f == [r \in Requests |-> PermitsOf(r, l)]
<1>1. ASSUME NEW r \in Requests
      PROVE  PermitsOf(r, l) \in Nat /\ PermitsOf(r, l) <= MaxAttempts
  <2>1. /\ req[r].plan.attempts \in 1..6 /\ req[r].attempt \in Nat
        /\ req[r].attempt <= req[r].plan.attempts /\ req[r].plan.attempts <= MaxAttempts
        /\ InFlight(r) => req[r].attempt >= 1
        /\ MaxAttempts \in Nat
    BY CountTypes, AttemptsBound DEF PlaceInv, WalkInv, Counts, CheckedInv, Checked
  <2> QED
    BY <2>1 DEF PermitsOf
<1>2. IsFiniteSet(Requests) /\ MaxAttempts \in Nat /\ Cardinality(Requests) \in Nat
  BY FiniteAssumption, AttemptsBound, FS_CardinalityType
<1>3. \A r \in Requests : f[r] \in Nat /\ f[r] <= MaxAttempts
  BY <1>1
<1> HIDE DEF f
<1>4. SumFunctionOnSet(f, Requests) \in Nat
  BY <1>2, <1>3, SumType
<1>5. SumFunctionOnSet(f, Requests) <= Cardinality(Requests) * MaxAttempts
  BY <1>2, <1>3, SumBound
<1>6. \A a, b \in Nat : a * b \in Nat
  OBVIOUS
<1>7. Cardinality(Requests) * MaxAttempts \in Nat
  BY <1>2, <1>6
<1> QED
  BY <1>1, <1>4, <1>5, <1>7 DEF f, Permits, PermitCap, MaxAttempts

LEMMA UsageBound == TypeOK => UsageTypes
<1> SUFFICES ASSUME TypeOK, NEW l \in Limits PROVE Used(l) \in Nat
  BY DEF TypeOK, UsageTypes
<1> DEFINE f == [i \in DOMAIN ledger |-> ChargeTo(l, ledger[i])]
           S == (WindowStart(l) + 1)..Len(ledger)
<1>1. /\ WindowStart(l) \in 0..Len(ledger) /\ Len(ledger) \in Nat
      /\ DOMAIN ledger = 1..Len(ledger)
      /\ \A i \in DOMAIN ledger : ledger[i] \in LedgerRows
  BY RowTypes DEF TypeOK, WindowStart
<1>2. S \subseteq DOMAIN ledger /\ \A i \in S : f[i] \in Nat
  BY <1>1, ChargeType
<1>3. IsFiniteSet(S)
  <2>1. WindowStart(l) + 1 \in Int /\ Len(ledger) \in Int
    BY <1>1
  <2> QED
    BY <2>1, FS_Interval
<1> HIDE DEF f, S
<1>4. SumFunctionOnSet(f, S) \in Nat
  BY <1>2, <1>3, SumType
<1> QED
  BY <1>4 DEF f, S, Used

\* A step of one request changes the permits by what it changes its own.
LEMMA PermitsMove ==
  ASSUME PermitTypes, PermitTypes', NEW l \in Limits, NEW r \in Requests, Others(r)
  PROVE  \E rest \in Nat : /\ Permits(l) = PermitsOf(r, l) + rest
                           /\ Permits(l)' = PermitsOf(r, l)' + rest
<1> DEFINE f == [s \in Requests |-> PermitsOf(s, l)]
           g == [s \in Requests |-> PermitsOf(s, l)']
           R == Requests \ {r}
<1>1. \A s \in Requests : f[s] \in Nat /\ g[s] \in Nat
  BY DEF PermitTypes
<1>2. \A s \in R : f[s] = g[s]
  BY DEF Others, PermitsOf, InFlight
<1>3. Permits(l) = SumFunctionOnSet(f, Requests) /\ Permits(l)' = SumFunctionOnSet(g, Requests)
  BY DEF Permits
<1>4. f[r] = PermitsOf(r, l) /\ g[r] = PermitsOf(r, l)'
  OBVIOUS
<1>5. IsFiniteSet(Requests) /\ IsFiniteSet(R) /\ R \subseteq Requests
  <2>1. R \in SUBSET Requests
    OBVIOUS
  <2> HIDE DEF R
  <2> QED
    BY <2>1, FiniteAssumption, FS_Subset
<1>6. R = Requests \ {r}
  OBVIOUS
<1> HIDE DEF f, g, R
<1>7. /\ SumFunctionOnSet(f, Requests) = f[r] + SumFunctionOnSet(f, R)
      /\ SumFunctionOnSet(g, Requests) = g[r] + SumFunctionOnSet(g, R)
  BY <1>1, <1>5, <1>6, SumRemove
<1>8. SumFunctionOnSet(f, R) = SumFunctionOnSet(g, R) /\ SumFunctionOnSet(f, R) \in Nat
  BY <1>1, <1>2, <1>5, SumSame, SumType
<1> QED
  BY <1>3, <1>4, <1>7, <1>8

\* A row is appended.
LEMMA UsageGrows ==
  ASSUME TypeOK, NEW e \in LedgerRows, ledger' = Append(ledger, e),
         UNCHANGED <<minuteStart, monthStart>>, NEW l \in Limits
  PROVE  Used(l)' = Used(l) + ChargeTo(l, e)
<1> DEFINE f == [i \in DOMAIN ledger |-> ChargeTo(l, ledger[i])]
           g == [i \in DOMAIN ledger' |-> ChargeTo(l, ledger'[i])]
           n == Len(ledger) + 1
           S == (WindowStart(l) + 1)..Len(ledger)
           R == (WindowStart(l) + 1)..(Len(ledger) + 1)
<1>1. /\ ledger \in Seq(LedgerRows) /\ WindowStart(l) \in 0..Len(ledger)
      /\ WindowStart(l)' = WindowStart(l) /\ \A i \in DOMAIN ledger : ledger[i] \in LedgerRows
  BY RowTypes DEF TypeOK, WindowStart
<1>2. /\ Len(ledger) \in Nat /\ DOMAIN ledger = 1..Len(ledger) /\ DOMAIN ledger' = 1..n
      /\ Len(ledger') = n
      /\ \A i \in DOMAIN ledger : ledger'[i] = ledger[i]
      /\ ledger'[n] = e
  BY <1>1, Appended
<1>3. /\ n \in R /\ S = R \ {n} /\ S \subseteq DOMAIN ledger
      /\ \A i \in R : i \in DOMAIN ledger' /\ (i = n \/ i \in DOMAIN ledger)
  BY <1>1, <1>2
<1>4. \A i \in S : f[i] \in Nat /\ f[i] = g[i]
  BY <1>1, <1>2, <1>3, ChargeType
<1>5. g[n] = ChargeTo(l, e) /\ \A i \in R : g[i] \in Nat
  <2>1. g[n] = ChargeTo(l, e) /\ ChargeTo(l, e) \in Nat
    BY <1>2, <1>3, ChargeType
  <2>2. \A i \in R : i = n \/ i \in S
    BY <1>3
  <2> HIDE DEF g, R, S, n
  <2> QED
    BY <1>4, <2>1, <2>2
<1>6. IsFiniteSet(S)
  <2>1. WindowStart(l) + 1 \in Int /\ Len(ledger) \in Int
    BY <1>1, <1>2
  <2> QED
    BY <2>1, FS_Interval
<1>7. Used(l) = SumFunctionOnSet(f, S) /\ Used(l)' = SumFunctionOnSet(g, R)
  BY <1>1, <1>2 DEF Used
<1> HIDE DEF f, g, n, S, R
<1>8. SumFunctionOnSet(g, R) = g[n] + SumFunctionOnSet(g, S)
  BY <1>3, <1>5, <1>6, SumAdd
<1>9. SumFunctionOnSet(f, S) = SumFunctionOnSet(g, S) /\ SumFunctionOnSet(f, S) \in Nat
  BY <1>4, <1>6, SumSame, SumType
<1>10. ChargeTo(l, e) \in Nat
  BY ChargeType
<1> QED
  BY <1>5, <1>7, <1>8, <1>9, <1>10

\* A window moves past old rows.
LEMMA UsageSlides ==
  ASSUME TypeOK, ledger' = ledger, NEW l \in Limits,
         WindowStart(l)' \in 0..Len(ledger), WindowStart(l)' >= WindowStart(l)
  PROVE  Used(l)' \in Nat /\ Used(l)' <= Used(l)
<1> DEFINE f == [i \in DOMAIN ledger |-> ChargeTo(l, ledger[i])]
           S == (WindowStart(l) + 1)..Len(ledger)
           R == (WindowStart(l)' + 1)..Len(ledger)
<1>1. /\ ledger \in Seq(LedgerRows) /\ WindowStart(l) \in 0..Len(ledger)
      /\ DOMAIN ledger = 1..Len(ledger) /\ Len(ledger) \in Nat
      /\ \A i \in DOMAIN ledger : ledger[i] \in LedgerRows
  BY RowTypes DEF TypeOK, WindowStart
<1>2. R \in SUBSET S /\ \A i \in S : f[i] \in Nat
  BY <1>1, ChargeType
<1>3. IsFiniteSet(S) /\ IsFiniteSet(R)
  <2>1. WindowStart(l) + 1 \in Int /\ Len(ledger) \in Int /\ WindowStart(l)' + 1 \in Int
    BY <1>1
  <2> QED
    BY <2>1, FS_Interval
<1>4. Used(l) = SumFunctionOnSet(f, S) /\ Used(l)' = SumFunctionOnSet(f, R)
  BY DEF Used
<1> HIDE DEF f, S, R
<1>5. SumFunctionOnSet(f, R) <= SumFunctionOnSet(f, S)
  BY <1>2, <1>3, SumSubset
<1>6. SumFunctionOnSet(f, R) \in Nat
  BY <1>2, <1>3, SumType
<1> QED
  BY <1>4, <1>5, <1>6

LEMMA UsageSame ==
  ASSUME LedgerStands, NEW l
  PROVE  Used(l)' = Used(l)
BY DEF LedgerStands, Used, WindowStart

\* A handler that writes no row is checked for a limit, or gives up permits or none.
LEMMA PermitSteps ==
  ASSUME PlaceInv, PlaceInv', WalkInv, WalkInv', NEW r \in Requests, NEW l \in Limits,
         Comes(r) \/ Refused(r) \/ (\E k \in Limits : Passes(r, k)) \/ Steps(r)
           \/ Dispatches(r) \/ Hears(r) \/ Loses(r)
  PROVE  \/ PermitsOf(r, l)' <= PermitsOf(r, l)
         \/ ~Exceeded(l) /\ PermitsOf(r, l) = 0 /\ PermitsOf(r, l)' >= 1
<1>1. /\ req[r].attempt \in Nat /\ req[r].attempt <= req[r].plan.attempts
      /\ req[r].plan.attempts \in 1..6
      /\ pc[r] \in {"idle", "gate", "select"} => req[r].attempt = 0
      /\ pc[r] = "idle" => req[r].passed = {}
      /\ InFlight(r) => req[r].attempt >= 1
  BY CountTypes DEF PlaceInv, WalkInv, Counts
<1>2. PermitsOf(r, l) \in Nat
  BY <1>1 DEF PermitsOf
<1>3. ASSUME pc'[r] \notin Active \/ l \notin req'[r].passed
      PROVE  PermitsOf(r, l)' <= PermitsOf(r, l)
  BY <1>2, <1>3 DEF PermitsOf
<1>4. CASE Comes(r)
  BY <1>1, <1>3, <1>4 DEF Comes
<1>5. CASE Refused(r)
  BY <1>3, <1>5 DEF Refused, Answered, NextTurn, Active
<1>6. ASSUME NEW k \in Limits, Passes(r, k)
      PROVE  \/ PermitsOf(r, l)' <= PermitsOf(r, l)
             \/ ~Exceeded(l) /\ PermitsOf(r, l) = 0 /\ PermitsOf(r, l)' >= 1
  <2>1. CASE k = l
    <3>1. l \notin req[r].passed /\ ~Exceeded(l)
      BY <1>6, <2>1 DEF Passes, InTurn, Pending
    <3>2. PermitsOf(r, l) = 0
      BY <3>1 DEF PermitsOf
    <3>3. PermitsOf(r, l)' = req[r].plan.attempts
      BY <1>1, <1>6, <2>1 DEF Passes, GoesOn, SamePlan, PermitsOf, Active, InFlight
    <3> QED
      BY <1>1, <3>1, <3>2, <3>3
  <2>2. CASE k # l
    BY <1>1, <1>6, <2>2 DEF Passes, GoesOn, SamePlan, PermitsOf, Active, InFlight
  <2> QED
    BY <2>1, <2>2
<1>7. CASE Steps(r)
  <2>1. CASE pc'[r] = "gone"
    BY <1>3, <2>1 DEF Active
  <2>2. CASE Admitted(r) \/ Selected(r) \/ Reports(r)
    BY <1>1, <1>7, <2>2 DEF Steps, Admitted, Selected, Reports, PermitsOf, Active, InFlight
  <2> QED
    BY <1>7, <2>1, <2>2 DEF Steps
<1>8. CASE Dispatches(r)
  BY <1>1, <1>8 DEF Dispatches, GoesOn, SamePlan, PermitsOf, Active, InFlight
<1>9. CASE Hears(r)
  BY <1>1, <1>9 DEF Hears, GoesOn, SamePlan, SameTurn, PermitsOf, Active, InFlight
<1>10. CASE Loses(r)
  <2>1. PICK status : GoesOnAfter(r, status)
    BY <1>10 DEF Loses
  <2>2. CASE TriesAgain(r, status)
    BY <1>1, <1>10, <2>2 DEF TriesAgain, GoesOn, SamePlan, Retries, SameTurn, PermitsOf, Active,
                             InFlight, Loses
  <2> QED
    BY <1>3, <2>1, <2>2 DEF GoesOnAfter, Stops, GivesUp, Answered, NextTurn, Active
<1> QED
  BY <1>4, <1>5, <1>6, <1>7, <1>8, <1>9, <1>10

\* A row costs a permit of every limit that it is charged to.
LEMMA PermitSpent ==
  ASSUME PlaceInv, WalkInv, CheckedInv, NEW r \in Requests, pc[r] = "usage",
         NEW status, GoesOnAfter(r, status), NEW l \in Limits
  PROVE  \/ PermitsOf(r, l)' < PermitsOf(r, l)
         \/ /\ ~Applies(l, r, Candidate(r))
            /\ PermitsOf(r, l)' = PermitsOf(r, l)
<1>1. /\ req[r].attempt \in Nat /\ req[r].attempt <= req[r].plan.attempts
      /\ req[r].plan.attempts \in 1..6
  BY CountTypes DEF PlaceInv, WalkInv, Counts
<1>2. CASE l \in req[r].passed
  <2>1. PermitsOf(r, l) = req[r].plan.attempts - req[r].attempt + 1
    BY <1>2 DEF PermitsOf, Active, InFlight
  <2>2. CASE TriesAgain(r, status)
    <3>1. PermitsOf(r, l)' = req[r].plan.attempts - req[r].attempt + 0
      BY <1>2, <2>2 DEF TriesAgain, GoesOn, SamePlan, Retries, SameTurn, PermitsOf, Active, InFlight
    <3> QED
      BY <1>1, <2>1, <3>1
  <2>3. CASE pc'[r] = "done" \/ req'[r].passed = {}
    <3>1. PermitsOf(r, l)' = 0
      BY <2>3 DEF PermitsOf, Active
    <3> QED
      BY <1>1, <2>1, <3>1
  <2> QED
    BY <2>2, <2>3 DEF GoesOnAfter, Stops, GivesUp, Answered, NextTurn
<1>3. CASE l \notin req[r].passed
  <2>1. ~Applies(l, r, Candidate(r))
    BY <1>3 DEF CheckedInv, Checked, Calling, Pending
  <2>2. l \notin req'[r].passed
    BY <1>3 DEF GoesOnAfter, Stops, TriesAgain, GivesUp, Answered, NextTurn, Retries, SameTurn
  <2> QED
    BY <1>3, <2>1, <2>2 DEF PermitsOf
<1> QED
  BY <1>2, <1>3

\* What the gates need: PlaceInv, WalkInv and TypeOK hold of all the behaviours, and
\* CheckedInv is kept in them.
GateTypes == PlaceInv /\ WalkInv /\ CheckedInv /\ TypeOK /\ PermitTypes /\ UsageTypes

\* Every step of the gateway is a step of each gate, or leaves it as it is.
LEMMA GateStep ==
  ASSUME GateTypes, GateTypes', NEW l \in Limits, [Next]_vars
  PROVE  Gate(l)!Next \/ UNCHANGED <<Used(l), Permits(l)>>
<1> USE DEF GateTypes
<1>0. /\ Used(l) \in Nat /\ Used(l)' \in Nat /\ Permits(l) \in Nat /\ Permits(l)' \in Nat
      /\ Permits(l)' <= PermitCap /\ PermitCap \in Nat /\ PermitCap' = PermitCap
      /\ UnitOf(l) \in Nat /\ l.max \in Nat
  BY UnitType, LimitsAssumption DEF PermitTypes, UsageTypes, PermitCap
<1>1. ASSUME NEW r \in Requests, Others(r),
             Comes(r) \/ Refused(r) \/ (\E k \in Limits : Passes(r, k)) \/ Steps(r)
               \/ Dispatches(r) \/ Hears(r) \/ Loses(r)
      PROVE  Gate(l)!Next \/ UNCHANGED <<Used(l), Permits(l)>>
  <2>1. Used(l)' = Used(l)
    BY <1>1, UsageSame DEF Comes, Refused, Passes, Steps, Dispatches, Hears, Loses
  <2>2. PICK rest \in Nat : /\ Permits(l) = PermitsOf(r, l) + rest
                            /\ Permits(l)' = PermitsOf(r, l)' + rest
    BY <1>1, PermitsMove
  <2>3. PermitsOf(r, l) \in Nat /\ PermitsOf(r, l)' \in Nat
    BY DEF PermitTypes
  <2>4. CASE PermitsOf(r, l)' <= PermitsOf(r, l)
    <3>1. Permits(l)' \in 0..Permits(l)
      BY <1>0, <2>2, <2>3, <2>4
    <3> QED
      BY <2>1, <3>1 DEF Gate!Next, Gate!Release
  <2>5. CASE ~Exceeded(l) /\ PermitsOf(r, l) = 0 /\ PermitsOf(r, l)' >= 1
    <3>1. Permits(l)' \in (Permits(l) + 1)..PermitCap
      BY <1>0, <2>2, <2>3, <2>5
    <3>2. Used(l) < l.max
      BY <1>0, <2>5 DEF Exceeded
    <3> QED
      BY <2>1, <3>1, <3>2 DEF Gate!Next, Gate!Admit
  <2> QED
    BY <1>1, <2>4, <2>5, PermitSteps
<1>2. ASSUME NEW r \in Requests, Others(r), Records(r)
      PROVE  Gate(l)!Next \/ UNCHANGED <<Used(l), Permits(l)>>
  <2>1. PICK status \in Codes, tokens \in 0..MaxTokens :
          Insert(Entry(r, status, tokens)) /\ GoesOnAfter(r, status)
    BY <1>2 DEF Records
  <2>2. pc[r] = "usage" /\ status \in FinalStatuses(r) /\ UNCHANGED <<minuteStart, monthStart>>
    BY <1>2, <2>1 DEF Records, GoesOnAfter
  <2> DEFINE e == Entry(r, status, tokens)
  <2>3. e \in LedgerRows /\ ledger' = Append(ledger, e)
    BY <2>1, <2>2, EntryType, InsertAppends DEF PlaceInv, WalkInv
  <2>4. /\ ChargeTo(l, e) \in Nat /\ ChargeTo(l, e) <= UnitOf(l)
        /\ ~Applies(l, r, Candidate(r)) => ChargeTo(l, e) = 0
    BY <2>2, EntryCharge DEF PlaceInv, WalkInv
  <2>5. \/ PermitsOf(r, l)' < PermitsOf(r, l)
        \/ ~Applies(l, r, Candidate(r)) /\ PermitsOf(r, l)' = PermitsOf(r, l)
    BY <2>1, <2>2, PermitSpent
  <2> HIDE DEF e
  <2>6. Used(l)' = Used(l) + ChargeTo(l, e)
    BY <2>2, <2>3, UsageGrows
  <2>7. PICK rest \in Nat : /\ Permits(l) = PermitsOf(r, l) + rest
                            /\ Permits(l)' = PermitsOf(r, l)' + rest
    BY <1>2, PermitsMove
  <2>8. PermitsOf(r, l) \in Nat /\ PermitsOf(r, l)' \in Nat
    BY DEF PermitTypes
  <2>9. CASE PermitsOf(r, l)' < PermitsOf(r, l)
    <3>1. Permits(l)' \in 0..Permits(l) /\ Permits(l)' < Permits(l)
      BY <1>0, <2>7, <2>8, <2>9
    <3>2. Used(l)' \in Used(l)..(Used(l) + UnitOf(l))
      BY <1>0, <2>4, <2>6
    <3>3. Gate(l)!Charge
      BY <3>1, <3>2 DEF Gate!Charge
    <3> QED
      BY <3>3 DEF Gate!Next
  <2>10. CASE ~Applies(l, r, Candidate(r)) /\ PermitsOf(r, l)' = PermitsOf(r, l)
    BY <1>0, <2>4, <2>6, <2>7, <2>10
  <2> QED
    BY <2>5, <2>9, <2>10
<1>3. ASSUME NEW r \in Requests, Arrive(r) \/ Handle(r) \/ Disconnect(r)
      PROVE  Gate(l)!Next \/ UNCHANGED <<Used(l), Permits(l)>>
  BY <1>1, <1>2, <1>3, StepKinds
<1>4. ASSUME UNCHANGED <<pc, req>>
      PROVE  Permits(l)' = Permits(l)
  BY <1>4 DEF Permits, PermitsOf, InFlight
<1>5. CASE Tick \/ UNCHANGED vars
  <2>1. UNCHANGED <<pc, req>> /\ LedgerStands
    BY <1>5 DEF Tick, vars, ledgerVars, LedgerStands
  <2> QED
    BY <1>4, <2>1, UsageSame
<1>6. CASE MinutePasses \/ MonthBegins
  <2>1. /\ ledger' = ledger /\ UNCHANGED <<pc, req>>
        /\ WindowStart(l)' >= WindowStart(l) /\ WindowStart(l)' \in 0..Len(ledger)
    <3>1. /\ minuteStart \in 0..Len(ledger) /\ monthStart \in 0..Len(ledger)
          /\ ledger \in Seq(LedgerRows)
      BY DEF TypeOK
    <3>2. Len(ledger) \in Nat
      BY <3>1
    <3> QED
      BY <1>6, <3>1, <3>2 DEF MinutePasses, MonthBegins, WindowStart
  <2>2. Used(l)' <= Used(l)
    BY <2>1, UsageSlides
  <2>3. Used(l)' \in 0..Used(l)
    BY <1>0, <2>2
  <2> QED
    BY <1>4, <2>1, <2>3 DEF Gate!Next, Gate!Slide
<1> QED
  BY <1>3, <1>5, <1>6 DEF Next

LEMMA GateInitially ==
  ASSUME Init, NEW l \in Limits
  PROVE  Gate(l)!Init
<1>1. ledger = <<>> /\ WindowStart(l) = 0 /\ \A r \in Requests : pc[r] = "idle"
  BY DEF Init, WindowStart
<1>2. Used(l) = 0
  <2> DEFINE f == [i \in DOMAIN ledger |-> ChargeTo(l, ledger[i])]
             S == (WindowStart(l) + 1)..Len(ledger)
  <2>1. S = {} /\ Used(l) = SumFunctionOnSet(f, S)
    BY <1>1 DEF Used
  <2> HIDE DEF f, S
  <2> QED
    BY <2>1, SumEmpty
<1>3. Permits(l) = 0
  <2> DEFINE f == [r \in Requests |-> PermitsOf(r, l)]
             zero == 0
  <2>1. \A r \in Requests : f[r] = 0
    BY <1>1 DEF PermitsOf, Active
  <2>2. Permits(l) = SumFunctionOnSet(f, Requests)
    BY DEF Permits
  <2>3. zero \in Nat /\ \A r \in Requests : f[r] \in Nat /\ f[r] <= zero
    BY <2>1
  <2>4. Cardinality(Requests) \in Nat /\ IsFiniteSet(Requests)
    BY FiniteAssumption, FS_CardinalityType
  <2>5. Cardinality(Requests) * zero = 0
    BY <2>4
  <2> HIDE DEF f, zero
  <2>6. SumFunctionOnSet(f, Requests) \in Nat /\ SumFunctionOnSet(f, Requests) <= 0
    BY <2>3, <2>4, <2>5, SumType, SumBound
  <2> QED
    BY <2>2, <2>6
<1> QED
  BY <1>2, <1>3 DEF Gate!Init

LEMMA GateTypesAlways == Spec => []GateTypes
<1>1. PlaceInv /\ WalkInv /\ CheckedInv /\ TypeOK => GateTypes
  BY PermitsBound, UsageBound DEF GateTypes
<1> QED
  BY <1>1, PlaceAlways, WalkAlways, TypesCorrect, CheckedInitially, CheckedStep, PTL DEF Spec

\* Every limit's usage and permits move as AdmissionGate allows, whatever the requests do.
THEOREM GatesImplemented == Spec => ImplementsGate
<1>1. Init => \A l \in Limits : Gate(l)!Init
  BY GateInitially
<1>2. GateTypes /\ GateTypes' /\ [Next]_vars => GatesMove
  BY GateStep DEF GatesMove
<1> QED
  BY <1>1, <1>2, GateTypesAlways, PTL DEF Spec, ImplementsGate

-----------------------------------------------------------------------------
\* Each permit pays in advance for one row.
Reserved(l) ==
  Used(l) + Permits(l) * UnitOf(l) < l.max + PermitCap * UnitOf(l)

ReserveInv == \A l \in Limits : Reserved(l)

LEMMA ReserveInitially == Init /\ GateTypes => ReserveInv
<1> SUFFICES ASSUME Init, GateTypes, NEW l \in Limits PROVE Reserved(l)
  BY DEF ReserveInv
<1>1. Used(l) = 0 /\ Permits(l) = 0
  BY GateInitially DEF Gate!Init
<1>2. PermitCap \in Nat /\ UnitOf(l) \in Nat /\ l.max \in Nat /\ l.max > 0
  BY UnitType, LimitsAssumption DEF GateTypes, PermitTypes
<1>3. PermitCap * UnitOf(l) \in Nat /\ 0 * UnitOf(l) = 0
  BY <1>2, ProductMonotone
<1> QED
  BY <1>1, <1>2, <1>3 DEF Reserved

\* A step of a gate keeps the reserve.
LEMMA ReserveStep == GateTypes /\ GateTypes' /\ ReserveInv /\ [Next]_vars => ReserveInv'
<1> SUFFICES ASSUME GateTypes, GateTypes', ReserveInv, [Next]_vars, NEW l \in Limits
             PROVE  Reserved(l)'
  BY DEF ReserveInv
<1> DEFINE unit == UnitOf(l)
           cap == PermitCap
           before == Permits(l)
           after == Permits(l)'
<1>1. /\ Used(l) \in Nat /\ Used(l)' \in Nat /\ before \in Nat /\ after \in Nat
      /\ after <= cap /\ cap \in Nat /\ unit \in Nat /\ l.max \in Nat
  BY UnitType, LimitsAssumption DEF GateTypes, PermitTypes, UsageTypes
<1>2. Used(l) + before * unit < l.max + cap * unit
  BY DEF ReserveInv, Reserved
<1>3. SUFFICES Used(l)' + after * unit < l.max + cap * unit
  BY DEF Reserved, PermitCap, UnitOf
<1>4. Gate(l)!Next \/ UNCHANGED <<Used(l), Permits(l)>>
  BY GateStep
<1>5. cap * unit \in Nat /\ before * unit \in Nat /\ after * unit \in Nat
      /\ after * unit <= cap * unit
  BY <1>1, ProductMonotone
<1>6. after <= before => after * unit <= before * unit
  BY <1>1, ProductMonotone
<1>7. after < before => after * unit + unit <= before * unit
  BY <1>1, ProductStep
<1>8. CASE Gate(l)!Admit
  <2>1. Used(l)' = Used(l) /\ Used(l) < l.max
    BY <1>8 DEF Gate!Admit
  <2> HIDE DEF unit, cap, before, after
  <2> QED
    BY <1>1, <1>5, <2>1
<1>9. CASE Gate(l)!Charge
  <2>1. after < before /\ Used(l)' <= Used(l) + unit
    BY <1>1, <1>9 DEF Gate!Charge
  <2> HIDE DEF unit, cap, before, after
  <2> QED
    BY <1>1, <1>2, <1>5, <1>7, <2>1
<1>10. CASE Gate(l)!Release \/ UNCHANGED <<Used(l), Permits(l)>>
  <2>1. after <= before /\ Used(l)' = Used(l)
    BY <1>1, <1>10 DEF Gate!Release
  <2> HIDE DEF unit, cap, before, after
  <2> QED
    BY <1>1, <1>2, <1>5, <1>6, <2>1
<1>11. CASE Gate(l)!Slide
  <2>1. after = before /\ Used(l)' <= Used(l)
    BY <1>1, <1>11 DEF Gate!Slide
  <2> HIDE DEF unit, cap, before, after
  <2> QED
    BY <1>1, <1>2, <1>5, <2>1
<1> QED
  BY <1>4, <1>8, <1>9, <1>10, <1>11 DEF Gate!Next

\* However many requests run at once, and whatever the store and the upstreams do, the
\* ledger shows against a limit no more than the limit and one row for each attempt that
\* all the requests together may have in hand: checkBudget and checkRateLimits compare
\* with the ledger before a call, and recordUsage writes there after it.
THEOREM OvershootBounded == Spec => [](\A l \in Limits : Gate(l)!Overshoot)
<1>1. GateTypes /\ ReserveInv => \A l \in Limits : Gate(l)!Overshoot
  <2> SUFFICES ASSUME GateTypes, ReserveInv, NEW l \in Limits PROVE Gate(l)!Overshoot
    OBVIOUS
  <2>1. /\ Used(l) \in Nat /\ Permits(l) \in Nat /\ PermitCap \in Nat /\ UnitOf(l) \in Nat
        /\ l.max \in Nat
    BY UnitType, LimitsAssumption DEF GateTypes, PermitTypes, UsageTypes
  <2>2. Permits(l) * UnitOf(l) \in Nat /\ PermitCap * UnitOf(l) \in Nat
    BY <2>1, ProductMonotone
  <2>3. Used(l) + Permits(l) * UnitOf(l) < l.max + PermitCap * UnitOf(l)
    BY DEF ReserveInv, Reserved
  <2>4. Used(l) < l.max + PermitCap * UnitOf(l)
    BY <2>1, <2>2, <2>3
  <2> QED
    BY <2>4 DEF Gate!Overshoot
<1> QED
  BY <1>1, GateTypesAlways, ReserveInitially, ReserveStep, PTL DEF Spec
=============================================================================

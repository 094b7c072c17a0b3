------------------------------ MODULE Gateway ------------------------------
(***************************************************************************)
(* The request path of the gateway: the handlers openAIChatCompletions and *)
(* anthropicMessages, the execution of their route plans, the admission    *)
(* checks, and what each request writes to the shared store, which is the  *)
(* provider health columns and the usage ledger.                           *)
(*                                                                         *)
(* Requests run concurrently, on one node or on several: they share only   *)
(* the store.  A request takes a snapshot of the provider rows when its    *)
(* plan is resolved, and keeps it until it ends.  Each check of a limit and *)
(* each update is an action of its own, so requests interleave between any *)
(* two of them.                                                            *)
(*                                                                         *)
(* The two handlers differ in the format of messages only, so one model    *)
(* stands for both.  Mode "plan" is a non-streaming request, which walks   *)
(* the candidates with retries; mode "stream" picks one candidate and      *)
(* stays with it.                                                          *)
(***************************************************************************)
EXTENDS ProviderRow, Sequences, FiniteSets, FiniteSetsExt, Functions

CONSTANTS
  Requests,     \* requests, each made once
  Models, Providers,
  ProviderOf,   \* ProviderOf[m]: the provider of model m
  Price,        \* Price[m]: cost of a token of m; 0 when m is not priced
  Plans,        \* what resolveRoutePlan and reliabilityPolicy may return
  Modes,        \* {"plan", "stream"}, or one of them
  Owner,        \* Owner[r]: the user, department and key r authenticated as
  Allowed,      \* Allowed[k]: the models that key k may use
  Limits,       \* active budgets and rate limits, of users, keys, models, ...
  Statuses,     \* statuses an upstream call may end with
  BrokenBodies, \* TRUE when the body of an answer may break off
  MaxTokens,    \* bound on the tokens of one answer
  StoreFaults,  \* TRUE when single statements of the store may fail
  Atomic,       \* TRUE on SQLite, FALSE on Postgres (see ProviderHealth)
  MaxReports,   \* bound on the failures of a provider; no run reaches it
  MaxTime       \* bound on the clock

ASSUME MaxTokensAssumption == MaxTokens \in Nat
ASSUME BrokenBodiesAssumption == BrokenBodies \in BOOLEAN
ASSUME ModesAssumption     == Modes \subseteq {"plan", "stream"}
ASSUME StatusesAssumption  == Statuses \subseteq Nat
ASSUME FiniteAssumption    == IsFiniteSet(Requests) /\ IsFiniteSet(Models)
ASSUME PriceAssumption     == Price \in [Models -> Nat]
ASSUME LimitsAssumption ==
  \A l \in Limits : /\ l.max \in Nat \ {0}
                    /\ l.kind \in {"usd", "rpm", "tpm"}
                    /\ l.field \in {"user", "department", "key", "provider", "model"}
\* A plan has candidates, and none twice: RoutePlan's DistinctCandidates.
ASSUME PlansAssumption ==
  /\ Plans # {}
  /\ Plans \subseteq [candidates : Seq(Models) \ {<<>>}, attempts : 1..6, health : BOOLEAN]
  /\ \A plan \in Plans : \A i, j \in DOMAIN plan.candidates :
       plan.candidates[i] = plan.candidates[j] => i = j
ASSUME ProviderOfAssumption == ProviderOf \in [Models -> Providers]

VARIABLES
  row, tx, streak, reported, now,  \* the provider rows: see ProviderHealth
  ledger,       \* usage_ledger, in the order of insertion
  minuteStart,  \* rows of the ledger that are older than a minute
  monthStart,   \* rows of the ledger that belong to earlier months
  unlisted,     \* history: unlisted[p]: failed attempts at p that were past the report
                \* of their outcome when their row was lost
  pc,           \* pc[r]: where request r is
  req           \* req[r]: the local variables of its handler

healthVars == <<row, tx, streak, reported, now>>
ledgerVars == <<ledger, minuteStart, monthStart, unlisted>>
vars == <<healthVars, ledgerVars, pc, req>>

\* Each request reports the outcomes of its calls as a writer of ProviderHealth.
\* The set of providers does not change while requests run.
Health == INSTANCE ProviderHealth
            WITH Writers <- Requests, exists <- Providers, MaxWait <- 0

-----------------------------------------------------------------------------
NoPlan == [candidates |-> <<>>, attempts |-> 1, health |-> FALSE]

\* A status, and whether the body broke off after it had arrived.
NoReply == [status |-> 0, broken |-> FALSE]

NewRequest ==
  [mode |-> "plan", plan |-> NoPlan,
   circuits |-> <<>>,  \* deadlines in the plan's snapshot of the providers
   idx |-> 0,          \* the candidate in turn
   passed |-> {},      \* limits checked for this candidate
   attempt |-> 0,      \* attempts made at this candidate
   seq |-> 0,          \* attempts made in all
   reply |-> NoReply,  \* how the attempt ended that is not yet in the ledger
   last |-> 0,         \* status the plan would answer with
   answer |-> 0]       \* status sent to the client

Active == {"gate", "select", "call", "upstream", "outcome", "commit", "usage"}

Candidate(r)  == req[r].plan.candidates[req[r].idx]
ProviderIn(r) == ProviderOf[Candidate(r)]
IsPriced(m)   == Price[m] > 0

\* The columns that budgets and limits select ledger rows by.
Scope(r, m) ==
  [user |-> Owner[r].user, department |-> Owner[r].department, key |-> Owner[r].key,
   provider |-> ProviderOf[m], model |-> m]

\* A budget applies to priced models only.
Applies(l, r, m) ==
  /\ Scope(r, m)[l.field] = l.value
  /\ l.kind = "usd" => IsPriced(m)

\* What a row of the ledger adds to a limit.
Amount(l, entry) ==
  CASE l.kind = "usd" -> entry.cost
    [] l.kind = "rpm" -> 1
    [] l.kind = "tpm" -> entry.tokens

ChargeTo(l, entry) == IF entry[l.field] = l.value THEN Amount(l, entry) ELSE 0

WindowStart(l) == IF l.kind = "usd" THEN monthStart ELSE minuteStart

\* What the ledger shows against a limit, in the calendar month or the last minute.
Used(l) ==
  SumFunctionOnSet([i \in DOMAIN ledger |-> ChargeTo(l, ledger[i])],
                   (WindowStart(l) + 1)..Len(ledger))

\* Mutant of Exceeded: a limit that is reached still admits.
ExceededOnlyAbove(l) == Used(l) > l.max

Exceeded(l) == Used(l) >= l.max

\* The order of the checks: checkAPIKeyPolicy, checkBudget, checkRateLimits.
Rank(l) == (IF l.field = "key" THEN 0 ELSE 2) + (IF l.kind = "usd" THEN 0 ELSE 1)

Pending(r) == {l \in Limits : Applies(l, r, Candidate(r))} \ req[r].passed
InTurn(r)  == {l \in Pending(r) : \A k \in Pending(r) : Rank(l) <= Rank(k)}

KeyAllows(r) == Candidate(r) \in Allowed[Owner[r].key]

-----------------------------------------------------------------------------
Init ==
  /\ Health!Init
  /\ ledger = <<>>
  /\ minuteStart = 0
  /\ monthStart = 0
  /\ unlisted = [p \in Providers |-> 0]
  /\ pc = [r \in Requests |-> "idle"]
  /\ req = [r \in Requests |-> NewRequest]

Goto(r, label) == pc' = [pc EXCEPT ![r] = label]

Answer(r, status) ==
  /\ Goto(r, "done")
  /\ req' = [req EXCEPT ![r] = [@ EXCEPT !.answer = status, !.reply = NoReply]]

\* Mutant of NextCandidate: one candidate too many.
NextCandidatePastEnd(r, last) ==
  /\ Goto(r, "select")
  /\ req' = [req EXCEPT ![r] = [@ EXCEPT !.idx = req[r].idx + 1, !.passed = {}, !.attempt = 0,
                        !.reply = NoReply, !.last = last]]

\* Mutant of NextCandidate: the loop does not advance past a candidate.
NextCandidateStays(r, last) ==
  /\ Goto(r, "select")
  /\ req' = [req EXCEPT ![r] = [@ EXCEPT !.passed = {}, !.attempt = 0,
                        !.reply = NoReply, !.last = last]]

\* The loop over the candidates goes on, or ends with the last status.  A stream
\* that finds no candidate is answered 503, whatever refused it.
NextCandidate(r, last) ==
  IF req[r].idx < Len(req[r].plan.candidates)
  THEN /\ Goto(r, "select")
       /\ req' = [req EXCEPT ![r] = [@ EXCEPT !.idx = req[r].idx + 1, !.passed = {}, !.attempt = 0,
                             !.reply = NoReply, !.last = last]]
  ELSE Answer(r, IF req[r].mode = "stream" THEN 503 ELSE last)

\* A request is authenticated and its plan resolved, with the provider rows of
\* all candidates as they are now.
Arrive(r) ==
  /\ pc[r] = "idle"
  /\ \E plan \in Plans, mode \in Modes :
       req' = [req EXCEPT ![r] = [@ EXCEPT
                 !.plan = [plan EXCEPT !.attempts =
                                            IF mode = "stream" THEN 1 ELSE plan.attempts],
                 !.mode = mode,
                 !.circuits = [i \in DOMAIN plan.candidates |->
                                    row[ProviderOf[plan.candidates[i]]].circuit],
                 !.idx = 1]]
  /\ Goto(r, "gate")
  /\ UNCHANGED <<healthVars, ledgerVars>>

\* A refusal ends the request at the first candidate; a fallback is passed over.
RefuseWith(r, status) ==
  IF req[r].idx = 1 THEN Answer(r, status) ELSE NextCandidate(r, status)

\* The key's list of models is looked at before any limit.
RefuseModel(r) ==
  /\ pc[r] = "gate"
  /\ ~KeyAllows(r)
  /\ RefuseWith(r, 403)
  /\ UNCHANGED <<healthVars, ledgerVars>>

\* One limit is compared with what the ledger shows at this moment.
CheckLimit(r) ==
  /\ pc[r] = "gate"
  /\ KeyAllows(r)
  /\ \E l \in InTurn(r) :
       IF Exceeded(l)
       THEN RefuseWith(r, IF l.kind = "usd" THEN 402 ELSE 429)
       ELSE req' = [req EXCEPT ![r].passed = @ \cup {l}] /\ UNCHANGED pc
  /\ UNCHANGED <<healthVars, ledgerVars>>

\* A query of a check fails: every check then refuses, with 402 or 500.
GateFault(r) ==
  /\ StoreFaults
  /\ pc[r] = "gate"
  /\ KeyAllows(r)
  /\ \E status \in {402, 500} : RefuseWith(r, status)
  /\ UNCHANGED <<healthVars, ledgerVars>>

\* Every limit is passed.  The first candidate is checked before its circuit is
\* looked at, the others after.
Admit(r) ==
  /\ pc[r] = "gate"
  /\ KeyAllows(r)
  /\ Pending(r) = {}
  /\ Goto(r, IF req[r].idx = 1 THEN "select" ELSE "call")
  /\ UNCHANGED <<healthVars, ledgerVars, req>>

\* Mutant of SnapshotOpen: the gate looks at the first candidate only.
SnapshotOpenAtFirst(r) ==
  req[r].idx = 1 /\ req[r].plan.health /\ CircuitOpen(req[r].circuits[1], now)

\* The health gate, on the snapshot that the plan holds.
SnapshotOpen(r) ==
  req[r].plan.health /\ CircuitOpen(req[r].circuits[req[r].idx], now)

\* Mutant of SkipOpenCircuit: the gate closes the circuit for the next request.
SkipAndClose(r) ==
  /\ pc[r] = "select"
  /\ SnapshotOpen(r)
  /\ NextCandidate(r, 503)
  /\ row' = [row EXCEPT ![ProviderIn(r)].circuit = NoDeadline]
  /\ UNCHANGED <<tx, streak, reported, now, ledgerVars>>

SkipOpenCircuit(r) ==
  /\ pc[r] = "select"
  /\ SnapshotOpen(r)
  /\ NextCandidate(r, 503)
  /\ UNCHANGED <<healthVars, ledgerVars>>

\* Mutant of SelectCandidate: fallbacks are not checked.
SelectUnchecked(r) ==
  /\ pc[r] = "select"
  /\ ~SnapshotOpen(r)
  /\ Goto(r, "call")
  /\ UNCHANGED <<healthVars, ledgerVars, req>>

SelectCandidate(r) ==
  /\ pc[r] = "select"
  /\ ~SnapshotOpen(r)
  /\ Goto(r, IF req[r].idx = 1 THEN "call" ELSE "gate")
  /\ UNCHANGED <<healthVars, ledgerVars, req>>

\* Mutant of Dispatch: attempts are numbered for each candidate.
DispatchNumberedAnew(r) ==
  /\ pc[r] = "call"
  /\ Goto(r, "upstream")
  /\ req' = [req EXCEPT ![r] = [@ EXCEPT !.attempt = req[r].attempt + 1, !.seq = req[r].attempt + 1]]
  /\ UNCHANGED <<healthVars, ledgerVars>>

\* The call of one attempt leaves for the upstream.  The further calls of the
\* retries with adjusted parameters belong to the same attempt.
Dispatch(r) ==
  /\ pc[r] = "call"
  /\ Goto(r, "upstream")
  /\ req' = [req EXCEPT ![r] = [@ EXCEPT !.attempt = req[r].attempt + 1, !.seq = req[r].seq + 1]]
  /\ UNCHANGED <<healthVars, ledgerVars>>

\* The upstream answers, or the call ends with 502 or 504.  When the connection
\* breaks off after the status line, the status stands and the body is dropped.
Reply(r) ==
  /\ pc[r] = "upstream"
  /\ \E status \in Statuses, broken \in {FALSE, BrokenBodies} :
       /\ broken => status < 400
       /\ req' = [req EXCEPT ![r].reply = [status |-> status, broken |-> broken]]
  /\ Goto(r, "outcome")
  /\ UNCHANGED <<healthVars, ledgerVars>>

\* recordProviderOutcome: a success is one UPDATE ...
ReportSuccess(r) ==
  /\ pc[r] = "outcome"
  /\ ~StatusIsFailure(req[r].reply.status)
  /\ Health!RecordSuccess(r, ProviderIn(r))
  /\ Goto(r, "usage")
  /\ UNCHANGED <<ledgerVars, req>>

\* ... and a failure one transaction, which on Postgres is two steps.
ReportFailure(r) ==
  /\ pc[r] = "outcome"
  /\ StatusIsFailure(req[r].reply.status)
  /\ \/ Health!RecordFailure(r, ProviderIn(r)) /\ Goto(r, "usage")
     \/ Health!ReadFailures(r, ProviderIn(r)) /\ Goto(r, "commit")
  /\ UNCHANGED <<ledgerVars, req>>

CommitOutcome(r) ==
  /\ pc[r] = "commit"
  /\ Health!CommitFailure(r)
  /\ Goto(r, "usage")
  /\ UNCHANGED <<ledgerVars, req>>

\* The update of the provider row fails and is logged; the request goes on.
OutcomeFault(r) ==
  /\ StoreFaults
  /\ \/ pc[r] = "outcome" /\ UNCHANGED healthVars
     \/ pc[r] = "commit" /\ Health!Rollback(r)
  /\ Goto(r, "usage")
  /\ UNCHANGED <<ledgerVars, req>>

\* Mutant of AfterAttempt: every failure allows a retry.
AfterAttemptRetryAll(r, status) ==
  IF req[r].mode = "stream" \/ ~StatusIsFailure(status)
  THEN Answer(r, status)
  ELSE IF req[r].attempt < req[r].plan.attempts
  THEN /\ Goto(r, "call")
       /\ req' = [req EXCEPT ![r] = [@ EXCEPT !.reply = NoReply, !.last = status]]
  ELSE NextCandidate(r, status)

\* What follows an attempt that ended with a status: the answer of the plan, a
\* retry at the same candidate, or the next candidate.
AfterAttempt(r, status) ==
  IF req[r].mode = "stream" \/ ~StatusIsFailure(status)
  THEN Answer(r, status)
  ELSE IF req[r].attempt < req[r].plan.attempts /\ StatusAllowsRetry(status)
  THEN /\ Goto(r, "call")
       /\ req' = [req EXCEPT ![r] = [@ EXCEPT !.reply = NoReply, !.last = status]]
  ELSE NextCandidate(r, status)

\* applyOutputGuardrailsToResult may turn an answer into a refusal, 422.  A
\* stream is never blocked: it is refused before it starts.  Nor is an answer
\* without a body.
FinalStatuses(r) ==
  LET reply == req[r].reply
  IN  {reply.status}
      \cup (IF req[r].mode = "plan" /\ reply.status < 400 /\ ~reply.broken
            THEN {422} ELSE {})

Entry(r, status, tokens) ==
  LET m == Candidate(r)
  IN  [request |-> r, seq |-> req[r].seq, status |-> status, tokens |-> tokens,
       cost |-> Price[m] * tokens, model |-> m, provider |-> ProviderOf[m],
       user |-> Owner[r].user, department |-> Owner[r].department, key |-> Owner[r].key]

\* request_id is unique in the ledger, and a row that repeats one is dropped
\* without an error.
Insert(entry) ==
  IF \E i \in DOMAIN ledger :
       ledger[i].request = entry.request /\ ledger[i].seq = entry.seq
  THEN UNCHANGED ledger
  ELSE ledger' = Append(ledger, entry)

\* Mutant of RecordUsage: the row is written before the guardrails run.
RecordUsageUnguarded(r) ==
  /\ pc[r] = "usage"
  /\ \E status \in FinalStatuses(r), tokens \in 0..MaxTokens :
       /\ Insert(Entry(r, req[r].reply.status, tokens))
       /\ AfterAttempt(r, status)
  /\ UNCHANGED <<healthVars, minuteStart, monthStart, unlisted>>

\* Mutant of RecordUsage: failed attempts are not recorded.
RecordUsageOfSuccess(r) ==
  /\ pc[r] = "usage"
  /\ \E status \in FinalStatuses(r), tokens \in 0..MaxTokens :
       /\ IF StatusIsFailure(status) THEN UNCHANGED ledger
          ELSE Insert(Entry(r, status, tokens))
       /\ AfterAttempt(r, status)
  /\ UNCHANGED <<healthVars, minuteStart, monthStart, unlisted>>

\* recordUsage, and then what follows the attempt.
RecordUsage(r) ==
  /\ pc[r] = "usage"
  /\ \E status \in FinalStatuses(r), tokens \in 0..MaxTokens :
       /\ Insert(Entry(r, status, tokens))
       /\ AfterAttempt(r, status)
  /\ UNCHANGED <<healthVars, minuteStart, monthStart, unlisted>>

\* The row that the attempt would have had is never written.
LosesRow(r) ==
  unlisted' = IF pc[r] = "usage" /\ StatusIsFailure(req[r].reply.status)
              THEN [unlisted EXCEPT ![ProviderIn(r)] = @ + 1] ELSE unlisted

\* The INSERT fails and is logged; the attempt has no row.
UsageFault(r) ==
  /\ StoreFaults
  /\ pc[r] = "usage"
  /\ \E status \in FinalStatuses(r) : AfterAttempt(r, status)
  /\ LosesRow(r)
  /\ UNCHANGED <<healthVars, ledger, minuteStart, monthStart>>

\* The client goes away, or the node stops: the context of the request ends, and
\* with it its open transaction.  Later statements of the handler fail, its
\* calls end at once, and nothing it does is seen any more.
Disconnect(r) ==
  /\ pc[r] \in Active
  /\ IF pc[r] = "commit" THEN Health!Rollback(r) ELSE UNCHANGED healthVars
  /\ Goto(r, "gone")
  /\ LosesRow(r)
  /\ UNCHANGED <<ledger, minuteStart, monthStart, req>>

Tick == Health!Tick /\ UNCHANGED <<ledgerVars, pc, req>>

\* The oldest row of the last minute becomes too old.
MinutePasses ==
  /\ \E l \in Limits : l.kind # "usd"
  /\ minuteStart < Len(ledger)
  /\ minuteStart' = minuteStart + 1
  /\ UNCHANGED <<healthVars, ledger, monthStart, unlisted, pc, req>>

\* A calendar month begins.
MonthBegins ==
  /\ \E l \in Limits : l.kind = "usd"
  /\ monthStart < Len(ledger)
  /\ monthStart' = Len(ledger)
  /\ UNCHANGED <<healthVars, ledger, minuteStart, unlisted, pc, req>>

\* The steps the handler of a request takes by itself.
Handle(r) ==
  \/ RefuseModel(r) \/ CheckLimit(r) \/ GateFault(r) \/ Admit(r)
  \/ SkipOpenCircuit(r) \/ SelectCandidate(r)
  \/ Dispatch(r) \/ Reply(r)
  \/ ReportSuccess(r) \/ ReportFailure(r) \/ CommitOutcome(r) \/ OutcomeFault(r)
  \/ RecordUsage(r) \/ UsageFault(r)

Finished == \A r \in Requests : pc[r] \in {"done", "gone"}

Next ==
  \/ \E r \in Requests : Arrive(r) \/ Handle(r) \/ Disconnect(r)
  \/ Tick \/ MinutePasses \/ MonthBegins
  \/ Finished /\ UNCHANGED vars

Spec == Init /\ [][Next]_vars

\* The Go scheduler runs every handler on, and an upstream call ends: the HTTP
\* client of the gateway gives up after ten minutes.
FairSpec == Spec /\ \A r \in Requests : WF_vars(Handle(r))

-----------------------------------------------------------------------------
OwnerValues(field) == {Owner[r][field] : r \in Requests}

LedgerRows ==
  [request : Requests, seq : Nat, status : Statuses \cup {422}, tokens : 0..MaxTokens,
   cost : Nat, model : Models, provider : Providers, user : OwnerValues("user"),
   department : OwnerValues("department"), key : OwnerValues("key")]

TypeOK ==
  /\ Health!TypeOK
  /\ ledger \in Seq(LedgerRows)
  /\ minuteStart \in 0..Len(ledger) /\ monthStart \in 0..Len(ledger)
  /\ unlisted \in [Providers -> Nat]
  /\ pc \in [Requests -> Active \cup {"idle", "done", "gone"}]
  /\ \A r \in Requests :
       /\ req[r].mode \in {"plan", "stream"}
       /\ req[r].plan.candidates \in Seq(Models)
       /\ req[r].idx \in 0..Len(req[r].plan.candidates)
       /\ req[r].attempt \in 0..req[r].plan.attempts
       /\ req[r].passed \subseteq Limits

\* The rows of a request, by their positions in the ledger.
RowsOf(r) == {i \in DOMAIN ledger : ledger[i].request = r}

InFlight(r) == pc[r] \in {"upstream", "outcome", "commit", "usage"}

\* The attempts that the handler of a request has behind it.
Past(r) == IF InFlight(r) THEN req[r].seq - 1 ELSE req[r].seq

\* The attempts of a request are numbered without a gap and each has one row of
\* the ledger, in their order, once the handler is past it.  When single inserts
\* fail rows are missing, but no two attempts share a number: the ledger's
\* unique request_id never drops the row of a retry or a fallback.
OneRowPerAttempt ==
  \A r \in Requests :
    /\ \A i, j \in RowsOf(r) : i < j => ledger[i].seq < ledger[j].seq
    /\ \A i \in RowsOf(r) : ledger[i].seq \in 1..Past(r)
    /\ ~StoreFaults /\ pc[r] # "gone" =>
         \A n \in 1..Past(r) : \E i \in RowsOf(r) : ledger[i].seq = n

Position(r, m) ==
  CHOOSE i \in DOMAIN req[r].plan.candidates : req[r].plan.candidates[i] = m

\* A request calls its candidates in the order of the plan.  It makes another
\* call only after a failure, at the same candidate only after a failure that
\* allows a retry, and never more than the plan's attempts at one candidate.
\* A stream makes one call.
FollowsPlan ==
  \A r \in Requests :
    /\ \A i, j \in RowsOf(r) : i < j =>
         /\ StatusIsFailure(ledger[i].status)
         /\ \/ ledger[i].model = ledger[j].model /\ StatusAllowsRetry(ledger[i].status)
            \/ Position(r, ledger[i].model) < Position(r, ledger[j].model)
    /\ \A i \in RowsOf(r) :
         Cardinality({j \in RowsOf(r) : ledger[j].model = ledger[i].model})
           <= req[r].plan.attempts
    /\ req[r].mode = "stream" => \A i, j \in RowsOf(r) : i = j

\* The client gets the answer of an upstream, or a guardrail's refusal of it, when
\* an attempt did not fail, and then that attempt is the last in the ledger and
\* has the status that was sent; otherwise the client gets an error.
AnswerIsLedgered ==
  ~StoreFaults => \A r \in Requests :
    pc[r] = "done" =>
      LET served == {i \in RowsOf(r) : ~StatusIsFailure(ledger[i].status)}
      IN  IF served = {} THEN req[r].answer >= 400
          ELSE \A i \in served : /\ \A j \in RowsOf(r) : j <= i
                                 /\ ledger[i].status = req[r].answer

\* Every model that is called is one the key allows, the fallbacks included.
OnlyAllowedModels ==
  \A r \in Requests :
    InFlight(r) => Candidate(r) \in Allowed[Owner[r].key]

\* A request that resolved its plan after a circuit opened does not call that
\* provider before the circuit's time is over, whatever happened in between: if
\* it is about to call and the circuit is open, the circuit is another one.
ShieldedOnceOpen ==
  \A r \in Requests :
    (pc[r] = "call" /\ req[r].plan.health) =>
      LET circuit == row[ProviderIn(r)].circuit
      IN  CircuitOpen(circuit, now) => circuit # req[r].circuits[req[r].idx]

\* Failures of a provider: those the ledger shows, those whose row is to be written
\* next, and those that have lost their row.
FailedRows(p) ==
  {i \in DOMAIN ledger : ledger[i].provider = p /\ StatusIsFailure(ledger[i].status)}
FailedCalls(p) ==
  {r \in Requests : pc[r] = "usage" /\ StatusIsFailure(req[r].reply.status) /\ ProviderIn(r) = p}
FailuresShown(p) == Cardinality(FailedRows(p)) + Cardinality(FailedCalls(p)) + unlisted[p]

\* The provider row and the ledger are written one after the other, without a transaction
\* around them.  Whatever fails in between, when a provider is down at least as many
\* attempts at it as the threshold says have failed and have a row in the ledger, or are
\* about to get it, or have lost it in one of two ways: the INSERT failed, or the client
\* went away between the report and the INSERT.
LedgerExplainsDown ==
  \A p \in Providers : row[p].status = "down" => FailuresShown(p) >= Threshold

\* What the requests do to the provider rows is what ProviderHealth allows, so
\* its theorems hold here.
ImplementsHealth == Health!Spec

-----------------------------------------------------------------------------
(***************************************************************************)
(* Each limit implements AdmissionGate.                                    *)
(***************************************************************************)
\* The ledger rows that a request may still add to a limit it was checked for.
PermitsOf(r, l) ==
  IF pc[r] \in Active /\ l \in req[r].passed
  THEN req[r].plan.attempts - req[r].attempt + (IF InFlight(r) THEN 1 ELSE 0)
  ELSE 0

Permits(l) == SumFunctionOnSet([r \in Requests |-> PermitsOf(r, l)], Requests)

PermitCap == Cardinality(Requests) * Max({plan.attempts : plan \in Plans})

UnitOf(l) ==
  CASE l.kind = "usd" -> MaxTokens * Max({Price[m] : m \in Models})
    [] l.kind = "rpm" -> 1
    [] l.kind = "tpm" -> MaxTokens

Gate(l) == INSTANCE AdmissionGate
             WITH Limit <- l.max, Unit <- UnitOf(l), Cap <- PermitCap,
                  used <- Used(l), permits <- Permits(l)

GatesMove ==
  \A l \in Limits : Gate(l)!Next \/ UNCHANGED <<Used(l), Permits(l)>>

\* A row is charged to a limit only by a request that was checked for it, below
\* the limit and once for each candidate, so usage stays within the limit plus one
\* row for each attempt of the concurrent requests: Overshoot of AdmissionGate.
\* (The first conjunct is Init of AdmissionGate, the second its Next.)
ImplementsGate ==
  /\ \A l \in Limits : Gate(l)!Init
  /\ [][GatesMove]_vars

-----------------------------------------------------------------------------
\* Every request that arrives is answered, or its client goes away: retries and
\* fallbacks come to an end whatever the upstreams answer.
EveryRequestEnds ==
  \A r \in Requests : pc[r] = "gate" ~> pc[r] \in {"done", "gone"}

-----------------------------------------------------------------------------
(***************************************************************************)
(* What the documentation says and the code does not do.                   *)
(***************************************************************************)
\* docs/DESIGN.md, Request Lifecycle, step 15: latency, status, tokens and cost
\* are appended to the usage ledger.  Of every attempt that was answered, then.
EveryReplyLedgered ==
  \A r \in Requests :
    pc[r] \in {"done", "gone"} /\ req[r].reply # NoReply =>
      \E i \in DOMAIN ledger : ledger[i].request = r /\ ledger[i].seq = req[r].seq

\* docs/DESIGN.md, Provider Strategy: provider transport errors increment
\* consecutive failures.  So does every answer whose body broke off, when its
\* outcome is reported.
TransportErrorsCount ==
  [][\A r \in Requests :
       (pc[r] = "outcome" /\ pc'[r] = "usage" /\ req[r].reply.broken) =>
         row'[ProviderIn(r)].failures > row[ProviderIn(r)].failures]_vars
=============================================================================

------------------------- MODULE StreamBridgeProofs -------------------------
(***************************************************************************)
(* Proofs about StreamBridge, for any tools, any parameters and streams of *)
(* any length.                                                             *)
(***************************************************************************)
EXTENDS StreamBridge, FiniteFolds, SequenceTheorems, TLAPS

-----------------------------------------------------------------------------
(***************************************************************************)
(* The call.                                                               *)
(***************************************************************************)
\* Each retry has taken one of the adjustable parameters out of the request, and no
\* request has more than two of them.
TwoAtMost ==
  pc = "call" =>
    /\ attempt \in Nat
    /\ params \subseteq Translated
    /\ attempt = 1 => \E p : params \cap Adjustable \subseteq {p}
    /\ attempt >= 2 => params \cap Adjustable = {}

CallInv == TwoAtMost /\ RetriesSuffice

\* What a request may leave out: one or two parameters, since top_k is not translated.
LEMMA TwoAdjustable == \E p, q : Translated \cap Adjustable \subseteq {p, q}
BY DEF Translated, Adjustable

\* Two retries are enough, whatever parameters a request has and an upstream rejects:
\* the loops of openai.go and anthropic.go need no third.
THEOREM RetriesAreEnough == Spec => []RetriesSuffice
<1>1. Init => CallInv
  BY DEF Init, CallInv, TwoAtMost, RetriesSuffice, Undecided
<1>2. CallInv /\ [Next]_vars => CallInv'
  <2> SUFFICES ASSUME CallInv, [Next]_vars PROVE CallInv'
    OBVIOUS
  <2> USE DEF CallInv, TwoAtMost, RetriesSuffice
  <2>1. ASSUME NEW named \in SUBSET Params, Retry(named) PROVE CallInv'
    <3>1. /\ pc = "call" /\ pc' = "call" /\ attempt < 2 /\ attempt' = attempt + 1 /\ bridge' = bridge
          /\ params' = params \ (named \cap Adjustable) /\ named \subseteq params
          /\ named \cap Adjustable # {} /\ outcome' = outcome
      BY <2>1 DEF Retry, Complaint, MayRetry
    <3>2. Adjustable' = Adjustable /\ Translated' = Translated
      BY <3>1 DEF Adjustable, Translated
    <3>3. PICK x \in named \cap Adjustable : TRUE
      BY <3>1
    <3>4. params' \cap Adjustable \subseteq (params \cap Adjustable) \ {x} /\ x \in params \cap Adjustable
      BY <3>1, <3>3
    <3>5. CASE attempt = 0
      <4>1. \E p : params' \cap Adjustable \subseteq {p}
        <5>1. PICK p, q : Translated \cap Adjustable \subseteq {p, q}
          BY TwoAdjustable
        <5>2. params \cap Adjustable \subseteq {p, q}
          BY <3>1, <5>1
        <5>3. (params \cap Adjustable) \ {x} \subseteq {p} \/ (params \cap Adjustable) \ {x} \subseteq {q}
          BY <3>4, <5>2
        <5> QED
          BY <3>4, <5>3
      <4> QED
        BY <3>1, <3>2, <3>5, <4>1
    <3>6. CASE attempt = 1
      <4>1. params' \cap Adjustable = {}
        BY <3>1, <3>4, <3>6
      <4> QED
        BY <3>1, <3>2, <3>6, <4>1
    <3>7. attempt = 0 \/ attempt = 1
      BY <3>1
    <3> QED
      BY <3>5, <3>6, <3>7
  <2>2. ASSUME NEW named \in SUBSET Params, GiveUp(named) PROVE CallInv'
    <3>1. /\ pc = "call" /\ pc' = "ended" /\ named \subseteq params
          /\ attempt >= 2 \/ named \cap Adjustable = {}
          /\ outcome'.end = IF named \cap Adjustable = {} THEN "refused" ELSE "rejected"
      BY <2>2 DEF GiveUp, Complaint, MayRetry, End
    <3>2. named \cap Adjustable = {}
      BY <3>1
    <3> QED
      BY <3>1, <3>2
  <2>3. CASE FailCall
    BY <2>3 DEF FailCall, End
  <2>4. CASE Accept
    BY <2>4 DEF Accept
  <2>5. ASSUME NEW u \in Utterances, Say(u) PROVE CallInv'
    BY <2>5 DEF Say
  <2>6. CASE Break \/ Write \/ Disconnect \/ Return
    <3>1. ASSUME NEW how \in {"broken", "done"}, NEW counted, End(how, counted)
          PROVE  pc' = "ended" /\ outcome'.end # "rejected"
      BY <3>1 DEF End
    <3>2. pc' # "call" /\ (outcome' = outcome \/ outcome'.end # "rejected")
      BY <2>6, <3>1 DEF Break, Write, Disconnect, Return
    <3> QED
      BY <3>2
  <2>7. CASE UNCHANGED vars
    <3>1. UNCHANGED <<pc, attempt, params, outcome, bridge>>
      BY <2>7 DEF vars
    <3>2. Adjustable' = Adjustable /\ Translated' = Translated
      BY <3>1 DEF Adjustable, Translated
    <3>3. params' \cap Adjustable' = params \cap Adjustable
      BY <3>1, <3>2
    <3> QED
      BY <3>1, <3>2, <3>3
  <2> QED
    BY <2>1, <2>2, <2>3, <2>4, <2>5, <2>6, <2>7 DEF Next
<1> QED
  BY <1>1, <1>2, PTL DEF Spec, CallInv

-----------------------------------------------------------------------------
(***************************************************************************)
(* The usage.                                                              *)
(***************************************************************************)
\* Only Anthropic reports a part of its usage first.
UsageInv ==
  /\ usage \in {"none", "partial", "reported"}
  /\ usage = "partial" => bridge.up = "anthropic"
  /\ pc # "ended" => outcome.end # "done"
  /\ DoneIsCounted

\* A stream that ends well is charged for, whatever its upstream says and when: with what
\* was reported, or an estimate on the bridges from OpenAI.
THEOREM DoneCounted == Spec => []DoneIsCounted
<1> USE DEF UsageInv
<1>1. Init => UsageInv
  BY DEF Init, DoneIsCounted, Undecided
<1>2. UsageInv /\ [Next]_vars => UsageInv'
  <2> SUFFICES ASSUME UsageInv, [Next]_vars PROVE UsageInv'
    OBVIOUS
  <2>1. ASSUME NEW how \in {"refused", "rejected", "failed", "broken"}, NEW counted, End(how, counted),
               UNCHANGED <<bridge, usage>>
        PROVE  UsageInv'
    <3>1. pc' = "ended" /\ outcome'.end # "done"
      BY <2>1 DEF End
    <3> QED
      BY <2>1, <3>1 DEF DoneIsCounted
  <2>2. ASSUME NEW named \in SUBSET Params, Retry(named) PROVE UsageInv'
    BY <2>2 DEF Retry, DoneIsCounted
  <2>3. ASSUME NEW named \in SUBSET Params, GiveUp(named) PROVE UsageInv'
    BY <2>1, <2>3 DEF GiveUp
  <2>4. CASE FailCall
    BY <2>1, <2>4 DEF FailCall
  <2>5. CASE Accept
    BY <2>5 DEF Accept, DoneIsCounted
  <2>6. ASSUME NEW u \in Utterances, Say(u) PROVE UsageInv'
    <3>1. UNCHANGED <<bridge, pc, outcome>> /\ pc = "stream" /\ usage' = Reported(u)
      BY <2>6 DEF Say
    <3>2. usage' \in {"none", "partial", "reported"} /\ (usage' = "partial" => bridge.up = "anthropic")
      BY <3>1 DEF Reported
    <3> QED
      BY <3>1, <3>2 DEF DoneIsCounted
  <2>7. CASE Break \/ Disconnect
    BY <2>1, <2>7 DEF Break, Disconnect
  <2>8. CASE Write
    BY <2>8 DEF Write, DoneIsCounted
  <2>9. CASE Return
    <3>1. UNCHANGED <<bridge, usage>> /\ End("done", Counted(FALSE))
      BY <2>9 DEF Return
    <3>2. outcome'.end = "done" /\ outcome'.usage = Counted(FALSE) /\ pc' = "ended"
      BY <3>1 DEF End
    <3>3. /\ usage = "reported" => Counted(FALSE) = "reported"
          /\ bridge.up = "openai" => Counted(FALSE) \in {"estimated", "reported"}
      BY DEF Counted
    <3> QED
      BY <3>1, <3>2, <3>3 DEF DoneIsCounted
  <2>10. CASE UNCHANGED vars
    BY <2>10 DEF vars, DoneIsCounted
  <2> QED
    BY <2>2, <2>3, <2>4, <2>5, <2>6, <2>7, <2>8, <2>9, <2>10 DEF Next
<1> QED
  BY <1>1, <1>2, PTL DEF Spec

-----------------------------------------------------------------------------
(***************************************************************************)
(* A completion in chunks.  What is about to be written (todo) continues   *)
(* what the client has, and the translator knows how much that is.         *)
(***************************************************************************)
Marks    == {"start", "finish", "usage", "done"}
MarkSeqs == Seq([type : Marks, index : {None}, who : {Text}, frags : {<<>>}])
Blocks   == [index : Nat, who : Int, closes : Nat, content : Seq(Nat)]
Clients  == [frame : Seq(Marks), blocks : Seq(Blocks), text : Seq(Nat),
             reason : {"none", "said", "default"}]

\* The marks that the client has, and those that are about to be written.
OnlyMarks(S) ==
  /\ \A i \in DOMAIN client.frame : client.frame[i] \in S
  /\ \A i \in DOMAIN todo : todo[i].type \in Marks => todo[i].type \in S

Unfinished == OnlyMarks({"start"})

\* Marks come in their order.
MarksTodo ==
  /\ todo \in MarkSeqs
  /\ \A i \in DOMAIN todo :
       /\ \A j \in DOMAIN client.frame : Chunks!Rank(client.frame[j]) < Chunks!Rank(todo[i].type)
       /\ \A j \in DOMAIN todo : j < i => Chunks!Rank(todo[j].type) < Chunks!Rank(todo[i].type)

TextTodo == Unfinished /\ \E n \in Nat : todo = <<Event("fill", None, Text, <<n>>)>>

CallTodo ==
  /\ Unfinished
  /\ \E k \in Tools : /\ todo = <<Event("open", Len(client.blocks), k, <<>>)>>
                      /\ k \in Mentioned
                      /\ \A i \in DOMAIN client.blocks : client.blocks[i].who # k

InputTodo ==
  /\ Unfinished
  /\ \E i \in DOMAIN client.blocks, k \in Tools, n \in Nat :
       todo = <<Event("fill", i - 1, k, <<n>>)>>

\* The translator's numbers are those of the client's calls.
Numbered ==
  /\ writer = [index |-> writer.index, count |-> writer.count, finished |-> writer.finished]
  /\ writer.count = Len(client.blocks) + (IF CallTodo THEN 1 ELSE 0)
  /\ \A k \in DOMAIN writer.index : writer.index[k] \in 0..(writer.count - 1)

\* How far the marks are.
InTime ==
  /\ said = <<>> => OnlyMarks({})
  /\ ~closing /\ bridge.up = "anthropic" /\ ~Has("done") => ~writer.finished
  /\ bridge.up = "anthropic" /\ ~writer.finished => Unfinished
  /\ ~closing /\ bridge.up = "bedrock" => OnlyMarks({"start", "finish"})
  /\ ~closing /\ bridge.up = "bedrock" /\ ~Has("reason") => Unfinished

ChunkInv ==
  bridge.to = "chunks" =>
    /\ bridge.up \in {"anthropic", "bedrock"} /\ bridge.usage \in BOOLEAN
    /\ client \in Clients
    /\ pc = "call" => client = NoClient /\ writer = NewChunkWriter /\ said = <<>> /\ todo = <<>>
    /\ pc = "stream" =>
         /\ said \in Seq(Utterances)
         /\ \A i \in DOMAIN client.blocks : client.blocks[i].who \in Tools \cap Mentioned
         /\ MarksTodo \/ TextTodo \/ CallTodo \/ InputTodo
         /\ Numbered /\ InTime

LEMMA SaidMore ==
  ASSUME said \in Seq(Utterances), NEW u \in Utterances, said' = Append(said, u)
  PROVE  /\ said' \in Seq(Utterances) /\ said' # <<>>
         /\ \A what : Has(what)' <=> Has(what) \/ u.what = what
         /\ Mentioned' = Mentioned \cup ({u.who} \ {Text})
<1>1. /\ Len(said) \in Nat /\ DOMAIN said = 1..Len(said) /\ said' \in Seq(Utterances)
      /\ DOMAIN said' = 1..(Len(said) + 1) /\ said'[Len(said) + 1] = u
      /\ \A i \in 1..Len(said) : said'[i] = said[i]
  OBVIOUS
<1>2. DOMAIN said' = DOMAIN said \cup {Len(said) + 1} /\ \A i \in DOMAIN said : said'[i] = said[i]
  BY <1>1
<1>3. \A what : Has(what)' <=> Has(what) \/ u.what = what
  BY <1>1, <1>2 DEF Has
<1>4. Mentioned' = Mentioned \cup ({u.who} \ {Text})
  BY <1>1, <1>2 DEF Mentioned
<1> QED
  BY <1>1, <1>2, <1>3, <1>4

LEMMA UtteranceKinds ==
  ASSUME NEW u \in Utterances
  PROVE  /\ u.what \in Plain \cup {"text", "call"} /\ u.named \in BOOLEAN /\ u.args \in BOOLEAN
         /\ u.what # "call" => u.who = Text
         /\ u.what = "text" => u.args
         /\ u.what = "call" => u.who \in Tools
BY DEF Utterances, Plain

\* The translator makes its state from the one it had: only these are needed of it.
LEMMA MarkType ==
  ASSUME NEW type \in Marks
  PROVE  /\ Mark(type) \in [type : Marks, index : {None}, who : {Text}, frags : {<<>>}]
         /\ Mark(type).type = type
BY DEF Mark, Event

\* What an upstream may say to a translator to chunks, and what comes of it.
LEMMA ChunkSaid ==
  ASSUME ChunkInv, bridge.to = "chunks", NEW u \in Utterances, Say(u)
  PROVE  /\ pc = "stream" /\ pc' = "stream" /\ todo = <<>> /\ ~closing
         /\ UNCHANGED <<bridge, client>> /\ said' = Append(said, u)
         /\ said' \in Seq(Utterances) /\ said' # <<>>
         /\ \A what : Has(what)' <=> Has(what) \/ u.what = what
         /\ Mentioned' = Mentioned \cup ({u.who} \ {Text})
         /\ closing' = (u.what = "eof")
         /\ Has("done") => u.what = "eof"
         /\ EventsMay(u) /\ u.what # "error"
         /\ LET t == IF bridge.up = "anthropic" THEN AnthropicToChunks(u) ELSE BedrockToChunks(u)
            IN  writer' = t.writer /\ todo' = t.events
<1>1. pc = "stream" /\ bridge.up \in {"anthropic", "bedrock"} /\ said \in Seq(Utterances)
  BY DEF Say, ChunkInv
<1>2. /\ said' \in Seq(Utterances) /\ said' # <<>>
      /\ \A what : Has(what)' <=> Has(what) \/ u.what = what
      /\ Mentioned' = Mentioned \cup ({u.who} \ {Text})
  BY <1>1, SaidMore DEF Say
<1>3. closing' = (u.what = "eof")
  BY <1>1 DEF Say, Ending
<1>4. EventsMay(u) /\ (Has("done") => u.what = "eof")
  BY <1>1 DEF Say, UpstreamMay
<1>5. Translate(u) = IF bridge.up = "anthropic" THEN AnthropicToChunks(u) ELSE BedrockToChunks(u)
  BY DEF Translate
<1> QED
  BY <1>1, <1>2, <1>3, <1>4, <1>5 DEF Say

\* With nothing to be written, what the client has is all there is.
LEMMA NothingTodo ==
  ASSUME todo = <<>>
  PROVE  /\ \A S : OnlyMarks(S) <=> \A i \in DOMAIN client.frame : client.frame[i] \in S
         /\ ~CallTodo
BY DEF OnlyMarks, CallTodo

LEMMA MarkTypes ==
  ASSUME NEW events \in MarkSeqs, NEW i \in DOMAIN events
  PROVE  events[i].type \in Marks /\ events[i] = Mark(events[i].type)
<1> DEFINE R == [type : Marks, index : {None}, who : {Text}, frags : {<<>>}]
<1>1. events \in Seq(R)
  BY DEF MarkSeqs
<1>2. \A r \in R : r.type \in Marks /\ r = Mark(r.type)
  BY DEF Mark, Event
<1> HIDE DEF R
<1>3. events[i] \in R
  BY <1>1
<1> QED
  BY <1>2, <1>3

LEMMA OneEvent ==
  ASSUME NEW type, NEW index, NEW who, NEW frags, NEW events,
         events = <<Event(type, index, who, frags)>>
  PROVE  /\ DOMAIN events = {1} /\ events[1].type = type /\ events[1].index = index
         /\ events[1].who = who /\ events[1].frags = frags
BY DEF Event

LEMMA TwoJoined ==
  ASSUME NEW S, NEW x \in S, NEW z \in S
  PROVE  <<x>> \o <<z>> = <<x, z>>
<1> DEFINE p == <<x>> \o <<z>>
           q == <<x, z>>
<1>1. p \in Seq(S) /\ Len(p) = 2 /\ p[1] = x /\ p[2] = z
  OBVIOUS
<1>2. q \in Seq(S) /\ Len(q) = 2 /\ q[1] = x /\ q[2] = z
  OBVIOUS
<1> HIDE DEF p, q
<1>3. \A i \in 1..Len(p) : p[i] = q[i]
  BY <1>1, <1>2
<1>4. p = q
  BY <1>1, <1>2, <1>3, SeqEqual
<1> QED
  BY <1>4 DEF p, q

LEMMA ThreeJoined ==
  ASSUME NEW S, NEW x \in S, NEW y \in S, NEW z \in S
  PROVE  <<x>> \o <<y>> \o <<z>> = <<x, y, z>>
<1> DEFINE p == <<x, y>> \o <<z>>
           q == <<x, y, z>>
<1>1. p \in Seq(S) /\ Len(p) = 3 /\ p[1] = x /\ p[2] = y /\ p[3] = z
  OBVIOUS
<1>2. q \in Seq(S) /\ Len(q) = 3 /\ q[1] = x /\ q[2] = y /\ q[3] = z
  OBVIOUS
<1> HIDE DEF p, q
<1>3. \A i \in 1..Len(p) : p[i] = q[i]
  BY <1>1, <1>2
<1>4. p = q
  BY <1>1, <1>2, <1>3, SeqEqual
<1>5. <<x>> \o <<y>> = <<x, y>>
  BY TwoJoined
<1> QED
  BY <1>4, <1>5 DEF p, q

\* What ends a stream: marks in their order.
LEMMA LastMarks ==
  ASSUME NEW c \in BOOLEAN, NEW events,
         \/ events = <<Mark("finish")>> \o (IF c THEN <<Mark("usage")>> ELSE <<>>) \o <<Mark("done")>>
         \/ events = (IF c THEN <<Mark("usage")>> ELSE <<>>) \o <<Mark("done")>>
  PROVE  /\ events \in MarkSeqs
         /\ \A i, j \in DOMAIN events : j < i => Chunks!Rank(events[j].type) < Chunks!Rank(events[i].type)
         /\ \A i \in DOMAIN events : events[i].type \in {"finish", "usage", "done"}
         /\ events = (IF c THEN <<Mark("usage")>> ELSE <<>>) \o <<Mark("done")>> =>
              \A i \in DOMAIN events : events[i].type # "finish"
<1> DEFINE R == [type : Marks, index : {None}, who : {Text}, frags : {<<>>}]
           f == Mark("finish")
           u == Mark("usage")
           d == Mark("done")
<1>1. f \in R /\ u \in R /\ d \in R /\ f.type = "finish" /\ u.type = "usage" /\ d.type = "done"
  BY MarkType DEF Marks
<1>2. /\ <<f>> \o <<u>> \o <<d>> = <<f, u, d>> /\ <<f>> \o <<>> \o <<d>> = <<f, d>>
      /\ <<u>> \o <<d>> = <<u, d>> /\ <<>> \o <<d>> = <<d>>
  <2> HIDE DEF f, u, d, R
  <2>1. <<f>> \o <<u>> \o <<d>> = <<f, u, d>>
    BY <1>1, ThreeJoined
  <2>2. <<f>> \o <<d>> = <<f, d>> /\ <<u>> \o <<d>> = <<u, d>>
    BY <1>1, TwoJoined
  <2>3. <<f>> \o <<>> = <<f>> /\ <<>> \o <<d>> = <<d>>
    OBVIOUS
  <2> QED
    BY <2>1, <2>2, <2>3
<1>4. Chunks!Rank("finish") = 2 /\ Chunks!Rank("usage") = 3 /\ Chunks!Rank("done") = 4
  BY DEF Chunks!Rank
<1>3. \/ events = <<f>> \o (IF c THEN <<u>> ELSE <<>>) \o <<d>>
      \/ events = (IF c THEN <<u>> ELSE <<>>) \o <<d>>
  OBVIOUS
<1> HIDE DEF f, u, d, R
<1>5. \/ events = <<f, u, d>> \/ events = <<f, d>> \/ events = <<u, d>> \/ events = <<d>>
  BY <1>2, <1>3
<1>6. events = (IF c THEN <<u>> ELSE <<>>) \o <<d>> => events = <<u, d>> \/ events = <<d>>
  BY <1>2
<1>7. events \in Seq(R)
  BY <1>1, <1>5
<1>8. \A i, j \in DOMAIN events : j < i => Chunks!Rank(events[j].type) < Chunks!Rank(events[i].type)
  BY <1>1, <1>4, <1>5
<1>9. \A i \in DOMAIN events : events[i].type \in {"finish", "usage", "done"}
  BY <1>1, <1>5
<1>10. events = <<u, d>> \/ events = <<d>> => \A i \in DOMAIN events : events[i].type # "finish"
  BY <1>1
<1> QED
  BY <1>7, <1>8, <1>9, <1>10, <1>6 DEF MarkSeqs, R, u, d

LEMMA ChunkSays ==
  ASSUME ChunkInv, bridge.to = "chunks", NEW u \in Utterances, Say(u)
  PROVE  ChunkInv'
<1> DEFINE Written == \A i \in DOMAIN client.frame : client.frame[i] \in {"start"}
<1>1. /\ pc = "stream" /\ pc' = "stream" /\ todo = <<>> /\ ~closing
      /\ UNCHANGED <<bridge, client>> /\ said' = Append(said, u)
      /\ said' \in Seq(Utterances) /\ said' # <<>>
      /\ \A what : Has(what)' <=> Has(what) \/ u.what = what
      /\ Mentioned' = Mentioned \cup ({u.who} \ {Text})
      /\ closing' = (u.what = "eof")
      /\ Has("done") => u.what = "eof"
      /\ EventsMay(u) /\ u.what # "error"
  BY ChunkSaid
<1>2. /\ u.what \in Plain \cup {"text", "call"} /\ u.named \in BOOLEAN /\ u.args \in BOOLEAN
      /\ u.what # "call" => u.who = Text
      /\ u.what = "text" => u.args
      /\ u.what = "call" => u.who \in Tools
  BY UtteranceKinds
<1>3. /\ bridge.up \in {"anthropic", "bedrock"} /\ bridge.usage \in BOOLEAN /\ client \in Clients
      /\ \A i \in DOMAIN client.blocks : client.blocks[i].who \in Tools \cap Mentioned
      /\ writer = [index |-> writer.index, count |-> writer.count, finished |-> writer.finished]
      /\ writer.count = Len(client.blocks)
      /\ \A k \in DOMAIN writer.index : writer.index[k] \in 0..(writer.count - 1)
  BY <1>1, NothingTodo DEF ChunkInv, Numbered
<1>4. /\ said = <<>> => \A i \in DOMAIN client.frame : FALSE
      /\ bridge.up = "anthropic" /\ ~Has("done") => ~writer.finished
      /\ bridge.up = "anthropic" /\ ~writer.finished => Written
      /\ bridge.up = "bedrock" =>
           \A i \in DOMAIN client.frame : client.frame[i] \in {"start", "finish"}
      /\ bridge.up = "bedrock" /\ ~Has("reason") => Written
  BY <1>1, NothingTodo DEF ChunkInv, InTime, Unfinished
<1>5. Len(client.blocks) \in Nat /\ DOMAIN client.blocks = 1..Len(client.blocks)
  BY <1>3 DEF Clients
<1>6. Len(said) + 1 \in Nat
  BY <1>1 DEF ChunkInv
<1>7. \A i \in DOMAIN client'.blocks : client'.blocks[i].who \in Tools \cap Mentioned'
  BY <1>1, <1>3
<1>8. ASSUME MarksTodo' \/ TextTodo' \/ CallTodo' \/ InputTodo', Numbered', InTime'
      PROVE  ChunkInv'
  BY <1>1, <1>3, <1>7, <1>8 DEF ChunkInv
<1>9. Unfinished' <=> /\ Written
                      /\ \A i \in DOMAIN todo' : todo'[i].type \in Marks => todo'[i].type = "start"
  BY <1>1 DEF Unfinished, OnlyMarks
\* Marks or nothing.
<1>10. ASSUME writer' = writer \/ writer' = [writer EXCEPT !.finished = TRUE], MarksTodo'
       PROVE  Numbered'
  <2>1. ~CallTodo'
    <3>1. \A i \in DOMAIN todo' : todo'[i].type \in Marks
      BY <1>10, MarkTypes DEF MarksTodo
    <3> QED
      BY <3>1 DEF CallTodo, Event, Marks
  <2>2. /\ writer'.index = writer.index /\ writer'.count = writer.count
        /\ writer' = [index |-> writer'.index, count |-> writer'.count, finished |-> writer'.finished]
    BY <1>3, <1>10
  <2> QED
    BY <1>1, <1>3, <2>1, <2>2 DEF Numbered
<1>11. ASSUME Unfinished', writer'.finished = writer.finished, u.what \notin {"done", "eof"}
       PROVE  InTime'
  <2>1. \A S : "start" \in S => OnlyMarks(S)'
    BY <1>11 DEF Unfinished, OnlyMarks
  <2> QED
    BY <1>1, <1>4, <1>11, <2>1 DEF InTime
<1>12. CASE u.what = "text"
  <2>1. todo' = <<Event("fill", None, Text, <<Len(said) + 1>>)>> /\ writer' = writer
    BY <1>2, <1>12, ChunkSaid DEF BedrockToChunks, AnthropicToChunks, Result, Fill, Frags
  <2>2. Written
    BY <1>1, <1>3, <1>4, <1>12 DEF EventsMay
  <2>3. Unfinished' /\ TextTodo' /\ ~CallTodo'
    <3>1. DOMAIN todo' = {1} /\ todo'[1].type = "fill"
      BY <2>1, OneEvent
    <3>2. Unfinished'
      BY <1>9, <2>2, <3>1 DEF Marks
    <3>3. ~CallTodo'
      BY <3>1, OneEvent DEF CallTodo
    <3> QED
      BY <1>6, <2>1, <3>2, <3>3 DEF TextTodo
  <2>4. Numbered'
    BY <1>1, <1>3, <2>1, <2>3 DEF Numbered
  <2> QED
    BY <1>8, <1>11, <1>12, <2>1, <2>3, <2>4
<1>13. CASE u.what = "call" /\ u.named
  <2>1. /\ todo' = <<Event("open", writer.count, u.who, <<>>)>>
        /\ writer' = [writer EXCEPT !.index = Put(@, u.who, writer.count), !.count = @ + 1]
    <3>1. writer' = WriteToolStart(writer, u.who).writer /\ todo' = WriteToolStart(writer, u.who).events
      BY <1>13, ChunkSaid DEF BedrockToChunks, AnthropicToChunks
    <3> QED
      BY <3>1 DEF WriteToolStart, Result
  <2>2. Written /\ u.who \in Tools /\ u.who \notin Mentioned
    <3>1. \A k \in Mentioned : k < u.who
      BY <1>1, <1>13 DEF EventsMay
    <3>2. u.who \in Tools /\ u.who \in Nat
      BY <1>2, <1>13, ToolsAssumption
    <3> QED
      BY <1>1, <1>3, <1>4, <1>13, <3>1, <3>2 DEF EventsMay
  <2>3. Unfinished'
    BY <1>9, <2>1, <2>2, OneEvent DEF Marks
  <2>4. u.who \in Mentioned'
    BY <1>1, <2>2, ToolsAssumption DEF Text
  <2>5. CallTodo'
    BY <1>1, <1>3, <2>1, <2>2, <2>3, <2>4 DEF CallTodo
  <2>6. /\ writer'.index = Put(writer.index, u.who, writer.count)
        /\ writer'.count = writer.count + 1 /\ writer'.finished = writer.finished
        /\ writer' = [index |-> writer'.index, count |-> writer'.count, finished |-> writer'.finished]
    BY <1>3, <2>1
  <2>7. ASSUME NEW k \in DOMAIN writer'.index
        PROVE  writer'.index[k] \in 0..(writer'.count - 1)
    <3>1. writer.count \in Nat
      BY <1>3, <1>5
    <3> QED
      BY <1>3, <2>6, <2>7, <3>1 DEF Put
  <2>8. Numbered'
    BY <1>1, <1>3, <2>5, <2>6, <2>7 DEF Numbered
  <2> QED
    BY <1>8, <1>11, <1>13, <2>3, <2>5, <2>6, <2>8
<1>14. CASE u.what = "call" /\ ~u.named
  <2>1. /\ todo' = IF u.who \in DOMAIN writer.index
                   THEN <<Event("fill", writer.index[u.who], u.who, <<Len(said) + 1>>)>> ELSE <<>>
        /\ writer' = writer
    <3>1. u.args
      BY <1>1, <1>2, <1>14 DEF EventsMay
    <3> QED
      BY <1>2, <1>14, <3>1, ChunkSaid
         DEF BedrockToChunks, AnthropicToChunks, WriteToolInput, Result, Fill, Frags
  <2>2. Written
    BY <1>1, <1>3, <1>4, <1>14 DEF EventsMay
  <2>3. Unfinished' /\ ~CallTodo'
    <3>1. \A i \in DOMAIN todo' : todo'[i].type = "fill"
      BY <2>1, OneEvent
    <3>2. Unfinished'
      BY <1>9, <2>2, <3>1 DEF Marks
    <3>3. ~CallTodo'
      <4>1. CallTodo' => \E i \in DOMAIN todo' : todo'[i].type = "open"
        BY OneEvent DEF CallTodo
      <4> QED
        BY <3>1, <4>1
    <3> QED
      BY <3>2, <3>3
  <2>4. InputTodo' \/ MarksTodo'
    <3>1. CASE u.who \in DOMAIN writer.index
      <4>1. writer.index[u.who] + 1 \in DOMAIN client.blocks
        BY <1>3, <1>5, <3>1
      <4>2. writer.index[u.who] \in Int
        BY <1>3, <1>5, <3>1
      <4>3. writer.index[u.who] = (writer.index[u.who] + 1) - 1
        BY <4>2
      <4>4. u.who \in Tools
        BY <1>2, <1>14
      <4> QED
        BY <1>1, <1>6, <2>1, <2>3, <3>1, <4>1, <4>3, <4>4 DEF InputTodo
    <3>2. CASE u.who \notin DOMAIN writer.index
      BY <2>1, <3>2 DEF MarksTodo, MarkSeqs
    <3> QED
      BY <3>1, <3>2
  <2>5. Numbered'
    BY <1>1, <1>3, <2>1, <2>3 DEF Numbered
  <2> QED
    BY <1>8, <1>11, <1>14, <2>1, <2>3, <2>4, <2>5
\* Nothing is written.
<1>15. CASE u.what \in {"thought", "usage"} \/ (u.what = "reason" /\ bridge.up = "anthropic")
  <2>1. todo' = <<>> /\ writer' = writer
    BY <1>3, <1>15, ChunkSaid DEF BedrockToChunks, AnthropicToChunks, Result
  <2>2. MarksTodo' /\ \A S : OnlyMarks(S)' <=> OnlyMarks(S)
    BY <1>1, <2>1 DEF MarksTodo, MarkSeqs, OnlyMarks
  <2>3. InTime'
    BY <1>1, <1>15, <2>1, <2>2 DEF ChunkInv, InTime, Unfinished
  <2> QED
    BY <1>8, <1>10, <2>1, <2>2, <2>3
<1>16. CASE u.what = "start"
  <2>1. todo' = <<Mark("start")>> /\ writer' = writer
    BY <1>3, <1>16, ChunkSaid DEF BedrockToChunks, AnthropicToChunks, Result
  <2>2. DOMAIN client.frame = {}
    BY <1>1, <1>4, <1>16 DEF EventsMay
  <2>3. MarksTodo' /\ Unfinished'
    <3>1. Mark("start") \in [type : Marks, index : {None}, who : {Text}, frags : {<<>>}]
          /\ Mark("start").type = "start"
      BY MarkType DEF Marks
    <3> QED
      BY <1>1, <1>9, <2>1, <2>2, <3>1 DEF MarksTodo, MarkSeqs
  <2> QED
    BY <1>8, <1>10, <1>11, <1>16, <2>1, <2>3
\* The end.
<1>17. CASE u.what \in {"done", "eof"} /\ bridge.up = "anthropic"
  <2>1. writer' = FinishChunks(writer, bridge.usage).writer
        /\ todo' = FinishChunks(writer, bridge.usage).events
    BY <1>17, ChunkSaid DEF AnthropicToChunks
  <2>2. writer'.finished /\ (writer' = writer \/ writer' = [writer EXCEPT !.finished = TRUE])
    BY <1>3, <2>1 DEF FinishChunks, Result
  <2>3. MarksTodo'
    <3>1. CASE writer.finished
      BY <2>1, <3>1 DEF FinishChunks, Result, MarksTodo, MarkSeqs
    <3>2. CASE ~writer.finished
      <4>1. todo' = <<Mark("finish")>> \o (IF bridge.usage THEN <<Mark("usage")>> ELSE <<>>) \o <<Mark("done")>>
        BY <2>1, <3>2 DEF FinishChunks, Result
      <4>2. /\ todo' \in MarkSeqs
            /\ \A i, j \in DOMAIN todo' : j < i => Chunks!Rank(todo'[j].type) < Chunks!Rank(todo'[i].type)
            /\ \A i \in DOMAIN todo' : todo'[i].type \in {"finish", "usage", "done"}
        BY <1>3, <4>1, LastMarks
      <4>3. \A j \in DOMAIN client.frame : client.frame[j] = "start"
        BY <1>4, <1>17, <3>2
      <4>4. Chunks!Rank("start") = 1 /\ \A m \in {"finish", "usage", "done"} : Chunks!Rank(m) > 1
        BY DEF Chunks!Rank
      <4> QED
        BY <1>1, <4>2, <4>3, <4>4 DEF MarksTodo
    <3> QED
      BY <3>1, <3>2
  <2>4. InTime'
    BY <1>1, <1>17, <2>2 DEF InTime
  <2> QED
    BY <1>8, <1>10, <2>2, <2>3, <2>4
<1>18. CASE u.what = "reason" /\ bridge.up = "bedrock"
  <2>1. todo' = <<Mark("finish")>> /\ writer' = writer
    BY <1>3, <1>18, ChunkSaid DEF BedrockToChunks, AnthropicToChunks, Result
  <2>2. Written
    BY <1>1, <1>4, <1>18 DEF EventsMay
  <2>3. MarksTodo' /\ OnlyMarks({"start", "finish"})'
    <3>1. Mark("finish") \in [type : Marks, index : {None}, who : {Text}, frags : {<<>>}]
          /\ Mark("finish").type = "finish"
      BY MarkType DEF Marks
    <3>2. \A i \in DOMAIN client.frame : Chunks!Rank(client.frame[i]) < Chunks!Rank("finish")
      BY <2>2 DEF Chunks!Rank
    <3> QED
      BY <1>1, <2>1, <2>2, <3>1, <3>2 DEF MarksTodo, MarkSeqs, OnlyMarks
  <2>4. InTime'
    BY <1>1, <1>18, <2>3 DEF InTime
  <2> QED
    BY <1>8, <1>10, <2>1, <2>3, <2>4
<1>19. CASE u.what = "eof" /\ bridge.up = "bedrock"
  <2>1. /\ writer' = writer
        /\ todo' = (IF bridge.usage THEN <<Mark("usage")>> ELSE <<>>) \o <<Mark("done")>>
    BY <1>3, <1>19, ChunkSaid DEF BedrockToChunks, Result
  <2>2. /\ todo' \in MarkSeqs
        /\ \A i, j \in DOMAIN todo' : j < i => Chunks!Rank(todo'[j].type) < Chunks!Rank(todo'[i].type)
        /\ \A i \in DOMAIN todo' : todo'[i].type \in {"usage", "done"}
    <3>1. /\ todo' \in MarkSeqs
          /\ \A i, j \in DOMAIN todo' : j < i => Chunks!Rank(todo'[j].type) < Chunks!Rank(todo'[i].type)
          /\ \A i \in DOMAIN todo' : todo'[i].type \in {"finish", "usage", "done"} /\ todo'[i].type # "finish"
      BY <1>3, <2>1, LastMarks
    <3> QED
      BY <3>1
  <2>3. \A j \in DOMAIN client.frame : client.frame[j] \in {"start", "finish"}
    BY <1>4, <1>19
  <2>4. \A m \in {"start", "finish"}, n \in {"usage", "done"} : Chunks!Rank(m) < Chunks!Rank(n)
    BY DEF Chunks!Rank
  <2>5. MarksTodo'
    BY <1>1, <2>2, <2>3, <2>4 DEF MarksTodo
  <2>6. InTime'
    BY <1>1, <1>19, <2>1 DEF InTime
  <2> QED
    BY <1>8, <1>10, <2>1, <2>5, <2>6
<1> QED
  BY <1>1, <1>2, <1>3, <1>12, <1>13, <1>14, <1>15, <1>16, <1>17, <1>18, <1>19 DEF Plain, EventsMay

-----------------------------------------------------------------------------
\* What the client sees, as the variables of ChunkStream.
LEMMA Seen ==
  bridge.to = "chunks" =>
    /\ Of("chunks", client.frame) = client.frame
    /\ Of("chunks", client.text) = client.text
    /\ Of("chunks", client.blocks) = client.blocks
BY DEF Of

LEMMA ClientParts ==
  ASSUME NEW c \in Clients
  PROVE  /\ c.frame \in Seq(Marks) /\ c.blocks \in Seq(Blocks) /\ c.text \in Seq(Nat)
         /\ c = [frame |-> c.frame, blocks |-> c.blocks, text |-> c.text, reason |-> c.reason]
BY DEF Clients

\* A first element, and the rest.
LEMMA HeadAndTail ==
  ASSUME NEW R, NEW s \in Seq(R), s # <<>>
  PROVE  /\ 1 \in DOMAIN s /\ Head(s) = s[1] /\ Tail(s) \in Seq(R) /\ Len(s) \in Nat \ {0}
         /\ DOMAIN s = 1..Len(s) /\ DOMAIN Tail(s) = 1..(Len(s) - 1)
         /\ \A i \in DOMAIN Tail(s) : i + 1 \in DOMAIN s /\ Tail(s)[i] = s[i + 1]
         /\ \A i \in DOMAIN s : i = 1 \/ i - 1 \in DOMAIN Tail(s)
OBVIOUS

\* The client reads a mark.
LEMMA MarkRead ==
  ASSUME ChunkInv, bridge.to = "chunks", pc = "stream", MarksTodo, todo # <<>>,
         client' = Receive(Head(todo)), todo' = Tail(todo),
         UNCHANGED <<bridge, pc, said, writer, closing>>
  PROVE  /\ ChunkInv'
         /\ \E type \in Marks :
              /\ \A j \in DOMAIN client.frame : Chunks!Rank(client.frame[j]) < Chunks!Rank(type)
              /\ client'.frame = Append(client.frame, type)
              /\ client'.text = client.text /\ client'.blocks = client.blocks
<1> DEFINE R == [type : Marks, index : {None}, who : {Text}, frags : {<<>>}]
<1> PICK type : type = Head(todo).type
  OBVIOUS
<1>1. todo \in Seq(R)
  BY DEF MarksTodo, MarkSeqs
<1>2. /\ 1 \in DOMAIN todo /\ Head(todo) = todo[1] /\ Tail(todo) \in Seq(R) /\ Len(todo) \in Nat \ {0}
      /\ DOMAIN todo = 1..Len(todo) /\ DOMAIN Tail(todo) = 1..(Len(todo) - 1)
      /\ \A i \in DOMAIN Tail(todo) : i + 1 \in DOMAIN todo /\ Tail(todo)[i] = todo[i + 1]
      /\ \A i \in DOMAIN todo : i = 1 \/ i - 1 \in DOMAIN Tail(todo)
  <2> HIDE DEF R
  <2> QED
    BY <1>1, HeadAndTail
<1>3. type \in Marks /\ Head(todo) = Mark(type) /\ type = todo[1].type
  BY <1>2, MarkTypes DEF MarksTodo
<1>4. /\ client \in Clients /\ client.frame \in Seq(Marks)
      /\ client = [frame |-> client.frame, blocks |-> client.blocks, text |-> client.text,
                   reason |-> client.reason]
  BY ClientParts DEF ChunkInv
<1>5. /\ client'.frame = Append(client.frame, type)
      /\ client'.text = client.text /\ client'.blocks = client.blocks /\ client' \in Clients
  <2>1. Head(todo).type = type /\ type \in Marks
    BY <1>3
  <2>2. PICK r : client' = [client EXCEPT !.frame = Append(@, type), !.reason = r]
                 /\ r \in {"none", "said", "default"}
    <3>1. CASE type = "finish"
      BY <2>1, <3>1 DEF Receive
    <3>2. CASE type # "finish"
      <4>1. client' = [client EXCEPT !.frame = Append(@, type)]
        BY <2>1, <3>2 DEF Receive, Marks
      <4>2. client' = [client EXCEPT !.frame = Append(@, type), !.reason = client.reason]
        BY <1>4, <4>1
      <4> QED
        BY <1>4, <4>2 DEF Clients
    <3> QED
      BY <3>1, <3>2
  <2>3. client' = [frame |-> Append(client.frame, type), blocks |-> client.blocks,
                   text |-> client.text, reason |-> r]
    BY <1>4, <2>2
  <2>4. Append(client.frame, type) \in Seq(Marks)
    BY <1>3, <1>4 DEF Marks
  <2> QED
    BY <1>4, <2>2, <2>3, <2>4 DEF Clients
<1>6. /\ DOMAIN client'.frame = DOMAIN client.frame \cup {Len(client.frame) + 1}
      /\ \A j \in DOMAIN client.frame : client'.frame[j] = client.frame[j]
      /\ client'.frame[Len(client.frame) + 1] = type
  <2>1. PICK f : f = client.frame
    OBVIOUS
  <2>2. f \in Seq(Marks) /\ type \in Marks
    BY <1>3, <1>4, <2>1 DEF Marks
  <2>3. Append(f, type) \in Seq(Marks) /\ Len(Append(f, type)) = Len(f) + 1
    BY <2>2
  <2>4. /\ DOMAIN Append(f, type) = 1..(Len(f) + 1) /\ DOMAIN f = 1..Len(f) /\ Len(f) \in Nat
        /\ \A j \in 1..Len(f) : Append(f, type)[j] = f[j]
        /\ Append(f, type)[Len(f) + 1] = type
    BY <2>2, <2>3
  <2>5. DOMAIN Append(f, type) = DOMAIN f \cup {Len(f) + 1}
    BY <2>4
  <2> QED
    BY <1>5, <2>1, <2>4, <2>5
<1>7. \A i \in DOMAIN todo : todo[i].type \in Marks
  BY MarkTypes DEF MarksTodo
<1>8. \A i \in DOMAIN todo' : i + 1 \in DOMAIN todo /\ todo'[i].type = todo[i + 1].type /\ i + 1 > 1
  BY <1>2
<1>9. MarksTodo'
  <2>1. ASSUME NEW i \in DOMAIN todo', NEW j \in DOMAIN client'.frame
        PROVE  Chunks!Rank(client'.frame[j]) < Chunks!Rank(todo'[i].type)
    <3>1. CASE j \in DOMAIN client.frame
      BY <1>6, <1>8, <3>1 DEF MarksTodo
    <3>2. CASE j = Len(client.frame) + 1
      BY <1>2, <1>3, <1>6, <1>8, <3>2 DEF MarksTodo
    <3> QED
      BY <1>6, <3>1, <3>2
  <2>2. ASSUME NEW i \in DOMAIN todo', NEW j \in DOMAIN todo', j < i
        PROVE  Chunks!Rank(todo'[j].type) < Chunks!Rank(todo'[i].type)
    <3>1. i \in Int /\ j \in Int /\ j + 1 < i + 1
      BY <1>2, <2>2
    <3> QED
      BY <1>8, <3>1 DEF MarksTodo
  <2> QED
    BY <1>2, <2>1, <2>2 DEF MarksTodo, MarkSeqs
<1>10. ASSUME NEW S
       PROVE  OnlyMarks(S)' <=> OnlyMarks(S)
  <2>1. OnlyMarks(S) => OnlyMarks(S)'
    BY <1>2, <1>3, <1>6, <1>7, <1>8 DEF OnlyMarks
  <2>2. ASSUME OnlyMarks(S)' PROVE OnlyMarks(S)
    <3>1. \A j \in DOMAIN client.frame : client.frame[j] \in S
      BY <1>6, <2>2 DEF OnlyMarks
    <3>2. ASSUME NEW i \in DOMAIN todo PROVE todo[i].type \in S
      <4>1. CASE i = 1
        BY <1>3, <1>6, <2>2, <4>1 DEF OnlyMarks
      <4>2. CASE i # 1
        <5>1. i - 1 \in DOMAIN todo' /\ (i - 1) + 1 = i
          BY <1>2, <4>2
        <5>2. todo'[i - 1].type = todo[i].type
          BY <1>8, <5>1
        <5> QED
          BY <1>7, <2>2, <5>1, <5>2 DEF OnlyMarks
      <4> QED
        BY <4>1, <4>2
    <3> QED
      BY <3>1, <3>2 DEF OnlyMarks
  <2> QED
    BY <2>1, <2>2
<1>11. ~CallTodo /\ ~CallTodo'
  <2>1. CallTodo => \E i \in DOMAIN todo : todo[i].type = "open"
    BY OneEvent DEF CallTodo
  <2>2. CallTodo' => \E i \in DOMAIN todo' : todo'[i].type = "open"
    BY OneEvent DEF CallTodo
  <2> QED
    BY <1>7, <1>8, <2>1, <2>2 DEF Marks
<1>12. Numbered'
  BY <1>5, <1>11 DEF ChunkInv, Numbered
<1>13. Has("done")' = Has("done") /\ Has("reason")' = Has("reason") /\ Mentioned' = Mentioned
  BY DEF Has, Mentioned
<1>14. InTime'
  <2>1. Unfinished' <=> Unfinished
    BY <1>10 DEF Unfinished
  <2> QED
    BY <1>10, <1>13, <2>1 DEF ChunkInv, InTime
<1>15. ChunkInv'
  BY <1>5, <1>9, <1>12, <1>13, <1>14 DEF ChunkInv
<1>16. \A j \in DOMAIN client.frame : Chunks!Rank(client.frame[j]) < Chunks!Rank(type)
  BY <1>2, <1>3 DEF MarksTodo
<1> QED
  BY <1>3, <1>5, <1>15, <1>16

\* The client reads what is no mark: nothing is left to be written.
LEMMA OneRead ==
  ASSUME ChunkInv, bridge.to = "chunks", pc = "stream", Unfinished,
         NEW e, todo = <<e>>, e.type \notin Marks,
         todo' = Tail(todo), client' \in Clients, client'.frame = client.frame,
         \A i \in DOMAIN client'.blocks : client'.blocks[i].who \in Tools \cap Mentioned,
         Len(client'.blocks) = Len(client.blocks) + (IF CallTodo THEN 1 ELSE 0),
         UNCHANGED <<bridge, pc, said, writer, closing>>
  PROVE  ChunkInv'
<1>1. todo' = <<>> /\ ~CallTodo' /\ DOMAIN todo = {1} /\ todo[1] = e
  <2>1. Tail(<<e>>) = <<>> /\ DOMAIN <<e>> = {1}
    OBVIOUS
  <2>2. CallTodo' => DOMAIN todo' = {1}
    BY OneEvent DEF CallTodo
  <2> QED
    BY <2>1, <2>2
<1>2. MarksTodo'
  BY <1>1 DEF MarksTodo, MarkSeqs
<1>3. \A S : OnlyMarks(S)' <=> OnlyMarks(S)
  BY <1>1 DEF OnlyMarks
<1>4. Numbered'
  <2>1. PICK c : c = client'.blocks
    OBVIOUS
  <2>2. c \in Seq(Blocks)
    BY <2>1 DEF Clients
  <2>3. Len(c) \in Nat
    BY <2>2
  <2>4. /\ writer = [index |-> writer.index, count |-> writer.count, finished |-> writer.finished]
        /\ writer.count = Len(c)
        /\ \A k \in DOMAIN writer.index : writer.index[k] \in 0..(writer.count - 1)
    BY <2>1 DEF ChunkInv, Numbered
  <2>5. Len(client'.blocks) + (IF CallTodo' THEN 1 ELSE 0) = Len(c)
    <3>1. (IF CallTodo' THEN 1 ELSE 0) = 0
      BY <1>1
    <3>2. Len(client'.blocks) = Len(c)
      BY <2>1
    <3>3. \A x \in Nat : x + 0 = x
      OBVIOUS
    <3> QED
      BY <2>3, <3>1, <3>2, <3>3, Zenon
  <2> QED
    BY <2>4, <2>5 DEF Numbered
<1>5. Has("done")' = Has("done") /\ Has("reason")' = Has("reason") /\ Mentioned' = Mentioned
  BY DEF Has, Mentioned
<1>6. InTime'
  BY <1>3, <1>5 DEF ChunkInv, InTime, Unfinished
<1> QED
  BY <1>2, <1>4, <1>5, <1>6 DEF ChunkInv

\* A longer sequence.
LEMMA Longer ==
  ASSUME NEW R, NEW s \in Seq(R), NEW x \in R
  PROVE  /\ s \o <<x>> \in Seq(R) /\ Chunks!Extends(s \o <<x>>, s)
<1>1. /\ s \o <<x>> \in Seq(R) /\ Len(s \o <<x>>) = Len(s) + 1 /\ Len(s) \in Nat
      /\ \A i \in 1..Len(s) : (s \o <<x>>)[i] = s[i]
  OBVIOUS
<1>2. PICK t : t = s \o <<x>>
  OBVIOUS
<1>3. SubSeq(t, 1, Len(s)) = s
  <2>1. t \in Seq(R) /\ Len(t) = Len(s) + 1 /\ \A i \in 1..Len(s) : t[i] = s[i]
    BY <1>1, <1>2
  <2>2. PICK b : b = SubSeq(t, 1, Len(s))
    OBVIOUS
  <2>3. b \in Seq(R) /\ Len(b) = Len(s) /\ \A i \in 1..Len(s) : b[i] = t[i]
    BY <1>1, <2>1, <2>2
  <2>4. b = s
    BY <2>1, <2>3, SeqEqual
  <2> QED
    BY <2>2, <2>4
<1> QED
  BY <1>1, <1>2, <1>3 DEF Chunks!Extends

LEMMA TextRead ==
  ASSUME ChunkInv, bridge.to = "chunks", pc = "stream", TextTodo,
         client' = Receive(Head(todo)), todo' = Tail(todo),
         UNCHANGED <<bridge, pc, said, writer, closing>>
  PROVE  /\ ChunkInv'
         /\ client'.frame = client.frame /\ client'.blocks = client.blocks
         /\ Chunks!Extends(client'.text, client.text)
<1>1. PICK n \in Nat : todo = <<Event("fill", None, Text, <<n>>)>>
  BY DEF TextTodo
<1>2. PICK e : todo = <<e>> /\ e.type = "fill" /\ e.index = None /\ e.frags = <<n>> /\ Head(todo) = e
  BY <1>1 DEF Event
<1>3. client \in Clients
      /\ client = [frame |-> client.frame, blocks |-> client.blocks, text |-> client.text,
                   reason |-> client.reason]
      /\ client.text \in Seq(Nat)
  BY ClientParts DEF ChunkInv
<1>4. client' = [client EXCEPT !.text = @ \o <<n>>]
  <2>1. ~(None + 1 \in DOMAIN client.blocks)
    BY <1>3 DEF None, Clients
  <2> QED
    BY <1>2, <2>1 DEF Receive
<1>5. client.text \o <<n>> \in Seq(Nat) /\ Chunks!Extends(client.text \o <<n>>, client.text)
  BY <1>3, Longer
<1>6. PICK t : t = client.text \o <<n>>
  OBVIOUS
<1>7. client' = [frame |-> client.frame, blocks |-> client.blocks, text |-> t,
                 reason |-> client.reason] /\ t \in Seq(Nat) /\ Chunks!Extends(t, client.text)
  BY <1>3, <1>4, <1>5, <1>6
<1>8. client' \in Clients /\ client'.frame = client.frame /\ client'.blocks = client.blocks
      /\ client'.text = t
  BY <1>3, <1>7 DEF Clients
<1>9. ~CallTodo
  BY <1>2, OneEvent DEF CallTodo
<1>10. \A i \in DOMAIN client'.blocks : client'.blocks[i].who \in Tools \cap Mentioned
  BY <1>8 DEF ChunkInv
<1>11. Len(client'.blocks) = Len(client.blocks) + (IF CallTodo THEN 1 ELSE 0)
  BY <1>3, <1>8, <1>9 DEF Clients
<1> QED
  BY <1>2, <1>7, <1>8, <1>10, <1>11, OneRead DEF TextTodo, Marks

LEMMA CallRead ==
  ASSUME ChunkInv, bridge.to = "chunks", pc = "stream", CallTodo,
         client' = Receive(Head(todo)), todo' = Tail(todo),
         UNCHANGED <<bridge, pc, said, writer, closing>>
  PROVE  /\ ChunkInv'
         /\ client'.frame = client.frame /\ client'.text = client.text
         /\ \E k \in Tools :
              /\ \A i \in DOMAIN client.blocks : client.blocks[i].who # k
              /\ client'.blocks = Append(client.blocks, [index |-> Len(client.blocks), who |-> k,
                                                         closes |-> 0, content |-> <<>>])
<1>1. PICK k \in Tools : /\ todo = <<Event("open", Len(client.blocks), k, <<>>)>>
                         /\ k \in Mentioned
                         /\ \A i \in DOMAIN client.blocks : client.blocks[i].who # k
  BY DEF CallTodo
<1>2. PICK e : /\ todo = <<e>> /\ e.type = "open" /\ e.index = Len(client.blocks) /\ e.who = k
               /\ Head(todo) = e
  BY <1>1 DEF Event
<1>3. client \in Clients
      /\ client = [frame |-> client.frame, blocks |-> client.blocks, text |-> client.text,
                   reason |-> client.reason]
      /\ client.blocks \in Seq(Blocks) /\ Len(client.blocks) \in Nat
  BY ClientParts DEF ChunkInv
<1>4. PICK b : b = [index |-> Len(client.blocks), who |-> k, closes |-> 0, content |-> <<>>]
  OBVIOUS
<1>5. client' = [client EXCEPT !.blocks = Append(@, b)]
  BY <1>2, <1>4 DEF Receive
<1>6. b \in Blocks /\ b.who = k
  BY <1>3, <1>4, ToolsAssumption DEF Blocks
<1>7. PICK s : s = Append(client.blocks, b)
  OBVIOUS
<1>8. /\ s \in Seq(Blocks) /\ Len(s) = Len(client.blocks) + 1
      /\ DOMAIN s = DOMAIN client.blocks \cup {Len(s)} /\ s[Len(s)] = b
      /\ \A i \in DOMAIN client.blocks : s[i] = client.blocks[i]
  <2>1. PICK c : c = client.blocks
    OBVIOUS
  <2>2. c \in Seq(Blocks) /\ s = Append(c, b)
    BY <1>3, <1>7, <2>1
  <2>3. /\ Append(c, b) \in Seq(Blocks) /\ Len(Append(c, b)) = Len(c) + 1 /\ Len(c) \in Nat
        /\ DOMAIN c = 1..Len(c) /\ DOMAIN Append(c, b) = 1..(Len(c) + 1)
        /\ \A i \in 1..Len(c) : Append(c, b)[i] = c[i]
        /\ Append(c, b)[Len(c) + 1] = b
    BY <1>6, <2>2
  <2>4. DOMAIN s = DOMAIN c \cup {Len(s)}
    BY <2>2, <2>3
  <2> QED
    BY <2>1, <2>2, <2>3, <2>4
<1>9. client' = [frame |-> client.frame, blocks |-> s, text |-> client.text, reason |-> client.reason]
  BY <1>3, <1>5, <1>7
<1>10. client' \in Clients /\ client'.frame = client.frame /\ client'.blocks = s
       /\ client'.text = client.text
  BY <1>3, <1>8, <1>9 DEF Clients
<1>11. \A i \in DOMAIN client'.blocks : client'.blocks[i].who \in Tools \cap Mentioned
  BY <1>1, <1>6, <1>8, <1>10 DEF ChunkInv
<1>12. Len(client'.blocks) = Len(client.blocks) + (IF CallTodo THEN 1 ELSE 0)
  BY <1>8, <1>10
<1>13. ChunkInv'
  BY <1>2, <1>10, <1>11, <1>12, OneRead DEF CallTodo, Marks
<1> QED
  BY <1>1, <1>4, <1>7, <1>10, <1>13

LEMMA InputRead ==
  ASSUME ChunkInv, bridge.to = "chunks", pc = "stream", InputTodo,
         client' = Receive(Head(todo)), todo' = Tail(todo),
         UNCHANGED <<bridge, pc, said, writer, closing>>
  PROVE  /\ ChunkInv'
         /\ client'.frame = client.frame /\ client'.text = client.text
         /\ \E i \in DOMAIN client.blocks :
              /\ DOMAIN client'.blocks = DOMAIN client.blocks
              /\ Chunks!Extends(client'.blocks[i].content, client.blocks[i].content)
              /\ client'.blocks = [client.blocks EXCEPT ![i].content = client'.blocks[i].content]
<1>1. PICK i \in DOMAIN client.blocks, k \in Tools, n \in Nat :
        todo = <<Event("fill", i - 1, k, <<n>>)>>
  BY DEF InputTodo
<1>2. PICK e : /\ todo = <<e>> /\ e.type = "fill" /\ e.index = i - 1 /\ e.frags = <<n>>
               /\ Head(todo) = e
  BY <1>1 DEF Event
<1>3. client \in Clients
      /\ client = [frame |-> client.frame, blocks |-> client.blocks, text |-> client.text,
                   reason |-> client.reason]
      /\ client.blocks \in Seq(Blocks) /\ Len(client.blocks) \in Nat
      /\ DOMAIN client.blocks = 1..Len(client.blocks)
  BY ClientParts DEF ChunkInv
<1>4. i \in Nat \ {0} /\ (i - 1) + 1 = i /\ i - 1 # None
  BY <1>3 DEF None
<1>5. client.blocks[i].who # Text
  BY ToolsAssumption DEF ChunkInv, Text
<1>6. PICK x : x = client.blocks[i].content \o <<n>>
  OBVIOUS
<1>7. /\ client.blocks[i] \in Blocks /\ x \in Seq(Nat)
      /\ Chunks!Extends(x, client.blocks[i].content)
  <2>1. client.blocks[i] \in Blocks
    <3> PICK B : B = Blocks
      OBVIOUS
    <3> QED
      BY <1>3
  <2>2. client.blocks[i].content \in Seq(Nat)
    BY <2>1 DEF Blocks
  <2> QED
    BY <1>6, <2>1, <2>2, Longer
<1>8. PICK s : s = [client.blocks EXCEPT ![i].content = x]
  OBVIOUS
<1>9. client' = [client EXCEPT !.blocks = s, !.text = client.text]
  BY <1>2, <1>4, <1>5, <1>6, <1>8 DEF Receive
<1>10. client' = [frame |-> client.frame, blocks |-> s, text |-> client.text, reason |-> client.reason]
  BY <1>3, <1>9
<1>11. /\ s \in Seq(Blocks) /\ Len(s) = Len(client.blocks) /\ DOMAIN s = DOMAIN client.blocks
       /\ s[i].content = x
       /\ \A j \in DOMAIN client.blocks : s[j].who = client.blocks[j].who
  <2>1. PICK b : b = [client.blocks[i] EXCEPT !.content = x]
    OBVIOUS
  <2>2. b \in Blocks /\ b.content = x /\ b.who = client.blocks[i].who
    BY <1>7, <2>1 DEF Blocks
  <2>3. s = [client.blocks EXCEPT ![i] = b]
    BY <1>8, <2>1
  <2>4. PICK B, c : B = Blocks /\ c = client.blocks
    OBVIOUS
  <2>5. c \in Seq(B) /\ b \in B /\ i \in DOMAIN c /\ s = [c EXCEPT ![i] = b]
    BY <1>3, <2>2, <2>3, <2>4
  <2>6. s \in Seq(B) /\ Len(s) = Len(c) /\ DOMAIN s = DOMAIN c /\ s[i] = b
        /\ \A j \in DOMAIN c : j # i => s[j] = c[j]
    BY <2>5
  <2> QED
    BY <2>2, <2>4, <2>6
<1>12. client' \in Clients /\ client'.frame = client.frame /\ client'.blocks = s
       /\ client'.text = client.text
  BY <1>3, <1>10, <1>11 DEF Clients
<1>13. \A j \in DOMAIN client'.blocks : client'.blocks[j].who \in Tools \cap Mentioned
  BY <1>11, <1>12 DEF ChunkInv
<1>14. ~CallTodo
  BY <1>2, OneEvent DEF CallTodo
<1>15. Len(client'.blocks) = Len(client.blocks) + (IF CallTodo THEN 1 ELSE 0)
  BY <1>3, <1>11, <1>12, <1>14
<1>16. ChunkInv'
  BY <1>2, <1>12, <1>13, <1>15, OneRead DEF InputTodo, Marks
<1>17. /\ DOMAIN client'.blocks = DOMAIN client.blocks
       /\ Chunks!Extends(client'.blocks[i].content, client.blocks[i].content)
       /\ client'.blocks = [client.blocks EXCEPT ![i].content = client'.blocks[i].content]
  BY <1>7, <1>8, <1>11, <1>12
<1> QED
  BY <1>12, <1>16, <1>17

LEMMA ChunkStarts == Init => ChunkInv
<1> SUFFICES ASSUME Init, bridge.to = "chunks" PROVE ChunkInv
  BY DEF ChunkInv
<1>1. PICK b \in Bridges, c \in BOOLEAN : bridge = [up |-> b.up, to |-> b.to, usage |-> c]
  BY DEF Init
<1>2. bridge.up \in {"anthropic", "bedrock"} /\ bridge.usage \in BOOLEAN
  BY <1>1, BridgesAssumption DEF AllBridges
<1>3. client = NoClient /\ writer = NewChunkWriter /\ said = <<>> /\ todo = <<>> /\ pc = "call"
  BY DEF Init, NewWriter
<1>4. client \in Clients
  BY <1>3 DEF NoClient, Clients
<1> QED
  BY <1>2, <1>3, <1>4 DEF ChunkInv

LEMMA ChunkAccept ==
  ASSUME ChunkInv, bridge.to = "chunks", Accept
  PROVE  ChunkInv'
<1>1. /\ pc = "call" /\ pc' = "stream" /\ todo' = <<>>
      /\ UNCHANGED <<bridge, said, writer, closing, client>>
      /\ client = NoClient /\ writer = NewChunkWriter /\ said = <<>>
  BY DEF Accept, ChunkInv
<1>2. client'.frame = <<>> /\ client'.blocks = <<>> /\ DOMAIN client'.blocks = {} /\ DOMAIN client'.frame = {}
  BY <1>1 DEF NoClient
<1>3. MarksTodo' /\ ~CallTodo'
  <2>1. CallTodo' => DOMAIN todo' = {1}
    BY OneEvent DEF CallTodo
  <2>2. MarksTodo'
    BY <1>1 DEF MarksTodo, MarkSeqs
  <2> QED
    BY <1>1, <2>1, <2>2
<1>4. \A S : OnlyMarks(S)'
  BY <1>1, <1>2 DEF OnlyMarks
<1>5. Numbered'
  BY <1>1, <1>2, <1>3 DEF Numbered, NewChunkWriter
<1>6. InTime'
  BY <1>1, <1>4 DEF InTime, Unfinished, NewChunkWriter
<1>7. said' \in Seq(Utterances)
  BY <1>1
<1> QED
  BY <1>1, <1>2, <1>3, <1>5, <1>6, <1>7 DEF ChunkInv

\* What the client of chunks sees moves as a completion does, or not at all.
ChunksMove ==
  \/ Chunks!Next
  \/ UNCHANGED <<Of("chunks", client.frame), Of("chunks", client.text), Of("chunks", client.blocks)>>

LEMMA ChunkWrites ==
  ASSUME ChunkInv, bridge.to = "chunks", Write
  PROVE  ChunkInv' /\ Chunks!Next
<1>1. /\ pc = "stream" /\ todo # <<>> /\ client' = Receive(Head(todo)) /\ todo' = Tail(todo)
      /\ UNCHANGED <<bridge, pc, said, writer, closing>>
  BY DEF Write
<1>2. /\ Of("chunks", client.frame) = client.frame /\ Of("chunks", client.text) = client.text
      /\ Of("chunks", client.blocks) = client.blocks
      /\ Of("chunks", client.frame)' = client'.frame /\ Of("chunks", client.text)' = client'.text
      /\ Of("chunks", client.blocks)' = client'.blocks
  BY <1>1 DEF Of
<1>3. CASE MarksTodo
  <2>1. PICK type \in Marks :
          /\ \A j \in DOMAIN client.frame : Chunks!Rank(client.frame[j]) < Chunks!Rank(type)
          /\ client'.frame = Append(client.frame, type)
          /\ client'.text = client.text /\ client'.blocks = client.blocks
    BY <1>1, <1>3, MarkRead
  <2>2. Chunks!Mark(type)
    BY <1>2, <2>1 DEF Chunks!Mark
  <2> QED
    BY <1>1, <1>3, <2>2, MarkRead DEF Chunks!Next, Marks
<1>4. Unfinished => Chunks!Unfinished
  BY <1>2 DEF Unfinished, OnlyMarks, Chunks!Unfinished
<1>5. CASE TextTodo
  <2>1. /\ ChunkInv' /\ client'.frame = client.frame /\ client'.blocks = client.blocks
        /\ Chunks!Extends(client'.text, client.text)
    BY <1>1, <1>5, TextRead
  <2>2. Chunks!Say
    BY <1>2, <1>4, <1>5, <2>1 DEF Chunks!Say, TextTodo
  <2> QED
    BY <2>1, <2>2 DEF Chunks!Next
<1>6. CASE CallTodo
  <2>1. PICK k \in Tools :
          /\ \A i \in DOMAIN client.blocks : client.blocks[i].who # k
          /\ client'.blocks = Append(client.blocks, [index |-> Len(client.blocks), who |-> k,
                                                     closes |-> 0, content |-> <<>>])
    BY <1>1, <1>6, CallRead
  <2>2. ChunkInv' /\ client'.frame = client.frame /\ client'.text = client.text
    BY <1>1, <1>6, CallRead
  <2>3. Chunks!Call(k)
    BY <1>2, <1>4, <1>6, <2>1, <2>2 DEF Chunks!Call, CallTodo
  <2> QED
    BY <2>2, <2>3 DEF Chunks!Next
<1>7. CASE InputTodo
  <2>1. PICK i \in DOMAIN client.blocks :
          /\ DOMAIN client'.blocks = DOMAIN client.blocks
          /\ Chunks!Extends(client'.blocks[i].content, client.blocks[i].content)
          /\ client'.blocks = [client.blocks EXCEPT ![i].content = client'.blocks[i].content]
    BY <1>1, <1>7, InputRead
  <2>2. ChunkInv' /\ client'.frame = client.frame /\ client'.text = client.text
    BY <1>1, <1>7, InputRead
  <2>3. Chunks!Argue(i)
    BY <1>2, <1>4, <1>7, <2>1, <2>2 DEF Chunks!Argue, InputTodo
  <2> QED
    BY <1>2, <2>2, <2>3 DEF Chunks!Next
<1> QED
  BY <1>1, <1>3, <1>5, <1>6, <1>7 DEF ChunkInv

LEMMA ChunkStep ==
  ASSUME ChunkInv, [Next]_vars
  PROVE  ChunkInv' /\ ChunksMove
<1>1. bridge' = bridge
  BY DEF Next, Retry, GiveUp, FailCall, Accept, Say, Break, Write, Disconnect, Return, vars
<1>2. CASE bridge.to # "chunks"
  BY <1>1, <1>2 DEF ChunkInv, ChunksMove, Of
<1>3. ASSUME client' = client
      PROVE  ChunksMove
  BY <1>1, <1>3 DEF ChunksMove, Of
<1> SUFFICES ASSUME bridge.to = "chunks" PROVE ChunkInv' /\ ChunksMove
  BY <1>2
<1>4. CASE Write
  BY <1>4, ChunkWrites DEF ChunksMove
<1>5. CASE Accept
  BY <1>3, <1>5, ChunkAccept DEF Accept
<1>6. ASSUME NEW u \in Utterances, Say(u) PROVE ChunkInv' /\ ChunksMove
  BY <1>3, <1>6, ChunkSays DEF Say
<1>7. ASSUME NEW named \in SUBSET Params, Retry(named) PROVE ChunkInv' /\ ChunksMove
  <2>1. pc = "call" /\ pc' = "call" /\ UNCHANGED <<bridge, said, writer, todo, client>>
    BY <1>7 DEF Retry, Complaint
  <2> QED
    BY <1>3, <2>1 DEF ChunkInv
<1>8. ASSUME pc' = "ended", client' = client PROVE ChunkInv' /\ ChunksMove
  BY <1>1, <1>3, <1>8 DEF ChunkInv
<1>9. ASSUME NEW named \in SUBSET Params, GiveUp(named) PROVE ChunkInv' /\ ChunksMove
  BY <1>8, <1>9 DEF GiveUp, End
<1>10. CASE FailCall \/ Break \/ Disconnect \/ Return
  <2>1. pc' = "ended" /\ client' = client
    BY <1>10 DEF FailCall, Break, Disconnect, Return, End
  <2> QED
    BY <1>8, <2>1
<1>11. CASE UNCHANGED vars
  <2>1. UNCHANGED <<bridge, pc, said, writer, todo, closing, client>>
    BY <1>11 DEF vars
  <2>2. /\ (MarksTodo' <=> MarksTodo) /\ (TextTodo' <=> TextTodo) /\ (CallTodo' <=> CallTodo)
        /\ (InputTodo' <=> InputTodo) /\ (Numbered' <=> Numbered) /\ (InTime' <=> InTime)
    BY <2>1 DEF MarksTodo, TextTodo, CallTodo, InputTodo, Numbered, InTime, Unfinished, OnlyMarks,
                Mentioned, Has
  <2>3. Mentioned' = Mentioned
    BY <2>1 DEF Mentioned
  <2> QED
    BY <1>3, <2>1, <2>2, <2>3 DEF ChunkInv
<1> QED
  BY <1>4, <1>5, <1>6, <1>7, <1>9, <1>10, <1>11 DEF Next

\* What the client of a chat completion puts together is one, whatever the upstream says,
\* where it breaks off and where the client leaves: proxyAnthropicStreamAsOpenAI and
\* proxyBedrockOpenAIStream implement ChunkStream.
THEOREM ChunksAreWellFormed == Spec => ChunksWellFormed
<1>1. Init => Chunks!Init
  BY DEF Init, NoClient, Of, Chunks!Init
<1>2. ChunkInv /\ [Next]_vars => ChunkInv' /\ ChunksMove
  BY ChunkStep
<1>3. ChunksMove => [Chunks!Next]_<<Of("chunks", client.frame), Of("chunks", client.text),
                                    Of("chunks", client.blocks)>>
  BY DEF ChunksMove
<1> QED
  BY <1>1, <1>2, <1>3, ChunkStarts, PTL DEF Spec, ChunksWellFormed, Chunks!Spec

-----------------------------------------------------------------------------
(***************************************************************************)
(* What is not lost, and messages.                                         *)
(***************************************************************************)
\* Prefixes.
LEMMA PrefixOf ==
  ASSUME NEW S, NEW s \in Seq(S), NEW t \in Seq(S)
  PROVE  IsPrefix(s, s) /\ IsPrefix(s, s \o t) /\ IsPrefix(<<>>, s)
<1>1. Len(s \o t) = Len(s) + Len(t) /\ SubSeq(s \o t, 1, Len(s)) = s /\ SubSeq(s, 1, Len(s)) = s
  OBVIOUS
<1>2. SubSeq(s, 1, 0) = <<>> /\ Len(<<>>) = 0 /\ SubSeq(<<>>, 1, 0) = <<>>
  OBVIOUS
<1> QED
  BY <1>1, <1>2 DEF IsPrefix

LEMMA PrefixParts ==
  ASSUME NEW S, NEW s \in Seq(S), NEW t \in Seq(S)
  PROVE  IsPrefix(s, t) <=> Len(s) <= Len(t) /\ \A i \in 1..Len(s) : s[i] = t[i]
<1>1. SubSeq(s, 1, Len(s)) = s
  OBVIOUS
<1>2. ASSUME Len(s) <= Len(t)
      PROVE  /\ SubSeq(t, 1, Len(s)) \in Seq(S) /\ Len(SubSeq(t, 1, Len(s))) = Len(s)
             /\ \A i \in 1..Len(s) : SubSeq(t, 1, Len(s))[i] = t[i]
  BY <1>2
<1>3. ASSUME Len(s) <= Len(t), \A i \in 1..Len(s) : s[i] = t[i]
      PROVE  SubSeq(t, 1, Len(s)) = s
  <2> DEFINE u == SubSeq(t, 1, Len(s))
  <2>1. u \in Seq(S) /\ Len(u) = Len(s) /\ \A i \in 1..Len(s) : u[i] = s[i]
    BY <1>2, <1>3
  <2> HIDE DEF u
  <2>2. u = s
    BY <2>1
  <2> QED
    BY <2>2 DEF u
<1> QED
  BY <1>1, <1>2, <1>3 DEF IsPrefix

LEMMA PrefixTrans ==
  ASSUME NEW S, NEW s \in Seq(S), NEW t \in Seq(S), NEW u \in Seq(S), IsPrefix(s, t), IsPrefix(t, u)
  PROVE  IsPrefix(s, u)
<1>1. Len(s) \in Nat /\ Len(t) \in Nat /\ Len(u) \in Nat
  OBVIOUS
<1>2. Len(s) <= Len(t) /\ \A i \in 1..Len(s) : s[i] = t[i]
  BY PrefixParts
<1>3. Len(t) <= Len(u) /\ \A i \in 1..Len(t) : t[i] = u[i]
  BY PrefixParts
<1>4. Len(s) <= Len(u) /\ \A i \in 1..Len(s) : s[i] = u[i]
  BY <1>1, <1>2, <1>3
<1> QED
  BY <1>4, PrefixParts

\* A concatenation in which only one sequence, or none, has anything.
Silent(ss) == \A i \in DOMAIN ss : ss[i] = <<>>
Alone(ss, j) == j \in DOMAIN ss /\ \A i \in DOMAIN ss : i # j => ss[i] = <<>>

LEMMA Appended ==
  ASSUME NEW S, NEW s \in Seq(S), NEW x \in S, NEW u, u = Append(s, x)
  PROVE  /\ DOMAIN s = 1..Len(s) /\ Len(s) \in Nat /\ DOMAIN u = 1..(Len(s) + 1)
         /\ u[Len(s) + 1] = x /\ \A i \in DOMAIN s : u[i] = s[i]
         /\ DOMAIN u = DOMAIN s \cup {Len(s) + 1} /\ Len(s) + 1 \notin DOMAIN s
OBVIOUS

LEMMA FlattenSilent ==
  ASSUME NEW S, NEW ss \in Seq(Seq(S)), Silent(ss)
  PROVE  FlattenSeq(ss) = <<>>
<1> DEFINE T == {tt \in Seq(Seq(S)) : Silent(tt) => FlattenSeq(tt) = <<>>}
<1>1. <<>> \in T
  BY FlattenEmpty
<1>2. ASSUME NEW tt \in T, NEW x \in Seq(S) PROVE Append(tt, x) \in T
  <2>1. tt \in Seq(Seq(S)) /\ (Silent(tt) => FlattenSeq(tt) = <<>>) /\ Append(tt, x) \in Seq(Seq(S))
    OBVIOUS
  <2>2. SUFFICES ASSUME Silent(Append(tt, x)) PROVE FlattenSeq(Append(tt, x)) = <<>>
    BY <2>1
  <2>3. x = <<>> /\ Silent(tt)
    <3>1. PICK u : u = Append(tt, x)
      OBVIOUS
    <3>2. /\ DOMAIN tt = 1..Len(tt) /\ Len(tt) \in Nat /\ DOMAIN u = 1..(Len(tt) + 1)
          /\ u[Len(tt) + 1] = x /\ \A i \in DOMAIN tt : u[i] = tt[i]
          /\ DOMAIN u = DOMAIN tt \cup {Len(tt) + 1} /\ Len(tt) + 1 \notin DOMAIN tt
      BY <2>1, <3>1, Appended
    <3>3. Silent(u)
      BY <2>2, <3>1
    <3> QED
      BY ONLY <3>2, <3>3 DEF Silent
  <2>4. FlattenSeq(Append(tt, x)) = FlattenSeq(tt) \o x
    BY <2>1, FlattenAppend
  <2>5. <<>> \o <<>> = <<>>
    OBVIOUS
  <2> QED
    BY <2>1, <2>3, <2>4, <2>5
<1>3. T = Seq(Seq(S))
  <2> HIDE DEF T
  <2>1. T \in SUBSET Seq(Seq(S))
    BY DEF T
  <2> QED
    BY <1>1, <1>2, <2>1, SequenceInduction
<1>4. ss \in T
  <2> HIDE DEF T
  <2> QED
    BY <1>3
<1> QED
  BY <1>4

LEMMA FlattenAlone ==
  ASSUME NEW S, NEW ss \in Seq(Seq(S)), NEW j, Alone(ss, j)
  PROVE  FlattenSeq(ss) = ss[j]
<1> DEFINE T == {tt \in Seq(Seq(S)) : Alone(tt, j) => FlattenSeq(tt) = tt[j]}
<1>1. <<>> \in T
  BY DEF Alone
<1>2. ASSUME NEW tt \in T, NEW x \in Seq(S) PROVE Append(tt, x) \in T
  <2>1. tt \in Seq(Seq(S)) /\ (Alone(tt, j) => FlattenSeq(tt) = tt[j]) /\ Append(tt, x) \in Seq(Seq(S))
    OBVIOUS
  <2>2. SUFFICES ASSUME Alone(Append(tt, x), j) PROVE FlattenSeq(Append(tt, x)) = Append(tt, x)[j]
    BY <2>1
  <2>4. PICK u : u = Append(tt, x)
    OBVIOUS
  <2>3. /\ DOMAIN tt = 1..Len(tt) /\ Len(tt) \in Nat /\ DOMAIN u = 1..(Len(tt) + 1)
        /\ u[Len(tt) + 1] = x /\ \A i \in DOMAIN tt : u[i] = tt[i]
        /\ DOMAIN u = DOMAIN tt \cup {Len(tt) + 1} /\ Len(tt) + 1 \notin DOMAIN tt
    BY <2>1, <2>4, Appended
  <2>7. FlattenSeq(u) = FlattenSeq(tt) \o x /\ Alone(u, j)
    BY <2>1, <2>2, <2>4, FlattenAppend
  <2> SUFFICES FlattenSeq(u) = u[j]
    BY <2>4
  <2>5. CASE j = Len(tt) + 1
    <3>1. Silent(tt)
      BY ONLY <2>3, <2>5, <2>7 DEF Alone, Silent
    <3>2. FlattenSeq(tt) = <<>>
      BY <2>1, <3>1, FlattenSilent
    <3>3. <<>> \o x = x
      OBVIOUS
    <3> QED
      BY <2>3, <2>5, <2>7, <3>2, <3>3
  <2>6. CASE j # Len(tt) + 1
    <3>1. Alone(tt, j) /\ x = <<>>
      BY ONLY <2>3, <2>6, <2>7 DEF Alone
    <3>4. tt[j] \in Seq(S)
      BY <2>1, <3>1 DEF Alone
    <3>2. tt[j] \o <<>> = tt[j]
      BY <3>4
    <3> QED
      BY <2>1, <2>3, <2>7, <3>1, <3>2 DEF Alone
  <2> QED
    BY <2>5, <2>6
<1>3. T = Seq(Seq(S))
  <2> HIDE DEF T
  <2>1. T \in SUBSET Seq(Seq(S))
    BY DEF T
  <2> QED
    BY <1>1, <1>2, <2>1, SequenceInduction
<1>4. ss \in T
  <2> HIDE DEF T
  <2> QED
    BY <1>3
<1> QED
  BY <1>4

-----------------------------------------------------------------------------
\* Clients, and what reading an event makes of one.
FrameMarks == {"start", "finish", "usage", "done", "end", "stop"}
Reasons == {"none", "said", "default"}

\* Blocks are numbered, and each tool has one.
OwnBlocks(blocks) ==
  \A i, j \in DOMAIN blocks : blocks[i].who # Text /\ blocks[i].who = blocks[j].who => i = j
Numbers(blocks) == \A i \in DOMAIN blocks : blocks[i].index = i - 1
AnyClients == [frame : Seq(FrameMarks), blocks : Seq(Blocks), text : Seq(Nat), reason : Reasons]
Readers == {c \in AnyClients : OwnBlocks(c.blocks) /\ Numbers(c.blocks)}

Events == [type : {"open", "fill", "close"} \cup FrameMarks, index : Int, who : Int, frags : Seq(Nat)]
NewBlock(c, who) == [index |-> Len(c.blocks), who |-> who, closes |-> 0, content |-> <<>>]

\* Receive, for any client c, when r is the reason for its end.
Read(c, e, r) ==
  CASE e.type = "open" ->
         [c EXCEPT !.blocks = Append(@, [index |-> e.index, who |-> e.who, closes |-> 0,
                                         content |-> <<>>])]
    [] e.type = "fill" /\ e.index = None -> [c EXCEPT !.text = @ \o e.frags]
    [] e.type = "fill" /\ e.index + 1 \in DOMAIN c.blocks ->
         [c EXCEPT !.blocks[e.index + 1].content = @ \o e.frags,
                   !.text = IF c.blocks[e.index + 1].who = Text THEN @ \o e.frags ELSE @]
    [] e.type = "close" /\ e.index + 1 \in DOMAIN c.blocks ->
         [c EXCEPT !.blocks[e.index + 1].closes = @ + 1]
    [] e.type \in {"finish", "end"} -> [c EXCEPT !.frame = Append(@, e.type), !.reason = r]
    [] OTHER -> [c EXCEPT !.frame = Append(@, e.type)]

Reason == IF Has("reason") THEN "said" ELSE "default"

LEMMA ReceiveIsRead == ASSUME NEW e PROVE Receive(e) = Read(client, e, Reason)
BY DEF Receive, Read, Reason

\* What the client d has that the client c has not.
SameBlocks(c, d) == d.blocks = c.blocks
Opened(c, d, who) ==
  /\ d.frame = c.frame /\ d.text = c.text /\ d.reason = c.reason
  /\ Len(d.blocks) = Len(c.blocks) + 1 /\ DOMAIN d.blocks = DOMAIN c.blocks \cup {Len(d.blocks)}
  /\ d.blocks[Len(d.blocks)] = NewBlock(c, who)
  /\ Len(d.blocks) \notin DOMAIN c.blocks
  /\ \A i \in DOMAIN c.blocks : d.blocks[i] = c.blocks[i]
Others(c, d, b) ==
  /\ Len(d.blocks) = Len(c.blocks) /\ DOMAIN d.blocks = DOMAIN c.blocks /\ b \in DOMAIN c.blocks
  /\ d.blocks[b].who = c.blocks[b].who /\ d.blocks[b].index = c.blocks[b].index
  /\ \A i \in DOMAIN c.blocks : i # b => d.blocks[i] = c.blocks[i]
Filled(c, d, b, frags) ==
  /\ d.frame = c.frame /\ d.reason = c.reason /\ Others(c, d, b)
  /\ d.text = IF c.blocks[b].who = Text THEN c.text \o frags ELSE c.text
  /\ d.blocks[b].content = c.blocks[b].content \o frags /\ d.blocks[b].closes = c.blocks[b].closes
Closed(c, d, b) ==
  /\ d.frame = c.frame /\ d.text = c.text /\ d.reason = c.reason /\ Others(c, d, b)
  /\ d.blocks[b].content = c.blocks[b].content /\ d.blocks[b].closes = c.blocks[b].closes + 1
Spoken(c, d, frags) ==
  d.frame = c.frame /\ d.reason = c.reason /\ d.blocks = c.blocks /\ d.text = c.text \o frags
Noted(c, d, type, r) ==
  /\ d.frame = Append(c.frame, type) /\ d.blocks = c.blocks /\ d.text = c.text
  /\ d.reason = IF type \in {"finish", "end"} THEN r ELSE c.reason

LEMMA ReaderParts ==
  ASSUME NEW c \in Readers
  PROVE  /\ c.frame \in Seq(FrameMarks) /\ c.blocks \in Seq(Blocks) /\ c.text \in Seq(Nat) /\ c.reason \in Reasons
         /\ c = [frame |-> c.frame, blocks |-> c.blocks, text |-> c.text, reason |-> c.reason]
         /\ OwnBlocks(c.blocks) /\ Numbers(c.blocks)
         /\ DOMAIN c.blocks = 1..Len(c.blocks) /\ Len(c.blocks) \in Nat
         /\ \A i \in DOMAIN c.blocks : c.blocks[i] \in Blocks
BY DEF Readers, AnyClients

LEMMA BlockParts ==
  ASSUME NEW b \in Blocks
  PROVE  /\ b.index \in Nat /\ b.who \in Int /\ b.closes \in Nat /\ b.content \in Seq(Nat)
         /\ b = [index |-> b.index, who |-> b.who, closes |-> b.closes, content |-> b.content]
BY DEF Blocks

LEMMA EventParts ==
  ASSUME NEW e \in Events
  PROVE  /\ e.type \in {"open", "fill", "close"} \cup FrameMarks
         /\ e.index \in Int /\ e.who \in Int /\ e.frags \in Seq(Nat)
BY DEF Events

\* A client with other parts.
LEMMA ReaderMade ==
  ASSUME NEW frame \in Seq(FrameMarks), NEW blocks \in Seq(Blocks), NEW text \in Seq(Nat),
         NEW reason \in Reasons, OwnBlocks(blocks), Numbers(blocks),
         NEW d, d = [frame |-> frame, blocks |-> blocks, text |-> text, reason |-> reason]
  PROVE  d \in Readers
<1>1. d \in AnyClients
  BY DEF AnyClients
<1>2. d.blocks = blocks
  OBVIOUS
<1> QED
  BY <1>1, <1>2 DEF Readers

\* Opening a block.
LEMMA OpenRead ==
  ASSUME NEW c \in Readers, NEW e \in Events, NEW r \in Reasons, e.type = "open", e.index = Len(c.blocks),
         \A i \in DOMAIN c.blocks : c.blocks[i].who = e.who => e.who = Text
  PROVE  Read(c, e, r) \in Readers /\ Opened(c, Read(c, e, r), e.who)
<1> DEFINE b == NewBlock(c, e.who)
           bs == Append(c.blocks, b)
           n == Len(c.blocks) + 1
<1>1. PICK d : d = Read(c, e, r)
  OBVIOUS
<1>2. d = [frame |-> c.frame, blocks |-> bs, text |-> c.text, reason |-> c.reason]
  <2>1. d = [c EXCEPT !.blocks = bs]
    BY <1>1 DEF Read, NewBlock
  <2> HIDE DEF bs
  <2> QED
    BY <2>1, ReaderParts
<1>3. b \in Blocks /\ b.who = e.who /\ b.index = Len(c.blocks)
  BY ReaderParts, EventParts DEF NewBlock, Blocks
<1> HIDE DEF b
<1>4. /\ DOMAIN c.blocks = 1..Len(c.blocks) /\ Len(c.blocks) \in Nat /\ DOMAIN bs = 1..n
      /\ bs[n] = b /\ \A i \in DOMAIN c.blocks : bs[i] = c.blocks[i]
      /\ DOMAIN bs = DOMAIN c.blocks \cup {n} /\ n \notin DOMAIN c.blocks
  BY <1>3, ReaderParts, Appended
<1>5. bs \in Seq(Blocks) /\ Len(bs) = n
  BY <1>3, ReaderParts, AppendProperties
<1> HIDE DEF bs
<1>6. OwnBlocks(bs) /\ Numbers(bs)
  <2>1. OwnBlocks(c.blocks) /\ Numbers(c.blocks)
    BY ReaderParts
  <2>2. OwnBlocks(bs)
    BY <1>3, <1>4, <2>1 DEF OwnBlocks
  <2>3. Numbers(bs)
    BY <1>3, <1>4, <2>1 DEF Numbers
  <2> QED
    BY <2>2, <2>3
<1>7. d \in Readers
  BY <1>2, <1>5, <1>6, ReaderParts, ReaderMade
<1>8. Opened(c, d, e.who)
  <2>1. d.frame = c.frame /\ d.text = c.text /\ d.reason = c.reason /\ d.blocks = bs
    BY <1>2
  <2> QED
    BY <1>4, <1>5, <2>1 DEF Opened, b
<1> QED
  BY <1>1, <1>7, <1>8

\* A block that is changed, and not its holder.
ChangeOf(c, b, x, bs) ==
  /\ b \in DOMAIN c.blocks /\ x \in Blocks /\ bs = [c.blocks EXCEPT ![b] = x]
  /\ x.who = c.blocks[b].who /\ x.index = c.blocks[b].index
Changed(c, b, x, bs) ==
  /\ bs \in Seq(Blocks) /\ OwnBlocks(bs) /\ Numbers(bs)
  /\ Len(bs) = Len(c.blocks) /\ DOMAIN bs = DOMAIN c.blocks /\ bs[b] = x
  /\ \A i \in DOMAIN c.blocks : i # b => bs[i] = c.blocks[i]

LEMMA BlockChanged ==
  ASSUME NEW c \in Readers, NEW b, NEW x, NEW bs, ChangeOf(c, b, x, bs)
  PROVE  Changed(c, b, x, bs)
<1> USE DEF ChangeOf
<1>1. /\ c.blocks \in Seq(Blocks) /\ OwnBlocks(c.blocks) /\ Numbers(c.blocks)
  BY ReaderParts
<1>2. bs \in Seq(Blocks) /\ Len(bs) = Len(c.blocks)
  BY <1>1, ExceptSeq
<1>3. DOMAIN bs = DOMAIN c.blocks /\ bs[b] = x /\ \A i \in DOMAIN c.blocks : i # b => bs[i] = c.blocks[i]
  BY <1>1
<1>4. \A i \in DOMAIN bs : bs[i].who = c.blocks[i].who /\ bs[i].index = c.blocks[i].index
  BY <1>3
<1>5. OwnBlocks(bs) /\ Numbers(bs)
  BY <1>1, <1>3, <1>4 DEF OwnBlocks, Numbers
<1> QED
  BY <1>2, <1>3, <1>5 DEF Changed

LEMMA FillRead ==
  ASSUME NEW c \in Readers, NEW e \in Events, NEW r \in Reasons, e.type = "fill", e.index + 1 \in DOMAIN c.blocks
  PROVE  Read(c, e, r) \in Readers /\ Filled(c, Read(c, e, r), e.index + 1, e.frags)
<1>1. PICK d : d = Read(c, e, r)
  OBVIOUS
<1>2. PICK b : b = e.index + 1
  OBVIOUS
<1>0. PICK o : o = c.blocks[b]
  OBVIOUS
<1> DEFINE more == o.content \o e.frags
           text == IF o.who = Text THEN c.text \o e.frags ELSE c.text
<1>3. b \in DOMAIN c.blocks /\ e.index # None /\ b \in 1..Len(c.blocks) /\ o \in Blocks
  BY <1>0, <1>2, ReaderParts, EventParts DEF None
<1>4. PICK x : x = [o EXCEPT !.content = more]
  OBVIOUS
<1>5. /\ x \in Blocks /\ x.who = o.who /\ x.index = o.index /\ x.closes = o.closes /\ x.content = more
  <2>1. o.content \in Seq(Nat) /\ e.frags \in Seq(Nat)
    BY <1>3, BlockParts, EventParts
  <2>2. more \in Seq(Nat)
    BY <2>1, ConcatProperties
  <2> HIDE DEF more
  <2> QED
    BY <1>3, <1>4, <2>2 DEF Blocks
<1>6. PICK bs : bs = [c.blocks EXCEPT ![b] = x]
  OBVIOUS
<1>7. Changed(c, b, x, bs)
  <2>1. ChangeOf(c, b, x, bs)
    BY <1>0, <1>3, <1>5, <1>6 DEF ChangeOf
  <2> QED
    BY <2>1, BlockChanged
<1> USE DEF Changed
<1>8. d = [frame |-> c.frame, blocks |-> bs, text |-> text, reason |-> c.reason]
  <2>1. d = [c EXCEPT !.blocks[e.index + 1].content = more, !.text = text]
    BY <1>0, <1>1, <1>2, <1>3 DEF Read
  <2>2. d = [c EXCEPT !.blocks = bs, !.text = text]
    BY <1>0, <1>2, <1>4, <1>6, <2>1
  <2> HIDE DEF text
  <2> QED
    BY <2>2 DEF Readers, AnyClients
<1>9. text \in Seq(Nat)
  BY ReaderParts, EventParts, ConcatProperties
<1>10. d \in Readers
  <2> HIDE DEF text
  <2> QED
    BY <1>7, <1>8, <1>9, ReaderParts, ReaderMade
<1>11. Filled(c, d, b, e.frags)
  <2>1. d.frame = c.frame /\ d.text = text /\ d.reason = c.reason /\ d.blocks = bs
    BY <1>8
  <2>2. Others(c, d, b)
    BY <1>0, <1>3, <1>5, <1>7, <2>1 DEF Others
  <2> QED
    BY <1>0, <1>5, <1>7, <2>1, <2>2 DEF Filled
<1> QED
  BY <1>1, <1>2, <1>10, <1>11

LEMMA CloseRead ==
  ASSUME NEW c \in Readers, NEW e \in Events, NEW r \in Reasons, e.type = "close", e.index + 1 \in DOMAIN c.blocks
  PROVE  Read(c, e, r) \in Readers /\ Closed(c, Read(c, e, r), e.index + 1)
<1>1. PICK d : d = Read(c, e, r)
  OBVIOUS
<1>2. PICK b : b = e.index + 1
  OBVIOUS
<1>0. PICK o : o = c.blocks[b]
  OBVIOUS
<1>3. b \in DOMAIN c.blocks /\ o \in Blocks
  BY <1>0, <1>2, ReaderParts
<1>4. PICK x : x = [o EXCEPT !.closes = o.closes + 1]
  OBVIOUS
<1>5. /\ x \in Blocks /\ x.who = o.who /\ x.index = o.index /\ x.closes = o.closes + 1 /\ x.content = o.content
  BY <1>3, <1>4 DEF Blocks
<1>6. PICK bs : bs = [c.blocks EXCEPT ![b] = x]
  OBVIOUS
<1>7. Changed(c, b, x, bs)
  <2>1. ChangeOf(c, b, x, bs)
    BY <1>0, <1>3, <1>5, <1>6 DEF ChangeOf
  <2> QED
    BY <2>1, BlockChanged
<1> USE DEF Changed
<1>8. d = [frame |-> c.frame, blocks |-> bs, text |-> c.text, reason |-> c.reason]
  <2>1. d = [c EXCEPT !.blocks[e.index + 1].closes = @ + 1]
    BY <1>0, <1>1, <1>2, <1>3 DEF Read
  <2>2. d = [c EXCEPT !.blocks = bs]
    BY <1>0, <1>2, <1>4, <1>6, <2>1
  <2>3. c = [frame |-> c.frame, blocks |-> c.blocks, text |-> c.text, reason |-> c.reason]
    BY ReaderParts
  <2> QED
    BY ONLY <2>2, <2>3
<1>9. d \in Readers
  BY <1>7, <1>8, ReaderParts, ReaderMade
<1>10. Closed(c, d, b)
  <2>1. d.frame = c.frame /\ d.text = c.text /\ d.reason = c.reason /\ d.blocks = bs
    BY <1>8
  <2>2. Others(c, d, b)
    BY <1>0, <1>3, <1>5, <1>7, <2>1 DEF Others
  <2> QED
    BY <1>0, <1>5, <1>7, <2>1, <2>2 DEF Closed
<1> QED
  BY <1>1, <1>2, <1>9, <1>10

LEMMA SpeakRead ==
  ASSUME NEW c \in Readers, NEW e \in Events, NEW r \in Reasons, e.type = "fill", e.index = None
  PROVE  Read(c, e, r) \in Readers /\ Spoken(c, Read(c, e, r), e.frags)
<1> DEFINE text == c.text \o e.frags
<1>1. PICK d : d = Read(c, e, r)
  OBVIOUS
<1>2. d = [c EXCEPT !.text = text]
  <2>1. e.index + 1 \notin DOMAIN c.blocks
    BY ReaderParts DEF None
  <2> QED
    BY <1>1, <2>1 DEF Read
<1>3. text \in Seq(Nat)
  BY ReaderParts, EventParts, ConcatProperties
<1>4. d = [frame |-> c.frame, blocks |-> c.blocks, text |-> text, reason |-> c.reason]
  <2> HIDE DEF text
  <2> QED
    BY <1>2, ReaderParts
<1>5. d \in Readers
  <2> HIDE DEF text
  <2> QED
    BY <1>3, <1>4, ReaderParts, ReaderMade
<1>6. Spoken(c, d, e.frags)
  BY <1>4 DEF Spoken
<1> QED
  BY <1>1, <1>5, <1>6

LEMMA NoteRead ==
  ASSUME NEW c \in Readers, NEW e \in Events, NEW r \in Reasons, e.type \in FrameMarks
  PROVE  Read(c, e, r) \in Readers /\ Noted(c, Read(c, e, r), e.type, r)
<1> DEFINE frame == Append(c.frame, e.type)
           reason == IF e.type \in {"finish", "end"} THEN r ELSE c.reason
<1>1. PICK d : d = Read(c, e, r)
  OBVIOUS
<1>2. d = [c EXCEPT !.frame = frame, !.reason = reason]
  <2>1. e.type \notin {"open", "fill", "close"}
    BY DEF FrameMarks
  <2>2. CASE e.type \in {"finish", "end"}
    BY <1>1, <2>1, <2>2 DEF Read
  <2>3. CASE e.type \notin {"finish", "end"}
    <3>1. d = [c EXCEPT !.frame = frame]
      BY <1>1, <2>1, <2>3 DEF Read
    <3> HIDE DEF frame
    <3> QED
      BY <2>3, <3>1, ReaderParts
  <2> QED
    BY <2>2, <2>3
<1>3. frame \in Seq(FrameMarks) /\ reason \in Reasons
  BY ReaderParts, AppendProperties
<1>4. d = [frame |-> frame, blocks |-> c.blocks, text |-> c.text, reason |-> reason]
  <2> HIDE DEF frame, reason
  <2> QED
    BY <1>2 DEF Readers, AnyClients
<1>5. d \in Readers
  <2> HIDE DEF frame, reason
  <2> QED
    BY <1>3, <1>4, ReaderParts, ReaderMade
<1>6. Noted(c, d, e.type, r)
  BY <1>4 DEF Noted
<1> QED
  BY <1>1, <1>5, <1>6

-----------------------------------------------------------------------------
\* Events that a client can make sense of, and (when g is TRUE) in the order of a message.
IsOpen(c, i) == i \in DOMAIN c.blocks /\ c.blocks[i].closes = 0
Begun(c, g) == g => c.frame = <<"start">>
Known(c, e) == e.index + 1 \in DOMAIN c.blocks /\ c.blocks[e.index + 1].who = e.who

FitsOpen(c, e, g) ==
  /\ e.type = "open" /\ e.index = Len(c.blocks) /\ Begun(c, g)
  /\ \A i \in DOMAIN c.blocks : c.blocks[i].who = e.who => e.who = Text /\ (g => ~IsOpen(c, i))
FitsFill(c, e, g) ==
  /\ e.type = "fill" /\ Known(c, e) /\ Begun(c, g)
  /\ g => IsOpen(c, e.index + 1) /\ e.frags # <<>>
FitsClose(c, e, g) ==
  e.type = "close" /\ Known(c, e) /\ Begun(c, g) /\ (g => IsOpen(c, e.index + 1))
FitsMark(c, e, g) ==
  \/ e.type = "start" /\ (g => c.frame = <<>>)
  \/ e.type = "end" /\ Begun(c, g) /\ (g => \A i \in DOMAIN c.blocks : ~IsOpen(c, i))
  \/ e.type = "stop" /\ (g => c.frame = <<"start", "end">>)
  \/ e.type \in {"finish", "usage", "done"} /\ ~g
FitsSaid(e, g) == e.type = "fill" /\ e.index = None /\ ~g
Fits(c, e, g) ==
  FitsOpen(c, e, g) \/ FitsFill(c, e, g) \/ FitsClose(c, e, g) \/ FitsMark(c, e, g) \/ FitsSaid(e, g)

\* A client that has read more.
Grew(c, d) ==
  /\ IsPrefix(c.text, d.text) /\ DOMAIN c.blocks \subseteq DOMAIN d.blocks
  /\ \A i \in DOMAIN c.blocks : /\ d.blocks[i].who = c.blocks[i].who
                                /\ IsPrefix(c.blocks[i].content, d.blocks[i].content)

LEMMA SameGrew ==
  ASSUME NEW c \in Readers, NEW d \in Readers, d.text = c.text, d.blocks = c.blocks
  PROVE  Grew(c, d)
<1>1. c.text \in Seq(Nat) /\ \A i \in DOMAIN c.blocks : c.blocks[i].content \in Seq(Nat)
  BY ReaderParts, BlockParts
<1>2. IsPrefix(c.text, c.text) /\ \A i \in DOMAIN c.blocks : IsPrefix(c.blocks[i].content, c.blocks[i].content)
  BY <1>1, PrefixOf
<1> QED
  BY <1>2 DEF Grew

LEMMA GrewTrans ==
  ASSUME NEW c \in Readers, NEW d \in Readers, NEW f \in Readers, Grew(c, d), Grew(d, f)
  PROVE  Grew(c, f)
<1>1. IsPrefix(c.text, f.text)
  BY ReaderParts, PrefixTrans DEF Grew
<1>2. ASSUME NEW i \in DOMAIN c.blocks
      PROVE  /\ i \in DOMAIN f.blocks /\ f.blocks[i].who = c.blocks[i].who
             /\ IsPrefix(c.blocks[i].content, f.blocks[i].content)
  <2>1. /\ i \in DOMAIN d.blocks /\ i \in DOMAIN f.blocks /\ f.blocks[i].who = c.blocks[i].who
        /\ IsPrefix(c.blocks[i].content, d.blocks[i].content) /\ IsPrefix(d.blocks[i].content, f.blocks[i].content)
    BY <1>2 DEF Grew
  <2>2. /\ c.blocks[i].content \in Seq(Nat) /\ d.blocks[i].content \in Seq(Nat) /\ f.blocks[i].content \in Seq(Nat)
    BY <1>2, <2>1, ReaderParts, BlockParts
  <2> QED
    BY <2>1, <2>2, PrefixTrans
<1> QED
  BY <1>1, <1>2 DEF Grew

\* Reading what fits.
LEMMA ReadType ==
  ASSUME NEW c \in Readers, NEW e \in Events, NEW r \in Reasons, NEW g, Fits(c, e, g)
  PROVE  Read(c, e, r) \in Readers /\ Grew(c, Read(c, e, r))
<1>1. PICK d : d = Read(c, e, r)
  OBVIOUS
<1> SUFFICES d \in Readers /\ Grew(c, d)
  BY <1>1
<1>2. c.text \in Seq(Nat) /\ \A i \in DOMAIN c.blocks : c.blocks[i].content \in Seq(Nat)
  BY ReaderParts, BlockParts
<1>3. e.frags \in Seq(Nat)
  BY EventParts
<1>4. IsPrefix(c.text, c.text) /\ IsPrefix(c.text, c.text \o e.frags)
  BY <1>2, <1>3, PrefixOf
<1>5. \A i \in DOMAIN c.blocks : /\ IsPrefix(c.blocks[i].content, c.blocks[i].content)
                                /\ IsPrefix(c.blocks[i].content, c.blocks[i].content \o e.frags)
  BY <1>2, <1>3, PrefixOf
<1>6. CASE FitsOpen(c, e, g)
  <2>1. d \in Readers /\ Opened(c, d, e.who)
    BY <1>1, <1>6, OpenRead DEF FitsOpen
  <2> QED
    BY <1>4, <1>5, <2>1 DEF Opened, Grew
<1>7. CASE FitsFill(c, e, g)
  <2>1. d \in Readers /\ Filled(c, d, e.index + 1, e.frags)
    BY <1>1, <1>7, FillRead DEF FitsFill, Known
  <2>2. \A i \in DOMAIN c.blocks : d.blocks[i].who = c.blocks[i].who
                                   /\ IsPrefix(c.blocks[i].content, d.blocks[i].content)
    BY <1>5, <2>1 DEF Filled, Others
  <2> QED
    BY <1>4, <2>1, <2>2 DEF Filled, Others, Grew
<1>8. CASE FitsClose(c, e, g)
  <2>1. d \in Readers /\ Closed(c, d, e.index + 1)
    BY <1>1, <1>8, CloseRead DEF FitsClose, Known
  <2>2. \A i \in DOMAIN c.blocks : d.blocks[i].who = c.blocks[i].who
                                   /\ IsPrefix(c.blocks[i].content, d.blocks[i].content)
    BY <1>5, <2>1 DEF Closed, Others
  <2> QED
    BY <1>4, <2>1, <2>2 DEF Closed, Others, Grew
<1>9. CASE FitsMark(c, e, g)
  <2>1. d \in Readers /\ Noted(c, d, e.type, r)
    BY <1>1, <1>9, NoteRead DEF FitsMark, FrameMarks
  <2> QED
    BY <2>1, SameGrew DEF Noted
<1>10. CASE FitsSaid(e, g)
  <2>1. d \in Readers /\ Spoken(c, d, e.frags)
    BY <1>1, <1>10, SpeakRead DEF FitsSaid
  <2> QED
    BY <1>4, <1>5, <2>1 DEF Spoken, Grew
<1> QED
  BY <1>6, <1>7, <1>8, <1>9, <1>10 DEF Fits

-----------------------------------------------------------------------------
\* The way from c to d by reading s: the client's states, and what is read fits.
Steps(h, s, r, g) == \A i \in 1..Len(s) : Fits(h[i - 1], s[i], g) /\ h[i] = Read(h[i - 1], s[i], r)
Way(h, c, s, d, r, g) ==
  h \in [0..Len(s) -> Readers] /\ h[0] = c /\ h[Len(s)] = d /\ Steps(h, s, r, g)
Path(c, s, d, r, g) == s \in Seq(Events) /\ \E h : Way(h, c, s, d, r, g)

LEMMA PathType ==
  ASSUME NEW c, NEW s, NEW d, NEW r, NEW g, Path(c, s, d, r, g)
  PROVE  c \in Readers /\ d \in Readers
<1>1. PICK h : Way(h, c, s, d, r, g)
  BY DEF Path
<1>2. Len(s) \in Nat
  BY DEF Path
<1>3. 0 \in 0..Len(s) /\ Len(s) \in 0..Len(s)
  BY <1>2
<1> QED
  BY <1>1, <1>3 DEF Way

LEMMA PathStays ==
  ASSUME NEW c \in Readers, NEW r, NEW g
  PROVE  Path(c, <<>>, c, r, g)
<1>1. PICK h : h = [i \in 0..0 |-> c]
  OBVIOUS
<1>2. PICK s : s = <<>>
  OBVIOUS
<1>3. Len(s) = 0 /\ s \in Seq(Events)
  BY <1>2
<1>4. h \in [0..0 -> Readers] /\ h[0] = c
  BY <1>1
<1>5. Steps(h, s, r, g)
  BY <1>3 DEF Steps
<1>6. Way(h, c, s, c, r, g)
  BY <1>3, <1>4, <1>5 DEF Way
<1> QED
  BY <1>2, <1>3, <1>6 DEF Path

LEMMA PathMore ==
  ASSUME NEW c, NEW s, NEW d, NEW r \in Reasons, NEW g, NEW e \in Events, NEW t,
         Path(c, s, d, r, g), Fits(d, e, g), t = Append(s, e)
  PROVE  Path(c, t, Read(d, e, r), r, g)
<1>1. PICK h : Way(h, c, s, d, r, g)
  BY DEF Path
<1>2. s \in Seq(Events) /\ d \in Readers
  BY PathType DEF Path
<1>3. PICK f : f = Read(d, e, r)
  OBVIOUS
<1>4. f \in Readers
  BY <1>2, <1>3, ReadType
<1>5. PICK n \in Nat : n = Len(s)
  BY <1>2
<1>6. /\ t \in Seq(Events) /\ Len(t) = n + 1 /\ t[n + 1] = e
      /\ \A i \in 1..n : t[i] = s[i]
  BY <1>2, <1>5, AppendProperties
<1>7. PICK k : k = [i \in 0..(n + 1) |-> IF i <= n THEN h[i] ELSE f]
  OBVIOUS
<1>8. h \in [0..n -> Readers] /\ h[0] = c /\ h[n] = d /\ Steps(h, s, r, g)
  BY <1>1, <1>5 DEF Way
<1>9. /\ k \in [0..(n + 1) -> Readers] /\ k[0] = c /\ k[n] = d /\ k[n + 1] = f
      /\ \A i \in 0..n : k[i] = h[i]
  BY <1>4, <1>7, <1>8
<1>10. ASSUME NEW i \in 1..(n + 1) PROVE Fits(k[i - 1], t[i], g) /\ k[i] = Read(k[i - 1], t[i], r)
  <2>1. CASE i = n + 1
    <3>1. i - 1 = n
      BY <2>1
    <3> QED
      BY <1>3, <1>6, <1>9, <2>1, <3>1
  <2>2. CASE i # n + 1
    <3>1. i \in 1..n /\ i \in 0..n /\ i - 1 \in 0..n
      BY <2>2
    <3>2. Fits(h[i - 1], s[i], g) /\ h[i] = Read(h[i - 1], s[i], r)
      BY <1>5, <1>8, <3>1 DEF Steps
    <3> QED
      BY <1>6, <1>9, <3>1, <3>2
  <2> QED
    BY <2>1, <2>2
<1>11. Steps(k, t, r, g)
  BY <1>6, <1>10 DEF Steps
<1>12. Way(k, c, t, f, r, g)
  BY <1>6, <1>9, <1>11 DEF Way
<1> QED
  BY <1>3, <1>6, <1>12 DEF Path

LEMMA PathHead ==
  ASSUME NEW c, NEW s, NEW d, NEW r, NEW g, Path(c, s, d, r, g), s # <<>>
  PROVE  /\ Head(s) \in Events /\ Fits(c, Head(s), g)
         /\ Path(Read(c, Head(s), r), Tail(s), d, r, g)
<1>1. PICK h : Way(h, c, s, d, r, g)
  BY DEF Path
<1>2. s \in Seq(Events)
  BY DEF Path
<1>3. PICK n \in Nat : n = Len(s) - 1
  BY <1>2
<1>4. PICK t : t = Tail(s)
  OBVIOUS
<1>5. /\ Len(s) = n + 1 /\ t \in Seq(Events) /\ Len(t) = n /\ Head(s) = s[1] /\ s[1] \in Events
      /\ \A i \in 1..n : t[i] = s[i + 1]
  BY <1>2, <1>3, <1>4
<1>6. PICK k : k = [i \in 0..n |-> h[i + 1]]
  OBVIOUS
<1>7. h \in [0..(n + 1) -> Readers] /\ h[0] = c /\ h[n + 1] = d /\ Steps(h, s, r, g)
  BY <1>1, <1>5 DEF Way
<1>8. Fits(c, s[1], g) /\ h[1] = Read(c, s[1], r)
  <2>1. 1 \in 1..Len(s) /\ 1 - 1 = 0
    BY <1>5
  <2> QED
    BY <1>7, <2>1 DEF Steps
<1>9. k \in [0..n -> Readers] /\ k[0] = h[1] /\ k[n] = d
  BY <1>6, <1>7
<1>10. ASSUME NEW i \in 1..n PROVE Fits(k[i - 1], t[i], g) /\ k[i] = Read(k[i - 1], t[i], r)
  <2>1. i + 1 \in 1..Len(s) /\ (i + 1) - 1 = i /\ i \in 0..n /\ i - 1 \in 0..n /\ (i - 1) + 1 = i
    BY <1>5
  <2>2. Fits(h[i], s[i + 1], g) /\ h[i + 1] = Read(h[i], s[i + 1], r)
    BY <1>7, <2>1 DEF Steps
  <2> QED
    BY <1>5, <1>6, <2>1, <2>2
<1>11. Steps(k, t, r, g)
  BY <1>5, <1>10 DEF Steps
<1>12. Way(k, h[1], t, d, r, g)
  BY <1>5, <1>9, <1>11 DEF Way
<1> QED
  BY <1>4, <1>5, <1>8, <1>12 DEF Path

\* Only reasons are noted, and what is read only grows.
LEMMA PathGrows ==
  ASSUME NEW c, NEW s, NEW d, NEW r \in Reasons, NEW g, Path(c, s, d, r, g)
  PROVE  Grew(c, d)
<1>1. PICK h : Way(h, c, s, d, r, g)
  BY DEF Path
<1>2. s \in Seq(Events)
  BY DEF Path
<1>3. PICK n \in Nat : n = Len(s)
  BY <1>2
<1>4. h \in [0..n -> Readers] /\ h[0] = c /\ h[n] = d /\ Steps(h, s, r, g)
  BY <1>1, <1>3 DEF Way
<1> DEFINE X == {f \in Readers : Grew(c, f)}
<1>5. c \in Readers
  BY PathType
<1>6. h[0] \in X
  BY <1>4, <1>5, SameGrew
<1>7. ASSUME NEW i \in 1..n, h[i - 1] \in X PROVE h[i] \in X
  <2>1. Fits(h[i - 1], s[i], g) /\ h[i] = Read(h[i - 1], s[i], r) /\ s[i] \in Events
    BY <1>2, <1>3, <1>4 DEF Steps
  <2>2. h[i - 1] \in Readers /\ Grew(c, h[i - 1])
    BY <1>7
  <2>3. h[i] \in Readers /\ Grew(h[i - 1], h[i])
    BY <2>1, <2>2, ReadType
  <2> QED
    BY <1>5, <2>2, <2>3, GrewTrans
<1> HIDE DEF X
<1>8. \A i \in 0..n : h[i] \in X
  BY <1>6, <1>7, Climbs
<1>9. d \in X
  BY <1>4, <1>8
<1> QED
  BY <1>9 DEF X

\* Ways that follow each other.
LEMMA PathJoin ==
  ASSUME NEW c, NEW s, NEW d, NEW t, NEW f, NEW r, NEW g, Path(c, s, d, r, g), Path(d, t, f, r, g)
  PROVE  Path(c, s \o t, f, r, g)
<1>1. PICK h : Way(h, c, s, d, r, g)
  BY DEF Path
<1>2. PICK k : Way(k, d, t, f, r, g)
  BY DEF Path
<1>3. PICK u : u = s \o t
  OBVIOUS
<1>4. s \in Seq(Events) /\ t \in Seq(Events)
  BY DEF Path
<1>5. PICK m \in Nat, n \in Nat : m = Len(s) /\ n = Len(t)
  BY <1>4
<1>6. /\ u \in Seq(Events) /\ Len(u) = m + n
      /\ \A i \in 1..m : u[i] = s[i]
      /\ \A i \in 1..n : u[m + i] = t[i]
  BY <1>3, <1>4, <1>5
<1>7. h \in [0..m -> Readers] /\ h[0] = c /\ h[m] = d /\ Steps(h, s, r, g)
  BY <1>1, <1>5 DEF Way
<1>8. k \in [0..n -> Readers] /\ k[0] = d /\ k[n] = f /\ Steps(k, t, r, g)
  BY <1>2, <1>5 DEF Way
<1>9. PICK l : l = [i \in 0..(m + n) |-> IF i <= m THEN h[i] ELSE k[i - m]]
  OBVIOUS
<1>10. \A i \in 0..m : l[i] = h[i]
  BY <1>5, <1>9
<1>11. ASSUME NEW i \in 0..n PROVE l[m + i] = k[i]
  <2>1. CASE i = 0
    BY <1>7, <1>8, <1>9, <2>1
  <2>2. CASE i # 0
    <3>1. m + i \in 0..(m + n) /\ ~(m + i <= m) /\ (m + i) - m = i
      BY <2>2
    <3> QED
      BY <1>9, <3>1
  <2> QED
    BY <2>1, <2>2
<1>12. ASSUME NEW i \in 0..(m + n) PROVE l[i] \in Readers
  <2>1. CASE i <= m
    BY <1>7, <1>10, <2>1
  <2>2. CASE ~(i <= m)
    <3>1. i - m \in 0..n /\ m + (i - m) = i
      BY <2>2
    <3> QED
      BY <1>8, <1>11, <3>1
  <2> QED
    BY <2>1, <2>2
<1>13. l \in [0..(m + n) -> Readers] /\ l[0] = c /\ l[m + n] = f
  <2>1. l[0] = c
    BY <1>7, <1>10
  <2>2. l[m + n] = f
    BY <1>8, <1>11
  <2>3. DOMAIN l = 0..(m + n) /\ l = [i \in 0..(m + n) |-> l[i]]
    BY <1>9
  <2> QED
    BY <1>12, <2>1, <2>2, <2>3
<1>14. ASSUME NEW i \in 1..(m + n) PROVE Fits(l[i - 1], u[i], g) /\ l[i] = Read(l[i - 1], u[i], r)
  <2>1. CASE i <= m
    <3>1. i \in 1..m /\ i \in 0..m /\ i - 1 \in 0..m
      BY <2>1
    <3>2. Fits(h[i - 1], s[i], g) /\ h[i] = Read(h[i - 1], s[i], r)
      BY <1>5, <1>7, <3>1 DEF Steps
    <3> QED
      BY <1>6, <1>10, <3>1, <3>2
  <2>2. CASE ~(i <= m)
    <3>1. PICK j \in 1..n : i = m + j
      <4>1. i - m \in 1..n /\ i = m + (i - m)
        BY <2>2
      <4> QED
        BY <4>1
    <3>2. j \in 0..n /\ j - 1 \in 0..n /\ i - 1 = m + (j - 1)
      BY <3>1
    <3>3. Fits(k[j - 1], t[j], g) /\ k[j] = Read(k[j - 1], t[j], r)
      BY <1>5, <1>8, <3>1 DEF Steps
    <3>4. l[i] = k[j] /\ l[i - 1] = k[j - 1] /\ u[i] = t[j]
      BY <1>6, <1>11, <3>1, <3>2
    <3> QED
      BY <3>3, <3>4
  <2> QED
    BY <2>1, <2>2
<1>15. Steps(l, u, r, g)
  BY <1>6, <1>14 DEF Steps
<1>16. Way(l, c, u, f, r, g)
  BY <1>6, <1>13, <1>15 DEF Way
<1> QED
  BY <1>3, <1>6, <1>16 DEF Path

LEMMA PathOne ==
  ASSUME NEW c \in Readers, NEW r \in Reasons, NEW g, NEW e \in Events, Fits(c, e, g)
  PROVE  Path(c, <<e>>, Read(c, e, r), r, g)
<1>1. Path(c, <<>>, c, r, g)
  BY PathStays
<1>2. <<e>> = Append(<<>>, e)
  OBVIOUS
<1> QED
  BY <1>1, <1>2, PathMore

LEMMA PathEnds ==
  ASSUME NEW c, NEW d, NEW r, NEW g, Path(c, <<>>, d, r, g)
  PROVE  c = d
<1>1. PICK s : s = <<>>
  OBVIOUS
<1>2. PICK h : Way(h, c, s, d, r, g)
  BY <1>1 DEF Path
<1>3. Len(s) = 0
  BY <1>1
<1> QED
  BY <1>2, <1>3 DEF Way

-----------------------------------------------------------------------------
\* What was said of a holder, when more is said.
Parts(s, who) == [i \in DOMAIN s |-> IF s[i].who = who /\ s[i].args THEN <<i>> ELSE <<>>]

LEMMA PartsType ==
  ASSUME NEW s \in Seq(Utterances), NEW who
  PROVE  Parts(s, who) \in Seq(Seq(Nat)) /\ SaidBy(who) = FlattenSeq(Parts(said, who))
<1>1. \A i \in 1..Len(s) : (IF s[i].who = who /\ s[i].args THEN <<i>> ELSE <<>>) \in Seq(Nat)
  OBVIOUS
<1>2. Len(s) \in Nat /\ DOMAIN s = 1..Len(s)
  OBVIOUS
<1>3. Parts(s, who) \in [1..Len(s) -> Seq(Nat)]
  BY <1>1, <1>2 DEF Parts
<1>4. [1..Len(s) -> Seq(Nat)] \subseteq Seq(Seq(Nat))
  BY <1>2
<1>5. SaidBy(who) = FlattenSeq(Parts(said, who))
  BY DEF SaidBy, Parts
<1> QED
  BY <1>3, <1>4, <1>5

LEMMA SaidByType ==
  ASSUME NEW who, said \in Seq(Utterances)
  PROVE  SaidBy(who) \in Seq(Nat)
BY PartsType, FlattenType

\* The fragments that one more utterance has of a holder.
Share(u, who, n) == IF u.who = who /\ u.args THEN <<n>> ELSE <<>>

LEMMA SaidByMore ==
  ASSUME NEW who, NEW u \in Utterances, said \in Seq(Utterances), said' = Append(said, u)
  PROVE  SaidBy(who)' = SaidBy(who) \o Share(u, who, Len(said) + 1)
<1>1. PICK n \in Nat : n = Len(said)
  OBVIOUS
<1>2. PICK p : p = Parts(said, who)
  OBVIOUS
<1>3. PICK x : x = Share(u, who, n + 1)
  OBVIOUS
<1>4. p \in Seq(Seq(Nat)) /\ x \in Seq(Nat)
  BY <1>2, <1>3, PartsType DEF Share
<1>5. /\ said' \in Seq(Utterances) /\ DOMAIN said = 1..n /\ DOMAIN said' = 1..(n + 1) /\ said'[n + 1] = u
      /\ \A i \in 1..n : said'[i] = said[i]
  BY <1>1
<1>6. PICK q : q = Parts(said', who)
  OBVIOUS
<1>7. /\ DOMAIN q = 1..(n + 1) /\ q[n + 1] = x /\ DOMAIN p = 1..n
      /\ \A i \in 1..n : q[i] = p[i]
  BY <1>2, <1>3, <1>5, <1>6 DEF Parts, Share
<1>8. q = Append(p, x)
  <2>1. PICK v : v = Append(p, x)
    OBVIOUS
  <2>2. q \in Seq(Seq(Nat)) /\ Len(q) = n + 1 /\ Len(p) = n
    <3>1. q \in Seq(Seq(Nat))
      BY <1>5, <1>6, PartsType
    <3> QED
      BY <1>4, <1>7, <3>1
  <2>3. v \in Seq(Seq(Nat)) /\ Len(v) = n + 1 /\ v[n + 1] = x /\ \A i \in 1..n : v[i] = p[i]
    BY <1>4, <2>1, <2>2, AppendProperties
  <2>4. \A i \in 1..(n + 1) : q[i] = v[i]
    BY <1>7, <2>3
  <2>5. q = v
    BY <2>2, <2>3, <2>4, SeqEqual
  <2> QED
    BY <2>1, <2>5
<1>9. SaidBy(who)' = FlattenSeq(q)
  BY <1>6 DEF SaidBy, Parts
<1>10. FlattenSeq(q) = FlattenSeq(p) \o x
  BY <1>4, <1>8, FlattenAppend
<1> QED
  BY <1>1, <1>2, <1>3, <1>9, <1>10, PartsType

\* Of a tool that was never mentioned, nothing was said.
LEMMA Unsaid ==
  ASSUME NEW k \in Tools, k \notin Mentioned, said \in Seq(Utterances)
  PROVE  SaidBy(k) = <<>>
<1>1. \A i \in DOMAIN said : said[i].who # k
  BY ToolsAssumption DEF Mentioned, Text
<1>2. Silent(Parts(said, k))
  BY <1>1 DEF Silent, Parts
<1> QED
  BY <1>2, PartsType, FlattenSilent

\* What a client has of a tool is the content of the tool's block.
LEMMA HeardInBlock ==
  ASSUME client \in Readers, NEW k \in Tools, NEW b \in DOMAIN client.blocks, client.blocks[b].who = k
  PROVE  HeardOf(k) = client.blocks[b].content
<1> DEFINE p == [i \in DOMAIN client.blocks |->
                   IF client.blocks[i].who = k THEN client.blocks[i].content ELSE <<>>]
<1>1. /\ \A i \in DOMAIN client.blocks : client.blocks[i].content \in Seq(Nat)
      /\ DOMAIN client.blocks = 1..Len(client.blocks) /\ Len(client.blocks) \in Nat
      /\ OwnBlocks(client.blocks)
  BY ReaderParts, BlockParts
<1>2. p \in [1..Len(client.blocks) -> Seq(Nat)]
  BY <1>1
<1>3. p \in Seq(Seq(Nat)) /\ p[b] = client.blocks[b].content /\ HeardOf(k) = FlattenSeq(p)
  <2>1. [1..Len(client.blocks) -> Seq(Nat)] \subseteq Seq(Seq(Nat))
    BY <1>1
  <2>2. HeardOf(k) = FlattenSeq(p)
    BY DEF HeardOf
  <2> QED
    BY <1>2, <2>1, <2>2
<1>4. Alone(p, b)
  <2>1. \A i \in DOMAIN client.blocks : i # b => client.blocks[i].who # k
    BY <1>1, ToolsAssumption DEF OwnBlocks, Text
  <2> QED
    BY <2>1 DEF Alone
<1> HIDE DEF p
<1> QED
  BY <1>3, <1>4, FlattenAlone

LEMMA NotHeard ==
  ASSUME client \in Readers, NEW k \in Tools, \A i \in DOMAIN client.blocks : client.blocks[i].who # k
  PROVE  HeardOf(k) = <<>>
<1> DEFINE p == [i \in DOMAIN client.blocks |->
                   IF client.blocks[i].who = k THEN client.blocks[i].content ELSE <<>>]
<1>1. DOMAIN client.blocks = 1..Len(client.blocks) /\ Len(client.blocks) \in Nat
  BY ReaderParts
<1>2. p = [i \in DOMAIN client.blocks |-> <<>>]
  OBVIOUS
<1>3. p \in Seq(Seq(Nat)) /\ Silent(p) /\ HeardOf(k) = FlattenSeq(p)
  <2>1. p \in [1..Len(client.blocks) -> Seq(Nat)]
    BY <1>1, <1>2
  <2>2. [1..Len(client.blocks) -> Seq(Nat)] \subseteq Seq(Seq(Nat))
    BY <1>1
  <2>3. HeardOf(k) = FlattenSeq(p)
    BY DEF HeardOf
  <2>4. Silent(p)
    BY DEF Silent
  <2> QED
    BY <2>1, <2>2, <2>3, <2>4
<1> HIDE DEF p
<1> QED
  BY <1>3, FlattenSilent

\* A client that has all that was said, and one that will.
SaidOf(d) ==
  d.text = SaidBy(Text) /\ \A i \in DOMAIN d.blocks : d.blocks[i].who \in Tools => d.blocks[i].content = SaidBy(d.blocks[i].who)
Complete(d) ==
  /\ SaidOf(d)
  /\ {d.blocks[i].who : i \in DOMAIN d.blocks} \ {Text} = Mentioned
  /\ Has("reason") => d.reason = "said"

PrefixesOnly == IsPrefix(client.text, SaidBy(Text)) /\ \A k \in Tools : IsPrefix(HeardOf(k), SaidBy(k))

LEMMA StillPrefixes ==
  ASSUME said \in Seq(Utterances), client \in Readers, NEW d \in Readers, Grew(client, d), SaidOf(d)
  PROVE  PrefixesOnly
<1>1. IsPrefix(client.text, SaidBy(Text))
  BY DEF Grew, SaidOf
<1>2. ASSUME NEW k \in Tools PROVE IsPrefix(HeardOf(k), SaidBy(k))
  <2>1. CASE \E b \in DOMAIN client.blocks : client.blocks[b].who = k
    <3>1. PICK b \in DOMAIN client.blocks : client.blocks[b].who = k
      BY <2>1
    <3>2. HeardOf(k) = client.blocks[b].content
      BY <1>2, <3>1, HeardInBlock
    <3>3. b \in DOMAIN d.blocks /\ d.blocks[b].who = k /\ IsPrefix(client.blocks[b].content, d.blocks[b].content)
      BY <3>1 DEF Grew
    <3> QED
      BY <1>2, <3>2, <3>3 DEF SaidOf
  <2>2. CASE ~\E b \in DOMAIN client.blocks : client.blocks[b].who = k
    <3>1. HeardOf(k) = <<>>
      BY <1>2, <2>2, NotHeard
    <3> QED
      BY <3>1, SaidByType, PrefixOf
  <2> QED
    BY <2>1, <2>2
<1> QED
  BY <1>1, <1>2 DEF PrefixesOnly

LEMMA AllHeard ==
  ASSUME said \in Seq(Utterances), client \in Readers, Complete(client), NEW k \in Tools
  PROVE  HeardOf(k) = SaidBy(k)
<1>1. CASE \E b \in DOMAIN client.blocks : client.blocks[b].who = k
  BY <1>1, HeardInBlock DEF Complete, SaidOf
<1>2. CASE ~\E b \in DOMAIN client.blocks : client.blocks[b].who = k
  <2>1. HeardOf(k) = <<>>
    BY <1>2, NotHeard
  <2>2. k \notin Mentioned
    BY <1>2 DEF Complete
  <2> QED
    BY <2>1, <2>2, Unsaid
<1> QED
  BY <1>1, <1>2

-----------------------------------------------------------------------------
(***************************************************************************)
(* Messages.  K are the tools that were mentioned, t what was said of the  *)
(* text and of each tool, C the tools whose blocks are closed, and z tells *)
(* whether the block of text may be open.                                  *)
(***************************************************************************)
Slots == [block : Int, pending : Seq(Nat)]
Writers(K) == [next : Nat, text : Int, tools : [K -> Slots], order : Seq(Tools)]
Sayings == [Tools \cup {Text} -> Seq(Nat)]

TextAt(w, d, z, g) ==
  w.text # None => /\ w.text + 1 \in DOMAIN d.blocks /\ d.blocks[w.text + 1].who = Text
                   /\ g /\ z => IsOpen(d, w.text + 1)
OneText(w, d, z, g) ==
  g => \A i \in DOMAIN d.blocks : d.blocks[i].who = Text /\ IsOpen(d, i) => z /\ w.text # None /\ i = w.text + 1
ToolsAt(w, d, C, g) ==
  \A k \in DOMAIN w.tools : Started(w, k) =>
    /\ w.tools[k].block + 1 \in DOMAIN d.blocks /\ d.blocks[w.tools[k].block + 1].who = k
    /\ g => (IsOpen(d, w.tools[k].block + 1) <=> k \notin C)
Waiting(w, t) == \A k \in DOMAIN w.tools : ~Started(w, k) => w.tools[k].pending = t[k]
ToolsIn(w, d, t) ==
  \A i \in DOMAIN d.blocks : d.blocks[i].who # Text =>
    /\ d.blocks[i].who \in DOMAIN w.tools /\ Started(w, d.blocks[i].who)
    /\ d.blocks[i].content = t[d.blocks[i].who]
Match(w, d, t, C, z, g) ==
  /\ w.next = Len(d.blocks) /\ d.text = t[Text] /\ Begun(d, g)
  /\ TextAt(w, d, z, g) /\ OneText(w, d, z, g)
  /\ ToolsAt(w, d, C, g) /\ Waiting(w, t) /\ ToolsIn(w, d, t)

LEMMA WriterParts ==
  ASSUME NEW K \in SUBSET Tools, NEW w \in Writers(K)
  PROVE  /\ w = [next |-> w.next, text |-> w.text, tools |-> w.tools, order |-> w.order]
         /\ w.next \in Nat /\ w.text \in Int /\ w.tools \in [K -> Slots] /\ w.order \in Seq(Tools)
         /\ DOMAIN w.tools = K /\ Text \notin K
         /\ \A k \in K : w.tools[k] \in Slots /\ w.tools[k].block \in Int /\ w.tools[k].pending \in Seq(Nat)
BY ToolsAssumption DEF Writers, Slots, Text

LEMMA EventTypes ==
  ASSUME NEW index \in Int, NEW who \in Int, NEW frags \in Seq(Nat), NEW type \in FrameMarks
  PROVE  /\ Event("open", index, who, frags) \in Events /\ Event("fill", index, who, frags) \in Events
         /\ Event("close", index, who, frags) \in Events /\ Mark(type) \in Events
<1>1. None \in Int /\ Text \in Int /\ <<>> \in Seq(Nat)
  BY DEF None, Text
<1> QED
  BY <1>1 DEF Event, Mark, Events

LEMMA EventFields ==
  ASSUME NEW type, NEW index, NEW who, NEW frags, NEW e, e = Event(type, index, who, frags)
  PROVE  e.type = type /\ e.index = index /\ e.who = who /\ e.frags = frags
BY DEF Event

\* More of what was said of a holder.
Adds(t, u, who, frags) == u = [t EXCEPT ![who] = t[who] \o frags]

\* A translator that matches the client d, and a reading of s after which one does again.
At(K, w, d, t, C, z, r, g) ==
  /\ K \in SUBSET Tools /\ w \in Writers(K) /\ d \in Readers /\ t \in Sayings /\ r \in Reasons
  /\ g \in BOOLEAN /\ z \in BOOLEAN /\ Match(w, d, t, C, z, g)
Reads(K, d, s, w, t, C, z, r, g) ==
  \E f : Path(d, s, f, r, g) /\ At(K, w, f, t, C, z, r, g)

\* The block of text is closed; a translator forgets it, or (at the end, no z) does not.
LEMMA TextCloses ==
  ASSUME NEW K, NEW w, NEW d, NEW t, NEW C, NEW r, NEW g,
         At(K, w, d, t, C, TRUE, r, g), NEW v \in Writers(K), w.text # None,
         v.next = w.next, v.tools = w.tools, NEW z \in BOOLEAN, v.text = None \/ (v.text = w.text /\ ~z),
         NEW s, s = <<Event("close", w.text, Text, <<>>)>>
  PROVE  Reads(K, d, s, v, t, C, z, r, g)
<1>0. /\ K \in SUBSET Tools /\ w \in Writers(K) /\ d \in Readers /\ t \in Sayings /\ r \in Reasons
      /\ g \in BOOLEAN /\ Match(w, d, t, C, TRUE, g)
  BY DEF At
<1> USE <1>0
<1>1. PICK e : e = Event("close", w.text, Text, <<>>)
  OBVIOUS
<1>2. PICK f : f = Read(d, e, r)
  OBVIOUS
<1>3. PICK b : b = w.text + 1
  OBVIOUS
<1>4. w.text \in Int /\ w.next \in Nat /\ DOMAIN w.tools = K /\ Text \notin K
  BY WriterParts
<1>5. e \in Events /\ e.type = "close" /\ e.index = w.text /\ e.who = Text
  <2>1. Text \in Int /\ <<>> \in Seq(Nat) /\ "start" \in FrameMarks
    BY DEF Text, FrameMarks
  <2>2. e \in Events
    BY <1>1, <1>4, <2>1, EventTypes
  <2>3. e.type = "close" /\ e.index = w.text /\ e.who = Text
    BY <1>1, EventFields
  <2> QED
    BY <2>2, <2>3
<1>6. /\ b \in DOMAIN d.blocks /\ d.blocks[b].who = Text /\ (g => IsOpen(d, b)) /\ Begun(d, g)
      /\ OneText(w, d, TRUE, g)
  BY <1>3 DEF Match, TextAt
<1>7. Fits(d, e, g)
  BY <1>3, <1>5, <1>6 DEF Fits, FitsClose, Known
<1>8. f \in Readers /\ Closed(d, f, b)
  BY <1>2, <1>3, <1>5, <1>6, CloseRead
<1>9. /\ f.frame = d.frame /\ f.text = d.text /\ Len(f.blocks) = Len(d.blocks) /\ DOMAIN f.blocks = DOMAIN d.blocks
      /\ f.blocks[b].who = Text /\ f.blocks[b].closes = d.blocks[b].closes + 1
      /\ \A i \in DOMAIN d.blocks : i # b => f.blocks[i] = d.blocks[i]
  BY <1>6, <1>8 DEF Closed, Others
<1>10. ~IsOpen(f, b)
  <2>1. d.blocks[b].closes \in Nat
    BY <1>6, ReaderParts, BlockParts
  <2> QED
    BY <1>9, <2>1 DEF IsOpen
<1>11. \A i \in DOMAIN f.blocks : i # b => (IsOpen(f, i) <=> IsOpen(d, i))
  BY <1>9 DEF IsOpen
<1>12. \A k \in K : Started(v, k) <=> Started(w, k)
  BY <1>4 DEF Started
<1>13. \A i \in DOMAIN d.blocks : f.blocks[i].who # Text => i # b
  BY <1>9
<1>14. TextAt(v, f, z, g)
  BY <1>3, <1>4, <1>6, <1>9 DEF TextAt
<1>15. OneText(v, f, z, g)
  BY <1>3, <1>6, <1>9, <1>10, <1>11 DEF OneText
<1>16. ToolsAt(v, f, C, g)
  <2> SUFFICES ASSUME NEW k \in K, Started(w, k)
               PROVE  /\ w.tools[k].block + 1 \in DOMAIN f.blocks /\ f.blocks[w.tools[k].block + 1].who = k
                      /\ g => (IsOpen(f, w.tools[k].block + 1) <=> k \notin C)
    BY <1>4, <1>12 DEF ToolsAt
  <2>1. PICK i : i = w.tools[k].block + 1
    OBVIOUS
  <2>2. i \in DOMAIN d.blocks /\ d.blocks[i].who = k /\ (g => (IsOpen(d, i) <=> k \notin C))
    BY <1>4, <2>1 DEF Match, ToolsAt
  <2>3. i # b
    BY <1>4, <1>6, <2>2
  <2> QED
    BY <1>9, <1>11, <2>1, <2>2, <2>3
<1>17. Waiting(v, t)
  BY <1>4, <1>12 DEF Match, Waiting
<1>18. ToolsIn(v, f, t)
  BY <1>4, <1>9, <1>12, <1>13 DEF Match, ToolsIn
<1>19. Match(v, f, t, C, z, g)
  BY <1>4, <1>9, <1>14, <1>15, <1>16, <1>17, <1>18 DEF Match, Begun
<1>20. Path(d, <<e>>, f, r, g)
  BY <1>2, <1>5, <1>7, PathOne
<1> QED
  BY <1>1, <1>8, <1>19, <1>20 DEF Reads, At

\* The block of text is filled.
LEMMA TextFills ==
  ASSUME NEW K, NEW w, NEW d, NEW t, NEW C, NEW r, NEW g,
         At(K, w, d, t, C, TRUE, r, g), w.text # None, NEW frags \in Seq(Nat), frags # <<>>,
         NEW s, s = <<Event("fill", w.text, Text, frags)>>, NEW u, u = [t EXCEPT ![Text] = t[Text] \o frags]
  PROVE  Reads(K, d, s, w, u, C, TRUE, r, g)
<1>0. /\ K \in SUBSET Tools /\ w \in Writers(K) /\ d \in Readers /\ t \in Sayings /\ r \in Reasons
      /\ g \in BOOLEAN /\ Match(w, d, t, C, TRUE, g)
  BY DEF At
<1> USE <1>0
<1>1. PICK e : e = Event("fill", w.text, Text, frags)
  OBVIOUS
<1>2. PICK f : f = Read(d, e, r)
  OBVIOUS
<1>3. PICK b : b = w.text + 1
  OBVIOUS
<1>4. w.text \in Int /\ DOMAIN w.tools = K /\ Text \notin K
  BY WriterParts
<1>5. e \in Events /\ e.type = "fill" /\ e.index = w.text /\ e.who = Text /\ e.frags = frags
  <2>1. Text \in Int /\ "start" \in FrameMarks
    BY DEF Text, FrameMarks
  <2>2. e \in Events
    BY <1>1, <1>4, <2>1, EventTypes
  <2>3. e.type = "fill" /\ e.index = w.text /\ e.who = Text /\ e.frags = frags
    BY <1>1, EventFields
  <2> QED
    BY <2>2, <2>3
<1>6. /\ b \in DOMAIN d.blocks /\ d.blocks[b].who = Text /\ (g => IsOpen(d, b)) /\ Begun(d, g)
      /\ OneText(w, d, TRUE, g) /\ d.text = t[Text]
  BY <1>3 DEF Match, TextAt
<1>7. Fits(d, e, g)
  BY <1>3, <1>5, <1>6 DEF Fits, FitsFill, Known
<1>8. f \in Readers /\ Filled(d, f, b, frags)
  BY <1>2, <1>3, <1>5, <1>6, FillRead
<1>9. /\ f.frame = d.frame /\ f.text = d.text \o frags /\ Len(f.blocks) = Len(d.blocks) /\ DOMAIN f.blocks = DOMAIN d.blocks
      /\ f.blocks[b].who = Text /\ f.blocks[b].closes = d.blocks[b].closes
      /\ \A i \in DOMAIN d.blocks : i # b => f.blocks[i] = d.blocks[i]
  BY <1>6, <1>8 DEF Filled, Others
<1>10. \A i \in DOMAIN d.blocks : f.blocks[i].who = d.blocks[i].who /\ (IsOpen(f, i) <=> IsOpen(d, i))
  BY <1>6, <1>9 DEF IsOpen
<1>11. u[Text] = d.text \o frags /\ \A k \in K : u[k] = t[k]
  BY <1>4, <1>6 DEF Sayings
<1>12. TextAt(w, f, TRUE, g) /\ OneText(w, f, TRUE, g)
  BY <1>3, <1>6, <1>9, <1>10 DEF TextAt, OneText
<1>13. ToolsAt(w, f, C, g)
  BY <1>9, <1>10 DEF Match, ToolsAt
<1>14. Waiting(w, u)
  BY <1>4, <1>11 DEF Match, Waiting
<1>15. ToolsIn(w, f, u)
  <2>1. \A i \in DOMAIN d.blocks : d.blocks[i].who # Text =>
          /\ d.blocks[i].who \in K /\ Started(w, d.blocks[i].who)
          /\ d.blocks[i].content = t[d.blocks[i].who]
    BY <1>4 DEF Match, ToolsIn
  <2>2. \A i \in DOMAIN d.blocks : f.blocks[i].who # Text => f.blocks[i] = d.blocks[i]
    BY <1>9
  <2>3. \A i \in DOMAIN d.blocks : f.blocks[i].who # Text =>
          f.blocks[i].who \in K /\ Started(w, f.blocks[i].who) /\ f.blocks[i].content = u[f.blocks[i].who]
    BY <1>11, <2>1, <2>2
  <2> QED
    BY <1>4, <1>9, <2>3 DEF ToolsIn
<1>16. Match(w, f, u, C, TRUE, g)
  BY <1>9, <1>11, <1>12, <1>13, <1>14, <1>15 DEF Match, Begun
<1>17. Path(d, <<e>>, f, r, g)
  BY <1>2, <1>5, <1>7, PathOne
<1>18. u \in Sayings
  BY ConcatProperties DEF Sayings
<1> QED
  BY <1>1, <1>8, <1>16, <1>17, <1>18 DEF Reads, At

\* The block of a tool is filled.
LEMMA ToolFills ==
  ASSUME NEW K, NEW w, NEW d, NEW t, NEW C, NEW z, NEW r, NEW g,
         At(K, w, d, t, C, z, r, g), NEW k \in K, Started(w, k), g => k \notin C,
         NEW frags \in Seq(Nat), frags # <<>>,
         NEW s, s = <<Event("fill", w.tools[k].block, k, frags)>>, NEW u, u = [t EXCEPT ![k] = t[k] \o frags]
  PROVE  Reads(K, d, s, w, u, C, z, r, g)
<1>0. /\ K \in SUBSET Tools /\ w \in Writers(K) /\ d \in Readers /\ t \in Sayings /\ r \in Reasons
      /\ g \in BOOLEAN /\ z \in BOOLEAN /\ Match(w, d, t, C, z, g)
  BY DEF At
<1> USE <1>0
<1>1. PICK e : e = Event("fill", w.tools[k].block, k, frags)
  OBVIOUS
<1>2. PICK f : f = Read(d, e, r)
  OBVIOUS
<1>3. PICK b : b = w.tools[k].block + 1
  OBVIOUS
<1>4. w.tools[k].block \in Int /\ DOMAIN w.tools = K /\ Text \notin K /\ k # Text
  BY WriterParts
<1>5. e \in Events /\ e.type = "fill" /\ e.index = w.tools[k].block /\ e.who = k /\ e.frags = frags
  <2>1. k \in Int /\ "start" \in FrameMarks
    BY ToolsAssumption DEF FrameMarks
  <2>2. e \in Events
    BY <1>1, <1>4, <2>1, EventTypes
  <2>3. e.type = "fill" /\ e.index = w.tools[k].block /\ e.who = k /\ e.frags = frags
    BY <1>1, EventFields
  <2> QED
    BY <2>2, <2>3
<1>6. /\ b \in DOMAIN d.blocks /\ d.blocks[b].who = k /\ (g => IsOpen(d, b)) /\ Begun(d, g) /\ d.text = t[Text]
      /\ d.blocks[b].content = t[k]
  BY <1>3, <1>4 DEF Match, ToolsAt, ToolsIn
<1>7. Fits(d, e, g)
  BY <1>3, <1>5, <1>6 DEF Fits, FitsFill, Known
<1>8. f \in Readers /\ Filled(d, f, b, frags)
  BY <1>2, <1>3, <1>5, <1>6, FillRead
<1>9. /\ f.frame = d.frame /\ f.text = d.text /\ Len(f.blocks) = Len(d.blocks) /\ DOMAIN f.blocks = DOMAIN d.blocks
      /\ f.blocks[b].who = k /\ f.blocks[b].closes = d.blocks[b].closes
      /\ f.blocks[b].content = t[k] \o frags
      /\ \A i \in DOMAIN d.blocks : i # b => f.blocks[i] = d.blocks[i]
  BY <1>4, <1>6, <1>8 DEF Filled, Others
<1>10. \A i \in DOMAIN d.blocks : f.blocks[i].who = d.blocks[i].who /\ (IsOpen(f, i) <=> IsOpen(d, i))
  BY <1>6, <1>9 DEF IsOpen
<1>11. \A i \in DOMAIN d.blocks : d.blocks[i].who = k => i = b
  BY <1>4, <1>6, ReaderParts DEF OwnBlocks
<1>12. u[Text] = t[Text] /\ u[k] = t[k] \o frags /\ \A j \in K : j # k => u[j] = t[j]
  BY <1>4 DEF Sayings
<1>13. TextAt(w, f, z, g) /\ OneText(w, f, z, g)
  BY <1>9, <1>10 DEF Match, TextAt, OneText
<1>14. ToolsAt(w, f, C, g)
  BY <1>9, <1>10 DEF Match, ToolsAt
<1>15. Waiting(w, u)
  BY <1>4, <1>12 DEF Match, Waiting
<1>16. ToolsIn(w, f, u)
  <2> SUFFICES ASSUME NEW i \in DOMAIN d.blocks, d.blocks[i].who # Text
               PROVE  /\ f.blocks[i].who \in DOMAIN w.tools /\ Started(w, f.blocks[i].who)
                      /\ f.blocks[i].content = u[f.blocks[i].who]
    BY <1>9, <1>10 DEF ToolsIn
  <2>1. /\ d.blocks[i].who \in K /\ Started(w, d.blocks[i].who) /\ d.blocks[i].content = t[d.blocks[i].who]
    BY <1>4 DEF Match, ToolsIn
  <2>2. CASE i = b
    BY <1>4, <1>9, <1>12, <2>1, <2>2
  <2>3. CASE i # b
    BY <1>4, <1>9, <1>11, <1>12, <2>1, <2>3
  <2> QED
    BY <2>2, <2>3
<1>17. Match(w, f, u, C, z, g)
  BY <1>6, <1>9, <1>12, <1>13, <1>14, <1>15, <1>16 DEF Match, Begun
<1>18. Path(d, <<e>>, f, r, g)
  BY <1>2, <1>5, <1>7, PathOne
<1>19. u \in Sayings
  BY ConcatProperties DEF Sayings
<1> QED
  BY <1>1, <1>8, <1>17, <1>18, <1>19 DEF Reads, At

\* The block of a tool is closed.
LEMMA ToolCloses ==
  ASSUME NEW K, NEW w, NEW d, NEW t, NEW C, NEW z, NEW r, NEW g,
         At(K, w, d, t, C, z, r, g), NEW k \in K, Started(w, k), g => k \notin C,
         NEW s, s = <<Event("close", w.tools[k].block, k, <<>>)>>, NEW D, D = C \cup {k}
  PROVE  Reads(K, d, s, w, t, D, z, r, g)
<1>0. /\ K \in SUBSET Tools /\ w \in Writers(K) /\ d \in Readers /\ t \in Sayings /\ r \in Reasons
      /\ g \in BOOLEAN /\ z \in BOOLEAN /\ Match(w, d, t, C, z, g)
  BY DEF At
<1> USE <1>0
<1>1. PICK e : e = Event("close", w.tools[k].block, k, <<>>)
  OBVIOUS
<1>2. PICK f : f = Read(d, e, r)
  OBVIOUS
<1>3. PICK b : b = w.tools[k].block + 1
  OBVIOUS
<1>4. w.tools[k].block \in Int /\ DOMAIN w.tools = K /\ Text \notin K /\ k # Text
  BY WriterParts
<1>5. e \in Events /\ e.type = "close" /\ e.index = w.tools[k].block /\ e.who = k
  <2>1. k \in Int /\ "start" \in FrameMarks /\ <<>> \in Seq(Nat)
    BY ToolsAssumption DEF FrameMarks
  <2>2. e \in Events
    BY <1>1, <1>4, <2>1, EventTypes
  <2>3. e.type = "close" /\ e.index = w.tools[k].block /\ e.who = k
    BY <1>1, EventFields
  <2> QED
    BY <2>2, <2>3
<1>6. /\ b \in DOMAIN d.blocks /\ d.blocks[b].who = k /\ (g => IsOpen(d, b)) /\ Begun(d, g) /\ d.text = t[Text]
  BY <1>3, <1>4 DEF Match, ToolsAt
<1>7. Fits(d, e, g)
  BY <1>3, <1>5, <1>6 DEF Fits, FitsClose, Known
<1>8. f \in Readers /\ Closed(d, f, b)
  BY <1>2, <1>3, <1>5, <1>6, CloseRead
<1>9. /\ f.frame = d.frame /\ f.text = d.text /\ Len(f.blocks) = Len(d.blocks) /\ DOMAIN f.blocks = DOMAIN d.blocks
      /\ f.blocks[b].who = k /\ f.blocks[b].closes = d.blocks[b].closes + 1
      /\ f.blocks[b].content = d.blocks[b].content
      /\ \A i \in DOMAIN d.blocks : i # b => f.blocks[i] = d.blocks[i]
  BY <1>6, <1>8 DEF Closed, Others
<1>10. ~IsOpen(f, b)
  <2>1. d.blocks[b].closes \in Nat
    BY <1>6, ReaderParts, BlockParts
  <2> QED
    BY <1>9, <2>1 DEF IsOpen
<1>11. \A i \in DOMAIN d.blocks : /\ f.blocks[i].who = d.blocks[i].who /\ f.blocks[i].content = d.blocks[i].content
                                  /\ i # b => (IsOpen(f, i) <=> IsOpen(d, i))
  BY <1>6, <1>9 DEF IsOpen
<1>12. TextAt(w, f, z, g) /\ OneText(w, f, z, g)
  <2>1. \A i \in DOMAIN d.blocks : d.blocks[i].who = Text => i # b
    BY <1>4, <1>6
  <2> QED
    BY <1>9, <1>11, <2>1 DEF Match, TextAt, OneText
<1>13. ToolsAt(w, f, C \cup {k}, g)
  <2> SUFFICES ASSUME NEW j \in K, Started(w, j)
               PROVE  /\ w.tools[j].block + 1 \in DOMAIN f.blocks /\ f.blocks[w.tools[j].block + 1].who = j
                      /\ g => (IsOpen(f, w.tools[j].block + 1) <=> j \notin C \cup {k})
    BY <1>4 DEF ToolsAt
  <2>1. PICK i : i = w.tools[j].block + 1
    OBVIOUS
  <2>2. i \in DOMAIN d.blocks /\ d.blocks[i].who = j /\ (g => (IsOpen(d, i) <=> j \notin C))
    BY <1>4, <2>1 DEF Match, ToolsAt
  <2>3. CASE j = k
    BY <1>3, <1>9, <1>10, <1>11, <2>1, <2>2, <2>3
  <2>4. CASE j # k
    <3>1. i # b
      BY <1>6, <2>2, <2>4
    <3> QED
      BY <1>9, <1>11, <2>1, <2>2, <2>4, <3>1
  <2> QED
    BY <2>3, <2>4
<1>14. ToolsIn(w, f, t)
  BY <1>9, <1>11 DEF Match, ToolsIn
<1>15. Match(w, f, t, C \cup {k}, z, g)
  BY <1>6, <1>9, <1>12, <1>13, <1>14 DEF Match, Begun
<1>16. Path(d, <<e>>, f, r, g)
  BY <1>2, <1>5, <1>7, PathOne
<1> QED
  BY <1>1, <1>8, <1>15, <1>16 DEF Reads, At

\* A block is opened for a tool.
LEMMA ToolOpens ==
  ASSUME NEW K, NEW w, NEW d, NEW t, NEW C, NEW z, NEW r, NEW g,
         At(K, w, d, t, C, z, r, g), NEW k \in K, ~Started(w, k), g => k \notin C,
         NEW v \in Writers(K), v.next = w.next + 1, v.text = w.text,
         v.tools = [w.tools EXCEPT ![k] = [block |-> w.next, pending |-> <<>>]],
         NEW s, s = <<Event("open", w.next, k, <<>>)>>, NEW u, u = [t EXCEPT ![k] = <<>>]
  PROVE  Started(v, k) /\ Reads(K, d, s, v, u, C, z, r, g)
<1>0. /\ K \in SUBSET Tools /\ w \in Writers(K) /\ d \in Readers /\ t \in Sayings /\ r \in Reasons
      /\ g \in BOOLEAN /\ z \in BOOLEAN /\ Match(w, d, t, C, z, g)
  BY DEF At
<1> USE <1>0
<1>1. PICK e : e = Event("open", w.next, k, <<>>)
  OBVIOUS
<1>2. PICK f : f = Read(d, e, r)
  OBVIOUS
<1>3. PICK b : b = w.next + 1
  OBVIOUS
<1>4. w.next \in Nat /\ DOMAIN w.tools = K /\ DOMAIN v.tools = K /\ Text \notin K /\ k # Text
  BY WriterParts
<1>5. e \in Events /\ e.type = "open" /\ e.index = w.next /\ e.who = k
  <2>4. k \in Int /\ w.next \in Int
    BY <1>4, ToolsAssumption
  <2>1. "start" \in FrameMarks /\ <<>> \in Seq(Nat)
    BY ONLY DEF FrameMarks
  <2>2. e \in Events
    BY <1>1, <2>1, <2>4, EventTypes
  <2>3. e.type = "open" /\ e.index = w.next /\ e.who = k
    BY <1>1, EventFields
  <2> QED
    BY <2>2, <2>3
<1>6. w.next = Len(d.blocks) /\ Begun(d, g) /\ d.text = t[Text]
  BY DEF Match
<1>7. \A i \in DOMAIN d.blocks : d.blocks[i].who # k
  BY <1>4 DEF Match, ToolsIn
<1>8. Fits(d, e, g)
  BY <1>5, <1>6, <1>7 DEF Fits, FitsOpen
<1>9. f \in Readers /\ Opened(d, f, k)
  BY <1>2, <1>5, <1>6, <1>7, OpenRead
<1>10. /\ f.frame = d.frame /\ f.text = d.text /\ Len(f.blocks) = b /\ DOMAIN f.blocks = DOMAIN d.blocks \cup {b}
       /\ b \notin DOMAIN d.blocks
       /\ f.blocks[b].who = k /\ f.blocks[b].closes = 0 /\ f.blocks[b].content = <<>>
       /\ \A i \in DOMAIN d.blocks : f.blocks[i] = d.blocks[i]
  BY <1>3, <1>6, <1>9 DEF Opened, NewBlock
<1>11. /\ IsOpen(f, b) /\ \A i \in DOMAIN d.blocks : IsOpen(f, i) <=> IsOpen(d, i)
  BY <1>10 DEF IsOpen
<1>12. /\ v.tools[k].block = w.next /\ Started(v, k)
       /\ \A j \in K : j # k => v.tools[j] = w.tools[j] /\ (Started(v, j) <=> Started(w, j))
  <2>1. w.tools \in [K -> Slots] /\ w.next # None
    BY <1>4, WriterParts DEF None
  <2>2. v.tools[k].block = w.next /\ \A j \in K : j # k => v.tools[j] = w.tools[j]
    BY <2>1
  <2> QED
    BY <2>1, <2>2 DEF Started
<1>13. u[Text] = t[Text] /\ u[k] = <<>> /\ \A j \in K : j # k => u[j] = t[j]
  BY <1>4 DEF Sayings
<1>14. TextAt(v, f, z, g)
  BY <1>10, <1>11 DEF Match, TextAt
<1>15. OneText(v, f, z, g)
  BY <1>4, <1>10, <1>11 DEF Match, OneText
<1>16. ToolsAt(v, f, C, g)
  <2> SUFFICES ASSUME NEW j \in K, Started(v, j)
               PROVE  /\ v.tools[j].block + 1 \in DOMAIN f.blocks /\ f.blocks[v.tools[j].block + 1].who = j
                      /\ g => (IsOpen(f, v.tools[j].block + 1) <=> j \notin C)
    BY <1>4 DEF ToolsAt
  <2>1. CASE j = k
    BY <1>3, <1>10, <1>11, <1>12, <2>1
  <2>2. CASE j # k
    <3>1. PICK i : i = w.tools[j].block + 1
      OBVIOUS
    <3>2. i \in DOMAIN d.blocks /\ d.blocks[i].who = j /\ (g => (IsOpen(d, i) <=> j \notin C))
      BY <1>4, <1>12, <2>2, <3>1 DEF Match, ToolsAt
    <3> QED
      BY <1>10, <1>11, <1>12, <2>2, <3>1, <3>2
  <2> QED
    BY <2>1, <2>2
<1>17. Waiting(v, u)
  BY <1>4, <1>12, <1>13 DEF Match, Waiting
<1>18. ToolsIn(v, f, u)
  <2> SUFFICES ASSUME NEW i \in DOMAIN f.blocks, f.blocks[i].who # Text
               PROVE  /\ f.blocks[i].who \in K /\ Started(v, f.blocks[i].who)
                      /\ f.blocks[i].content = u[f.blocks[i].who]
    BY <1>4 DEF ToolsIn
  <2>1. CASE i = b
    BY <1>10, <1>12, <1>13, <2>1
  <2>2. CASE i # b
    <3>1. i \in DOMAIN d.blocks /\ f.blocks[i] = d.blocks[i]
      BY <1>10, <2>2
    <3>2. d.blocks[i].who \in K /\ Started(w, d.blocks[i].who) /\ d.blocks[i].content = t[d.blocks[i].who]
      BY <1>4, <3>1 DEF Match, ToolsIn
    <3> QED
      BY <1>7, <1>12, <1>13, <3>1, <3>2
  <2> QED
    BY <2>1, <2>2
<1>19. Match(v, f, u, C, z, g)
  BY <1>3, <1>6, <1>10, <1>13, <1>14, <1>15, <1>16, <1>17, <1>18 DEF Match, Begun
<1>20. Path(d, <<e>>, f, r, g)
  BY <1>2, <1>5, <1>8, PathOne
<1>21. u \in Sayings
  BY DEF Sayings
<1> QED
  BY <1>1, <1>9, <1>12, <1>19, <1>20, <1>21 DEF Reads, At

\* A block is opened for text.
LEMMA TextOpens ==
  ASSUME NEW K, NEW w, NEW d, NEW t, NEW C, NEW r, NEW g,
         At(K, w, d, t, C, TRUE, r, g), w.text = None,
         NEW v \in Writers(K), v.next = w.next + 1, v.text = w.next, v.tools = w.tools,
         NEW s, s = <<Event("open", w.next, Text, <<>>)>>
  PROVE  Reads(K, d, s, v, t, C, TRUE, r, g)
<1>0. /\ K \in SUBSET Tools /\ w \in Writers(K) /\ d \in Readers /\ t \in Sayings /\ r \in Reasons
      /\ g \in BOOLEAN /\ Match(w, d, t, C, TRUE, g)
  BY DEF At
<1> USE <1>0
<1>1. PICK e : e = Event("open", w.next, Text, <<>>)
  OBVIOUS
<1>2. PICK f : f = Read(d, e, r)
  OBVIOUS
<1>3. PICK b : b = w.next + 1
  OBVIOUS
<1>4. w.next \in Nat /\ DOMAIN w.tools = K /\ Text \notin K /\ w.next # None
  BY WriterParts DEF None
<1>5. e \in Events /\ e.type = "open" /\ e.index = w.next /\ e.who = Text
  <2>1. Text \in Int /\ "start" \in FrameMarks /\ <<>> \in Seq(Nat) /\ w.next \in Int
    BY <1>4 DEF FrameMarks, Text
  <2>2. e \in Events
    BY <1>1, <2>1, EventTypes
  <2>3. e.type = "open" /\ e.index = w.next /\ e.who = Text
    BY <1>1, EventFields
  <2> QED
    BY <2>2, <2>3
<1>6. w.next = Len(d.blocks) /\ Begun(d, g) /\ d.text = t[Text]
  BY DEF Match
<1>7. g => \A i \in DOMAIN d.blocks : d.blocks[i].who = Text => ~IsOpen(d, i)
  BY DEF Match, OneText
<1>8. Fits(d, e, g)
  BY <1>5, <1>6, <1>7 DEF Fits, FitsOpen
<1>9. f \in Readers /\ Opened(d, f, Text)
  BY <1>2, <1>5, <1>6, OpenRead
<1>10. /\ f.frame = d.frame /\ f.text = d.text /\ Len(f.blocks) = b /\ DOMAIN f.blocks = DOMAIN d.blocks \cup {b}
       /\ b \notin DOMAIN d.blocks
       /\ f.blocks[b].who = Text /\ f.blocks[b].closes = 0
       /\ \A i \in DOMAIN d.blocks : f.blocks[i] = d.blocks[i]
  BY <1>3, <1>6, <1>9 DEF Opened, NewBlock
<1>11. /\ IsOpen(f, b) /\ \A i \in DOMAIN d.blocks : IsOpen(f, i) <=> IsOpen(d, i)
  BY <1>10 DEF IsOpen
<1>12. \A j \in K : Started(v, j) <=> Started(w, j)
  BY DEF Started
<1>13. TextAt(v, f, TRUE, g)
  BY <1>3, <1>10, <1>11 DEF TextAt
<1>14. OneText(v, f, TRUE, g)
  BY <1>3, <1>4, <1>7, <1>10, <1>11 DEF OneText
<1>15. ToolsAt(v, f, C, g)
  <2> SUFFICES ASSUME NEW j \in K, Started(w, j)
               PROVE  /\ w.tools[j].block + 1 \in DOMAIN f.blocks /\ f.blocks[w.tools[j].block + 1].who = j
                      /\ g => (IsOpen(f, w.tools[j].block + 1) <=> j \notin C)
    BY <1>4, <1>12 DEF ToolsAt
  <2>1. PICK i : i = w.tools[j].block + 1
    OBVIOUS
  <2>2. i \in DOMAIN d.blocks /\ d.blocks[i].who = j /\ (g => (IsOpen(d, i) <=> j \notin C))
    BY <1>4, <2>1 DEF Match, ToolsAt
  <2> QED
    BY <1>10, <1>11, <2>1, <2>2
<1>16. Waiting(v, t)
  BY <1>4, <1>12 DEF Match, Waiting
<1>17. ToolsIn(v, f, t)
  <2> SUFFICES ASSUME NEW i \in DOMAIN f.blocks, f.blocks[i].who # Text
               PROVE  /\ f.blocks[i].who \in K /\ Started(v, f.blocks[i].who)
                      /\ f.blocks[i].content = t[f.blocks[i].who]
    BY <1>4 DEF ToolsIn
  <2>1. i \in DOMAIN d.blocks /\ f.blocks[i] = d.blocks[i]
    BY <1>10
  <2>2. d.blocks[i].who \in K /\ Started(w, d.blocks[i].who) /\ d.blocks[i].content = t[d.blocks[i].who]
    BY <1>4, <2>1 DEF Match, ToolsIn
  <2> QED
    BY <1>12, <2>1, <2>2
<1>18. Match(v, f, t, C, TRUE, g)
  BY <1>3, <1>6, <1>10, <1>13, <1>14, <1>15, <1>16, <1>17 DEF Match, Begun
<1>19. Path(d, <<e>>, f, r, g)
  BY <1>2, <1>5, <1>8, PathOne
<1> QED
  BY <1>1, <1>9, <1>18, <1>19 DEF Reads, At

\* Blocks that have started stay so; a tool has its place in the order of the mentions.
Kept(K, w, v) == \A j \in K : Started(w, j) => Started(v, j)
OrderAfter(w, v, K, k) == v.order = IF k \in K THEN w.order ELSE Append(w.order, k)

\* A tool that is mentioned for the first time.
LEMMA MentionMatches ==
  ASSUME NEW K, NEW w, NEW d, NEW t, NEW C, NEW z, NEW r, NEW g, At(K, w, d, t, C, z, r, g),
         NEW k \in Tools, k \notin K => t[k] = <<>>, NEW v, v = Mention(w, k), NEW L, L = K \cup {k}
  PROVE  At(L, v, d, t, C, z, r, g) /\ Kept(K, w, v) /\ OrderAfter(w, v, K, k)
<1>0. /\ K \in SUBSET Tools /\ w \in Writers(K) /\ d \in Readers /\ t \in Sayings /\ r \in Reasons
      /\ g \in BOOLEAN /\ z \in BOOLEAN /\ Match(w, d, t, C, z, g)
  BY DEF At
<1> USE <1>0
<1>L. L \in SUBSET Tools
  OBVIOUS
<1> SUFFICES /\ v \in Writers(L) /\ Match(v, d, t, C, z, g) /\ \A j \in K : Started(w, j) => Started(v, j)
             /\ v.order = IF k \in K THEN w.order ELSE Append(w.order, k)
  BY <1>L DEF At, Kept, OrderAfter
<1>3. DOMAIN w.tools = K
  BY WriterParts
<1>4. CASE k \in K
  <2>1. v = w /\ L = K
    BY <1>3, <1>4 DEF Mention
  <2> QED
    BY <1>4, <2>1
<1>5. CASE k \notin K
  <2>1. PICK s : s = [block |-> None, pending |-> <<>>]
    OBVIOUS
  <2>2. PICK f : f = Put(w.tools, k, s)
    OBVIOUS
  <2>3. PICK o : o = Append(w.order, k)
    OBVIOUS
  <2>4. v = [next |-> w.next, text |-> w.text, tools |-> f, order |-> o]
    <3>1. v = [w EXCEPT !.tools = f, !.order = o]
      BY <1>3, <1>5, <2>1, <2>2, <2>3 DEF Mention
    <3> QED
      BY <3>1 DEF Writers
  <2>5. s \in Slots /\ s.block = None /\ s.pending = <<>>
    BY <2>1 DEF Slots, None
  <2>6. f \in [L -> Slots] /\ f[k] = s /\ \A j \in K : f[j] = w.tools[j]
    <3>1. DOMAIN f = L /\ f[k] = s /\ \A j \in K : f[j] = w.tools[j]
      BY <1>3, <1>5, <2>2 DEF Put
    <3>2. \A j \in L : f[j] \in Slots
      BY <2>5, <3>1, WriterParts
    <3>3. f = [j \in L |-> f[j]]
      BY <1>3, <2>2 DEF Put
    <3> QED
      BY <3>1, <3>2, <3>3
  <2>7. v \in Writers(L)
    <3>1. w.next \in Nat /\ w.text \in Int /\ w.order \in Seq(Tools)
      BY WriterParts
    <3>2. o \in Seq(Tools)
      BY <2>3, <3>1, AppendProperties
    <3> QED
      BY <2>4, <2>6, <3>1, <3>2 DEF Writers
  <2>8. /\ DOMAIN v.tools = L /\ v.next = w.next /\ v.text = w.text /\ v.order = o /\ v.tools = f
    BY <2>4, <2>6
  <2>9. ~Started(v, k) /\ \A j \in K : Started(v, j) <=> Started(w, j)
    BY <2>5, <2>6, <2>8 DEF Started
  <2>10. Match(v, d, t, C, z, g)
    <3>1. TextAt(v, d, z, g) /\ OneText(v, d, z, g)
      BY <2>8 DEF Match, TextAt, OneText
    <3>2. ToolsAt(v, d, C, g)
      BY <1>3, <2>6, <2>8, <2>9 DEF Match, ToolsAt
    <3>3. Waiting(v, t)
      BY <1>3, <1>5, <2>5, <2>6, <2>8, <2>9 DEF Match, Waiting
    <3>4. ToolsIn(v, d, t)
      BY <1>3, <2>8, <2>9 DEF Match, ToolsIn
    <3> QED
      BY <2>8, <3>1, <3>2, <3>3, <3>4 DEF Match
  <2> QED
    BY <1>5, <2>3, <2>7, <2>8, <2>9, <2>10
<1> QED
  BY <1>4, <1>5

\* One reading after another.
LEMMA ReadsOn ==
  ASSUME NEW d, NEW s, NEW f, NEW r, NEW g, Path(d, s, f, r, g), NEW q, NEW K, NEW w, NEW t, NEW C, NEW z,
         Reads(K, f, q, w, t, C, z, r, g), NEW e, e = s \o q
  PROVE  Reads(K, d, e, w, t, C, z, r, g)
BY PathJoin DEF Reads

LEMMA ReadsNothing ==
  ASSUME NEW K, NEW w, NEW d, NEW t, NEW C, NEW z, NEW r, NEW g, At(K, w, d, t, C, z, r, g), NEW e, e = <<>>
  PROVE  Reads(K, d, e, w, t, C, z, r, g)
BY PathStays DEF Reads, At

\* The text is closed, if there is any.
LEMMA ClosesText ==
  ASSUME NEW K, NEW w, NEW d, NEW t, NEW C, NEW z, NEW r, NEW g, At(K, w, d, t, C, z, r, g), g => z,
         NEW v, v = [w EXCEPT !.text = None], NEW e, e = CloseText(w)
  PROVE  Reads(K, d, e, v, t, C, z, r, g) /\ Reads(K, d, e, w, t, C, FALSE, r, g)
<1>1. /\ K \in SUBSET Tools /\ w \in Writers(K) /\ d \in Readers /\ t \in Sayings /\ r \in Reasons
      /\ g \in BOOLEAN /\ z \in BOOLEAN /\ Match(w, d, t, C, z, g)
  BY DEF At
<1>2. v \in Writers(K) /\ v.text = None /\ v.next = w.next /\ v.tools = w.tools
  BY <1>1 DEF Writers, None
<1>3. At(K, w, d, t, C, TRUE, r, g)
  BY <1>1 DEF At, Match, TextAt, OneText
<1>4. CASE w.text = None
  <2>1. v = w
    BY <1>1, <1>4, WriterParts
  <2>2. e = <<>>
    BY <1>4 DEF CloseText
  <2>3. At(K, w, d, t, C, FALSE, r, g)
    BY <1>1, <1>4 DEF At, Match, TextAt, OneText
  <2> QED
    BY <1>1, <2>1, <2>2, <2>3, ReadsNothing
<1>5. CASE w.text # None
  <2>1. e = <<Event("close", w.text, Text, <<>>)>>
    BY <1>5 DEF CloseText
  <2>2. Reads(K, d, e, v, t, C, z, r, g)
    <3>1. v \in Writers(K) /\ v.next = w.next /\ v.tools = w.tools /\ v.text = None /\ z \in BOOLEAN
      BY <1>1, <1>2
    <3> QED
      BY ONLY <1>3, <1>5, <2>1, <3>1, TextCloses
  <2>3. Reads(K, d, e, w, t, C, FALSE, r, g)
    <3>1. PICK y : y = FALSE
      OBVIOUS
    <3>2. w \in Writers(K) /\ w.next = w.next /\ w.tools = w.tools /\ w.text = w.text /\ ~y /\ y \in BOOLEAN
      BY <1>1, <3>1
    <3>3. Reads(K, d, e, w, t, C, y, r, g)
      BY ONLY <1>3, <1>5, <2>1, <3>2, TextCloses
    <3> QED
      BY <3>1, <3>3
  <2> QED
    BY <2>2, <2>3
<1> QED
  BY <1>4, <1>5

\* A block starts: StartToolBlock.
LEMMA StartsTool ==
  ASSUME NEW K, NEW w, NEW d, NEW t, NEW C, NEW z, NEW r, NEW g, At(K, w, d, t, C, z, r, g),
         NEW k \in K, ~Started(w, k), g => z, g => k \notin C, NEW s, s = StartToolBlock(w, k)
  PROVE  /\ Reads(K, d, s.events, s.writer, t, C, z, r, g) /\ s.writer.order = w.order /\ Started(s.writer, k)
         /\ Kept(K, w, s.writer)
<1>0. /\ K \in SUBSET Tools /\ w \in Writers(K) /\ d \in Readers /\ t \in Sayings
      /\ g \in BOOLEAN /\ z \in BOOLEAN /\ Match(w, d, t, C, z, g)
  BY DEF At
<1>p. PICK p : p = w.tools[k].pending
  OBVIOUS
<1>x. PICK x : x = [block |-> w.next, pending |-> <<>>]
  OBVIOUS
<1>e. PICK e1, e2, e3 : e1 = CloseText(w) /\ e2 = <<Event("open", w.next, k, <<>>)>> /\ e3 = Fill(w.next, k, p)
  OBVIOUS
<1>1. PICK w1 : w1 = [w EXCEPT !.text = None]
  OBVIOUS
<1>2. Reads(K, d, e1, w1, t, C, z, r, g)
  BY <1>1, <1>e, ClosesText
<1>3. PICK d1 : Path(d, e1, d1, r, g) /\ At(K, w1, d1, t, C, z, r, g)
  BY <1>2 DEF Reads
<1>6. PICK v : v = [w EXCEPT !.next = w.next + 1, !.text = None, !.tools[k] = x]
  OBVIOUS
<1>7. /\ w.next \in Nat /\ w.tools \in [K -> Slots] /\ DOMAIN w.tools = K /\ w.order \in Seq(Tools) /\ p \in Seq(Nat)
      /\ Text \notin K
  BY <1>0, <1>p, WriterParts
<1>8. x \in Slots
  BY <1>x, <1>7 DEF Slots
<1>9. v = [next |-> w.next + 1, text |-> None, tools |-> [w.tools EXCEPT ![k] = x], order |-> w.order]
  BY <1>0, <1>6 DEF Writers
<1>10. v \in Writers(K)
  BY <1>7, <1>8, <1>9 DEF Writers, None
<1>11. /\ v.next = w1.next + 1 /\ v.text = w1.text /\ v.tools = [w1.tools EXCEPT ![k] = x] /\ v.order = w.order
       /\ w1.next = w.next /\ w1.tools = w.tools
  BY <1>0, <1>1, <1>9 DEF Writers
<1>12. ~Started(w1, k) /\ t[k] = p
  <2>1. t[k] = p
    BY <1>0, <1>p, <1>7 DEF Match, Waiting
  <2> QED
    BY <1>11, <2>1 DEF Started
<1>13. PICK u : u = [t EXCEPT ![k] = <<>>]
  OBVIOUS
<1>14. Started(v, k) /\ Reads(K, d1, e2, v, u, C, z, r, g)
  <2>1. v.tools = [w1.tools EXCEPT ![k] = [block |-> w1.next, pending |-> <<>>]]
    BY <1>x, <1>11
  <2>2. e2 = <<Event("open", w1.next, k, <<>>)>>
    BY <1>11, <1>e
  <2>3. v.next = w1.next + 1 /\ v.text = w1.text
    BY <1>11
  <2> QED
    BY <1>3, <1>10, <1>12, <1>13, <2>1, <2>2, <2>3, ToolOpens
<1>15. PICK d2 : Path(d1, e2, d2, r, g) /\ At(K, v, d2, u, C, z, r, g)
  BY <1>14 DEF Reads
<1>17. t = [u EXCEPT ![k] = u[k] \o p]
  <2>1. <<>> \o p = p
    BY <1>7
  <2>2. t \in [Tools \cup {Text} -> Seq(Nat)] /\ k \in Tools
    BY <1>0 DEF Sayings
  <2>3. u[k] = <<>>
    BY <1>13, <2>2
  <2>4. [u EXCEPT ![k] = p] = t
    BY <1>12, <1>13, <2>2
  <2> QED
    BY <2>1, <2>3, <2>4
<1>18. Reads(K, d2, e3, v, t, C, z, r, g)
  <2>1. CASE p = <<>>
    <3>1. u = t
      BY <1>0, <1>12, <1>13, <2>1 DEF Sayings
    <3>2. e3 = <<>>
      BY <1>e, <2>1 DEF Fill
    <3> QED
      BY <1>15, <3>1, <3>2, ReadsNothing
  <2>2. CASE p # <<>>
    <3>1. e3 = <<Event("fill", v.tools[k].block, k, p)>>
      BY <1>x, <1>7, <1>11, <1>e, <2>2 DEF Fill
    <3> QED
      BY <1>7, <1>14, <1>15, <1>17, <2>2, <3>1, ToolFills
  <2> QED
    BY <2>1, <2>2
<1>20. Reads(K, d, (e1 \o e2) \o e3, v, t, C, z, r, g)
  <2>1. Path(d, e1 \o e2, d2, r, g)
    BY <1>3, <1>15, PathJoin
  <2> QED
    BY <1>18, <2>1, ReadsOn
<1>21. s.writer = v /\ s.events = (e1 \o e2) \o e3
  <2>1. s = Result(v, e1 \o e2 \o e3)
    BY <1>p, <1>x, <1>6, <1>e DEF StartToolBlock
  <2> QED
    BY <2>1 DEF Result
<1>22. Kept(K, w, v)
  BY <1>7, <1>11, <1>14 DEF Started, Kept
<1> QED
  BY <1>11, <1>14, <1>20, <1>21, <1>22

\* A block is filled with what there is.
LEMMA FillsTool ==
  ASSUME NEW K, NEW w, NEW d, NEW t, NEW C, NEW z, NEW r, NEW g, At(K, w, d, t, C, z, r, g),
         NEW k \in K, Started(w, k), g => k \notin C, NEW frags \in Seq(Nat),
         NEW s, s = Fill(w.tools[k].block, k, frags), NEW u, u = [t EXCEPT ![k] = t[k] \o frags]
  PROVE  Reads(K, d, s, w, u, C, z, r, g)
<1>1. CASE frags = <<>>
  <2>1. t \in [Tools \cup {Text} -> Seq(Nat)] /\ k \in Tools
    BY DEF At, Sayings
  <2>2. u = t
    <3>1. t[k] \in Seq(Nat)
      BY <2>1
    <3>2. t[k] \o <<>> = t[k]
      BY <3>1, ConcatEmptySeq
    <3> QED
      BY <1>1, <2>1, <3>2
  <2>3. s = <<>>
    BY <1>1 DEF Fill
  <2> QED
    BY <2>2, <2>3, ReadsNothing
<1>2. CASE frags # <<>>
  <2>1. s = <<Event("fill", w.tools[k].block, k, frags)>>
    BY <1>2 DEF Fill
  <2> QED
    BY <1>2, <2>1, ToolFills
<1> QED
  BY <1>1, <1>2

\* Text: WriteTextDelta.
SameTools(w, v) == v.order = w.order /\ v.tools = w.tools
TextWritten(w, s, n, frags) == n \in Nat /\ s = WriteTextDelta(w, n) /\ frags = <<n>>

LEMMA WritesText ==
  ASSUME NEW K, NEW w, NEW d, NEW t, NEW C, NEW z, z, NEW r, NEW g, At(K, w, d, t, C, z, r, g),
         NEW n, NEW s, NEW frags, TextWritten(w, s, n, frags), NEW u, Adds(t, u, Text, frags)
  PROVE  Reads(K, d, s.events, s.writer, u, C, z, r, g) /\ SameTools(w, s.writer)
<1> USE DEF TextWritten
<1>z. z = TRUE
  BY DEF At
<1> SUFFICES Reads(K, d, s.events, s.writer, u, C, TRUE, r, g) /\ s.writer.order = w.order /\ s.writer.tools = w.tools
  BY <1>z DEF SameTools
<1>a. At(K, w, d, t, C, TRUE, r, g)
  BY <1>z
<1>0. K \in SUBSET Tools /\ w \in Writers(K)
  BY DEF At
<1>1. frags = <<n>> /\ u = [t EXCEPT ![Text] = t[Text] \o frags]
  BY DEF Adds
<1>2. frags \in Seq(Nat) /\ frags # <<>>
  BY <1>1
<1>3. CASE w.text # None
  <2>1. PICK e : e = <<Event("fill", w.text, Text, frags)>>
    OBVIOUS
  <2>2. s.writer = w /\ s.events = e
    <3>1. s = Result(w, e)
      BY <1>1, <1>2, <1>3, <2>1 DEF WriteTextDelta, Fill
    <3> QED
      BY <3>1 DEF Result
  <2>3. Reads(K, d, e, w, u, C, TRUE, r, g)
    BY <1>1, <1>2, <1>3, <1>a, <2>1, TextFills
  <2> QED
    BY <2>2, <2>3
<1>4. CASE w.text = None
  <2>1. PICK e1, e2 : e1 = <<Event("open", w.next, Text, <<>>)>> /\ e2 = <<Event("fill", w.next, Text, frags)>>
    OBVIOUS
  <2>2. PICK v : v = [w EXCEPT !.text = w.next, !.next = w.next + 1]
    OBVIOUS
  <2>3. w.next \in Nat /\ w.tools \in [K -> Slots] /\ w.order \in Seq(Tools)
    BY <1>0, WriterParts
  <2>4. v = [next |-> w.next + 1, text |-> w.next, tools |-> w.tools, order |-> w.order]
    BY <1>0, <2>2 DEF Writers
  <2>5. v \in Writers(K) /\ v.next = w.next + 1 /\ v.text = w.next /\ v.tools = w.tools /\ v.order = w.order
    BY <2>3, <2>4 DEF Writers
  <2>6. Reads(K, d, e1, v, t, C, TRUE, r, g)
    BY <1>4, <1>a, <2>1, <2>5, TextOpens
  <2>7. PICK f : Path(d, e1, f, r, g) /\ At(K, v, f, t, C, TRUE, r, g)
    BY <2>6 DEF Reads
  <2>8. Reads(K, f, e2, v, u, C, TRUE, r, g)
    <3>1. e2 = <<Event("fill", v.text, Text, frags)>> /\ v.text # None
      BY <2>1, <2>3, <2>5 DEF None
    <3> QED
      BY <1>1, <1>2, <2>7, <3>1, TextFills
  <2>9. Reads(K, d, e1 \o e2, v, u, C, TRUE, r, g)
    BY <2>7, <2>8, ReadsOn
  <2>10. s.writer = v /\ s.events = e1 \o e2
    <3>1. s = Result(v, e1 \o e2)
      BY <1>1, <1>2, <1>4, <2>1, <2>2 DEF WriteTextDelta, Fill
    <3> QED
      BY <3>1 DEF Result
  <2> QED
    BY <2>5, <2>9, <2>10
<1> QED
  BY <1>3, <1>4

\* Input that waits for its tool to get a name.
Waits(w, v, t, u, k, frags) ==
  /\ v = [w EXCEPT !.tools[k].pending = w.tools[k].pending \o frags]
  /\ u = [t EXCEPT ![k] = t[k] \o frags]

LEMMA InputWaits ==
  ASSUME NEW K, NEW w, NEW d, NEW t, NEW C, NEW z, NEW r, NEW g, At(K, w, d, t, C, z, r, g),
         NEW k \in K, ~Started(w, k), NEW frags \in Seq(Nat),
         NEW v, NEW u, Waits(w, v, t, u, k, frags)
  PROVE  At(K, v, d, u, C, z, r, g) /\ v.order = w.order /\ Kept(K, w, v)
<1>0. /\ K \in SUBSET Tools /\ w \in Writers(K) /\ d \in Readers /\ t \in Sayings /\ r \in Reasons
      /\ g \in BOOLEAN /\ z \in BOOLEAN /\ Match(w, d, t, C, z, g)
  BY DEF At
<1>1. PICK p : p = w.tools[k].pending \o frags
  OBVIOUS
<1>2. PICK x : x = [w.tools[k] EXCEPT !.pending = p]
  OBVIOUS
<1>3. PICK f : f = [w.tools EXCEPT ![k] = x]
  OBVIOUS
<1>4. /\ w.next \in Nat /\ w.text \in Int /\ w.tools \in [K -> Slots] /\ DOMAIN w.tools = K /\ w.order \in Seq(Tools)
      /\ Text \notin K /\ w.tools[k] \in Slots /\ w.tools[k].pending \in Seq(Nat)
  BY <1>0, WriterParts
<1>5. p \in Seq(Nat)
  BY <1>1, <1>4, ConcatProperties
<1>6. x \in Slots /\ x.block = w.tools[k].block /\ x.pending = p
  BY <1>2, <1>4, <1>5 DEF Slots
<1>7. f \in [K -> Slots] /\ f[k] = x /\ \A j \in K : j # k => f[j] = w.tools[j]
  BY <1>3, <1>4, <1>6
<1>8. v = [next |-> w.next, text |-> w.text, tools |-> f, order |-> w.order]
  <2>1. v = [w EXCEPT !.tools = f]
    BY <1>1, <1>2, <1>3 DEF Waits
  <2> QED
    BY <1>0, <2>1 DEF Writers
<1>9. v \in Writers(K) /\ v.next = w.next /\ v.text = w.text /\ v.tools = f /\ v.order = w.order
  <2>1. f \in [K -> Slots]
    BY <1>7
  <2>2. v \in Writers(K)
    <3>1. w.next \in Nat /\ w.text \in Int /\ w.order \in Seq(Tools)
      BY <1>4
    <3> QED
      BY ONLY <1>8, <2>1, <3>1 DEF Writers
  <2>3. v.next = w.next /\ v.text = w.text /\ v.tools = f /\ v.order = w.order
    BY <1>8
  <2> QED
    BY <2>2, <2>3
<1>10. \A j \in K : v.tools[j].block = w.tools[j].block /\ (Started(v, j) <=> Started(w, j))
  BY <1>6, <1>7, <1>9 DEF Started
<1>11. u \in Sayings /\ u[k] = t[k] \o frags /\ u[Text] = t[Text] /\ \A j \in K : j # k => u[j] = t[j]
  <2>1. t \in [Tools \cup {Text} -> Seq(Nat)] /\ k \in Tools /\ k # Text /\ u = [t EXCEPT ![k] = t[k] \o frags]
    BY <1>0, <1>4 DEF Sayings, Waits
  <2>2. t[k] \o frags \in Seq(Nat)
    BY <2>1, ConcatProperties
  <2> QED
    BY <1>0, <1>4, <2>1, <2>2 DEF Sayings
<1>12. t[k] = w.tools[k].pending
  BY <1>0, <1>4 DEF Match, Waiting
<1>13. \A i \in DOMAIN d.blocks : d.blocks[i].who # k
  BY <1>0, <1>4 DEF Match, ToolsIn
<1>14. Match(v, d, u, C, z, g)
  <2>1. TextAt(v, d, z, g) /\ OneText(v, d, z, g)
    BY <1>0, <1>9 DEF Match, TextAt, OneText
  <2>2. ToolsAt(v, d, C, g)
    BY <1>0, <1>4, <1>7, <1>9, <1>10 DEF Match, ToolsAt
  <2>3. Waiting(v, u)
    <3> SUFFICES ASSUME NEW j \in K, ~Started(w, j) PROVE v.tools[j].pending = u[j]
      BY <1>7, <1>9, <1>10 DEF Waiting
    <3>1. w.tools[j].pending = t[j]
      BY <1>0, <1>4 DEF Match, Waiting
    <3> QED
      BY <1>1, <1>6, <1>7, <1>9, <1>11, <1>12, <3>1
  <2>4. ToolsIn(v, d, u)
    <3> SUFFICES ASSUME NEW i \in DOMAIN d.blocks, d.blocks[i].who # Text
                 PROVE  /\ d.blocks[i].who \in K /\ Started(v, d.blocks[i].who)
                        /\ d.blocks[i].content = u[d.blocks[i].who]
      BY <1>7, <1>9 DEF ToolsIn
    <3>1. d.blocks[i].who \in K /\ Started(w, d.blocks[i].who) /\ d.blocks[i].content = t[d.blocks[i].who]
      BY <1>0, <1>4 DEF Match, ToolsIn
    <3> QED
      BY <1>10, <1>11, <1>13, <3>1
  <2> QED
    BY <1>0, <1>9, <1>11, <2>1, <2>2, <2>3, <2>4 DEF Match
<1> QED
  BY <1>0, <1>9, <1>10, <1>11, <1>14 DEF At, Kept

\* A delta of a tool call: WriteToolCallDelta.
CallAsked(K, L, w, t, s, u, C, z, k, named, frags) ==
  /\ C = {} /\ z /\ k \in Tools /\ L = K \cup {k} /\ (k \notin K => t[k] = <<>>)
  /\ named \in BOOLEAN /\ frags \in Seq(Nat) /\ Adds(t, u, k, frags)
  /\ s = WriteToolCallDelta(w, k, named, frags)
CallReads(K, L, w, d, s, u, C, z, r, g, k, named) ==
  /\ Reads(L, d, s.events, s.writer, u, C, z, r, g)
  /\ OrderAfter(w, s.writer, K, k)
  /\ named => Started(s.writer, k)
  /\ Kept(K, w, s.writer)

LEMMA WritesCall ==
  ASSUME NEW K, NEW L, NEW w, NEW d, NEW t, NEW s, NEW u, NEW C, NEW z, NEW r, NEW g, NEW k, NEW named,
         NEW frags, At(K, w, d, t, C, z, r, g), CallAsked(K, L, w, t, s, u, C, z, k, named, frags)
  PROVE  CallReads(K, L, w, d, s, u, C, z, r, g, k, named)
<1> SUFFICES /\ Reads(L, d, s.events, s.writer, u, C, z, r, g)
             /\ OrderAfter(w, s.writer, K, k)
             /\ named => Started(s.writer, k)
             /\ Kept(K, w, s.writer)
  BY DEF CallReads
<1> USE DEF CallAsked, Adds
<1>1. PICK w1 : w1 = Mention(w, k)
  OBVIOUS
<1>2. /\ At(L, w1, d, t, C, z, r, g) /\ Kept(K, w, w1)
      /\ OrderAfter(w, w1, K, k)
  BY <1>1, MentionMatches
<1>3. k \in L /\ (g => z) /\ (g => k \notin C) /\ K \subseteq L
  OBVIOUS
<1>4. PICK q : q = IF ~Started(w1, k) /\ named THEN StartToolBlock(w1, k) ELSE Result(w1, <<>>)
  OBVIOUS
<1>5. /\ Reads(L, d, q.events, q.writer, t, C, z, r, g) /\ q.writer.order = w1.order
      /\ named => Started(q.writer, k)
      /\ Kept(L, w1, q.writer)
  <2>1. CASE ~Started(w1, k) /\ named
    <3>1. q = StartToolBlock(w1, k) /\ ~Started(w1, k)
      BY <1>4, <2>1
    <3>2. /\ Reads(L, d, q.events, q.writer, t, C, z, r, g) /\ q.writer.order = w1.order /\ Started(q.writer, k)
          /\ Kept(L, w1, q.writer)
      BY ONLY <1>2, <1>3, <3>1, StartsTool
    <3> QED
      BY <3>2
  <2>2. CASE ~(~Started(w1, k) /\ named)
    <3>1. q = Result(w1, <<>>)
      BY <1>4, <2>2
    <3>2. q.writer = w1 /\ q.events = <<>>
      BY <3>1 DEF Result
    <3>3. Reads(L, d, q.events, w1, t, C, z, r, g)
      BY <1>2, <3>2, ReadsNothing
    <3> QED
      BY <2>2, <3>2, <3>3 DEF Kept
  <2> QED
    BY <2>1, <2>2
<1>6. PICK w2, e : w2 = q.writer /\ e = q.events
  OBVIOUS
<1>7. PICK f : Path(d, e, f, r, g) /\ At(L, w2, f, t, C, z, r, g)
  BY <1>5, <1>6 DEF Reads
<1>8. CASE Started(w2, k)
  <2>1. PICK e2 : e2 = Fill(w2.tools[k].block, k, frags)
    OBVIOUS
  <2>2. Reads(L, f, e2, w2, u, C, z, r, g)
    BY <1>3, <1>7, <1>8, <2>1, FillsTool
  <2>3. Reads(L, d, e \o e2, w2, u, C, z, r, g)
    BY <1>7, <2>2, ReadsOn
  <2>4. s = Result(w2, e \o e2)
    BY <1>1, <1>4, <1>6, <1>8, <2>1 DEF WriteToolCallDelta
  <2>5. s.writer = w2 /\ s.events = e \o e2
    BY <2>4 DEF Result
  <2> QED
    BY <1>2, <1>3, <1>5, <1>6, <1>8, <2>3, <2>5 DEF Kept, OrderAfter
<1>9. CASE ~Started(w2, k)
  <2>1. PICK v : v = [w2 EXCEPT !.tools[k].pending = w2.tools[k].pending \o frags]
    OBVIOUS
  <2>2. At(L, v, f, u, C, z, r, g) /\ v.order = w2.order /\ Kept(L, w2, v)
    <3>1. Waits(w2, v, t, u, k, frags)
      BY <2>1 DEF Waits
    <3>2. frags \in Seq(Nat) /\ k \in L
      OBVIOUS
    <3> QED
      BY ONLY <1>7, <1>9, <3>1, <3>2, InputWaits
  <2>3. Reads(L, d, e, v, u, C, z, r, g)
    BY <1>7, <2>2 DEF Reads
  <2>4. s = Result(v, e)
    BY <1>1, <1>4, <1>6, <1>9, <2>1 DEF WriteToolCallDelta
  <2>5. s.writer = v /\ s.events = e
    BY <2>4 DEF Result
  <2> QED
    BY <1>2, <1>3, <1>5, <1>6, <1>9, <2>2, <2>3, <2>5 DEF Kept, OrderAfter
<1> QED
  BY <1>8, <1>9

\* The end: FinishTool, and its fold over the tools in their order.
Results(K) == [writer : Writers(K), events : Seq(Events)]

LEMMA ResultParts ==
  ASSUME NEW K, NEW x \in Results(K)
  PROVE  x.writer \in Writers(K) /\ x.events \in Seq(Events) /\ x = Result(x.writer, x.events)
BY DEF Results, Result

LEMMA WriterEvents ==
  ASSUME NEW K \in SUBSET Tools, NEW w \in Writers(K), NEW k \in K, NEW i \in Int, NEW frags \in Seq(Nat)
  PROVE  /\ CloseText(w) \in Seq(Events) /\ Fill(i, k, frags) \in Seq(Events)
         /\ <<Event("open", i, k, <<>>)>> \in Seq(Events) /\ <<Event("close", i, k, <<>>)>> \in Seq(Events)
<1>1. Text \in Int /\ w.text \in Int /\ k \in Int /\ i \in Int
  BY WriterParts, ToolsAssumption DEF Text
<1>2. "start" \in FrameMarks /\ <<>> \in Seq(Nat)
  BY ONLY DEF FrameMarks
<1>3. PICK e1, e2, e3, e4 : /\ e1 = Event("close", w.text, Text, <<>>) /\ e2 = Event("fill", i, k, frags)
                            /\ e3 = Event("open", i, k, <<>>) /\ e4 = Event("close", i, k, <<>>)
  OBVIOUS
<1>4. e1 \in Events
  BY <1>1, <1>2, <1>3, EventTypes
<1>5. e2 \in Events /\ e3 \in Events /\ e4 \in Events
  BY <1>1, <1>2, <1>3, EventTypes
<1>6. <<>> \in Seq(Events) /\ <<e1>> \in Seq(Events) /\ <<e2>> \in Seq(Events) /\ <<e3>> \in Seq(Events) /\ <<e4>> \in Seq(Events)
  BY <1>4, <1>5
<1> QED
  BY <1>3, <1>6 DEF CloseText, Fill

LEMMA StartToolType ==
  ASSUME NEW K \in SUBSET Tools, NEW w \in Writers(K), NEW k \in K, NEW s, s = StartToolBlock(w, k)
  PROVE  s \in Results(K)
<1>p. PICK p : p = w.tools[k].pending
  OBVIOUS
<1>x. PICK x : x = [block |-> w.next, pending |-> <<>>]
  OBVIOUS
<1>e. PICK e1, e2, e3 : e1 = CloseText(w) /\ e2 = <<Event("open", w.next, k, <<>>)>> /\ e3 = Fill(w.next, k, p)
  OBVIOUS
<1>1. PICK v : v = [w EXCEPT !.next = w.next + 1, !.text = None, !.tools[k] = x]
  OBVIOUS
<1>2. /\ w.next \in Nat /\ w.tools \in [K -> Slots] /\ DOMAIN w.tools = K /\ w.order \in Seq(Tools) /\ p \in Seq(Nat)
      /\ w.next \in Int
  BY <1>p, WriterParts
<1>3. x \in Slots
  BY <1>x, <1>2 DEF Slots
<1>4. v = [next |-> w.next + 1, text |-> None, tools |-> [w.tools EXCEPT ![k] = x], order |-> w.order]
  BY <1>1 DEF Writers
<1>5. v \in Writers(K)
  BY <1>2, <1>3, <1>4 DEF Writers, None
<1>6. e1 \in Seq(Events) /\ e2 \in Seq(Events) /\ e3 \in Seq(Events)
  BY <1>2, <1>e, WriterEvents
<1>7. (e1 \o e2) \o e3 \in Seq(Events)
  BY <1>6, ConcatProperties
<1>8. s = Result(v, (e1 \o e2) \o e3)
  BY <1>p, <1>x, <1>1, <1>e DEF StartToolBlock
<1>9. PICK e : e = (e1 \o e2) \o e3
  OBVIOUS
<1> QED
  BY <1>5, <1>7, <1>8, <1>9 DEF Results, Result

LEMMA FinishToolType ==
  ASSUME NEW K \in SUBSET Tools, NEW x \in Results(K), NEW k \in K
  PROVE  FinishTool(x, k) \in Results(K)
<1>1. PICK q : q = IF Started(x.writer, k) THEN Result(x.writer, <<>>) ELSE StartToolBlock(x.writer, k)
  OBVIOUS
<1>2. x.writer \in Writers(K) /\ x.events \in Seq(Events)
  BY ResultParts
<1>3. q \in Results(K)
  <2>1. CASE Started(x.writer, k)
    <3>1. q = Result(x.writer, <<>>) /\ <<>> \in Seq(Events)
      BY <1>1, <2>1
    <3> QED
      BY <1>2, <3>1 DEF Result, Results
  <2>2. CASE ~Started(x.writer, k)
    <3>1. q = StartToolBlock(x.writer, k)
      BY <1>1, <2>2
    <3> QED
      BY <1>2, <3>1, StartToolType
  <2> QED
    BY <2>1, <2>2
<1>4. PICK w, e1, e2, e3 : /\ w = q.writer /\ e1 = x.events /\ e2 = q.events
                           /\ e3 = <<Event("close", q.writer.tools[k].block, k, <<>>)>>
  OBVIOUS
<1>5. w \in Writers(K) /\ e1 \in Seq(Events) /\ e2 \in Seq(Events)
  BY <1>2, <1>3, <1>4, ResultParts
<1>6. e3 \in Seq(Events)
  <2>1. w.tools[k].block \in Int /\ <<>> \in Seq(Nat)
    BY <1>5, WriterParts
  <2> QED
    BY <1>4, <1>5, <2>1, WriterEvents
<1>7. FinishTool(x, k) = Result(w, (e1 \o e2) \o e3)
  BY <1>1, <1>4 DEF FinishTool
<1>8. PICK e : e = (e1 \o e2) \o e3
  OBVIOUS
<1>9. e \in Seq(Events)
  BY <1>5, <1>6, <1>8, ConcatProperties
<1> QED
  BY <1>5, <1>7, <1>8, <1>9 DEF Result, Results

FinishTools(b, s) == FoldLeft(FinishTool, b, s)

LEMMA FinishToolsFold ==
  ASSUME NEW K \in SUBSET Tools, NEW b \in Results(K), NEW s \in Seq(K)
  PROVE  \E h \in [0..Len(s) -> Results(K)] :
           /\ h[0] = b /\ FinishTools(b, s) = h[Len(s)]
           /\ \A i \in 1..Len(s) : h[i] = FinishTool(h[i - 1], s[i])
<1> DEFINE X == Results(K)
           F == [p \in X \X K |-> FinishTool(p[1], p[2])]
           n == Len(s)
           E(g, t) == IF t = {} THEN b ELSE FinishTool(g[t \ {Max(t)}], s[Max(t)])
           Is(g) == g = [t \in SUBSET (1..n) |-> E(g, t)]
           iter == CHOOSE g : Is(g)
<1>0. b \in X /\ \A x \in X, y \in K : FinishTool(x, y) \in X
  BY FinishToolType
<1>1. n \in Nat /\ s \in [1..n -> K] /\ DOMAIN s = 1..n
  OBVIOUS
<1> HIDE DEF X
<1>2. F \in Ops(X, K) /\ \A x \in X, y \in K : F[<<x, y>>] = FinishTool(x, y)
  BY <1>0 DEF Ops
<1>3. FoldLeft(FinishTool, b, s) = iter[1..n]
  BY <1>1 DEF FoldLeft, MapThenFoldSet
<1> HIDE DEF F, n
<1>4. PICK g \in [SUBSET (1..n) -> X] : FoldOf(F, b, s, n, g)
  BY <1>0, <1>1, <1>2, FoldExists
<1>5. \A t \in SUBSET (1..n) : t # {} => s[Max(t)] \in K /\ t \ {Max(t)} \in SUBSET (1..n)
  <2> TAKE t \in SUBSET (1..n)
  <2> HAVE t # {}
  <2>1. Max(t) \in 1..n /\ t \ {Max(t)} \in SUBSET (1..n)
    BY <1>1, MaxBelow
  <2> QED
    BY <1>1, <2>1
<1>6. \A t \in SUBSET (1..n) : g[t] = E(g, t)
  BY <1>2, <1>4, <1>5 DEF FoldOf
<1>7. Is(g)
  <2> HIDE DEF E
  <2> QED
    BY <1>6
<1>8. Is(iter)
  <2> HIDE DEF Is
  <2> QED
    BY <1>7
<1> HIDE DEF iter
<1>9. ComputedBy(F, X, b, n, s, iter)
  BY <1>2, <1>5, <1>8, ZenonT(60) DEF ComputedBy
<1>10. PICK h \in [0..n -> X] : Walked(F, b, n, s, iter[1..n], h)
  BY <1>0, <1>1, <1>2, <1>9, FoldSteps
<1>11. \A i \in 1..n : h[i] = FinishTool(h[i - 1], s[i])
  <2> TAKE i \in 1..n
  <2>1. i - 1 \in 0..n /\ s[i] \in K
    BY <1>1
  <2> QED
    BY <1>2, <1>10, <2>1 DEF Walked
<1> QED
  BY <1>3, <1>10, <1>11 DEF Walked, n, FinishTools, X

LEMMA FinishesTool ==
  ASSUME NEW K, NEW x, NEW d, NEW f, NEW t, NEW C, NEW z, NEW r, NEW g,
         Path(d, x.events, f, r, g), At(K, x.writer, f, t, C, z, r, g),
         NEW k \in K, k \notin C, g => Started(x.writer, k),
         NEW s, s = FinishTool(x, k), NEW D, D = C \cup {k}
  PROVE  /\ Reads(K, d, s.events, s.writer, t, D, z, r, g)
         /\ Kept(K, x.writer, s.writer) /\ Started(s.writer, k)
<1>1. PICK q : q = IF Started(x.writer, k) THEN Result(x.writer, <<>>) ELSE StartToolBlock(x.writer, k)
  OBVIOUS
<1>2. Reads(K, f, q.events, q.writer, t, C, z, r, g) /\ Kept(K, x.writer, q.writer) /\ Started(q.writer, k)
  <2>1. CASE Started(x.writer, k)
    <3>1. q.writer = x.writer /\ q.events = <<>>
      BY <1>1, <2>1 DEF Result
    <3>2. Reads(K, f, q.events, x.writer, t, C, z, r, g)
      BY <3>1, ReadsNothing
    <3> QED
      BY <2>1, <3>1, <3>2 DEF Kept
  <2>2. CASE ~Started(x.writer, k)
    <3>1. q = StartToolBlock(x.writer, k) /\ ~Started(x.writer, k) /\ (g => z) /\ (g => k \notin C)
      BY <1>1, <2>2
    <3>2. k \in K /\ At(K, x.writer, f, t, C, z, r, g)
      OBVIOUS
    <3> QED
      BY ONLY <3>1, <3>2, StartsTool
  <2> QED
    BY <2>1, <2>2
<1>3. PICK w, e, e1, e2 : w = q.writer /\ e = x.events /\ e1 = q.events /\ e2 = <<Event("close", w.tools[k].block, k, <<>>)>>
  OBVIOUS
<1>4. PICK f1 : Path(f, e1, f1, r, g) /\ At(K, w, f1, t, C, z, r, g)
  BY <1>2, <1>3 DEF Reads
<1>5. Reads(K, f1, e2, w, t, D, z, r, g)
  <2>1. Started(w, k) /\ (g => k \notin C)
    BY <1>2, <1>3
  <2> QED
    BY <1>3, <1>4, <2>1, ToolCloses
<1>6. Path(d, e \o e1, f1, r, g)
  BY <1>3, <1>4, PathJoin
<1>7. Reads(K, d, (e \o e1) \o e2, w, t, D, z, r, g)
  BY <1>5, <1>6, ReadsOn
<1>8. s.writer = w /\ s.events = (e \o e1) \o e2
  <2>1. s = Result(w, (e \o e1) \o e2)
    BY <1>1, <1>3 DEF FinishTool
  <2> QED
    BY <2>1 DEF Result
<1> QED
  BY <1>2, <1>3, <1>7, <1>8

\* The tools, each once and in the order of their first mentions.
InOrder(w, K) ==
  /\ \A i, j \in DOMAIN w.order : w.order[i] = w.order[j] => i = j
  /\ K = {w.order[i] : i \in DOMAIN w.order}
AllStarted(w, K) == \A k \in K : Started(w, k)

\* A client that has all that was said.
HasAll(f, K, t, r) ==
  /\ f \in Readers /\ f.text = t[Text] /\ f.reason = r
  /\ \A i \in DOMAIN f.blocks : f.blocks[i].who # Text => f.blocks[i].content = t[f.blocks[i].who]
  /\ {f.blocks[i].who : i \in DOMAIN f.blocks} \ {Text} = K

\* Every block is closed.
FinishedTools(K, d, s, t, r, g) ==
  Reads(K, d, s.events, s.writer, t, K, FALSE, r, g) /\ AllStarted(s.writer, K)

LEMMA FinishesTools ==
  ASSUME NEW K, NEW w, NEW d, NEW t, NEW C, C = {}, NEW z, z, NEW r, NEW g, At(K, w, d, t, C, z, r, g),
         InOrder(w, K), g => AllStarted(w, K),
         NEW s, s = FinishTools(Result(w, CloseText(w)), w.order)
  PROVE  FinishedTools(K, d, s, t, r, g)
<1> DEFINE n == Len(w.order)
           D(i) == {w.order[j] : j \in 1..i}
<1>1. PICK b : b = Result(w, CloseText(w))
  OBVIOUS
<1>2. K \in SUBSET Tools /\ w \in Writers(K)
  BY DEF At
<1>3. w.order \in Seq(K) /\ DOMAIN w.order = 1..n /\ n \in Nat /\ \A i \in 1..n : w.order[i] \in K
  <2>1. w.order \in Seq(Tools)
    BY <1>2, WriterParts
  <2>2. \A i \in 1..n : w.order[i] \in K
    BY <2>1 DEF InOrder
  <2> QED
    BY <2>1, <2>2
<1>4. b.writer = w /\ b.events = CloseText(w)
  BY <1>1 DEF Result
<1>5. Reads(K, d, b.events, b.writer, t, C, FALSE, r, g)
  BY <1>4, ClosesText
<1>6. b \in Results(K)
  <2>1. PICK e : e = CloseText(w)
    OBVIOUS
  <2>2. e \in Seq(Events)
    <3>1. CASE w.text = None
      BY <2>1, <3>1 DEF CloseText
    <3>2. CASE w.text # None
      <4>1. Text \in Int /\ w.text \in Int /\ "start" \in FrameMarks /\ <<>> \in Seq(Nat)
        BY <1>2, WriterParts DEF Text, FrameMarks
      <4>2. PICK c : c = Event("close", w.text, Text, <<>>)
        OBVIOUS
      <4>3. c \in Events
        BY <4>1, <4>2, EventTypes
      <4> QED
        BY <2>1, <3>2, <4>2, <4>3 DEF CloseText
    <3> QED
      BY <3>1, <3>2
  <2> QED
    BY <1>1, <1>2, <2>1, <2>2 DEF Result, Results
<1>7. PICK h \in [0..n -> Results(K)] :
        /\ h[0] = b /\ s = h[n]
        /\ \A i \in 1..n : h[i] = FinishTool(h[i - 1], w.order[i])
  BY <1>1, <1>2, <1>3, <1>6, FinishToolsFold
<1> DEFINE P(i) == /\ Reads(K, d, h[i].events, h[i].writer, t, D(i), FALSE, r, g)
                   /\ \A j \in 1..i : Started(h[i].writer, w.order[j])
                   /\ g => AllStarted(h[i].writer, K)
           T == {i \in Nat : i <= n => P(i)}
<1>8. 0 \in T
  <2>1. D(0) = C
    OBVIOUS
  <2>2. g => AllStarted(h[0].writer, K)
    BY <1>4, <1>7
  <2> QED
    BY <1>5, <1>7, <2>1, <2>2
<1>9. ASSUME NEW i \in T PROVE i + 1 \in T
  <2>0. i \in Nat /\ (i <= n => P(i))
    <3> HIDE DEF P
    <3> QED
      OBVIOUS
  <2>s. SUFFICES ASSUME i + 1 <= n PROVE P(i + 1)
    <3> HIDE DEF P
    <3> QED
      BY <2>0
  <2> HIDE DEF T
  <2>1. i \in Nat /\ P(i) /\ i + 1 \in 1..n
    <3>1. i <= n /\ i + 1 \in 1..n
      BY <1>3, <2>0, <2>s
    <3> QED
      BY <2>0, <3>1
  <2>2. PICK x, y, k, C1, D1 : x = h[i] /\ y = h[i + 1] /\ k = w.order[i + 1] /\ C1 = D(i) /\ D1 = D(i + 1)
    OBVIOUS
  <2>3. y = FinishTool(x, k) /\ k \in K
    BY <1>3, <1>7, <2>1, <2>2
  <2>4. D1 = C1 \cup {k}
    <3>1. 1..(i + 1) = (1..i) \cup {i + 1}
      BY <2>1
    <3> QED
      BY <2>2, <3>1
  <2>5. k \notin C1
    <3>1. \A j \in 1..i : j \in DOMAIN w.order /\ i + 1 \in DOMAIN w.order /\ j # i + 1
      BY <1>3, <2>1
    <3> QED
      BY <2>2, <3>1 DEF InOrder
  <2>6. Reads(K, d, x.events, x.writer, t, C1, FALSE, r, g)
    BY <2>1, <2>2
  <2>7. PICK f : Path(d, x.events, f, r, g) /\ At(K, x.writer, f, t, C1, FALSE, r, g)
    BY <2>6 DEF Reads
  <2>8. (g => AllStarted(x.writer, K)) /\ (g => Started(x.writer, k))
    BY <2>1, <2>2, <2>3 DEF AllStarted
  <2>9. PICK z0 : z0 = FALSE
    OBVIOUS
  <2>10. /\ Reads(K, d, y.events, y.writer, t, D1, z0, r, g)
         /\ Kept(K, x.writer, y.writer) /\ Started(y.writer, k)
    BY ONLY <2>3, <2>4, <2>5, <2>7, <2>8, <2>9, FinishesTool
  <2>11. g => AllStarted(y.writer, K)
    BY <2>8, <2>10 DEF AllStarted, Kept
  <2>12. \A j \in 1..(i + 1) : Started(y.writer, w.order[j])
    <3> SUFFICES ASSUME NEW j \in 1..(i + 1) PROVE Started(y.writer, w.order[j])
      OBVIOUS
    <3>1. CASE j = i + 1
      BY <2>2, <2>10, <3>1
    <3>2. CASE j # i + 1
      <4>1. j \in 1..i /\ w.order[j] \in K
        BY <1>3, <2>1, <3>2
      <4>2. Started(x.writer, w.order[j])
        BY <2>1, <2>2, <4>1
      <4> QED
        BY <2>10, <4>1, <4>2 DEF Kept
    <3> QED
      BY <3>1, <3>2
  <2> QED
    BY <2>2, <2>9, <2>10, <2>11, <2>12
<1>10. T = Nat
  <2> HIDE DEF T
  <2>1. T \in SUBSET Nat
    BY DEF T
  <2> QED
    BY <1>8, <1>9, <2>1, SetInduction
<1>11. P(n)
  <2> HIDE DEF n, P
  <2>1. n \in T
    BY <1>3, <1>10
  <2> QED
    BY <1>3, <2>1
<1>12. D(n) = K
  BY <1>3 DEF InOrder
<1>13. AllStarted(s.writer, K)
  <2> SUFFICES ASSUME NEW k \in K PROVE Started(s.writer, k)
    BY DEF AllStarted
  <2>1. PICK j \in 1..n : k = w.order[j]
    BY <1>3 DEF InOrder
  <2> QED
    BY <1>7, <1>11, <2>1
<1> QED
  BY <1>7, <1>11, <1>12, <1>13 DEF FinishedTools

\* The end of a message: FinishMessage.
Ends(K, d, s, t, r, g) == \E f : Path(d, s, f, r, g) /\ HasAll(f, K, t, r)

LEMMA MarkEvents ==
  ASSUME NEW type \in FrameMarks
  PROVE  Mark(type) \in Events /\ Mark(type).type = type
<1>1. PICK e : e = Event(type, None, Text, <<>>)
  OBVIOUS
<1>2. None \in Int /\ Text \in Int /\ <<>> \in Seq(Nat) /\ type \in {"open", "fill", "close"} \cup FrameMarks
  BY DEF None, Text
<1>3. e \in Events
  BY <1>1, <1>2 DEF Event, Events
<1>4. e.type = type
  BY <1>1, EventFields
<1> QED
  BY <1>1, <1>3, <1>4 DEF Mark

LEMMA AppendTwo ==
  ASSUME NEW S, NEW x \in S, NEW y \in S
  PROVE  Append(<<x>>, y) = <<x, y>>
<1>1. <<x>> \in Seq(S) /\ <<x, y>> \in Seq(S)
  OBVIOUS
<1>2. PICK p, q : p = Append(<<x>>, y) /\ q = <<x, y>>
  OBVIOUS
<1>3. p \in Seq(S) /\ Len(p) = 2 /\ p[1] = x /\ p[2] = y
  BY <1>1, <1>2, AppendProperties
<1>4. q \in Seq(S) /\ Len(q) = 2 /\ q[1] = x /\ q[2] = y
  BY <1>1, <1>2
<1>5. p = q
  <2>1. Len(p) = Len(q) /\ \A i \in 1..Len(p) : p[i] = q[i]
    BY <1>3, <1>4
  <2> QED
    BY ONLY <1>3, <1>4, <2>1, SeqEqual
<1> QED
  BY <1>2, <1>5

LEMMA FinishesMessage ==
  ASSUME NEW K, NEW w, NEW d, NEW t, NEW C, C = {}, NEW z, z, NEW r, NEW g, At(K, w, d, t, C, z, r, g),
         InOrder(w, K), g => AllStarted(w, K), NEW s, s = FinishMessage(w)
  PROVE  Ends(K, d, s.events, t, r, g)
<1>1. PICK q : q = FinishTools(Result(w, CloseText(w)), w.order)
  OBVIOUS
<1>2. Reads(K, d, q.events, q.writer, t, K, FALSE, r, g) /\ AllStarted(q.writer, K)
  BY <1>1, FinishesTools DEF FinishedTools
<1>3. PICK v, e, e1, e2, f : /\ v = q.writer /\ e = q.events /\ e1 = Mark("end") /\ e2 = Mark("stop")
                             /\ Path(d, e, f, r, g) /\ At(K, v, f, t, K, FALSE, r, g)
  BY <1>2 DEF Reads
<1>4. /\ K \in SUBSET Tools /\ v \in Writers(K) /\ f \in Readers /\ t \in Sayings /\ r \in Reasons
      /\ g \in BOOLEAN /\ Match(v, f, t, K, FALSE, g)
  BY <1>3 DEF At
<1>5. DOMAIN v.tools = K /\ Text \notin K
  BY <1>4, WriterParts
<1>6. e1 \in Events /\ e1.type = "end" /\ e2 \in Events /\ e2.type = "stop"
  BY <1>3, MarkEvents DEF FrameMarks
<1>7. g => \A i \in DOMAIN f.blocks : ~IsOpen(f, i)
  <2> SUFFICES ASSUME g, NEW i \in DOMAIN f.blocks PROVE ~IsOpen(f, i)
    OBVIOUS
  <2>1. CASE f.blocks[i].who = Text
    BY <1>4, <2>1 DEF Match, OneText
  <2>2. CASE f.blocks[i].who # Text
    <3>1. PICK k : k = f.blocks[i].who
      OBVIOUS
    <3>2. k \in K /\ Started(v, k)
      BY <1>4, <1>5, <2>2, <3>1 DEF Match, ToolsIn
    <3>3. PICK b : b = v.tools[k].block + 1
      OBVIOUS
    <3>4. b \in DOMAIN f.blocks /\ f.blocks[b].who = k /\ ~IsOpen(f, b)
      BY <1>4, <1>5, <3>2, <3>3 DEF Match, ToolsAt
    <3>5. b = i
      BY <1>4, <2>2, <3>1, <3>4, ReaderParts DEF OwnBlocks
    <3> QED
      BY <3>4, <3>5
  <2> QED
    BY <2>1, <2>2
<1>8. Begun(f, g) /\ f.text = t[Text]
  BY <1>4 DEF Match
<1>9. Fits(f, e1, g)
  BY <1>6, <1>7, <1>8 DEF Fits, FitsMark
<1>10. PICK f1 : f1 = Read(f, e1, r)
  OBVIOUS
<1>11. f1 \in Readers /\ Noted(f, f1, "end", r)
  BY <1>4, <1>6, <1>10, NoteRead DEF FrameMarks
<1>12. Fits(f1, e2, g)
  <2>1. g => f1.frame = <<"start", "end">>
    <3> SUFFICES ASSUME g PROVE f1.frame = <<"start", "end">>
      OBVIOUS
    <3>1. f1.frame = Append(f.frame, "end") /\ f.frame = <<"start">>
      BY <1>8, <1>11 DEF Noted, Begun
    <3>2. PICK a, b : a = "start" /\ b = "end"
      OBVIOUS
    <3>3. a \in FrameMarks /\ b \in FrameMarks
      BY ONLY <3>2 DEF FrameMarks
    <3>4. Append(<<a>>, b) = <<a, b>>
      BY ONLY <3>3, AppendTwo
    <3> QED
      BY <3>1, <3>2, <3>4
  <2> QED
    BY <1>6, <2>1 DEF Fits, FitsMark
<1>13. PICK f2 : f2 = Read(f1, e2, r)
  OBVIOUS
<1>14. f2 \in Readers /\ Noted(f1, f2, "stop", r)
  BY <1>4, <1>6, <1>11, <1>13, NoteRead DEF FrameMarks
<1>15. Path(f, <<e1, e2>>, f2, r, g)
  <2>1. Path(f, <<e1>>, f1, r, g)
    BY <1>4, <1>6, <1>9, <1>10, PathOne
  <2>2. <<e1, e2>> = Append(<<e1>>, e2)
    OBVIOUS
  <2> QED
    BY <1>4, <1>6, <1>12, <1>13, <2>1, <2>2, PathMore
<1>16. f2.text = t[Text] /\ f2.reason = r /\ f2.blocks = f.blocks
  BY <1>8, <1>11, <1>14 DEF Noted
<1>17. \A i \in DOMAIN f.blocks : f.blocks[i].who # Text => /\ f.blocks[i].content = t[f.blocks[i].who]
                                                           /\ f.blocks[i].who \in K
  BY <1>4, <1>5 DEF Match, ToolsIn
<1>18. {f.blocks[i].who : i \in DOMAIN f.blocks} \ {Text} = K
  <2>1. \A k \in K : \E i \in DOMAIN f.blocks : f.blocks[i].who = k
    BY <1>2, <1>3, <1>4, <1>5 DEF Match, ToolsAt, AllStarted
  <2> QED
    BY <1>5, <1>17, <2>1
<1>19. HasAll(f2, K, t, r)
  BY <1>14, <1>16, <1>17, <1>18 DEF HasAll
<1>20. Path(d, e \o <<e1, e2>>, f2, r, g)
  BY <1>3, <1>15, PathJoin
<1>21. s.events = e \o <<e1, e2>>
  <2>1. s = Result(q.writer, q.events \o <<Mark("end"), Mark("stop")>>)
    BY <1>1 DEF FinishMessage, FinishTools
  <2> QED
    BY <1>3, <2>1 DEF Result
<1> QED
  BY <1>19, <1>20, <1>21 DEF Ends

-----------------------------------------------------------------------------
\* What was said of each holder, and what one more utterance makes of it.
Spoke == [who \in Tools \cup {Text} |-> SaidBy(who)]

LEMMA SpokeType ==
  ASSUME said \in Seq(Utterances)
  PROVE  /\ Spoke \in Sayings /\ \A who \in Tools \cup {Text} : Spoke[who] = SaidBy(who)
         /\ \A k \in Tools : k \notin Mentioned => Spoke[k] = <<>>
         /\ Mentioned \in SUBSET Tools
<1>1. \A who \in Tools \cup {Text} : SaidBy(who) \in Seq(Nat)
  BY SaidByType
<1>2. \A k \in Tools : k \notin Mentioned => SaidBy(k) = <<>>
  BY Unsaid
<1>3. Mentioned \in SUBSET Tools
  <2>1. \A i \in DOMAIN said : said[i].who \in Tools \cup {Text}
    <3> TAKE i \in DOMAIN said
    <3>1. said[i] \in Utterances
      OBVIOUS
    <3> QED
      BY <3>1, UtteranceKinds
  <2> QED
    BY <2>1 DEF Mentioned
<1> QED
  BY <1>1, <1>2, <1>3 DEF Spoke, Sayings

LEMMA SpokeMore ==
  ASSUME said \in Seq(Utterances), NEW u \in Utterances, said' = Append(said, u)
  PROVE  /\ u.who \in Tools \cup {Text} /\ Frags(u) \in Seq(Nat)
         /\ Spoke' = [Spoke EXCEPT ![u.who] = Spoke[u.who] \o Frags(u)]
         /\ Frags(u) = <<>> => Spoke' = Spoke
<1> DEFINE S == Tools \cup {Text}
<1>1. u.who \in S
  BY UtteranceKinds
<1>2. PICK n \in Nat : n = Len(said) + 1
  OBVIOUS
<1>3. PICK frags : frags = Frags(u)
  OBVIOUS
<1>4. frags \in Seq(Nat) /\ \A who : Share(u, who, n) = IF who = u.who THEN frags ELSE <<>>
  BY <1>2, <1>3 DEF Frags, Share
<1>5. Spoke \in [S -> Seq(Nat)] /\ \A who \in S : Spoke[who] = SaidBy(who)
  BY SpokeType DEF Sayings
<1>6. \A who \in S : SaidBy(who)' = SaidBy(who) \o Share(u, who, n)
  BY <1>2, SaidByMore
<1>7. \A who \in S : who # u.who => SaidBy(who)' = Spoke[who]
  <2> TAKE who \in S
  <2> HAVE who # u.who
  <2>1. SaidBy(who)' = Spoke[who] \o <<>> /\ Spoke[who] \in Seq(Nat)
    BY <1>4, <1>5, <1>6
  <2> QED
    BY <2>1, ConcatEmptySeq
<1>8. SaidBy(u.who)' = Spoke[u.who] \o frags
  BY <1>1, <1>4, <1>5, <1>6
<1>9. Spoke' = [who \in S |-> SaidBy(who)']
  BY DEF Spoke
<1>10. PICK v : v = [Spoke EXCEPT ![u.who] = Spoke[u.who] \o frags]
  OBVIOUS
<1>11. v = [who \in S |-> IF who = u.who THEN Spoke[u.who] \o frags ELSE Spoke[who]]
  BY <1>5, <1>10
<1>12. \A who \in S : (IF who = u.who THEN Spoke[u.who] \o frags ELSE Spoke[who]) = SaidBy(who)'
  BY <1>7, <1>8
<1>13. Spoke' = v
  <2> HIDE DEF S
  <2> QED
    BY <1>9, <1>11, <1>12
<1>14. frags = <<>> => v = Spoke
  <2> HAVE frags = <<>>
  <2>1. Spoke[u.who] \o <<>> = Spoke[u.who]
    BY <1>1, <1>5, ConcatEmptySeq
  <2> QED
    BY <1>5, <1>10, <2>1
<1> QED
  BY <1>1, <1>3, <1>4, <1>10, <1>13, <1>14

\* Nothing is said.
LEMMA SpokeSame ==
  ASSUME UNCHANGED said
  PROVE  /\ Spoke' = Spoke /\ Mentioned' = Mentioned /\ Named' = Named /\ Reason' = Reason
         /\ \A who : SaidBy(who)' = SaidBy(who) /\ \A what : Has(what)' = Has(what)
<1>1. \A who : SaidBy(who)' = SaidBy(who)
  BY DEF SaidBy
<1>2. \A what : Has(what)' = Has(what)
  BY DEF Has
<1> QED
  BY <1>1, <1>2 DEF Spoke, Mentioned, Named, Reason

LEMMA ReasonMore ==
  ASSUME said \in Seq(Utterances), NEW u \in Utterances, said' = Append(said, u)
  PROVE  /\ Reason \in Reasons /\ Reason' \in Reasons
         /\ (Has("reason") => Reason = "said") /\ (Has("reason")' => Reason' = "said")
         /\ (u.what # "reason" => Reason' = Reason) /\ (u.what = "reason" => Reason' = "said")
<1>1. Has("reason")' <=> Has("reason") \/ u.what = "reason"
  BY SaidMore
<1> QED
  BY <1>1 DEF Reason, Reasons

-----------------------------------------------------------------------------
(***************************************************************************)
(* Chunks: the translator w matches the client d that has read all.        *)
(***************************************************************************)
Chunkers(K) == [index : [K -> Nat], count : Nat, finished : BOOLEAN]

ChunkAt(K, w, d, t) ==
  /\ K \in SUBSET Tools /\ w \in Chunkers(K) /\ d \in Readers /\ t \in Sayings
  /\ w.count = Len(d.blocks) /\ d.text = t[Text]
  /\ \A k \in K : w.index[k] + 1 \in DOMAIN d.blocks /\ d.blocks[w.index[k] + 1].who = k
  /\ \A i \in DOMAIN d.blocks : d.blocks[i].who \in K /\ d.blocks[i].content = t[d.blocks[i].who]

\* A reading of s after which one does again, and knows the reason q; r is what an end tells.
ChunkReads(K, d, s, w, t, r, q) ==
  \E f : Path(d, s, f, r, FALSE) /\ ChunkAt(K, w, f, t) /\ f.reason = q

LEMMA ChunkerParts ==
  ASSUME NEW K \in SUBSET Tools, NEW w \in Chunkers(K)
  PROVE  /\ w = [index |-> w.index, count |-> w.count, finished |-> w.finished]
         /\ w.index \in [K -> Nat] /\ DOMAIN w.index = K /\ w.count \in Nat /\ w.finished \in BOOLEAN
         /\ Text \notin K
<1>1. Text \notin K
  BY ToolsAssumption DEF Text
<1> QED
  BY <1>1 DEF Chunkers

LEMMA ChunkNothing ==
  ASSUME NEW K, NEW w, NEW d, NEW t, NEW r, ChunkAt(K, w, d, t), NEW s, s = <<>>, NEW q, q = d.reason
  PROVE  ChunkReads(K, d, s, w, t, r, q)
BY PathStays DEF ChunkReads, ChunkAt

LEMMA ChunkOn ==
  ASSUME NEW K, NEW w, NEW d, NEW s1, NEW v, NEW t, NEW r, NEW q1, ChunkReads(K, d, s1, v, t, r, q1),
         NEW s2, NEW q, \A f : ChunkAt(K, v, f, t) /\ f.reason = q1 => ChunkReads(K, f, s2, w, t, r, q),
         NEW s, s = s1 \o s2
  PROVE  ChunkReads(K, d, s, w, t, r, q)
<1>1. PICK f : Path(d, s1, f, r, FALSE) /\ ChunkAt(K, v, f, t) /\ f.reason = q1
  BY DEF ChunkReads
<1>2. PICK h : Path(f, s2, h, r, FALSE) /\ ChunkAt(K, w, h, t) /\ h.reason = q
  BY <1>1 DEF ChunkReads
<1>3. Path(d, s1 \o s2, h, r, FALSE)
  BY <1>1, <1>2, PathJoin
<1> QED
  BY <1>2, <1>3 DEF ChunkReads

\* A tool of which nothing was said yet.
Fresh(K, L, t, k) == k \in Tools /\ k \notin K /\ t[k] = <<>> /\ L = K \cup {k}

\* Text.
LEMMA ChunkText ==
  ASSUME NEW K, NEW w, NEW d, NEW t, NEW r \in Reasons, ChunkAt(K, w, d, t),
         NEW frags \in Seq(Nat), NEW s, s = <<Event("fill", None, Text, frags)>>,
         NEW u, Adds(t, u, Text, frags), NEW q, q = d.reason
  PROVE  ChunkReads(K, d, s, w, u, r, q)
<1>0. K \in SUBSET Tools /\ w \in Chunkers(K) /\ d \in Readers /\ t \in Sayings /\ Text \notin K
  BY ChunkerParts DEF ChunkAt
<1>1. PICK e : e = Event("fill", None, Text, frags)
  OBVIOUS
<1>2. e \in Events /\ e.type = "fill" /\ e.index = None /\ e.frags = frags
  <2>1. None \in Int /\ Text \in Int
    BY DEF None, Text
  <2>2. e \in Events
    BY <1>1, <2>1 DEF Event, Events
  <2> QED
    BY <1>1, <2>2, EventFields
<1>3. PICK f : f = Read(d, e, r)
  OBVIOUS
<1>4. f \in Readers /\ Spoken(d, f, frags)
  BY <1>0, <1>2, <1>3, SpeakRead
<1>5. PICK g : g = FALSE
  OBVIOUS
<1>6. Fits(d, e, g)
  BY <1>2, <1>5 DEF Fits, FitsSaid
<1>7. Path(d, <<e>>, f, r, g)
  BY <1>0, <1>2, <1>3, <1>6, PathOne
<1>8. t \in [Tools \cup {Text} -> Seq(Nat)] /\ t[Text] \o frags \in Seq(Nat)
  BY <1>0, ConcatProperties DEF Sayings
<1>9. u \in Sayings /\ u[Text] = t[Text] \o frags /\ \A k \in K : u[k] = t[k]
  BY <1>0, <1>8 DEF Sayings, Adds
<1>10. ChunkAt(K, w, f, u)
  <2>1. f.blocks = d.blocks /\ f.text = u[Text]
    BY <1>4, <1>9 DEF Spoken, ChunkAt
  <2>2. \A i \in DOMAIN f.blocks : f.blocks[i].who \in K /\ f.blocks[i].content = u[f.blocks[i].who]
    <3> SUFFICES ASSUME NEW i \in DOMAIN d.blocks
                 PROVE  d.blocks[i].who \in K /\ d.blocks[i].content = u[d.blocks[i].who]
      BY <2>1
    <3>1. d.blocks[i].who \in K /\ d.blocks[i].content = t[d.blocks[i].who]
      BY DEF ChunkAt
    <3> QED
      BY ONLY <1>9, <3>1
  <2>3. w.count = Len(f.blocks) /\ \A k \in K : w.index[k] + 1 \in DOMAIN f.blocks /\ f.blocks[w.index[k] + 1].who = k
    BY <2>1 DEF ChunkAt
  <2> QED
    BY <1>0, <1>4, <1>9, <2>1, <2>2, <2>3 DEF ChunkAt
<1> QED
  BY <1>1, <1>4, <1>5, <1>7, <1>10 DEF ChunkReads, Spoken

\* A call starts: WriteToolStart.
LEMMA ChunkToolStarts ==
  ASSUME NEW K, NEW w, NEW d, NEW t, NEW r \in Reasons, ChunkAt(K, w, d, t),
         NEW k, NEW L, Fresh(K, L, t, k), NEW s, s = WriteToolStart(w, k), NEW q, q = d.reason
  PROVE  ChunkReads(L, d, s.events, s.writer, t, r, q) /\ s.writer.finished = w.finished
<1> USE DEF Fresh
<1>0. /\ K \in SUBSET Tools /\ w \in Chunkers(K) /\ d \in Readers /\ t \in Sayings /\ L \in SUBSET Tools
      /\ w.count = Len(d.blocks) /\ w.index \in [K -> Nat] /\ w.count \in Nat /\ w.finished \in BOOLEAN
  BY ChunkerParts DEF ChunkAt
<1>1. PICK e : e = Event("open", w.count, k, <<>>)
  OBVIOUS
<1>2. PICK v : v = [w EXCEPT !.index = Put(w.index, k, w.count), !.count = w.count + 1]
  OBVIOUS
<1>3. s.events = <<e>> /\ s.writer = v
  <2>1. s = Result(v, <<e>>)
    BY <1>1, <1>2 DEF WriteToolStart
  <2> QED
    BY <2>1 DEF Result
<1>4. PICK x : x = Put(w.index, k, w.count)
  OBVIOUS
<1>5. x \in [L -> Nat] /\ x[k] = w.count /\ \A j \in K : x[j] = w.index[j]
  BY <1>0, <1>4 DEF Put
<1>6. v = [index |-> x, count |-> w.count + 1, finished |-> w.finished]
  BY <1>0, <1>2, <1>4 DEF Chunkers
<1>7. v \in Chunkers(L) /\ v.index = x /\ v.count = w.count + 1 /\ v.finished = w.finished
  <2>1. w.count + 1 \in Nat
    BY <1>0
  <2> QED
    BY <1>0, <1>5, <1>6, <2>1 DEF Chunkers
<1>8. e \in Events /\ e.type = "open" /\ e.index = Len(d.blocks) /\ e.who = k
  <2>1. w.count \in Int /\ k \in Int /\ <<>> \in Seq(Nat)
    BY <1>0, ToolsAssumption
  <2>2. e \in Events
    BY <1>1, <2>1 DEF Event, Events
  <2> QED
    BY <1>0, <1>1, <2>2, EventFields
<1>9. \A i \in DOMAIN d.blocks : d.blocks[i].who # k
  BY DEF ChunkAt
<1>10. PICK f : f = Read(d, e, r)
  OBVIOUS
<1>11. f \in Readers /\ Opened(d, f, k)
  BY <1>0, <1>8, <1>9, <1>10, OpenRead
<1>12. PICK g : g = FALSE
  OBVIOUS
<1>13. Path(d, <<e>>, f, r, g)
  <2>1. Fits(d, e, g)
    BY <1>8, <1>9, <1>12 DEF Fits, FitsOpen, Begun
  <2> QED
    BY <1>0, <1>8, <1>10, <2>1, PathOne
<1>14. PICK b : b = Len(f.blocks)
  OBVIOUS
<1>15. /\ f.text = d.text /\ b = Len(d.blocks) + 1 /\ DOMAIN f.blocks = DOMAIN d.blocks \cup {b}
       /\ f.blocks[b].who = k /\ f.blocks[b].content = <<>> /\ f.reason = d.reason
       /\ \A i \in DOMAIN d.blocks : f.blocks[i] = d.blocks[i]
  BY <1>11, <1>14 DEF Opened, NewBlock
<1>16. \A j \in L : v.index[j] + 1 \in DOMAIN f.blocks /\ f.blocks[v.index[j] + 1].who = j
  <2> SUFFICES ASSUME NEW j \in L PROVE v.index[j] + 1 \in DOMAIN f.blocks /\ f.blocks[v.index[j] + 1].who = j
    OBVIOUS
  <2>1. CASE j = k
    BY <1>0, <1>5, <1>7, <1>15, <2>1
  <2>2. CASE j # k
    <3>1. j \in K /\ v.index[j] = w.index[j]
      BY <1>5, <1>7, <2>2
    <3>2. w.index[j] + 1 \in DOMAIN d.blocks /\ d.blocks[w.index[j] + 1].who = j
      BY <3>1 DEF ChunkAt
    <3> QED
      BY <1>15, <3>1, <3>2
  <2> QED
    BY <2>1, <2>2
<1>17. \A i \in DOMAIN f.blocks : f.blocks[i].who \in L /\ f.blocks[i].content = t[f.blocks[i].who]
  BY <1>15 DEF ChunkAt
<1>18. d.text = t[Text]
  BY DEF ChunkAt
<1>19. ChunkAt(L, v, f, t)
  BY <1>0, <1>7, <1>11, <1>14, <1>15, <1>16, <1>17, <1>18 DEF ChunkAt
<1> QED
  BY <1>3, <1>7, <1>12, <1>13, <1>15, <1>19 DEF ChunkReads

\* Input for a call that has started: WriteToolInput.
LEMMA ChunkInput ==
  ASSUME NEW K, NEW w, NEW d, NEW t, NEW r \in Reasons, ChunkAt(K, w, d, t),
         NEW k \in K, NEW frags \in Seq(Nat), frags # <<>>, NEW s, s = WriteToolInput(w, k, frags),
         NEW u, Adds(t, u, k, frags), NEW q, q = d.reason
  PROVE  ChunkReads(K, d, s.events, s.writer, u, r, q) /\ s.writer = w
<1>0. /\ K \in SUBSET Tools /\ w \in Chunkers(K) /\ d \in Readers /\ t \in Sayings
      /\ w.index \in [K -> Nat] /\ DOMAIN w.index = K /\ Text \notin K
  BY ChunkerParts DEF ChunkAt
<1>1. PICK e : e = Event("fill", w.index[k], k, frags)
  OBVIOUS
<1>2. s.events = <<e>> /\ s.writer = w
  <2>1. s = Result(w, <<e>>)
    BY <1>0, <1>1 DEF WriteToolInput, Fill
  <2> QED
    BY <2>1 DEF Result
<1>3. PICK b : b = w.index[k] + 1
  OBVIOUS
<1>4. b \in DOMAIN d.blocks /\ d.blocks[b].who = k /\ d.blocks[b].content = t[k] /\ d.text = t[Text]
  BY <1>3 DEF ChunkAt
<1>5. e \in Events /\ e.type = "fill" /\ e.index + 1 = b /\ e.who = k /\ e.frags = frags
  <2>1. w.index[k] \in Int /\ k \in Int
    <3>1. w.index[k] \in Nat /\ k \in Tools
      BY <1>0
    <3> QED
      BY <3>1, ToolsAssumption
  <2>2. e \in Events
    BY <1>1, <2>1 DEF Event, Events
  <2> QED
    BY <1>1, <1>3, <2>2, EventFields
<1>6. PICK f : f = Read(d, e, r)
  OBVIOUS
<1>7. f \in Readers /\ Filled(d, f, b, frags)
  BY <1>0, <1>4, <1>5, <1>6, FillRead
<1>8. PICK g : g = FALSE
  OBVIOUS
<1>9. Path(d, <<e>>, f, r, g)
  <2>1. Fits(d, e, g)
    BY <1>4, <1>5, <1>8 DEF Fits, FitsFill, Begun, Known
  <2> QED
    BY <1>0, <1>5, <1>6, <2>1, PathOne
<1>10. /\ f.text = d.text /\ f.reason = d.reason /\ Len(f.blocks) = Len(d.blocks) /\ DOMAIN f.blocks = DOMAIN d.blocks
       /\ f.blocks[b].who = k /\ f.blocks[b].content = t[k] \o frags
       /\ \A i \in DOMAIN d.blocks : i # b => f.blocks[i] = d.blocks[i]
  BY <1>0, <1>4, <1>7 DEF Filled, Others
<1>11. t \in [Tools \cup {Text} -> Seq(Nat)] /\ t[k] \o frags \in Seq(Nat)
  BY <1>0, ConcatProperties DEF Sayings
<1>12. u \in Sayings /\ u[Text] = t[Text] /\ u[k] = t[k] \o frags /\ \A j \in K : j # k => u[j] = t[j]
  BY <1>0, <1>11 DEF Sayings, Adds
<1>13. \A i \in DOMAIN d.blocks : d.blocks[i].who = k => i = b
  BY <1>0, <1>4, ReaderParts DEF OwnBlocks
<1>14. \A i \in DOMAIN f.blocks : f.blocks[i].who \in K /\ f.blocks[i].content = u[f.blocks[i].who]
  <2> SUFFICES ASSUME NEW i \in DOMAIN d.blocks PROVE f.blocks[i].who \in K /\ f.blocks[i].content = u[f.blocks[i].who]
    BY <1>10
  <2>1. CASE i = b
    BY <1>10, <1>12, <2>1
  <2>2. CASE i # b
    <3>1. d.blocks[i].who \in K /\ d.blocks[i].content = t[d.blocks[i].who] /\ d.blocks[i].who # k
      BY <1>13, <2>2 DEF ChunkAt
    <3> QED
      BY <1>10, <1>12, <2>2, <3>1
  <2> QED
    BY <2>1, <2>2
<1>15. \A j \in K : w.index[j] + 1 \in DOMAIN f.blocks /\ f.blocks[w.index[j] + 1].who = j
  BY <1>4, <1>10 DEF ChunkAt
<1>16. ChunkAt(K, w, f, u)
  BY <1>0, <1>4, <1>7, <1>10, <1>12, <1>14, <1>15 DEF ChunkAt
<1> QED
  BY <1>2, <1>8, <1>9, <1>10, <1>16 DEF ChunkReads

\* A mark.
LEMMA ChunkMark ==
  ASSUME NEW K, NEW w, NEW d, NEW t, NEW r \in Reasons, ChunkAt(K, w, d, t), NEW v \in Chunkers(K),
         v.index = w.index, v.count = w.count, NEW type \in {"start", "finish", "usage", "done"},
         NEW s, s = <<Mark(type)>>, NEW q, q = IF type = "finish" THEN r ELSE d.reason
  PROVE  ChunkReads(K, d, s, v, t, r, q)
<1>0. K \in SUBSET Tools /\ w \in Chunkers(K) /\ d \in Readers /\ t \in Sayings
  BY DEF ChunkAt
<1>1. PICK e : e = Mark(type)
  OBVIOUS
<1>2. type \in FrameMarks
  BY DEF FrameMarks
<1>3. e \in Events /\ e.type = type
  BY <1>1, <1>2, MarkEvents
<1>4. PICK f : f = Read(d, e, r)
  OBVIOUS
<1>5. f \in Readers /\ Noted(d, f, type, r)
  BY <1>0, <1>2, <1>3, <1>4, NoteRead
<1>6. PICK g : g = FALSE
  OBVIOUS
<1>7. Path(d, <<e>>, f, r, g)
  <2>1. Fits(d, e, g)
    BY <1>3, <1>6 DEF Fits, FitsMark
  <2> QED
    BY <1>0, <1>3, <1>4, <2>1, PathOne
<1>8. f.reason = q
  BY <1>5 DEF Noted
<1>9. ChunkAt(K, v, f, t)
  BY <1>0, <1>5 DEF ChunkAt, Noted
<1> QED
  BY <1>1, <1>6, <1>7, <1>8, <1>9 DEF ChunkReads

\* The end of a completion.
LEMMA ChunkUsage ==
  ASSUME NEW K, NEW w, NEW d, NEW t, NEW r \in Reasons, ChunkAt(K, w, d, t), NEW c \in BOOLEAN,
         NEW s, s = IF c THEN <<Mark("usage")>> ELSE <<>>, NEW q, q = d.reason
  PROVE  ChunkReads(K, d, s, w, t, r, q)
<1>1. CASE c
  <2>1. w \in Chunkers(K) /\ s = <<Mark("usage")>>
    BY <1>1 DEF ChunkAt
  <2>2. PICK type \in {"start", "finish", "usage", "done"} : type = "usage"
    OBVIOUS
  <2>3. q = (IF type = "finish" THEN r ELSE d.reason) /\ s = <<Mark(type)>>
    BY <2>1, <2>2
  <2> QED
    BY <2>1, <2>3, ChunkMark
<1>2. CASE ~c
  BY <1>2, ChunkNothing
<1> QED
  BY <1>1, <1>2

LEMMA ChunkDone ==
  ASSUME NEW K, NEW w, NEW d, NEW t, NEW r \in Reasons, ChunkAt(K, w, d, t),
         NEW s, s = <<Mark("done")>>, NEW q, q = d.reason
  PROVE  ChunkReads(K, d, s, w, t, r, q)
<1>1. w \in Chunkers(K)
  BY DEF ChunkAt
<1>2. PICK type \in {"start", "finish", "usage", "done"} : type = "done"
  OBVIOUS
<1>3. q = (IF type = "finish" THEN r ELSE d.reason) /\ s = <<Mark(type)>>
  BY <1>2
<1> QED
  BY <1>1, <1>3, ChunkMark

LEMMA ChunkLast ==
  ASSUME NEW K, NEW w, NEW d, NEW t, NEW r \in Reasons, ChunkAt(K, w, d, t), NEW c \in BOOLEAN,
         NEW s, s = (IF c THEN <<Mark("usage")>> ELSE <<>>) \o <<Mark("done")>>, NEW q, q = d.reason
  PROVE  ChunkReads(K, d, s, w, t, r, q)
<1>1. PICK s1, s2 : s1 = (IF c THEN <<Mark("usage")>> ELSE <<>>) /\ s2 = <<Mark("done")>>
  OBVIOUS
<1>2. ChunkReads(K, d, s1, w, t, r, q)
  BY <1>1, ChunkUsage
<1>3. \A f : ChunkAt(K, w, f, t) /\ f.reason = q => ChunkReads(K, f, s2, w, t, r, q)
  BY <1>1, ChunkDone
<1>4. s = s1 \o s2
  BY <1>1
<1> QED
  BY ONLY <1>2, <1>3, <1>4, ChunkOn

LEMMA ChunkFinish ==
  ASSUME NEW K, NEW w, NEW d, NEW t, NEW r \in Reasons, ChunkAt(K, w, d, t), ~w.finished, NEW c \in BOOLEAN,
         NEW s, s = FinishChunks(w, c)
  PROVE  ChunkReads(K, d, s.events, s.writer, t, r, r) /\ s.writer.finished
<1>0. K \in SUBSET Tools /\ w \in Chunkers(K)
  BY DEF ChunkAt
<1>1. PICK s1, s2, s3 : /\ s1 = <<Mark("finish")>> /\ s2 = (IF c THEN <<Mark("usage")>> ELSE <<>>)
                        /\ s3 = <<Mark("done")>>
  OBVIOUS
<1>2. PICK v : v = [w EXCEPT !.finished = TRUE]
  OBVIOUS
<1>3. v \in Chunkers(K) /\ v.index = w.index /\ v.count = w.count /\ v.finished
  BY <1>0, <1>2 DEF Chunkers
<1>4. s.writer = v /\ s.events = (s1 \o s2) \o s3
  <2>1. s = Result(v, (s1 \o s2) \o s3)
    BY <1>1, <1>2 DEF FinishChunks
  <2> QED
    BY <2>1 DEF Result
<1>5. ChunkReads(K, d, s1, v, t, r, r)
  <2>1. PICK type \in {"start", "finish", "usage", "done"} : type = "finish"
    OBVIOUS
  <2>2. r = (IF type = "finish" THEN r ELSE d.reason) /\ s1 = <<Mark(type)>>
    BY <1>1, <2>1
  <2> QED
    BY <1>3, <2>2, ChunkMark
<1>6. \A f : ChunkAt(K, v, f, t) /\ f.reason = r => ChunkReads(K, f, s2, v, t, r, r)
  BY <1>1, ChunkUsage
<1>7. PICK s12 : s12 = s1 \o s2
  OBVIOUS
<1>8. ChunkReads(K, d, s12, v, t, r, r)
  BY <1>5, <1>6, <1>7, ChunkOn
<1>9. \A f : ChunkAt(K, v, f, t) /\ f.reason = r => ChunkReads(K, f, s3, v, t, r, r)
  BY <1>1, ChunkDone
<1>10. PICK e : e = s12 \o s3
  OBVIOUS
<1>11. ChunkReads(K, d, e, v, t, r, r)
  BY <1>8, <1>9, <1>10, ChunkOn
<1> QED
  BY <1>3, <1>4, <1>7, <1>10, <1>11

\* A client has all that was said, in terms of what was said of each holder.
Heard(d, t) == d.text = t[Text] /\ \A i \in DOMAIN d.blocks : d.blocks[i].who \in Tools => d.blocks[i].content = t[d.blocks[i].who]
HeardAll(d, K, t, h) ==
  /\ Heard(d, t)
  /\ {d.blocks[i].who : i \in DOMAIN d.blocks} \ {Text} = K
  /\ h => d.reason = "said"

LEMMA SpokeIsSaid == \A who \in Tools \cup {Text} : Spoke[who] = SaidBy(who) /\ Spoke'[who] = SaidBy(who)'
BY DEF Spoke

LEMMA HeardIsComplete ==
  ASSUME NEW d
  PROVE  /\ Heard(d, Spoke) => SaidOf(d)
         /\ Heard(d, Spoke') => SaidOf(d)'
         /\ HeardAll(d, Mentioned, Spoke, Has("reason")) => Complete(d)
         /\ HeardAll(d, Mentioned', Spoke', Has("reason")') => Complete(d)'
<1>1. Heard(d, Spoke) => SaidOf(d)
  BY SpokeIsSaid DEF Heard, SaidOf
<1>2. Heard(d, Spoke') => SaidOf(d)'
  BY SpokeIsSaid DEF Heard, SaidOf
<1>3. HeardAll(d, Mentioned, Spoke, Has("reason")) => Complete(d)
  BY <1>1 DEF HeardAll, Complete
<1>4. HeardAll(d, Mentioned', Spoke', Has("reason")') => Complete(d)'
  BY <1>2 DEF HeardAll, Complete
<1> QED
  BY <1>1, <1>2, <1>3, <1>4

LEMMA ChunkHeard ==
  ASSUME NEW K, NEW w, NEW d, NEW t, ChunkAt(K, w, d, t), NEW h, h => d.reason = "said"
  PROVE  HeardAll(d, K, t, h)
<1>1. K \in SUBSET Tools /\ w \in Chunkers(K) /\ Text \notin K
  BY ChunkerParts DEF ChunkAt
<1>2. Heard(d, t)
  BY DEF ChunkAt, Heard
<1>3. {d.blocks[i].who : i \in DOMAIN d.blocks} \ {Text} = K
  BY <1>1 DEF ChunkAt
<1> QED
  BY <1>2, <1>3 DEF HeardAll

\* What is known of a translator to chunks while its stream goes on.  Bedrock's tells the
\* reason at once, Anthropic's at the end, which comes once.
Reasoned(finished, q) == (bridge.up = "bedrock" \/ finished) /\ Has("reason") => q = "said"
DoneOnce(finished) == bridge.up = "anthropic" /\ finished => Has("done")
ChunkGoes(d) ==
  ChunkAt(Mentioned, writer, d, Spoke) /\ Reasoned(writer.finished, d.reason) /\ DoneOnce(writer.finished)

\* What a client reads of one utterance.
ChunkHears(u, r, q) ==
  /\ ChunkReads(Mentioned', client, todo', writer', Spoke', r, q)
  /\ u.what = "eof" => (Has("reason")' => q = "said")
  /\ u.what # "eof" => Reasoned(writer.finished, q)' /\ DoneOnce(writer.finished)'

LEMMA ChunkHeardMore ==
  ASSUME ChunkInv, bridge.to = "chunks", ChunkGoes(client), NEW u \in Utterances, Say(u)
  PROVE  \E q : ChunkHears(u, Reason', q)
<1>0. /\ said \in Seq(Utterances) /\ said' = Append(said, u)
      /\ UNCHANGED <<bridge, client>>
      /\ \A what : Has(what)' <=> Has(what) \/ u.what = what
      /\ Mentioned' = Mentioned \cup ({u.who} \ {Text})
      /\ Has("done") => u.what = "eof"
      /\ EventsMay(u) /\ u.what # "error"
      /\ bridge.up \in {"anthropic", "bedrock"} /\ bridge.usage \in BOOLEAN
  BY ChunkSaid DEF ChunkInv
<1>1. LET x == IF bridge.up = "anthropic" THEN AnthropicToChunks(u) ELSE BedrockToChunks(u)
      IN  writer' = x.writer /\ todo' = x.events
  BY ChunkSaid
<1>2. PICK K, t, r, L, v, w, q : /\ K = Mentioned /\ t = Spoke /\ r = Reason' /\ L = Mentioned' /\ v = Spoke'
                                 /\ w = writer /\ q = client.reason
  OBVIOUS
<1>3. PICK frags : frags = Frags(u)
  OBVIOUS
<1>4. /\ ChunkAt(K, w, client, t) /\ r \in Reasons /\ K \in SUBSET Tools /\ w \in Chunkers(K)
      /\ Reasoned(w.finished, q) /\ DoneOnce(w.finished)
  BY <1>0, <1>2, ReasonMore DEF ChunkGoes, ChunkAt
<1>5. /\ v = [t EXCEPT ![u.who] = t[u.who] \o frags] /\ (frags = <<>> => v = t) /\ frags \in Seq(Nat)
      /\ frags = IF u.args THEN <<Len(said) + 1>> ELSE <<>>
  BY <1>0, <1>2, <1>3, SpokeMore DEF Frags
<1>6. /\ u.what \in Plain \cup {"text", "call"} /\ u.named \in BOOLEAN /\ u.args \in BOOLEAN
      /\ u.what # "call" => u.who = Text
      /\ u.what = "text" => u.args
      /\ u.what = "call" => u.who \in Tools
      /\ u.what \notin {"text", "call"} => ~u.args
  BY UtteranceKinds DEF Utterances
<1>7. u.what # "call" => L = K
  BY <1>0, <1>2, <1>6
<1>8. u.args => frags # <<>>
  BY <1>5
<1>9. ~u.args => v = t
  BY <1>5
<1> SUFFICES \E p : /\ ChunkReads(L, client, todo', writer', v, r, p)
                    /\ u.what = "eof" => (Has("reason")' => p = "said")
                    /\ u.what # "eof" => Reasoned(writer.finished, p)' /\ DoneOnce(writer.finished)'
  BY <1>2 DEF ChunkHears
\* Nothing but the translator's answer has to be looked at, when it says no more of the end.
<1>10. ASSUME u.what \notin {"done", "eof", "reason"}, ChunkReads(L, client, todo', writer', v, r, q),
              writer'.finished = w.finished
       PROVE  /\ ChunkReads(L, client, todo', writer', v, r, q)
              /\ Reasoned(writer.finished, q)' /\ DoneOnce(writer.finished)'
  BY <1>0, <1>4, <1>10 DEF Reasoned, DoneOnce
<1>11. CASE u.what = "start"
  <2>1. todo' = <<Mark("start")>> /\ writer' = w
    BY <1>1, <1>2, <1>11 DEF AnthropicToChunks, BedrockToChunks, Result
  <2>2. PICK type \in {"start", "finish", "usage", "done"} : type = "start"
    OBVIOUS
  <2>3. PICK s : s = <<Mark(type)>>
    OBVIOUS
  <2>4. q = IF type = "finish" THEN r ELSE client.reason
    BY <1>2, <2>2
  <2>5. ChunkReads(K, client, s, w, t, r, q)
    BY <1>4, <2>3, <2>4, ChunkMark
  <2> QED
    BY <1>6, <1>7, <1>9, <1>10, <1>11, <2>1, <2>2, <2>3, <2>5
<1>12. CASE u.what = "text"
  <2>1. frags # <<>> /\ u.who = Text /\ L = K
    BY <1>6, <1>7, <1>8, <1>12
  <2>2. PICK s : s = <<Event("fill", None, Text, frags)>>
    OBVIOUS
  <2>3. todo' = s /\ writer' = w
    BY <1>1, <1>2, <1>3, <1>12, <2>1, <2>2 DEF AnthropicToChunks, BedrockToChunks, Result, Fill
  <2>4. ChunkReads(K, client, s, w, v, r, q)
    <3>1. Adds(t, v, Text, frags) /\ q = client.reason
      BY <1>2, <1>5, <2>1 DEF Adds
    <3> QED
      BY ONLY <1>4, <1>5, <2>2, <3>1, ChunkText
  <2> QED
    BY <1>10, <1>12, <2>1, <2>3, <2>4
<1>13. CASE u.what = "call" /\ u.named
  <2>1. PICK k \in Tools : k = u.who
    BY <1>6, <1>13
  <2>2. k \notin K /\ ~u.args
    <3>1. u.named # u.args /\ \A j \in K : j < k
      BY <1>0, <1>2, <1>13, <2>1 DEF EventsMay
    <3>2. k \in Nat
      BY <2>1, ToolsAssumption
    <3>3. k \notin K
      BY ONLY <3>1, <3>2
    <3>4. ~u.args
      BY ONLY <1>6, <1>13, <3>1
    <3> QED
      BY <3>3, <3>4
  <2>3. t[k] = <<>> /\ v = t /\ L = K \cup {k}
    <3>1. k # Text
      BY ToolsAssumption DEF Text
    <3> QED
      BY <1>0, <1>2, <1>9, <2>1, <2>2, <3>1, SpokeType
  <2>4. PICK s : s = WriteToolStart(w, k)
    OBVIOUS
  <2>5. todo' = s.events /\ writer' = s.writer
    BY <1>1, <1>2, <1>13, <2>1, <2>4 DEF AnthropicToChunks, BedrockToChunks
  <2>6. ChunkReads(L, client, s.events, s.writer, t, r, q) /\ s.writer.finished = w.finished
    <3>1. q = client.reason /\ Fresh(K, L, t, k)
      BY <1>2, <2>2, <2>3 DEF Fresh
    <3> QED
      BY ONLY <1>4, <2>4, <3>1, ChunkToolStarts
  <2> QED
    BY <1>10, <1>13, <2>3, <2>5, <2>6
<1>14. CASE u.what = "call" /\ ~u.named
  <2>1. PICK k \in Tools : k = u.who
    BY <1>6, <1>14
  <2>2. u.args /\ k \in K /\ L = K
    <3>1. u.args /\ said # <<>> /\ said[Len(said)].who = k /\ k # Text
      BY <1>0, <1>6, <1>14, <2>1, ToolsAssumption DEF EventsMay, Text
    <3>2. Len(said) \in DOMAIN said
      BY <1>0, <3>1
    <3>3. k \in K
      BY <1>2, <3>1, <3>2 DEF Mentioned
    <3> QED
      BY <1>0, <1>2, <2>1, <3>1, <3>3
  <2>3. PICK s : s = WriteToolInput(w, k, frags)
    OBVIOUS
  <2>4. todo' = s.events /\ writer' = s.writer
    BY <1>1, <1>2, <1>3, <1>14, <2>1, <2>3 DEF AnthropicToChunks, BedrockToChunks
  <2>5. ChunkReads(K, client, s.events, s.writer, v, r, q) /\ s.writer = w
    <3>1. frags # <<>> /\ frags \in Seq(Nat) /\ Adds(t, v, k, frags)
      BY <1>5, <1>8, <2>1, <2>2 DEF Adds
    <3>2. q = client.reason
      BY <1>2
    <3> QED
      BY ONLY <1>4, <2>2, <2>3, <3>1, <3>2, ChunkInput
  <2> QED
    BY <1>10, <1>14, <2>2, <2>4, <2>5
<1>15. CASE bridge.up = "anthropic" /\ u.what \in {"done", "eof"}
  <2>1. v = t /\ L = K
    BY <1>6, <1>7, <1>9, <1>15
  <2>2. PICK s : s = FinishChunks(w, bridge.usage)
    OBVIOUS
  <2>3. todo' = s.events /\ writer' = s.writer
    BY <1>1, <1>2, <1>15, <2>2 DEF AnthropicToChunks
  <2>4. CASE w.finished
    <3>1. s.events = <<>> /\ s.writer = w
      BY <2>2, <2>4 DEF FinishChunks, Result
    <3>2. ChunkReads(K, client, s.events, w, t, r, q)
      BY <1>2, <1>4, <3>1, ChunkNothing
    <3>3. u.what = "eof" /\ (Has("reason")' => q = "said")
      BY <1>0, <1>4, <1>15, <2>4 DEF DoneOnce, Reasoned
    <3> QED
      BY <2>1, <2>3, <3>1, <3>2, <3>3
  <2>5. CASE ~w.finished
    <3>1. ChunkReads(K, client, s.events, s.writer, t, r, r) /\ s.writer.finished
      BY <1>0, <1>4, <2>2, <2>5, ChunkFinish
    <3>2. Has("reason")' => r = "said"
      BY <1>0, <1>2, ReasonMore
    <3>3. u.what # "eof" => Reasoned(writer.finished, r)' /\ DoneOnce(writer.finished)'
      <4>1. Reasoned(writer.finished, r)'
        BY <3>2 DEF Reasoned
      <4>2. u.what # "eof" => Has("done")'
        BY <1>0, <1>15
      <4> QED
        BY <4>1, <4>2 DEF DoneOnce
    <3> QED
      BY <2>1, <2>3, <3>1, <3>2, <3>3
  <2> QED
    BY <2>4, <2>5
<1>16. CASE bridge.up = "bedrock" /\ u.what = "reason"
  <2>1. v = t /\ L = K
    BY <1>6, <1>7, <1>9, <1>16
  <2>2. PICK type \in {"start", "finish", "usage", "done"} : type = "finish"
    OBVIOUS
  <2>3. PICK s : s = <<Mark(type)>>
    OBVIOUS
  <2>4. todo' = s /\ writer' = w
    BY <1>1, <1>2, <1>16, <2>2, <2>3 DEF BedrockToChunks, Result
  <2>5. ChunkReads(K, client, s, w, t, r, r)
    <3>1. r = IF type = "finish" THEN r ELSE client.reason
      BY <2>2
    <3> QED
      BY <1>4, <2>3, <3>1, ChunkMark
  <2>6. Reasoned(writer.finished, r)' /\ DoneOnce(writer.finished)'
    <3>1. r = "said"
      BY <1>0, <1>2, <1>16, ReasonMore
    <3> QED
      BY <1>0, <1>16, <3>1 DEF Reasoned, DoneOnce
  <2> QED
    BY <1>16, <2>1, <2>4, <2>5, <2>6
<1>17. CASE bridge.up = "bedrock" /\ u.what = "eof"
  <2>1. v = t /\ L = K
    BY <1>6, <1>7, <1>9, <1>17
  <2>2. PICK s, c : s = (IF c THEN <<Mark("usage")>> ELSE <<>>) \o <<Mark("done")>> /\ c = bridge.usage
    OBVIOUS
  <2>3. todo' = s /\ writer' = w
    BY <1>1, <1>2, <1>17, <2>2 DEF BedrockToChunks, Result
  <2>4. ChunkReads(K, client, s, w, t, r, q)
    BY <1>0, <1>2, <1>4, <2>2, ChunkLast
  <2>5. Has("reason")' => q = "said"
    BY <1>0, <1>4, <1>17 DEF Reasoned
  <2> QED
    BY <1>17, <2>1, <2>3, <2>4, <2>5
<1>18. CASE \/ u.what \in {"thought", "usage"}
            \/ bridge.up = "anthropic" /\ u.what = "reason"
  <2>1. v = t /\ L = K
    BY <1>6, <1>7, <1>9, <1>18
  <2>2. todo' = <<>> /\ writer' = w
    BY <1>1, <1>2, <1>18 DEF AnthropicToChunks, BedrockToChunks, Result
  <2>3. ChunkReads(K, client, todo', w, t, r, q)
    BY <1>2, <1>4, <2>2, ChunkNothing
  <2>4. Reasoned(writer.finished, q)' /\ DoneOnce(writer.finished)'
    BY <1>0, <1>4, <1>18, <2>2 DEF Reasoned, DoneOnce
  <2> QED
    BY <1>18, <2>1, <2>2, <2>3, <2>4
<1>19. ~(bridge.up = "bedrock" /\ u.what = "done")
  BY <1>0 DEF EventsMay
<1> QED
  BY <1>0, <1>6, <1>11, <1>12, <1>13, <1>14, <1>15, <1>16, <1>17, <1>18, <1>19 DEF Plain

-----------------------------------------------------------------------------
\* What is known of a translator to messages while its stream goes on.
Orderly == ~Nameless
NamesStarted ==
  \A k \in Mentioned : k \in Named \/ bridge.up = "bedrock" => Started(writer, k)
MessageGoes(d) ==
  /\ At(Mentioned, writer, d, Spoke, {}, TRUE, Reason, Orderly)
  /\ InOrder(writer, Mentioned) /\ NamesStarted

LEMMA OrderGrows ==
  ASSUME NEW K \in SUBSET Tools, NEW w \in Writers(K), InOrder(w, K), NEW k \in Tools, NEW v,
         OrderAfter(w, v, K, k), NEW L, L = K \cup {k}
  PROVE  InOrder(v, L)
<1>1. CASE k \in K
  <2>1. L = K /\ v.order = w.order
    BY <1>1 DEF OrderAfter
  <2> QED
    BY <2>1 DEF InOrder
<1>2. CASE k \notin K
  <2>1. PICK s, n : s = w.order /\ n = Len(w.order) + 1
    OBVIOUS
  <2>2. s \in Seq(Tools)
    BY <2>1, WriterParts
  <2>3. PICK p : p = v.order
    OBVIOUS
  <2>4. p = Append(s, k)
    BY <1>2, <2>1, <2>3 DEF OrderAfter
  <2>5. /\ DOMAIN p = DOMAIN s \cup {n} /\ n \notin DOMAIN s /\ p[n] = k
        /\ \A i \in DOMAIN s : p[i] = s[i]
    BY <2>1, <2>2, <2>4, Appended
  <2>6. \A i, j \in DOMAIN s : s[i] = s[j] => i = j
    BY <2>1 DEF InOrder
  <2>7. K = {s[i] : i \in DOMAIN s}
    BY <2>1 DEF InOrder
  <2>8. \A i, j \in DOMAIN p : p[i] = p[j] => i = j
    <3> SUFFICES ASSUME NEW i \in DOMAIN p, NEW j \in DOMAIN p, p[i] = p[j] PROVE i = j
      OBVIOUS
    <3>1. \A l \in DOMAIN s : p[l] # k
      BY <1>2, <2>5, <2>7
    <3> QED
      BY <2>5, <2>6, <3>1
  <2>9. L = {p[i] : i \in DOMAIN p}
    BY <2>5, <2>7
  <2> QED
    BY <2>3, <2>8, <2>9 DEF InOrder
<1> QED
  BY <1>1, <1>2

LEMMA NamedMore ==
  ASSUME said \in Seq(Utterances), NEW u \in Utterances, said' = Append(said, u)
  PROVE  /\ \A k \in Named' : k \in Named \/ (u.named /\ k = u.who)
         /\ \A k \in Tools : k \in Named => k \in Mentioned
<1>1. /\ DOMAIN said' = 1..(Len(said) + 1) /\ said'[Len(said) + 1] = u /\ DOMAIN said = 1..Len(said)
      /\ \A i \in 1..Len(said) : said'[i] = said[i]
  OBVIOUS
<1>2. \A k \in Named' : k \in Named \/ (u.named /\ k = u.who)
  <2> SUFFICES ASSUME NEW i \in DOMAIN said', said'[i].named
               PROVE  said'[i].who \in Named \/ (u.named /\ said'[i].who = u.who)
    BY DEF Named
  <2>1. CASE i = Len(said) + 1
    BY <1>1, <2>1
  <2>2. CASE i # Len(said) + 1
    <3>1. i \in DOMAIN said /\ said'[i] = said[i]
      BY <1>1, <2>2
    <3> QED
      BY <3>1 DEF Named
  <2> QED
    BY <2>1, <2>2
<1>3. \A k \in Tools : k \in Named => k \in Mentioned
  BY ToolsAssumption DEF Named, Mentioned, Text
<1> QED
  BY <1>2, <1>3

\* What was read, when the writer matches.
LEMMA MatchHeard ==
  ASSUME NEW K, NEW w, NEW d, NEW t, NEW C, NEW z, NEW r, NEW g, At(K, w, d, t, C, z, r, g)
  PROVE  Heard(d, t)
<1>1. Text \notin Tools
  BY ToolsAssumption DEF Text
<1> QED
  BY <1>1 DEF At, Match, ToolsIn, Heard

LEMMA AllHeardOf ==
  ASSUME NEW f, NEW K, NEW t, NEW r, HasAll(f, K, t, r), NEW h, h => r = "said"
  PROVE  HeardAll(f, K, t, h)
<1>1. Text \notin Tools
  BY ToolsAssumption DEF Text
<1> QED
  BY <1>1 DEF HasAll, Heard, HeardAll

\* What a client reads of one utterance.
MessageHears(u, f) ==
  /\ Path(client, todo', f, Reason', Orderly) /\ Heard(f, Spoke')
  /\ closing' => HeardAll(f, Mentioned', Spoke', Has("reason")')
  /\ ~closing' => MessageGoes(f)'

LEMMA MessageHeardMore ==
  ASSUME said \in Seq(Utterances), bridge.to = "message", bridge.up \in {"openai", "bedrock"},
         MessageGoes(client), NEW u \in Utterances, Say(u)
  PROVE  \E f : MessageHears(u, f)
<1>0. /\ said' = Append(said, u) /\ UNCHANGED <<bridge, client>> /\ UpstreamMay(u)
      /\ \A what : Has(what)' <=> Has(what) \/ u.what = what
      /\ Mentioned' = Mentioned \cup ({u.who} \ {Text})
      /\ closing' = Ending(u)
      /\ writer' = ToMessage(u).writer /\ todo' = ToMessage(u).events
  BY SaidMore DEF Say, Translate
<1>1. PICK K, t, r0, r, L, v, w, C, z, g :
        /\ K = Mentioned /\ t = Spoke /\ r0 = Reason /\ r = Reason' /\ L = Mentioned' /\ v = Spoke'
        /\ w = writer /\ C = {} /\ z = TRUE /\ g = Orderly
  OBVIOUS
<1>2. /\ At(K, w, client, t, C, z, r0, g) /\ InOrder(w, K)
  BY <1>1 DEF MessageGoes
<1>3. At(K, w, client, t, C, z, r, g)
  <2>1. r \in Reasons
    BY <1>0, <1>1, ReasonMore
  <2> QED
    BY <1>2, <2>1 DEF At
<1>4. PICK frags : frags = Frags(u)
  OBVIOUS
<1>5. /\ v = [t EXCEPT ![u.who] = t[u.who] \o frags] /\ (frags = <<>> => v = t) /\ frags \in Seq(Nat)
      /\ frags = IF u.args THEN <<Len(said) + 1>> ELSE <<>>
  BY <1>0, <1>1, <1>4, SpokeMore DEF Frags
<1>6. /\ u.what \in Plain \cup {"text", "call"} /\ u.named \in BOOLEAN /\ u.args \in BOOLEAN
      /\ u.what # "call" => u.who = Text
      /\ u.what = "text" => u.args
      /\ u.what = "call" => u.who \in Tools
      /\ u.what \notin {"text", "call"} => ~u.args
      /\ u.what # "call" => ~u.named
  BY UtteranceKinds DEF Utterances
<1>7. u.what # "call" => L = K
  BY <1>0, <1>1, <1>6
<1>8. ~u.args => v = t
  BY <1>5
<1>9. K \in SUBSET Tools /\ w \in Writers(K)
  BY <1>2 DEF At
<1>10. \A k \in K : k \in Named \/ bridge.up = "bedrock" => Started(w, k)
  BY <1>1 DEF MessageGoes, NamesStarted
<1>11. \A k \in Named' : k \in Named \/ (u.named /\ k = u.who)
  BY <1>0, NamedMore
\* It is enough to know what the client reads when the stream goes on.
<1>12. ASSUME ~closing', Reads(L, client, todo', writer', v, C, z, r, g), InOrder(writer', L),
              \A k \in L : k \in Named' \/ bridge.up = "bedrock" => Started(writer', k)
       PROVE  \E f : MessageHears(u, f)
  <2>1. PICK f : Path(client, todo', f, r, g) /\ At(L, writer', f, v, C, z, r, g)
    BY <1>12 DEF Reads
  <2>2. Heard(f, v)
    BY <2>1, MatchHeard
  <2>3. MessageGoes(f)'
    <3>1. At(Mentioned', writer', f, Spoke', {}, TRUE, Reason', Orderly)
      BY <1>1, <2>1
    <3>2. NamesStarted'
      BY <1>0, <1>1, <1>12 DEF NamesStarted
    <3>3. Orderly' = Orderly
      BY DEF Orderly
    <3> QED
      BY <1>1, <1>12, <3>1, <3>2, <3>3 DEF MessageGoes
  <2> QED
    BY <1>1, <1>12, <2>1, <2>2, <2>3 DEF MessageHears
<1>13. CASE u.what = "text"
  <2>1. ~closing' /\ L = K /\ frags = <<Len(said) + 1>>
    BY <1>0, <1>5, <1>6, <1>7, <1>13 DEF Ending
  <2>2. PICK n \in Nat : n = Len(said) + 1
    OBVIOUS
  <2>3. PICK s : s = WriteTextDelta(w, n)
    OBVIOUS
  <2>4. todo' = s.events /\ writer' = s.writer
    BY <1>0, <1>1, <1>13, <2>2, <2>3 DEF ToMessage
  <2>5. /\ Reads(K, client, s.events, s.writer, v, C, z, r, g)
        /\ s.writer.order = w.order /\ s.writer.tools = w.tools
    <3>1. Adds(t, v, Text, frags) /\ TextWritten(w, s, n, frags) /\ z
      BY <1>1, <1>5, <1>6, <1>13, <2>1, <2>2, <2>3 DEF Adds, TextWritten
    <3>2. Reads(K, client, s.events, s.writer, v, C, z, r, g) /\ SameTools(w, s.writer)
      BY ONLY <1>3, <3>1, WritesText
    <3> QED
      BY <3>2 DEF SameTools
  <2>6. InOrder(s.writer, K)
    BY <1>2, <2>5 DEF InOrder
  <2>7. \A k \in K : k \in Named' \/ bridge.up = "bedrock" => Started(s.writer, k)
    BY <1>6, <1>10, <1>11, <1>13, <2>5 DEF Started
  <2> QED
    BY <1>1, <1>12, <2>1, <2>4, <2>5, <2>6, <2>7
<1>14. CASE u.what = "call"
  <2>1. PICK k \in Tools, named \in BOOLEAN : k = u.who /\ named = (u.named \/ bridge.up = "bedrock")
    BY <1>6, <1>14
  <2>2. ~closing' /\ L = K \cup {k} /\ (k \notin K => t[k] = <<>>)
    <3>1. k # Text
      BY ToolsAssumption DEF Text
    <3>2. k \notin K => t[k] = <<>>
      BY <1>1, SpokeType
    <3> QED
      BY <1>0, <1>1, <1>14, <2>1, <3>1, <3>2 DEF Ending
  <2>3. PICK s : s = WriteToolCallDelta(w, k, named, frags)
    OBVIOUS
  <2>4. todo' = s.events /\ writer' = s.writer
    BY <1>0, <1>1, <1>4, <1>14, <2>1, <2>3 DEF ToMessage
  <2>5. /\ Reads(L, client, s.events, s.writer, v, C, z, r, g)
        /\ OrderAfter(w, s.writer, K, k)
        /\ named => Started(s.writer, k)
        /\ Kept(K, w, s.writer)
    <3>1. Adds(t, v, k, frags) /\ C = {} /\ z /\ frags \in Seq(Nat)
      BY <1>1, <1>5, <2>1 DEF Adds
    <3>2. CallAsked(K, L, w, t, s, v, C, z, k, named, frags)
      BY ONLY <2>1, <2>2, <2>3, <3>1 DEF CallAsked
    <3>3. CallReads(K, L, w, client, s, v, C, z, r, g, k, named)
      BY ONLY <1>3, <3>2, WritesCall
    <3> QED
      BY <3>3 DEF CallReads
  <2>6. InOrder(s.writer, L)
    BY <1>2, <1>9, <2>2, <2>5, OrderGrows
  <2>7. \A j \in L : j \in Named' \/ bridge.up = "bedrock" => Started(s.writer, j)
    <3> SUFFICES ASSUME NEW j \in L, j \in Named' \/ bridge.up = "bedrock" PROVE Started(s.writer, j)
      OBVIOUS
    <3>1. CASE j = k /\ named
      BY <2>5, <3>1
    <3>2. CASE j # k \/ ~named
      <4>1. j \in Named \/ bridge.up = "bedrock"
        BY <1>11, <2>1, <3>2
      <4>2. j \in K
        BY <1>0, <1>1, <2>1, <2>2, <3>2, <4>1, NamedMore
      <4>3. Started(w, j)
        BY <1>10, <4>1, <4>2
      <4> QED
        BY <2>5, <4>2, <4>3 DEF Kept
    <3> QED
      BY <3>1, <3>2
  <2> QED
    BY <1>12, <2>2, <2>4, <2>5, <2>6, <2>7
<1>15. CASE u.what \in {"done", "eof"}
  <2>1. closing'
    <3>1. u.what = "done" => bridge.up = "openai"
      BY <1>0 DEF UpstreamMay, EventsMay
    <3> QED
      BY <1>0, <1>15, <3>1 DEF Ending
  <2>2. v = t /\ L = K
    BY <1>6, <1>7, <1>8, <1>15
  <2>3. PICK s : s = FinishMessage(w)
    OBVIOUS
  <2>4. todo' = s.events
    BY <1>0, <1>1, <1>15, <2>3 DEF ToMessage
  <2>5. g => AllStarted(w, K)
    BY <1>0, <1>1, <1>10, <1>15 DEF UpstreamMay, Orderly, AllStarted
  <2>6. Ends(K, client, s.events, t, r, g)
    <3>1. C = {} /\ z
      BY <1>1
    <3> QED
      BY ONLY <1>2, <1>3, <2>3, <2>5, <3>1, FinishesMessage
  <2>7. PICK f : Path(client, s.events, f, r, g) /\ HasAll(f, K, t, r)
    BY <2>6 DEF Ends
  <2>8. PICK h : h = Has("reason")'
    OBVIOUS
  <2>9. HeardAll(f, K, t, h)
    <3>1. h => r = "said"
      BY <1>0, <1>1, <2>8, ReasonMore
    <3> QED
      BY <2>7, <3>1, AllHeardOf
  <2> QED
    BY <1>1, <2>1, <2>2, <2>4, <2>7, <2>8, <2>9 DEF MessageHears, HeardAll
<1>16. CASE u.what \in {"start", "thought", "reason", "usage", "error"}
  <2>1. ~closing' /\ v = t /\ L = K
    BY <1>0, <1>6, <1>7, <1>8, <1>16 DEF Ending
  <2>2. todo' = <<>> /\ writer' = w
    BY <1>0, <1>1, <1>16 DEF ToMessage, Result
  <2>3. Reads(K, client, todo', w, t, C, z, r, g)
    BY <1>3, <2>2, ReadsNothing
  <2>4. \A k \in K : k \in Named' \/ bridge.up = "bedrock" => Started(w, k)
    BY <1>6, <1>10, <1>11, <1>16
  <2> QED
    BY <1>2, <1>12, <2>1, <2>2, <2>3, <2>4
<1> QED
  BY <1>6, <1>13, <1>14, <1>15, <1>16 DEF Plain

-----------------------------------------------------------------------------
\* Every state: the way from what the client has to all that was said.
Strict == bridge.to = "message" /\ Orderly
Goes(d) == (bridge.to = "message" => MessageGoes(d)) /\ (bridge.to = "chunks" => ChunkGoes(d))
Promised(d) ==
  /\ Path(client, todo, d, Reason, Strict)
  /\ SaidOf(d)
  /\ closing => Complete(d)
  /\ ~closing => Goes(d)
Untouched == client = NoClient /\ writer = NewWriter /\ said = <<>> /\ todo = <<>> /\ ~closing
StreamInv ==
  bridge.to # "copy" =>
    /\ bridge.to \in {"message", "chunks"}
    /\ bridge.to = "message" => bridge.up \in {"openai", "bedrock"}
    /\ said \in Seq(Utterances) /\ client \in Readers
    /\ pc \in {"call", "stream", "ended"}
    /\ pc = "call" => Untouched
    /\ pc = "stream" => \E d : Promised(d)
    /\ pc # "ended" => outcome.end # "done"
    /\ pc = "ended" => PrefixesOnly /\ (outcome.end = "done" => Complete(client))

LEMMA NoClientReads ==
  NoClient \in Readers /\ DOMAIN NoClient.blocks = {} /\ Len(NoClient.blocks) = 0 /\ NoClient.text = <<>>
  /\ NoClient.frame = <<>> /\ NoClient.reason = "none"
<1>1. PICK e, r : e = <<>> /\ r = "none"
  OBVIOUS
<1>2. e \in Seq(FrameMarks) /\ e \in Seq(Blocks) /\ e \in Seq(Nat) /\ DOMAIN e = {} /\ Len(e) = 0
  BY <1>1
<1>3. r \in Reasons
  BY <1>1 DEF Reasons
<1>4. NoClient = [frame |-> e, blocks |-> e, text |-> e, reason |-> r]
  BY <1>1 DEF NoClient
<1>5. OwnBlocks(e) /\ Numbers(e)
  BY <1>2 DEF OwnBlocks, Numbers
<1>6. NoClient \in Readers
  BY <1>2, <1>3, <1>4, <1>5, ReaderMade
<1> QED
  BY <1>1, <1>2, <1>4, <1>6

\* Nothing was said yet.
LEMMA SilenceSaid ==
  ASSUME said = <<>>
  PROVE  /\ said \in Seq(Utterances) /\ Mentioned = {} /\ \A what : ~Has(what)
         /\ Spoke \in Sayings /\ \A who \in Tools \cup {Text} : Spoke[who] = <<>> /\ SaidBy(who) = <<>>
<1>1. said \in Seq(Utterances) /\ DOMAIN said = {}
  OBVIOUS
<1>2. Mentioned = {} /\ \A what : ~Has(what)
  BY <1>1 DEF Mentioned, Has
<1>3. ASSUME NEW who \in Tools \cup {Text} PROVE SaidBy(who) = <<>>
  <2>1. Silent(Parts(said, who))
    BY <1>1 DEF Silent, Parts
  <2> QED
    BY <1>1, <2>1, PartsType, FlattenSilent
<1> QED
  BY <1>1, <1>2, <1>3, SpokeType

LEMMA UntouchedPrefixes ==
  ASSUME Untouched
  PROVE  PrefixesOnly
<1>1. client \in Readers /\ DOMAIN client.blocks = {} /\ client.text = <<>>
  BY NoClientReads DEF Untouched
<1>2. \A k \in Tools : HeardOf(k) = <<>> /\ SaidBy(k) = <<>>
  BY <1>1, NotHeard, SilenceSaid DEF Untouched
<1>3. SaidBy(Text) = <<>>
  BY SilenceSaid DEF Untouched
<1>4. \A who : SaidBy(who) \in Seq(Nat)
  BY SilenceSaid, SaidByType DEF Untouched
<1>5. \A who : IsPrefix(<<>>, SaidBy(who))
  BY <1>4, PrefixOf
<1> QED
  BY <1>1, <1>2, <1>3, <1>5 DEF PrefixesOnly

LEMMA PromisedPrefixes ==
  ASSUME said \in Seq(Utterances), client \in Readers, NEW d, Promised(d)
  PROVE  PrefixesOnly
<1>1. d \in Readers
  BY PathType DEF Promised
<1>2. Reason \in Reasons
  BY DEF Reason, Reasons
<1>3. Grew(client, d)
  BY <1>2, PathGrows DEF Promised
<1> QED
  BY <1>1, <1>3, StillPrefixes DEF Promised

LEMMA StreamsPrefixes ==
  ASSUME StreamInv, bridge.to # "copy"
  PROVE  PrefixesOnly
BY UntouchedPrefixes, PromisedPrefixes DEF StreamInv

LEMMA StreamInvLosesNothing == StreamInv => NothingLost
<1> SUFFICES ASSUME StreamInv, bridge.to # "copy"
             PROVE  /\ IsPrefix(client.text, SaidBy(Text))
                    /\ \A k \in Tools : IsPrefix(HeardOf(k), SaidBy(k))
                    /\ outcome.end = "done" =>
                         /\ client.text = SaidBy(Text)
                         /\ \A k \in Tools : HeardOf(k) = SaidBy(k)
                         /\ {client.blocks[i].who : i \in DOMAIN client.blocks} \ {Text} = Mentioned
                         /\ Has("reason") => client.reason = "said"
  BY DEF NothingLost
<1>1. PrefixesOnly
  BY StreamsPrefixes
<1>2. ASSUME outcome.end = "done" PROVE Complete(client) /\ \A k \in Tools : HeardOf(k) = SaidBy(k)
  <2>1. Complete(client) /\ said \in Seq(Utterances) /\ client \in Readers
    BY <1>2 DEF StreamInv
  <2> QED
    BY <2>1, AllHeard
<1> QED
  BY <1>1, <1>2 DEF PrefixesOnly, Complete, SaidOf

\* The beginning of a stream.
LEMMA NoWriter ==
  ASSUME NEW t \in Sayings, \A who \in Tools \cup {Text} : t[who] = <<>>
  PROVE  /\ ChunkAt({}, NewChunkWriter, NoClient, t)
         /\ \A r \in Reasons, g \in BOOLEAN, d \in Readers :
              DOMAIN d.blocks = {} /\ d.text = <<>> /\ Len(d.blocks) = 0 /\ Begun(d, g)
              => At({}, NewMessageWriter, d, t, {}, TRUE, r, g)
         /\ InOrder(NewMessageWriter, {})
<1>1. PICK e : e = <<>>
  OBVIOUS
<1>2. DOMAIN e = {} /\ e \in Seq(Tools) /\ e \in [{} -> Nat] /\ e \in [{} -> Slots]
  <2>1. DOMAIN e = {} /\ e \in Seq(Tools)
    BY <1>1
  <2>2. e = [x \in {} |-> x]
    BY <1>1
  <2> QED
    BY <2>1, <2>2
<1>3. NewChunkWriter = [index |-> e, count |-> 0, finished |-> FALSE]
  BY <1>1 DEF NewChunkWriter
<1>4. NewChunkWriter \in Chunkers({}) /\ NewChunkWriter.count = 0 /\ NewChunkWriter.index = e
  BY <1>2, <1>3 DEF Chunkers
<1>5. ChunkAt({}, NewChunkWriter, NoClient, t)
  BY <1>4, NoClientReads DEF ChunkAt
<1>6. NewMessageWriter = [next |-> 0, text |-> None, tools |-> e, order |-> e]
  BY <1>1 DEF NewMessageWriter
<1>7. PICK w : w = NewMessageWriter
  OBVIOUS
<1>8. w \in Writers({}) /\ w.next = 0 /\ w.text = None /\ w.tools = e /\ w.order = e /\ DOMAIN w.tools = {}
  BY <1>2, <1>6, <1>7 DEF Writers, None
<1>9. InOrder(w, {})
  BY <1>2, <1>8 DEF InOrder
<1>10. ASSUME NEW r \in Reasons, NEW g \in BOOLEAN, NEW d \in Readers,
              DOMAIN d.blocks = {}, d.text = <<>>, Len(d.blocks) = 0, Begun(d, g)
       PROVE  At({}, w, d, t, {}, TRUE, r, g)
  <2>1. Match(w, d, t, {}, TRUE, g)
    BY <1>8, <1>10 DEF Match, TextAt, OneText, ToolsAt, Waiting, ToolsIn
  <2> QED
    BY <1>8, <2>1 DEF At
<1> QED
  BY <1>5, <1>7, <1>9, <1>10

LEMMA StreamStarts == Init => StreamInv
<1> SUFFICES ASSUME Init, bridge.to # "copy" PROVE StreamInv
  BY DEF StreamInv
<1>1. bridge.to \in {"message", "chunks"} /\ (bridge.to = "message" => bridge.up \in {"openai", "bedrock"})
  <2>1. PICK b \in Bridges, c \in BOOLEAN : bridge = [up |-> b.up, to |-> b.to, usage |-> c]
    BY DEF Init
  <2>2. b \in AllBridges /\ bridge.up = b.up /\ bridge.to = b.to
    BY <2>1, BridgesAssumption
  <2> QED
    BY <2>2 DEF AllBridges
<1>2. Untouched /\ pc = "call" /\ outcome.end # "done"
  BY DEF Init, Untouched, Undecided
<1>3. said \in Seq(Utterances) /\ client \in Readers
  BY <1>2, SilenceSaid, NoClientReads DEF Untouched
<1> QED
  BY <1>1, <1>2, <1>3 DEF StreamInv

LEMMA StreamAccepts ==
  ASSUME StreamInv, bridge.to # "copy", Accept
  PROVE  \E d : Promised(d)'
<1>1. /\ Untouched /\ UNCHANGED <<bridge, said, writer, closing, client>>
      /\ todo' = IF bridge.to = "message" THEN <<Mark("start")>> ELSE <<>>
      /\ bridge.to \in {"message", "chunks"}
  BY DEF Accept, StreamInv
<1>2. PICK t, r, g, c : t = Spoke /\ r = Reason /\ g = Strict /\ c = NoClient
  OBVIOUS
<1>3. /\ t \in Sayings /\ \A who \in Tools \cup {Text} : t[who] = <<>>
      /\ said \in Seq(Utterances) /\ Mentioned = {} /\ \A what : ~Has(what)
  BY <1>1, <1>2, SilenceSaid DEF Untouched
<1>4. r \in Reasons /\ g \in BOOLEAN
  BY <1>2 DEF Reason, Reasons, Strict
<1>5. /\ Spoke' = t /\ Mentioned' = {} /\ Reason' = r /\ \A what : ~Has(what)' /\ Named' = Named
  BY <1>1, <1>2, <1>3, SpokeSame
<1>6. Strict' = g /\ Orderly' = Orderly
  BY <1>1, <1>2 DEF Strict, Orderly
<1>7. client' = c /\ c \in Readers /\ c.frame = <<>> /\ DOMAIN c.blocks = {} /\ c.text = <<>> /\ Len(c.blocks) = 0
  BY <1>1, <1>2, NoClientReads DEF Untouched
<1>8. CASE bridge.to = "message"
  <2>1. PICK type \in FrameMarks : type = "start"
    BY DEF FrameMarks
  <2>2. PICK e : e = Mark(type)
    OBVIOUS
  <2>3. e \in Events /\ e.type = type
    BY <2>2, MarkEvents
  <2>4. Fits(c, e, g)
    BY <1>7, <2>1, <2>3 DEF Fits, FitsMark
  <2>5. PICK d : d = Read(c, e, r)
    OBVIOUS
  <2>6. d \in Readers /\ Noted(c, d, type, r)
    BY <1>4, <1>7, <2>3, <2>5, NoteRead
  <2>7. Path(c, <<e>>, d, r, g)
    BY <1>4, <1>7, <2>3, <2>4, <2>5, PathOne
  <2>8. d.frame = <<"start">> /\ DOMAIN d.blocks = {} /\ d.text = <<>> /\ Len(d.blocks) = 0
    <3>1. d.frame = Append(<<>>, type) /\ d.blocks = c.blocks /\ d.text = c.text
      BY <1>7, <2>6 DEF Noted
    <3> QED
      BY <1>7, <2>1, <3>1
  <2>9. Orderly \in BOOLEAN /\ g = Orderly
    BY <1>2, <1>8 DEF Strict, Orderly
  <2>10. At({}, NewMessageWriter, d, t, {}, TRUE, r, g) /\ InOrder(NewMessageWriter, {})
    BY <1>3, <1>4, <2>6, <2>8, NoWriter DEF Begun
  <2>11. writer' = NewMessageWriter
    BY <1>1, <1>8 DEF Untouched, NewWriter
  <2>12. MessageGoes(d)'
    <3>1. NamesStarted'
      BY <1>5 DEF NamesStarted
    <3> QED
      BY <1>5, <1>6, <2>9, <2>10, <2>11, <3>1 DEF MessageGoes
  <2>13. SaidOf(d)'
    <3>1. Heard(d, t)
      BY <1>3, <2>8 DEF Heard
    <3> QED
      BY <1>5, <3>1, HeardIsComplete
  <2>14. todo' = <<e>> /\ ~closing' /\ bridge'.to = "message"
    BY <1>1, <1>8, <2>1, <2>2 DEF Untouched
  <2>15. Goes(d)'
    BY <2>12, <2>14 DEF Goes
  <2> QED
    BY <1>5, <1>6, <1>7, <2>7, <2>13, <2>14, <2>15 DEF Promised
<1>9. CASE bridge.to = "chunks"
  <2>1. todo' = <<>> /\ ~closing' /\ bridge'.to = "chunks" /\ writer' = NewChunkWriter
    BY <1>1, <1>9 DEF Untouched, NewWriter
  <2>2. Path(c, <<>>, c, r, g)
    BY <1>7, PathStays
  <2>3. ChunkAt({}, NewChunkWriter, c, t)
    BY <1>2, <1>3, NoWriter
  <2>4. ChunkGoes(c)'
    <3>1. ~writer'.finished
      BY <2>1 DEF NewChunkWriter
    <3>2. Reasoned(writer.finished, c.reason)'
      BY <1>5 DEF Reasoned
    <3>3. DoneOnce(writer.finished)'
      BY <3>1 DEF DoneOnce
    <3> QED
      BY <1>5, <2>1, <2>3, <3>2, <3>3 DEF ChunkGoes
  <2>5. SaidOf(c)'
    <3>1. Heard(c, t)
      BY <1>3, <1>7 DEF Heard
    <3> QED
      BY <1>5, <3>1, HeardIsComplete
  <2>6. Goes(c)'
    BY <2>1, <2>4 DEF Goes
  <2> QED
    BY <1>5, <1>6, <1>7, <2>1, <2>2, <2>5, <2>6 DEF Promised
<1> QED
  BY <1>1, <1>8, <1>9

LEMMA StreamSays ==
  ASSUME StreamInv, ChunkInv, bridge.to # "copy", NEW u \in Utterances, Say(u)
  PROVE  said' \in Seq(Utterances) /\ \E d : Promised(d)'
<1>1. /\ pc = "stream" /\ todo = <<>> /\ ~closing /\ UNCHANGED <<bridge, client>> /\ said' = Append(said, u)
      /\ bridge.to \in {"message", "chunks"} /\ said \in Seq(Utterances)
      /\ bridge.to = "message" => bridge.up \in {"openai", "bedrock"}
  BY DEF Say, StreamInv
<1>2. PICK c : Promised(c)
  BY <1>1 DEF StreamInv
<1>3. c = client
  BY <1>1, <1>2, PathEnds DEF Promised
<1>4. Goes(client)
  BY <1>1, <1>2, <1>3 DEF Promised
<1>5. said' \in Seq(Utterances)
  BY <1>1, SaidMore
<1>6. CASE bridge.to = "message"
  <2>1. PICK f : MessageHears(u, f)
    BY <1>1, <1>4, <1>6, MessageHeardMore DEF Goes
  <2>2. Path(client', todo', f, Reason', Strict')
    <3>1. Strict' = Orderly
      <4>1. bridge'.to = "message"
        BY <1>1, <1>6
      <4> QED
        BY <4>1 DEF Strict, Orderly
    <3> QED
      BY <1>1, <2>1, <3>1 DEF MessageHears
  <2>3. SaidOf(f)' /\ (closing' => Complete(f)')
    BY <2>1, HeardIsComplete DEF MessageHears
  <2>4. ~closing' => Goes(f)'
    BY <1>1, <1>6, <2>1 DEF MessageHears, Goes
  <2> QED
    BY <1>5, <2>2, <2>3, <2>4 DEF Promised
<1>7. CASE bridge.to = "chunks"
  <2>1. PICK q : ChunkHears(u, Reason', q)
    BY <1>4, <1>7, ChunkHeardMore DEF Goes
  <2>2. PICK f : Path(client, todo', f, Reason', FALSE) /\ ChunkAt(Mentioned', writer', f, Spoke') /\ f.reason = q
    BY <2>1 DEF ChunkHears, ChunkReads
  <2>3. Path(client', todo', f, Reason', Strict')
    <3>1. Strict' = FALSE
      BY <1>1, <1>7 DEF Strict
    <3> QED
      BY <1>1, <2>2, <3>1
  <2>4. closing' <=> u.what = "eof"
    BY <1>7, ChunkSaid
  <2>5. PICK h, h0 : h = Has("reason")' /\ h0 = FALSE
    OBVIOUS
  <2>6. HeardAll(f, Mentioned', Spoke', h0)
    BY <2>2, <2>5, ChunkHeard
  <2>7. SaidOf(f)'
    BY <2>6, HeardIsComplete DEF HeardAll
  <2>8. closing' => Complete(f)'
    <3> HAVE closing'
    <3>1. h => f.reason = "said"
      BY <2>1, <2>2, <2>4, <2>5 DEF ChunkHears
    <3>2. HeardAll(f, Mentioned', Spoke', h)
      BY <2>2, <3>1, ChunkHeard
    <3> QED
      BY <2>5, <3>2, HeardIsComplete
  <2>9. ~closing' => Goes(f)'
    <3> HAVE ~closing'
    <3>1. Reasoned(writer.finished, f.reason)' /\ DoneOnce(writer.finished)'
      BY <2>1, <2>2, <2>4 DEF ChunkHears
    <3> QED
      BY <1>1, <1>7, <2>2, <3>1 DEF Goes, ChunkGoes
  <2> QED
    BY <1>5, <2>3, <2>7, <2>8, <2>9 DEF Promised
<1> QED
  BY <1>1, <1>6, <1>7

LEMMA StreamWrites ==
  ASSUME StreamInv, bridge.to # "copy", Write
  PROVE  client' \in Readers /\ \E d : Promised(d)'
<1>1. /\ pc = "stream" /\ todo # <<>> /\ client' = Receive(Head(todo)) /\ todo' = Tail(todo)
      /\ UNCHANGED <<bridge, said, writer, closing>>
  BY DEF Write
<1>2. PICK d : Promised(d)
  BY <1>1 DEF StreamInv
<1>3. Path(client', todo', d, Reason, Strict)
  BY <1>1, <1>2, PathHead, ReceiveIsRead DEF Promised
<1>4. /\ Spoke' = Spoke /\ Mentioned' = Mentioned /\ Named' = Named /\ Reason' = Reason
      /\ \A who : SaidBy(who)' = SaidBy(who) /\ \A what : Has(what)' = Has(what)
  BY <1>1, SpokeSame
<1>5. Strict' = Strict /\ Orderly' = Orderly
  BY <1>1 DEF Strict, Orderly
<1>6. SaidOf(d)' /\ (closing' => Complete(d)')
  BY <1>1, <1>2, <1>4 DEF Promised, SaidOf, Complete
<1>7. ~closing' => Goes(d)'
  <2> HAVE ~closing'
  <2>1. Goes(d)
    BY <1>1, <1>2 DEF Promised
  <2>2. bridge.to = "message" => MessageGoes(d)'
    <3> HAVE bridge.to = "message"
    <3>1. MessageGoes(d)
      BY <2>1 DEF Goes
    <3>2. NamesStarted'
      BY <1>1, <1>4, <3>1 DEF MessageGoes, NamesStarted
    <3> QED
      BY <1>1, <1>4, <1>5, <3>1, <3>2 DEF MessageGoes
  <2>3. bridge.to = "chunks" => ChunkGoes(d)'
    BY <1>1, <1>4, <2>1 DEF Goes, ChunkGoes, Reasoned, DoneOnce
  <2> QED
    BY <1>1, <2>2, <2>3 DEF Goes
<1>8. client' \in Readers
  BY <1>3, PathType
<1> QED
  BY <1>3, <1>4, <1>5, <1>6, <1>7, <1>8 DEF Promised

LEMMA StreamStep ==
  ASSUME StreamInv, ChunkInv, [Next]_vars
  PROVE  StreamInv'
<1>1. bridge' = bridge
  BY DEF Next, Retry, GiveUp, FailCall, Accept, Say, Break, Write, Disconnect, Return, vars
<1> SUFFICES ASSUME bridge.to # "copy" PROVE StreamInv'
  BY <1>1 DEF StreamInv
<1>2. /\ bridge.to \in {"message", "chunks"} /\ (bridge.to = "message" => bridge.up \in {"openai", "bedrock"})
      /\ said \in Seq(Utterances) /\ client \in Readers /\ PrefixesOnly
      /\ pc # "ended" => outcome.end # "done"
      /\ pc = "call" => Untouched
  BY StreamsPrefixes DEF StreamInv
\* The call ends with what the client has.
<1>3. ASSUME UNCHANGED <<said, client>>, pc' = "ended", outcome'.end = "done" => Complete(client)
      PROVE  StreamInv'
  <2>1. PrefixesOnly'
    <3>1. \A k : HeardOf(k)' = HeardOf(k) /\ SaidBy(k)' = SaidBy(k)
      BY <1>3 DEF HeardOf, SaidBy
    <3> QED
      BY <1>2, <1>3, <3>1 DEF PrefixesOnly
  <2>2. outcome'.end = "done" => Complete(client)'
    BY <1>3, SpokeSame DEF Complete, SaidOf
  <2> QED
    BY <1>1, <1>2, <1>3, <2>1, <2>2 DEF StreamInv
<1>4. ASSUME UNCHANGED vars PROVE StreamInv'
  <2>1. /\ UNCHANGED <<bridge, pc, said, writer, todo, closing, client, outcome>>
    BY <1>4 DEF vars
  <2>2. CASE pc = "ended"
    BY <1>3, <2>1, <2>2 DEF StreamInv
  <2>3. CASE pc = "call"
    <3>1. Untouched'
      BY <1>2, <2>1, <2>3 DEF Untouched, NewWriter
    <3> QED
      BY <1>2, <2>1, <2>3, <3>1 DEF StreamInv
  <2>4. CASE pc = "stream"
    <3>1. PICK d : Promised(d)
      BY <2>4 DEF StreamInv
    <3>2. Promised(d)'
      <4>1. /\ Spoke' = Spoke /\ Mentioned' = Mentioned /\ Named' = Named /\ Reason' = Reason
            /\ \A who : SaidBy(who)' = SaidBy(who) /\ \A what : Has(what)' = Has(what)
        BY <2>1, SpokeSame
      <4>2. Strict' = Strict /\ Orderly' = Orderly
        BY <2>1 DEF Strict, Orderly
      <4>3. SaidOf(d)' /\ (closing' => Complete(d)')
        BY <2>1, <3>1, <4>1 DEF Promised, SaidOf, Complete
      <4>4. MessageGoes(d) => MessageGoes(d)'
        BY <2>1, <4>1, <4>2 DEF MessageGoes, NamesStarted
      <4>5. ChunkGoes(d) => ChunkGoes(d)'
        BY <2>1, <4>1 DEF ChunkGoes, Reasoned, DoneOnce
      <4>6. ~closing' => Goes(d)'
        BY <2>1, <3>1, <4>4, <4>5 DEF Promised, Goes
      <4> QED
        BY <2>1, <3>1, <4>1, <4>2, <4>3, <4>6 DEF Promised
    <3> QED
      BY <1>2, <2>1, <2>4, <3>2 DEF StreamInv
  <2> QED
    BY <2>2, <2>3, <2>4 DEF StreamInv
<1>5. ASSUME NEW named \in SUBSET Params, Retry(named) PROVE StreamInv'
  <2>1. pc = "call" /\ UNCHANGED <<bridge, pc, said, writer, todo, closing, client, outcome>>
    BY <1>5 DEF Retry, Complaint
  <2>2. Untouched'
    BY <1>2, <2>1 DEF Untouched, NewWriter
  <2> QED
    BY <1>2, <2>1, <2>2 DEF StreamInv
<1>6. ASSUME NEW named \in SUBSET Params, GiveUp(named) PROVE StreamInv'
  BY <1>3, <1>6 DEF GiveUp, End
<1>7. CASE FailCall
  BY <1>3, <1>7 DEF FailCall, End
<1>8. CASE Accept
  <2>1. \E d : Promised(d)'
    BY <1>8, StreamAccepts
  <2>2. pc = "call" /\ pc' = "stream" /\ UNCHANGED <<said, client, outcome>>
    BY <1>8 DEF Accept
  <2> QED
    BY <1>1, <1>2, <2>1, <2>2 DEF StreamInv
<1>9. ASSUME NEW u \in Utterances, Say(u) PROVE StreamInv'
  <2>1. said' \in Seq(Utterances) /\ \E d : Promised(d)'
    BY <1>9, StreamSays
  <2>2. pc = "stream" /\ pc' = "stream" /\ UNCHANGED <<client, outcome>>
    BY <1>9 DEF Say
  <2> QED
    BY <1>1, <1>2, <2>1, <2>2 DEF StreamInv
<1>10. CASE Break
  BY <1>3, <1>10 DEF Break, End
<1>11. CASE Write
  <2>1. client' \in Readers /\ \E d : Promised(d)'
    BY <1>11, StreamWrites
  <2>2. pc = "stream" /\ pc' = "stream" /\ UNCHANGED <<said, outcome>>
    BY <1>11 DEF Write
  <2> QED
    BY <1>1, <1>2, <2>1, <2>2 DEF StreamInv
<1>12. CASE Disconnect
  BY <1>3, <1>12 DEF Disconnect, End
<1>13. CASE Return
  <2>1. pc = "stream" /\ todo = <<>> /\ closing /\ pc' = "ended" /\ UNCHANGED <<said, client>>
    BY <1>13 DEF Return, End
  <2>2. PICK d : Promised(d)
    BY <2>1 DEF StreamInv
  <2>3. Complete(client)
    BY <2>1, <2>2, PathEnds DEF Promised
  <2> QED
    BY <1>3, <2>1, <2>3
<1> QED
  BY <1>4, <1>5, <1>6, <1>7, <1>8, <1>9, <1>10, <1>11, <1>12, <1>13 DEF Next

\* Nothing that an upstream says of a text or of a tool's input is lost, repeated, given
\* to another tool or put into another order on its way to the client, whatever the
\* upstream interleaves, wherever it breaks off and wherever the client leaves:
\* anthropicOpenAIStreamState, proxyAnthropicStreamAsOpenAI, proxyBedrockOpenAIStream.
THEOREM NothingLostInStreams == Spec => []NothingLost
<1>1. Init => StreamInv /\ ChunkInv
  BY StreamStarts, ChunkStarts
<1>2. StreamInv /\ ChunkInv /\ [Next]_vars => (StreamInv /\ ChunkInv)'
  BY StreamStep, ChunkStep
<1>3. StreamInv => NothingLost
  BY StreamInvLosesNothing
<1> QED
  BY <1>1, <1>2, <1>3, PTL DEF Spec

-----------------------------------------------------------------------------
(***************************************************************************)
(* Messages are well formed.                                               *)
(***************************************************************************)
LEMMA WhoIsSaid ==
  ASSUME said \in Seq(Utterances), NEW d \in Readers, NEW i \in DOMAIN d.blocks,
         Complete(d) \/ MessageGoes(d)
  PROVE  d.blocks[i].who \in Tools \cup {Text}
<1>1. Mentioned \subseteq Tools
  <2>1. \A j \in DOMAIN said : said[j] \in Utterances
    OBVIOUS
  <2>2. \A u \in Utterances : u.who \in Tools \cup {Text}
    BY DEF Utterances
  <2> QED
    BY <2>1, <2>2 DEF Mentioned
<1>2. CASE Complete(d)
  BY <1>1, <1>2 DEF Complete
<1>3. CASE MessageGoes(d)
  <2>1. writer \in Writers(Mentioned) /\ ToolsIn(writer, d, Spoke)
    BY <1>3 DEF MessageGoes, At, Match
  <2> QED
    BY <1>1, <2>1 DEF ToolsIn, Writers
<1> QED
  BY <1>2, <1>3

LEMMA AppendThree ==
  ASSUME NEW S, NEW x \in S, NEW y \in S, NEW z \in S
  PROVE  Append(<<x, y>>, z) = <<x, y, z>>
<1>1. <<x, y>> \in Seq(S) /\ <<x, y, z>> \in Seq(S)
  OBVIOUS
<1>2. PICK p, q : p = Append(<<x, y>>, z) /\ q = <<x, y, z>>
  OBVIOUS
<1>3. p \in Seq(S) /\ Len(p) = 3 /\ p[1] = x /\ p[2] = y /\ p[3] = z
  BY <1>1, <1>2, AppendProperties
<1>4. q \in Seq(S) /\ Len(q) = 3 /\ q[1] = x /\ q[2] = y /\ q[3] = z
  BY <1>1, <1>2
<1>5. p = q
  <2>1. Len(p) = Len(q) /\ \A i \in 1..Len(p) : p[i] = q[i]
    BY <1>3, <1>4
  <2> QED
    BY ONLY <1>3, <1>4, <2>1
<1> QED
  BY <1>2, <1>5

\* A block that is filled, or closed, and no other change.
OnlyFilled(c, d, b) == d.blocks = [c.blocks EXCEPT ![b].content = d.blocks[b].content]
OnlyClosed(c, d, b) == d.blocks = [c.blocks EXCEPT ![b].closes = d.blocks[b].closes]

LEMMA OneBlock ==
  ASSUME NEW c \in Readers, NEW d \in Readers, NEW b, Others(c, d, b)
  PROVE  /\ d.blocks[b].closes = c.blocks[b].closes => OnlyFilled(c, d, b)
         /\ d.blocks[b].content = c.blocks[b].content => OnlyClosed(c, d, b)
<1>1. /\ b \in DOMAIN c.blocks /\ DOMAIN d.blocks = DOMAIN c.blocks
      /\ \A i \in DOMAIN c.blocks : i # b => d.blocks[i] = c.blocks[i]
      /\ d.blocks[b].who = c.blocks[b].who /\ d.blocks[b].index = c.blocks[b].index
  BY DEF Others
<1>2. PICK o, x : o = c.blocks[b] /\ x = d.blocks[b]
  OBVIOUS
<1>3. o \in Blocks /\ x \in Blocks
  BY <1>1, <1>2, ReaderParts
<1>4. c.blocks \in Seq(Blocks) /\ d.blocks \in Seq(Blocks)
  BY ReaderParts
<1>5. PICK s, t : s = c.blocks /\ t = d.blocks
  OBVIOUS
<1>6. t = [s EXCEPT ![b] = x] /\ s[b] = o
  BY <1>1, <1>2, <1>4, <1>5
<1>7. x.closes = o.closes => x = [o EXCEPT !.content = x.content]
  BY <1>1, <1>2, <1>3 DEF Blocks
<1>8. x.content = o.content => x = [o EXCEPT !.closes = x.closes]
  BY <1>1, <1>2, <1>3 DEF Blocks
<1> QED
  BY <1>2, <1>5, <1>6, <1>7, <1>8 DEF OnlyFilled, OnlyClosed

\* What the client of a message sees moves as a message does, or not at all.
MessageMoves ==
  \/ Message!Next
  \/ UNCHANGED <<Of("message", client.frame), Of("message", client.blocks)>>

LEMMA MessageWrites ==
  ASSUME StreamInv, bridge.to = "message", Orderly, Write
  PROVE  Message!Next
<1>1. /\ pc = "stream" /\ todo # <<>> /\ client' = Receive(Head(todo)) /\ todo' = Tail(todo)
      /\ UNCHANGED <<bridge, said, closing>> /\ said \in Seq(Utterances)
  BY DEF Write, StreamInv
<1>2. PICK d : Promised(d)
  BY <1>1 DEF StreamInv
<1>3. PICK e, r, g, c, f : /\ e = Head(todo) /\ r = Reason /\ g = Strict
                           /\ c = client /\ f = client'
  OBVIOUS
<1>4. /\ e \in Events /\ Fits(c, e, g) /\ f = Read(c, e, r) /\ Path(f, todo', d, r, g)
  BY <1>1, <1>2, <1>3, PathHead, ReceiveIsRead DEF Promised
<1>5. c \in Readers /\ f \in Readers /\ d \in Readers
  BY <1>2, <1>3, <1>4, PathType DEF Promised
<1>6. r \in Reasons /\ g
  BY <1>3 DEF Reason, Reasons, Strict
<1>7. /\ Of("message", client.frame) = c.frame /\ Of("message", client.blocks) = c.blocks
      /\ Of("message", client.frame)' = f.frame /\ Of("message", client.blocks)' = f.blocks
  BY <1>1, <1>3 DEF Of
<1>8. \A i \in DOMAIN c.blocks : Message!IsOpen(i) <=> IsOpen(c, i)
  BY <1>7 DEF Message!IsOpen, IsOpen
<1>9. /\ Known(c, e) /\ IsOpen(c, e.index + 1) =>
           e.index + 1 \in DOMAIN c.blocks /\ c.blocks[e.index + 1].closes = 0 /\ Message!IsOpen(e.index + 1)
  BY <1>8 DEF Known, IsOpen
<1>10. CASE FitsOpen(c, e, g)
  <2>1. Opened(c, f, e.who) /\ c.frame = <<"start">>
    BY <1>4, <1>5, <1>6, <1>10, OpenRead DEF FitsOpen, Begun
  <2>2. e.who \in Tools \cup {Text}
    <3>1. Grew(f, d)
      BY <1>4, <1>6, PathGrows
    <3>2. PICK n : n = Len(f.blocks)
      OBVIOUS
    <3>3. n \in DOMAIN f.blocks /\ f.blocks[n].who = e.who
      BY <2>1, <3>2 DEF Opened, NewBlock
    <3>4. n \in DOMAIN d.blocks /\ d.blocks[n].who = e.who
      BY <3>1, <3>3 DEF Grew
    <3>5. Complete(d) \/ MessageGoes(d)
      BY <1>2 DEF Promised, Goes
    <3> QED
      BY <1>1, <1>5, <3>4, <3>5, WhoIsSaid
  <2>3. f.blocks = Append(c.blocks, [index |-> Len(c.blocks), who |-> e.who, closes |-> 0, content |-> <<>>])
    <3>1. PICK b, s, t, n : b = NewBlock(c, e.who) /\ s = c.blocks /\ t = f.blocks /\ n = Len(c.blocks)
      OBVIOUS
    <3>2. s \in Seq(Blocks) /\ t \in Seq(Blocks) /\ n \in Nat /\ n = Len(s)
      BY <1>5, <3>1, ReaderParts
    <3>3. Len(t) = n + 1 /\ t[n + 1] = b /\ \A i \in 1..n : t[i] = s[i]
      BY <2>1, <3>1, <3>2 DEF Opened
    <3>4. t = Append(s, b)
      BY <3>2, <3>3
    <3> QED
      BY <3>1, <3>4 DEF NewBlock
  <2>4. f.frame = c.frame
    BY <2>1 DEF Opened
  <2>5. \A i \in DOMAIN c.blocks : c.blocks[i].who = e.who => e.who = Text /\ ~Message!IsOpen(i)
    BY <1>6, <1>8, <1>10 DEF FitsOpen
  <2>6. Text \notin Tools
    BY ToolsAssumption DEF Text
  <2>7. Message!Open(e.who)
    BY <1>7, <2>1, <2>3, <2>4, <2>5, <2>6 DEF Message!Open
  <2> QED
    BY <2>2, <2>7 DEF Message!Next
<1>11. CASE FitsFill(c, e, g)
  <2>1. PICK b : b = e.index + 1
    OBVIOUS
  <2>2. /\ e.type = "fill" /\ b \in DOMAIN c.blocks /\ Message!IsOpen(b)
        /\ c.frame = <<"start">> /\ e.frags # <<>>
    BY <1>6, <1>9, <1>11, <2>1 DEF FitsFill, Begun, Known
  <2>3. Filled(c, f, b, e.frags)
    BY <1>4, <1>5, <1>6, <2>1, <2>2, FillRead
  <2>4. Others(c, f, b) /\ f.frame = c.frame /\ f.blocks[b].closes = c.blocks[b].closes
        /\ f.blocks[b].content = c.blocks[b].content \o e.frags /\ DOMAIN f.blocks = DOMAIN c.blocks
    BY <2>3 DEF Filled, Others
  <2>5. OnlyFilled(c, f, b)
    BY <1>5, <2>4, OneBlock
  <2>6. PICK old, new : old = c.blocks[b].content /\ new = f.blocks[b].content
    OBVIOUS
  <2>7. Len(new) > Len(old) /\ SubSeq(new, 1, Len(old)) = old
    <3>1. old \in Seq(Nat) /\ e.frags \in Seq(Nat)
      BY <1>4, <1>5, <2>2, <2>6, ReaderParts, BlockParts, EventParts
    <3>2. new = old \o e.frags
      BY <2>4, <2>6
    <3>3. Len(e.frags) \in Nat /\ Len(e.frags) # 0
      BY <2>2, <3>1
    <3> QED
      BY <3>1, <3>2, <3>3
  <2>8. Message!Fill(b)
    BY <1>7, <2>2, <2>4, <2>5, <2>6, <2>7 DEF Message!Fill, OnlyFilled
  <2> QED
    BY <1>7, <2>2, <2>8 DEF Message!Next
<1>12. CASE FitsClose(c, e, g)
  <2>1. PICK b : b = e.index + 1
    OBVIOUS
  <2>2. /\ e.type = "close" /\ b \in DOMAIN c.blocks /\ Message!IsOpen(b) /\ c.blocks[b].closes = 0
        /\ c.frame = <<"start">>
    BY <1>6, <1>9, <1>12, <2>1 DEF FitsClose, Begun, Known
  <2>3. Closed(c, f, b)
    BY <1>4, <1>5, <1>6, <2>1, <2>2, CloseRead
  <2>4. Others(c, f, b) /\ f.frame = c.frame /\ f.blocks[b].closes = 1
        /\ f.blocks[b].content = c.blocks[b].content
    BY <2>2, <2>3 DEF Closed
  <2>5. OnlyClosed(c, f, b)
    BY <1>5, <2>4, OneBlock
  <2>6. Message!Close(b)
    BY <1>7, <2>2, <2>4, <2>5 DEF Message!Close, OnlyClosed
  <2> QED
    BY <1>7, <2>2, <2>6 DEF Message!Next
<1>13. CASE FitsMark(c, e, g)
  <2>1. Noted(c, f, e.type, r)
    BY <1>4, <1>5, <1>6, <1>13, NoteRead DEF FitsMark, FrameMarks
  <2>2. f.frame = Append(c.frame, e.type) /\ f.blocks = c.blocks
    BY <2>1 DEF Noted
  <2>3. CASE e.type = "start" /\ c.frame = <<>>
    <3>1. Append(<<>>, "start") = <<"start">>
      OBVIOUS
    <3> QED
      BY <1>7, <2>2, <2>3, <3>1 DEF Message!Begin, Message!Next
  <2>4. CASE e.type = "end" /\ c.frame = <<"start">> /\ \A i \in DOMAIN c.blocks : ~IsOpen(c, i)
    <3>1. Append(<<"start">>, "end") = <<"start", "end">>
      <4>1. "start" \in FrameMarks /\ "end" \in FrameMarks
        BY DEF FrameMarks
      <4> QED
        BY <4>1, AppendTwo
    <3> QED
      BY <1>7, <1>8, <2>2, <2>4, <3>1 DEF Message!End, Message!Next
  <2>5. CASE e.type = "stop" /\ c.frame = <<"start", "end">>
    <3>1. Append(<<"start", "end">>, "stop") = <<"start", "end", "stop">>
      <4>1. "start" \in FrameMarks /\ "end" \in FrameMarks /\ "stop" \in FrameMarks
        BY DEF FrameMarks
      <4> QED
        BY <4>1, AppendThree
    <3> QED
      BY <1>7, <2>2, <2>5, <3>1 DEF Message!Stop, Message!Next
  <2> QED
    BY <1>6, <1>13, <2>3, <2>4, <2>5 DEF FitsMark, Begun
<1>14. ~FitsSaid(e, g)
  BY <1>6 DEF FitsSaid
<1> QED
  BY <1>4, <1>10, <1>11, <1>12, <1>13, <1>14 DEF Fits

LEMMA MessageStep ==
  ASSUME StreamInv, Orderly, [Next]_vars
  PROVE  MessageMoves
<1>1. bridge' = bridge
  BY DEF Next, Retry, GiveUp, FailCall, Accept, Say, Break, Write, Disconnect, Return, vars
<1>2. CASE Write /\ bridge.to = "message"
  BY <1>2, MessageWrites DEF MessageMoves
<1>3. CASE bridge.to # "message"
  BY <1>1, <1>3 DEF MessageMoves, Of
<1>4. CASE client' = client
  BY <1>1, <1>4 DEF MessageMoves, Of
<1>5. ~Write => client' = client
  BY DEF Next, Retry, GiveUp, FailCall, Accept, Say, Break, Disconnect, Return, vars
<1> QED
  BY <1>2, <1>3, <1>4, <1>5

\* What the client of a message puts together is one, whatever the upstream interleaves,
\* where it breaks off and where the client leaves, as long as no stream ends with a tool
\* that has never been named: anthropicOpenAIStreamState implements MessageStream.
THEOREM MessagesAreWellFormed == ~Nameless => (Spec => MessageWellFormed)
<1> SUFFICES ASSUME ~Nameless PROVE Spec => MessageWellFormed
  OBVIOUS
<1>1. Init => Message!Init
  BY DEF Init, NoClient, Of, Message!Init
<1>2. Init => StreamInv /\ ChunkInv
  BY StreamStarts, ChunkStarts
<1>3. StreamInv /\ ChunkInv /\ [Next]_vars => (StreamInv /\ ChunkInv)' /\ MessageMoves
  BY StreamStep, ChunkStep, MessageStep DEF Orderly
<1>4. MessageMoves => [Message!Next]_<<Of("message", client.frame), Of("message", client.blocks)>>
  BY DEF MessageMoves
<1> QED
  BY <1>1, <1>2, <1>3, <1>4, PTL DEF Spec, MessageWellFormed, Message!Spec

=============================================================================

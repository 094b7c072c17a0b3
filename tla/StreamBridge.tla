---------------------------- MODULE StreamBridge ----------------------------
(***************************************************************************)
(* One streamed call to an upstream, from the request that is sent (again, *)
(* with fewer parameters, when the upstream complains about one) to the    *)
(* end of the stream that the client gets.                                 *)
(*                                                                         *)
(* A bridge reads the protocol of its upstream and writes that of its      *)
(* client, or copies line by line where these are the same.  Every write   *)
(* to the client is a step, so that the client may go away before it.      *)
(***************************************************************************)
EXTENDS StreamWriters, FiniteSets

CONSTANTS
  Bridges,    \* the bridges to be looked at, a subset of AllBridges
  Tools,      \* indices that an upstream may give to a tool
  Params,     \* parameters that a request may have and an upstream may reject
  Nameless,   \* TRUE when an upstream may end with a tool that it has not named
  MaxSaid     \* bound on what an upstream says

AllBridges ==
  {[up |-> "openai", to |-> "message"], [up |-> "bedrock", to |-> "message"],
   [up |-> "anthropic", to |-> "chunks"], [up |-> "bedrock", to |-> "chunks"],
   [up |-> "openai", to |-> "copy"], [up |-> "anthropic", to |-> "copy"]}

ASSUME BridgesAssumption == Bridges \subseteq AllBridges
ASSUME ToolsAssumption == Tools \subseteq Nat /\ MaxSaid \in Nat /\ Nameless \in BOOLEAN

VARIABLES
  bridge,    \* which translator, and whether the client asks for usage
  pc,        \* "call", "stream" or "ended"
  params,    \* parameters of the request that may be rejected
  picky,     \* parameters that the upstream rejects
  attempt,   \* how often the request was sent again
  said,      \* what the upstream has said
  writer,    \* the translator's state
  todo,      \* events that are about to be written
  closing,   \* the upstream has ended
  usage,     \* usage as the upstream has reported it
  client,    \* what the client has put together
  outcome    \* how the call ended, and the usage that goes to the ledger

vars == <<bridge, pc, params, picky, attempt, said, writer, todo, closing, usage, client, outcome>>

-----------------------------------------------------------------------------
\* Parameters that can be left out, or renamed, when an upstream names them.
Adjustable ==
  CASE bridge.to = "copy" /\ bridge.up = "anthropic" -> {}
    [] bridge.up = "openai" -> Params \cap {"max_tokens", "temperature"}
    [] bridge.up = "anthropic" /\ bridge.to # "copy" -> Params \cap {"temperature", "top_p", "top_k"}
    [] OTHER -> {}

\* What the translated request has: of the rejected parameters, only these are copied.
Translated == Params \ {"top_k"}

NewWriter == IF bridge.to = "message" THEN NewMessageWriter ELSE NewChunkWriter
NoClient == [frame |-> <<>>, blocks |-> <<>>, text |-> <<>>, reason |-> "none"]
Undecided == [end |-> "none", usage |-> "none"]

Init ==
  /\ \E b \in Bridges, includeUsage \in BOOLEAN :
       bridge = [up |-> b.up, to |-> b.to, usage |-> includeUsage]
  /\ pc = "call"
  /\ params \in SUBSET Translated /\ picky \in SUBSET Params
  /\ attempt = 0
  /\ said = <<>> /\ todo = <<>> /\ closing = FALSE
  /\ writer = NewWriter
  /\ usage = "none"
  /\ client = NoClient
  /\ outcome = Undecided

End(how, counted) ==
  /\ pc' = "ended" /\ todo' = <<>>
  /\ outcome' = [end |-> how, usage |-> counted]

-----------------------------------------------------------------------------
\* The call.

\* Mutant of MayRetry: the request is sent again once at most.
MayRetryOnce(named) == attempt < 1 /\ named \cap Adjustable # {}

\* openAIPayloadForUnsupportedParams, anthropicPayloadForUnsupportedParams.
MayRetry(named) == attempt < 2 /\ named \cap Adjustable # {}

\* A complaint that names some of the parameters that the upstream rejects.
Complaint(named) == pc = "call" /\ named # {} /\ named \subseteq params \cap picky

Retry(named) ==
  /\ Complaint(named) /\ MayRetry(named)
  /\ params' = params \ (named \cap Adjustable)
  /\ attempt' = attempt + 1
  /\ UNCHANGED <<bridge, pc, picky, said, writer, todo, closing, usage, client, outcome>>

GiveUp(named) ==
  /\ Complaint(named) /\ ~MayRetry(named)
  /\ End(IF named \cap Adjustable = {} THEN "refused" ELSE "rejected", "none")
  /\ UNCHANGED <<bridge, params, picky, attempt, said, writer, closing, usage, client>>

\* The call fails otherwise: no connection, or a status that is no complaint.
FailCall ==
  /\ pc = "call"
  /\ End("failed", "none")
  /\ UNCHANGED <<bridge, params, picky, attempt, said, writer, closing, usage, client>>

\* The stream begins.  A message starts at once, whatever its upstream says.
Accept ==
  /\ pc = "call" /\ params \cap picky = {}
  /\ pc' = "stream"
  /\ params' = {} /\ picky' = {} /\ attempt' = 0  \* not used any more
  /\ todo' = IF bridge.to = "message" THEN <<Mark("start")>> ELSE <<>>
  /\ UNCHANGED <<bridge, said, writer, closing, usage, client, outcome>>

-----------------------------------------------------------------------------
\* What an upstream may say: OpenAI chunks, Anthropic events or Bedrock events.
Plain == {"start", "thought", "reason", "usage", "done", "eof", "error"}
Utterances ==
  [what : Plain, who : {Text}, named : {FALSE}, args : {FALSE}]
  \cup [what : {"text"}, who : {Text}, named : {FALSE}, args : {TRUE}]
  \cup {u \in [what : {"call"}, who : Tools, named : BOOLEAN, args : BOOLEAN] : u.named \/ u.args}

Has(what) == \E i \in DOMAIN said : said[i].what = what
Mentioned == {said[i].who : i \in DOMAIN said} \ {Text}
Named == {said[i].who : i \in {j \in DOMAIN said : said[j].named}}

\* The upstream keeps to its protocol, but may break off.
OpenAIMay(u) ==
  CASE u.what = "call"   -> /\ ~Has("reason")
                            /\ \A k \in Tools : k < u.who => k \in Mentioned
                            /\ u.named => u.who \notin Named
    [] u.what = "text"   -> ~Has("reason")
    [] u.what = "reason" -> ~Has("reason")
    [] u.what = "usage"  -> Has("reason") /\ ~Has("usage")
    [] u.what = "done"   -> Has("reason") /\ ~Has("done")
    [] OTHER             -> u.what \in {"eof", "error"}

EventsMay(u) ==
  /\ (said # <<>> \/ u.what \in {"start", "eof", "error"})
  /\ CASE u.what = "start" -> said = <<>>
       [] u.what = "call"  -> /\ ~Has("reason") /\ u.named # u.args
                              /\ u.named => \A k \in Mentioned : k < u.who
                              /\ u.args => said[Len(said)].who = u.who
       [] u.what \in {"text", "thought", "reason"} -> ~Has("reason")
       [] u.what = "usage" -> bridge.up = "bedrock" /\ Has("reason") /\ ~Has("usage")
       [] u.what = "done"  -> bridge.up = "anthropic" /\ Has("reason") /\ ~Has("done")
       [] OTHER            -> TRUE

UpstreamMay(u) ==
  /\ IF bridge.up = "openai" THEN OpenAIMay(u) ELSE EventsMay(u)
  /\ Has("done") => u.what \in {"eof", "error"}
  /\ u.what \in {"done", "eof"} => Nameless \/ Mentioned \subseteq Named

-----------------------------------------------------------------------------
\* The bridges: what is written for one thing that is said.

Frags(u) == IF u.args THEN <<Len(said) + 1>> ELSE <<>>

ToMessage(u) ==
  CASE u.what = "text" -> WriteTextDelta(writer, Len(said) + 1)
    [] u.what = "call" -> WriteToolCallDelta(writer, u.who, u.named \/ bridge.up = "bedrock", Frags(u))
    [] u.what \in {"done", "eof"} -> FinishMessage(writer)
    [] OTHER -> Result(writer, <<>>)

\* proxyAnthropicStreamAsOpenAI keeps the reason for the end.
AnthropicToChunks(u) ==
  CASE u.what = "start" -> Result(writer, <<Mark("start")>>)
    [] u.what = "text"  -> Result(writer, Fill(None, Text, Frags(u)))
    [] u.what = "call" /\ u.named -> WriteToolStart(writer, u.who)
    [] u.what = "call" /\ ~u.named -> WriteToolInput(writer, u.who, Frags(u))
    [] u.what \in {"done", "eof"} -> FinishChunks(writer, bridge.usage)
    [] OTHER -> Result(writer, <<>>)

\* proxyBedrockOpenAIStream writes it at once.
BedrockToChunks(u) ==
  CASE u.what = "reason" -> Result(writer, <<Mark("finish")>>)
    [] u.what = "eof"    -> Result(writer, (IF bridge.usage THEN <<Mark("usage")>> ELSE <<>>)
                                           \o <<Mark("done")>>)
    [] OTHER             -> AnthropicToChunks(u)

Translate(u) ==
  CASE bridge.to = "message" -> ToMessage(u)
    [] bridge.to = "copy"    -> Result(writer, IF u.what = "eof" THEN <<>> ELSE <<Mark("line")>>)
    [] bridge.to = "chunks" /\ bridge.up = "anthropic" -> AnthropicToChunks(u)
    [] OTHER -> BedrockToChunks(u)

\* Mutant of Reported: the end of a stream without usage reports its estimate.
ReportedOrEstimated(u) ==
  CASE u.what = "usage" -> "reported"
    [] u.what = "reason" /\ bridge.up = "anthropic" -> "reported"
    [] u.what = "start" /\ bridge.up = "anthropic" -> "partial"
    [] u.what = "done" /\ usage = "none" -> "estimated"
    [] OTHER -> usage

\* Usage comes with the end of an OpenAI or Bedrock stream, and with the start (only
\* that of the input) and the reason of an Anthropic one.
Reported(u) ==
  CASE u.what = "usage" -> "reported"
    [] u.what = "reason" /\ bridge.up = "anthropic" -> "reported"
    [] u.what = "start" /\ bridge.up = "anthropic" -> "partial"
    [] OTHER -> usage

Ending(u) ==
  \/ u.what = "eof"
  \/ u.what = "done" /\ bridge.up = "openai" /\ bridge.to = "message"

\* The upstream says something, and the bridge translates it.
Say(u) ==
  /\ pc = "stream" /\ todo = <<>> /\ ~closing
  /\ Len(said) < MaxSaid \/ u.what \in {"eof", "error"}
  /\ u.what # "error" /\ UpstreamMay(u)
  /\ said' = Append(said, u)
  /\ writer' = Translate(u).writer
  /\ todo' = Translate(u).events
  /\ closing' = Ending(u)
  /\ usage' = Reported(u)
  /\ UNCHANGED <<bridge, pc, params, picky, attempt, client, outcome>>

\* Mutant of Counted: an estimate replaces what was reported.
CountedAnew(broken) == IF broken THEN usage ELSE "estimated"

\* The usage that goes to the ledger.  It is estimated for streams that end well and
\* say nothing about it, on the bridges that have an estimate; a copy of an OpenAI
\* stream that breaks has no usage at all.
Counted(broken) ==
  CASE broken /\ bridge.up = "openai" /\ bridge.to = "copy" -> "none"
    [] ~broken /\ usage = "none" /\ (bridge.up = "openai" \/ bridge.to = "message") -> "estimated"
    [] OTHER -> usage

\* The stream breaks: an error event, a read that fails.
Break ==
  /\ pc = "stream" /\ todo = <<>> /\ ~closing
  /\ \E u \in Utterances : u.what = "error" /\ UpstreamMay(u)
  /\ End("broken", Counted(TRUE))
  /\ UNCHANGED <<bridge, params, picky, attempt, said, writer, closing, usage, client>>

-----------------------------------------------------------------------------
\* The client puts together what it reads.  Events for a block that it does not know
\* are noted as a block of their own.
Receive(e) ==
  CASE e.type = "open" ->
         [client EXCEPT !.blocks = Append(@, [index |-> e.index, who |-> e.who, closes |-> 0,
                                              content |-> <<>>])]
    [] e.type = "fill" /\ e.index = None -> [client EXCEPT !.text = @ \o e.frags]
    [] e.type = "fill" /\ e.index + 1 \in DOMAIN client.blocks ->
         [client EXCEPT !.blocks[e.index + 1].content = @ \o e.frags,
                        !.text = IF client.blocks[e.index + 1].who = Text THEN @ \o e.frags ELSE @]
    [] e.type = "close" /\ e.index + 1 \in DOMAIN client.blocks ->
         [client EXCEPT !.blocks[e.index + 1].closes = @ + 1]
    [] e.type \in {"finish", "end"} ->
         [client EXCEPT !.frame = Append(@, e.type), !.reason = IF Has("reason") THEN "said" ELSE "default"]
    [] OTHER -> [client EXCEPT !.frame = Append(@, e.type)]

Write ==
  /\ pc = "stream" /\ todo # <<>>
  /\ client' = IF bridge.to = "copy" THEN client ELSE Receive(Head(todo))
  /\ todo' = Tail(todo)
  /\ UNCHANGED <<bridge, pc, params, picky, attempt, said, writer, closing, usage, outcome>>

\* The client has gone away: the write fails and ends the call.
Disconnect ==
  /\ pc = "stream" /\ todo # <<>>
  /\ End("broken", Counted(TRUE))
  /\ UNCHANGED <<bridge, params, picky, attempt, said, writer, closing, usage, client>>

Return ==
  /\ pc = "stream" /\ todo = <<>> /\ closing
  /\ End("done", Counted(FALSE))
  /\ UNCHANGED <<bridge, params, picky, attempt, said, writer, closing, usage, client>>

Next ==
  \/ \E named \in SUBSET Params : Retry(named) \/ GiveUp(named)
  \/ FailCall \/ Accept
  \/ \E u \in Utterances : Say(u)
  \/ Break \/ Write \/ Disconnect \/ Return

Spec == Init /\ [][Next]_vars

-----------------------------------------------------------------------------
TypeOK ==
  /\ bridge \in [up : {"openai", "anthropic", "bedrock"}, to : {"message", "chunks", "copy"},
                 usage : BOOLEAN]
  /\ pc \in {"call", "stream", "ended"}
  /\ params \subseteq Params /\ picky \subseteq Params /\ attempt \in 0..2
  /\ said \in Seq(Utterances)
  /\ closing \in BOOLEAN
  /\ usage \in {"none", "partial", "reported"}
  /\ outcome \in [end : {"none", "refused", "rejected", "failed", "broken", "done"},
                  usage : {"none", "partial", "estimated", "reported"}]

\* Two retries are enough: a call is never given up while the upstream names a parameter
\* that could have been left out.  (callOpenAINonStreamingWithParamRetry and the loops of
\* the streams, "attempt < 2".)
RetriesSuffice == outcome.end # "rejected"

\* What the client of a message sees is a message, whatever the upstream interleaves and
\* wherever it breaks off.  (anthropicOpenAIStreamState.)
Of(to, part) == IF bridge.to = to THEN part ELSE <<>>
Message == INSTANCE MessageStream
             WITH frame <- Of("message", client.frame), blocks <- Of("message", client.blocks)
MessageWellFormed == Message!Spec

\* What the client of a chat completion sees is one, with [DONE] at the very end.
\* (proxyAnthropicStreamAsOpenAI, proxyBedrockOpenAIStream.)
Chunks == INSTANCE ChunkStream
            WITH frame <- Of("chunks", client.frame), text <- Of("chunks", client.text),
                 calls <- Of("chunks", client.blocks)
ChunksWellFormed == Chunks!Spec

\* Fragments that the upstream has said of text, or of the input of a tool.
SaidBy(who) ==
  FlattenSeq([i \in DOMAIN said |-> IF said[i].who = who /\ said[i].args THEN <<i>> ELSE <<>>])
HeardOf(who) ==
  FlattenSeq([i \in DOMAIN client.blocks |->
                IF client.blocks[i].who = who THEN client.blocks[i].content ELSE <<>>])

\* Nothing is lost, repeated, put into another order or given to another tool: the client
\* has a prefix of each text and input that was said, and all of it when the stream is done.
NothingLost ==
  bridge.to # "copy" =>
    /\ IsPrefix(client.text, SaidBy(Text))
    /\ \A k \in Tools : IsPrefix(HeardOf(k), SaidBy(k))
    /\ outcome.end = "done" =>
         /\ client.text = SaidBy(Text)
         /\ \A k \in Tools : HeardOf(k) = SaidBy(k)
         /\ {client.blocks[i].who : i \in DOMAIN client.blocks} \ {Text} = Mentioned
         /\ Has("reason") => client.reason = "said"

\* A stream that ends well is charged for: with the usage that was reported, or an estimate.
\* Bedrock and Anthropic always report, unless they are cut off.  (docs/API_USAGE.md:148.)
DoneIsCounted ==
  outcome.end = "done" =>
    /\ usage = "reported" => outcome.usage = "reported"
    /\ bridge.up = "openai" => outcome.usage \in {"estimated", "reported"}

\* What an upstream reports is what goes to the ledger, however the stream ends.
\* (docs/API_USAGE.md:148.)
ReportedIsCounted == pc = "ended" /\ usage = "reported" => outcome.usage = "reported"
=============================================================================

---------------------------- MODULE Conversation ----------------------------
(***************************************************************************)
(* Conversations of a client with models behind different protocols.       *)
(*                                                                         *)
(* The client keeps the history and sends all of it with every request.    *)
(* The gateway applies the guardrails, translates the history to the       *)
(* protocol of the upstream that the route has chosen this time, and the   *)
(* answer back, which the client adds to its history.                      *)
(*                                                                         *)
(* Both protocols have messages with parts: texts, images (as data or as   *)
(* the address of one), calls of tools, results of calls, thoughts, and    *)
(* others that no translation knows (documents, sounds).  A message of     *)
(* OpenAI has its calls last, and one message of role "tool" for each      *)
(* result, which is a text; in Anthropic's they are parts like others,     *)
(* results in the user's messages, and may have images among their texts.  *)
(* White space counts as no text.                                          *)
(***************************************************************************)
EXTENDS Guardrails, FiniteSets

CONSTANTS
  Clients,      \* protocols of clients, a subset of {"openai", "anthropic"}
  Upstreams,    \* protocols of upstreams: these and "bedrock"
  SomePolicies, \* policies that administrators choose
  UserShapes,   \* what users say: sequences of kinds of parts
  AnswerShapes, \* what models answer
  Contents,     \* what a text may consist of: sequences of kinds of pieces
  MaxMessages,  \* bound on the messages of a history
  MaxSpecial    \* bound on those that are blank, have more than plain pieces, an image
                \* by its address or a part that no translation knows; only the first
                \* request has a choice of tools

ASSUME ProtocolsAssumption ==
  Clients \subseteq {"openai", "anthropic"} /\ Upstreams \subseteq {"openai", "anthropic", "bedrock"}
ASSUME PoliciesAssumption == SomePolicies \subseteq Policies /\ MaxMessages \in Nat
ASSUME ShapesAssumption ==
  /\ UserShapes \subseteq Seq({"text", "data", "url", "other"})
  /\ AnswerShapes \subseteq Seq({"text", "thought", "call"})
  /\ Contents \subseteq Seq({"plain", "email", "code", "named", "image"})

VARIABLES
  client,   \* the client's protocol
  history,  \* the client's messages, in its protocol
  policy,   \* the stored guardrail policy
  held,     \* the policy that the request in progress has read
  choice,   \* what the client says of calling tools, in its protocol
  request,  \* what the upstream was sent, in its protocol
  asks,     \* and what it was told of calling tools
  upstream, \* which upstream
  phase,    \* "chat", "asked" or "refused"
  refusal,  \* the protocol in which the client was refused
  said,     \* what was said to or by the models: numbers of texts and of calls
  next      \* the next number of a piece

vars == <<client, history, policy, held, choice, request, asks, upstream, phase, refusal, said, next>>

-----------------------------------------------------------------------------
\* Parts and messages.

\* SelectSeq, written as what it concatenates.
Where(s, Keep(_)) == FlattenSeq([i \in DOMAIN s |-> IF Keep(s[i]) THEN <<s[i]>> ELSE <<>>])
OfKind(parts, kinds) == Where(parts, LAMBDA p : p.kind \in kinds)
Joined(parts) ==
  FlattenSeq([i \in DOMAIN parts |-> IF parts[i].kind = "text" THEN parts[i].text ELSE <<>>])
Text(text) == IF text = <<>> THEN <<>> ELSE <<Part("text", text, 0)>>

\* The texts of a result, without its images.
TextsOnly(text) == Where(text, LAMBDA piece : piece.is # "image")

\* A message without parts is left out.  (Also the mutant of AppendParts: messages of one
\* role are not merged.)
AppendAlways(messages, role, parts) ==
  IF parts = <<>> THEN messages ELSE Append(messages, Message(role, parts))

\* openAIMessagesToAnthropic, appendBlocks.
AppendParts(messages, role, parts) ==
  IF parts = <<>> THEN messages
  ELSE IF messages # <<>> /\ Last(messages).role = role
  THEN [messages EXCEPT ![Len(messages)].parts = @ \o parts]
  ELSE Append(messages, Message(role, parts))

-----------------------------------------------------------------------------
\* Requests.

\* The system's messages become one text beside the others.
SystemOf(messages) ==
  AppendParts(<<>>, "system",
    Text(FlattenSeq([i \in DOMAIN messages |->
                       IF messages[i].role = "system" THEN Joined(messages[i].parts) ELSE <<>>])))

\* A part that openAIUserMessageToAnthropic keeps.
Known(p) == p.kind # "other" /\ (p.kind # "text" \/ p.text # <<>>)

TurnToAnthropic(turns, m) ==
  CASE m.role = "system"    -> turns
    [] m.role = "assistant" -> AppendParts(turns, "assistant",
                                           Text(Joined(m.parts)) \o OfKind(m.parts, {"call"}))
    [] m.role = "tool"      -> AppendParts(turns, "user", m.parts)
    [] OTHER -> AppendParts(turns, "user", Where(m.parts, Known))
ToAnthropic(messages) == SystemOf(messages) \o FoldLeft(TurnToAnthropic, <<>>, messages)

\* openAIContentBlocks: texts between images are joined.
AddBlock(blocks, p) ==
  CASE p.kind = "text" /\ p.text = <<>> -> blocks
    [] p.kind = "text" /\ p.text # <<>> /\ blocks # <<>> /\ Last(blocks).kind = "text" ->
         [blocks EXCEPT ![Len(blocks)].text = @ \o p.text]
    [] OTHER -> Append(blocks, p)
BedrockBlocks(parts) == FoldLeft(AddBlock, <<>>, parts)

\* What waits becomes a message of the user.
Nothing == [out |-> <<>>, held |-> <<>>]
Flush(s) == [out |-> AppendAlways(s.out, "user", s.held), held |-> <<>>]

\* Results wait until the run of them ends.  Messages of one role are not merged.
TurnToBedrock(s, m) ==
  CASE m.role = "system" -> s
    [] m.role = "tool"   -> [s EXCEPT !.held = @ \o m.parts]
    [] OTHER -> [Flush(s) EXCEPT !.out = AppendAlways(@, m.role, BedrockBlocks(m.parts))]
ToBedrock(messages) ==
  SystemOf(messages) \o Flush(FoldLeft(TurnToBedrock, Nothing, messages)).out

\* A result ends what the user has said before; of it the texts are kept.  Images that are
\* given by their address are left out, and parts that are no text, image or result.
PartToOpenAI(s, p) ==
  CASE p.kind = "result" ->
         [Flush(s) EXCEPT !.out = Append(@, Message("tool", <<[p EXCEPT !.text = TextsOnly(@)]>>))]
    [] p.kind # "result" /\ (p.kind \in {"url", "other"} \/ p.text = <<>>) -> s
    [] OTHER -> [s EXCEPT !.held = Append(@, p)]
NotEmpty(messages) ==
  IF messages = <<>> THEN <<Message("user", <<Part("text", <<>>, 0)>>)>> ELSE messages

\* Mutant of UserToOpenAI: what comes after the last result is left out.
UserToOpenAIUnflushed(parts) == NotEmpty(FoldLeft(PartToOpenAI, Nothing, parts).out)

\* anthropicUserMessageToOpenAI: a message for each result and for what is between them.
UserToOpenAI(parts) == NotEmpty(Flush(FoldLeft(PartToOpenAI, Nothing, parts)).out)

AssistantToOpenAI(parts) ==
  <<Message("assistant", <<Part("text", Joined(parts), 0)>> \o OfKind(parts, {"call"}))>>

ToOpenAI(messages) ==
  FlattenSeq([i \in DOMAIN messages |->
    CASE messages[i].role = "assistant" -> AssistantToOpenAI(messages[i].parts)
      [] messages[i].role = "system"    -> SystemOf(<<messages[i]>>)
      [] OTHER -> UserToOpenAI(messages[i].parts)])

\* Arguments are parsed on the way to a protocol that has them as an object.
Parses(messages) ==
  \A text \in TextsOf(messages) : \A i \in DOMAIN text : text[i].is # "broken"
\* A part that openAIContentBlocks refuses.
HasRefused(messages) ==
  \E i \in DOMAIN messages : \E j \in DOMAIN messages[i].parts :
    messages[i].parts[j].kind \in {"url", "other"}
HasTurn(messages) == \E i \in DOMAIN messages : messages[i].role # "system"

\* What is sent to an upstream, and whether the history can be translated for it.
Translated(up, messages) ==
  LET openai == IF client = "openai" THEN messages ELSE ToOpenAI(messages)
  IN  CASE up = client   -> messages
        [] up = "openai" /\ up # client -> openai
        [] up = "bedrock" -> ToBedrock(openai)
        [] OTHER          -> ToAnthropic(messages)

Translatable(up, messages) ==
  up # client =>
    /\ up \in {"anthropic", "bedrock"} => Parses(messages) /\ HasTurn(Translated(up, messages))
    /\ up = "bedrock" /\ client = "openai" => ~HasRefused(messages)

\* The choice of tools.  Bedrock is not told of any tool when none may be called.
OpenAIChoices == {"no tools", "unset", "auto", "none", "required", "function"}
AnthropicChoices == {"no tools", "unset", "auto", "none", "any", "tool"}
ChoiceToAnthropic(c) == CASE c = "required" -> "any" [] c = "function" -> "tool" [] OTHER -> c
ChoiceToOpenAI(c) == CASE c = "any" -> "required" [] c = "tool" -> "function" [] OTHER -> c
ChoiceToBedrock(c) == IF c = "none" THEN "no tools" ELSE ChoiceToAnthropic(c)
ChoiceFor(up) ==
  LET openai == IF client = "openai" THEN choice ELSE ChoiceToOpenAI(choice)
  IN  CASE up = client    -> choice
        [] up = "openai" /\ up # client -> openai
        [] up = "bedrock" -> ChoiceToBedrock(openai)
        [] OTHER          -> ChoiceToAnthropic(openai)

-----------------------------------------------------------------------------
\* Answers: from the protocol of an upstream to that of the client.

\* openAIResponseFromAnthropic, openAIResponseFromBedrock: thoughts are left out.
AnswerToOpenAI(parts) == Text(Joined(parts)) \o OfKind(parts, {"call"})

\* anthropicResponseFromOpenAI: thoughts stand in for a text that is missing, and an id
\* that is missing is made up, a new one each time: negative, by the answer's number (next)
\* and the call's place.
AnswerToAnthropic(parts) ==
  LET thoughts == OfKind(parts, {"thought"})
      calls == OfKind(parts, {"call"})
      all == (IF Joined(parts) # <<>> THEN OfKind(parts, {"text"})
              ELSE [i \in DOMAIN thoughts |-> [thoughts[i] EXCEPT !.kind = "text"]])
             \o [i \in DOMAIN calls |->
                   [calls[i] EXCEPT !.id = IF @ = 0 THEN 0 - (next + i) ELSE @]]
  IN  IF all = <<>> THEN <<Part("text", <<>>, 0)>> ELSE all

AnswerFor(parts) ==
  CASE upstream = client -> parts
    [] upstream # client /\ client = "openai"    -> AnswerToOpenAI(parts)
    [] client # "openai" /\ upstream = "bedrock" -> AnswerToAnthropic(AnswerToOpenAI(parts))
    [] OTHER -> AnswerToAnthropic(parts)

-----------------------------------------------------------------------------
\* The client's side.

CutOff == <<"broken">>  \* arguments that do not parse

\* A piece that may stand in a part of this kind.
Fitting(kind, is) ==
  CASE is = "broken" -> kind = "call"
    [] is = "named"  -> kind = "call" /\ client = "anthropic"
    [] is = "image"  -> kind = "result" /\ client = "anthropic"
    [] OTHER         -> TRUE

TextFrom(kind, n, content) ==
  [j \in DOMAIN content |->
     Piece(n * 10 + j, IF Fitting(kind, content[j]) THEN content[j] ELSE "plain")]
PartsOf(shape, content) ==
  [i \in DOMAIN shape |->
     Part(shape[i], TextFrom(shape[i], next + i, content), IF shape[i] = "call" THEN next + i ELSE 0)]

Nums(text) == [j \in DOMAIN TextsOnly(text) |-> TextsOnly(text)[j].n]
Numbers(parts, kinds) ==
  FlattenSeq([i \in DOMAIN parts |-> IF parts[i].kind \in kinds THEN Nums(parts[i].text) ELSE <<>>])
Content == {"text", "data", "url", "result"}
Kept == IF client = "openai" THEN Content ELSE Content \ {"url"}
Remember(parts, kinds) ==
  said' = [texts |-> said.texts \o Numbers(parts, kinds),
           calls |-> said.calls \o Numbers(parts, {"call"})]

AllParts(messages) == FlattenSeq([i \in DOMAIN messages |-> messages[i].parts])
Ids(parts, kind) == {parts[i].id : i \in {j \in DOMAIN parts : parts[j].kind = kind}}
Open == Ids(AllParts(history), "call") \ Ids(AllParts(history), "result")

IsPlain(parts) ==
  /\ parts # <<>>
  /\ \A i \in DOMAIN parts : /\ parts[i].kind \notin {"url", "other"}
                            /\ \A j \in DOMAIN parts[i].text : parts[i].text[j].is = "plain"
Sayable(parts) ==
  /\ history = <<>> \/ choice = "unset"
  /\ IsPlain(parts) \/ Cardinality({i \in DOMAIN history : ~IsPlain(history[i].parts)}) < MaxSpecial

Init ==
  /\ client \in Clients
  /\ history = <<>> /\ request = <<>> /\ upstream = "none"
  /\ policy \in SomePolicies /\ held = policy
  /\ choice \in (IF client = "openai" THEN OpenAIChoices ELSE AnthropicChoices) /\ asks = "unset"
  /\ phase = "chat" /\ refusal = "none"
  /\ said = [texts |-> <<>>, calls |-> <<>>] /\ next = 1

Chat(message) ==
  /\ phase = "chat" /\ Len(history) < MaxMessages /\ Sayable(message.parts)
  /\ history' = Append(history, message)
  /\ next' = next + Len(message.parts)
  /\ Remember(IF message.role = "system" THEN <<>> ELSE message.parts, Kept)
  /\ held' = policy
  /\ UNCHANGED <<client, policy, choice, request, asks, upstream, phase, refusal>>

\* Only OpenAI has messages of the system after the first.
System(content) ==
  /\ client = "openai" \/ history = <<>>
  /\ Open = {} /\ ~\E i \in DOMAIN history : history[i].role = "system"
  /\ Chat(Message("system", PartsOf(<<"text">>, content)))

User(shape, content) == Open = {} /\ Chat(Message("user", PartsOf(shape, content)))

\* The results of all calls of the last answer, for Anthropic in one message, which
\* may also say something.
Result(id, n, content) == Part("result", TextFrom("result", n, content), id)
ToolResult(content) ==
  /\ client = "openai"
  /\ \E id \in Open : Chat(Message("tool", <<Result(id, next + 1, content)>>))
ToolResults(content, more) ==
  /\ client = "anthropic" /\ Open # {}
  /\ LET ids == SetToSeq(Open)
         results == [i \in DOMAIN ids |-> Result(ids[i], next + i, content)]
         text == IF more THEN <<Part("text", TextFrom("text", next + Len(ids) + 1, content), 0)>> ELSE <<>>
     IN  Chat(Message("user", results \o text))

-----------------------------------------------------------------------------
\* The gateway's side.

Refuse(protocol) == phase' = "refused" /\ refusal' = protocol

\* The request reads the policy, and keeps it for the answer.
Ask(up) ==
  /\ phase = "chat" /\ Open = {} /\ history # <<>> /\ Last(history).role # "assistant"
  /\ held' = policy
  /\ \/ /\ Blocked(policy, "input", history)
        /\ Refuse(client)
        /\ UNCHANGED <<request, asks, upstream>>
     \/ /\ ~Blocked(policy, "input", history)
        /\ upstream' = up
        /\ LET clean == Redacted(policy, "input", history)
           IN  IF Translatable(up, clean)
               THEN /\ request' = Translated(up, clean) /\ asks' = ChoiceFor(up)
                    /\ phase' = "asked" /\ UNCHANGED refusal
               ELSE Refuse(client) /\ UNCHANGED <<request, asks>>
  /\ UNCHANGED <<client, history, policy, choice, said, next>>

\* What an upstream may answer.  One of OpenAI's protocol has its calls last, their
\* arguments may be cut off, and for some their ids are missing.
MayAnswer(shape, content, ids) ==
  /\ ids \/ (upstream = "openai" /\ client = "anthropic")
  /\ content = CutOff => upstream = "openai" /\ "call" \in Range(shape)
  /\ upstream = "openai" => \A i, j \in DOMAIN shape : i < j /\ shape[i] = "call" => shape[j] = "call"

\* What a client should hear of an answer, besides its calls: its texts; when it has none, a
\* client of Anthropic's protocol hears the thoughts of an upstream of OpenAI's.
Heard(parts) ==
  IF client = "anthropic" /\ upstream = "openai" /\ Joined(parts) = <<>> THEN {"thought"} ELSE Kept

\* The answer is translated first.  A refusal of its contents has the shape of the
\* protocol that the result names, which is the upstream's for translated answers of
\* an Anthropic upstream.
Answer(shape, content, ids) ==
  /\ phase = "asked" /\ MayAnswer(shape, content, ids)
  /\ LET parts  == [i \in DOMAIN shape |->
                      [PartsOf(shape, content)[i] EXCEPT !.id = IF ids THEN @ ELSE 0]]
         answer == <<Message("assistant", AnswerFor(parts))>>
     IN  /\ Sayable(parts)
         /\ \/ /\ content = CutOff /\ client = "anthropic"
               /\ Refuse(client) /\ UNCHANGED <<history, said>>
            \/ /\ content # CutOff \/ client = "openai"
               /\ Blocked(held, "output", answer)
               /\ Refuse(IF upstream = "anthropic" THEN "anthropic" ELSE client)
               /\ UNCHANGED <<history, said>>
            \/ /\ content # CutOff \/ client = "openai"
               /\ ~Blocked(held, "output", answer)
               /\ history' = history \o Redacted(held, "output", answer)
               /\ Remember(parts, Heard(parts))
               /\ phase' = "chat" /\ UNCHANGED refusal
  /\ next' = next + Len(shape)
  /\ request' = <<>> /\ asks' = "unset" /\ upstream' = "none"
  /\ UNCHANGED <<client, policy, held, choice>>

\* An administrator replaces the policy.  When nothing is asked, the next request reads
\* the same as if the policy had been replaced during the one before.
UpdatePolicy(p) ==
  /\ phase = "asked" /\ p # policy
  /\ policy' = p
  /\ UNCHANGED <<client, history, held, choice, request, asks, upstream, phase, refusal, said, next>>

Next ==
  \/ \E content \in Contents :
       \/ System(content) \/ ToolResult(content)
       \/ \E shape \in UserShapes : User(shape, content)
       \/ \E more \in BOOLEAN : ToolResults(content, more)
  \/ \E up \in Upstreams : Ask(up)
  \/ \E shape \in AnswerShapes, content \in Contents \cup {CutOff}, ids \in BOOLEAN : Answer(shape, content, ids)
  \/ \E p \in SomePolicies : UpdatePolicy(p)

Spec == Init /\ [][Next]_vars

-----------------------------------------------------------------------------
Asked == phase = "asked"
Turns == Where(request, LAMBDA m : m.role # "system")

\* No text, image or result that was said on either side is lost, repeated or put into
\* another order among these on the way to any upstream, whichever upstreams have answered
\* before; neither is a call among the calls; and the client's choice of tools keeps its
\* meaning.  This excepts what the translations leave out: thoughts; images that a client of
\* Anthropic's protocol gives by address or has in a result; and any part of a user's
\* message that is no text, image or result, as a document.  Whether a call comes before or
\* after the texts of its message is not kept: OpenAI's protocol has the calls last.
\* (openAIMessagesToAnthropic, anthropicMessagesToOpenAI, bedrockConverseInput, and the
\* translations of answers.)
Means(c) ==
  CASE c \in {"required", "any"}  -> "must call"
    [] c \in {"function", "tool"} -> "must call the one"
    [] c \in {"none", "no tools"} -> "must not call"
    [] OTHER                      -> "may call"
NothingLost ==
  Asked => /\ Numbers(AllParts(Turns), Kept) = said.texts
           /\ Numbers(AllParts(Turns), {"call"}) = said.calls
           /\ Means(asks) = Means(choice)

\* Results follow their calls: all of them, and nothing before them, in the turn (for
\* OpenAI, the turns) after the one that calls.
CallsAnswered ==
  Asked => \A i \in DOMAIN Turns :
    LET calls == Ids(Turns[i].parts, "call")
        after == IF upstream = "openai"
                 THEN AllParts(SubSeq(Turns, i + 1, i + Cardinality(calls)))
                 ELSE IF i < Len(Turns) THEN Turns[i + 1].parts ELSE <<>>
    IN  calls # {} =>
          /\ 0 \notin calls
          /\ Cardinality(calls) <= Len(after)
          /\ Ids(SubSeq(after, 1, Cardinality(calls)), "result") = calls
\* Requests to Anthropic alternate.
RolesAlternate ==
  Asked /\ upstream = "anthropic" /\ client = "openai" =>
    \A i \in 1..Len(Turns) - 1 : Turns[i].role # Turns[i + 1].role

\* The protocols' demands on the turns of a request.  (The comment at
\* bridge_openai_anthropic.go:117-120.)
TurnsFit == CallsAnswered /\ RolesAlternate

\* What a policy looks for is not in the request that has read it, nor in the answer, even
\* when the policy changes while the upstream answers.  This excepts what is "named": a
\* string under a name such as "id", "type" or "provider" in the arguments of a call that a
\* client of Anthropic's protocol sends or gets, and the names there.  (applyGuardrailToMap,
\* applyOutputGuardrailsToResult; guardrailSkipStringKey.)
SecretsStay ==
  /\ Asked => Clean(held, "input", request)
  /\ phase = "chat" /\ history # <<>> /\ Last(history).role = "assistant" =>
       Clean(held, "output", <<Last(history)>>)

\* A client is refused in its own protocol.
RefusedInKind == refusal \in {"none", client}
=============================================================================

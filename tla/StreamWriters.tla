--------------------------- MODULE StreamWriters ---------------------------
(***************************************************************************)
(* The two translators of streams, as functions from a translator's state  *)
(* and one thing that the upstream says to a new state and the events that *)
(* are written to the client.                                              *)
(*                                                                         *)
(* Text is known by fragments.  A tool is known by the index that its      *)
(* upstream gives it, which is also what its id stands for.                *)
(***************************************************************************)
EXTENDS Integers, Sequences, SequencesExt

Text == -1   \* what a block holds that is no tool's
None == -1   \* no block

Put(f, x, y) == [z \in DOMAIN f \cup {x} |-> IF z = x THEN y ELSE f[z]]

\* An event: its type, the number of its block, whose block it is, its fragments.
Event(type, index, who, frags) == [type |-> type, index |-> index, who |-> who, frags |-> frags]
Mark(type) == Event(type, None, Text, <<>>)

Result(writer, events) == [writer |-> writer, events |-> events]

-----------------------------------------------------------------------------
\* anthropicOpenAIStreamState: to an Anthropic message.
NewMessageWriter == [next |-> 0, text |-> None, tools |-> <<>>, order |-> <<>>]

Started(w, k) == w.tools[k].block # None
Mention(w, k) ==
  IF k \in DOMAIN w.tools THEN w
  ELSE [w EXCEPT !.tools = Put(@, k, [block |-> None, pending |-> <<>>]), !.order = Append(@, k)]

CloseText(w) == IF w.text = None THEN <<>> ELSE <<Event("close", w.text, Text, <<>>)>>
Fill(block, who, frags) == IF frags = <<>> THEN <<>> ELSE <<Event("fill", block, who, frags)>>

WriteTextDelta(w, frag) ==
  IF w.text # None THEN Result(w, Fill(w.text, Text, <<frag>>))
  ELSE Result([w EXCEPT !.text = w.next, !.next = @ + 1],
              <<Event("open", w.next, Text, <<>>)>> \o Fill(w.next, Text, <<frag>>))

\* Mutant of StartToolBlock: the open block of text is left open.
StartToolBlockInText(w, k) ==
  Result([w EXCEPT !.next = @ + 1, !.text = None, !.tools[k] = [block |-> w.next, pending |-> <<>>]],
         <<Event("open", w.next, k, <<>>)>> \o Fill(w.next, k, w.tools[k].pending))

\* A tool's block closes the block of text, and flushes the input that has waited.
StartToolBlock(w, k) ==
  Result([w EXCEPT !.next = @ + 1, !.text = None, !.tools[k] = [block |-> w.next, pending |-> <<>>]],
         CloseText(w) \o <<Event("open", w.next, k, <<>>)>> \o Fill(w.next, k, w.tools[k].pending))

\* Mutant of WriteToolCallDelta: input that comes before the name is dropped.
WriteToolCallDeltaNow(w0, k, named, frags) ==
  LET w1    == Mention(w0, k)
      start == IF ~Started(w1, k) /\ named THEN StartToolBlock(w1, k) ELSE Result(w1, <<>>)
      w2    == start.writer
  IN  IF Started(w2, k) THEN Result(w2, start.events \o Fill(w2.tools[k].block, k, frags))
      ELSE Result(w2, start.events)

\* One delta of a tool call.  A block starts as soon as its tool has a name or an id;
\* input that comes before waits.
WriteToolCallDelta(w0, k, named, frags) ==
  LET w1    == Mention(w0, k)
      start == IF ~Started(w1, k) /\ named THEN StartToolBlock(w1, k) ELSE Result(w1, <<>>)
      w2    == start.writer
  IN  IF Started(w2, k) THEN Result(w2, start.events \o Fill(w2.tools[k].block, k, frags))
      ELSE Result([w2 EXCEPT !.tools[k].pending = @ \o frags], start.events)

\* finish: close the text and every tool, starting those that have no name yet.  The
\* text is not forgotten, so a tool that starts only here closes it a second time.
FinishTool(r, k) ==
  LET start == IF Started(r.writer, k) THEN Result(r.writer, <<>>) ELSE StartToolBlock(r.writer, k)
  IN  Result(start.writer, r.events \o start.events
                           \o <<Event("close", start.writer.tools[k].block, k, <<>>)>>)
FinishMessage(w) ==
  LET closed == FoldLeft(FinishTool, Result(w, CloseText(w)), w.order)
  IN  Result(closed.writer, closed.events \o <<Mark("end"), Mark("stop")>>)

-----------------------------------------------------------------------------
\* The locals of proxyAnthropicStreamAsOpenAI and proxyBedrockOpenAIStream: to chunks.
NewChunkWriter == [index |-> <<>>, count |-> 0, finished |-> FALSE]

\* A tool's block gets the next number of the calls.
WriteToolStart(c, k) ==
  Result([c EXCEPT !.index = Put(@, k, c.count), !.count = @ + 1],
         <<Event("open", c.count, k, <<>>)>>)

\* Input for a block that no tool has started is dropped.  (Bedrock's would get a number
\* of its own, but Bedrock starts every block of a tool.)
WriteToolInput(c, k, frags) ==
  Result(c, IF k \in DOMAIN c.index THEN Fill(c.index[k], k, frags) ELSE <<>>)

\* Mutant of FinishChunks: the end of the connection finishes again.
FinishChunksAgain(c, includeUsage) ==
  Result([c EXCEPT !.finished = TRUE],
         <<Mark("finish")>> \o (IF includeUsage THEN <<Mark("usage")>> ELSE <<>>) \o <<Mark("done")>>)

\* finish, which may be called at the end of the message and at that of the connection.
FinishChunks(c, includeUsage) ==
  IF c.finished THEN Result(c, <<>>)
  ELSE Result([c EXCEPT !.finished = TRUE],
              <<Mark("finish")>> \o (IF includeUsage THEN <<Mark("usage")>> ELSE <<>>) \o <<Mark("done")>>)
=============================================================================

---------------------------- MODULE ChunkStream ----------------------------
(***************************************************************************)
(* What a client of the OpenAI protocol relies on when it puts a           *)
(* completion together from chunks: the role first, then text and tool     *)
(* calls numbered from zero, then the finish reason, the usage and the     *)
(* mark [DONE], each of them once, and nothing after.                      *)
(***************************************************************************)
EXTENDS Integers, Sequences

CONSTANT Tools

VARIABLES
  frame,  \* the chunks that are neither text nor tool calls
  text,   \* fragments of text
  calls   \* tool calls: number, tool, arguments

Init == frame = <<>> /\ text = <<>> /\ calls = <<>>

Rank(mark) == CASE mark = "start" -> 1 [] mark = "finish" -> 2 [] mark = "usage" -> 3 [] OTHER -> 4

\* Marks come in their order, but some of them may be missing.
Mark(mark) ==
  /\ \A i \in DOMAIN frame : Rank(frame[i]) < Rank(mark)
  /\ frame' = Append(frame, mark)
  /\ UNCHANGED <<text, calls>>

Unfinished == \A i \in DOMAIN frame : frame[i] = "start"

Extends(new, old) == Len(new) > Len(old) /\ SubSeq(new, 1, Len(old)) = old

Say == Unfinished /\ Extends(text', text) /\ UNCHANGED <<frame, calls>>

Call(tool) ==
  /\ Unfinished /\ \A i \in DOMAIN calls : calls[i].who # tool
  /\ calls' = Append(calls, [index |-> Len(calls), who |-> tool, closes |-> 0, content |-> <<>>])
  /\ UNCHANGED <<frame, text>>

Argue(i) ==
  /\ Unfinished
  /\ DOMAIN calls' = DOMAIN calls /\ Extends(calls'[i].content, calls[i].content)
  /\ calls' = [calls EXCEPT ![i].content = calls'[i].content]
  /\ UNCHANGED <<frame, text>>

Next ==
  \/ \E mark \in {"start", "finish", "usage", "done"} : Mark(mark)
  \/ Say
  \/ \E tool \in Tools : Call(tool)
  \/ \E i \in DOMAIN calls : Argue(i)

Spec == Init /\ [][Next]_<<frame, text, calls>>
=============================================================================

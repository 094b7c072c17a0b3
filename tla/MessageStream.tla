--------------------------- MODULE MessageStream ---------------------------
(***************************************************************************)
(* What a client of the Anthropic protocol relies on when it puts a        *)
(* message together from a stream: blocks are numbered from zero, each is  *)
(* opened, filled and closed once, one text at a time, and the message     *)
(* ends once, when every block is closed.  Blocks of different tools may   *)
(* be open at the same time.                                               *)
(***************************************************************************)
EXTENDS Integers, Sequences

CONSTANTS Text, Tools  \* what a block may hold: text, or the input of a tool

VARIABLES
  frame,   \* events about the message as a whole
  blocks   \* content blocks: number, holder, how often it was closed, content

Init == frame = <<>> /\ blocks = <<>>

Begin == frame = <<>> /\ frame' = <<"start">> /\ UNCHANGED blocks

IsOpen(i) == i \in DOMAIN blocks /\ blocks[i].closes = 0

Open(who) ==
  /\ frame = <<"start">>
  /\ who = Text => \A i \in DOMAIN blocks : blocks[i].who = Text => ~IsOpen(i)
  /\ who \in Tools => \A i \in DOMAIN blocks : blocks[i].who # who
  /\ blocks' = Append(blocks, [index |-> Len(blocks), who |-> who, closes |-> 0, content |-> <<>>])
  /\ UNCHANGED frame

Fill(i) ==
  /\ frame = <<"start">> /\ IsOpen(i)
  /\ LET old == blocks[i].content
         new == blocks'[i].content
     IN  /\ DOMAIN blocks' = DOMAIN blocks
         /\ Len(new) > Len(old) /\ SubSeq(new, 1, Len(old)) = old
         /\ blocks' = [blocks EXCEPT ![i].content = new]
  /\ UNCHANGED frame

Close(i) ==
  /\ frame = <<"start">> /\ IsOpen(i)
  /\ blocks' = [blocks EXCEPT ![i].closes = 1]
  /\ UNCHANGED frame

End ==
  /\ frame = <<"start">> /\ \A i \in DOMAIN blocks : ~IsOpen(i)
  /\ frame' = <<"start", "end">>
  /\ UNCHANGED blocks

Stop ==
  /\ frame = <<"start", "end">>
  /\ frame' = <<"start", "end", "stop">>
  /\ UNCHANGED blocks

Next ==
  \/ Begin \/ End \/ Stop
  \/ \E who \in Tools \cup {Text} : Open(who)
  \/ \E i \in DOMAIN blocks : Fill(i) \/ Close(i)

Spec == Init /\ [][Next]_<<frame, blocks>>
=============================================================================

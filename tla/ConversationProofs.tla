------------------------- MODULE ConversationProofs -------------------------
(***************************************************************************)
(* Proofs about Conversation, for any shapes of what is said and answered, *)
(* any number of messages, and any policies.  The translations are folds   *)
(* and concatenations, so what is said of them is said in three ways: what *)
(* they are typed by (which pieces a message is made of), what they        *)
(* preserve (the numbers of what was said), and what follows what (the     *)
(* turns of the two roles, and calls and their results).                   *)
(***************************************************************************)
EXTENDS Conversation, FiniteFolds

-----------------------------------------------------------------------------
\* Messages by the marks of their pieces, I, and the ids of their calls, D.  The names
\* of these sets are what the provers go by.

Marks == {"plain", "email", "code", "named", "image", "broken", "mark"}
Kinds == {"text", "data", "url", "other", "call", "result", "thought"}
Voice == {"text", "thought", "call"}
Roles == {"system", "user", "assistant", "tool"}

Pieces(I) == [n : Int, is : I]
Texts(I) == Seq(Pieces(I))
Parts(I, D) == [kind : Kinds, text : Texts(I), id : D]
PartLists(I, D) == Seq(Parts(I, D))
Messages(I, D) == [role : Roles, parts : PartLists(I, D)]
MessageLists(I, D) == Seq(Messages(I, D))

\* What models say, and the messages of a history.
Voices(I, D) == [kind : Voice, text : Texts(I), id : D]
Talk(I, D) == [role : {"assistant"}, parts : Seq(Voices(I, D))]
              \cup [role : Roles \ {"assistant"}, parts : PartLists(I, D)]
Talks(I, D) == Seq(Talk(I, D))

LEMMA VoicesAreParts ==
  ASSUME NEW I, NEW D
  PROVE  Voices(I, D) \subseteq Parts(I, D) /\ Seq(Voices(I, D)) \subseteq PartLists(I, D)
<1>1. Voices(I, D) \subseteq Parts(I, D)
  BY DEF Voices, Parts, Voice, Kinds
<1> QED
  BY <1>1, SeqMonotonic DEF PartLists

LEMMA TalkIsMessages ==
  ASSUME NEW I, NEW D
  PROVE  Talk(I, D) \subseteq Messages(I, D) /\ Talks(I, D) \subseteq MessageLists(I, D)
<1>1. Talk(I, D) \subseteq Messages(I, D)
  BY VoicesAreParts DEF Talk, Messages, Roles
<1> QED
  BY <1>1, SeqMonotonic DEF Talks, MessageLists

LEMMA PartMade ==
  ASSUME NEW I, NEW D, NEW kind \in Kinds, NEW text \in Texts(I), NEW id \in D
  PROVE  Part(kind, text, id) \in Parts(I, D)
BY DEF Part, Parts

LEMMA MessageMade ==
  ASSUME NEW I, NEW D, NEW role \in Roles, NEW parts \in PartLists(I, D)
  PROVE  Message(role, parts) \in Messages(I, D)
BY DEF Message, Messages

LEMMA MoreMessages ==
  ASSUME NEW I, NEW D, NEW ms \in MessageLists(I, D), NEW more \in MessageLists(I, D)
  PROVE  ms \o more \in MessageLists(I, D)
BY ConcatProperties DEF MessageLists

LEMMA MoreParts ==
  ASSUME NEW I, NEW D, NEW parts \in PartLists(I, D), NEW more \in PartLists(I, D)
  PROVE  parts \o more \in PartLists(I, D)
BY ConcatProperties DEF PartLists

-----------------------------------------------------------------------------
\* What the translations are made of keeps the types.

LEMMA OfKindType ==
  ASSUME NEW Y, NEW parts \in Seq(Y), NEW kinds
  PROVE  OfKind(parts, kinds) \in Seq(Y)
<1> DEFINE ss == [i \in DOMAIN parts |-> IF parts[i].kind \in kinds THEN <<parts[i]>> ELSE <<>>]
<1>1. DOMAIN parts = 1..Len(parts) /\ Len(parts) \in Nat /\ \A i \in DOMAIN parts : parts[i] \in Y
  OBVIOUS
<1>2. \A i \in DOMAIN parts : ss[i] \in Seq(Y)
  BY <1>1
<1>3. ss \in Seq(Seq(Y))
  BY <1>1, <1>2
<1> QED
  BY <1>3, FlattenType DEF OfKind, Where

LEMMA TextsOnlyType ==
  ASSUME NEW I, NEW text \in Texts(I)
  PROVE  TextsOnly(text) \in Texts(I)
<1> DEFINE ss == [i \in DOMAIN text |-> IF text[i].is # "image" THEN <<text[i]>> ELSE <<>>]
<1>1. DOMAIN text = 1..Len(text) /\ Len(text) \in Nat /\ \A i \in DOMAIN text : text[i] \in Pieces(I)
  BY DEF Texts
<1>2. \A i \in DOMAIN text : ss[i] \in Seq(Pieces(I))
  BY <1>1
<1>3. ss \in Seq(Seq(Pieces(I)))
  BY <1>1, <1>2
<1> QED
  BY <1>3, FlattenType DEF TextsOnly, Where, Texts

LEMMA SaidType ==
  ASSUME NEW I, NEW D, NEW parts \in PartLists(I, D)
  PROVE  Where(parts, Known) \in PartLists(I, D)
<1> DEFINE ss == [i \in DOMAIN parts |-> IF Known(parts[i]) THEN <<parts[i]>> ELSE <<>>]
<1>1. DOMAIN parts = 1..Len(parts) /\ Len(parts) \in Nat /\ \A i \in DOMAIN parts : parts[i] \in Parts(I, D)
  BY DEF PartLists
<1>2. \A i \in DOMAIN parts : ss[i] \in Seq(Parts(I, D))
  BY <1>1
<1>3. ss \in Seq(Seq(Parts(I, D)))
  BY <1>1, <1>2
<1> QED
  BY <1>3, FlattenType DEF Where, PartLists

LEMMA JoinedType ==
  ASSUME NEW I, NEW D, NEW parts \in PartLists(I, D)
  PROVE  Joined(parts) \in Texts(I)
<1> DEFINE ss == [i \in DOMAIN parts |-> IF parts[i].kind = "text" THEN parts[i].text ELSE <<>>]
<1>1. DOMAIN parts = 1..Len(parts) /\ Len(parts) \in Nat /\ \A i \in DOMAIN parts : parts[i] \in Parts(I, D)
  BY DEF PartLists
<1>2. <<>> \in Texts(I) /\ \A i \in DOMAIN parts : parts[i].text \in Texts(I)
  BY <1>1 DEF Parts, Texts
<1>3. ss \in Seq(Texts(I))
  BY <1>1, <1>2
<1> QED
  BY <1>3, FlattenType DEF Joined, Texts

LEMMA TextType ==
  ASSUME NEW I, NEW D, 0 \in D, NEW text \in Texts(I)
  PROVE  Text(text) \in PartLists(I, D)
<1>1. Part("text", text, 0) \in Parts(I, D)
  BY PartMade DEF Kinds
<1> QED
  BY <1>1 DEF Text, PartLists

LEMMA AppendAlwaysType ==
  ASSUME NEW I, NEW D, NEW ms \in MessageLists(I, D), NEW role \in Roles, NEW parts \in PartLists(I, D)
  PROVE  AppendAlways(ms, role, parts) \in MessageLists(I, D)
<1>1. Message(role, parts) \in Messages(I, D)
  BY MessageMade
<1> QED
  BY <1>1 DEF AppendAlways, MessageLists

LEMMA AppendPartsType ==
  ASSUME NEW I, NEW D, NEW ms \in MessageLists(I, D), NEW role \in Roles, NEW parts \in PartLists(I, D)
  PROVE  AppendParts(ms, role, parts) \in MessageLists(I, D)
<1>1. Append(ms, Message(role, parts)) \in MessageLists(I, D)
  BY MessageMade DEF MessageLists
<1>2. ASSUME ms # <<>>, Last(ms).role = role
      PROVE  [ms EXCEPT ![Len(ms)].parts = @ \o parts] \in MessageLists(I, D)
  <2> DEFINE m == ms[Len(ms)]
             new == [m EXCEPT !.parts = @ \o parts]
  <2>1. Len(ms) \in DOMAIN ms /\ m \in Messages(I, D)
    BY <1>2 DEF MessageLists
  <2>2. m.parts \o parts \in PartLists(I, D)
    BY <2>1, MoreParts DEF Messages
  <2>3. new \in Messages(I, D)
    BY <2>1, <2>2 DEF Messages
  <2>4. [ms EXCEPT ![Len(ms)].parts = @ \o parts] = [ms EXCEPT ![Len(ms)] = new]
    OBVIOUS
  <2>5. ms \in Seq(Messages(I, D)) /\ Len(ms) \in 1..Len(ms)
    BY <2>1 DEF MessageLists
  <2> HIDE DEF new
  <2>6. [ms EXCEPT ![Len(ms)] = new] \in Seq(Messages(I, D))
    BY <2>3, <2>5, ExceptSeq
  <2> QED
    BY <2>4, <2>6 DEF MessageLists
<1> QED
  BY <1>1, <1>2 DEF AppendParts

LEMMA SystemOfType ==
  ASSUME NEW I, NEW D, 0 \in D, NEW ms \in MessageLists(I, D)
  PROVE  SystemOf(ms) \in MessageLists(I, D)
<1> DEFINE ss == [i \in DOMAIN ms |-> IF ms[i].role = "system" THEN Joined(ms[i].parts) ELSE <<>>]
<1>0. DOMAIN ms = 1..Len(ms) /\ Len(ms) \in Nat /\ \A i \in DOMAIN ms : ms[i] \in Messages(I, D)
  BY DEF MessageLists
<1>1. \A i \in DOMAIN ms : ms[i].parts \in PartLists(I, D)
  BY <1>0 DEF Messages
<1>2. <<>> \in Texts(I) /\ \A i \in DOMAIN ms : Joined(ms[i].parts) \in Texts(I)
  BY <1>1, JoinedType DEF Texts
<1>3. ss \in Seq(Texts(I))
  BY <1>0, <1>2
<1>4. FlattenSeq(ss) \in Texts(I)
  <2> HIDE DEF ss
  <2> QED
    BY <1>3, FlattenType DEF Texts
<1> HIDE DEF ss
<1>5. Text(FlattenSeq(ss)) \in PartLists(I, D) /\ <<>> \in MessageLists(I, D) /\ "system" \in Roles
  BY <1>4, TextType DEF MessageLists, Roles
<1>6. AppendParts(<<>>, "system", Text(FlattenSeq(ss))) \in MessageLists(I, D)
  BY <1>5, AppendPartsType
<1> QED
  BY <1>6 DEF SystemOf, ss

-----------------------------------------------------------------------------
\* Folds.  The provers do not instantiate operators, so that a fold takes its steps is said
\* of each operator that is folded.

BlocksIn(X, Y) == \A x \in X, y \in Y : AddBlock(x, y) \in X
Blocks(b, s) == FoldLeft(AddBlock, b, s)

LEMMA BlocksFold ==
  ASSUME NEW X, NEW Y, BlocksIn(X, Y), NEW b \in X, NEW s \in Seq(Y)
  PROVE  \E h \in [0..Len(s) -> X] :
           /\ h[0] = b /\ Blocks(b, s) = h[Len(s)]
           /\ \A i \in 1..Len(s) : h[i] = AddBlock(h[i - 1], s[i])
<1> DEFINE F == [p \in X \X Y |-> AddBlock(p[1], p[2])]
           n == Len(s)
           E(g, t) == IF t = {} THEN b ELSE AddBlock(g[t \ {Max(t)}], s[Max(t)])
           Is(g) == g = [t \in SUBSET (1..n) |-> E(g, t)]
           iter == CHOOSE g : Is(g)
<1>1. n \in Nat /\ s \in [1..n -> Y] /\ DOMAIN s = 1..n
  OBVIOUS
<1>2. F \in Ops(X, Y) /\ \A x \in X, y \in Y : F[<<x, y>>] = AddBlock(x, y)
  BY DEF Ops, BlocksIn
<1>3. FoldLeft(AddBlock, b, s) = iter[1..n]
  BY <1>1 DEF FoldLeft, MapThenFoldSet
<1> HIDE DEF F, n
<1>4. PICK g \in [SUBSET (1..n) -> X] : FoldOf(F, b, s, n, g)
  BY <1>1, <1>2, FoldExists
<1>5. \A t \in SUBSET (1..n) : t # {} => s[Max(t)] \in Y /\ t \ {Max(t)} \in SUBSET (1..n)
  <2> TAKE t \in SUBSET (1..n)
  <2> HAVE t # {}
  <2>1. Max(t) \in 1..n /\ t \ {Max(t)} \in SUBSET (1..n)
    BY <1>1, MaxBelow
  <2> QED
    BY <1>1, <2>1
<1>6. \A t \in SUBSET (1..n) : g[t] = E(g, t)
  BY <1>2, <1>4, <1>5 DEF FoldOf
<1>7. Is(g)
  <2> HIDE DEF E
  <2> QED
    BY <1>6
<1>8. Is(iter)
  <2> HIDE DEF Is
  <2> QED
    BY <1>7
<1> HIDE DEF iter
<1>9. ComputedBy(F, X, b, n, s, iter)
  BY <1>2, <1>5, <1>8, ZenonT(60) DEF ComputedBy
<1>10. PICK h \in [0..n -> X] : Walked(F, b, n, s, iter[1..n], h)
  BY <1>1, <1>2, <1>9, FoldSteps
<1>11. \A i \in 1..n : h[i] = AddBlock(h[i - 1], s[i])
  <2> TAKE i \in 1..n
  <2>1. i - 1 \in 0..n /\ s[i] \in Y
    BY <1>1
  <2> QED
    BY <1>2, <1>10, <2>1 DEF Walked
<1> QED
  BY <1>3, <1>10, <1>11 DEF Walked, n, Blocks

AnthropicTurnsIn(X, Y) == \A x \in X, y \in Y : TurnToAnthropic(x, y) \in X
AnthropicTurns(b, s) == FoldLeft(TurnToAnthropic, b, s)

LEMMA AnthropicTurnsFold ==
  ASSUME NEW X, NEW Y, AnthropicTurnsIn(X, Y), NEW b \in X, NEW s \in Seq(Y)
  PROVE  \E h \in [0..Len(s) -> X] :
           /\ h[0] = b /\ AnthropicTurns(b, s) = h[Len(s)]
           /\ \A i \in 1..Len(s) : h[i] = TurnToAnthropic(h[i - 1], s[i])
<1> DEFINE F == [p \in X \X Y |-> TurnToAnthropic(p[1], p[2])]
           n == Len(s)
           E(g, t) == IF t = {} THEN b ELSE TurnToAnthropic(g[t \ {Max(t)}], s[Max(t)])
           Is(g) == g = [t \in SUBSET (1..n) |-> E(g, t)]
           iter == CHOOSE g : Is(g)
<1>1. n \in Nat /\ s \in [1..n -> Y] /\ DOMAIN s = 1..n
  OBVIOUS
<1>2. F \in Ops(X, Y) /\ \A x \in X, y \in Y : F[<<x, y>>] = TurnToAnthropic(x, y)
  BY DEF Ops, AnthropicTurnsIn
<1>3. FoldLeft(TurnToAnthropic, b, s) = iter[1..n]
  BY <1>1 DEF FoldLeft, MapThenFoldSet
<1> HIDE DEF F, n
<1>4. PICK g \in [SUBSET (1..n) -> X] : FoldOf(F, b, s, n, g)
  BY <1>1, <1>2, FoldExists
<1>5. \A t \in SUBSET (1..n) : t # {} => s[Max(t)] \in Y /\ t \ {Max(t)} \in SUBSET (1..n)
  <2> TAKE t \in SUBSET (1..n)
  <2> HAVE t # {}
  <2>1. Max(t) \in 1..n /\ t \ {Max(t)} \in SUBSET (1..n)
    BY <1>1, MaxBelow
  <2> QED
    BY <1>1, <2>1
<1>6. \A t \in SUBSET (1..n) : g[t] = E(g, t)
  BY <1>2, <1>4, <1>5 DEF FoldOf
<1>7. Is(g)
  <2> HIDE DEF E
  <2> QED
    BY <1>6
<1>8. Is(iter)
  <2> HIDE DEF Is
  <2> QED
    BY <1>7
<1> HIDE DEF iter
<1>9. ComputedBy(F, X, b, n, s, iter)
  BY <1>2, <1>5, <1>8, ZenonT(60) DEF ComputedBy
<1>10. PICK h \in [0..n -> X] : Walked(F, b, n, s, iter[1..n], h)
  BY <1>1, <1>2, <1>9, FoldSteps
<1>11. \A i \in 1..n : h[i] = TurnToAnthropic(h[i - 1], s[i])
  <2> TAKE i \in 1..n
  <2>1. i - 1 \in 0..n /\ s[i] \in Y
    BY <1>1
  <2> QED
    BY <1>2, <1>10, <2>1 DEF Walked
<1> QED
  BY <1>3, <1>10, <1>11 DEF Walked, n, AnthropicTurns

BedrockTurnsIn(X, Y) == \A x \in X, y \in Y : TurnToBedrock(x, y) \in X
BedrockTurns(b, s) == FoldLeft(TurnToBedrock, b, s)

LEMMA BedrockTurnsFold ==
  ASSUME NEW X, NEW Y, BedrockTurnsIn(X, Y), NEW b \in X, NEW s \in Seq(Y)
  PROVE  \E h \in [0..Len(s) -> X] :
           /\ h[0] = b /\ BedrockTurns(b, s) = h[Len(s)]
           /\ \A i \in 1..Len(s) : h[i] = TurnToBedrock(h[i - 1], s[i])
<1> DEFINE F == [p \in X \X Y |-> TurnToBedrock(p[1], p[2])]
           n == Len(s)
           E(g, t) == IF t = {} THEN b ELSE TurnToBedrock(g[t \ {Max(t)}], s[Max(t)])
           Is(g) == g = [t \in SUBSET (1..n) |-> E(g, t)]
           iter == CHOOSE g : Is(g)
<1>1. n \in Nat /\ s \in [1..n -> Y] /\ DOMAIN s = 1..n
  OBVIOUS
<1>2. F \in Ops(X, Y) /\ \A x \in X, y \in Y : F[<<x, y>>] = TurnToBedrock(x, y)
  BY DEF Ops, BedrockTurnsIn
<1>3. FoldLeft(TurnToBedrock, b, s) = iter[1..n]
  BY <1>1 DEF FoldLeft, MapThenFoldSet
<1> HIDE DEF F, n
<1>4. PICK g \in [SUBSET (1..n) -> X] : FoldOf(F, b, s, n, g)
  BY <1>1, <1>2, FoldExists
<1>5. \A t \in SUBSET (1..n) : t # {} => s[Max(t)] \in Y /\ t \ {Max(t)} \in SUBSET (1..n)
  <2> TAKE t \in SUBSET (1..n)
  <2> HAVE t # {}
  <2>1. Max(t) \in 1..n /\ t \ {Max(t)} \in SUBSET (1..n)
    BY <1>1, MaxBelow
  <2> QED
    BY <1>1, <2>1
<1>6. \A t \in SUBSET (1..n) : g[t] = E(g, t)
  BY <1>2, <1>4, <1>5 DEF FoldOf
<1>7. Is(g)
  <2> HIDE DEF E
  <2> QED
    BY <1>6
<1>8. Is(iter)
  <2> HIDE DEF Is
  <2> QED
    BY <1>7
<1> HIDE DEF iter
<1>9. ComputedBy(F, X, b, n, s, iter)
  BY <1>2, <1>5, <1>8, ZenonT(60) DEF ComputedBy
<1>10. PICK h \in [0..n -> X] : Walked(F, b, n, s, iter[1..n], h)
  BY <1>1, <1>2, <1>9, FoldSteps
<1>11. \A i \in 1..n : h[i] = TurnToBedrock(h[i - 1], s[i])
  <2> TAKE i \in 1..n
  <2>1. i - 1 \in 0..n /\ s[i] \in Y
    BY <1>1
  <2> QED
    BY <1>2, <1>10, <2>1 DEF Walked
<1> QED
  BY <1>3, <1>10, <1>11 DEF Walked, n, BedrockTurns

OpenAIPartsIn(X, Y) == \A x \in X, y \in Y : PartToOpenAI(x, y) \in X
OpenAIParts(b, s) == FoldLeft(PartToOpenAI, b, s)

LEMMA OpenAIPartsFold ==
  ASSUME NEW X, NEW Y, OpenAIPartsIn(X, Y), NEW b \in X, NEW s \in Seq(Y)
  PROVE  \E h \in [0..Len(s) -> X] :
           /\ h[0] = b /\ OpenAIParts(b, s) = h[Len(s)]
           /\ \A i \in 1..Len(s) : h[i] = PartToOpenAI(h[i - 1], s[i])
<1> DEFINE F == [p \in X \X Y |-> PartToOpenAI(p[1], p[2])]
           n == Len(s)
           E(g, t) == IF t = {} THEN b ELSE PartToOpenAI(g[t \ {Max(t)}], s[Max(t)])
           Is(g) == g = [t \in SUBSET (1..n) |-> E(g, t)]
           iter == CHOOSE g : Is(g)
<1>1. n \in Nat /\ s \in [1..n -> Y] /\ DOMAIN s = 1..n
  OBVIOUS
<1>2. F \in Ops(X, Y) /\ \A x \in X, y \in Y : F[<<x, y>>] = PartToOpenAI(x, y)
  BY DEF Ops, OpenAIPartsIn
<1>3. FoldLeft(PartToOpenAI, b, s) = iter[1..n]
  BY <1>1 DEF FoldLeft, MapThenFoldSet
<1> HIDE DEF F, n
<1>4. PICK g \in [SUBSET (1..n) -> X] : FoldOf(F, b, s, n, g)
  BY <1>1, <1>2, FoldExists
<1>5. \A t \in SUBSET (1..n) : t # {} => s[Max(t)] \in Y /\ t \ {Max(t)} \in SUBSET (1..n)
  <2> TAKE t \in SUBSET (1..n)
  <2> HAVE t # {}
  <2>1. Max(t) \in 1..n /\ t \ {Max(t)} \in SUBSET (1..n)
    BY <1>1, MaxBelow
  <2> QED
    BY <1>1, <2>1
<1>6. \A t \in SUBSET (1..n) : g[t] = E(g, t)
  BY <1>2, <1>4, <1>5 DEF FoldOf
<1>7. Is(g)
  <2> HIDE DEF E
  <2> QED
    BY <1>6
<1>8. Is(iter)
  <2> HIDE DEF Is
  <2> QED
    BY <1>7
<1> HIDE DEF iter
<1>9. ComputedBy(F, X, b, n, s, iter)
  BY <1>2, <1>5, <1>8, ZenonT(60) DEF ComputedBy
<1>10. PICK h \in [0..n -> X] : Walked(F, b, n, s, iter[1..n], h)
  BY <1>1, <1>2, <1>9, FoldSteps
<1>11. \A i \in 1..n : h[i] = PartToOpenAI(h[i - 1], s[i])
  <2> TAKE i \in 1..n
  <2>1. i - 1 \in 0..n /\ s[i] \in Y
    BY <1>1
  <2> QED
    BY <1>2, <1>10, <2>1 DEF Walked
<1> QED
  BY <1>3, <1>10, <1>11 DEF Walked, n, OpenAIParts

-----------------------------------------------------------------------------
\* The translations keep the types.

LEMMA TurnToAnthropicType ==
  ASSUME NEW I, NEW D, 0 \in D, NEW turns \in MessageLists(I, D), NEW m \in Messages(I, D)
  PROVE  TurnToAnthropic(turns, m) \in MessageLists(I, D)
<1>1. m.parts \in PartLists(I, D) /\ m.role \in Roles
  BY DEF Messages
<1>2. Text(Joined(m.parts)) \in PartLists(I, D) /\ OfKind(m.parts, {"call"}) \in PartLists(I, D)
  BY <1>1, JoinedType, TextType, OfKindType DEF PartLists
<1>3. Text(Joined(m.parts)) \o OfKind(m.parts, {"call"}) \in PartLists(I, D)
  BY <1>2, MoreParts
<1>4. Where(m.parts, Known) \in PartLists(I, D)
  BY <1>1, SaidType
<1>5. "assistant" \in Roles /\ "user" \in Roles
  BY DEF Roles
<1>6. AppendParts(turns, "assistant", Text(Joined(m.parts)) \o OfKind(m.parts, {"call"})) \in MessageLists(I, D)
  BY <1>3, <1>5, AppendPartsType
<1>7. AppendParts(turns, "user", m.parts) \in MessageLists(I, D)
  BY <1>1, <1>5, AppendPartsType
<1>8. AppendParts(turns, "user", Where(m.parts, Known)) \in MessageLists(I, D)
  BY <1>4, <1>5, AppendPartsType
<1> QED
  BY <1>6, <1>7, <1>8 DEF TurnToAnthropic

LEMMA ToAnthropicType ==
  ASSUME NEW I, NEW D, 0 \in D, NEW ms \in MessageLists(I, D)
  PROVE  ToAnthropic(ms) \in MessageLists(I, D)
<1> DEFINE X == MessageLists(I, D)
           Y == Messages(I, D)
<1>1. AnthropicTurnsIn(X, Y)
  BY TurnToAnthropicType DEF AnthropicTurnsIn
<1>2. <<>> \in X /\ ms \in Seq(Y)
  BY DEF MessageLists
<1> HIDE DEF X, Y
<1>3. PICK h \in [0..Len(ms) -> X] : AnthropicTurns(<<>>, ms) = h[Len(ms)]
  BY <1>1, <1>2, AnthropicTurnsFold
<1>4. Len(ms) \in 0..Len(ms)
  BY <1>2
<1>5. AnthropicTurns(<<>>, ms) \in MessageLists(I, D)
  BY <1>3, <1>4 DEF X
<1>6. SystemOf(ms) \in MessageLists(I, D)
  BY SystemOfType
<1> QED
  BY <1>5, <1>6, MoreMessages DEF ToAnthropic, AnthropicTurns

LEMMA AddBlockType ==
  ASSUME NEW I, NEW D, NEW blocks \in PartLists(I, D), NEW p \in Parts(I, D)
  PROVE  AddBlock(blocks, p) \in PartLists(I, D)
<1>1. Append(blocks, p) \in PartLists(I, D)
  BY DEF PartLists
<1>2. ASSUME blocks # <<>>
      PROVE  [blocks EXCEPT ![Len(blocks)].text = @ \o p.text] \in PartLists(I, D)
  <2> DEFINE b == blocks[Len(blocks)]
             new == [b EXCEPT !.text = @ \o p.text]
  <2>1. blocks \in Seq(Parts(I, D)) /\ Len(blocks) \in 1..Len(blocks) /\ b \in Parts(I, D)
    BY <1>2 DEF PartLists
  <2>2. b.text \o p.text \in Texts(I)
    BY <2>1, ConcatProperties DEF Parts, Texts
  <2>3. new \in Parts(I, D)
    BY <2>1, <2>2 DEF Parts
  <2>4. [blocks EXCEPT ![Len(blocks)].text = @ \o p.text] = [blocks EXCEPT ![Len(blocks)] = new]
    OBVIOUS
  <2> HIDE DEF new
  <2>5. [blocks EXCEPT ![Len(blocks)] = new] \in Seq(Parts(I, D))
    BY <2>1, <2>3, ExceptSeq
  <2> QED
    BY <2>4, <2>5 DEF PartLists
<1> QED
  BY <1>1, <1>2 DEF AddBlock

LEMMA BedrockBlocksType ==
  ASSUME NEW I, NEW D, NEW parts \in PartLists(I, D)
  PROVE  BedrockBlocks(parts) \in PartLists(I, D)
<1> DEFINE X == PartLists(I, D)
           Y == Parts(I, D)
<1>1. BlocksIn(X, Y)
  BY AddBlockType DEF BlocksIn
<1>2. <<>> \in X /\ parts \in Seq(Y)
  BY DEF PartLists
<1> HIDE DEF X, Y
<1>3. PICK h \in [0..Len(parts) -> X] : Blocks(<<>>, parts) = h[Len(parts)]
  BY <1>1, <1>2, BlocksFold
<1>4. Len(parts) \in 0..Len(parts)
  BY <1>2
<1> QED
  BY <1>3, <1>4 DEF X, BedrockBlocks, Blocks

\* What is out, and what waits.
Waiting(I, D) == [out : MessageLists(I, D), held : PartLists(I, D)]

LEMMA FlushType ==
  ASSUME NEW I, NEW D, NEW s \in Waiting(I, D)
  PROVE  Flush(s) \in Waiting(I, D) /\ Flush(s).out \in MessageLists(I, D) /\ Nothing \in Waiting(I, D)
<1>1. s.out \in MessageLists(I, D) /\ s.held \in PartLists(I, D) /\ "user" \in Roles
  BY DEF Waiting, Roles
<1>2. AppendAlways(s.out, "user", s.held) \in MessageLists(I, D)
  BY <1>1, AppendAlwaysType
<1>3. <<>> \in MessageLists(I, D) /\ <<>> \in PartLists(I, D)
  BY DEF MessageLists, PartLists
<1> QED
  BY <1>2, <1>3 DEF Flush, Waiting, Nothing

LEMMA TurnToBedrockType ==
  ASSUME NEW I, NEW D, NEW s \in Waiting(I, D), NEW m \in Messages(I, D)
  PROVE  TurnToBedrock(s, m) \in Waiting(I, D)
<1>1. m.parts \in PartLists(I, D) /\ m.role \in Roles /\ s.held \in PartLists(I, D)
  BY DEF Messages, Waiting
<1>2. BedrockBlocks(m.parts) \in PartLists(I, D) /\ s.held \o m.parts \in PartLists(I, D)
  BY <1>1, BedrockBlocksType, MoreParts
<1>3. Flush(s) \in Waiting(I, D) /\ Flush(s).out \in MessageLists(I, D)
  BY FlushType
<1>4. AppendAlways(Flush(s).out, m.role, BedrockBlocks(m.parts)) \in MessageLists(I, D)
  BY <1>1, <1>2, <1>3, AppendAlwaysType
<1> QED
  BY <1>2, <1>3, <1>4 DEF TurnToBedrock, Waiting

LEMMA ToBedrockType ==
  ASSUME NEW I, NEW D, 0 \in D, NEW ms \in MessageLists(I, D)
  PROVE  ToBedrock(ms) \in MessageLists(I, D)
<1> DEFINE X == Waiting(I, D)
           Y == Messages(I, D)
<1>1. BedrockTurnsIn(X, Y)
  BY TurnToBedrockType DEF BedrockTurnsIn
<1>2. Nothing \in X /\ ms \in Seq(Y)
  BY DEF Waiting, Nothing, MessageLists, PartLists
<1> HIDE DEF X, Y
<1>3. PICK h \in [0..Len(ms) -> X] : BedrockTurns(Nothing, ms) = h[Len(ms)]
  BY <1>1, <1>2, BedrockTurnsFold
<1>4. Len(ms) \in 0..Len(ms)
  BY <1>2
<1>5. BedrockTurns(Nothing, ms) \in Waiting(I, D)
  BY <1>3, <1>4 DEF X
<1>6. Flush(BedrockTurns(Nothing, ms)).out \in MessageLists(I, D)
  BY <1>5, FlushType
<1>7. SystemOf(ms) \in MessageLists(I, D)
  BY SystemOfType
<1> QED
  BY <1>6, <1>7, MoreMessages DEF ToBedrock, BedrockTurns

\* A result as OpenAI's protocol has it.
Texted(p) == [p EXCEPT !.text = TextsOnly(@)]

LEMMA TextedType ==
  ASSUME NEW I, NEW D, NEW p \in Parts(I, D)
  PROVE  /\ Texted(p) \in Parts(I, D) /\ Texted(p).kind = p.kind /\ Texted(p).id = p.id
         /\ Texted(p).text = TextsOnly(p.text)
<1>1. TextsOnly(p.text) \in Texts(I)
  BY TextsOnlyType DEF Parts
<1> QED
  BY <1>1 DEF Texted, Parts

LEMMA PartToOpenAIType ==
  ASSUME NEW I, NEW D, NEW s \in Waiting(I, D), NEW p \in Parts(I, D)
  PROVE  PartToOpenAI(s, p) \in Waiting(I, D)
<1> DEFINE q == Texted(p)
<1>0. q \in Parts(I, D)
  BY TextedType
<1> HIDE DEF q
<1>1. s.held \in PartLists(I, D) /\ <<q>> \in PartLists(I, D) /\ Append(s.held, p) \in PartLists(I, D)
  BY <1>0 DEF Waiting, PartLists
<1>2. Flush(s) \in Waiting(I, D) /\ Flush(s).out \in MessageLists(I, D)
  BY FlushType
<1>3. Message("tool", <<q>>) \in Messages(I, D)
  BY <1>1, MessageMade DEF Roles
<1>4. Append(Flush(s).out, Message("tool", <<q>>)) \in MessageLists(I, D)
  BY <1>2, <1>3 DEF MessageLists
<1> QED
  BY <1>1, <1>2, <1>4 DEF PartToOpenAI, Waiting, q, Texted

LEMMA UserToOpenAIType ==
  ASSUME NEW I, NEW D, 0 \in D, NEW parts \in PartLists(I, D)
  PROVE  UserToOpenAI(parts) \in MessageLists(I, D)
<1> DEFINE X == Waiting(I, D)
           Y == Parts(I, D)
<1>1. OpenAIPartsIn(X, Y)
  BY PartToOpenAIType DEF OpenAIPartsIn
<1>2. Nothing \in X /\ parts \in Seq(Y)
  BY DEF Waiting, Nothing, MessageLists, PartLists
<1> HIDE DEF X, Y
<1>3. PICK h \in [0..Len(parts) -> X] : OpenAIParts(Nothing, parts) = h[Len(parts)]
  BY <1>1, <1>2, OpenAIPartsFold
<1>4. Len(parts) \in 0..Len(parts)
  BY <1>2
<1>5. OpenAIParts(Nothing, parts) \in Waiting(I, D)
  BY <1>3, <1>4 DEF X
<1>6. Flush(OpenAIParts(Nothing, parts)).out \in MessageLists(I, D)
  BY <1>5, FlushType
<1>7. <<Part("text", <<>>, 0)>> \in PartLists(I, D)
  BY PartMade DEF Kinds, Texts, PartLists
<1>8. <<Message("user", <<Part("text", <<>>, 0)>>)>> \in MessageLists(I, D)
  BY <1>7, MessageMade DEF Roles, MessageLists
<1> QED
  BY <1>6, <1>8 DEF UserToOpenAI, NotEmpty, OpenAIParts

LEMMA AssistantToOpenAIType ==
  ASSUME NEW I, NEW D, 0 \in D, NEW parts \in PartLists(I, D)
  PROVE  AssistantToOpenAI(parts) \in MessageLists(I, D)
<1>1. Part("text", Joined(parts), 0) \in Parts(I, D)
  BY JoinedType, PartMade DEF Kinds
<1>2. <<Part("text", Joined(parts), 0)>> \in PartLists(I, D) /\ OfKind(parts, {"call"}) \in PartLists(I, D)
  BY <1>1, OfKindType DEF PartLists
<1>3. <<Part("text", Joined(parts), 0)>> \o OfKind(parts, {"call"}) \in PartLists(I, D)
  BY <1>2, MoreParts
<1> QED
  BY <1>3, MessageMade DEF AssistantToOpenAI, MessageLists, Roles

\* One message in OpenAI's protocol.
OneToOpenAI(m) ==
  CASE m.role = "assistant" -> AssistantToOpenAI(m.parts)
    [] m.role = "system"    -> SystemOf(<<m>>)
    [] OTHER -> UserToOpenAI(m.parts)

LEMMA OneToOpenAIType ==
  ASSUME NEW I, NEW D, 0 \in D, NEW m \in Messages(I, D)
  PROVE  OneToOpenAI(m) \in MessageLists(I, D)
<1>1. m.parts \in PartLists(I, D) /\ <<m>> \in MessageLists(I, D)
  BY DEF Messages, MessageLists
<1>2. SystemOf(<<m>>) \in MessageLists(I, D)
  BY <1>1, SystemOfType
<1>3. AssistantToOpenAI(m.parts) \in MessageLists(I, D) /\ UserToOpenAI(m.parts) \in MessageLists(I, D)
  BY <1>1, AssistantToOpenAIType, UserToOpenAIType
<1> QED
  BY <1>2, <1>3 DEF OneToOpenAI

LEMMA ToOpenAIType ==
  ASSUME NEW I, NEW D, 0 \in D, NEW ms \in MessageLists(I, D)
  PROVE  ToOpenAI(ms) \in MessageLists(I, D)
<1> DEFINE ss == [i \in DOMAIN ms |-> OneToOpenAI(ms[i])]
<1>1. DOMAIN ms = 1..Len(ms) /\ Len(ms) \in Nat /\ \A i \in DOMAIN ms : ms[i] \in Messages(I, D)
  BY DEF MessageLists
<1>2. \A i \in DOMAIN ms : OneToOpenAI(ms[i]) \in MessageLists(I, D)
  BY <1>1, OneToOpenAIType
<1>3. ss \in Seq(MessageLists(I, D))
  BY <1>1, <1>2
<1>4. ToOpenAI(ms) = FlattenSeq(ss)
  BY DEF ToOpenAI, OneToOpenAI
<1> QED
  BY <1>3, <1>4, FlattenType DEF MessageLists

LEMMA TranslatedType ==
  ASSUME NEW I, NEW D, 0 \in D, NEW ms \in MessageLists(I, D), NEW protocol
  PROVE  Translated(protocol, ms) \in MessageLists(I, D)
<1>1. ToOpenAI(ms) \in MessageLists(I, D) /\ ToAnthropic(ms) \in MessageLists(I, D)
  BY ToOpenAIType, ToAnthropicType
<1>2. ToBedrock(ToOpenAI(ms)) \in MessageLists(I, D) /\ ToBedrock(ms) \in MessageLists(I, D)
  BY <1>1, ToBedrockType
<1> QED
  BY <1>1, <1>2 DEF Translated

-----------------------------------------------------------------------------
\* Answers keep the types, but for the ids that are made up.

LEMMA VoiceMade ==
  ASSUME NEW I, NEW D, NEW kind \in Voice, NEW text \in Texts(I), NEW id \in D
  PROVE  Part(kind, text, id) \in Voices(I, D)
BY DEF Part, Voices

LEMMA TextVoice ==
  ASSUME NEW I, NEW D, 0 \in D, NEW text \in Texts(I)
  PROVE  Text(text) \in Seq(Voices(I, D))
<1>1. Part("text", text, 0) \in Voices(I, D)
  BY VoiceMade DEF Voice
<1> QED
  BY <1>1 DEF Text

LEMMA AnswerToOpenAIType ==
  ASSUME NEW I, NEW D, 0 \in D, NEW parts \in Seq(Voices(I, D))
  PROVE  AnswerToOpenAI(parts) \in Seq(Voices(I, D))
<1>1. Joined(parts) \in Texts(I)
  BY VoicesAreParts, JoinedType
<1>2. Text(Joined(parts)) \in Seq(Voices(I, D)) /\ OfKind(parts, {"call"}) \in Seq(Voices(I, D))
  BY <1>1, TextVoice, OfKindType
<1> QED
  BY <1>2, ConcatProperties DEF AnswerToOpenAI

Made(D) == D \cup {0 - (next + i) : i \in Nat}

\* Thoughts that stand in for a text, and calls that all have an id.
Spoken(parts) == [i \in DOMAIN parts |-> [parts[i] EXCEPT !.kind = "text"]]
WithId(p, i) == [p EXCEPT !.id = IF @ = 0 THEN 0 - (next + i) ELSE @]
WithIds(parts) == [i \in DOMAIN parts |-> WithId(parts[i], i)]
Answered(parts) ==
  (IF Joined(parts) # <<>> THEN OfKind(parts, {"text"}) ELSE Spoken(OfKind(parts, {"thought"})))
  \o WithIds(OfKind(parts, {"call"}))

LEMMA AnswerIs ==
  ASSUME NEW parts
  PROVE  AnswerToAnthropic(parts) =
           IF Answered(parts) = <<>> THEN <<Part("text", <<>>, 0)>> ELSE Answered(parts)
BY Zenon DEF AnswerToAnthropic, Answered, Spoken, WithIds, WithId

LEMMA SpokenType ==
  ASSUME NEW I, NEW D, NEW parts \in Seq(Voices(I, D))
  PROVE  /\ Seq(Voices(I, D)) \subseteq Seq(Voices(I, Made(D)))
         /\ Spoken(parts) \in Seq(Voices(I, Made(D)))
         /\ WithIds(parts) \in Seq(Voices(I, Made(D)))
<1> DEFINE V == Voices(I, Made(D))
<1>1. DOMAIN parts = 1..Len(parts) /\ Len(parts) \in Nat /\ \A i \in DOMAIN parts : parts[i] \in Voices(I, D)
  OBVIOUS
<1>2. Voices(I, D) \subseteq V
  BY DEF Voices, Made
<1>3. Spoken(parts) \in Seq(V)
  <2>1. \A p \in Voices(I, D) : [p EXCEPT !.kind = "text"] \in Voices(I, D)
    BY DEF Voices, Voice
  <2> HIDE DEF V
  <2> QED
    BY <1>1, <1>2, <2>1 DEF Spoken
<1>4. WithIds(parts) \in Seq(V)
  <2>1. \A p \in Voices(I, D), i \in Nat : WithId(p, i) \in V
    BY DEF Voices, Made, WithId
  <2> HIDE DEF V
  <2> QED
    BY <1>1, <2>1 DEF WithIds
<1> QED
  BY <1>2, <1>3, <1>4, SeqMonotonic

LEMMA AnsweredType ==
  ASSUME NEW I, NEW D, NEW parts \in Seq(Voices(I, D))
  PROVE  /\ \A kinds : OfKind(parts, kinds) \in Seq(Voices(I, Made(D)))
         /\ Spoken(OfKind(parts, {"thought"})) \in Seq(Voices(I, Made(D)))
         /\ WithIds(OfKind(parts, {"call"})) \in Seq(Voices(I, Made(D)))
<1>1. \A kinds : OfKind(parts, kinds) \in Seq(Voices(I, D))
  BY OfKindType
<1>2. PICK thoughts, calls : thoughts = OfKind(parts, {"thought"}) /\ calls = OfKind(parts, {"call"})
  OBVIOUS
<1>3. thoughts \in Seq(Voices(I, D)) /\ calls \in Seq(Voices(I, D))
  BY <1>1, <1>2
<1> QED
  BY <1>1, <1>2, <1>3, SpokenType

LEMMA AnswerToAnthropicType ==
  ASSUME NEW I, NEW D, 0 \in D, NEW parts \in Seq(Voices(I, D))
  PROVE  AnswerToAnthropic(parts) \in Seq(Voices(I, Made(D)))
<1>1. Answered(parts) \in Seq(Voices(I, Made(D)))
  BY AnsweredType, ConcatProperties DEF Answered
<1>2. <<Part("text", <<>>, 0)>> \in Seq(Voices(I, Made(D)))
  <2>1. 0 \in Made(D) /\ <<>> \in Texts(I) /\ "text" \in Voice
    BY DEF Made, Texts, Voice
  <2> QED
    BY <2>1, VoiceMade
<1> QED
  BY <1>1, <1>2, AnswerIs

LEMMA AnswerForType ==
  ASSUME NEW I, NEW D, 0 \in D, NEW parts \in Seq(Voices(I, D))
  PROVE  AnswerFor(parts) \in Seq(Voices(I, Made(D)))
<1>1. AnswerToOpenAI(parts) \in Seq(Voices(I, D))
  BY AnswerToOpenAIType
<1>2. AnswerToAnthropic(parts) \in Seq(Voices(I, Made(D)))
      /\ AnswerToAnthropic(AnswerToOpenAI(parts)) \in Seq(Voices(I, Made(D)))
  BY <1>1, AnswerToAnthropicType
<1>3. Seq(Voices(I, D)) \subseteq Seq(Voices(I, Made(D)))
  <2>1. Voices(I, D) \subseteq Voices(I, Made(D))
    BY DEF Voices, Made
  <2> QED
    BY <2>1, SeqMonotonic
<1> QED
  BY <1>1, <1>2, <1>3 DEF AnswerFor

-----------------------------------------------------------------------------
\* Redaction takes marks away that the policy looks for.

Sides == {"input", "output"}
Allowed(p, side) == IF ActionOf(p, side) = "off" THEN Marks ELSE Marks \ Wanted(p)

LEMMA RedactTextType ==
  ASSUME NEW p \in Policies, NEW side \in Sides, NEW text \in Texts(Marks),
         ~BlocksText(p, ActionOf(p, side), text)
  PROVE  RedactText(p, ActionOf(p, side), text) \in Texts(Allowed(p, side))
<1> DEFINE action == ActionOf(p, side)
<1>1. action \in {"off", "redact", "block"}
  BY DEF ActionOf, Policies, Actions, Sides
<1>2. DOMAIN text = 1..Len(text) /\ Len(text) \in Nat /\ \A i \in DOMAIN text : text[i] \in Pieces(Marks)
  BY DEF Texts
<1>6. PICK J : J = Marks \ Wanted(p)
  OBVIOUS
<1> HIDE DEF action
<1>3. CASE action = "off"
  BY <1>3 DEF RedactText, Allowed, action
<1>4. CASE action = "redact"
  <2>1. \A i \in DOMAIN text : text[i].is \notin Wanted(p) =>text[i] \in Pieces(J)
    BY <1>2, <1>6 DEF Pieces
  <2>2. \A i \in DOMAIN text : Piece(text[i].n, "mark") \in Pieces(J)
    BY <1>2, <1>6 DEF Pieces, Piece, Marks, Wanted
  <2>3. \A i \in DOMAIN text : text[i].is \in Wanted(p) => text[i].is \in Finds(p, text)
    BY DEF Finds
  <2>4. \A i \in DOMAIN text :
          (IF text[i].is \in Finds(p, text) THEN Piece(text[i].n, "mark") ELSE text[i]) \in Pieces(J)
    BY <2>1, <2>2, <2>3
  <2>5. RedactText(p, action, text)
          = [i \in DOMAIN text |-> IF text[i].is \in Finds(p, text) THEN Piece(text[i].n, "mark") ELSE text[i]]
    BY <1>4 DEF RedactText
  <2>6. Allowed(p, side) = J
    BY <1>4, <1>6 DEF Allowed, action
  <2>7. RedactText(p, action, text) \in Seq(Pieces(J))
    BY <1>2, <2>4, <2>5
  <2> QED
    BY <2>6, <2>7 DEF Texts, action
<1>5. CASE action = "block"
  <2>1. Finds(p, text) = {}
    BY <1>5 DEF BlocksText, action
  <2>2. \A i \in DOMAIN text : text[i].is \notin Wanted(p)
    BY <2>1 DEF Finds
  <2>3. \A i \in DOMAIN text : text[i] \in Pieces(J)
    BY <1>2, <1>6, <2>2 DEF Pieces
  <2>4. RedactText(p, action, text) = text
    BY <1>5 DEF RedactText
  <2>5. Allowed(p, side) = J
    BY <1>5, <1>6 DEF Allowed, action
  <2>6. text \in Seq(Pieces(J))
    BY <1>2, <2>3 DEF Texts
  <2> QED
    BY <2>4, <2>5, <2>6 DEF Texts, action
<1> QED
  BY <1>1, <1>3, <1>4, <1>5

LEMMA RedactPartsType ==
  ASSUME NEW p \in Policies, NEW side \in Sides, NEW D, NEW parts,
         \A j \in DOMAIN parts : ~BlocksText(p, ActionOf(p, side), parts[j].text)
  PROVE  /\ parts \in PartLists(Marks, D) => RedactParts(p, side, parts) \in PartLists(Allowed(p, side), D)
         /\ parts \in Seq(Voices(Marks, D)) => RedactParts(p, side, parts) \in Seq(Voices(Allowed(p, side), D))
<1> DEFINE I == Allowed(p, side)
           Redact(part) == [part EXCEPT !.text = RedactText(p, ActionOf(p, side), @)]
           clean == [j \in DOMAIN parts |-> Redact(parts[j])]
<1>1. ASSUME NEW j \in DOMAIN parts, parts[j].text \in Texts(Marks)
      PROVE  RedactText(p, ActionOf(p, side), parts[j].text) \in Texts(I)
  BY <1>1, RedactTextType
<1> HIDE DEF I
<1>2. ASSUME parts \in PartLists(Marks, D) PROVE clean \in PartLists(I, D)
  <2>1. DOMAIN parts = 1..Len(parts) /\ Len(parts) \in Nat /\ \A j \in DOMAIN parts : parts[j] \in Parts(Marks, D)
    BY <1>2 DEF PartLists
  <2>2. \A j \in DOMAIN parts : Redact(parts[j]) \in Parts(I, D)
    BY <1>1, <2>1 DEF Parts
  <2> HIDE DEF Redact
  <2> QED
    BY <2>1, <2>2 DEF PartLists
<1>3. ASSUME parts \in Seq(Voices(Marks, D)) PROVE clean \in Seq(Voices(I, D))
  <2>1. DOMAIN parts = 1..Len(parts) /\ Len(parts) \in Nat /\ \A j \in DOMAIN parts : parts[j] \in Voices(Marks, D)
    BY <1>3
  <2>2. \A j \in DOMAIN parts : Redact(parts[j]) \in Voices(I, D)
    BY <1>1, <2>1 DEF Voices
  <2> HIDE DEF Redact
  <2> QED
    BY <2>1, <2>2
<1> QED
  BY <1>2, <1>3 DEF I, RedactParts

LEMMA RedactedType ==
  ASSUME NEW p \in Policies, NEW side \in Sides, NEW D, NEW ms \in Talks(Marks, D), ~Blocked(p, side, ms)
  PROVE  Redacted(p, side, ms) \in Talks(Allowed(p, side), D)
<1> DEFINE I == Allowed(p, side)
<1>1. DOMAIN ms = 1..Len(ms) /\ Len(ms) \in Nat /\ \A i \in DOMAIN ms : ms[i] \in Talk(Marks, D)
  BY DEF Talks
<1>2. \A i \in DOMAIN ms : \A j \in DOMAIN ms[i].parts : ms[i].parts[j].text \in TextsOf(ms)
  BY DEF TextsOf
<1>3. \A i \in DOMAIN ms : \A j \in DOMAIN ms[i].parts : ~BlocksText(p, ActionOf(p, side), ms[i].parts[j].text)
  BY <1>2 DEF Blocked
<1>4. ASSUME NEW i \in DOMAIN ms PROVE [ms[i] EXCEPT !.parts = RedactParts(p, side, ms[i].parts)] \in Talk(I, D)
  <2> DEFINE parts == ms[i].parts
  <2>1. /\ parts \in PartLists(Marks, D) => RedactParts(p, side, parts) \in PartLists(I, D)
        /\ parts \in Seq(Voices(Marks, D)) => RedactParts(p, side, parts) \in Seq(Voices(I, D))
    <3>1. \A j \in DOMAIN parts : ~BlocksText(p, ActionOf(p, side), parts[j].text)
      BY <1>3
    <3> HIDE DEF parts
    <3> QED
      BY <3>1, RedactPartsType
  <2> HIDE DEF I
  <2> QED
    BY <1>1, <2>1 DEF Talk
<1>5. Redacted(p, side, ms) = [i \in DOMAIN ms |-> [ms[i] EXCEPT !.parts = RedactParts(p, side, ms[i].parts)]]
  BY Zenon DEF Redacted
<1> HIDE DEF I
<1> QED
  BY <1>1, <1>4, <1>5 DEF Talks, I

LEMMA AllowedIsClean ==
  ASSUME NEW p \in Policies, NEW side \in Sides, NEW D, NEW ms \in MessageLists(Allowed(p, side), D)
  PROVE  Clean(p, side, ms)
<1> SUFFICES ASSUME ActionOf(p, side) # "off", NEW i \in DOMAIN ms, NEW j \in DOMAIN ms[i].parts
             PROVE  Finds(p, ms[i].parts[j].text) = {}
  BY DEF Clean
<1> DEFINE I == Marks \ Wanted(p)
<1>1. ms \in Seq(Messages(I, D))
  BY DEF Allowed, MessageLists
<1> HIDE DEF I
<1>2. ms[i] \in Messages(I, D)
  BY <1>1
<1>3. ms[i].parts[j] \in Parts(I, D)
  BY <1>2 DEF Messages, PartLists
<1>4. ms[i].parts[j].text \in Seq(Pieces(I))
  BY <1>3 DEF Parts, Texts
<1> DEFINE text == ms[i].parts[j].text
<1> HIDE DEF text
<1>5. \A k \in DOMAIN text : text[k] \in Pieces(I)
  <2>1. text \in Seq(Pieces(I))
    BY <1>4 DEF text
  <2> QED
    BY <2>1
<1>6. \A k \in DOMAIN text : text[k].is \in I
  BY <1>5 DEF Pieces
<1>7. Finds(p, text) = {}
  BY <1>6 DEF Finds, I
<1> QED
  BY <1>7 DEF text

-----------------------------------------------------------------------------
\* The client's messages.  Whatever their ids, they are made of texts, and what models have
\* said has no images and no results.

TalkInv ==
  /\ policy \in Policies /\ held \in Policies /\ next \in Nat
  /\ client \in {"openai", "anthropic"}
  /\ phase \in {"chat", "asked", "refused"}
  /\ \E D : 0 \in D /\ history \in Talks(Marks, D)

LEMMA MoreIds ==
  ASSUME NEW I, NEW D, NEW E, D \subseteq E
  PROVE  Talks(I, D) \subseteq Talks(I, E) /\ Talk(I, D) \subseteq Talk(I, E)
<1>1. Parts(I, D) \subseteq Parts(I, E) /\ Voices(I, D) \subseteq Voices(I, E)
  BY DEF Parts, Voices
<1>2. PartLists(I, D) \subseteq PartLists(I, E) /\ Seq(Voices(I, D)) \subseteq Seq(Voices(I, E))
  BY <1>1, SeqMonotonic DEF PartLists
<1>3. Talk(I, D) \subseteq Talk(I, E)
  BY <1>2 DEF Talk
<1> QED
  BY <1>3, SeqMonotonic DEF Talks

LEMMA SequenceOfSet ==
  ASSUME NEW S, IsFiniteSet(S)
  PROVE  SetToSeq(S) \in Seq(S) /\ Len(SetToSeq(S)) = Cardinality(S) /\ Cardinality(S) \in Nat
<1>1. Cardinality(S) \in Nat /\ ExistsBijection(1..Cardinality(S), S)
  BY FS_CardinalityType
<1>2. \E f \in [1..Cardinality(S) -> S] : IsInjective(f)
  BY <1>1 DEF ExistsBijection, Bijection, Injection
<1>3. SetToSeq(S) \in [1..Cardinality(S) -> S]
  BY <1>2 DEF SetToSeq
<1> QED
  BY <1>1, <1>3

Words == {"plain", "email", "code", "named", "image"}
AllWords == Seq(Words \cup {"broken"})

LEMMA WordsGrow ==
  /\ \A content \in Contents : content \in Seq(Words) /\ content \in AllWords
  /\ CutOff \in AllWords
<1>1. Seq(Words) \subseteq AllWords
  <2>1. Words \subseteq Words \cup {"broken"}
    OBVIOUS
  <2> QED
    BY <2>1, SeqMonotonic DEF AllWords
<1>2. \A content \in Contents : content \in Seq(Words)
  BY ShapesAssumption DEF Words
<1>3. CutOff \in AllWords
  BY DEF CutOff, AllWords
<1> QED
  BY <1>1, <1>2, <1>3

LEMMA TextFromType ==
  ASSUME NEW kind, NEW n \in Int, NEW content \in AllWords
  PROVE  TextFrom(kind, n, content) \in Texts(Marks) /\ Len(TextFrom(kind, n, content)) = Len(content)
<1>1. DOMAIN content = 1..Len(content) /\ Len(content) \in Nat
      /\ \A j \in DOMAIN content : content[j] \in Marks /\ j \in Int
  BY DEF AllWords, Words, Marks
<1>2. \A j \in DOMAIN content :
        Piece(n * 10 + j, IF Fitting(kind, content[j]) THEN content[j] ELSE "plain") \in Pieces(Marks)
  BY <1>1 DEF Piece, Pieces, Marks
<1> QED
  BY <1>1, <1>2 DEF TextFrom, Texts

LEMMA PartsOfType ==
  ASSUME next \in Nat, NEW kinds, NEW shape \in Seq(kinds), NEW content \in AllWords
  PROVE  /\ kinds \subseteq Kinds => PartsOf(shape, content) \in PartLists(Marks, Int)
         /\ kinds \subseteq Voice => PartsOf(shape, content) \in Seq(Voices(Marks, Int))
         /\ Len(PartsOf(shape, content)) = Len(shape)
<1> DEFINE parts == PartsOf(shape, content)
<1>1. DOMAIN shape = 1..Len(shape) /\ Len(shape) \in Nat
      /\ \A i \in DOMAIN shape : shape[i] \in kinds /\ i \in Int
  OBVIOUS
<1>2. \A i \in DOMAIN shape :
        parts[i] = Part(shape[i], TextFrom(shape[i], next + i, content),
                        IF shape[i] = "call" THEN next + i ELSE 0)
  BY DEF PartsOf
<1>3. \A i \in DOMAIN shape : TextFrom(shape[i], next + i, content) \in Texts(Marks)
  BY <1>1, TextFromType
<1>4. \A i \in DOMAIN shape : (IF shape[i] = "call" THEN next + i ELSE 0) \in Int
  BY <1>1
<1>5. DOMAIN parts = DOMAIN shape
  BY DEF PartsOf
<1>6. kinds \subseteq Kinds => \A i \in DOMAIN shape : parts[i] \in Parts(Marks, Int)
  BY <1>1, <1>2, <1>3, <1>4, PartMade
<1>7. kinds \subseteq Voice => \A i \in DOMAIN shape : parts[i] \in Voices(Marks, Int)
  BY <1>1, <1>2, <1>3, <1>4, VoiceMade
<1>8. parts = [i \in 1..Len(shape) |-> parts[i]]
  BY <1>1 DEF PartsOf
<1> HIDE DEF parts
<1> QED
  BY <1>1, <1>5, <1>6, <1>7, <1>8 DEF PartLists, parts

\* Ids of what is in the history.
LEMMA IdsType ==
  ASSUME NEW I, NEW D, NEW parts \in PartLists(I, D), NEW kind
  PROVE  Ids(parts, kind) \subseteq D /\ IsFiniteSet(Ids(parts, kind))
<1>1. DOMAIN parts = 1..Len(parts) /\ Len(parts) \in Nat /\ \A i \in DOMAIN parts : parts[i] \in Parts(I, D)
  BY DEF PartLists
<1> DEFINE P == {j \in DOMAIN parts : parts[j].kind = kind}
<1>2. IsFiniteSet(P)
  <2>1. IsFiniteSet(1..Len(parts)) /\ P \subseteq 1..Len(parts)
    BY <1>1, FS_Interval
  <2> QED
    BY <2>1, FS_Subset
<1>3. P \subseteq DOMAIN parts
  OBVIOUS
<1>4. Ids(parts, kind) = {parts[i].id : i \in P}
  BY DEF Ids
<1> HIDE DEF P
<1>5. IsFiniteSet({parts[i].id : i \in P})
  <2> DEFINE T == {parts[i].id : i \in P}
             f == [i \in P |-> parts[i].id]
  <2>1. f \in Surjection(P, T)
    BY DEF Surjection
  <2> HIDE DEF f, T
  <2>2. IsFiniteSet(T)
    BY <1>2, <2>1, FS_Surjection
  <2> QED
    BY <2>2 DEF T
<1> QED
  BY <1>1, <1>3, <1>4, <1>5 DEF Parts

\* What the client says next.
LEMMA ClientSays ==
  ASSUME TalkInv, NEW content \in Contents,
         \/ System(content) \/ ToolResult(content)
         \/ \E shape \in UserShapes : User(shape, content)
         \/ \E more \in BOOLEAN : ToolResults(content, more)
  PROVE  \E D : \E m \in Talk(Marks, D) :
           /\ 0 \in D /\ history \in Talks(Marks, D) /\ Chat(m)
           /\ m.role \in {"system", "user", "tool"} /\ (client = "anthropic" => m.role # "tool")
<1>1. PICK D : 0 \in D /\ history \in Talks(Marks, D)
  BY DEF TalkInv
<1> DEFINE E == D \cup Int
<1>2. 0 \in E /\ Int \subseteq E /\ D \subseteq E
  BY <1>1
<1> HIDE DEF E
<1>3. history \in Talks(Marks, E)
  BY <1>1, <1>2, MoreIds
<1>4. content \in AllWords /\ next \in Nat
  BY WordsGrow DEF TalkInv
<1>5. PartLists(Marks, Int) \subseteq PartLists(Marks, E)
  <2>1. Parts(Marks, Int) \subseteq Parts(Marks, E)
    BY <1>2 DEF Parts
  <2> QED
    BY <2>1, SeqMonotonic DEF PartLists
<1>6. \A role \in {"system", "user", "tool"}, parts \in PartLists(Marks, E) :
        Message(role, parts) \in Talk(Marks, E) /\ Message(role, parts).role = role
  BY DEF Message, Talk, Roles
<1>7. Open \subseteq E /\ IsFiniteSet(Open)
  <2>1. AllParts(history) \in PartLists(Marks, E)
    <3> DEFINE ss == [i \in DOMAIN history |-> history[i].parts]
    <3>1. history \in MessageLists(Marks, E)
      BY <1>3, TalkIsMessages
    <3>2. DOMAIN history = 1..Len(history) /\ Len(history) \in Nat
          /\ \A i \in DOMAIN history : history[i] \in Messages(Marks, E)
      BY <3>1 DEF MessageLists
    <3>3. ss \in Seq(PartLists(Marks, E))
      BY <3>2 DEF Messages
    <3> HIDE DEF ss
    <3>4. FlattenSeq(ss) \in PartLists(Marks, E)
      BY <3>3, FlattenType DEF PartLists
    <3> QED
      BY <3>4 DEF AllParts, ss
  <2>2. Ids(AllParts(history), "call") \subseteq E /\ IsFiniteSet(Ids(AllParts(history), "call"))
    BY <2>1, IdsType
  <2> QED
    BY <2>2, FS_Subset DEF Open
<1>8. ASSUME NEW id \in E, NEW n \in Int PROVE Result(id, n, content) \in Parts(Marks, E)
  BY <1>4, TextFromType, PartMade DEF Result, Kinds
<1>9. CASE System(content)
  <2>1. <<"text">> \in Seq(Kinds)
    BY DEF Kinds
  <2>2. PartsOf(<<"text">>, content) \in PartLists(Marks, E)
    BY <1>4, <1>5, <2>1, PartsOfType
  <2> QED
    BY <1>2, <1>3, <1>6, <1>9, <2>2 DEF System
<1>10. ASSUME NEW shape \in UserShapes, User(shape, content)
       PROVE  \E m \in Talk(Marks, E) : Chat(m) /\ m.role = "user"
  <2>1. shape \in Seq({"text", "data", "url", "other"}) /\ {"text", "data", "url", "other"} \subseteq Kinds
    BY ShapesAssumption DEF Kinds
  <2>2. PartsOf(shape, content) \in PartLists(Marks, E)
    BY <1>4, <1>5, <2>1, PartsOfType
  <2> QED
    BY <1>6, <1>10, <2>2 DEF User
<1>11. CASE ToolResult(content)
  <2>1. PICK id \in Open : Chat(Message("tool", <<Result(id, next + 1, content)>>))
    BY <1>11 DEF ToolResult
  <2>2. <<Result(id, next + 1, content)>> \in PartLists(Marks, E)
    BY <1>4, <1>7, <1>8 DEF PartLists
  <2>3. client # "anthropic"
    BY <1>11 DEF ToolResult
  <2> QED
    BY <1>2, <1>3, <1>6, <2>1, <2>2, <2>3
<1>12. ASSUME NEW more \in BOOLEAN, ToolResults(content, more)
       PROVE  \E m \in Talk(Marks, E) : Chat(m) /\ m.role = "user"
  <2> DEFINE ids == SetToSeq(Open)
             results == [i \in DOMAIN ids |-> Result(ids[i], next + i, content)]
             text == IF more THEN <<Part("text", TextFrom("text", next + Len(ids) + 1, content), 0)>> ELSE <<>>
  <2>1. Chat(Message("user", results \o text))
    BY <1>12 DEF ToolResults
  <2>2. ids \in Seq(Open) /\ Len(ids) \in Nat
    BY <1>7, SequenceOfSet
  <2> HIDE DEF ids
  <2>3. results \in PartLists(Marks, E)
    <3>1. DOMAIN ids = 1..Len(ids) /\ \A i \in DOMAIN ids : ids[i] \in E /\ next + i \in Int
      BY <1>4, <1>7, <2>2
    <3>2. \A i \in DOMAIN ids : results[i] \in Parts(Marks, E)
      BY <1>8, <3>1
    <3> QED
      BY <2>2, <3>1, <3>2 DEF PartLists
  <2>4. text \in PartLists(Marks, E)
    <3>1. TextFrom("text", next + Len(ids) + 1, content) \in Texts(Marks)
      BY <1>4, <2>2, TextFromType
    <3>2. Part("text", TextFrom("text", next + Len(ids) + 1, content), 0) \in Parts(Marks, E)
      BY <1>2, <3>1, PartMade DEF Kinds
    <3> QED
      BY <3>2 DEF PartLists
  <2> HIDE DEF results, text
  <2>5. results \o text \in PartLists(Marks, E)
    BY <2>3, <2>4, MoreParts
  <2> QED
    BY <1>6, <2>1, <2>5
<1> QED
  BY <1>2, <1>3, <1>9, <1>10, <1>11, <1>12

LEMMA FewerMarks ==
  ASSUME NEW I, NEW J, NEW D, I \subseteq J
  PROVE  Talks(I, D) \subseteq Talks(J, D)
<1>1. Pieces(I) \subseteq Pieces(J)
  BY DEF Pieces
<1>2. Texts(I) \subseteq Texts(J)
  BY <1>1, SeqMonotonic DEF Texts
<1>3. Parts(I, D) \subseteq Parts(J, D) /\ Voices(I, D) \subseteq Voices(J, D)
  BY <1>2 DEF Parts, Voices
<1>4. PartLists(I, D) \subseteq PartLists(J, D) /\ Seq(Voices(I, D)) \subseteq Seq(Voices(J, D))
  BY <1>3, SeqMonotonic DEF PartLists
<1>5. Talk(I, D) \subseteq Talk(J, D)
  BY <1>4 DEF Talk
<1> QED
  BY <1>5, SeqMonotonic DEF Talks

\* What a model says, and the message the client would get.
Reply(shape, content, ids) ==
  [i \in DOMAIN shape |-> [PartsOf(shape, content)[i] EXCEPT !.id = IF ids THEN @ ELSE 0]]
Told(parts) == <<Message("assistant", AnswerFor(parts))>>

LEMMA ModelSays ==
  ASSUME TalkInv, NEW shape \in AnswerShapes, NEW content \in Contents \cup {CutOff}, NEW ids \in BOOLEAN
  PROVE  \E D : /\ 0 \in D /\ history \in Talks(Marks, D)
                /\ Reply(shape, content, ids) \in Seq(Voices(Marks, D))
                /\ Told(Reply(shape, content, ids)) \in Talks(Marks, D)
<1> DEFINE parts == PartsOf(shape, content)
           reply == Reply(shape, content, ids)
<1>1. PICK D : 0 \in D /\ history \in Talks(Marks, D)
  BY DEF TalkInv
<1> DEFINE E == Made(D \cup Int)
<1>2. content \in AllWords
  BY WordsGrow
<1>3. shape \in Seq(Voice) /\ Voice \subseteq Voice /\ DOMAIN shape = 1..Len(shape) /\ Len(shape) \in Nat
  BY ShapesAssumption DEF Voice
<1>4. parts \in Seq(Voices(Marks, Int)) /\ Len(parts) = Len(shape)
  BY <1>2, <1>3, PartsOfType DEF TalkInv
<1>5. reply \in Seq(Voices(Marks, Int))
  <2> HIDE DEF parts
  <2>1. \A i \in DOMAIN shape : parts[i] \in Voices(Marks, Int)
    BY <1>3, <1>4
  <2>2. \A p \in Voices(Marks, Int) : [p EXCEPT !.id = IF ids THEN @ ELSE 0] \in Voices(Marks, Int)
    BY DEF Voices
  <2>3. \A i \in DOMAIN shape : [parts[i] EXCEPT !.id = IF ids THEN @ ELSE 0] \in Voices(Marks, Int)
    BY <2>1, <2>2
  <2> QED
    BY <1>3, <2>3 DEF Reply, parts
<1> HIDE DEF reply
<1>6. 0 \in D \cup Int /\ D \subseteq E /\ Int \subseteq E
  BY <1>1 DEF Made
<1>7. Voices(Marks, Int) \subseteq Voices(Marks, D \cup Int) /\ Voices(Marks, Int) \subseteq Voices(Marks, E)
  BY <1>6 DEF Voices
<1>8. reply \in Seq(Voices(Marks, D \cup Int)) /\ reply \in Seq(Voices(Marks, E))
  BY <1>5, <1>7, SeqMonotonic
<1>9. AnswerFor(reply) \in Seq(Voices(Marks, E))
  BY <1>6, <1>8, AnswerForType
<1> HIDE DEF E
<1>10. Message("assistant", AnswerFor(reply)) \in Talk(Marks, E)
  BY <1>9 DEF Message, Talk
<1>11. Told(reply) \in Talks(Marks, E)
  BY <1>10 DEF Told, Talks
<1>12. history \in Talks(Marks, E)
  BY <1>1, <1>6, MoreIds
<1> QED
  BY <1>6, <1>8, <1>11, <1>12 DEF reply

\* What the client gets of it.
LEMMA Delivered ==
  ASSUME held \in Policies, NEW D, NEW answer \in Talks(Marks, D), ~Blocked(held, "output", answer)
  PROVE  /\ Redacted(held, "output", answer) \in Talks(Allowed(held, "output"), D)
         /\ Redacted(held, "output", answer) \in Talks(Marks, D)
         /\ Len(Redacted(held, "output", answer)) = Len(answer)
<1>1. Redacted(held, "output", answer) \in Talks(Allowed(held, "output"), D)
  BY RedactedType DEF Sides
<1>2. Allowed(held, "output") \subseteq Marks
  BY DEF Allowed
<1>3. DOMAIN Redacted(held, "output", answer) = DOMAIN answer
  BY DEF Redacted
<1>4. Len(Redacted(held, "output", answer)) = Len(answer)
  BY <1>1, <1>3 DEF Talks
<1> QED
  BY <1>1, <1>2, <1>4, FewerMarks

\* An answer that is delivered.
LEMMA Replies ==
  ASSUME TalkInv, NEW shape \in AnswerShapes, NEW content \in Contents \cup {CutOff}, NEW ids \in BOOLEAN,
         Answer(shape, content, ids)
  PROVE  LET parts == Reply(shape, content, ids)
         IN  \/ phase' = "refused" /\ UNCHANGED <<history, said>>
             \/ /\ ~Blocked(held, "output", Told(parts))
                /\ history' = history \o Redacted(held, "output", Told(parts))
                /\ Remember(parts, Heard(parts)) /\ phase' = "chat"
BY DEF Answer, Reply, Told, Refuse

LEMMA TalkStep == TalkInv /\ [Next]_vars => TalkInv'
<1> SUFFICES ASSUME TalkInv, [Next]_vars PROVE TalkInv'
  OBVIOUS
<1>1. ASSUME NEW content \in Contents,
             \/ System(content) \/ ToolResult(content)
             \/ \E shape \in UserShapes : User(shape, content)
             \/ \E more \in BOOLEAN : ToolResults(content, more)
      PROVE  TalkInv'
  <2>1. PICK D : \E m \in Talk(Marks, D) : 0 \in D /\ history \in Talks(Marks, D) /\ Chat(m)
    BY <1>1, ClientSays
  <2>2. PICK m \in Talk(Marks, D) : 0 \in D /\ history \in Talks(Marks, D) /\ Chat(m)
    BY <2>1
  <2>3. history' \in Talks(Marks, D)
    BY <2>2 DEF Chat, Talks
  <2>4. Len(m.parts) \in Nat
    <3>1. m \in Messages(Marks, D)
      BY TalkIsMessages
    <3> QED
      BY <3>1 DEF Messages, PartLists
  <2> QED
    BY <2>2, <2>3, <2>4 DEF Chat, TalkInv
<1>2. ASSUME NEW protocol \in Upstreams, Ask(protocol) PROVE TalkInv'
  BY <1>2 DEF Ask, Refuse, TalkInv
<1>3. ASSUME NEW shape \in AnswerShapes, NEW content \in Contents \cup {CutOff}, NEW ids \in BOOLEAN,
             Answer(shape, content, ids)
      PROVE  TalkInv'
  <2> DEFINE answer == Told(Reply(shape, content, ids))
  <2>1. PICK D : 0 \in D /\ history \in Talks(Marks, D) /\ answer \in Talks(Marks, D)
    BY ModelSays
  <2>2. \/ phase' = "refused" /\ UNCHANGED history
        \/ ~Blocked(held, "output", answer) /\ history' = history \o Redacted(held, "output", answer) /\ phase' = "chat"
    BY <1>3, Replies
  <2> HIDE DEF answer
  <2>3. held \in Policies
    BY DEF TalkInv
  <2>4. history' \in Talks(Marks, D)
    <3>1. CASE UNCHANGED history
      BY <2>1, <3>1
    <3>2. CASE ~Blocked(held, "output", answer) /\ history' = history \o Redacted(held, "output", answer)
      <4>1. Redacted(held, "output", answer) \in Talks(Marks, D)
        BY <2>1, <2>3, <3>2, Delivered
      <4> QED
        BY <2>1, <3>2, <4>1, ConcatProperties DEF Talks
    <3> QED
      BY <2>2, <3>1, <3>2
  <2>5. Len(shape) \in Nat
    BY ShapesAssumption
  <2>6. /\ next' = next + Len(shape) /\ UNCHANGED <<client, policy, held>>
    BY <1>3 DEF Answer
  <2> QED
    BY <2>1, <2>2, <2>4, <2>5, <2>6 DEF TalkInv
<1>4. ASSUME NEW p \in SomePolicies, UpdatePolicy(p) PROVE TalkInv'
  BY <1>4, PoliciesAssumption DEF UpdatePolicy, TalkInv
<1>5. CASE UNCHANGED vars
  BY <1>5 DEF vars, TalkInv
<1> QED
  BY <1>1, <1>2, <1>3, <1>4, <1>5 DEF Next

LEMMA TalkInit == Init => TalkInv
<1> SUFFICES ASSUME Init PROVE TalkInv
  OBVIOUS
<1>1. <<>> \in Talks(Marks, {0}) /\ 0 \in {0}
  BY DEF Talks
<1>2. history \in Talks(Marks, {0})
  BY <1>1 DEF Init
<1> QED
  BY <1>1, <1>2, PoliciesAssumption, ProtocolsAssumption DEF Init, TalkInv

-----------------------------------------------------------------------------
\* What a policy looks for.

LEMMA SecretsStep == TalkInv /\ SecretsStay /\ [Next]_vars => SecretsStay'
<1> SUFFICES ASSUME TalkInv, SecretsStay, [Next]_vars PROVE SecretsStay'
  OBVIOUS
<1>0. held \in Policies /\ policy \in Policies /\ phase \in {"chat", "asked", "refused"}
  BY DEF TalkInv
<1>1. ASSUME NEW content \in Contents,
             \/ System(content) \/ ToolResult(content)
             \/ \E shape \in UserShapes : User(shape, content)
             \/ \E more \in BOOLEAN : ToolResults(content, more)
      PROVE  SecretsStay'
  <2>1. PICK D : \E m \in Talk(Marks, D) :
          history \in Talks(Marks, D) /\ Chat(m) /\ m.role \in {"system", "user", "tool"}
    BY <1>1, ClientSays
  <2>2. PICK m \in Talk(Marks, D) :
          history \in Talks(Marks, D) /\ Chat(m) /\ m.role \in {"system", "user", "tool"}
    BY <2>1
  <2>3. history' = Append(history, m) /\ phase' = "chat"
    BY <2>2 DEF Chat
  <2>4. Last(history') = m
    BY <2>2, <2>3 DEF Last, Talks
  <2> QED
    BY <2>2, <2>3, <2>4 DEF SecretsStay, Asked
<1>2. ASSUME NEW protocol \in Upstreams, Ask(protocol) PROVE SecretsStay'
  <2> DEFINE clean == Redacted(policy, "input", history)
  <2>1. CASE phase' = "refused"
    BY <2>1 DEF SecretsStay, Asked
  <2>2. CASE phase' # "refused"
    <3>1. /\ ~Blocked(policy, "input", history) /\ request' = Translated(protocol, clean)
          /\ phase' = "asked" /\ held' = policy
      BY <1>2, <2>2 DEF Ask, Refuse
    <3>2. PICK D : 0 \in D /\ history \in Talks(Marks, D)
      BY DEF TalkInv
    <3>3. clean \in Talks(Allowed(policy, "input"), D)
      BY <1>0, <3>1, <3>2, RedactedType DEF Sides
    <3>4. clean \in MessageLists(Allowed(policy, "input"), D)
      BY <3>3, TalkIsMessages
    <3> HIDE DEF clean
    <3>5. request' \in MessageLists(Allowed(policy, "input"), D)
      BY <3>1, <3>2, <3>4, TranslatedType
    <3>6. Clean(policy, "input", request')
      BY <1>0, <3>5, AllowedIsClean DEF Sides
    <3> QED
      BY <3>1, <3>6 DEF SecretsStay, Asked
  <2> QED
    BY <2>1, <2>2
<1>3. ASSUME NEW shape \in AnswerShapes, NEW content \in Contents \cup {CutOff}, NEW ids \in BOOLEAN,
             Answer(shape, content, ids)
      PROVE  SecretsStay'
  <2> DEFINE answer == Told(Reply(shape, content, ids))
             redacted == Redacted(held, "output", answer)
  <2>1. PICK D : 0 \in D /\ history \in Talks(Marks, D) /\ answer \in Talks(Marks, D)
    BY ModelSays
  <2>2. \/ phase' = "refused"
        \/ ~Blocked(held, "output", answer) /\ history' = history \o redacted /\ phase' = "chat"
    BY <1>3, Replies
  <2>3. held' = held /\ Len(answer) = 1
    BY <1>3 DEF Answer, Told
  <2> HIDE DEF answer
  <2>4. CASE phase' = "refused"
    BY <2>4 DEF SecretsStay, Asked
  <2>5. CASE ~Blocked(held, "output", answer) /\ history' = history \o redacted /\ phase' = "chat"
    <3>1. redacted \in Talks(Allowed(held, "output"), D) /\ redacted \in Talks(Marks, D) /\ Len(redacted) = 1
      BY <1>0, <2>1, <2>3, <2>5, Delivered
    <3> HIDE DEF redacted
    <3>2. Last(history') = redacted[1]
      <4> DEFINE T == Talk(Marks, D)
      <4>1. history \in Seq(T) /\ redacted \in Seq(T)
        BY <2>1, <3>1 DEF Talks
      <4> HIDE DEF T
      <4>2. /\ Len(history) \in Nat /\ Len(history \o redacted) = Len(history) + Len(redacted)
            /\ \A i \in 1..Len(history) + Len(redacted) :
                 (history \o redacted)[i] = IF i <= Len(history) THEN history[i] ELSE redacted[i - Len(history)]
        BY <4>1, ConcatProperties
      <4>3. Len(history \o redacted) = Len(history) + 1 /\ (history \o redacted)[Len(history) + 1] = redacted[1]
        BY <3>1, <4>2
      <4> QED
        BY <2>5, <4>3 DEF Last
    <3>3. <<redacted[1]>> \in MessageLists(Allowed(held, "output"), D)
      <4>1. redacted \in MessageLists(Allowed(held, "output"), D)
        BY <3>1, TalkIsMessages
      <4> QED
        BY <3>1, <4>1 DEF MessageLists
    <3>4. Clean(held, "output", <<redacted[1]>>)
      BY <1>0, <3>3, AllowedIsClean DEF Sides
    <3> QED
      BY <2>3, <2>5, <3>2, <3>4 DEF SecretsStay, Asked
  <2> QED
    BY <2>2, <2>4, <2>5
<1>4. ASSUME NEW p \in SomePolicies, UpdatePolicy(p) PROVE SecretsStay'
  BY <1>4 DEF UpdatePolicy, SecretsStay, Asked
<1>5. CASE UNCHANGED vars
  BY <1>5 DEF vars, SecretsStay, Asked
<1> QED
  BY <1>1, <1>2, <1>3, <1>4, <1>5 DEF Next

\* What a policy looks for is in no request that has read it, whatever the protocol it was
\* translated to, and in no answer that is delivered, whatever is said, in whatever pieces,
\* and however often the policy changes meanwhile; except for the pieces "named", which in
\* the arguments of a call stand under a name that the walk passes over, or are names.
\* (applyGuardrailToMap, applyOutputGuardrailsToResult, guardrailSkipStringKey.)
THEOREM SecretsStayEver == Spec => []SecretsStay
<1>1. Init => TalkInv /\ SecretsStay
  <2>1. Init => SecretsStay
    BY DEF Init, SecretsStay, Asked
  <2> QED
    BY <2>1, TalkInit
<1>2. TalkInv /\ SecretsStay /\ [Next]_vars => (TalkInv /\ SecretsStay)'
  BY TalkStep, SecretsStep
<1> QED
  BY <1>1, <1>2, PTL DEF Spec

-----------------------------------------------------------------------------
\* The numbers of what is said, and which of them are counted.

\* Images in a result do not count.
TextMap == [x \in Pieces(Marks) |-> IF x.is # "image" THEN <<x>> ELSE <<>>]
NumMap == [x \in Pieces(Marks) |-> IF x.is # "image" THEN <<x.n>> ELSE <<>>]
Counted(p, K) == IF p.kind \in K THEN Nums(p.text) ELSE <<>>
CountMap(D, K) == [p \in Parts(Marks, D) |-> Counted(p, K)]

LEMMA TextMapsType == TextMap \in Maps(Pieces(Marks), Pieces(Marks)) /\ NumMap \in Maps(Pieces(Marks), Int)
<1> DEFINE Q == Pieces(Marks)
<1>1. \A x \in Q : x.n \in Int
  BY DEF Pieces
<1> HIDE DEF Q
<1>2. \A x \in Q : (IF x.is # "image" THEN <<x>> ELSE <<>>) \in Seq(Q)
  OBVIOUS
<1>3. \A x \in Q : (IF x.is # "image" THEN <<x.n>> ELSE <<>>) \in Seq(Int)
  BY <1>1
<1>4. TextMap \in [Q -> Seq(Q)]
  BY <1>2 DEF TextMap, Q
<1>5. NumMap \in [Q -> Seq(Int)]
  BY <1>3 DEF NumMap, Q
<1> QED
  BY <1>4, <1>5 DEF Maps, Q

LEMMA TextsOnlyFlat ==
  ASSUME NEW text \in Texts(Marks)
  PROVE  TextsOnly(text) = Flat(TextMap, text)
<1>1. \A i \in DOMAIN text : text[i] \in Pieces(Marks)
  BY DEF Texts
<1>2. \A i \in DOMAIN text : TextMap[text[i]] = IF text[i].is # "image" THEN <<text[i]>> ELSE <<>>
  BY <1>1 DEF TextMap
<1> QED
  BY <1>2 DEF TextsOnly, Where, Flat, Mapped

\* The numbers of a text in which nothing is passed over.
LEMMA AllNumsFlat ==
  ASSUME NEW text \in Texts(Marks)
  PROVE  [j \in DOMAIN text |-> text[j].n] = Flat([x \in Pieces(Marks) |-> <<x.n>>], text)
<1> DEFINE g == [x \in Pieces(Marks) |-> x.n]
<1>1. text \in Seq(Pieces(Marks)) /\ DOMAIN g = Pieces(Marks)
  BY DEF Texts
<1>2. Singles(g) = [x \in Pieces(Marks) |-> <<x.n>>]
  BY DEF Singles
<1>3. [i \in DOMAIN text |-> g[text[i]]] = [j \in DOMAIN text |-> text[j].n]
  <2>1. \A i \in DOMAIN text : text[i] \in Pieces(Marks)
    BY <1>1
  <2>2. \A i \in DOMAIN text : g[text[i]] = text[i].n
    BY <2>1
  <2> HIDE DEF g
  <2> QED
    BY <2>2
<1>4. Singles(g) \in Maps(Pieces(Marks), Int)
  BY DEF Pieces, Singles, Maps
<1> HIDE DEF g
<1>5. Flat(Singles(g), text) = [i \in DOMAIN text |-> g[text[i]]]
  BY <1>1, <1>4, FlatSingles
<1> QED
  BY <1>2, <1>3, <1>5

LEMMA NumsFlat ==
  ASSUME NEW text \in Texts(Marks)
  PROVE  Nums(text) = Flat(NumMap, text)
<1> DEFINE Q == Pieces(Marks)
           N == [x \in Q |-> <<x.n>>]
           L == [x \in Q |-> Flat(N, TextMap[x])]
           only == TextsOnly(text)
<1>1. text \in Seq(Q) /\ TextMap \in Maps(Q, Q) /\ N \in Maps(Q, Int)
  <2>1. N \in Maps(Q, Int)
    BY DEF Maps, Pieces
  <2> QED
    BY <2>1, TextMapsType DEF Texts
<1>2. only \in Texts(Marks) /\ only = Flat(TextMap, text)
  BY TextsOnlyType, TextsOnlyFlat
<1>3. Nums(text) = [j \in DOMAIN only |-> only[j].n]
  BY DEF Nums
<1> HIDE DEF only
<1>4. Nums(text) = Flat(N, Flat(TextMap, text))
  BY <1>2, <1>3, AllNumsFlat
<1>5. Flat(N, Flat(TextMap, text)) = Flat(L, text)
  <2> HIDE DEF N, Q
  <2> QED
    BY <1>1, FlatFlat
<1>6. \A x \in Q : L[x] = NumMap[x]
  <2> TAKE x \in Q
  <2>1. Flat(N, <<x>>) = <<x.n>>
    <3>1. Flat(N, <<x>>) = N[x]
      BY <1>1, FlatOne
    <3> QED
      BY <3>1
  <2>2. Flat(N, TextMap[x]) = IF x.is # "image" THEN <<x.n>> ELSE <<>>
    BY <2>1, FlatEmpty DEF TextMap
  <2> QED
    BY <2>2 DEF NumMap
<1>7. Flat(L, text) = Flat(NumMap, text)
  <2> HIDE DEF L
  <2>1. \A i \in DOMAIN text : L[text[i]] = NumMap[text[i]]
    BY <1>1, <1>6
  <2> QED
    BY <2>1, FlatSame
<1> HIDE DEF N, L, Q
<1> QED
  BY <1>4, <1>5, <1>7

LEMMA NumsType ==
  ASSUME NEW text \in Texts(Marks)
  PROVE  Nums(text) \in Seq(Int) /\ Nums(<<>>) = <<>>
<1>1. text \in Seq(Pieces(Marks)) /\ <<>> \in Texts(Marks)
  BY DEF Texts
<1>2. Flat(NumMap, text) \in Seq(Int)
  BY <1>1, TextMapsType, FlatType
<1> QED
  BY <1>1, <1>2, NumsFlat, FlatEmpty

\* A result has the same numbers without its images.
LEMMA NumsOfTexts ==
  ASSUME NEW text \in Texts(Marks)
  PROVE  Nums(TextsOnly(text)) = Nums(text)
<1> DEFINE Q == Pieces(Marks)
           L == [x \in Q |-> Flat(NumMap, TextMap[x])]
<1>1. text \in Seq(Q) /\ TextMap \in Maps(Q, Q) /\ NumMap \in Maps(Q, Int)
  BY TextMapsType DEF Texts
<1>2. Nums(TextsOnly(text)) = Flat(NumMap, Flat(TextMap, text))
  BY TextsOnlyType, TextsOnlyFlat, NumsFlat
<1>3. Flat(NumMap, Flat(TextMap, text)) = Flat(L, text)
  <2> HIDE DEF Q
  <2> QED
    BY <1>1, FlatFlat
<1>4. \A x \in Q : L[x] = NumMap[x]
  <2> TAKE x \in Q
  <2>1. Flat(NumMap, <<x>>) = NumMap[x]
    BY <1>1, FlatOne
  <2>2. TextMap[x] = IF x.is # "image" THEN <<x>> ELSE <<>>
    BY DEF TextMap
  <2>3. x.is = "image" => NumMap[x] = <<>>
    BY DEF NumMap
  <2> QED
    BY <2>1, <2>2, <2>3, FlatEmpty
<1>5. Flat(L, text) = Flat(NumMap, text)
  <2> HIDE DEF L
  <2>1. \A i \in DOMAIN text : L[text[i]] = NumMap[text[i]]
    BY <1>1, <1>4
  <2> QED
    BY <2>1, FlatSame
<1> HIDE DEF L, Q
<1> QED
  BY <1>2, <1>3, <1>5, NumsFlat

LEMMA CountMapType ==
  ASSUME NEW D, NEW K
  PROVE  CountMap(D, K) \in Maps(Parts(Marks, D), Int)
<1>1. \A p \in Parts(Marks, D) : Nums(p.text) \in Seq(Int)
  BY NumsType DEF Parts
<1> QED
  BY <1>1 DEF CountMap, Counted, Maps

LEMMA NumbersFlat ==
  ASSUME NEW D, NEW K, NEW parts \in PartLists(Marks, D)
  PROVE  Numbers(parts, K) = Flat(CountMap(D, K), parts) /\ Numbers(parts, K) \in Seq(Int)
<1>1. parts \in Seq(Parts(Marks, D)) /\ \A i \in DOMAIN parts : parts[i] \in Parts(Marks, D)
  BY DEF PartLists
<1>2. \A i \in DOMAIN parts : CountMap(D, K)[parts[i]] = Counted(parts[i], K)
  BY <1>1 DEF CountMap
<1>3. Numbers(parts, K) = FlattenSeq([i \in DOMAIN parts |-> Counted(parts[i], K)])
  BY DEF Numbers, Counted
<1>4. Numbers(parts, K) = Flat(CountMap(D, K), parts)
  BY <1>2, <1>3 DEF Flat, Mapped
<1>5. Flat(CountMap(D, K), parts) \in Seq(Int)
  BY <1>1, CountMapType, FlatType
<1> QED
  BY <1>4, <1>5

LEMMA NumbersConcat ==
  ASSUME NEW D, NEW K, NEW parts \in PartLists(Marks, D), NEW more \in PartLists(Marks, D)
  PROVE  Numbers(parts \o more, K) = Numbers(parts, K) \o Numbers(more, K)
<1>1. parts \in Seq(Parts(Marks, D)) /\ more \in Seq(Parts(Marks, D)) /\ parts \o more \in PartLists(Marks, D)
  BY MoreParts DEF PartLists
<1>2. Flat(CountMap(D, K), parts \o more) = Flat(CountMap(D, K), parts) \o Flat(CountMap(D, K), more)
  BY <1>1, CountMapType, FlatConcat
<1>3. Numbers(parts \o more, K) = Flat(CountMap(D, K), parts \o more)
  BY <1>1, NumbersFlat
<1> QED
  BY <1>2, <1>3, NumbersFlat

LEMMA NumbersOne ==
  ASSUME NEW D, NEW K, NEW p \in Parts(Marks, D)
  PROVE  Numbers(<<p>>, K) = Counted(p, K) /\ Counted(p, K) \in Seq(Int) /\ Numbers(<<>>, K) = <<>>
<1>1. <<p>> \in PartLists(Marks, D) /\ <<>> \in PartLists(Marks, D)
  BY DEF PartLists
<1>2. Flat(CountMap(D, K), <<p>>) = CountMap(D, K)[p]
  BY CountMapType, FlatOne
<1>3. CountMap(D, K)[p] = Counted(p, K)
  BY DEF CountMap
<1>4. Numbers(<<p>>, K) = Flat(CountMap(D, K), <<p>>) /\ Numbers(<<p>>, K) \in Seq(Int)
      /\ Numbers(<<>>, K) = Flat(CountMap(D, K), <<>>)
  BY <1>1, NumbersFlat
<1> QED
  BY <1>2, <1>3, <1>4, FlatEmpty

LEMMA NumbersNone == ASSUME NEW K PROVE Numbers(<<>>, K) = <<>>
<1>1. [i \in DOMAIN <<>> |-> Counted(<<>>[i], K)] = <<>>
  OBVIOUS
<1>2. Numbers(<<>>, K) = FlattenSeq([i \in DOMAIN <<>> |-> Counted(<<>>[i], K)])
  BY DEF Numbers, Counted
<1> QED
  BY <1>1, <1>2, FlattenEmpty

\* Only the kinds and the numbers matter.
LEMMA NumbersSame ==
  ASSUME NEW K, NEW L, NEW parts, NEW others, DOMAIN parts = DOMAIN others,
         \A i \in DOMAIN parts : Counted(parts[i], K) = Counted(others[i], L)
  PROVE  Numbers(parts, K) = Numbers(others, L)
<1>1. Numbers(parts, K) = FlattenSeq([i \in DOMAIN parts |-> Counted(parts[i], K)])
      /\ Numbers(others, L) = FlattenSeq([i \in DOMAIN others |-> Counted(others[i], L)])
  BY DEF Numbers, Counted
<1>2. [i \in DOMAIN parts |-> Counted(parts[i], K)] = [i \in DOMAIN others |-> Counted(others[i], L)]
  OBVIOUS
<1> QED
  BY <1>1, <1>2

LEMMA NumbersOfKind ==
  ASSUME NEW D, NEW J, NEW K, NEW parts \in PartLists(Marks, D)
  PROVE  Numbers(OfKind(parts, J), K) = Numbers(parts, J \cap K)
<1> DEFINE P == Parts(Marks, D)
           M == [p \in P |-> IF p.kind \in J THEN <<p>> ELSE <<>>]
           N == CountMap(D, K)
           L == [p \in P |-> Flat(N, M[p])]
<1>1. parts \in Seq(P) /\ M \in Maps(P, P) /\ N \in Maps(P, Int)
  <2>1. M \in Maps(P, P)
    BY DEF Maps
  <2> QED
    BY <2>1, CountMapType DEF PartLists
<1>2. OfKind(parts, J) = Flat(M, parts)
  <2>1. \A i \in DOMAIN parts : M[parts[i]] = IF parts[i].kind \in J THEN <<parts[i]>> ELSE <<>>
    BY <1>1
  <2> HIDE DEF M
  <2> QED
    BY <2>1 DEF OfKind, Where, Flat, Mapped
<1>3. OfKind(parts, J) \in PartLists(Marks, D)
  BY OfKindType DEF PartLists
<1>4. Numbers(OfKind(parts, J), K) = Flat(N, OfKind(parts, J))
  BY <1>3, NumbersFlat
<1>5. Flat(N, Flat(M, parts)) = Flat(L, parts)
  <2> HIDE DEF N, M, P
  <2> QED
    BY <1>1, FlatFlat
<1>6. \A p \in P : L[p] = CountMap(D, J \cap K)[p]
  <2> TAKE p \in P
  <2>1. Flat(N, <<p>>) = Counted(p, K)
    <3>1. Flat(N, <<p>>) = N[p]
      BY <1>1, FlatOne
    <3> QED
      BY <3>1 DEF CountMap
  <2>2. CountMap(D, J \cap K)[p] = Counted(p, J \cap K)
    BY DEF CountMap
  <2>3. Flat(N, M[p]) = IF p.kind \in J THEN Counted(p, K) ELSE <<>>
    BY <2>1, FlatEmpty
  <2> QED
    BY <2>2, <2>3 DEF Counted
<1>7. Flat(L, parts) = Flat(CountMap(D, J \cap K), parts)
  <2> HIDE DEF L
  <2>1. \A i \in DOMAIN parts : parts[i] \in P
    BY <1>1
  <2>2. \A i \in DOMAIN parts : L[parts[i]] = CountMap(D, J \cap K)[parts[i]]
    BY <1>6, <2>1
  <2> QED
    BY <2>2, FlatSame
<1> HIDE DEF N, L, M
<1> QED
  BY <1>2, <1>4, <1>5, <1>7, NumbersFlat

\* The texts of a message, joined.
LEMMA NumbersJoined ==
  ASSUME NEW D, NEW parts \in PartLists(Marks, D)
  PROVE  Nums(Joined(parts)) = Numbers(parts, {"text"})
<1> DEFINE P == Parts(Marks, D)
           Q == Pieces(Marks)
           M == [p \in P |-> IF p.kind = "text" THEN p.text ELSE <<>>]
           N == NumMap
           L == [p \in P |-> Flat(N, M[p])]
<1>1. parts \in Seq(P) /\ M \in Maps(P, Q) /\ N \in Maps(Q, Int)
  <2>1. M \in Maps(P, Q)
    BY DEF Maps, Parts, Texts
  <2> QED
    BY <2>1, TextMapsType DEF PartLists
<1>2. Joined(parts) = Flat(M, parts)
  <2>1. \A i \in DOMAIN parts : M[parts[i]] = IF parts[i].kind = "text" THEN parts[i].text ELSE <<>>
    BY <1>1
  <2> HIDE DEF M
  <2> QED
    BY <2>1 DEF Joined, Flat, Mapped
<1>3. Nums(Joined(parts)) = Flat(N, Joined(parts))
  BY JoinedType, NumsFlat
<1>4. Flat(N, Flat(M, parts)) = Flat(L, parts)
  <2> HIDE DEF N, M, P, Q
  <2> QED
    BY <1>1, FlatFlat
<1>5. \A p \in P : L[p] = CountMap(D, {"text"})[p]
  <2> TAKE p \in P
  <2>1. p.text \in Texts(Marks)
    BY DEF Parts
  <2>2. Flat(N, p.text) = Nums(p.text)
    BY <2>1, NumsFlat
  <2>3. Flat(N, M[p]) = IF p.kind = "text" THEN Nums(p.text) ELSE <<>>
    BY <2>2, FlatEmpty
  <2> QED
    BY <2>3 DEF CountMap, Counted
<1>6. Flat(L, parts) = Flat(CountMap(D, {"text"}), parts)
  <2> HIDE DEF L
  <2>1. \A i \in DOMAIN parts : L[parts[i]] = CountMap(D, {"text"})[parts[i]]
    BY <1>1, <1>5
  <2> QED
    BY <2>1, FlatSame
<1> HIDE DEF N, L, M
<1> QED
  BY <1>2, <1>3, <1>4, <1>6, NumbersFlat

-----------------------------------------------------------------------------
\* What the turns of a history say.

Utter(m, K) == IF m.role = "system" THEN <<>> ELSE Numbers(m.parts, K)
Utters(ms, K) == FlattenSeq([i \in DOMAIN ms |-> Utter(ms[i], K)])
UtterMap(D, K) == [m \in Messages(Marks, D) |-> Utter(m, K)]

LEMMA UtterMapType ==
  ASSUME NEW D, NEW K
  PROVE  UtterMap(D, K) \in Maps(Messages(Marks, D), Int)
<1>1. \A m \in Messages(Marks, D) : Utter(m, K) \in Seq(Int)
  <2> TAKE m \in Messages(Marks, D)
  <2>1. m.parts \in PartLists(Marks, D)
    BY DEF Messages
  <2>2. Numbers(m.parts, K) \in Seq(Int)
    BY <2>1, NumbersFlat
  <2> QED
    BY <2>2 DEF Utter
<1> QED
  BY <1>1 DEF UtterMap, Maps

LEMMA UtterType ==
  ASSUME NEW D, NEW K, NEW m \in Messages(Marks, D)
  PROVE  Utter(m, K) \in Seq(Int)
<1>1. UtterMap(D, K)[m] \in Seq(Int)
  BY UtterMapType, MapsType
<1> QED
  BY <1>1 DEF UtterMap

LEMMA UttersFlat ==
  ASSUME NEW D, NEW K, NEW ms \in MessageLists(Marks, D)
  PROVE  Utters(ms, K) = Flat(UtterMap(D, K), ms) /\ Utters(ms, K) \in Seq(Int)
<1>1. ms \in Seq(Messages(Marks, D)) /\ \A i \in DOMAIN ms : ms[i] \in Messages(Marks, D)
  BY DEF MessageLists
<1>2. \A i \in DOMAIN ms : UtterMap(D, K)[ms[i]] = Utter(ms[i], K)
  BY <1>1 DEF UtterMap
<1>3. Utters(ms, K) = Flat(UtterMap(D, K), ms)
  BY <1>2 DEF Utters, Flat, Mapped
<1>4. Flat(UtterMap(D, K), ms) \in Seq(Int)
  BY <1>1, UtterMapType, FlatType
<1> QED
  BY <1>3, <1>4

LEMMA UttersConcat ==
  ASSUME NEW D, NEW K, NEW ms \in MessageLists(Marks, D), NEW more \in MessageLists(Marks, D)
  PROVE  Utters(ms \o more, K) = Utters(ms, K) \o Utters(more, K)
<1>1. ms \in Seq(Messages(Marks, D)) /\ more \in Seq(Messages(Marks, D)) /\ ms \o more \in MessageLists(Marks, D)
  BY MoreMessages DEF MessageLists
<1>2. Flat(UtterMap(D, K), ms \o more) = Flat(UtterMap(D, K), ms) \o Flat(UtterMap(D, K), more)
  BY <1>1, UtterMapType, FlatConcat
<1>3. Utters(ms \o more, K) = Flat(UtterMap(D, K), ms \o more)
  BY <1>1, UttersFlat
<1> QED
  BY <1>2, <1>3, UttersFlat

LEMMA UttersAppend ==
  ASSUME NEW D, NEW K, NEW ms \in MessageLists(Marks, D), NEW m \in Messages(Marks, D)
  PROVE  Utters(Append(ms, m), K) = Utters(ms, K) \o Utter(m, K) /\ Utter(m, K) \in Seq(Int)
<1>1. ms \in Seq(Messages(Marks, D)) /\ Append(ms, m) \in MessageLists(Marks, D)
  BY DEF MessageLists
<1>2. Flat(UtterMap(D, K), Append(ms, m)) = Flat(UtterMap(D, K), ms) \o UtterMap(D, K)[m]
  BY <1>1, UtterMapType, FlatAppend
<1>3. UtterMap(D, K)[m] = Utter(m, K)
  BY DEF UtterMap
<1>4. Utters(Append(ms, m), K) = Flat(UtterMap(D, K), Append(ms, m))
  BY <1>1, UttersFlat
<1>5. UtterMap(D, K)[m] \in Seq(Int)
  BY UtterMapType, MapsType
<1> QED
  BY <1>2, <1>3, <1>4, <1>5, UttersFlat

LEMMA UttersNone == ASSUME NEW K PROVE Utters(<<>>, K) = <<>>
<1>1. [i \in DOMAIN <<>> |-> Utter(<<>>[i], K)] = <<>>
  OBVIOUS
<1> QED
  BY <1>1, FlattenEmpty DEF Utters

LEMMA UttersOne ==
  ASSUME NEW D, NEW K, NEW m \in Messages(Marks, D)
  PROVE  Utters(<<m>>, K) = Utter(m, K)
<1>1. Append(<<>>, m) = <<m>> /\ <<>> \in MessageLists(Marks, D)
  BY DEF MessageLists
<1>2. Utters(Append(<<>>, m), K) = Utters(<<>>, K) \o Utter(m, K) /\ Utter(m, K) \in Seq(Int)
  BY <1>1, UttersAppend
<1>3. <<>> \o Utter(m, K) = Utter(m, K)
  BY <1>2, ConcatEmptySeq
<1> QED
  BY <1>1, <1>2, <1>3, UttersNone

\* Nothing is said by messages of the system.
LEMMA UttersSystem ==
  ASSUME NEW ms, NEW K
  PROVE  Utters(SystemOf(ms), K) = <<>>
<1>1. PICK text : SystemOf(ms) = AppendParts(<<>>, "system", text)
  BY DEF SystemOf
<1>2. SystemOf(ms) = <<>> \/ SystemOf(ms) = <<Message("system", text)>>
  BY <1>1 DEF AppendParts
<1>3. Utter(Message("system", text), K) = <<>>
  BY DEF Utter, Message
<1>4. ASSUME SystemOf(ms) = <<Message("system", text)>> PROVE Utters(SystemOf(ms), K) = <<>>
  <2> DEFINE m == Message("system", text)
             ss == [i \in DOMAIN <<m>> |-> Utter(<<m>>[i], K)]
  <2>1. ss = <<<<>>>>
    <3> HIDE DEF m
    <3> QED
      BY <1>3 DEF m
  <2>2. <<<<>>>> = Append(<<>>, <<>>) /\ <<>> \in Seq(Seq(Int)) /\ <<>> \in Seq(Int)
    OBVIOUS
  <2>3. FlattenSeq(Append(<<>>, <<>>)) = FlattenSeq(<<>>) \o <<>>
    BY <2>2, FlattenAppend
  <2>4. FlattenSeq(<<<<>>>>) = <<>>
    BY <2>2, <2>3, FlattenEmpty
  <2> HIDE DEF m
  <2>5. Utters(<<m>>, K) = FlattenSeq(ss)
    BY DEF Utters
  <2> QED
    BY <1>4, <2>1, <2>4, <2>5 DEF m
<1> QED
  BY <1>2, <1>4, UttersNone

\* What is counted in a request's turns, as the invariant does.
LEMMA UttersTurns ==
  ASSUME NEW D, NEW K, NEW ms \in MessageLists(Marks, D)
  PROVE  Numbers(AllParts(Where(ms, LAMBDA m : m.role # "system")), K) = Utters(ms, K)
<1> DEFINE Y == Messages(Marks, D)
           P == Parts(Marks, D)
           M == [m \in Y |-> IF m.role # "system" THEN <<m>> ELSE <<>>]
           A == [m \in Y |-> m.parts]
           B == [m \in Y |-> Flat(A, M[m])]
           N == CountMap(D, K)
           L == [m \in Y |-> Flat(N, B[m])]
           turns == Where(ms, LAMBDA m : m.role # "system")
<1>1. ms \in Seq(Y) /\ M \in Maps(Y, Y) /\ A \in Maps(Y, P) /\ N \in Maps(P, Int)
  <2>1. ms \in Seq(Y) /\ M \in Maps(Y, Y)
    BY DEF MessageLists, Maps
  <2>2. A \in Maps(Y, P)
    BY DEF Messages, PartLists, Maps
  <2> QED
    BY <2>1, <2>2, CountMapType
<1>2. turns = Flat(M, ms)
  <2>1. \A i \in DOMAIN ms : M[ms[i]] = IF ms[i].role # "system" THEN <<ms[i]>> ELSE <<>>
    BY <1>1
  <2> HIDE DEF M
  <2> QED
    BY <2>1 DEF Where, Flat, Mapped
<1> HIDE DEF turns
<1>3. Flat(M, ms) \in Seq(Y)
  <2> HIDE DEF M, Y
  <2> QED
    BY <1>1, FlatType
<1>4. AllParts(turns) = Flat(A, turns)
  <2>1. \A i \in DOMAIN turns : turns[i] \in Y
    BY <1>2, <1>3
  <2>2. \A i \in DOMAIN turns : A[turns[i]] = turns[i].parts
    BY <2>1
  <2> HIDE DEF A
  <2> QED
    BY <2>2 DEF AllParts, Flat, Mapped
<1>5. Flat(A, Flat(M, ms)) = Flat(B, ms)
  <2> HIDE DEF A, M, Y, P
  <2> QED
    BY <1>1, FlatFlat
<1>6. B \in Maps(Y, P)
  <2>1. \A m \in Y : M[m] \in Seq(Y)
    BY <1>1, MapsType
  <2> HIDE DEF A, M, Y, P
  <2>2. \A m \in Y : Flat(A, M[m]) \in Seq(P)
    BY <1>1, <2>1, FlatType
  <2> QED
    BY <2>2 DEF Maps
<1>7. Flat(B, ms) \in PartLists(Marks, D)
  <2> HIDE DEF B, Y
  <2> QED
    BY <1>1, <1>6, FlatType DEF PartLists
<1>8. Numbers(AllParts(turns), K) = Flat(N, Flat(B, ms))
  <2>1. AllParts(turns) = Flat(B, ms)
    BY <1>2, <1>4, <1>5
  <2> HIDE DEF B, N
  <2> QED
    BY <1>7, <2>1, NumbersFlat DEF N
<1>9. Flat(N, Flat(B, ms)) = Flat(L, ms)
  <2> HIDE DEF N, B, Y, P
  <2> QED
    BY <1>1, <1>6, FlatFlat
<1>10. \A m \in Y : L[m] = UtterMap(D, K)[m]
  <2> TAKE m \in Y
  <2>1. M[m] = (IF m.role # "system" THEN <<m>> ELSE <<>>) /\ A[m] = m.parts /\ m.parts \in PartLists(Marks, D)
    BY DEF Messages
  <2>2. Flat(A, <<m>>) = A[m]
    <3> HIDE DEF A, Y, P
    <3> QED
      BY <1>1, FlatOne
  <2>3. B[m] = IF m.role # "system" THEN m.parts ELSE <<>>
    <3>1. B[m] = Flat(A, M[m])
      OBVIOUS
    <3> HIDE DEF A, M, B
    <3> QED
      BY <2>1, <2>2, <3>1, FlatEmpty
  <2>4. L[m] = Flat(N, B[m])
    OBVIOUS
  <2> HIDE DEF L, B, N
  <2>5. L[m] = IF m.role # "system" THEN Numbers(m.parts, K) ELSE <<>>
    BY <2>1, <2>3, <2>4, NumbersFlat, FlatEmpty DEF N
  <2> QED
    BY <2>5 DEF UtterMap, Utter
<1>11. Flat(L, ms) = Flat(UtterMap(D, K), ms)
  <2> HIDE DEF L
  <2>1. \A i \in DOMAIN ms : ms[i] \in Y
    BY <1>1
  <2>2. \A i \in DOMAIN ms : L[ms[i]] = UtterMap(D, K)[ms[i]]
    BY <1>10, <2>1
  <2> QED
    BY <2>2, FlatSame
<1>12. Utters(ms, K) = Flat(UtterMap(D, K), ms)
  BY UttersFlat
<1> HIDE DEF L, B, N
<1> QED
  BY <1>8, <1>9, <1>11, <1>12 DEF turns

-----------------------------------------------------------------------------
\* What translations are made of keeps what is said.  The kinds that are counted are the
\* contents, with or without images by address, or the calls.

CountedKinds == {Content, Content \ {"url"}, {"call"}}

LEMMA KindsFacts ==
  ASSUME NEW K \in CountedKinds
  PROVE  /\ "thought" \notin K /\ ("text" \in K <=> "call" \notin K)
         /\ K # {"call"} => "text" \in K
BY DEF CountedKinds, Content

LEMMA Regroup ==
  ASSUME NEW a \in Seq(Int), NEW b \in Seq(Int), NEW c \in Seq(Int)
  PROVE  (a \o b) \o c = a \o (b \o c)
BY ConcatAssociative

LEMMA NoMore ==
  ASSUME NEW a \in Seq(Int)
  PROVE  a \o <<>> = a /\ <<>> \o a = a
BY ConcatEmptySeq

\* A sequence whose last element is replaced.
Replaced(s, e) == [s EXCEPT ![Len(s)] = e]

Fronted(Y, s, e) == \E front \in Seq(Y) : s = Append(front, s[Len(s)]) /\ Replaced(s, e) = Append(front, e)

LEMMA LastReplaced ==
  ASSUME NEW Y, NEW s \in Seq(Y), NEW e \in Y, s # <<>>
  PROVE  Fronted(Y, s, e)
<1>1. PICK front \in Seq(Y), y \in Y : s = Append(front, y)
  BY SequenceEmptyOrAppend
<1>2. Len(front) \in Nat /\ Len(s) = Len(front) + 1 /\ s[Len(front) + 1] = y /\ \A i \in 1..Len(front) : s[i] = front[i]
  BY <1>1, AppendProperties
<1> DEFINE t == [s EXCEPT ![Len(s)] = e]
           u == Append(front, e)
<1>3. t \in Seq(Y) /\ Len(t) = Len(s) /\ t[Len(s)] = e /\ \A i \in 1..Len(front) : t[i] = s[i]
  <2>1. DOMAIN s = 1..Len(s) /\ Len(s) \in Nat /\ Len(s) \in 1..Len(s)
    BY <1>2
  <2>2. t \in Seq(Y) /\ Len(t) = Len(s)
    BY <2>1
  <2> QED
    BY <1>2, <2>1, <2>2
<1>4. u \in Seq(Y) /\ Len(u) = Len(front) + 1 /\ u[Len(front) + 1] = e /\ \A i \in 1..Len(front) : u[i] = front[i]
  BY AppendProperties
<1> HIDE DEF t, u
<1>5. \A i \in 1..Len(t) : t[i] = u[i]
  <2> TAKE i \in 1..Len(t)
  <2>1. i \in 1..Len(front) \/ i = Len(front) + 1
    BY <1>2, <1>3
  <2> QED
    BY <1>2, <1>3, <1>4, <2>1
<1>6. t = u
  BY <1>2, <1>3, <1>4, <1>5, SeqEqual
<1> QED
  BY <1>1, <1>2, <1>6 DEF t, u, Replaced, Fronted

Prolongs(Y, S, g, s, e, more) ==
  /\ g \in Maps(Y, S) /\ s \in Seq(Y) /\ s # <<>> /\ e \in Y /\ more \in Seq(S)
  /\ g[e] = g[s[Len(s)]] \o more

LEMMA ReplacedMeasured ==
  ASSUME NEW Y, NEW S, NEW g, NEW s, NEW e, NEW more, Prolongs(Y, S, g, s, e, more)
  PROVE  Flat(g, Replaced(s, e)) = Flat(g, s) \o more
<1>a. /\ g \in Maps(Y, S) /\ s \in Seq(Y) /\ s # <<>> /\ e \in Y /\ more \in Seq(S)
      /\ g[e] = g[s[Len(s)]] \o more
  BY DEF Prolongs
<1> USE <1>a
<1>0. Fronted(Y, s, e)
  BY LastReplaced
<1>1. PICK front \in Seq(Y) : s = Append(front, s[Len(s)]) /\ Replaced(s, e) = Append(front, e)
  BY <1>0 DEF Fronted
<1>2. PICK y : y = s[Len(s)]
  OBVIOUS
<1>3. y \in Y /\ s = Append(front, y) /\ g[e] = g[y] \o more
  BY <1>1, <1>2
<1>4. Flat(g, Append(front, y)) = Flat(g, front) \o g[y] /\ Flat(g, Append(front, e)) = Flat(g, front) \o g[e]
  BY <1>3, FlatAppend
<1>5. Flat(g, front) \in Seq(S) /\ g[y] \in Seq(S)
  BY <1>3, FlatType, MapsType
<1>6. (Flat(g, front) \o g[y]) \o more = Flat(g, front) \o (g[y] \o more)
  <2> DEFINE a == Flat(g, front)
             b == g[y]
  <2>1. a \in Seq(S) /\ b \in Seq(S) /\ more \in Seq(S)
    BY <1>5
  <2> HIDE DEF a, b
  <2>2. (a \o b) \o more = a \o (b \o more)
    BY ONLY <2>1, ConcatAssociative
  <2> QED
    BY <2>2 DEF a, b
<1> QED
  BY <1>1, <1>3, <1>4, <1>6

LEMMA NumsConcat ==
  ASSUME NEW a \in Texts(Marks), NEW b \in Texts(Marks)
  PROVE  Nums(a \o b) = Nums(a) \o Nums(b)
<1> DEFINE N == NumMap
<1>1. N \in Maps(Pieces(Marks), Int)
  BY TextMapsType
<1>2. a \in Seq(Pieces(Marks)) /\ b \in Seq(Pieces(Marks)) /\ a \o b \in Texts(Marks)
  BY ConcatProperties DEF Texts
<1>3. Nums(a) = Flat(N, a) /\ Nums(b) = Flat(N, b) /\ Nums(a \o b) = Flat(N, a \o b)
  BY <1>2, NumsFlat
<1> HIDE DEF N
<1>4. Flat(N, a \o b) = Flat(N, a) \o Flat(N, b)
  BY <1>1, <1>2, FlatConcat
<1> QED
  BY <1>3, <1>4

LEMMA NumbersNothing ==
  ASSUME NEW D, NEW K, NEW parts \in PartLists(Marks, D), \A i \in DOMAIN parts : parts[i].kind \notin K
  PROVE  Numbers(parts, K) = <<>>
<1> DEFINE N == [p \in Parts(Marks, D) |-> <<>>]
<1>1. parts \in Seq(Parts(Marks, D)) /\ \A i \in DOMAIN parts : parts[i] \in Parts(Marks, D)
  BY DEF PartLists
<1>2. N \in Maps(Parts(Marks, D), Int) /\ \A p \in Parts(Marks, D) : N[p] = <<>>
  BY DEF Maps
<1>3. \A i \in DOMAIN parts : CountMap(D, K)[parts[i]] = N[parts[i]]
  BY <1>1 DEF CountMap, Counted
<1> HIDE DEF N
<1>4. Flat(CountMap(D, K), parts) = Flat(N, parts)
  BY <1>3, FlatSame
<1>5. Flat(N, parts) = <<>>
  BY <1>1, <1>2, FlatNothing
<1> QED
  BY <1>4, <1>5, NumbersFlat

LEMMA NumbersText ==
  ASSUME NEW D, 0 \in D, NEW K, NEW text \in Texts(Marks)
  PROVE  Numbers(Text(text), K) = IF "text" \in K THEN Nums(text) ELSE <<>>
<1> DEFINE p == Part("text", text, 0)
<1>1. p \in Parts(Marks, D) /\ p.kind = "text" /\ p.text = text
  BY PartMade DEF Kinds, Part
<1> HIDE DEF p
<1>2. Numbers(<<p>>, K) = Counted(p, K) /\ Numbers(<<>>, K) = <<>> /\ Nums(<<>>) = <<>>
  BY <1>1, NumbersOne, NumsType
<1>3. Text(text) = IF text = <<>> THEN <<>> ELSE <<p>>
  BY DEF Text, p
<1> QED
  BY <1>1, <1>2, <1>3 DEF Counted

\* Texts joined into one and calls behind it.
LEMMA NumbersBefore ==
  ASSUME NEW D, NEW K \in CountedKinds, NEW parts \in Seq(Voices(Marks, D)), NEW first \in PartLists(Marks, D),
         Numbers(first, K) = IF "text" \in K THEN Nums(Joined(parts)) ELSE <<>>
  PROVE  Numbers(first \o OfKind(parts, {"call"}), K) = Numbers(parts, K)
<1>1. parts \in PartLists(Marks, D) /\ \A i \in DOMAIN parts : parts[i].kind \in Voice
  <2>1. \A i \in DOMAIN parts : parts[i] \in Voices(Marks, D)
    OBVIOUS
  <2> QED
    BY <2>1, VoicesAreParts DEF Voices
<1>3. OfKind(parts, {"call"}) \in PartLists(Marks, D)
  BY <1>1, OfKindType DEF PartLists
<1>4. Numbers(first \o OfKind(parts, {"call"}), K) = Numbers(first, K) \o Numbers(OfKind(parts, {"call"}), K)
  BY <1>3, NumbersConcat
<1>5. Numbers(OfKind(parts, {"call"}), K) = Numbers(parts, {"call"} \cap K)
  BY <1>1, NumbersOfKind
<1>6. Numbers(first, K) = IF "text" \in K THEN Nums(Joined(parts)) ELSE <<>>
  OBVIOUS
<1>7. Nums(Joined(parts)) = Numbers(parts, {"text"})
  BY <1>1, NumbersJoined
<1>8. Numbers(parts, K) \in Seq(Int)
  BY <1>1, NumbersFlat
<1>9. CASE "text" \in K
  <2>1. {"call"} \cap K = {}
    BY <1>9, KindsFacts
  <2>2. Numbers(parts, {}) = <<>>
    BY <1>1, NumbersNothing
  <2>3. \A i \in DOMAIN parts : Counted(parts[i], {"text"}) = Counted(parts[i], K)
    BY <1>1, <1>9, KindsFacts DEF Counted, Voice
  <2>4. Numbers(parts, {"text"}) = Numbers(parts, K)
    BY <2>3, NumbersSame
  <2> QED
    BY <1>4, <1>5, <1>6, <1>7, <1>8, <1>9, <2>1, <2>2, <2>4, NoMore
<1>10. CASE "text" \notin K
  <2>1. K = {"call"} /\ {"call"} \cap K = K
    BY <1>10, KindsFacts
  <2> QED
    BY <1>4, <1>5, <1>6, <1>8, <1>10, <2>1, NoMore
<1> QED
  BY <1>9, <1>10

LEMMA NumbersSpeech ==
  ASSUME NEW D, 0 \in D, NEW K \in CountedKinds, NEW parts \in Seq(Voices(Marks, D))
  PROVE  /\ Numbers(Text(Joined(parts)) \o OfKind(parts, {"call"}), K) = Numbers(parts, K)
         /\ Numbers(<<Part("text", Joined(parts), 0)>> \o OfKind(parts, {"call"}), K) = Numbers(parts, K)
<1> DEFINE t == Joined(parts)
           first == <<Part("text", t, 0)>>
<1>1. t \in Texts(Marks)
  BY VoicesAreParts, JoinedType
<1> HIDE DEF t
<1>2. Text(t) \in PartLists(Marks, D) /\ Numbers(Text(t), K) = IF "text" \in K THEN Nums(t) ELSE <<>>
  BY <1>1, TextType, NumbersText
<1>3. first \in PartLists(Marks, D) /\ Numbers(first, K) = IF "text" \in K THEN Nums(t) ELSE <<>>
  <2> DEFINE p == Part("text", t, 0)
  <2>1. p \in Parts(Marks, D) /\ p.kind = "text" /\ p.text = t
    BY <1>1, PartMade DEF Kinds, Part
  <2> HIDE DEF p
  <2>2. <<p>> \in PartLists(Marks, D) /\ Numbers(<<p>>, K) = Counted(p, K)
    BY <2>1, NumbersOne DEF PartLists
  <2> QED
    BY <2>1, <2>2 DEF Counted, p
<1> HIDE DEF first
<1>4. Numbers(Text(t) \o OfKind(parts, {"call"}), K) = Numbers(parts, K)
  <2>1. PICK first1 : first1 = Text(t)
    OBVIOUS
  <2> QED
    BY <1>2, <2>1, NumbersBefore DEF t
<1>5. Numbers(first \o OfKind(parts, {"call"}), K) = Numbers(parts, K)
  BY <1>3, NumbersBefore DEF t
<1> QED
  BY <1>4, <1>5 DEF first, t

\* Parts without text do not count.
LEMMA NumbersSaid ==
  ASSUME NEW D, NEW K \in CountedKinds, NEW parts \in PartLists(Marks, D)
  PROVE  Numbers(Where(parts, Known), K) = Numbers(parts, K)
<1> DEFINE P == Parts(Marks, D)
           M == [p \in P |-> IF Known(p) THEN <<p>> ELSE <<>>]
           N == CountMap(D, K)
           L == [p \in P |-> Flat(N, M[p])]
           kept == Where(parts, Known)
<1>1. parts \in Seq(P) /\ M \in Maps(P, P) /\ N \in Maps(P, Int)
  <2>1. M \in Maps(P, P)
    BY DEF Maps
  <2> QED
    BY <2>1, CountMapType DEF PartLists
<1>2. kept = Flat(M, parts)
  <2>1. \A i \in DOMAIN parts : M[parts[i]] = IF Known(parts[i]) THEN <<parts[i]>> ELSE <<>>
    BY <1>1
  <2> HIDE DEF M
  <2> QED
    BY <2>1 DEF Where, Flat, Mapped
<1>3. kept \in PartLists(Marks, D)
  BY SaidType
<1> HIDE DEF kept
<1>4. Numbers(kept, K) = Flat(N, kept)
  BY <1>3, NumbersFlat
<1>5. Flat(N, Flat(M, parts)) = Flat(L, parts)
  <2> HIDE DEF N, M, P
  <2> QED
    BY <1>1, FlatFlat
<1>6. \A p \in P : L[p] = N[p]
  <2> TAKE p \in P
  <2>1. Flat(N, <<p>>) = N[p] /\ N[p] = Counted(p, K)
    BY <1>1, FlatOne DEF CountMap
  <2>2. ~Known(p) => Counted(p, K) = <<>>
    <3>1. p.text \in Texts(Marks)
      BY DEF Parts
    <3>2. "other" \notin K
      BY DEF CountedKinds, Content
    <3> QED
      BY <3>1, <3>2, NumsType DEF Counted, Known
  <2>3. Flat(N, M[p]) = IF Known(p) THEN Counted(p, K) ELSE <<>>
    BY <2>1, FlatEmpty
  <2> QED
    BY <2>1, <2>2, <2>3
<1>7. Flat(L, parts) = Flat(N, parts)
  <2> HIDE DEF L, N
  <2>1. \A i \in DOMAIN parts : parts[i] \in P
    BY <1>1
  <2>2. \A i \in DOMAIN parts : L[parts[i]] = N[parts[i]]
    BY <1>6, <2>1
  <2> QED
    BY <2>2, FlatSame
<1> HIDE DEF L, M
<1> QED
  BY <1>2, <1>4, <1>5, <1>7, NumbersFlat DEF kept

-----------------------------------------------------------------------------
\* Translations to Anthropic's protocol and to Bedrock's keep what is said.

\* What a message of this role with these parts says.
LEMMA UtterMade ==
  ASSUME NEW K, NEW role, NEW parts
  PROVE  Utter(Message(role, parts), K) = IF role = "system" THEN <<>> ELSE Numbers(parts, K)
BY DEF Utter, Message

LEMMA UttersAppendAlways ==
  ASSUME NEW D, NEW K, NEW ms \in MessageLists(Marks, D), NEW role \in Roles, NEW parts \in PartLists(Marks, D)
  PROVE  Utters(AppendAlways(ms, role, parts), K)
           = Utters(ms, K) \o (IF role = "system" THEN <<>> ELSE Numbers(parts, K))
<1> DEFINE m == Message(role, parts)
<1>1. m \in Messages(Marks, D) /\ Utter(m, K) = (IF role = "system" THEN <<>> ELSE Numbers(parts, K))
  BY MessageMade, UtterMade
<1>2. Utters(ms, K) \in Seq(Int)
  BY UttersFlat
<1>3. AppendAlways(ms, role, parts) = IF parts = <<>> THEN ms ELSE Append(ms, m)
  BY DEF AppendAlways
<1> HIDE DEF m
<1>4. Utters(Append(ms, m), K) = Utters(ms, K) \o Utter(m, K)
  BY <1>1, UttersAppend
<1> QED
  BY <1>1, <1>2, <1>3, <1>4, NumbersNone, NoMore

LEMMA UttersAppendParts ==
  ASSUME NEW D, NEW K, NEW ms \in MessageLists(Marks, D), NEW role \in Roles, NEW parts \in PartLists(Marks, D)
  PROVE  Utters(AppendParts(ms, role, parts), K)
           = Utters(ms, K) \o (IF role = "system" THEN <<>> ELSE Numbers(parts, K))
<1> DEFINE more == IF role = "system" THEN <<>> ELSE Numbers(parts, K)
<1>1. CASE parts = <<>> \/ ~(ms # <<>> /\ Last(ms).role = role)
  <2>1. AppendParts(ms, role, parts) = AppendAlways(ms, role, parts)
    BY <1>1 DEF AppendParts, AppendAlways
  <2> QED
    BY <2>1, UttersAppendAlways
<1>2. CASE parts # <<>> /\ ms # <<>> /\ Last(ms).role = role
  <2> DEFINE m == ms[Len(ms)]
             new == [m EXCEPT !.parts = @ \o parts]
  <2>1. ms \in Seq(Messages(Marks, D)) /\ Len(ms) \in 1..Len(ms) /\ m \in Messages(Marks, D) /\ m.role = role
    BY <1>2 DEF MessageLists, Last
  <2>2. m.parts \in PartLists(Marks, D)
    BY <2>1 DEF Messages
  <2>3. m.parts \o parts \in PartLists(Marks, D) /\ Numbers(m.parts \o parts, K) = Numbers(m.parts, K) \o Numbers(parts, K)
    BY <2>2, MoreParts, NumbersConcat
  <2>4. new \in Messages(Marks, D) /\ new.role = role /\ new.parts = m.parts \o parts
    BY <2>1, <2>3 DEF Messages
  <2>5. AppendParts(ms, role, parts) = Replaced(ms, new)
    BY <1>2 DEF AppendParts, Replaced
  <2> HIDE DEF new
  <2>6. Numbers(parts, K) \in Seq(Int) /\ more \in Seq(Int) /\ Utter(m, K) \in Seq(Int)
    <3>1. Numbers(parts, K) \in Seq(Int) /\ <<>> \in Seq(Int)
      BY NumbersFlat
    <3> QED
      BY <2>1, <3>1, UtterType
  <2>7. Utter(new, K) = Utter(m, K) \o more
    <3>1. Utter(new, K) = IF role = "system" THEN <<>> ELSE Numbers(m.parts, K) \o Numbers(parts, K)
      BY <2>3, <2>4 DEF Utter
    <3>2. Utter(m, K) = IF role = "system" THEN <<>> ELSE Numbers(m.parts, K)
      BY <2>1 DEF Utter
    <3>3. <<>> \o <<>> = <<>>
      OBVIOUS
    <3> QED
      BY <3>1, <3>2, <3>3
  <2> HIDE DEF more
  <2> DEFINE g == UtterMap(D, K)
  <2>8. g \in Maps(Messages(Marks, D), Int) /\ g[new] = g[ms[Len(ms)]] \o more
    BY <2>1, <2>4, <2>7, UtterMapType DEF UtterMap
  <2> HIDE DEF g
  <2>9. Prolongs(Messages(Marks, D), Int, g, ms, new, more)
    BY <1>2, <2>1, <2>4, <2>6, <2>8 DEF Prolongs
  <2>10. Flat(g, Replaced(ms, new)) = Flat(g, ms) \o more
    BY <2>9, ReplacedMeasured
  <2>11. AppendParts(ms, role, parts) \in MessageLists(Marks, D)
    BY AppendPartsType
  <2> QED
    BY <2>5, <2>10, <2>11, UttersFlat DEF g, more
<1> QED
  BY <1>1, <1>2

LEMMA TurnToAnthropicUtters ==
  ASSUME NEW D, 0 \in D, NEW K \in CountedKinds, NEW turns \in MessageLists(Marks, D), NEW m \in Talk(Marks, D)
  PROVE  Utters(TurnToAnthropic(turns, m), K) = Utters(turns, K) \o Utter(m, K)
<1>1. m.parts \in PartLists(Marks, D) /\ m.role \in Roles
      /\ (m.role = "assistant" => m.parts \in Seq(Voices(Marks, D)))
  BY TalkIsMessages DEF Messages, Talk
<1>2. "assistant" \in Roles /\ "user" \in Roles /\ Utters(turns, K) \in Seq(Int)
  BY UttersFlat DEF Roles
<1>3. CASE m.role = "system"
  BY <1>2, <1>3, NoMore DEF TurnToAnthropic, Utter
<1>4. CASE m.role = "assistant"
  <2> DEFINE parts == Text(Joined(m.parts)) \o OfKind(m.parts, {"call"})
  <2>1. Text(Joined(m.parts)) \in PartLists(Marks, D) /\ OfKind(m.parts, {"call"}) \in PartLists(Marks, D)
    BY <1>1, JoinedType, TextType, OfKindType DEF PartLists
  <2>2. parts \in PartLists(Marks, D)
    BY <2>1, MoreParts
  <2>3. Numbers(parts, K) = Numbers(m.parts, K)
    BY <1>1, <1>4, NumbersSpeech
  <2>4. TurnToAnthropic(turns, m) = AppendParts(turns, "assistant", parts)
    BY <1>4 DEF TurnToAnthropic
  <2> HIDE DEF parts
  <2>5. Utters(AppendParts(turns, "assistant", parts), K) = Utters(turns, K) \o Numbers(parts, K)
    BY <1>2, <2>2, UttersAppendParts
  <2> QED
    BY <1>4, <2>3, <2>4, <2>5 DEF Utter
<1>5. CASE m.role = "tool"
  <2>1. Utters(AppendParts(turns, "user", m.parts), K) = Utters(turns, K) \o Numbers(m.parts, K)
    BY <1>1, <1>2, UttersAppendParts
  <2> QED
    BY <1>5, <2>1 DEF TurnToAnthropic, Utter
<1>6. CASE m.role = "user"
  <2> DEFINE parts == Where(m.parts, Known)
  <2>1. parts \in PartLists(Marks, D) /\ Numbers(parts, K) = Numbers(m.parts, K)
    BY <1>1, SaidType, NumbersSaid
  <2>2. TurnToAnthropic(turns, m) = AppendParts(turns, "user", parts)
    BY <1>6 DEF TurnToAnthropic
  <2> HIDE DEF parts
  <2>3. Utters(AppendParts(turns, "user", parts), K) = Utters(turns, K) \o Numbers(parts, K)
    BY <1>2, <2>1, UttersAppendParts
  <2> QED
    BY <1>6, <2>1, <2>2, <2>3 DEF Utter
<1> QED
  BY <1>1, <1>3, <1>4, <1>5, <1>6 DEF Roles

LEMMA ToAnthropicUtters ==
  ASSUME NEW D, 0 \in D, NEW K \in CountedKinds, NEW ms \in Talks(Marks, D)
  PROVE  Utters(ToAnthropic(ms), K) = Utters(ms, K)
<1> DEFINE X == MessageLists(Marks, D)
           Y == Talk(Marks, D)
           M == [x \in X |-> Utters(x, K)]
           N == [m \in Y |-> Utter(m, K)]
           e == <<>>
<1>1. AnthropicTurnsIn(X, Y)
  BY TurnToAnthropicType, TalkIsMessages DEF AnthropicTurnsIn
<1>2. e \in X /\ ms \in Seq(Y) /\ M[e] = <<>>
  BY UttersNone DEF MessageLists, Talks
<1>3. M \in Maps(X, Int) /\ N \in Maps(Y, Int)
  <2>1. M \in Maps(X, Int)
    BY UttersFlat DEF Maps
  <2>2. \A m \in Y : Utter(m, K) \in Seq(Int)
    BY TalkIsMessages, UtterType
  <2> QED
    BY <2>1, <2>2 DEF Maps
<1>4. \A x \in X, y \in Y : M[TurnToAnthropic(x, y)] = M[x] \o N[y]
  <2> TAKE x \in X, y \in Y
  <2>1. TurnToAnthropic(x, y) \in X
    BY <1>1 DEF AnthropicTurnsIn
  <2>2. Utters(TurnToAnthropic(x, y), K) = Utters(x, K) \o Utter(y, K)
    BY TurnToAnthropicUtters
  <2> QED
    BY <2>1, <2>2
<1>5. Flat(N, ms) = Utters(ms, K)
  <2>1. \A i \in DOMAIN ms : ms[i] \in Y
    BY <1>2
  <2>2. \A i \in DOMAIN ms : N[ms[i]] = Utter(ms[i], K)
    BY <2>1
  <2> HIDE DEF N
  <2> QED
    BY <2>2 DEF Flat, Mapped, Utters
<1> HIDE DEF X, Y, M, N, e
<1>6. PICK h \in [0..Len(ms) -> X] :
        /\ h[0] = e /\ AnthropicTurns(e, ms) = h[Len(ms)]
        /\ \A i \in 1..Len(ms) : h[i] = TurnToAnthropic(h[i - 1], ms[i])
  BY <1>1, <1>2, AnthropicTurnsFold
<1>7. Measured(X, Y, Int, M, N, h, ms)
  <2> SUFFICES ASSUME NEW i \in 1..Len(ms) PROVE M[h[i]] = M[h[i - 1]] \o N[ms[i]]
    BY <1>2, <1>3, <1>6 DEF Measured, Grows
  <2>1. i - 1 \in 0..Len(ms) /\ ms[i] \in Y
    BY <1>2
  <2>2. h[i - 1] \in X
    BY <2>1
  <2> QED
    BY <1>4, <1>6, <2>1, <2>2
<1>8. AddsUp(M, N, h, ms)
  BY <1>7, FoldMeasured
<1>9. ms \in MessageLists(Marks, D)
  BY TalkIsMessages
<1>10. h[Len(ms)] \in X /\ Utters(ms, K) \in Seq(Int)
  <2>1. Len(ms) \in 0..Len(ms)
    BY <1>2
  <2> QED
    BY <1>9, <2>1, UttersFlat
<1>11. Utters(AnthropicTurns(e, ms), K) = Utters(ms, K) /\ AnthropicTurns(e, ms) \in MessageLists(Marks, D)
  BY <1>2, <1>5, <1>6, <1>8, <1>10, NoMore DEF M, X, AddsUp
<1>12. SystemOf(ms) \in MessageLists(Marks, D) /\ Utters(SystemOf(ms), K) = <<>>
  BY <1>9, SystemOfType, UttersSystem
<1>13. ToAnthropic(ms) = SystemOf(ms) \o AnthropicTurns(e, ms)
  BY DEF ToAnthropic, AnthropicTurns, e
<1>14. Utters(SystemOf(ms) \o AnthropicTurns(e, ms), K) = Utters(SystemOf(ms), K) \o Utters(AnthropicTurns(e, ms), K)
  <2> DEFINE a == SystemOf(ms)
             b == AnthropicTurns(e, ms)
  <2>1. a \in MessageLists(Marks, D) /\ b \in MessageLists(Marks, D)
    BY <1>11, <1>12
  <2> HIDE DEF a, b
  <2>2. Utters(a \o b, K) = Utters(a, K) \o Utters(b, K)
    BY <2>1, UttersConcat
  <2> QED
    BY <2>2 DEF a, b
<1> QED
  BY <1>10, <1>11, <1>12, <1>13, <1>14, NoMore

\* Blocks.

LEMMA NumbersAppend ==
  ASSUME NEW D, NEW K, NEW parts \in PartLists(Marks, D), NEW p \in Parts(Marks, D)
  PROVE  Numbers(Append(parts, p), K) = Numbers(parts, K) \o Counted(p, K)
<1>1. parts \in Seq(Parts(Marks, D)) /\ Append(parts, p) \in PartLists(Marks, D)
  BY DEF PartLists
<1>2. Flat(CountMap(D, K), Append(parts, p)) = Flat(CountMap(D, K), parts) \o CountMap(D, K)[p]
  BY <1>1, CountMapType, FlatAppend
<1>3. CountMap(D, K)[p] = Counted(p, K)
  BY DEF CountMap
<1>4. Numbers(Append(parts, p), K) = Flat(CountMap(D, K), Append(parts, p))
  BY <1>1, NumbersFlat
<1> QED
  BY <1>2, <1>3, <1>4, NumbersFlat

LEMMA AddBlockNumbers ==
  ASSUME NEW D, NEW K, NEW blocks \in PartLists(Marks, D), NEW p \in Parts(Marks, D)
  PROVE  Numbers(AddBlock(blocks, p), K) = Numbers(blocks, K) \o Counted(p, K)
<1>0. Numbers(blocks, K) \in Seq(Int) /\ Counted(p, K) \in Seq(Int) /\ p.text \in Texts(Marks)
  BY NumbersFlat, NumbersOne DEF Parts
<1>1. CASE p.kind = "text" /\ p.text = <<>>
  <2>1. Counted(p, K) = <<>>
    BY <1>0, <1>1, NumsType DEF Counted
  <2>2. AddBlock(blocks, p) = blocks
    BY <1>1 DEF AddBlock
  <2> QED
    BY <1>0, <2>1, <2>2, NoMore
<1>2. CASE p.kind = "text" /\ p.text # <<>> /\ blocks # <<>> /\ Last(blocks).kind = "text"
  <2> DEFINE b == blocks[Len(blocks)]
             new == [b EXCEPT !.text = @ \o p.text]
             g == CountMap(D, K)
             more == Counted(p, K)
  <2>1. blocks \in Seq(Parts(Marks, D)) /\ b \in Parts(Marks, D) /\ b.kind = "text"
    BY <1>2 DEF PartLists, Last
  <2>2. b.text \in Texts(Marks)
    BY <2>1 DEF Parts
  <2>3. b.text \o p.text \in Texts(Marks) /\ Nums(b.text \o p.text) = Nums(b.text) \o Nums(p.text)
    <3>1. b.text \o p.text \in Texts(Marks)
      BY <1>0, <2>2, ConcatProperties DEF Texts
    <3> HIDE DEF b
    <3> QED
      BY <1>0, <2>2, <3>1, NumsConcat
  <2>4. new \in Parts(Marks, D) /\ new.kind = "text" /\ new.text = b.text \o p.text
    BY <2>1, <2>3 DEF Parts
  <2>5. AddBlock(blocks, p) = Replaced(blocks, new)
    BY <1>2 DEF AddBlock, Replaced
  <2> HIDE DEF new
  <2>6. g[new] = g[b] \o more
    <3>1. g[new] = Counted(new, K) /\ g[b] = Counted(b, K)
      BY <2>1, <2>4 DEF CountMap
    <3> HIDE DEF g, b
    <3>2. Counted(new, K) = Counted(b, K) \o more
      <4>1. CASE "text" \in K
        BY <1>2, <2>1, <2>3, <2>4, <4>1 DEF Counted
      <4>2. CASE "text" \notin K
        <5>1. <<>> \o <<>> = <<>>
          OBVIOUS
        <5> QED
          BY <1>2, <2>1, <2>4, <4>2, <5>1 DEF Counted
      <4> QED
        BY <4>1, <4>2
    <3> QED
      BY <3>1, <3>2
  <2> HIDE DEF g, more
  <2>7. Flat(g, Replaced(blocks, new)) = Flat(g, blocks) \o more
    <3>1. Prolongs(Parts(Marks, D), Int, g, blocks, new, more)
      BY <1>0, <1>2, <2>1, <2>4, <2>6, CountMapType DEF g, more, Prolongs
    <3> QED
      BY <3>1, ReplacedMeasured
  <2>8. AddBlock(blocks, p) \in PartLists(Marks, D)
    BY AddBlockType
  <2> QED
    BY <2>5, <2>7, <2>8, NumbersFlat DEF g, more
<1>3. CASE ~(p.kind = "text" /\ p.text = <<>>)
           /\ ~(p.kind = "text" /\ p.text # <<>> /\ blocks # <<>> /\ Last(blocks).kind = "text")
  <2>1. AddBlock(blocks, p) = Append(blocks, p)
    BY <1>3 DEF AddBlock
  <2> QED
    BY <2>1, NumbersAppend
<1> QED
  BY <1>1, <1>2, <1>3

LEMMA BedrockBlocksNumbers ==
  ASSUME NEW D, NEW K, NEW parts \in PartLists(Marks, D)
  PROVE  Numbers(BedrockBlocks(parts), K) = Numbers(parts, K)
<1> DEFINE X == PartLists(Marks, D)
           Y == Parts(Marks, D)
           M == [x \in X |-> Numbers(x, K)]
           N == CountMap(D, K)
           e == <<>>
<1>1. BlocksIn(X, Y)
  BY AddBlockType DEF BlocksIn
<1>2. e \in X /\ parts \in Seq(Y) /\ M[e] = <<>>
  BY NumbersNone DEF PartLists
<1>3. M \in Maps(X, Int) /\ N \in Maps(Y, Int)
  <2>1. M \in Maps(X, Int)
    BY NumbersFlat DEF Maps
  <2> QED
    BY <2>1, CountMapType
<1>4. \A x \in X, y \in Y : M[AddBlock(x, y)] = M[x] \o N[y]
  <2> TAKE x \in X, y \in Y
  <2>1. AddBlock(x, y) \in X
    BY <1>1 DEF BlocksIn
  <2>2. Numbers(AddBlock(x, y), K) = Numbers(x, K) \o Counted(y, K)
    BY AddBlockNumbers
  <2> QED
    BY <2>1, <2>2 DEF CountMap
<1>5. Flat(N, parts) = Numbers(parts, K) /\ Numbers(parts, K) \in Seq(Int)
  BY NumbersFlat
<1> HIDE DEF X, Y, M, N, e
<1>6. PICK h \in [0..Len(parts) -> X] :
        /\ h[0] = e /\ Blocks(e, parts) = h[Len(parts)]
        /\ \A i \in 1..Len(parts) : h[i] = AddBlock(h[i - 1], parts[i])
  BY <1>1, <1>2, BlocksFold
<1>7. Measured(X, Y, Int, M, N, h, parts)
  <2> SUFFICES ASSUME NEW i \in 1..Len(parts) PROVE M[h[i]] = M[h[i - 1]] \o N[parts[i]]
    BY <1>2, <1>3, <1>6 DEF Measured, Grows
  <2>1. i - 1 \in 0..Len(parts) /\ parts[i] \in Y
    BY <1>2
  <2>2. h[i - 1] \in X
    BY <2>1
  <2> QED
    BY <1>4, <1>6, <2>1, <2>2
<1>8. AddsUp(M, N, h, parts)
  BY <1>7, FoldMeasured
<1>9. h[Len(parts)] \in X
  <2>1. Len(parts) \in 0..Len(parts)
    BY <1>2
  <2> QED
    BY <2>1
<1>10. Numbers(Blocks(e, parts), K) = Numbers(parts, K)
  BY <1>2, <1>5, <1>6, <1>8, <1>9, NoMore DEF M, AddsUp
<1> QED
  BY <1>10 DEF BedrockBlocks, Blocks, e

\* What is out and what waits.
Awaited(s, K) == Utters(s.out, K) \o Numbers(s.held, K)

LEMMA AwaitedType ==
  ASSUME NEW D, NEW K, NEW s \in Waiting(Marks, D)
  PROVE  /\ s.out \in MessageLists(Marks, D) /\ s.held \in PartLists(Marks, D)
         /\ Utters(s.out, K) \in Seq(Int) /\ Numbers(s.held, K) \in Seq(Int) /\ Awaited(s, K) \in Seq(Int)
<1>1. s.out \in MessageLists(Marks, D) /\ s.held \in PartLists(Marks, D)
  BY DEF Waiting
<1>2. Utters(s.out, K) \in Seq(Int) /\ Numbers(s.held, K) \in Seq(Int)
  BY <1>1, UttersFlat, NumbersFlat
<1> QED
  BY <1>1, <1>2, ConcatProperties DEF Awaited

LEMMA FlushUtters ==
  ASSUME NEW D, NEW K, NEW s \in Waiting(Marks, D)
  PROVE  Utters(Flush(s).out, K) = Awaited(s, K) /\ Flush(s).held = <<>>
<1>1. Flush(s).out = AppendAlways(s.out, "user", s.held) /\ Flush(s).held = <<>>
  BY DEF Flush
<1>2. s.out \in MessageLists(Marks, D) /\ s.held \in PartLists(Marks, D) /\ "user" \in Roles
  BY AwaitedType DEF Roles
<1>3. PICK out, held1 : out = s.out /\ held1 = s.held
  OBVIOUS
<1>4. Utters(AppendAlways(out, "user", held1), K) = Utters(out, K) \o Numbers(held1, K)
  BY <1>2, <1>3, UttersAppendAlways
<1> QED
  BY <1>1, <1>3, <1>4 DEF Awaited

LEMMA TurnToBedrockUtters ==
  ASSUME NEW D, NEW K, NEW s \in Waiting(Marks, D), NEW m \in Messages(Marks, D)
  PROVE  Awaited(TurnToBedrock(s, m), K) = Awaited(s, K) \o Utter(m, K)
<1>1. m.parts \in PartLists(Marks, D) /\ m.role \in Roles /\ Numbers(m.parts, K) \in Seq(Int)
  BY NumbersFlat DEF Messages
<1>2. /\ s.out \in MessageLists(Marks, D) /\ s.held \in PartLists(Marks, D)
      /\ Utters(s.out, K) \in Seq(Int) /\ Numbers(s.held, K) \in Seq(Int) /\ Awaited(s, K) \in Seq(Int)
  BY AwaitedType
<1>3. CASE m.role = "system"
  BY <1>2, <1>3, NoMore DEF TurnToBedrock, Utter
<1>4. CASE m.role = "tool"
  <2> DEFINE t == TurnToBedrock(s, m)
             a == Utters(s.out, K)
             b == Numbers(s.held, K)
             c == Numbers(m.parts, K)
  <2>1. t.out = s.out /\ t.held = s.held \o m.parts
    BY <1>4 DEF TurnToBedrock, Waiting
  <2>2. Numbers(s.held \o m.parts, K) = b \o c
    <3>1. PICK p, q : p = s.held /\ q = m.parts
      OBVIOUS
    <3>2. Numbers(p \o q, K) = Numbers(p, K) \o Numbers(q, K)
      BY <1>1, <1>2, <3>1, NumbersConcat
    <3> QED
      BY <3>1, <3>2
  <2>3. a \in Seq(Int) /\ b \in Seq(Int) /\ c \in Seq(Int)
    BY <1>1, <1>2
  <2>4. Awaited(t, K) = a \o (b \o c) /\ Awaited(s, K) \o Utter(m, K) = (a \o b) \o c
    BY <1>4, <2>1, <2>2 DEF Awaited, Utter
  <2> HIDE DEF a, b, c, t
  <2>5. (a \o b) \o c = a \o (b \o c)
    BY ONLY <2>3, Regroup
  <2> QED
    BY <2>4, <2>5 DEF t
<1>5. CASE m.role \notin {"system", "tool"}
  <2> DEFINE t == TurnToBedrock(s, m)
             f == Flush(s)
             blocks == BedrockBlocks(m.parts)
  <2>1. t.out = AppendAlways(f.out, m.role, blocks) /\ t.held = f.held
    BY <1>5 DEF TurnToBedrock, Flush
  <2>2. f \in Waiting(Marks, D) /\ f.held = <<>> /\ Utters(f.out, K) = Awaited(s, K)
    BY FlushType, FlushUtters
  <2>3. f.out \in MessageLists(Marks, D)
    BY <2>2 DEF Waiting
  <2>4. blocks \in PartLists(Marks, D) /\ Numbers(blocks, K) = Numbers(m.parts, K)
    BY <1>1, BedrockBlocksType, BedrockBlocksNumbers
  <2> HIDE DEF f, blocks, t
  <2>5. PICK out, role : out = f.out /\ role = m.role
    OBVIOUS
  <2>6. Utters(AppendAlways(out, role, blocks), K) = Utters(out, K) \o Numbers(blocks, K)
    BY <1>1, <1>5, <2>3, <2>4, <2>5, UttersAppendAlways
  <2>7. Utters(t.out, K) = Awaited(s, K) \o Utter(m, K) /\ Numbers(t.held, K) = <<>>
    BY <1>5, <2>1, <2>2, <2>4, <2>5, <2>6, NumbersNone DEF Utter
  <2>8. Utters(t.out, K) \in Seq(Int)
    <3>1. Utter(m, K) \in Seq(Int)
      BY UtterType
    <3> QED
      BY <1>2, <2>7, <3>1, ConcatProperties
  <2> QED
    BY <2>7, <2>8, NoMore DEF Awaited, t
<1> QED
  BY <1>3, <1>4, <1>5

LEMMA ToBedrockUtters ==
  ASSUME NEW D, 0 \in D, NEW K, NEW ms \in MessageLists(Marks, D)
  PROVE  Utters(ToBedrock(ms), K) = Utters(ms, K)
<1> DEFINE X == Waiting(Marks, D)
           Y == Messages(Marks, D)
           M == [x \in X |-> Awaited(x, K)]
           N == UtterMap(D, K)
           e == Nothing
<1>1. BedrockTurnsIn(X, Y)
  BY TurnToBedrockType DEF BedrockTurnsIn
<1>2. e \in X /\ ms \in Seq(Y) /\ M[e] = <<>>
  <2>1. e \in X /\ ms \in Seq(Y)
    BY DEF MessageLists, Waiting, PartLists, Nothing
  <2>2. Awaited(e, K) = <<>> \o <<>>
    BY UttersNone, NumbersNone DEF Awaited, Nothing
  <2>3. <<>> \o <<>> = <<>>
    OBVIOUS
  <2> QED
    BY <2>1, <2>2, <2>3
<1>3. M \in Maps(X, Int) /\ N \in Maps(Y, Int)
  <2>1. M \in Maps(X, Int)
    BY AwaitedType DEF Maps
  <2> QED
    BY <2>1, UtterMapType
<1>4. \A x \in X, y \in Y : M[TurnToBedrock(x, y)] = M[x] \o N[y]
  <2> TAKE x \in X, y \in Y
  <2>1. TurnToBedrock(x, y) \in X
    BY <1>1 DEF BedrockTurnsIn
  <2>2. Awaited(TurnToBedrock(x, y), K) = Awaited(x, K) \o Utter(y, K)
    BY TurnToBedrockUtters
  <2> QED
    BY <2>1, <2>2 DEF UtterMap
<1>5. Flat(N, ms) = Utters(ms, K) /\ Utters(ms, K) \in Seq(Int)
  BY UttersFlat
<1> HIDE DEF X, Y, M, N, e
<1>6. PICK h \in [0..Len(ms) -> X] :
        /\ h[0] = e /\ BedrockTurns(e, ms) = h[Len(ms)]
        /\ \A i \in 1..Len(ms) : h[i] = TurnToBedrock(h[i - 1], ms[i])
  BY <1>1, <1>2, BedrockTurnsFold
<1>7. Measured(X, Y, Int, M, N, h, ms)
  <2> SUFFICES ASSUME NEW i \in 1..Len(ms) PROVE M[h[i]] = M[h[i - 1]] \o N[ms[i]]
    BY <1>2, <1>3, <1>6 DEF Measured, Grows
  <2>1. i - 1 \in 0..Len(ms) /\ ms[i] \in Y
    BY <1>2
  <2>2. h[i - 1] \in X
    BY <2>1
  <2> QED
    BY <1>4, <1>6, <2>1, <2>2
<1>8. AddsUp(M, N, h, ms)
  BY <1>7, FoldMeasured
<1>9. h[Len(ms)] \in X
  <2>1. Len(ms) \in 0..Len(ms)
    BY <1>2
  <2> QED
    BY <2>1
<1> DEFINE last == BedrockTurns(e, ms)
<1>10. last \in X /\ Awaited(last, K) = Utters(ms, K)
  BY <1>2, <1>5, <1>6, <1>8, <1>9, NoMore DEF M, AddsUp
<1>11. Flush(last).out \in MessageLists(Marks, D) /\ Utters(Flush(last).out, K) = Utters(ms, K)
  BY <1>10, FlushType, FlushUtters DEF X
<1>12. SystemOf(ms) \in MessageLists(Marks, D) /\ Utters(SystemOf(ms), K) = <<>>
  BY SystemOfType, UttersSystem
<1>13. ToBedrock(ms) = SystemOf(ms) \o Flush(last).out
  BY DEF ToBedrock, BedrockTurns, e
<1>14. PICK a, b : a = SystemOf(ms) /\ b = Flush(last).out
  OBVIOUS
<1>15. Utters(a \o b, K) = Utters(a, K) \o Utters(b, K)
  BY <1>11, <1>12, <1>14, UttersConcat
<1> QED
  BY <1>5, <1>11, <1>12, <1>13, <1>14, <1>15, NoMore

-----------------------------------------------------------------------------
\* Translations to OpenAI's protocol keep what is said, but for images by address or in a
\* result, and parts that they do not know.

HeardKinds == {Content \ {"url"}, {"call"}}

LEMMA HeardKindsFacts ==
  ASSUME NEW K \in HeardKinds
  PROVE  K \in CountedKinds /\ "url" \notin K /\ "other" \notin K
BY DEF HeardKinds, CountedKinds, Content

LEMMA PartToOpenAINumbers ==
  ASSUME NEW D, NEW K \in HeardKinds, NEW s \in Waiting(Marks, D), NEW p \in Parts(Marks, D)
  PROVE  Awaited(PartToOpenAI(s, p), K) = Awaited(s, K) \o Counted(p, K)
<1>1. Counted(p, K) \in Seq(Int) /\ p.text \in Texts(Marks)
  BY NumbersOne DEF Parts
<1>2. /\ s.out \in MessageLists(Marks, D) /\ s.held \in PartLists(Marks, D)
      /\ Utters(s.out, K) \in Seq(Int) /\ Numbers(s.held, K) \in Seq(Int) /\ Awaited(s, K) \in Seq(Int)
  BY AwaitedType
<1> DEFINE t == PartToOpenAI(s, p)
<1>3. CASE p.kind = "result"
  <2> DEFINE f == Flush(s)
             q == Texted(p)
             m == Message("tool", <<q>>)
  <2>0. q \in Parts(Marks, D) /\ Counted(q, K) = Counted(p, K)
    BY <1>1, TextedType, NumsOfTexts DEF Counted
  <2>1. t.out = Append(f.out, m) /\ t.held = f.held
    BY <1>3 DEF PartToOpenAI, Flush, Texted
  <2> HIDE DEF q
  <2>2. f \in Waiting(Marks, D) /\ f.held = <<>> /\ Utters(f.out, K) = Awaited(s, K)
    BY FlushType, FlushUtters
  <2>3. f.out \in MessageLists(Marks, D)
    BY <2>2 DEF Waiting
  <2>4. m \in Messages(Marks, D) /\ Utter(m, K) = Counted(p, K)
    <3>1. <<q>> \in PartLists(Marks, D) /\ "tool" \in Roles /\ Numbers(<<q>>, K) = Counted(p, K)
      BY <2>0, NumbersOne DEF PartLists, Roles
    <3> QED
      BY <3>1, MessageMade, UtterMade
  <2> HIDE DEF f, m, t
  <2>5. PICK out : out = f.out
    OBVIOUS
  <2>6. Utters(Append(out, m), K) = Utters(out, K) \o Utter(m, K)
    BY <2>3, <2>4, <2>5, UttersAppend
  <2>7. Utters(t.out, K) = Awaited(s, K) \o Counted(p, K) /\ Numbers(t.held, K) = <<>>
    BY <2>1, <2>2, <2>4, <2>5, <2>6, NumbersNone
  <2>8. Utters(t.out, K) \in Seq(Int)
    BY <1>1, <1>2, <2>7, ConcatProperties
  <2> QED
    BY <2>7, <2>8, NoMore DEF Awaited, t
<1>4. CASE p.kind # "result" /\ (p.kind \in {"url", "other"} \/ p.text = <<>>)
  <2>1. Counted(p, K) = <<>>
    BY <1>1, <1>4, HeardKindsFacts, NumsType DEF Counted
  <2>2. t = s
    BY <1>4 DEF PartToOpenAI
  <2> QED
    BY <1>2, <2>1, <2>2, NoMore
<1>5. CASE p.kind # "result" /\ ~(p.kind \in {"url", "other"} \/ p.text = <<>>)
  <2> DEFINE a == Utters(s.out, K)
             b == Numbers(s.held, K)
             c == Counted(p, K)
  <2>1. t.out = s.out /\ t.held = Append(s.held, p)
    BY <1>5 DEF PartToOpenAI, Waiting
  <2>2. Numbers(Append(s.held, p), K) = b \o c
    <3>1. PICK q : q = s.held
      OBVIOUS
    <3>2. Numbers(Append(q, p), K) = Numbers(q, K) \o Counted(p, K)
      BY <1>2, <3>1, NumbersAppend
    <3> QED
      BY <3>1, <3>2
  <2>3. a \in Seq(Int) /\ b \in Seq(Int) /\ c \in Seq(Int)
    BY <1>1, <1>2
  <2>4. Awaited(t, K) = a \o (b \o c) /\ Awaited(s, K) \o Counted(p, K) = (a \o b) \o c
    BY <2>1, <2>2 DEF Awaited
  <2> HIDE DEF a, b, c, t
  <2>5. (a \o b) \o c = a \o (b \o c)
    BY ONLY <2>3, Regroup
  <2> QED
    BY <2>4, <2>5 DEF t
<1> QED
  BY <1>3, <1>4, <1>5

\* When nothing is to be said, an empty message says it.
LEMMA NotEmptyUtters ==
  ASSUME NEW D, 0 \in D, NEW K, NEW ms \in MessageLists(Marks, D)
  PROVE  Utters(NotEmpty(ms), K) = Utters(ms, K)
<1> DEFINE p == Part("text", <<>>, 0)
           m == Message("user", <<p>>)
<1>1. p \in Parts(Marks, D) /\ Counted(p, K) = <<>>
  <2>1. <<>> \in Texts(Marks) /\ "text" \in Kinds
    BY DEF Texts, Kinds
  <2>2. p \in Parts(Marks, D) /\ p.text = <<>>
    BY <2>1, PartMade DEF Part
  <2> QED
    BY <2>1, <2>2, NumsType DEF Counted
<1> HIDE DEF p
<1>2. m \in Messages(Marks, D) /\ Utter(m, K) = <<>>
  <2>1. <<p>> \in PartLists(Marks, D) /\ "user" \in Roles /\ Numbers(<<p>>, K) = Counted(p, K)
    BY <1>1, NumbersOne DEF PartLists, Roles
  <2> QED
    BY <1>1, <2>1, MessageMade, UtterMade
<1> HIDE DEF m
<1>3. Utters(<<m>>, K) = <<>>
  BY <1>2, UttersOne
<1>4. NotEmpty(ms) = IF ms = <<>> THEN <<m>> ELSE ms
  BY DEF NotEmpty, m, p
<1> QED
  BY <1>3, <1>4, UttersNone

LEMMA UserToOpenAIUtters ==
  ASSUME NEW D, 0 \in D, NEW K \in HeardKinds, NEW parts \in PartLists(Marks, D)
  PROVE  Utters(UserToOpenAI(parts), K) = Numbers(parts, K)
<1> DEFINE X == Waiting(Marks, D)
           Y == Parts(Marks, D)
           M == [x \in X |-> Awaited(x, K)]
           N == CountMap(D, K)
           e == Nothing
<1>1. OpenAIPartsIn(X, Y)
  BY PartToOpenAIType DEF OpenAIPartsIn
<1>2. e \in X /\ parts \in Seq(Y) /\ M[e] = <<>>
  <2>1. e \in X /\ parts \in Seq(Y)
    BY DEF MessageLists, Waiting, PartLists, Nothing
  <2>2. Awaited(e, K) = <<>> \o <<>>
    BY UttersNone, NumbersNone DEF Awaited, Nothing
  <2>3. <<>> \o <<>> = <<>>
    OBVIOUS
  <2> QED
    BY <2>1, <2>2, <2>3
<1>3. M \in Maps(X, Int) /\ N \in Maps(Y, Int)
  <2>1. M \in Maps(X, Int)
    BY AwaitedType DEF Maps
  <2> QED
    BY <2>1, CountMapType
<1>4. \A x \in X, y \in Y : M[PartToOpenAI(x, y)] = M[x] \o N[y]
  <2> TAKE x \in X, y \in Y
  <2>1. PartToOpenAI(x, y) \in X
    BY <1>1 DEF OpenAIPartsIn
  <2>2. Awaited(PartToOpenAI(x, y), K) = Awaited(x, K) \o Counted(y, K)
    BY PartToOpenAINumbers
  <2> QED
    BY <2>1, <2>2 DEF CountMap
<1>5. Flat(N, parts) = Numbers(parts, K) /\ Numbers(parts, K) \in Seq(Int)
  BY NumbersFlat
<1> HIDE DEF X, Y, M, N, e
<1>6. PICK h \in [0..Len(parts) -> X] :
        /\ h[0] = e /\ OpenAIParts(e, parts) = h[Len(parts)]
        /\ \A i \in 1..Len(parts) : h[i] = PartToOpenAI(h[i - 1], parts[i])
  BY <1>1, <1>2, OpenAIPartsFold
<1>7. Measured(X, Y, Int, M, N, h, parts)
  <2> SUFFICES ASSUME NEW i \in 1..Len(parts) PROVE M[h[i]] = M[h[i - 1]] \o N[parts[i]]
    BY <1>2, <1>3, <1>6 DEF Measured, Grows
  <2>1. i - 1 \in 0..Len(parts) /\ parts[i] \in Y
    BY <1>2
  <2>2. h[i - 1] \in X
    BY <2>1
  <2> QED
    BY <1>4, <1>6, <2>1, <2>2
<1>8. AddsUp(M, N, h, parts)
  BY <1>7, FoldMeasured
<1>9. h[Len(parts)] \in X
  <2>1. Len(parts) \in 0..Len(parts)
    BY <1>2
  <2> QED
    BY <2>1
<1> DEFINE last == OpenAIParts(e, parts)
<1>10. last \in X /\ Awaited(last, K) = Numbers(parts, K)
  BY <1>2, <1>5, <1>6, <1>8, <1>9, NoMore DEF M, AddsUp
<1>11. Flush(last).out \in MessageLists(Marks, D) /\ Utters(Flush(last).out, K) = Numbers(parts, K)
  BY <1>10, FlushType, FlushUtters DEF X
<1>12. PICK out : out = Flush(last).out
  OBVIOUS
<1>13. Utters(NotEmpty(out), K) = Utters(out, K)
  BY <1>11, <1>12, NotEmptyUtters
<1>14. UserToOpenAI(parts) = NotEmpty(Flush(last).out)
  BY DEF UserToOpenAI, OpenAIParts, e
<1> QED
  BY <1>11, <1>12, <1>13, <1>14

LEMMA AssistantToOpenAIUtters ==
  ASSUME NEW D, 0 \in D, NEW K \in CountedKinds, NEW parts \in Seq(Voices(Marks, D))
  PROVE  Utters(AssistantToOpenAI(parts), K) = Numbers(parts, K)
<1> DEFINE all == <<Part("text", Joined(parts), 0)>> \o OfKind(parts, {"call"})
           m == Message("assistant", all)
<1>1. parts \in PartLists(Marks, D)
  BY VoicesAreParts
<1>2. <<m>> \in MessageLists(Marks, D)
  BY <1>1, AssistantToOpenAIType DEF AssistantToOpenAI
<1>3. Numbers(all, K) = Numbers(parts, K)
  BY NumbersSpeech
<1>4. Utter(m, K) = Numbers(all, K)
  BY UtterMade
<1>5. AssistantToOpenAI(parts) = <<m>>
  BY DEF AssistantToOpenAI
<1> HIDE DEF m, all
<1>6. m \in Messages(Marks, D)
  <2>1. <<m>>[1] = m /\ 1 \in DOMAIN <<m>>
    OBVIOUS
  <2> QED
    BY <1>2, <2>1 DEF MessageLists
<1>7. Utters(<<m>>, K) = Utter(m, K)
  BY <1>6, UttersOne
<1> QED
  BY <1>3, <1>4, <1>5, <1>7

LEMMA OneToOpenAIUtters ==
  ASSUME NEW D, 0 \in D, NEW K \in HeardKinds, NEW m \in Talk(Marks, D)
  PROVE  Utters(OneToOpenAI(m), K) = Utter(m, K)
<1>1. m.parts \in PartLists(Marks, D) /\ m.role \in Roles
      /\ (m.role = "assistant" => m.parts \in Seq(Voices(Marks, D)))
  BY TalkIsMessages DEF Messages, Talk
<1>2. K \in CountedKinds
  BY HeardKindsFacts
<1>3. CASE m.role = "system"
  BY <1>3, UttersSystem DEF OneToOpenAI, Utter
<1>4. CASE m.role = "assistant"
  BY <1>1, <1>2, <1>4, AssistantToOpenAIUtters DEF OneToOpenAI, Utter
<1>5. CASE m.role \notin {"system", "assistant"}
  <2>1. OneToOpenAI(m) = UserToOpenAI(m.parts)
    BY <1>5 DEF OneToOpenAI
  <2> QED
    BY <1>1, <1>5, <2>1, UserToOpenAIUtters DEF Utter
<1> QED
  BY <1>3, <1>4, <1>5

LEMMA ToOpenAIUtters ==
  ASSUME NEW D, 0 \in D, NEW K \in HeardKinds, NEW ms \in Talks(Marks, D)
  PROVE  Utters(ToOpenAI(ms), K) = Utters(ms, K)
<1> DEFINE Y == Talk(Marks, D)
           Z == Messages(Marks, D)
           M == [m \in Y |-> OneToOpenAI(m)]
           N == UtterMap(D, K)
           L == [m \in Y |-> Flat(N, M[m])]
<1>1. ms \in Seq(Y) /\ M \in Maps(Y, Z) /\ N \in Maps(Z, Int)
  <2>1. \A m \in Y : OneToOpenAI(m) \in Seq(Z)
    BY TalkIsMessages, OneToOpenAIType DEF MessageLists
  <2> QED
    BY <2>1, UtterMapType DEF Talks, Maps
<1>2. ToOpenAI(ms) = Flat(M, ms)
  <2>1. \A i \in DOMAIN ms : ms[i] \in Y
    BY <1>1
  <2>2. \A i \in DOMAIN ms : M[ms[i]] = OneToOpenAI(ms[i])
    BY <2>1
  <2> HIDE DEF M
  <2>3. ToOpenAI(ms) = FlattenSeq([i \in DOMAIN ms |-> OneToOpenAI(ms[i])])
    BY DEF ToOpenAI, OneToOpenAI
  <2> QED
    BY <2>2, <2>3 DEF Flat, Mapped
<1>3. ms \in MessageLists(Marks, D) /\ ToOpenAI(ms) \in MessageLists(Marks, D)
  BY TalkIsMessages, ToOpenAIType
<1>4. Utters(ToOpenAI(ms), K) = Flat(N, ToOpenAI(ms)) /\ Utters(ms, K) = Flat(N, ms)
  BY <1>3, UttersFlat
<1>5. Flat(N, Flat(M, ms)) = Flat(L, ms)
  <2> HIDE DEF N, M, Y, Z
  <2> QED
    BY <1>1, FlatFlat
<1>6. \A m \in Y : L[m] = N[m]
  <2> TAKE m \in Y
  <2>1. m \in Z /\ OneToOpenAI(m) \in MessageLists(Marks, D)
    BY TalkIsMessages, OneToOpenAIType
  <2>2. Flat(N, OneToOpenAI(m)) = Utters(OneToOpenAI(m), K)
    BY <2>1, UttersFlat
  <2>3. Utters(OneToOpenAI(m), K) = Utter(m, K)
    BY OneToOpenAIUtters
  <2>4. N[m] = Utter(m, K)
    BY <2>1 DEF UtterMap
  <2> QED
    BY <2>2, <2>3, <2>4
<1>7. Flat(L, ms) = Flat(N, ms)
  <2>1. \A i \in DOMAIN ms : ms[i] \in Y
    BY <1>1
  <2> HIDE DEF L, N
  <2>2. \A i \in DOMAIN ms : L[ms[i]] = N[ms[i]]
    BY <1>6, <2>1
  <2> QED
    BY <2>2, FlatSame
<1> QED
  BY <1>2, <1>4, <1>5, <1>7

-----------------------------------------------------------------------------
\* Answers keep what is said, or what stands in for it.

LEMMA OfKindKinds ==
  ASSUME NEW Y, NEW parts \in Seq(Y), NEW kinds
  PROVE  \A i \in DOMAIN OfKind(parts, kinds) : OfKind(parts, kinds)[i].kind \in kinds
<1> DEFINE Z == {p \in Y : p.kind \in kinds}
           ss == [i \in DOMAIN parts |-> IF parts[i].kind \in kinds THEN <<parts[i]>> ELSE <<>>]
<1>1. DOMAIN parts = 1..Len(parts) /\ Len(parts) \in Nat /\ \A i \in DOMAIN parts : parts[i] \in Y
  OBVIOUS
<1>2. \A i \in DOMAIN parts : ss[i] \in Seq(Z)
  <2>1. \A i \in DOMAIN parts : parts[i].kind \in kinds => parts[i] \in Z
    BY <1>1
  <2> HIDE DEF Z
  <2> QED
    BY <2>1
<1> HIDE DEF Z
<1>3. ss \in Seq(Seq(Z))
  BY <1>1, <1>2
<1>4. OfKind(parts, kinds) = FlattenSeq(ss)
  BY DEF OfKind, Where
<1> HIDE DEF ss
<1>5. OfKind(parts, kinds) \in Seq(Z)
  BY <1>3, <1>4, FlattenType
<1>6. PICK t : t = OfKind(parts, kinds)
  OBVIOUS
<1>7. \A i \in DOMAIN t : t[i] \in Z
  BY <1>5, <1>6
<1> QED
  BY <1>6, <1>7 DEF Z

LEMMA AnswerToAnthropicNumbers ==
  ASSUME NEW D, 0 \in D, NEW parts \in Seq(Voices(Marks, D))
  PROVE  /\ Numbers(AnswerToAnthropic(parts), {"call"}) = Numbers(parts, {"call"})
         /\ Numbers(AnswerToAnthropic(parts), Content \ {"url"})
              = Numbers(parts, IF Joined(parts) = <<>> THEN {"thought"} ELSE Content \ {"url"})
<1> DEFINE E == Made(D)
           texts == OfKind(parts, {"text"})
           thoughts == OfKind(parts, {"thought"})
           calls == OfKind(parts, {"call"})
           spoken == Spoken(thoughts)
           named == WithIds(calls)
           heard == IF Joined(parts) # <<>> THEN texts ELSE spoken
           all == Answered(parts)
<1>1. parts \in PartLists(Marks, D) /\ \A i \in DOMAIN parts : parts[i].kind \in Voice
  <2>1. \A i \in DOMAIN parts : parts[i] \in Voices(Marks, D)
    OBVIOUS
  <2> QED
    BY <2>1, VoicesAreParts DEF Voices
<1>2. /\ texts \in PartLists(Marks, E) /\ spoken \in PartLists(Marks, E) /\ named \in PartLists(Marks, E)
      /\ 0 \in E
  <2>1. 0 \in E
    BY DEF Made
  <2> HIDE DEF E
  <2>2. texts \in Seq(Voices(Marks, E)) /\ spoken \in Seq(Voices(Marks, E)) /\ named \in Seq(Voices(Marks, E))
    BY AnsweredType DEF E
  <2> QED
    BY <2>1, <2>2, VoicesAreParts
<1> HIDE DEF E
<1>3. \A K : Numbers(named, K) = Numbers(calls, K)
  <2> TAKE K
  <2>1. DOMAIN named = DOMAIN calls /\ \A i \in DOMAIN named : Counted(named[i], K) = Counted(calls[i], K)
    <3>1. \A p, i : p \in Voices(Marks, D) => WithId(p, i).kind = p.kind /\ WithId(p, i).text = p.text
      BY DEF WithId, Voices
    <3>2. calls \in Seq(Voices(Marks, D))
      BY OfKindType
    <3> HIDE DEF calls
    <3>3. DOMAIN named = DOMAIN calls /\ \A i \in DOMAIN calls : named[i] = WithId(calls[i], i) /\ calls[i] \in Voices(Marks, D)
      BY <3>2 DEF WithIds
    <3> QED
      BY <3>1, <3>3 DEF Counted
  <2> HIDE DEF named, calls
  <2> QED
    BY <2>1, NumbersSame
<1>4. \A K : Numbers(calls, K) = Numbers(parts, {"call"} \cap K) /\ Numbers(texts, K) = Numbers(parts, {"text"} \cap K)
             /\ Numbers(thoughts, K) = Numbers(parts, {"thought"} \cap K)
  BY <1>1, NumbersOfKind
<1>5. DOMAIN spoken = DOMAIN thoughts
      /\ \A i \in DOMAIN thoughts : /\ spoken[i].kind = "text" /\ spoken[i].text = thoughts[i].text
                                    /\ thoughts[i].kind = "thought"
  <2>1. thoughts \in Seq(Voices(Marks, D)) /\ \A i \in DOMAIN thoughts : thoughts[i].kind = "thought"
    BY OfKindType, OfKindKinds
  <2> HIDE DEF thoughts
  <2>2. \A i \in DOMAIN thoughts : thoughts[i] \in Voices(Marks, D)
    BY <2>1
  <2>3. \A p : p \in Voices(Marks, D) =>
          [p EXCEPT !.kind = "text"].kind = "text" /\ [p EXCEPT !.kind = "text"].text = p.text
    BY DEF Voices
  <2>4. DOMAIN spoken = DOMAIN thoughts /\ \A i \in DOMAIN thoughts : spoken[i] = [thoughts[i] EXCEPT !.kind = "text"]
    BY DEF Spoken
  <2> HIDE DEF spoken
  <2>5. ASSUME NEW i \in DOMAIN thoughts PROVE spoken[i].kind = "text" /\ spoken[i].text = thoughts[i].text
    <3>1. PICK p : p = thoughts[i]
      OBVIOUS
    <3>2. p \in Voices(Marks, D) /\ spoken[i] = [p EXCEPT !.kind = "text"]
      BY <2>2, <2>4, <3>1
    <3> QED
      BY <2>3, <3>1, <3>2
  <2> QED
    BY <2>1, <2>4, <2>5
<1>6. all = heard \o named /\ heard \in PartLists(Marks, E)
  BY <1>2 DEF Answered
<1> HIDE DEF texts, calls, spoken, named, thoughts
<1>7. \A K : Numbers(all, K) = Numbers(heard, K) \o Numbers(named, K)
  <2> TAKE K
  <2> HIDE DEF heard, all
  <2> QED
    BY <1>2, <1>6, NumbersConcat
<1>8. \A K : Numbers(AnswerToAnthropic(parts), K) = Numbers(all, K)
  <2> TAKE K
  <2> DEFINE p == Part("text", <<>>, 0)
  <2>1. p \in Parts(Marks, E) /\ Counted(p, K) = <<>>
    <3>1. <<>> \in Texts(Marks) /\ "text" \in Kinds
      BY DEF Texts, Kinds
    <3>2. p \in Parts(Marks, E) /\ p.text = <<>>
      BY <1>2, <3>1, PartMade DEF Part
    <3> QED
      BY <3>1, <3>2, NumsType DEF Counted
  <2> HIDE DEF p
  <2>2. Numbers(<<p>>, K) = <<>> /\ Numbers(<<>>, K) = <<>>
    BY <2>1, NumbersOne
  <2>3. AnswerToAnthropic(parts) = IF all = <<>> THEN <<p>> ELSE all
    BY AnswerIs DEF p
  <2> HIDE DEF all
  <2> QED
    BY <2>2, <2>3
<1>9. Numbers(parts, {}) = <<>>
  BY <1>1, NumbersNothing
<1>10. \A K : Numbers(parts, K) \in Seq(Int)
  BY <1>1, NumbersFlat
<1>11. Numbers(heard, {"call"}) = <<>>
  <2>1. Numbers(texts, {"call"}) = <<>>
    <3>1. {"text"} \cap {"call"} = {}
      OBVIOUS
    <3> QED
      BY <1>4, <1>9, <3>1
  <2>2. Numbers(spoken, {"call"}) = <<>>
    BY <1>2, <1>5, NumbersNothing
  <2> QED
    BY <2>1, <2>2
<1>12. Numbers(AnswerToAnthropic(parts), {"call"}) = Numbers(parts, {"call"})
  <2>1. {"call"} \cap {"call"} = {"call"}
    OBVIOUS
  <2>2. Numbers(named, {"call"}) = Numbers(parts, {"call"})
    BY <1>3, <1>4, <2>1
  <2> QED
    BY <1>7, <1>8, <1>10, <1>11, <2>2, NoMore
<1> DEFINE C == Content \ {"url"}
<1>13. Numbers(heard, C) = Numbers(parts, IF Joined(parts) = <<>> THEN {"thought"} ELSE C)
  <2>1. Numbers(texts, C) = Numbers(parts, C)
    <3>1. {"text"} \cap C = {"text"}
      BY DEF Content
    <3>2. \A i \in DOMAIN parts : Counted(parts[i], {"text"}) = Counted(parts[i], C)
      BY <1>1 DEF Counted, Voice, Content
    <3>3. Numbers(parts, {"text"}) = Numbers(parts, C)
      <4> HIDE DEF C
      <4> QED
        BY <3>2, NumbersSame
    <3> QED
      BY <1>4, <3>1, <3>3
  <2>2. Numbers(spoken, C) = Numbers(parts, {"thought"})
    <3>1. \A i \in DOMAIN spoken : Counted(spoken[i], C) = Counted(thoughts[i], {"thought"})
      BY <1>5 DEF Counted, Content
    <3>2. Numbers(spoken, C) = Numbers(thoughts, {"thought"})
      <4> HIDE DEF C
      <4> QED
        BY <1>5, <3>1, NumbersSame
    <3>3. {"thought"} \cap {"thought"} = {"thought"}
      OBVIOUS
    <3> QED
      BY <1>4, <3>2, <3>3
  <2> QED
    BY <2>1, <2>2
<1>14. Numbers(named, C) = <<>>
  <2>1. {"call"} \cap C = {}
    BY DEF Content
  <2> QED
    BY <1>3, <1>4, <1>9, <2>1
<1> HIDE DEF C, heard, all
<1>15. Numbers(AnswerToAnthropic(parts), C) = Numbers(parts, IF Joined(parts) = <<>> THEN {"thought"} ELSE C)
  <2>1. Numbers(parts, IF Joined(parts) = <<>> THEN {"thought"} ELSE C) \in Seq(Int)
    BY <1>10
  <2> QED
    BY <1>7, <1>8, <1>13, <1>14, <2>1, NoMore
<1> QED
  BY <1>12, <1>15 DEF C

LEMMA AnswerForNumbers ==
  ASSUME NEW D, 0 \in D, NEW parts \in Seq(Voices(Marks, D)),
         client \in {"openai", "anthropic"}, upstream \in {"openai", "anthropic", "bedrock"}
  PROVE  /\ Numbers(AnswerFor(parts), Kept) = Numbers(parts, Heard(parts))
         /\ Numbers(AnswerFor(parts), {"call"}) = Numbers(parts, {"call"})
<1> DEFINE said1 == AnswerToOpenAI(parts)
<1>1. parts \in PartLists(Marks, D)
  BY VoicesAreParts
<1>2. \A K \in CountedKinds : Numbers(said1, K) = Numbers(parts, K)
  BY NumbersSpeech DEF AnswerToOpenAI
<1>3. said1 \in Seq(Voices(Marks, D)) /\ said1 \in PartLists(Marks, D)
  BY AnswerToOpenAIType, VoicesAreParts
<1>4. CASE upstream = client
  BY <1>4 DEF AnswerFor, Heard
<1>5. CASE upstream # client /\ client = "openai"
  <2>1. AnswerFor(parts) = said1 /\ Kept = Content /\ Heard(parts) = Content
    BY <1>5 DEF AnswerFor, Kept, Heard
  <2> QED
    BY <1>2, <2>1 DEF CountedKinds
<1>6. CASE client = "anthropic" /\ upstream = "openai"
  <2>1. AnswerFor(parts) = AnswerToAnthropic(parts) /\ Kept = Content \ {"url"}
        /\ Heard(parts) = IF Joined(parts) = <<>> THEN {"thought"} ELSE Content \ {"url"}
    BY <1>6 DEF AnswerFor, Kept, Heard
  <2> QED
    BY <2>1, AnswerToAnthropicNumbers
<1>7. CASE client = "anthropic" /\ upstream = "bedrock"
  <2> DEFINE C == Content \ {"url"}
  <2>1. AnswerFor(parts) = AnswerToAnthropic(said1) /\ Kept = C /\ Heard(parts) = C
    BY <1>7 DEF AnswerFor, Kept, Heard
  <2> HIDE DEF said1
  <2>2. /\ Numbers(AnswerToAnthropic(said1), {"call"}) = Numbers(said1, {"call"})
        /\ Numbers(AnswerToAnthropic(said1), C) = Numbers(said1, IF Joined(said1) = <<>> THEN {"thought"} ELSE C)
    BY <1>3, AnswerToAnthropicNumbers
  <2>3. Joined(said1) = <<>> => Numbers(said1, {"thought"}) = <<>> /\ Numbers(said1, C) = <<>>
    <3> HAVE Joined(said1) = <<>>
    <3>1. \A i \in DOMAIN said1 : said1[i].kind \in {"text", "call"}
      <4> DEFINE t == Text(Joined(parts))
                 c == OfKind(parts, {"call"})
      <4>1. \A i \in DOMAIN t : t[i].kind = "text"
        BY DEF Text, Part
      <4>2. \A i \in DOMAIN c : c[i].kind = "call"
        BY OfKindKinds
      <4>3. t \in PartLists(Marks, D) /\ c \in PartLists(Marks, D)
        BY <1>1, JoinedType, TextType, OfKindType DEF PartLists
      <4> HIDE DEF t, c
      <4>4. \A i \in DOMAIN (t \o c) : \/ i \in DOMAIN t /\ (t \o c)[i] = t[i]
                                       \/ i - Len(t) \in DOMAIN c /\ (t \o c)[i] = c[i - Len(t)]
        BY <4>3 DEF PartLists
      <4> QED
        BY <4>1, <4>2, <4>4 DEF said1, AnswerToOpenAI, t, c
    <3>2. Numbers(said1, {"thought"}) = <<>>
      <4>1. \A i \in DOMAIN said1 : said1[i].kind \notin {"thought"}
        BY <3>1
      <4> QED
        BY <1>3, <4>1, NumbersNothing
    <3>3. Numbers(said1, C) = Numbers(said1, {"text"})
      <4>1. \A i \in DOMAIN said1 : Counted(said1[i], C) = Counted(said1[i], {"text"})
        BY <3>1 DEF Counted, Content
      <4> HIDE DEF C
      <4> QED
        BY <4>1, NumbersSame
    <3>4. Nums(Joined(said1)) = Numbers(said1, {"text"}) /\ Nums(<<>>) = <<>>
      <4>1. <<>> \in Texts(Marks)
        BY DEF Texts
      <4> QED
        BY <1>3, <4>1, NumbersJoined, NumsType
    <3> QED
      BY <3>2, <3>3, <3>4
  <2>4. {"call"} \in CountedKinds /\ C \in CountedKinds
    BY DEF CountedKinds
  <2> HIDE DEF C
  <2>5. Numbers(said1, {"call"}) = Numbers(parts, {"call"}) /\ Numbers(said1, C) = Numbers(parts, C)
    BY <1>2, <2>4
  <2> QED
    BY <2>1, <2>2, <2>3, <2>5
<1> QED
  BY <1>4, <1>5, <1>6, <1>7

-----------------------------------------------------------------------------
\* Redaction and the translations together.

LEMMA RedactTextNums ==
  ASSUME NEW p, NEW action, NEW text \in Texts(Marks)
  PROVE  Nums(RedactText(p, action, text)) = Nums(text)
<1>1. CASE action # "redact"
  BY <1>1 DEF RedactText
<1>2. CASE action = "redact"
  <2> DEFINE Marked(x) == IF x.is \in Finds(p, text) THEN Piece(x.n, "mark") ELSE x
             marked == [i \in DOMAIN text |-> Marked(text[i])]
  <2>1. Finds(p, text) \subseteq {"email", "code"}
    BY DEF Finds, Wanted
  <2>2. \A x \in Pieces(Marks) : Marked(x) \in Pieces(Marks) /\ NumMap[Marked(x)] = NumMap[x]
    <3> TAKE x \in Pieces(Marks)
    <3>1. Piece(x.n, "mark") \in Pieces(Marks) /\ Piece(x.n, "mark").n = x.n /\ Piece(x.n, "mark").is = "mark"
      BY DEF Piece, Pieces, Marks
    <3>2. x.is \in Finds(p, text) => x.is # "image"
      BY <2>1
    <3> QED
      BY <3>1, <3>2 DEF NumMap
  <2>3. RedactText(p, action, text) = marked
    BY <1>2 DEF RedactText
  <2>4. DOMAIN text = 1..Len(text) /\ Len(text) \in Nat /\ \A i \in DOMAIN text : text[i] \in Pieces(Marks)
    BY DEF Texts
  <2> HIDE DEF Marked
  <2>5. marked \in Texts(Marks) /\ DOMAIN marked = DOMAIN text
        /\ \A i \in DOMAIN text : NumMap[marked[i]] = NumMap[text[i]]
    BY <2>2, <2>4 DEF Texts
  <2>6. Mapped(NumMap, marked) = Mapped(NumMap, text)
    <3> HIDE DEF marked
    <3> QED
      BY <2>5 DEF Mapped
  <2> HIDE DEF marked
  <2> QED
    BY <2>3, <2>5, <2>6, NumsFlat DEF Flat
<1> QED
  BY <1>1, <1>2

LEMMA RedactedUtters ==
  ASSUME NEW p, NEW side, NEW D, NEW K, NEW ms \in MessageLists(Marks, D)
  PROVE  Utters(Redacted(p, side, ms), K) = Utters(ms, K)
<1> DEFINE Redact(m) == [m EXCEPT !.parts = RedactParts(p, side, m.parts)]
<1>1. \A i \in DOMAIN ms : ms[i] \in Messages(Marks, D)
  BY DEF MessageLists
<1>2. ASSUME NEW m \in Messages(Marks, D) PROVE Utter(Redact(m), K) = Utter(m, K)
  <2> DEFINE parts == m.parts
             clean == RedactParts(p, side, parts)
             Part1(q) == [q EXCEPT !.text = RedactText(p, ActionOf(p, side), q.text)]
  <2>1. Redact(m).role = m.role /\ Redact(m).parts = clean
    BY DEF Messages
  <2>2. \A j \in DOMAIN parts : parts[j] \in Parts(Marks, D)
    BY DEF Messages, PartLists
  <2>3. DOMAIN clean = DOMAIN parts /\ \A j \in DOMAIN parts : clean[j] = Part1(parts[j])
    BY DEF RedactParts
  <2>4. \A q \in Parts(Marks, D) : Counted(Part1(q), K) = Counted(q, K)
    <3> TAKE q \in Parts(Marks, D)
    <3>1. Part1(q).kind = q.kind /\ Part1(q).text = RedactText(p, ActionOf(p, side), q.text)
      BY DEF Parts
    <3>2. Nums(RedactText(p, ActionOf(p, side), q.text)) = Nums(q.text)
      <4>1. q.text \in Texts(Marks)
        BY DEF Parts
      <4> QED
        BY <4>1, RedactTextNums
    <3> HIDE DEF Part1
    <3> QED
      BY <3>1, <3>2 DEF Counted
  <2> HIDE DEF Part1, clean, parts, Redact
  <2>5. \A j \in DOMAIN parts : Counted(clean[j], K) = Counted(parts[j], K)
    BY <2>2, <2>3, <2>4
  <2>6. Numbers(clean, K) = Numbers(parts, K)
    BY <2>3, <2>5, NumbersSame
  <2> QED
    BY <2>1, <2>6 DEF Utter, parts
<1>3. Redacted(p, side, ms) = [i \in DOMAIN ms |-> Redact(ms[i])]
  BY Zenon DEF Redacted
<1> HIDE DEF Redact
<1>4. \A i \in DOMAIN ms : Utter(Redact(ms[i]), K) = Utter(ms[i], K)
  BY <1>1, <1>2
<1> QED
  BY <1>3, <1>4 DEF Utters

LEMMA TranslatedUtters ==
  ASSUME NEW D, 0 \in D, NEW K \in CountedKinds, NEW ms \in Talks(Marks, D),
         client \in {"openai", "anthropic"}, client = "anthropic" => K \in HeardKinds,
         NEW up \in {"openai", "anthropic", "bedrock"}
  PROVE  /\ Utters(Translated(up, ms), K) = Utters(ms, K)
         /\ Translated(up, ms) \in MessageLists(Marks, D)
<1>1. ms \in MessageLists(Marks, D)
  BY TalkIsMessages
<1>2. Translated(up, ms) \in MessageLists(Marks, D)
  BY <1>1, TranslatedType
<1>3. Utters(ToAnthropic(ms), K) = Utters(ms, K) /\ Utters(ToBedrock(ms), K) = Utters(ms, K)
  BY <1>1, ToAnthropicUtters, ToBedrockUtters
<1>4. CASE client = "openai"
  BY <1>3, <1>4, <1>2 DEF Translated
<1>5. CASE client = "anthropic"
  <2>1. PICK out : out = ToOpenAI(ms)
    OBVIOUS
  <2>2. out \in MessageLists(Marks, D) /\ Utters(out, K) = Utters(ms, K)
    BY <1>1, <1>5, <2>1, ToOpenAIType, ToOpenAIUtters
  <2>3. Utters(ToBedrock(out), K) = Utters(ms, K)
    BY <2>2, ToBedrockUtters
  <2> QED
    BY <1>2, <1>5, <2>1, <2>2, <2>3 DEF Translated
<1> QED
  BY <1>4, <1>5

-----------------------------------------------------------------------------
\* Nothing is lost.

SaidInv ==
  /\ choice \in (IF client = "openai" THEN OpenAIChoices ELSE AnthropicChoices)
  /\ phase = "asked" => upstream \in {"openai", "anthropic", "bedrock"}
  /\ said.texts = Utters(history, Kept) /\ said.calls = Utters(history, {"call"})

LEMMA KeptFacts ==
  ASSUME client \in {"openai", "anthropic"}
  PROVE  /\ Kept \in CountedKinds /\ {"call"} \in CountedKinds
         /\ client = "anthropic" => Kept \in HeardKinds /\ {"call"} \in HeardKinds
BY DEF Kept, CountedKinds, HeardKinds

LEMMA ChoiceMeans ==
  ASSUME client \in {"openai", "anthropic"}, NEW up \in {"openai", "anthropic", "bedrock"},
         choice \in (IF client = "openai" THEN OpenAIChoices ELSE AnthropicChoices)
  PROVE  Means(ChoiceFor(up)) = Means(choice)
<1>1. \A c \in OpenAIChoices : Means(ChoiceToAnthropic(c)) = Means(c) /\ Means(ChoiceToBedrock(c)) = Means(c)
  BY DEF OpenAIChoices, Means, ChoiceToAnthropic, ChoiceToBedrock
<1>2. \A c \in AnthropicChoices : Means(ChoiceToOpenAI(c)) = Means(c) /\ ChoiceToOpenAI(c) \in OpenAIChoices
  BY DEF AnthropicChoices, OpenAIChoices, Means, ChoiceToOpenAI
<1>3. CASE client = "openai"
  BY <1>1, <1>3 DEF ChoiceFor
<1>4. CASE client = "anthropic"
  <2>1. PICK c : c = ChoiceToOpenAI(choice)
    OBVIOUS
  <2>2. c \in OpenAIChoices /\ Means(c) = Means(choice)
    BY <1>2, <1>4, <2>1
  <2>3. Means(ChoiceToBedrock(c)) = Means(choice)
    BY <1>1, <2>2
  <2> QED
    BY <1>4, <2>1, <2>2, <2>3 DEF ChoiceFor
<1> QED
  BY <1>3, <1>4

LEMMA SaidInit == Init => SaidInv /\ NothingLost
<1> SUFFICES ASSUME Init PROVE SaidInv /\ NothingLost
  OBVIOUS
<1>1. phase = "chat" /\ history = <<>> /\ said.texts = <<>> /\ said.calls = <<>>
      /\ choice \in (IF client = "openai" THEN OpenAIChoices ELSE AnthropicChoices)
  BY DEF Init
<1> QED
  BY <1>1, UttersNone DEF SaidInv, NothingLost, Asked

LEMMA SaidByClient ==
  ASSUME TalkInv, SaidInv, NEW D, NEW m \in Talk(Marks, D), history \in Talks(Marks, D), Chat(m)
  PROVE  SaidInv' /\ NothingLost'
<1>1. /\ phase' = "chat" /\ history' = Append(history, m) /\ client' = client /\ choice' = choice
      /\ Remember(IF m.role = "system" THEN <<>> ELSE m.parts, Kept)
  BY DEF Chat
<1>2. m \in Messages(Marks, D) /\ history \in MessageLists(Marks, D)
  BY TalkIsMessages
<1>3. \A K : Utters(history', K) = Utters(history, K) \o Utter(m, K)
  BY <1>1, <1>2, UttersAppend
<1>4. \A K : Numbers(IF m.role = "system" THEN <<>> ELSE m.parts, K) = Utter(m, K)
  BY NumbersNone DEF Utter
<1>5. said'.texts = said.texts \o Utter(m, Kept) /\ said'.calls = said.calls \o Utter(m, {"call"})
  BY <1>1, <1>4 DEF Remember
<1>6. Kept' = Kept
  BY <1>1 DEF Kept
<1> QED
  BY <1>1, <1>3, <1>5, <1>6 DEF SaidInv, NothingLost, Asked

LEMMA SaidByModel ==
  ASSUME TalkInv, SaidInv, NEW shape \in AnswerShapes, NEW content \in Contents \cup {CutOff}, NEW ids \in BOOLEAN,
         Answer(shape, content, ids)
  PROVE  SaidInv' /\ NothingLost'
<1> DEFINE parts == Reply(shape, content, ids)
           answer == Told(parts)
           redacted == Redacted(held, "output", answer)
<1>1. PICK D : /\ 0 \in D /\ history \in Talks(Marks, D)
               /\ parts \in Seq(Voices(Marks, D)) /\ answer \in Talks(Marks, D)
  BY ModelSays
<1>2. /\ client' = client /\ choice' = choice /\ phase = "asked" /\ Kept' = Kept
      /\ client \in {"openai", "anthropic"} /\ upstream \in {"openai", "anthropic", "bedrock"}
  BY DEF Answer, Kept, TalkInv, SaidInv
<1>3. \/ phase' = "refused" /\ UNCHANGED <<history, said>>
      \/ /\ ~Blocked(held, "output", answer) /\ history' = history \o redacted
         /\ Remember(parts, Heard(parts)) /\ phase' = "chat"
  BY Replies
<1> HIDE DEF parts
<1>4. CASE phase' = "refused" /\ UNCHANGED <<history, said>>
  BY <1>2, <1>4 DEF SaidInv, NothingLost, Asked
<1>5. CASE /\ ~Blocked(held, "output", answer) /\ history' = history \o redacted
           /\ Remember(parts, Heard(parts)) /\ phase' = "chat"
  <2> DEFINE m == Message("assistant", AnswerFor(parts))
  <2>1. answer \in MessageLists(Marks, D) /\ history \in MessageLists(Marks, D) /\ answer = <<m>>
    BY <1>1, TalkIsMessages DEF Told
  <2>2. m \in Messages(Marks, D)
    <3> HIDE DEF m
    <3>1. <<m>>[1] = m /\ 1 \in DOMAIN <<m>>
      OBVIOUS
    <3> QED
      BY <2>1, <3>1 DEF MessageLists
  <2> HIDE DEF answer
  <2>3. redacted \in Talks(Marks, D)
    BY <1>1, <1>5, Delivered DEF TalkInv
  <2>4. redacted \in MessageLists(Marks, D)
    BY <2>3, TalkIsMessages
  <2>5. \A K : Utters(redacted, K) = Numbers(AnswerFor(parts), K)
    <3> TAKE K
    <3>1. Utters(redacted, K) = Utters(answer, K)
      BY <2>1, RedactedUtters
    <3>2. Utter(m, K) = Numbers(AnswerFor(parts), K)
      BY UtterMade
    <3> HIDE DEF m
    <3>3. Utters(<<m>>, K) = Utter(m, K)
      BY <2>2, UttersOne
    <3> QED
      BY <2>1, <3>1, <3>2, <3>3
  <2> HIDE DEF redacted, m
  <2>6. \A K : Utters(history', K) = Utters(history, K) \o Numbers(AnswerFor(parts), K)
    <3> TAKE K
    <3>1. PICK more : more = redacted
      OBVIOUS
    <3>2. Utters(history \o more, K) = Utters(history, K) \o Utters(more, K)
      BY <2>1, <2>4, <3>1, UttersConcat
    <3>3. Utters(more, K) = Numbers(AnswerFor(parts), K)
      BY <2>5, <3>1
    <3>4. history' = history \o more
      BY <1>5, <3>1
    <3> QED
      BY <3>2, <3>3, <3>4
  <2>7. /\ Numbers(AnswerFor(parts), Kept) = Numbers(parts, Heard(parts))
        /\ Numbers(AnswerFor(parts), {"call"}) = Numbers(parts, {"call"})
    BY <1>1, <1>2, AnswerForNumbers
  <2>8. said'.texts = said.texts \o Numbers(parts, Heard(parts)) /\ said'.calls = said.calls \o Numbers(parts, {"call"})
    BY <1>5 DEF Remember
  <2> QED
    BY <1>2, <1>5, <2>6, <2>7, <2>8 DEF SaidInv, NothingLost, Asked
<1> QED
  BY <1>3, <1>4, <1>5

LEMMA SaidToModel ==
  ASSUME TalkInv, SaidInv, NEW up \in Upstreams, Ask(up)
  PROVE  SaidInv' /\ NothingLost'
<1> DEFINE clean == Redacted(policy, "input", history)
<1>0. /\ up \in {"openai", "anthropic", "bedrock"} /\ client \in {"openai", "anthropic"}
      /\ policy \in Policies
  BY ProtocolsAssumption DEF TalkInv
<1>1. /\ UNCHANGED <<client, history, choice, said>> /\ Kept' = Kept
  BY DEF Ask, Kept
<1>2. CASE phase' = "refused"
  BY <1>1, <1>2 DEF SaidInv, NothingLost, Asked
<1>3. CASE phase' # "refused"
  <2>1. /\ ~Blocked(policy, "input", history) /\ request' = Translated(up, clean) /\ asks' = ChoiceFor(up)
        /\ phase' = "asked" /\ upstream' = up
    BY <1>3 DEF Ask, Refuse
  <2>2. PICK D : 0 \in D /\ history \in Talks(Marks, D)
    BY DEF TalkInv
  <2>3. clean \in Talks(Marks, D)
    <3>1. clean \in Talks(Allowed(policy, "input"), D)
      BY <1>0, <2>1, <2>2, RedactedType DEF Sides
    <3>2. Allowed(policy, "input") \subseteq Marks
      BY DEF Allowed
    <3> QED
      BY <3>1, <3>2, FewerMarks
  <2>4. \A K : Utters(clean, K) = Utters(history, K)
    BY <2>2, TalkIsMessages, RedactedUtters
  <2> HIDE DEF clean
  <2>5. /\ \A K \in {Kept, {"call"}} : Utters(request', K) = Utters(history, K)
        /\ request' \in MessageLists(Marks, D)
    <3>1. ASSUME NEW K \in {Kept, {"call"}}
          PROVE  Utters(Translated(up, clean), K) = Utters(clean, K) /\ Translated(up, clean) \in MessageLists(Marks, D)
      <4>1. K \in CountedKinds /\ (client = "anthropic" => K \in HeardKinds)
        BY <1>0, KeptFacts
      <4> QED
        BY <1>0, <2>2, <2>3, <4>1, TranslatedUtters
    <3> QED
      BY <2>1, <2>4, <3>1
  <2>6. PICK r : r = request'
    OBVIOUS
  <2>7. \A K : Numbers(AllParts(Where(r, LAMBDA m : m.role # "system")), K) = Utters(r, K)
    BY <2>5, <2>6, UttersTurns
  <2>8. Turns' = Where(r, LAMBDA m : m.role # "system")
    BY <2>6 DEF Turns, Where
  <2>9. Numbers(AllParts(Turns'), Kept) = said.texts /\ Numbers(AllParts(Turns'), {"call"}) = said.calls
    BY <2>5, <2>6, <2>7, <2>8 DEF SaidInv
  <2>10. Means(asks') = Means(choice)
    BY <1>0, <2>1, ChoiceMeans DEF SaidInv
  <2>11. NothingLost'
    <3>1. /\ Numbers(AllParts(Turns'), Kept') = said'.texts
          /\ Numbers(AllParts(Turns'), {"call"}) = said'.calls
          /\ Means(asks') = Means(choice')
      BY <1>1, <2>9, <2>10
    <3> QED
      BY <3>1 DEF NothingLost
  <2> QED
    BY <1>0, <1>1, <2>1, <2>11 DEF SaidInv
<1> QED
  BY <1>2, <1>3

LEMMA SaidStep == TalkInv /\ SaidInv /\ NothingLost /\ [Next]_vars => (SaidInv /\ NothingLost)'
<1> SUFFICES ASSUME TalkInv, SaidInv, NothingLost, [Next]_vars PROVE SaidInv' /\ NothingLost'
  OBVIOUS
<1>1. ASSUME NEW content \in Contents,
             \/ System(content) \/ ToolResult(content)
             \/ \E shape \in UserShapes : User(shape, content)
             \/ \E more \in BOOLEAN : ToolResults(content, more)
      PROVE  SaidInv' /\ NothingLost'
  <2>1. PICK D : \E m \in Talk(Marks, D) : history \in Talks(Marks, D) /\ Chat(m)
    BY <1>1, ClientSays
  <2> QED
    BY <2>1, SaidByClient
<1>2. ASSUME NEW up \in Upstreams, Ask(up) PROVE SaidInv' /\ NothingLost'
  BY <1>2, SaidToModel
<1>3. ASSUME NEW shape \in AnswerShapes, NEW content \in Contents \cup {CutOff}, NEW ids \in BOOLEAN,
             Answer(shape, content, ids)
      PROVE  SaidInv' /\ NothingLost'
  BY <1>3, SaidByModel
<1>4. CASE \/ \E p \in SomePolicies : UpdatePolicy(p)
           \/ UNCHANGED vars
  <2>1. UNCHANGED <<client, history, choice, request, asks, upstream, phase, said>>
    BY <1>4 DEF UpdatePolicy, vars
  <2>2. Turns' = Turns /\ Kept' = Kept
    BY <2>1 DEF Turns, Where, Kept
  <2> QED
    BY <2>1, <2>2 DEF SaidInv, NothingLost, Asked
<1> QED
  BY <1>1, <1>2, <1>3, <1>4 DEF Next

\* The texts, images and results that the client has said, and the texts of what it has been
\* answered by whichever upstreams, are in every request, once and in their order among
\* these, and so are the calls among the calls, for any history; and the choice of tools
\* means there what the client has meant.  Not counted are thoughts, a user's parts that are
\* no text, image or result, and, for a client of Anthropic's protocol, images by address
\* and images in results: these the translations drop.  (openAIMessagesToAnthropic,
\* anthropicMessagesToOpenAI, bedrockConverseInput, openAIResponseFromAnthropic,
\* anthropicResponseFromOpenAI.)
THEOREM NothingLostEver == Spec => []NothingLost
<1>1. Init => TalkInv /\ SaidInv /\ NothingLost
  BY TalkInit, SaidInit
<1>2. TalkInv /\ SaidInv /\ NothingLost /\ [Next]_vars => (TalkInv /\ SaidInv /\ NothingLost)'
  BY TalkStep, SaidStep
<1> QED
  BY <1>1, <1>2, PTL DEF Spec

-----------------------------------------------------------------------------
\* Requests to Anthropic alternate.

Alternating(ms) == \A i \in 1..Len(ms) - 1 : ms[i].role # ms[i + 1].role
Alternations(D) ==
  {ms \in MessageLists(Marks, D) :
     Alternating(ms) /\ \A i \in DOMAIN ms : ms[i].role \in {"user", "assistant"}}

LEMMA AppendPartsAlternates ==
  ASSUME NEW D, NEW ms \in Alternations(D), NEW role \in {"user", "assistant"}, NEW parts \in PartLists(Marks, D)
  PROVE  AppendParts(ms, role, parts) \in Alternations(D)
<1> DEFINE t == AppendParts(ms, role, parts)
<1>1. /\ ms \in Seq(Messages(Marks, D)) /\ ms \in MessageLists(Marks, D) /\ role \in Roles
      /\ Alternating(ms) /\ \A i \in DOMAIN ms : ms[i].role \in {"user", "assistant"}
  BY DEF Alternations, MessageLists, Roles
<1>2. t \in MessageLists(Marks, D)
  BY <1>1, AppendPartsType
<1>3. CASE parts = <<>>
  BY <1>3 DEF AppendParts
<1>4. CASE parts # <<>> /\ ms # <<>> /\ Last(ms).role = role
  <2>1. DOMAIN t = DOMAIN ms /\ Len(t) = Len(ms) /\ DOMAIN ms = 1..Len(ms) /\ Len(ms) \in Nat
    BY <1>1, <1>2, <1>4 DEF AppendParts, MessageLists
  <2>2. \A i \in DOMAIN ms : t[i].role = ms[i].role
    <3> TAKE i \in DOMAIN ms
    <3>1. ms[i] \in Messages(Marks, D)
      BY <1>1
    <3>2. t[i] = IF i = Len(ms) THEN [ms[i] EXCEPT !.parts = @ \o parts] ELSE ms[i]
      BY <1>1, <1>4 DEF AppendParts
    <3> QED
      BY <3>1, <3>2 DEF Messages
  <2> HIDE DEF t
  <2>3. \A i \in 1..Len(t) - 1 : i \in DOMAIN ms /\ i + 1 \in DOMAIN ms /\ i \in 1..Len(ms) - 1
    BY <2>1
  <2>4. Alternating(t) /\ \A i \in DOMAIN t : t[i].role \in {"user", "assistant"}
    BY <1>1, <2>1, <2>2, <2>3 DEF Alternating
  <2> QED
    BY <1>2, <2>4 DEF Alternations, t
<1>5. CASE parts # <<>> /\ ~(ms # <<>> /\ Last(ms).role = role)
  <2> DEFINE m == Message(role, parts)
  <2>1. t = Append(ms, m) /\ m.role = role
    BY <1>5 DEF AppendParts, Message
  <2> HIDE DEF m, t
  <2>2. /\ Len(ms) \in Nat /\ Len(t) = Len(ms) + 1 /\ DOMAIN t = 1..Len(ms) + 1 /\ DOMAIN ms = 1..Len(ms)
        /\ t[Len(ms) + 1] = m /\ \A i \in 1..Len(ms) : t[i] = ms[i]
    BY <1>1, <2>1
  <2>3. ASSUME NEW i \in 1..Len(t) - 1 PROVE t[i].role # t[i + 1].role
    <3>1. CASE i = Len(ms)
      <4>1. ms # <<>> /\ t[i] = ms[Len(ms)] /\ t[i + 1] = m
        BY <2>2, <3>1
      <4> QED
        BY <1>5, <2>1, <4>1 DEF Last
    <3>2. CASE i # Len(ms)
      <4>1. i \in 1..Len(ms) - 1 /\ i \in 1..Len(ms) /\ i + 1 \in 1..Len(ms)
        <5>1. PICK n : n = Len(ms)
          OBVIOUS
        <5>2. n \in Nat
          BY <2>2, <5>1
        <5>3. Len(t) = n + 1
          BY <2>2, <5>1
        <5>4. i \in 1..n + 1 - 1
          BY <5>2, <5>3
        <5>5. i \in 1..n - 1 /\ i \in 1..n /\ i + 1 \in 1..n
          BY <3>2, <5>1, <5>2, <5>4
        <5> QED
          BY <5>1, <5>5
      <4> QED
        BY <1>1, <2>2, <4>1 DEF Alternating
    <3> QED
      BY <3>1, <3>2
  <2>4. ASSUME NEW i \in DOMAIN t PROVE t[i].role \in {"user", "assistant"}
    <3>1. i = Len(ms) + 1 \/ i \in 1..Len(ms)
      BY <2>2
    <3> QED
      BY <1>1, <2>1, <2>2, <3>1
  <2> QED
    BY <1>2, <2>3, <2>4 DEF Alternations, Alternating, t
<1> QED
  BY <1>3, <1>4, <1>5

LEMMA TurnToAnthropicAlternates ==
  ASSUME NEW D, 0 \in D, NEW turns \in Alternations(D), NEW m \in Messages(Marks, D)
  PROVE  TurnToAnthropic(turns, m) \in Alternations(D)
<1>1. m.parts \in PartLists(Marks, D) /\ m.role \in Roles
  BY DEF Messages
<1>2. CASE m.role = "system"
  BY <1>2 DEF TurnToAnthropic
<1>3. CASE m.role = "assistant"
  <2>1. Text(Joined(m.parts)) \in PartLists(Marks, D) /\ OfKind(m.parts, {"call"}) \in PartLists(Marks, D)
    BY <1>1, JoinedType, TextType, OfKindType DEF PartLists
  <2>2. PICK parts : parts = Text(Joined(m.parts)) \o OfKind(m.parts, {"call"})
    OBVIOUS
  <2>3. parts \in PartLists(Marks, D)
    BY <2>1, <2>2, MoreParts
  <2> QED
    BY <1>3, <2>2, <2>3, AppendPartsAlternates DEF TurnToAnthropic
<1>4. CASE m.role = "tool"
  BY <1>1, <1>4, AppendPartsAlternates DEF TurnToAnthropic
<1>5. CASE m.role = "user"
  <2>1. PICK parts : parts = Where(m.parts, Known)
    OBVIOUS
  <2>2. parts \in PartLists(Marks, D)
    BY <1>1, <2>1, SaidType
  <2>3. TurnToAnthropic(turns, m) = AppendParts(turns, "user", parts)
    BY <1>5, <2>1 DEF TurnToAnthropic
  <2> QED
    BY <2>2, <2>3, AppendPartsAlternates
<1> QED
  BY <1>1, <1>2, <1>3, <1>4, <1>5 DEF Roles

LEMMA AnthropicTurnsAlternate ==
  ASSUME NEW D, 0 \in D, NEW ms \in MessageLists(Marks, D)
  PROVE  AnthropicTurns(<<>>, ms) \in Alternations(D)
<1> DEFINE X == Alternations(D)
           Y == Messages(Marks, D)
           e == <<>>
<1>1. AnthropicTurnsIn(X, Y)
  BY TurnToAnthropicAlternates DEF AnthropicTurnsIn
<1>2. e \in X /\ ms \in Seq(Y)
  BY DEF Alternations, Alternating, MessageLists
<1> HIDE DEF X, Y, e
<1>3. PICK h \in [0..Len(ms) -> X] :
        /\ h[0] = e /\ AnthropicTurns(e, ms) = h[Len(ms)]
        /\ \A i \in 1..Len(ms) : h[i] = TurnToAnthropic(h[i - 1], ms[i])
  BY <1>1, <1>2, AnthropicTurnsFold
<1>4. Len(ms) \in 0..Len(ms)
  BY <1>2
<1> QED
  BY <1>3, <1>4 DEF X, e

\* The turns of a request are what is not the system's.
LEMMA TurnsAfterSystem ==
  ASSUME NEW D, 0 \in D, NEW ms \in MessageLists(Marks, D), NEW turns \in MessageLists(Marks, D),
         \A i \in DOMAIN turns : turns[i].role # "system"
  PROVE  Where(SystemOf(ms) \o turns, LAMBDA m : m.role # "system") = turns
<1> DEFINE Y == Messages(Marks, D)
           M == [m \in Y |-> IF m.role # "system" THEN <<m>> ELSE <<>>]
           g == [m \in Y |-> m]
           a == SystemOf(ms)
<1>1. a \in Seq(Y) /\ turns \in Seq(Y) /\ M \in Maps(Y, Y) /\ Singles(g) \in Maps(Y, Y) /\ DOMAIN g = Y
      /\ \A i \in DOMAIN turns : turns[i] \in Y /\ turns[i].role # "system"
  <2>1. a \in Seq(Y)
    BY SystemOfType DEF MessageLists
  <2>2. turns \in Seq(Y) /\ \A i \in DOMAIN turns : turns[i].role # "system"
    BY DEF MessageLists
  <2>3. M \in Maps(Y, Y) /\ Singles(g) \in Maps(Y, Y)
    BY DEF Maps, Singles
  <2> QED
    BY <2>1, <2>2, <2>3
<1>2. \A x : x \in Y => Singles(g)[x] = <<x>> /\ M[x] = IF x.role # "system" THEN <<x>> ELSE <<>>
  BY DEF Singles
<1>3. a = <<>> \/ \E x \in Y : a = <<x>> /\ x.role = "system"
  <2>1. PICK text : SystemOf(ms) = AppendParts(<<>>, "system", text)
    BY DEF SystemOf
  <2>2. a = <<>> \/ a = <<Message("system", text)>>
    BY <2>1 DEF AppendParts
  <2>3. PICK x : x = Message("system", text)
    OBVIOUS
  <2>4. x.role = "system"
    BY <2>3 DEF Message
  <2>5. a = <<x>> => x \in Y
    <3> HIDE DEF a, Y
    <3> HAVE a = <<x>>
    <3>1. a[1] = x /\ 1 \in DOMAIN a
      OBVIOUS
    <3> QED
      BY <1>1, <3>1
  <2> QED
    BY <2>2, <2>3, <2>4, <2>5
<1>4. PICK all : all = a \o turns
  OBVIOUS
<1>5. all \in Seq(Y) /\ \A i \in DOMAIN all : all[i] \in Y
  <2> HIDE DEF Y, a
  <2>1. all \in Seq(Y)
    BY <1>1, <1>4, ConcatProperties
  <2> QED
    BY <2>1
<1>6. Where(all, LAMBDA m : m.role # "system") = Flat(M, all)
  <2>1. \A i \in DOMAIN all : M[all[i]] = IF all[i].role # "system" THEN <<all[i]>> ELSE <<>>
    BY <1>5
  <2> HIDE DEF M
  <2> QED
    BY <2>1 DEF Where, Flat, Mapped
<1> HIDE DEF M, g, a, Y
<1>7. Flat(M, all) = Flat(M, a) \o Flat(M, turns)
  BY <1>1, <1>4, FlatConcat
<1>8. Flat(M, a) = <<>>
  <2>1. CASE a = <<>>
    BY <2>1, FlatEmpty
  <2>2. CASE \E x \in Y : a = <<x>> /\ x.role = "system"
    <3>1. PICK x \in Y : a = <<x>> /\ x.role = "system"
      BY <2>2
    <3>2. Flat(M, <<x>>) = M[x]
      BY <1>1, FlatOne
    <3> QED
      BY <1>2, <3>1, <3>2
  <2> QED
    BY <1>3, <2>1, <2>2
<1>9. Flat(M, turns) = turns
  <2>1. \A i \in DOMAIN turns : M[turns[i]] = Singles(g)[turns[i]]
    BY <1>1, <1>2
  <2>2. Flat(M, turns) = Flat(Singles(g), turns)
    BY <2>1, FlatSame
  <2>3. Flat(Singles(g), turns) = [i \in DOMAIN turns |-> g[turns[i]]]
    BY <1>1, FlatSingles
  <2>4. \A i \in DOMAIN turns : g[turns[i]] = turns[i]
    BY <1>1 DEF g
  <2>5. turns = [i \in DOMAIN turns |-> turns[i]]
    BY <1>1
  <2> QED
    BY <2>2, <2>3, <2>4, <2>5
<1>10. <<>> \o turns = turns
  BY <1>1, ConcatEmptySeq
<1> QED
  BY <1>4, <1>6, <1>7, <1>8, <1>9, <1>10 DEF a

LEMMA AlternateStep == TalkInv /\ RolesAlternate /\ [Next]_vars => RolesAlternate'
<1> SUFFICES ASSUME TalkInv, RolesAlternate, [Next]_vars PROVE RolesAlternate'
  OBVIOUS
<1>1. ASSUME NEW up \in Upstreams, Ask(up) PROVE RolesAlternate'
  <2> DEFINE clean == Redacted(policy, "input", history)
  <2>1. SUFFICES ASSUME phase' = "asked", upstream' = "anthropic", client' = "openai"
                 PROVE  \A i \in 1..Len(Turns') - 1 : Turns'[i].role # Turns'[i + 1].role
    BY DEF RolesAlternate, Asked
  <2>2. ~Blocked(policy, "input", history) /\ request' = Translated(up, clean) /\ up = "anthropic" /\ client = "openai"
    BY <1>1, <2>1 DEF Ask, Refuse
  <2>3. PICK D : 0 \in D /\ history \in Talks(Marks, D)
    BY DEF TalkInv
  <2>4. clean \in MessageLists(Marks, D)
    <3>1. clean \in Talks(Allowed(policy, "input"), D)
      BY <2>2, <2>3, RedactedType DEF Sides, TalkInv
    <3>2. Allowed(policy, "input") \subseteq Marks
      BY DEF Allowed
    <3> QED
      BY <3>1, <3>2, FewerMarks, TalkIsMessages
  <2> HIDE DEF clean
  <2>5. request' = ToAnthropic(clean)
    BY <2>2 DEF Translated
  <2>6. PICK turns : turns = AnthropicTurns(<<>>, clean)
    OBVIOUS
  <2>7. turns \in Alternations(D)
    BY <2>3, <2>4, <2>6, AnthropicTurnsAlternate
  <2>8. request' = SystemOf(clean) \o turns
    BY <2>5, <2>6 DEF ToAnthropic, AnthropicTurns
  <2>9. Turns' = turns
    <3>1. PICK r : r = request'
      OBVIOUS
    <3>2. Turns' = Where(r, LAMBDA m : m.role # "system")
      BY <3>1 DEF Turns, Where
    <3>3. Where(SystemOf(clean) \o turns, LAMBDA m : m.role # "system") = turns
      <4>1. turns \in MessageLists(Marks, D) /\ \A i \in DOMAIN turns : turns[i].role # "system"
        BY <2>7 DEF Alternations
      <4> QED
        BY <2>3, <2>4, <4>1, TurnsAfterSystem
    <3>4. r = SystemOf(clean) \o turns
      BY <2>8, <3>1
    <3> QED
      BY <3>2, <3>3, <3>4
  <2> QED
    BY <2>7, <2>9 DEF Alternations, Alternating
<1>2. ASSUME NEW content \in Contents,
             \/ System(content) \/ ToolResult(content)
             \/ \E shape \in UserShapes : User(shape, content)
             \/ \E more \in BOOLEAN : ToolResults(content, more)
      PROVE  phase' = "chat"
  BY <1>2, ClientSays DEF Chat
<1>3. ASSUME NEW shape \in AnswerShapes, NEW content \in Contents \cup {CutOff}, NEW ids \in BOOLEAN,
             Answer(shape, content, ids)
      PROVE  phase' # "asked"
  BY <1>3, Replies
<1>4. CASE \/ \E p \in SomePolicies : UpdatePolicy(p)
           \/ UNCHANGED vars
  <2>1. UNCHANGED <<client, request, upstream, phase>>
    BY <1>4 DEF UpdatePolicy, vars
  <2>2. Turns' = Turns
    BY <2>1 DEF Turns, Where
  <2> QED
    BY <2>1, <2>2 DEF RolesAlternate, Asked
<1>5. CASE phase' # "asked"
  BY <1>5 DEF RolesAlternate, Asked
<1> QED
  BY <1>1, <1>2, <1>3, <1>4, <1>5 DEF Next

\* Turns that are translated for Anthropic alternate, whatever the client's messages are, one
\* for each result as well as several of one role in a row.  (The comment at
\* bridge_openai_anthropic.go:117-120, appendBlocks.)
THEOREM RolesAlternateEver == Spec => []RolesAlternate
<1>1. Init => RolesAlternate
  BY DEF Init, RolesAlternate, Asked
<1>2. TalkInv /\ RolesAlternate /\ [Next]_vars => (TalkInv /\ RolesAlternate)'
  BY TalkStep, AlternateStep
<1> QED
  BY <1>1, <1>2, TalkInit, PTL DEF Spec

-----------------------------------------------------------------------------
\* The calls and the results of a message.  Which parts a concatenation has.

Calls(parts) == Ids(parts, "call")
Results(parts) == Ids(parts, "result")

Among(x, s) == \E i \in DOMAIN s : s[i] = x

LEMMA AmongMore ==
  ASSUME NEW Y, NEW s \in Seq(Y), NEW t \in Seq(Y), NEW x
  PROVE  Among(x, s \o t) <=> Among(x, s) \/ Among(x, t)
<1> DEFINE u == s \o t
<1>1. /\ Len(s) \in Nat /\ Len(t) \in Nat /\ DOMAIN s = 1..Len(s) /\ DOMAIN t = 1..Len(t)
      /\ DOMAIN u = 1..Len(s) + Len(t)
      /\ \A i \in 1..Len(s) + Len(t) : u[i] = IF i <= Len(s) THEN s[i] ELSE t[i - Len(s)]
  BY ConcatProperties
<1> HIDE DEF u
<1>2. ASSUME NEW i \in DOMAIN u, u[i] = x PROVE Among(x, s) \/ Among(x, t)
  <2>1. CASE i <= Len(s)
    <3>1. i \in DOMAIN s /\ s[i] = x
      BY <1>1, <1>2, <2>1
    <3> QED
      BY <3>1 DEF Among
  <2>2. CASE ~(i <= Len(s))
    <3>1. i - Len(s) \in DOMAIN t /\ t[i - Len(s)] = x
      BY <1>1, <1>2, <2>2
    <3> QED
      BY <3>1 DEF Among
  <2> QED
    BY <2>1, <2>2
<1>3. ASSUME NEW i \in DOMAIN s, s[i] = x PROVE Among(x, u)
  <2>1. i \in DOMAIN u /\ u[i] = x
    BY <1>1, <1>3
  <2> QED
    BY <2>1 DEF Among
<1>4. ASSUME NEW i \in DOMAIN t, t[i] = x PROVE Among(x, u)
  <2>1. PICK j : j = i + Len(s)
    OBVIOUS
  <2>2. j \in 1..Len(s) + Len(t) /\ ~(j <= Len(s)) /\ j - Len(s) = i
    BY <1>1, <2>1
  <2>3. j \in DOMAIN u /\ u[j] = x
    BY <1>1, <1>4, <2>2
  <2> QED
    BY <2>3 DEF Among
<1> QED
  BY <1>2, <1>3, <1>4 DEF Among, u

\* What is in a concatenation is in one of what is concatenated.
LEMMA AmongFlat ==
  ASSUME NEW Y, NEW ss \in Seq(Seq(Y)), NEW x
  PROVE  Among(x, FlattenSeq(ss)) <=> \E i \in DOMAIN ss : Among(x, ss[i])
<1>1. PICK f \in [0..Len(ss) -> Seq(Y)] :
        /\ f[0] = <<>> /\ FlattenSeq(ss) = f[Len(ss)]
        /\ \A i \in 1..Len(ss) : f[i] = f[i - 1] \o ss[i]
  BY FlattenTable
<1> DEFINE n == Len(ss)
           Is(k) == Among(x, f[k]) <=> \E i \in 1..k : Among(x, ss[i])
           X == {k \in 0..n : Is(k)}
           h == [k \in 0..n |-> k]
<1>2. n \in Nat /\ DOMAIN ss = 1..n /\ \A i \in 1..n : ss[i] \in Seq(Y)
  OBVIOUS
<1>3. h[0] \in X
  BY <1>1, <1>2 DEF Among
<1>4. ASSUME NEW i \in 1..n, h[i - 1] \in X PROVE h[i] \in X
  <2>1. i - 1 \in 0..n /\ i \in 0..n /\ h[i - 1] = i - 1 /\ h[i] = i
    BY <1>2
  <2>2. Is(i - 1)
    BY <1>4, <2>1
  <2>3. f[i] = f[i - 1] \o ss[i] /\ f[i - 1] \in Seq(Y) /\ ss[i] \in Seq(Y)
    BY <1>1, <1>2, <2>1
  <2>4. PICK a, b : a = f[i - 1] /\ b = ss[i]
    OBVIOUS
  <2>5. Among(x, a \o b) <=> Among(x, a) \/ Among(x, b)
    BY <2>3, <2>4, AmongMore
  <2>6. (\E j \in 1..i : Among(x, ss[j])) <=> (\E j \in 1..i - 1 : Among(x, ss[j])) \/ Among(x, ss[i])
    <3>1. \A j : j \in 1..i <=> j \in 1..i - 1 \/ j = i
      BY <2>1
    <3> QED
      BY <3>1
  <2>7. Is(i)
    BY <2>2, <2>3, <2>4, <2>5, <2>6
  <2> QED
    BY <2>1, <2>7
<1> HIDE DEF X, h, Is
<1>5. \A i \in 0..n : h[i] \in X
  BY <1>2, <1>3, <1>4, Climbs
<1>6. n \in 0..n /\ h[n] = n
  BY <1>2 DEF h
<1>7. Is(n)
  BY <1>5, <1>6 DEF X
<1> QED
  BY <1>1, <1>2, <1>7 DEF Is

\* Which ids there are is a matter of which parts there are.
LEMMA IdsAre ==
  ASSUME NEW parts, NEW kind, NEW x
  PROVE  x \in Ids(parts, kind) <=> \E p : Among(p, parts) /\ p.kind = kind /\ p.id = x
BY DEF Ids, Among

LEMMA IdsNone == ASSUME NEW kind PROVE Ids(<<>>, kind) = {}
BY DEF Ids

LEMMA IdsOne ==
  ASSUME NEW p, NEW kind
  PROVE  Ids(<<p>>, kind) = IF p.kind = kind THEN {p.id} ELSE {}
BY DEF Ids

LEMMA IdsMore ==
  ASSUME NEW Y, NEW s \in Seq(Y), NEW t \in Seq(Y), NEW kind
  PROVE  Ids(s \o t, kind) = Ids(s, kind) \cup Ids(t, kind)
<1>1. PICK u : u = s \o t
  OBVIOUS
<1>2. \A p : Among(p, u) <=> Among(p, s) \/ Among(p, t)
  BY <1>1, AmongMore
<1>3. \A x : /\ x \in Ids(u, kind) <=> \E p : Among(p, u) /\ p.kind = kind /\ p.id = x
             /\ x \in Ids(s, kind) <=> \E p : Among(p, s) /\ p.kind = kind /\ p.id = x
             /\ x \in Ids(t, kind) <=> \E p : Among(p, t) /\ p.kind = kind /\ p.id = x
  BY IdsAre
<1>4. \A x : x \in Ids(u, kind) <=> x \in Ids(s, kind) \/ x \in Ids(t, kind)
  BY <1>2, <1>3
<1> QED
  BY <1>1, <1>4

\* Only kinds and ids matter.
SameParts(s, t) == DOMAIN s = DOMAIN t /\ \A i \in DOMAIN s : s[i].kind = t[i].kind /\ s[i].id = t[i].id

LEMMA IdsSame ==
  ASSUME NEW s, NEW t, SameParts(s, t), NEW kind
  PROVE  Ids(s, kind) = Ids(t, kind)
BY DEF Ids, SameParts

\* No call and no result.
Bare(parts) == \A i \in DOMAIN parts : parts[i].kind \notin {"call", "result"}

LEMMA BareIds ==
  ASSUME NEW parts, Bare(parts)
  PROVE  Calls(parts) = {} /\ Results(parts) = {}
BY DEF Bare, Calls, Results, Ids

\* Parts that are picked out of a message.
LEMMA AmongOfKind ==
  ASSUME NEW Y, NEW parts \in Seq(Y), NEW kinds, NEW p
  PROVE  Among(p, OfKind(parts, kinds)) <=> Among(p, parts) /\ p.kind \in kinds
<1> DEFINE ss == [i \in DOMAIN parts |-> IF parts[i].kind \in kinds THEN <<parts[i]>> ELSE <<>>]
<1>1. DOMAIN parts = 1..Len(parts) /\ Len(parts) \in Nat /\ \A i \in DOMAIN parts : parts[i] \in Y
  OBVIOUS
<1>2. ss \in Seq(Seq(Y)) /\ DOMAIN ss = DOMAIN parts
  BY <1>1
<1>3. \A i \in DOMAIN parts : Among(p, ss[i]) <=> parts[i] = p /\ p.kind \in kinds
  BY DEF Among
<1>4. OfKind(parts, kinds) = FlattenSeq(ss)
  BY DEF OfKind, Where
<1> HIDE DEF ss
<1>5. Among(p, FlattenSeq(ss)) <=> \E i \in DOMAIN ss : Among(p, ss[i])
  BY <1>2, AmongFlat
<1> QED
  BY <1>2, <1>3, <1>4, <1>5 DEF Among

LEMMA AmongSaid ==
  ASSUME NEW Y, NEW parts \in Seq(Y), NEW p, Among(p, Where(parts, Known))
  PROVE  Among(p, parts)
<1> DEFINE ss == [i \in DOMAIN parts |-> IF Known(parts[i]) THEN <<parts[i]>> ELSE <<>>]
<1>1. DOMAIN parts = 1..Len(parts) /\ Len(parts) \in Nat /\ \A i \in DOMAIN parts : parts[i] \in Y
  OBVIOUS
<1>2. ss \in Seq(Seq(Y)) /\ DOMAIN ss = DOMAIN parts
  BY <1>1
<1>3. \A i \in DOMAIN parts : Among(p, ss[i]) => parts[i] = p
  BY DEF Among
<1>4. Where(parts, Known) = FlattenSeq(ss)
  BY DEF Where
<1> HIDE DEF ss
<1>5. Among(p, FlattenSeq(ss)) <=> \E i \in DOMAIN ss : Among(p, ss[i])
  BY <1>2, AmongFlat
<1> QED
  BY <1>2, <1>3, <1>4, <1>5 DEF Among

LEMMA BareSaid ==
  ASSUME NEW Y, NEW parts \in Seq(Y), Bare(parts)
  PROVE  Bare(Where(parts, Known))
<1>1. PICK said1 : said1 = Where(parts, Known)
  OBVIOUS
<1>2. ASSUME NEW i \in DOMAIN said1 PROVE said1[i].kind \notin {"call", "result"}
  <2>1. Among(said1[i], said1)
    BY DEF Among
  <2>2. Among(said1[i], parts)
    BY <1>1, <2>1, AmongSaid
  <2> QED
    BY <2>2 DEF Among, Bare
<1> QED
  BY <1>1, <1>2 DEF Bare

LEMMA IdsOfKind ==
  ASSUME NEW Y, NEW parts \in Seq(Y), NEW kinds, NEW kind
  PROVE  Ids(OfKind(parts, kinds), kind) = IF kind \in kinds THEN Ids(parts, kind) ELSE {}
<1>1. PICK some : some = OfKind(parts, kinds)
  OBVIOUS
<1>2. \A p : Among(p, some) <=> Among(p, parts) /\ p.kind \in kinds
  BY <1>1, AmongOfKind
<1>3. \A x : /\ x \in Ids(some, kind) <=> \E p : Among(p, some) /\ p.kind = kind /\ p.id = x
             /\ x \in Ids(parts, kind) <=> \E p : Among(p, parts) /\ p.kind = kind /\ p.id = x
  BY IdsAre
<1>4. \A x : x \in Ids(some, kind) <=> kind \in kinds /\ x \in Ids(parts, kind)
  BY <1>2, <1>3
<1> QED
  BY <1>1, <1>4

LEMMA IdsText ==
  ASSUME NEW text
  PROVE  Calls(Text(text)) = {} /\ Results(Text(text)) = {}
<1>1. Bare(Text(text))
  BY DEF Text, Part, Bare
<1> QED
  BY <1>1, BareIds

\* A text and calls behind it.
LEMMA IdsSpeech ==
  ASSUME NEW I, NEW D, 0 \in D, NEW text \in Texts(I), NEW parts \in PartLists(I, D)
  PROVE  Calls(Text(text) \o OfKind(parts, {"call"})) = Calls(parts)
<1>1. PICK a, b : a = Text(text) /\ b = OfKind(parts, {"call"})
  OBVIOUS
<1>2. a \in Seq(Parts(I, D)) /\ b \in Seq(Parts(I, D))
  BY <1>1, TextType, OfKindType DEF PartLists
<1>3. Ids(a \o b, "call") = Ids(a, "call") \cup Ids(b, "call")
  BY <1>2, IdsMore
<1>4. Ids(a, "call") = {}
  BY <1>1, IdsText DEF Calls
<1>5. Ids(b, "call") = Ids(parts, "call")
  <2>1. PICK kinds : kinds = {"call"}
    OBVIOUS
  <2>2. parts \in Seq(Parts(I, D))
    BY DEF PartLists
  <2> QED
    BY <1>1, <2>1, <2>2, IdsOfKind
<1> QED
  BY <1>1, <1>3, <1>4, <1>5 DEF Calls

\* No more parts than before.
LEMMA OfKindLength ==
  ASSUME NEW Y, NEW parts \in Seq(Y), NEW kinds
  PROVE  Len(OfKind(parts, kinds)) <= Len(parts)
<1> DEFINE ss == [i \in DOMAIN parts |-> IF parts[i].kind \in kinds THEN <<parts[i]>> ELSE <<>>]
           n == Len(parts)
<1>1. DOMAIN parts = 1..n /\ n \in Nat /\ \A i \in DOMAIN parts : parts[i] \in Y
  OBVIOUS
<1>2. ss \in Seq(Seq(Y)) /\ Len(ss) = n
  BY <1>1
<1>3. \A i \in 1..n : ss[i] \in Seq(Y) /\ Len(ss[i]) <= 1 /\ Len(ss[i]) \in Nat
  BY <1>1
<1>4. OfKind(parts, kinds) = FlattenSeq(ss)
  BY DEF OfKind, Where
<1> HIDE DEF ss
<1>5. PICK f \in [0..Len(ss) -> Seq(Y)] :
        /\ f[0] = <<>> /\ FlattenSeq(ss) = f[Len(ss)]
        /\ \A i \in 1..Len(ss) : f[i] = f[i - 1] \o ss[i]
  BY <1>2, FlattenTable
<1> DEFINE X == {k \in 0..n : Len(f[k]) <= k}
           h == [k \in 0..n |-> k]
<1>6. h[0] \in X
  <2>1. 0 \in 0..n /\ Len(f[0]) = 0
    BY <1>1, <1>5
  <2> QED
    BY <2>1
<1>7. ASSUME NEW i \in 1..n, h[i - 1] \in X PROVE h[i] \in X
  <2>1. i - 1 \in 0..n /\ i \in 0..n /\ i \in Nat
    BY <1>1
  <2>2. h[i - 1] = i - 1 /\ h[i] = i
    BY <2>1
  <2>3. Len(f[i - 1]) <= i - 1 /\ f[i - 1] \in Seq(Y) /\ ss[i] \in Seq(Y) /\ f[i] = f[i - 1] \o ss[i]
    BY <1>2, <1>3, <1>5, <1>7, <2>1, <2>2
  <2>4. Len(f[i]) = Len(f[i - 1]) + Len(ss[i]) /\ Len(f[i - 1]) \in Nat
    BY <2>3, ConcatProperties
  <2>5. Len(f[i]) <= i
    <3>1. PICK a, b : a = Len(f[i - 1]) /\ b = Len(ss[i])
      OBVIOUS
    <3>2. a \in Nat /\ b \in Nat /\ a <= i - 1 /\ b <= 1
      BY <1>3, <2>3, <2>4, <3>1
    <3>3. a + b <= i
      BY <2>1, <3>2
    <3>4. Len(f[i]) = a + b
      BY <2>4, <3>1
    <3> QED
      BY <3>3, <3>4
  <2> QED
    BY <2>1, <2>2, <2>5
<1> HIDE DEF X, h
<1>8. \A i \in 0..n : h[i] \in X
  BY <1>1, <1>6, <1>7, Climbs
<1>9. n \in 0..n /\ h[n] = n
  BY <1>1 DEF h
<1>10. Len(f[n]) <= n
  BY <1>8, <1>9 DEF X
<1> QED
  BY <1>2, <1>4, <1>5, <1>10

\* The blocks of a message for Bedrock.
LEMMA AddBlockCalls ==
  ASSUME NEW I, NEW D, NEW blocks \in PartLists(I, D), NEW p \in Parts(I, D)
  PROVE  Calls(AddBlock(blocks, p)) = Calls(blocks) \cup Calls(<<p>>)
<1>1. CASE p.kind = "text" /\ p.text = <<>>
  BY <1>1, IdsOne DEF AddBlock, Calls
<1>2. CASE p.kind = "text" /\ p.text # <<>> /\ blocks # <<>> /\ Last(blocks).kind = "text"
  <2>1. blocks \in Seq(Parts(I, D)) /\ \A i \in DOMAIN blocks : blocks[i] \in Parts(I, D)
    BY DEF PartLists
  <2>2. AddBlock(blocks, p) = [blocks EXCEPT ![Len(blocks)].text = @ \o p.text]
    BY <1>2 DEF AddBlock
  <2>3. SameParts(AddBlock(blocks, p), blocks)
    BY <2>1, <2>2 DEF SameParts, Parts
  <2>4. Calls(<<p>>) = {}
    BY <1>2, IdsOne DEF Calls
  <2> QED
    BY <2>3, <2>4, IdsSame DEF Calls
<1>3. CASE ~(p.kind = "text" /\ p.text = <<>>) /\ ~(p.kind = "text" /\ p.text # <<>> /\ blocks # <<>> /\ Last(blocks).kind = "text")
  <2>1. AddBlock(blocks, p) = Append(blocks, p)
    BY <1>3 DEF AddBlock
  <2>2. blocks \in Seq(Parts(I, D)) /\ <<p>> \in Seq(Parts(I, D)) /\ Append(blocks, p) = blocks \o <<p>>
    BY AppendIsConcat DEF PartLists
  <2>3. PICK one : one = <<p>>
    OBVIOUS
  <2>4. one \in Seq(Parts(I, D)) /\ AddBlock(blocks, p) = blocks \o one
    BY <2>1, <2>2, <2>3
  <2>5. Ids(blocks \o one, "call") = Ids(blocks, "call") \cup Ids(one, "call")
    BY <2>2, <2>4, IdsMore
  <2> QED
    BY <2>3, <2>4, <2>5 DEF Calls
<1> QED
  BY <1>1, <1>2, <1>3

LEMMA BedrockBlocksCalls ==
  ASSUME NEW I, NEW D, NEW parts \in PartLists(I, D)
  PROVE  Calls(BedrockBlocks(parts)) = Calls(parts)
<1> DEFINE X == PartLists(I, D)
           Y == Parts(I, D)
           n == Len(parts)
           e == <<>>
<1>1. BlocksIn(X, Y) /\ e \in X /\ parts \in Seq(Y) /\ n \in Nat /\ DOMAIN parts = 1..n
  BY AddBlockType DEF BlocksIn, PartLists
<1> HIDE DEF X, Y, e
<1>2. PICK g \in [0..n -> X] :
        /\ g[0] = e /\ Blocks(e, parts) = g[n] /\ \A i \in 1..n : g[i] = AddBlock(g[i - 1], parts[i])
  BY <1>1, BlocksFold
<1> DEFINE T == {k \in 0..n : \A x : x \in Calls(g[k]) <=> \E j \in 1..k : parts[j].kind = "call" /\ parts[j].id = x}
           h == [k \in 0..n |-> k]
<1>3. h[0] \in T
  <2>1. Calls(g[0]) = {} /\ 0 \in 0..n
    BY <1>1, <1>2, IdsNone DEF Calls, e
  <2> QED
    BY <2>1
<1>4. ASSUME NEW i \in 1..n, h[i - 1] \in T PROVE h[i] \in T
  <2>1. i - 1 \in 0..n /\ i \in 0..n /\ parts[i] \in Y
    BY <1>1
  <2>2. h[i - 1] = i - 1 /\ h[i] = i
    BY <2>1
  <2>3. \A x : x \in Calls(g[i - 1]) <=> \E j \in 1..i - 1 : parts[j].kind = "call" /\ parts[j].id = x
    BY <1>4, <2>1, <2>2
  <2>4. PICK p : p = parts[i]
    OBVIOUS
  <2>5. PICK b : b = g[i - 1]
    OBVIOUS
  <2>6. Calls(AddBlock(b, p)) = Calls(b) \cup Calls(<<p>>)
    <3>1. b \in PartLists(I, D) /\ p \in Parts(I, D)
      BY <1>2, <2>1, <2>4, <2>5 DEF X, Y
    <3> QED
      BY <3>1, AddBlockCalls
  <2>7. Calls(<<p>>) = IF p.kind = "call" THEN {p.id} ELSE {}
    BY IdsOne DEF Calls
  <2>8. Calls(g[i]) = Calls(b) \cup Calls(<<p>>)
    BY <1>2, <2>4, <2>5, <2>6
  <2>9. \A j : j \in 1..i <=> j \in 1..i - 1 \/ j = i
    BY <2>1
  <2>10. \A x : x \in Calls(g[i]) <=> \E j \in 1..i : parts[j].kind = "call" /\ parts[j].id = x
    BY <2>3, <2>4, <2>5, <2>7, <2>8, <2>9
  <2> QED
    BY <2>1, <2>2, <2>10
<1> HIDE DEF T, h
<1>5. \A i \in 0..n : h[i] \in T
  BY <1>1, <1>3, <1>4, Climbs
<1>6. n \in 0..n /\ h[n] = n
  BY <1>1 DEF h
<1>7. \A x : x \in Calls(g[n]) <=> \E j \in 1..n : parts[j].kind = "call" /\ parts[j].id = x
  BY <1>5, <1>6 DEF T
<1>8. \A x : x \in Calls(parts) <=> \E j \in 1..n : parts[j].kind = "call" /\ parts[j].id = x
  BY <1>1 DEF Calls, Ids
<1> QED
  BY <1>2, <1>7, <1>8 DEF BedrockBlocks, Blocks, e

-----------------------------------------------------------------------------
\* Which message may follow which.  Between two messages, the calls that wait for their
\* results are a finite set of ids.

Waits == {P \in SUBSET Int : IsFiniteSet(P) /\ 0 \notin P}

\* The results of the calls P, each once, and then neither calls nor results.
Tidy(parts, P) ==
  LET k == Cardinality(P)
  IN  /\ k <= Len(parts)
      /\ \A i \in 1..k : parts[i].kind = "result" /\ parts[i].id \in P
      /\ \A x \in P : \E i \in 1..k : parts[i].id = x
      /\ \A i, j \in 1..k : parts[i].id = parts[j].id => i = j
      /\ \A i \in k + 1..Len(parts) : parts[i].kind \notin {"call", "result"}

\* After m, the calls Q wait instead of P.  Results come together in a message of the user
\* (Anthropic), or each in a message of its own (OpenAI).
Leads(together, P, m, Q) ==
  CASE m.role = "assistant" -> P = {} /\ Q = Calls(m.parts)
    [] m.role = "tool"      -> /\ ~together /\ Len(m.parts) = 1 /\ m.parts[1].kind = "result"
                               /\ m.parts[1].id \in P /\ Q = P \ {m.parts[1].id}
    [] m.role = "system"    -> P = {} /\ Q = {}
    [] OTHER                -> Q = {} /\ (together \/ P = {}) /\ Tidy(m.parts, P)

Steps(together, ms, h) == \A i \in 1..Len(ms) : Leads(together, h[i - 1], ms[i], h[i])
Runs(together, ms, P, Q) ==
  \E h \in [0..Len(ms) -> Waits] : h[0] = P /\ h[Len(ms)] = Q /\ Steps(together, ms, h)

LEMMA WaitsFacts ==
  /\ {} \in Waits
  /\ \A P \in Waits : IsFiniteSet(P) /\ Cardinality(P) \in Nat /\ 0 \notin P
  /\ \A R : \A P \in Waits : P \ R \in Waits
<1>1. {} \in Waits
  BY FS_EmptySet DEF Waits
<1>2. \A P \in Waits : IsFiniteSet(P) /\ Cardinality(P) \in Nat /\ 0 \notin P
  BY FS_CardinalityType DEF Waits
<1>3. \A R : \A P \in Waits : P \ R \in Waits
  <2> TAKE R
  <2> TAKE P \in Waits
  <2>1. IsFiniteSet(P) /\ P \ R \subseteq P
    BY DEF Waits
  <2>2. IsFiniteSet(P \ R)
    BY <2>1, FS_Subset
  <2> QED
    BY <2>2 DEF Waits
<1> QED
  BY <1>1, <1>2, <1>3

LEMMA TidyBare ==
  ASSUME NEW Y, NEW parts \in Seq(Y), NEW P, P = {}
  PROVE  Tidy(parts, P) <=> Bare(parts)
<1>1. Cardinality(P) = 0 /\ Len(parts) \in Nat /\ DOMAIN parts = 1..Len(parts)
  BY FS_EmptySet
<1>2. 0 + 1..Len(parts) = DOMAIN parts /\ 1..0 = {}
  BY <1>1
<1> QED
  BY <1>1, <1>2 DEF Tidy, Bare

LEMMA RunsNone ==
  ASSUME NEW together, NEW P \in Waits
  PROVE  Runs(together, <<>>, P, P)
<1> DEFINE h == [i \in 0..0 |-> P]
<1>1. h \in [0..Len(<<>>) -> Waits] /\ h[0] = P /\ h[Len(<<>>)] = P /\ Steps(together, <<>>, h)
  BY DEF Steps
<1> QED
  BY <1>1 DEF Runs

LEMMA RunsOne ==
  ASSUME NEW together, NEW P \in Waits, NEW Q \in Waits, NEW m, Leads(together, P, m, Q)
  PROVE  Runs(together, <<m>>, P, Q)
<1> DEFINE h == [i \in 0..1 |-> IF i = 0 THEN P ELSE Q]
           ms == <<m>>
<1>1. h \in [0..1 -> Waits] /\ h[0] = P /\ h[1] = Q
  OBVIOUS
<1>2. Len(ms) = 1 /\ ms[1] = m
  OBVIOUS
<1> HIDE DEF h, ms
<1>3. Steps(together, ms, h)
  <2> SUFFICES ASSUME NEW i \in 1..Len(ms) PROVE Leads(together, h[i - 1], ms[i], h[i])
    BY DEF Steps
  <2>1. i = 1 /\ i - 1 = 0
    BY <1>2
  <2> QED
    BY <1>1, <1>2, <2>1
<1> QED
  BY <1>1, <1>2, <1>3 DEF Runs, ms

LEMMA RunsJoin ==
  ASSUME NEW Y, NEW together, NEW ms \in Seq(Y), NEW more \in Seq(Y), NEW P, NEW Q, NEW R,
         Runs(together, ms, P, Q), Runs(together, more, Q, R)
  PROVE  Runs(together, ms \o more, P, R)
<1> DEFINE n == Len(ms)
           k == Len(more)
           all == ms \o more
<1>1. n \in Nat /\ k \in Nat /\ Len(all) = n + k
      /\ \A i \in 1..n + k : all[i] = IF i <= n THEN ms[i] ELSE more[i - n]
  BY ConcatProperties
<1>2. PICK f \in [0..n -> Waits] : f[0] = P /\ f[n] = Q /\ Steps(together, ms, f)
  BY DEF Runs
<1>3. PICK g \in [0..k -> Waits] : g[0] = Q /\ g[k] = R /\ Steps(together, more, g)
  BY DEF Runs
<1>4. /\ \A i \in 1..n : Leads(together, f[i - 1], ms[i], f[i])
      /\ \A i \in 1..k : Leads(together, g[i - 1], more[i], g[i])
  BY <1>2, <1>3 DEF Steps
<1> HIDE DEF n, k, all
<1> DEFINE h == [i \in 0..n + k |-> IF i <= n THEN f[i] ELSE g[i - n]]
<1>5. h \in [0..n + k -> Waits]
  <2>1. \A i \in 0..n + k : IF i <= n THEN i \in 0..n ELSE i - n \in 0..k
    BY <1>1
  <2> QED
    BY <2>1
<1>6. h[0] = P
  <2>1. 0 \in 0..n + k /\ 0 <= n
    BY <1>1
  <2> QED
    BY <1>2, <2>1
<1>7. h[n + k] = R
  <2>1. PICK c : c = n + k
    OBVIOUS
  <2>2. c \in 0..n + k /\ (c <= n => k = 0 /\ c = n) /\ c - n = k
    BY <1>1, <2>1
  <2>3. CASE c <= n
    <3>1. h[c] = f[n] /\ g[k] = g[0]
      BY <2>2, <2>3
    <3> QED
      BY <1>2, <1>3, <2>1, <3>1
  <2>4. CASE ~(c <= n)
    <3>1. h[c] = g[k]
      BY <2>2, <2>4
    <3> QED
      BY <1>3, <2>1, <3>1
  <2> QED
    BY <2>3, <2>4
<1>8. ASSUME NEW i \in 1..n + k PROVE Leads(together, h[i - 1], all[i], h[i])
  <2>1. i \in 0..n + k /\ i - 1 \in 0..n + k
    BY <1>1
  <2>2. CASE i <= n
    <3>1. i \in 1..n /\ i - 1 <= n
      BY <1>1, <2>2
    <3>2. h[i] = f[i] /\ h[i - 1] = f[i - 1] /\ all[i] = ms[i]
      BY <1>1, <2>1, <2>2, <3>1
    <3> QED
      BY <1>4, <3>1, <3>2
  <2>3. CASE ~(i <= n)
    <3>1. i - n \in 1..k /\ (i - 1 <= n <=> i - 1 = n) /\ (i - n) - 1 = (i - 1) - n /\ (i - 1 = n => (i - n) - 1 = 0)
      BY <1>1, <2>3
    <3>2. h[i] = g[i - n] /\ all[i] = more[i - n]
      BY <1>1, <2>1, <2>3
    <3>3. h[i - 1] = g[(i - n) - 1]
      <4>1. h[i - 1] = IF i - 1 <= n THEN f[i - 1] ELSE g[(i - 1) - n]
        BY <2>1
      <4>2. CASE i - 1 = n
        <5>1. h[i - 1] = f[n] /\ (i - n) - 1 = 0
          BY <3>1, <4>1, <4>2
        <5> QED
          BY <1>2, <1>3, <5>1
      <4>3. CASE i - 1 # n
        BY <3>1, <4>1, <4>3
      <4> QED
        BY <4>2, <4>3
    <3>4. PICK j : j = i - n
      OBVIOUS
    <3>5. Leads(together, g[j - 1], more[j], g[j])
      BY <1>4, <3>1, <3>4
    <3> QED
      BY <3>2, <3>3, <3>4, <3>5
  <2> QED
    BY <2>2, <2>3
<1> HIDE DEF h
<1>9. Steps(together, all, h)
  BY <1>1, <1>8 DEF Steps
<1> QED
  BY <1>1, <1>5, <1>6, <1>7, <1>9 DEF Runs, all

LEMMA RunsAppend ==
  ASSUME NEW Y, NEW together, NEW ms \in Seq(Y), NEW m \in Y, NEW P, NEW Q \in Waits, NEW R \in Waits,
         Runs(together, ms, P, Q), Leads(together, Q, m, R)
  PROVE  Runs(together, Append(ms, m), P, R)
<1>1. Runs(together, <<m>>, Q, R)
  BY RunsOne
<1>2. PICK one : one = <<m>>
  OBVIOUS
<1>3. one \in Seq(Y) /\ Append(ms, m) = ms \o one
  BY <1>2, AppendIsConcat
<1>4. Runs(together, ms \o one, P, R)
  BY <1>1, <1>2, <1>3, RunsJoin
<1> QED
  BY <1>3, <1>4

-----------------------------------------------------------------------------
\* Turns of Anthropic's protocol and of Bedrock's: each begins with the results of the calls
\* of the one before.

Settles(parts, C) == Cardinality(C) <= Len(parts) /\ Results(SubSeq(parts, 1, Cardinality(C))) = C

\* C waits after the turns.
Settled(turns, C) ==
  /\ C = IF turns = <<>> THEN {} ELSE Calls(turns[Len(turns)].parts)
  /\ \A i \in 1..Len(turns) : turns[i].role # "system" /\ Calls(turns[i].parts) \in Waits
  /\ \A i \in 1..Len(turns) - 1 : Settles(turns[i + 1].parts, Calls(turns[i].parts))

LEMMA SettlesNone ==
  ASSUME NEW Y, NEW parts \in Seq(Y), NEW C, C = {}
  PROVE  Settles(parts, C)
<1>1. Cardinality(C) = 0 /\ Len(parts) \in Nat
  BY FS_EmptySet
<1>2. PICK k : k = Cardinality(C)
  OBVIOUS
<1>3. SubSeq(parts, 1, k) = <<>>
  BY <1>1, <1>2
<1>4. Results(<<>>) = {}
  BY IdsNone DEF Results
<1>5. Results(SubSeq(parts, 1, k)) = C
  <2>1. PICK s : s = SubSeq(parts, 1, k)
    OBVIOUS
  <2>2. Results(s) = {}
    BY <1>3, <1>4, <2>1
  <2> QED
    BY <2>1, <2>2
<1>6. k <= Len(parts)
  BY <1>1, <1>2
<1> QED
  BY ONLY <1>2, <1>5, <1>6 DEF Settles

LEMMA SettlesBlank ==
  ASSUME NEW C \in Waits, NEW parts, parts = <<>>, Settles(parts, C)
  PROVE  C = {}
<1>1. Cardinality(C) \in Nat /\ IsFiniteSet(C) /\ Cardinality(C) <= 0
  BY WaitsFacts DEF Settles
<1>2. Cardinality(C) = 0
  BY <1>1
<1> QED
  BY <1>1, <1>2, FS_EmptySet

LEMMA SettlesMore ==
  ASSUME NEW Y, NEW parts \in Seq(Y), NEW more \in Seq(Y), NEW C \in Waits, Settles(parts, C)
  PROVE  Settles(parts \o more, C)
<1>1. PICK k : k = Cardinality(C)
  OBVIOUS
<1>2. k \in Nat /\ k <= Len(parts) /\ Results(SubSeq(parts, 1, k)) = C
  BY <1>1, WaitsFacts DEF Settles
<1>3. SubSeq(parts \o more, 1, k) = SubSeq(parts, 1, k) /\ k <= Len(parts \o more)
  BY <1>2
<1> QED
  BY <1>1, <1>2, <1>3 DEF Settles

LEMMA SettlesAll ==
  ASSUME NEW Y, NEW parts \in Seq(Y), NEW C \in Waits, Len(parts) = Cardinality(C), Results(parts) = C
  PROVE  Settles(parts, C)
<1>1. PICK k : k = Cardinality(C)
  OBVIOUS
<1>2. k \in Nat /\ Len(parts) = k
  BY <1>1, WaitsFacts
<1>3. SubSeq(parts, 1, k) = parts /\ k <= Len(parts)
  BY <1>2, SubSeqFull
<1> QED
  BY <1>1, <1>3 DEF Settles

LEMMA SettlesTidy ==
  ASSUME NEW Y, NEW parts \in Seq(Y), NEW C \in Waits, Tidy(parts, C)
  PROVE  Settles(parts, C) /\ Calls(parts) = {}
<1>1. PICK k : k = Cardinality(C)
  OBVIOUS
<1>2. /\ k \in Nat /\ k <= Len(parts) /\ Len(parts) \in Nat /\ DOMAIN parts = 1..Len(parts)
      /\ \A i \in 1..k : parts[i].kind = "result" /\ parts[i].id \in C
      /\ \A x \in C : \E i \in 1..k : parts[i].id = x
      /\ \A i \in k + 1..Len(parts) : parts[i].kind \notin {"call", "result"}
  BY <1>1, WaitsFacts DEF Tidy
<1>3. PICK s : s = SubSeq(parts, 1, k)
  OBVIOUS
<1>4. DOMAIN s = 1..k /\ \A i \in 1..k : s[i] = parts[i]
  BY <1>2, <1>3
<1>5. Results(s) = {s[i].id : i \in {j \in 1..k : s[j].kind = "result"}}
  BY <1>4 DEF Results, Ids
<1>6. Results(s) = C
  BY <1>2, <1>4, <1>5
<1>7. ASSUME NEW i \in DOMAIN parts PROVE parts[i].kind # "call"
  <2>1. i \in 1..k \/ i \in k + 1..Len(parts)
    BY <1>2
  <2> QED
    BY <1>2, <2>1
<1> QED
  BY <1>1, <1>2, <1>3, <1>6, <1>7 DEF Settles, Calls, Ids

LEMMA SettledAppend ==
  ASSUME NEW Y, NEW turns \in Seq(Y), NEW m \in Y, NEW C, Settled(turns, C),
         Settles(m.parts, C), Calls(m.parts) \in Waits, m.role # "system"
  PROVE  Settled(Append(turns, m), Calls(m.parts))
<1> DEFINE all == Append(turns, m)
           n == Len(turns)
<1>1. /\ n \in Nat /\ Len(all) = n + 1 /\ all # <<>> /\ all[n + 1] = m
      /\ \A i \in 1..n : all[i] = turns[i]
  BY AppendProperties
<1>2. /\ C = IF turns = <<>> THEN {} ELSE Calls(turns[n].parts)
      /\ \A i \in 1..n : turns[i].role # "system" /\ Calls(turns[i].parts) \in Waits
      /\ \A i \in 1..n - 1 : Settles(turns[i + 1].parts, Calls(turns[i].parts))
  BY DEF Settled
<1>3. turns = <<>> => n = 0
  OBVIOUS
<1> HIDE DEF all, n
<1>4. ASSUME NEW i \in 1..Len(all) PROVE all[i].role # "system" /\ Calls(all[i].parts) \in Waits
  <2>1. i = n + 1 \/ i \in 1..n
    BY <1>1
  <2> QED
    BY <1>1, <1>2, <2>1
<1>5. ASSUME NEW i \in 1..Len(all) - 1 PROVE Settles(all[i + 1].parts, Calls(all[i].parts))
  <2>1. i \in 1..n /\ (i = n \/ (i \in 1..n - 1 /\ i + 1 \in 1..n)) /\ n # 0
    BY <1>1
  <2>2. CASE i = n
    <3>1. all[i + 1] = m /\ all[i] = turns[n] /\ turns # <<>>
      BY <1>1, <1>3, <2>1, <2>2
    <3> QED
      BY <1>2, <3>1
  <2>3. CASE i \in 1..n - 1 /\ i + 1 \in 1..n
    BY <1>1, <1>2, <2>1, <2>3
  <2> QED
    BY <2>1, <2>2, <2>3
<1> QED
  BY <1>1, <1>4, <1>5 DEF Settled, all

LEMMA SettledFront ==
  ASSUME NEW Y, NEW turns \in Seq(Y), NEW m \in Y, NEW E, Settled(Append(turns, m), E),
         NEW Z, m.parts \in Seq(Z)
  PROVE  /\ E = Calls(m.parts) /\ E \in Waits /\ m.role # "system"
         /\ \E C \in Waits : Settled(turns, C) /\ Settles(m.parts, C)
<1> DEFINE all == Append(turns, m)
           n == Len(turns)
           C == IF turns = <<>> THEN {} ELSE Calls(turns[n].parts)
<1>1. /\ n \in Nat /\ Len(all) = n + 1 /\ all # <<>> /\ all[n + 1] = m
      /\ \A i \in 1..n : all[i] = turns[i]
  BY AppendProperties
<1>2. /\ E = IF all = <<>> THEN {} ELSE Calls(all[Len(all)].parts)
      /\ \A i \in 1..Len(all) : all[i].role # "system" /\ Calls(all[i].parts) \in Waits
      /\ \A i \in 1..Len(all) - 1 : Settles(all[i + 1].parts, Calls(all[i].parts))
  BY DEF Settled
<1>3. (turns = <<>> => n = 0) /\ (turns # <<>> => n # 0)
  OBVIOUS
<1> HIDE DEF all, n
<1>5. E = Calls(m.parts) /\ E \in Waits /\ m.role # "system"
  <2>1. n + 1 \in 1..Len(all)
    BY <1>1
  <2> QED
    BY <1>1, <1>2, <2>1
<1>6. \A i \in 1..n : turns[i].role # "system" /\ Calls(turns[i].parts) \in Waits
  <2> TAKE i \in 1..n
  <2>1. i \in 1..Len(all)
    BY <1>1
  <2> QED
    BY <1>1, <1>2, <2>1
<1>7. \A i \in 1..n - 1 : Settles(turns[i + 1].parts, Calls(turns[i].parts))
  <2> TAKE i \in 1..n - 1
  <2>1. i \in 1..Len(all) - 1 /\ i \in 1..n /\ i + 1 \in 1..n
    BY <1>1
  <2> QED
    BY <1>1, <1>2, <2>1
<1>8. C \in Waits
  <2>1. turns # <<>> => n \in 1..n
    BY <1>1, <1>3
  <2> QED
    BY <1>6, <2>1, WaitsFacts
<1>9. CASE turns = <<>>
  <2>1. PICK parts, none : parts = m.parts /\ none = {}
    OBVIOUS
  <2>2. C = none /\ Settles(parts, none)
    BY <1>9, <2>1, SettlesNone
  <2> HIDE DEF C
  <2>3. Settled(turns, C) /\ Settles(m.parts, C)
    BY <1>6, <1>7, <1>9, <2>1, <2>2 DEF Settled
  <2> QED
    BY <1>5, <1>8, <2>3
<1>10. ASSUME turns # <<>> PROVE Settles(m.parts, C)
  <2>1. n \in 1..Len(all) - 1 /\ n \in 1..n
    BY <1>1, <1>3, <1>10
  <2> QED
    BY <1>1, <1>2, <1>10, <2>1
<1> QED
  BY <1>5, <1>6, <1>7, <1>8, <1>9, <1>10 DEF Settled, n

\* Whoever adds a message adds one that begins with the results, or none when no calls wait.
LEMMA AppendAlwaysSettled ==
  ASSUME NEW D, NEW ms \in MessageLists(Marks, D), NEW role \in Roles \ {"system"},
         NEW parts \in PartLists(Marks, D), NEW C \in Waits, Settled(ms, C),
         Settles(parts, C), Calls(parts) \in Waits
  PROVE  Settled(AppendAlways(ms, role, parts), Calls(parts))
<1>1. CASE parts = <<>>
  <2>1. C = {}
    BY <1>1, SettlesBlank
  <2>2. Calls(parts) = {}
    BY <1>1, IdsNone DEF Calls
  <2> QED
    BY <1>1, <2>1, <2>2 DEF AppendAlways
<1>2. CASE parts # <<>>
  <2>1. PICK m : m = Message(role, parts)
    OBVIOUS
  <2>2. m.parts = parts /\ m.role = role
    BY <2>1 DEF Message
  <2>3. m \in Messages(Marks, D) /\ ms \in Seq(Messages(Marks, D))
    BY <2>1, MessageMade DEF MessageLists
  <2>4. Settled(Append(ms, m), Calls(m.parts))
    BY <2>2, <2>3, SettledAppend
  <2> QED
    BY <1>2, <2>1, <2>2, <2>4 DEF AppendAlways
<1> QED
  BY <1>1, <1>2

LEMMA AppendPartsSettled ==
  ASSUME NEW D, NEW ms \in MessageLists(Marks, D), NEW role \in Roles \ {"system"},
         NEW parts \in PartLists(Marks, D), NEW C, C = {}, Settled(ms, C), Calls(parts) \in Waits
  PROVE  Settled(AppendParts(ms, role, parts), Calls(parts))
<1>1. CASE parts = <<>> \/ ~(ms # <<>> /\ Last(ms).role = role)
  <2>1. AppendParts(ms, role, parts) = AppendAlways(ms, role, parts)
    BY <1>1 DEF AppendParts, AppendAlways
  <2>2. parts \in Seq(Parts(Marks, D)) /\ C \in Waits
    BY WaitsFacts DEF PartLists
  <2>3. Settles(parts, C)
    BY <2>2, SettlesNone
  <2> QED
    BY <2>1, <2>2, <2>3, AppendAlwaysSettled
<1>2. CASE parts # <<>> /\ ms # <<>> /\ Last(ms).role = role
  <2> DEFINE m == ms[Len(ms)]
             new == [m EXCEPT !.parts = @ \o parts]
  <2>1. ms \in Seq(Messages(Marks, D)) /\ Len(ms) \in 1..Len(ms) /\ m \in Messages(Marks, D) /\ m.role = role
    BY <1>2 DEF MessageLists, Last
  <2>2. m.parts \in Seq(Parts(Marks, D)) /\ parts \in Seq(Parts(Marks, D)) /\ m.parts \in PartLists(Marks, D)
    BY <2>1 DEF Messages, PartLists
  <2>3. m.parts \o parts \in PartLists(Marks, D)
    BY <2>2, MoreParts
  <2>4. new \in Messages(Marks, D) /\ new.role = role /\ new.parts = m.parts \o parts
    BY <2>1, <2>3 DEF Messages
  <2>5. AppendParts(ms, role, parts) = Replaced(ms, new)
    BY <1>2 DEF AppendParts, Replaced
  <2> HIDE DEF new
  <2>6. Fronted(Messages(Marks, D), ms, new)
    BY <1>2, <2>1, <2>4, LastReplaced
  <2>7. PICK front \in Seq(Messages(Marks, D)) : ms = Append(front, m) /\ Replaced(ms, new) = Append(front, new)
    BY <2>6 DEF Fronted
  <2>8. PICK last : last = m
    OBVIOUS
  <2> HIDE DEF m
  <2>9. Settled(Append(front, last), C) /\ last \in Messages(Marks, D) /\ last.parts \in Seq(Parts(Marks, D))
    BY <2>1, <2>2, <2>7, <2>8
  <2>10. C = Calls(last.parts) /\ \E B \in Waits : Settled(front, B) /\ Settles(last.parts, B)
    BY <2>9, SettledFront
  <2>11. PICK B \in Waits : Settled(front, B) /\ Settles(last.parts, B)
    BY <2>10
  <2>12. PICK lasts : lasts = last.parts
    OBVIOUS
  <2>13. Settles(lasts \o parts, B)
    BY <2>2, <2>9, <2>11, <2>12, SettlesMore
  <2>14. Ids(lasts \o parts, "call") = Ids(lasts, "call") \cup Ids(parts, "call")
    BY <2>2, <2>9, <2>12, IdsMore
  <2>15. new.parts = lasts \o parts
    BY <2>4, <2>8, <2>12
  <2>16. Calls(new.parts) = Calls(parts)
    BY <2>10, <2>12, <2>14, <2>15 DEF Calls
  <2>17. Settled(Append(front, new), Calls(new.parts))
    BY <2>4, <2>11, <2>13, <2>15, <2>16, SettledAppend
  <2> QED
    BY <2>5, <2>7, <2>16, <2>17
<1> QED
  BY <1>1, <1>2

-----------------------------------------------------------------------------
\* Results that are gathered one by one.

\* Of the calls C, those but for P have their results.
Filled(parts, C, P) ==
  P \subseteq C /\ Len(parts) = Cardinality(C \ P) /\ Results(parts) = C \ P /\ Calls(parts) = {}

LEMMA FilledNone ==
  ASSUME NEW C \in Waits
  PROVE  Filled(<<>>, C, C)
<1>1. Cardinality({}) = 0 /\ C \ C = {} /\ Len(<<>>) = 0
  BY FS_EmptySet
<1> QED
  BY <1>1, IdsNone DEF Filled, Results, Calls

LEMMA FilledMore ==
  ASSUME NEW Y, NEW parts \in Seq(Y), NEW p \in Y, NEW C \in Waits, NEW P, Filled(parts, C, P),
         p.kind = "result", p.id \in P
  PROVE  Filled(parts \o <<p>>, C, P \ {p.id})
<1>1. PICK one : one = <<p>>
  OBVIOUS
<1>2. one \in Seq(Y) /\ Len(one) = 1
  BY <1>1
<1>3. /\ Ids(parts \o one, "result") = Ids(parts, "result") \cup Ids(one, "result")
      /\ Ids(parts \o one, "call") = Ids(parts, "call") \cup Ids(one, "call")
      /\ Len(parts \o one) = Len(parts) + 1
  <2>1. Ids(parts \o one, "result") = Ids(parts, "result") \cup Ids(one, "result")
    BY <1>2, IdsMore
  <2>2. Ids(parts \o one, "call") = Ids(parts, "call") \cup Ids(one, "call")
    BY <1>2, IdsMore
  <2>3. Len(parts \o one) = Len(parts) + Len(one)
    BY <1>2, ConcatProperties
  <2> QED
    BY <1>2, <2>1, <2>2, <2>3
<1>4. Ids(one, "result") = {p.id} /\ Ids(one, "call") = {}
  BY <1>1, IdsOne
<1>5. P \subseteq C /\ p.id \in C /\ p.id \notin C \ P /\ C \ (P \ {p.id}) = (C \ P) \cup {p.id}
  BY DEF Filled
<1>6. C \ P \in Waits /\ IsFiniteSet(C \ P)
  BY WaitsFacts
<1>7. Cardinality((C \ P) \cup {p.id}) = Cardinality(C \ P) + 1
  BY <1>5, <1>6, FS_AddElement
<1>8. Len(parts \o one) = Cardinality(C \ (P \ {p.id}))
  BY <1>3, <1>5, <1>7 DEF Filled
<1>9. Ids(parts \o one, "result") = C \ (P \ {p.id}) /\ Ids(parts \o one, "call") = {}
  BY <1>3, <1>4, <1>5 DEF Filled, Results, Calls
<1> QED
  BY <1>1, <1>5, <1>8, <1>9 DEF Filled, Results, Calls

LEMMA FilledDone ==
  ASSUME NEW Y, NEW parts \in Seq(Y), NEW C \in Waits, NEW P, P = {}, Filled(parts, C, P)
  PROVE  Settles(parts, C) /\ Calls(parts) = {}
<1>1. C \ P = C
  OBVIOUS
<1>2. Len(parts) = Cardinality(C) /\ Results(parts) = C /\ Calls(parts) = {}
  BY <1>1 DEF Filled
<1> QED
  BY <1>2, SettlesAll

-----------------------------------------------------------------------------
\* Translations to Bedrock's protocol.

\* When the calls P wait.
Due(s, P) == \E C \in Waits : Settled(s.out, C) /\ Filled(s.held, C, P)

LEMMA FlushDue ==
  ASSUME NEW D, NEW s \in Waiting(Marks, D), NEW P, P = {}, Due(s, P)
  PROVE  Settled(Flush(s).out, P) /\ Flush(s).out \in MessageLists(Marks, D) /\ Flush(s).held = <<>>
<1>1. PICK out, held1 : out = s.out /\ held1 = s.held
  OBVIOUS
<1>2. out \in MessageLists(Marks, D) /\ held1 \in PartLists(Marks, D)
  BY <1>1, AwaitedType
<1>3. PICK C \in Waits : Settled(out, C) /\ Filled(held1, C, P)
  BY <1>1 DEF Due
<1>4. Settles(held1, C) /\ Calls(held1) = P /\ P \in Waits
  <2>1. held1 \in Seq(Parts(Marks, D))
    BY <1>2 DEF PartLists
  <2> QED
    BY <1>3, <2>1, FilledDone, WaitsFacts
<1>5. PICK role : role = "user"
  OBVIOUS
<1>6. role \in Roles \ {"system"}
  BY <1>5 DEF Roles
<1>7. Settled(AppendAlways(out, role, held1), Calls(held1))
  BY <1>2, <1>3, <1>4, <1>6, AppendAlwaysSettled
<1>8. AppendAlways(out, role, held1) \in MessageLists(Marks, D)
  BY <1>2, <1>6, AppendAlwaysType
<1> QED
  BY <1>1, <1>4, <1>5, <1>7, <1>8 DEF Flush

LEMMA TurnToBedrockDue ==
  ASSUME NEW D, NEW s \in Waiting(Marks, D), NEW m \in Messages(Marks, D), NEW P \in Waits, NEW Q \in Waits,
         NEW together, together = FALSE, Leads(together, P, m, Q), Due(s, P)
  PROVE  Due(TurnToBedrock(s, m), Q)
<1>1. m.parts \in PartLists(Marks, D) /\ m.role \in Roles /\ m.parts \in Seq(Parts(Marks, D))
  BY DEF Messages, PartLists
<1>2. CASE m.role = "system"
  <2>1. P = Q /\ TurnToBedrock(s, m) = s
    BY <1>2 DEF Leads, TurnToBedrock
  <2> QED
    BY <2>1
<1>3. CASE m.role = "tool"
  <2>1. PICK p : p = m.parts[1]
    OBVIOUS
  <2>2. Len(m.parts) = 1 /\ p.kind = "result" /\ p.id \in P /\ Q = P \ {p.id}
    BY <1>3, <2>1 DEF Leads
  <2>3. m.parts = <<p>> /\ p \in Parts(Marks, D)
    BY <1>1, <2>1, <2>2
  <2>4. PICK C \in Waits : Settled(s.out, C) /\ Filled(s.held, C, P)
    BY DEF Due
  <2>5. PICK parts : parts = s.held
    OBVIOUS
  <2>6. parts \in Seq(Parts(Marks, D)) /\ Filled(parts, C, P)
    BY <2>4, <2>5, AwaitedType DEF PartLists
  <2>7. Filled(parts \o <<p>>, C, P \ {p.id})
    BY <2>2, <2>3, <2>6, FilledMore
  <2>8. TurnToBedrock(s, m).out = s.out /\ TurnToBedrock(s, m).held = s.held \o m.parts
    BY <1>3 DEF TurnToBedrock, Waiting
  <2>9. Settled(TurnToBedrock(s, m).out, C) /\ Filled(TurnToBedrock(s, m).held, C, Q)
    BY <2>2, <2>3, <2>4, <2>5, <2>7, <2>8
  <2> QED
    BY <2>9 DEF Due
<1>4. CASE m.role \in {"user", "assistant"}
  <2>1. P = {} /\ Q = Calls(m.parts)
    <3>1. CASE m.role = "assistant"
      BY <3>1 DEF Leads
    <3>2. CASE m.role = "user"
      <4>1. P = {} /\ Q = {} /\ Tidy(m.parts, P)
        BY <3>2 DEF Leads
      <4>2. PICK parts : parts = m.parts
        OBVIOUS
      <4>3. Bare(parts)
        BY <1>1, <4>1, <4>2, TidyBare
      <4> QED
        BY <4>1, <4>2, <4>3, BareIds
    <3> QED
      BY <1>4, <3>1, <3>2
  <2>2. PICK t, out, role, blocks : /\ t = TurnToBedrock(s, m) /\ out = Flush(s).out /\ role = m.role
                                    /\ blocks = BedrockBlocks(m.parts)
    OBVIOUS
  <2>3. Settled(out, P) /\ out \in MessageLists(Marks, D) /\ Flush(s).held = <<>>
    BY <2>1, <2>2, FlushDue
  <2>4. t.out = AppendAlways(out, role, blocks) /\ t.held = <<>>
    BY <1>4, <2>2, <2>3 DEF TurnToBedrock, Flush
  <2>5. blocks \in PartLists(Marks, D) /\ blocks \in Seq(Parts(Marks, D)) /\ Calls(blocks) = Q
    <3>1. blocks \in PartLists(Marks, D)
      BY <1>1, <2>2, BedrockBlocksType
    <3>2. Calls(blocks) = Calls(m.parts)
      BY <1>1, <2>2, BedrockBlocksCalls
    <3> QED
      BY <2>1, <3>1, <3>2 DEF PartLists
  <2>6. Settles(blocks, P)
    BY <2>1, <2>5, SettlesNone
  <2>7. role \in Roles \ {"system"}
    BY <1>4, <2>2 DEF Roles
  <2>8. Settled(AppendAlways(out, role, blocks), Calls(blocks))
    BY <2>3, <2>5, <2>6, <2>7, AppendAlwaysSettled
  <2>9. Settled(t.out, Q) /\ Filled(t.held, Q, Q)
    BY <2>4, <2>5, <2>8, FilledNone
  <2> QED
    BY <2>2, <2>9 DEF Due
<1> QED
  BY <1>1, <1>2, <1>3, <1>4 DEF Roles

\* What a translation makes of the turns.
SettledTurns(D, ms, all) ==
  \E turns \in MessageLists(Marks, D) : all = SystemOf(ms) \o turns /\ Settled(turns, {})

LEMMA ToBedrockSettled ==
  ASSUME NEW D, 0 \in D, NEW ms \in MessageLists(Marks, D), NEW P, P = {}, NEW together, together = FALSE,
         Runs(together, ms, P, P)
  PROVE  SettledTurns(D, ms, ToBedrock(ms))
<1> DEFINE X == Waiting(Marks, D)
           Y == Messages(Marks, D)
           n == Len(ms)
           e == Nothing
<1>1. BedrockTurnsIn(X, Y) /\ e \in X /\ ms \in Seq(Y) /\ n \in Nat
  <2>1. BedrockTurnsIn(X, Y)
    BY TurnToBedrockType DEF BedrockTurnsIn
  <2>2. e \in X /\ ms \in Seq(Y)
    BY DEF MessageLists, Waiting, PartLists, Nothing
  <2> QED
    BY <2>1, <2>2
<1> HIDE DEF X, Y, e
<1>2. PICK g \in [0..n -> X] :
        /\ g[0] = e /\ BedrockTurns(e, ms) = g[n]
        /\ \A i \in 1..n : g[i] = TurnToBedrock(g[i - 1], ms[i])
  BY <1>1, BedrockTurnsFold
<1>3. PICK f \in [0..n -> Waits] : f[0] = P /\ f[n] = P /\ Steps(together, ms, f)
  BY DEF Runs
<1> DEFINE T == {i \in 0..n : Due(g[i], f[i])}
           h == [i \in 0..n |-> i]
<1>4. h[0] \in T
  <2>1. 0 \in 0..n
    BY <1>1
  <2>2. e.out = <<>> /\ e.held = <<>>
    BY DEF e, Nothing
  <2>3. P \in Waits
    BY WaitsFacts
  <2>4. Settled(<<>>, P)
    BY DEF Settled
  <2>5. Filled(<<>>, P, P)
    BY <2>3, FilledNone
  <2>6. Due(e, P)
    BY <2>2, <2>3, <2>4, <2>5 DEF Due
  <2> QED
    BY <1>2, <1>3, <2>1, <2>6
<1>5. ASSUME NEW i \in 1..n, h[i - 1] \in T PROVE h[i] \in T
  <2>1. i - 1 \in 0..n /\ i \in 0..n /\ ms[i] \in Y
    BY <1>1
  <2>2. h[i - 1] = i - 1 /\ h[i] = i
    BY <2>1
  <2>3. PICK s, m, A, B : s = g[i - 1] /\ m = ms[i] /\ A = f[i - 1] /\ B = f[i]
    OBVIOUS
  <2>4. s \in X /\ m \in Y /\ A \in Waits /\ B \in Waits /\ Due(s, A) /\ Leads(together, A, m, B)
    BY <1>2, <1>3, <1>5, <2>1, <2>2, <2>3 DEF Steps
  <2>5. Due(TurnToBedrock(s, m), B)
    BY <2>4, TurnToBedrockDue DEF X, Y
  <2> QED
    BY <1>2, <2>1, <2>2, <2>3, <2>5
<1> HIDE DEF T, h
<1>6. \A i \in 0..n : h[i] \in T
  BY <1>1, <1>4, <1>5, Climbs
<1>7. n \in 0..n /\ h[n] = n
  BY <1>1 DEF h
<1>8. PICK last : last = g[n]
  OBVIOUS
<1>9. last \in X /\ Due(last, P)
  BY <1>2, <1>3, <1>6, <1>7, <1>8 DEF T
<1>10. Settled(Flush(last).out, P) /\ Flush(last).out \in MessageLists(Marks, D)
  BY <1>9, FlushDue DEF X
<1>11. ToBedrock(ms) = SystemOf(ms) \o Flush(last).out
  BY <1>2, <1>8 DEF ToBedrock, BedrockTurns, e
<1> QED
  BY <1>10, <1>11 DEF SettledTurns

-----------------------------------------------------------------------------
\* Translations to Anthropic's protocol.

\* Either nothing waits after the turns, or the last of them has called, or it has the first
\* of the results.
Halfway(ms, role, parts, C, P) ==
  /\ Settled(ms, C) /\ Filled(parts, C, P) /\ P # {}
  /\ ms # <<>> /\ Last(ms).role = "assistant" /\ role = "user"
Gathers(D, turns, P) ==
  \/ P = {} /\ Settled(turns, P)
  \/ \E ms \in MessageLists(Marks, D), parts \in PartLists(Marks, D), C \in Waits, role \in Roles :
       turns = AppendAlways(ms, role, parts) /\ Halfway(ms, role, parts, C, P)

LEMMA AppendPartsLast ==
  ASSUME NEW D, NEW ms \in MessageLists(Marks, D), NEW role \in Roles,
         NEW parts \in PartLists(Marks, D), parts # <<>>
  PROVE  AppendParts(ms, role, parts) # <<>> /\ Last(AppendParts(ms, role, parts)).role = role
<1>1. CASE ms # <<>> /\ Last(ms).role = role
  <2>1. AppendParts(ms, role, parts) = [ms EXCEPT ![Len(ms)].parts = @ \o parts]
    BY <1>1 DEF AppendParts
  <2>2. ms \in Seq(Messages(Marks, D)) /\ Len(ms) \in Nat /\ Len(ms) \in 1..Len(ms) /\ ms[Len(ms)] \in Messages(Marks, D)
    BY <1>1 DEF MessageLists
  <2>3. PICK t : t = AppendParts(ms, role, parts)
    OBVIOUS
  <2>4. t \in Seq(Messages(Marks, D))
    BY <2>3, AppendPartsType DEF MessageLists
  <2>5. PICK m, new : m = ms[Len(ms)] /\ new = [m EXCEPT !.parts = @ \o parts]
    OBVIOUS
  <2>6. new.role = m.role
    BY <2>2, <2>5 DEF Messages
  <2>7. t = [ms EXCEPT ![Len(ms)] = new]
    BY <2>1, <2>3, <2>5
  <2>8. DOMAIN t = DOMAIN ms /\ t[Len(ms)] = new
    BY <2>2, <2>7
  <2>9. Len(t) = Len(ms) /\ t[Len(ms)].role = ms[Len(ms)].role
    BY <2>2, <2>4, <2>5, <2>6, <2>8
  <2>10. t # <<>> /\ Last(t).role = Last(ms).role
    BY <2>2, <2>9 DEF Last
  <2> QED
    BY <1>1, <2>3, <2>10
<1>2. CASE ~(ms # <<>> /\ Last(ms).role = role)
  <2>1. PICK m : m = Message(role, parts)
    OBVIOUS
  <2>2. AppendParts(ms, role, parts) = Append(ms, m) /\ m.role = role
    BY <1>2, <2>1 DEF AppendParts, Message
  <2>3. ms \in Seq(Messages(Marks, D)) /\ m \in Messages(Marks, D)
    BY <2>1, MessageMade DEF MessageLists
  <2>4. Append(ms, m) # <<>> /\ Last(Append(ms, m)) = m
    BY <2>3, AppendProperties DEF Last
  <2> QED
    BY <2>2, <2>4
<1> QED
  BY <1>1, <1>2

\* One result more.
LEMMA AppendPartsHalfway ==
  ASSUME NEW D, NEW ms \in MessageLists(Marks, D), NEW role \in Roles,
         NEW parts \in PartLists(Marks, D), NEW more \in PartLists(Marks, D), more # <<>>,
         ms # <<>>, Last(ms).role # role
  PROVE  AppendParts(AppendAlways(ms, role, parts), role, more) = AppendAlways(ms, role, parts \o more)
<1>1. /\ parts \in Seq(Parts(Marks, D)) /\ more \in Seq(Parts(Marks, D)) /\ ms \in Seq(Messages(Marks, D))
      /\ parts \o more \in PartLists(Marks, D)
  BY MoreParts DEF PartLists, MessageLists
<1>2. parts \o more # <<>>
  <2>1. PICK a, b : a = Len(parts) /\ b = Len(more)
    OBVIOUS
  <2>2. a \in Nat /\ b \in Nat /\ b # 0 /\ Len(parts \o more) = a + b
    BY <1>1, <2>1, ConcatProperties
  <2>3. Len(parts \o more) # 0
    BY <2>2
  <2> QED
    BY <2>3
<1>3. CASE parts = <<>>
  <2>1. AppendAlways(ms, role, parts) = ms /\ parts \o more = more
    BY <1>1, <1>3, ConcatEmptySeq DEF AppendAlways
  <2> QED
    BY <2>1 DEF AppendAlways, AppendParts
<1>4. CASE parts # <<>>
  <2>1. PICK m : m = Message(role, parts)
    OBVIOUS
  <2>2. m \in Messages(Marks, D) /\ m.role = role /\ m.parts = parts
    <3>1. m \in Messages(Marks, D)
      BY <2>1, MessageMade
    <3> QED
      BY <2>1, <3>1 DEF Message
  <2>3. PICK t : t = Append(ms, m)
    OBVIOUS
  <2>4. t # <<>> /\ t \in Seq(Messages(Marks, D)) /\ Last(t) = m /\ t[Len(t)] = m
    BY <1>1, <2>2, <2>3, AppendProperties DEF Last
  <2>5. AppendAlways(ms, role, parts) = t
    BY <1>4, <2>1, <2>3 DEF AppendAlways
  <2> DEFINE new == [m EXCEPT !.parts = @ \o more]
  <2>6. AppendParts(t, role, more) = Replaced(t, new)
    BY <2>2, <2>4 DEF AppendParts, Replaced
  <2>7. PICK all : all = parts \o more
    OBVIOUS
  <2>8. new = Message(role, all) /\ new \in Messages(Marks, D)
    <3>1. new = [m EXCEPT !.parts = all]
      BY <2>2, <2>7
    <3>2. [m EXCEPT !.parts = all] = Message(role, all)
      BY <2>1 DEF Message
    <3>3. Message(role, all) \in Messages(Marks, D)
      BY <1>1, <2>7, MessageMade
    <3> QED
      BY <3>1, <3>2, <3>3
  <2> HIDE DEF new
  <2>9. Fronted(Messages(Marks, D), t, new)
    BY <2>4, <2>8, LastReplaced
  <2>10. PICK front \in Seq(Messages(Marks, D)) : t = Append(front, m) /\ Replaced(t, new) = Append(front, new)
    BY <2>4, <2>9 DEF Fronted
  <2>11. front = ms
    <3>1. Append(front, m) = Append(ms, m)
      BY <2>3, <2>10
    <3> QED
      BY <1>1, <2>2, <3>1, AppendInjective
  <2>12. AppendAlways(ms, role, all) = Append(ms, Message(role, all))
    BY <1>2, <2>7 DEF AppendAlways
  <2> QED
    BY <2>5, <2>6, <2>7, <2>8, <2>10, <2>11, <2>12
<1> QED
  BY <1>3, <1>4

\* What is said when nothing waits.
LEMMA SpeechGathers ==
  ASSUME NEW D, NEW turns \in MessageLists(Marks, D), NEW role \in {"user", "assistant"},
         NEW parts \in PartLists(Marks, D), NEW P, P = {}, Gathers(D, turns, P),
         NEW Q \in Waits, Calls(parts) = Q, role = "user" => Q = {}
  PROVE  Gathers(D, AppendParts(turns, role, parts), Q)
<1>1. PICK t : t = AppendParts(turns, role, parts)
  OBVIOUS
<1>2. role \in Roles \ {"system"} /\ role \in Roles
  BY DEF Roles
<1>3. Settled(turns, P)
  BY DEF Gathers, Halfway
<1>4. Settled(t, Q) /\ t \in MessageLists(Marks, D)
  BY <1>1, <1>2, <1>3, AppendPartsSettled, AppendPartsType
<1>5. CASE Q = {}
  BY <1>1, <1>4, <1>5 DEF Gathers
<1>6. CASE Q # {}
  <2>1. parts # <<>> /\ role = "assistant"
    BY <1>6, IdsNone DEF Calls
  <2>2. t # <<>> /\ Last(t).role = "assistant"
    BY <1>1, <1>2, <2>1, AppendPartsLast
  <2>3. PICK none, user : none = <<>> /\ user = "user"
    OBVIOUS
  <2>4. none \in PartLists(Marks, D) /\ user \in Roles /\ t = AppendAlways(t, user, none)
    BY <2>3 DEF PartLists, Roles, AppendAlways
  <2>5. Filled(none, Q, Q)
    BY <2>3, FilledNone
  <2>6. Halfway(t, user, none, Q, Q)
    BY <1>4, <1>6, <2>2, <2>3, <2>5 DEF Halfway
  <2> QED
    BY <1>1, <1>4, <2>4, <2>6 DEF Gathers
<1> QED
  BY <1>5, <1>6

LEMMA TurnToAnthropicGathers ==
  ASSUME NEW D, 0 \in D, NEW turns \in MessageLists(Marks, D), NEW m \in Messages(Marks, D),
         NEW P \in Waits, NEW Q \in Waits, NEW together, together = FALSE,
         Leads(together, P, m, Q), Gathers(D, turns, P)
  PROVE  Gathers(D, TurnToAnthropic(turns, m), Q)
<1>1. m.parts \in PartLists(Marks, D) /\ m.role \in Roles /\ m.parts \in Seq(Parts(Marks, D))
  BY DEF Messages, PartLists
<1>2. CASE m.role = "system"
  <2>1. P = Q /\ TurnToAnthropic(turns, m) = turns
    BY <1>2 DEF Leads, TurnToAnthropic
  <2> QED
    BY <2>1
<1>3. CASE m.role = "tool"
  <2>1. PICK p : p = m.parts[1]
    OBVIOUS
  <2>2. Len(m.parts) = 1 /\ p.kind = "result" /\ p.id \in P /\ Q = P \ {p.id}
    BY <1>3, <2>1 DEF Leads
  <2>3. m.parts = <<p>> /\ p \in Parts(Marks, D) /\ <<p>> # <<>>
    BY <1>1, <2>1, <2>2
  <2>4. PICK ms \in MessageLists(Marks, D), parts \in PartLists(Marks, D), C \in Waits, role \in Roles :
          turns = AppendAlways(ms, role, parts) /\ Halfway(ms, role, parts, C, P)
    BY <2>2 DEF Gathers
  <2>5. /\ Settled(ms, C) /\ Filled(parts, C, P) /\ ms # <<>> /\ Last(ms).role # role /\ role = "user"
        /\ Last(ms).role = "assistant"
    BY <2>4 DEF Halfway
  <2>6. PICK more : more = <<p>>
    OBVIOUS
  <2>7. more \in PartLists(Marks, D) /\ more # <<>> /\ parts \in Seq(Parts(Marks, D))
    BY <1>1, <2>3, <2>6 DEF PartLists
  <2>8. PICK all : all = parts \o more
    OBVIOUS
  <2>9. all \in PartLists(Marks, D) /\ all \in Seq(Parts(Marks, D))
    BY <2>7, <2>8, MoreParts DEF PartLists
  <2>10. AppendParts(AppendAlways(ms, role, parts), role, more) = AppendAlways(ms, role, all)
    BY <2>5, <2>7, <2>8, AppendPartsHalfway
  <2>11. TurnToAnthropic(turns, m) = AppendAlways(ms, role, all)
    BY <1>3, <2>3, <2>4, <2>5, <2>6, <2>10 DEF TurnToAnthropic
  <2>12. Filled(all, C, Q)
    <3>1. Filled(parts \o <<p>>, C, P \ {p.id})
      BY <2>2, <2>3, <2>5, <2>7, FilledMore
    <3> QED
      BY <2>2, <2>6, <2>8, <3>1
  <2>13. CASE Q # {}
    <3>1. Halfway(ms, role, all, C, Q)
      BY <2>5, <2>12, <2>13 DEF Halfway
    <3> QED
      BY <2>9, <2>11, <3>1 DEF Gathers
  <2>14. CASE Q = {}
    <3>1. Settles(all, C) /\ Calls(all) = {}
      BY <2>9, <2>12, <2>14, FilledDone
    <3>2. role \in Roles \ {"system"} /\ Calls(all) \in Waits
      BY <2>5, <3>1, WaitsFacts
    <3>3. Settled(AppendAlways(ms, role, all), Calls(all))
      BY <2>5, <2>9, <3>1, <3>2, AppendAlwaysSettled
    <3> QED
      BY <2>11, <2>14, <3>1, <3>3 DEF Gathers
  <2> QED
    BY <2>13, <2>14
<1>4. CASE m.role = "assistant"
  <2>1. P = {} /\ Q = Calls(m.parts)
    BY <1>4 DEF Leads
  <2>2. PICK text, says, role : /\ text = Joined(m.parts) /\ role = "assistant"
                                /\ says = Text(text) \o OfKind(m.parts, {"call"})
    OBVIOUS
  <2>3. text \in Texts(Marks)
    BY <1>1, <2>2, JoinedType
  <2>4. says \in PartLists(Marks, D)
    <3>1. PICK a, b : a = Text(text) /\ b = OfKind(m.parts, {"call"})
      OBVIOUS
    <3>2. a \in PartLists(Marks, D) /\ b \in PartLists(Marks, D)
      BY <1>1, <2>3, <3>1, TextType, OfKindType DEF PartLists
    <3> QED
      BY <2>2, <3>1, <3>2, MoreParts
  <2>5. Calls(says) = Q
    <3>1. Calls(Text(text) \o OfKind(m.parts, {"call"})) = Calls(m.parts)
      BY <1>1, <2>3, IdsSpeech
    <3> QED
      BY <2>1, <2>2, <3>1
  <2>6. TurnToAnthropic(turns, m) = AppendParts(turns, role, says)
    BY <1>4, <2>2 DEF TurnToAnthropic
  <2>7. Gathers(D, AppendParts(turns, role, says), Q)
    BY <2>1, <2>2, <2>4, <2>5, SpeechGathers
  <2> QED
    BY <2>6, <2>7
<1>5. CASE m.role = "user"
  <2>1. P = {} /\ Q = {} /\ Tidy(m.parts, P)
    BY <1>5 DEF Leads
  <2>2. PICK parts, says, role : /\ parts = m.parts /\ role = "user"
                                 /\ says = Where(m.parts, Known)
    OBVIOUS
  <2>3. says \in PartLists(Marks, D)
    BY <1>1, <2>2, SaidType
  <2>4. Calls(says) = Q
    <3>1. Bare(parts)
      BY <1>1, <2>1, <2>2, TidyBare
    <3>2. Bare(says)
      BY <1>1, <2>2, <3>1, BareSaid
    <3> QED
      BY <2>1, <3>2, BareIds
  <2>5. TurnToAnthropic(turns, m) = AppendParts(turns, role, says)
    BY <1>5, <2>2 DEF TurnToAnthropic
  <2>6. Gathers(D, AppendParts(turns, role, says), Q)
    BY <2>1, <2>2, <2>3, <2>4, SpeechGathers
  <2> QED
    BY <2>5, <2>6
<1> QED
  BY <1>1, <1>2, <1>3, <1>4, <1>5 DEF Roles

LEMMA ToAnthropicSettled ==
  ASSUME NEW D, 0 \in D, NEW ms \in MessageLists(Marks, D), NEW P, P = {}, NEW together, together = FALSE,
         Runs(together, ms, P, P)
  PROVE  SettledTurns(D, ms, ToAnthropic(ms))
<1> DEFINE X == MessageLists(Marks, D)
           Y == Messages(Marks, D)
           n == Len(ms)
           e == <<>>
<1>1. AnthropicTurnsIn(X, Y) /\ e \in X /\ ms \in Seq(Y) /\ n \in Nat
  <2>1. AnthropicTurnsIn(X, Y)
    BY TurnToAnthropicType DEF AnthropicTurnsIn
  <2>2. e \in X /\ ms \in Seq(Y)
    BY DEF MessageLists
  <2> QED
    BY <2>1, <2>2
<1> HIDE DEF X, Y, e
<1>2. PICK g \in [0..n -> X] :
        /\ g[0] = e /\ AnthropicTurns(e, ms) = g[n]
        /\ \A i \in 1..n : g[i] = TurnToAnthropic(g[i - 1], ms[i])
  BY <1>1, AnthropicTurnsFold
<1>3. PICK f \in [0..n -> Waits] : f[0] = P /\ f[n] = P /\ Steps(together, ms, f)
  BY DEF Runs
<1> DEFINE T == {i \in 0..n : Gathers(D, g[i], f[i])}
           h == [i \in 0..n |-> i]
<1>4. h[0] \in T
  <2>1. 0 \in 0..n
    BY <1>1
  <2>2. Settled(<<>>, P)
    BY DEF Settled
  <2>3. Gathers(D, e, P)
    BY <2>2 DEF Gathers, e
  <2> QED
    BY <1>2, <1>3, <2>1, <2>3
<1>5. ASSUME NEW i \in 1..n, h[i - 1] \in T PROVE h[i] \in T
  <2>1. i - 1 \in 0..n /\ i \in 0..n /\ ms[i] \in Y
    BY <1>1
  <2>2. h[i - 1] = i - 1 /\ h[i] = i
    BY <2>1
  <2>3. PICK s, m, A, B : s = g[i - 1] /\ m = ms[i] /\ A = f[i - 1] /\ B = f[i]
    OBVIOUS
  <2>4. s \in X /\ m \in Y /\ A \in Waits /\ B \in Waits /\ Gathers(D, s, A) /\ Leads(together, A, m, B)
    BY <1>2, <1>3, <1>5, <2>1, <2>2, <2>3 DEF Steps
  <2>5. Gathers(D, TurnToAnthropic(s, m), B)
    BY <2>4, TurnToAnthropicGathers DEF X, Y
  <2> QED
    BY <1>2, <2>1, <2>2, <2>3, <2>5
<1> HIDE DEF T, h
<1>6. \A i \in 0..n : h[i] \in T
  BY <1>1, <1>4, <1>5, Climbs
<1>7. n \in 0..n /\ h[n] = n
  BY <1>1 DEF h
<1>8. PICK turns : turns = g[n]
  OBVIOUS
<1>9. turns \in X /\ Gathers(D, turns, P)
  BY <1>2, <1>3, <1>6, <1>7, <1>8 DEF T
<1>10. Settled(turns, P)
  BY <1>9 DEF Gathers, Halfway
<1>11. ToAnthropic(ms) = SystemOf(ms) \o turns
  BY <1>2, <1>8 DEF ToAnthropic, AnthropicTurns, e
<1> QED
  BY <1>9, <1>10, <1>11 DEF SettledTurns, X

-----------------------------------------------------------------------------
\* Translations to OpenAI's protocol: a message for each result.

LEMMA BareMore ==
  ASSUME NEW Y, NEW parts \in Seq(Y), Bare(parts), NEW p \in Y, p.kind \notin {"call", "result"}
  PROVE  Bare(Append(parts, p))
<1>1. /\ DOMAIN parts = 1..Len(parts) /\ Len(parts) \in Nat /\ DOMAIN Append(parts, p) = 1..Len(parts) + 1
      /\ Append(parts, p)[Len(parts) + 1] = p /\ \A i \in 1..Len(parts) : Append(parts, p)[i] = parts[i]
  BY AppendProperties
<1>2. \A i \in 1..Len(parts) + 1 : i \in 1..Len(parts) \/ i = Len(parts) + 1
  BY <1>1
<1> QED
  BY <1>1, <1>2 DEF Bare

\* The calls P of which the first i parts have the results.
LeftOf(parts, P, i) == P \ {parts[j].id : j \in 1..i}

Halved(together, s, parts, P, i) ==
  /\ Runs(together, s.out, P, LeftOf(parts, P, i)) /\ Bare(s.held)
  /\ i <= Cardinality(P) => s.held = <<>>

LEMMA TidyFacts ==
  ASSUME NEW Y, NEW parts \in Seq(Y), NEW P \in Waits, Tidy(parts, P), NEW i \in 1..Len(parts)
  PROVE  /\ LeftOf(parts, P, i) \in Waits /\ LeftOf(parts, P, i - 1) \in Waits
         /\ i <= Cardinality(P) => /\ parts[i].kind = "result" /\ parts[i].id \in LeftOf(parts, P, i - 1)
                                   /\ LeftOf(parts, P, i) = LeftOf(parts, P, i - 1) \ {parts[i].id}
         /\ ~(i <= Cardinality(P)) => /\ parts[i].kind \notin {"call", "result"}
                                      /\ LeftOf(parts, P, i) = {} /\ LeftOf(parts, P, i - 1) = {}
<1>1. PICK k : k = Cardinality(P)
  OBVIOUS
<1>2. /\ k \in Nat /\ k <= Len(parts) /\ Len(parts) \in Nat
      /\ \A j \in 1..k : parts[j].kind = "result" /\ parts[j].id \in P
      /\ \A x \in P : \E j \in 1..k : parts[j].id = x
      /\ \A j, l \in 1..k : parts[j].id = parts[l].id => j = l
      /\ \A j \in k + 1..Len(parts) : parts[j].kind \notin {"call", "result"}
  BY <1>1, WaitsFacts DEF Tidy
<1>3. LeftOf(parts, P, i) \in Waits /\ LeftOf(parts, P, i - 1) \in Waits
  BY WaitsFacts DEF LeftOf
<1>4. ASSUME i <= k
      PROVE  /\ parts[i].kind = "result" /\ parts[i].id \in LeftOf(parts, P, i - 1)
             /\ LeftOf(parts, P, i) = LeftOf(parts, P, i - 1) \ {parts[i].id}
  <2>1. i \in 1..k /\ \A j : j \in 1..i <=> j \in 1..i - 1 \/ j = i
    BY <1>2, <1>4
  <2>2. \A j \in 1..i - 1 : j \in 1..k /\ j # i
    BY <1>2, <1>4
  <2>3. parts[i].id \in LeftOf(parts, P, i - 1)
    BY <1>2, <2>1, <2>2 DEF LeftOf
  <2>4. {parts[j].id : j \in 1..i} = {parts[j].id : j \in 1..i - 1} \cup {parts[i].id}
    BY <2>1
  <2> QED
    BY <1>2, <2>1, <2>3, <2>4 DEF LeftOf
<1>5. ASSUME ~(i <= k)
      PROVE  /\ parts[i].kind \notin {"call", "result"}
             /\ LeftOf(parts, P, i) = {} /\ LeftOf(parts, P, i - 1) = {}
  <2>1. i \in k + 1..Len(parts) /\ \A j \in 1..k : j \in 1..i /\ j \in 1..i - 1
    BY <1>2, <1>5
  <2>2. \A x \in P : x \in {parts[j].id : j \in 1..i} /\ x \in {parts[j].id : j \in 1..i - 1}
    BY <1>2, <2>1
  <2> QED
    BY <1>2, <2>1, <2>2 DEF LeftOf
<1> QED
  BY <1>1, <1>3, <1>4, <1>5

LEMMA PartToOpenAIHalved ==
  ASSUME NEW D, NEW s \in Waiting(Marks, D), NEW parts \in PartLists(Marks, D), NEW P \in Waits, Tidy(parts, P),
         NEW i \in 1..Len(parts), NEW together, together = FALSE, Halved(together, s, parts, P, i - 1)
  PROVE  Halved(together, PartToOpenAI(s, parts[i]), parts, P, i)
<1>1. PICK p, A, B : p = parts[i] /\ A = LeftOf(parts, P, i - 1) /\ B = LeftOf(parts, P, i)
  OBVIOUS
<1>2. parts \in Seq(Parts(Marks, D)) /\ p \in Parts(Marks, D) /\ Len(parts) \in Nat /\ i \in Nat
  BY <1>1 DEF PartLists
<1>3. /\ A \in Waits /\ B \in Waits
      /\ i <= Cardinality(P) => p.kind = "result" /\ p.id \in A /\ B = A \ {p.id}
      /\ ~(i <= Cardinality(P)) => p.kind \notin {"call", "result"} /\ B = {} /\ A = {}
  BY <1>1, <1>2, TidyFacts
<1>4. PICK out, held1 : out = s.out /\ held1 = s.held
  OBVIOUS
<1>5. /\ out \in Seq(Messages(Marks, D)) /\ held1 \in Seq(Parts(Marks, D))
      /\ Runs(together, out, P, A) /\ Bare(held1) /\ (i - 1 <= Cardinality(P) => held1 = <<>>)
  BY <1>1, <1>4, AwaitedType DEF Halved, MessageLists, PartLists
<1>6. Cardinality(P) \in Nat
  BY WaitsFacts
<1>7. PICK t : t = PartToOpenAI(s, p)
  OBVIOUS
<1>8. CASE i <= Cardinality(P)
  <2>1. held1 = <<>>
    BY <1>2, <1>5, <1>6, <1>8
  <2>2. PICK q, m : q = Texted(p) /\ m = Message("tool", <<q>>)
    OBVIOUS
  <2>3. m.role = "tool" /\ m.parts = <<q>> /\ m \in Messages(Marks, D) /\ q.kind = p.kind /\ q.id = p.id
    <3>1. m.role = "tool" /\ m.parts = <<q>>
      BY <2>2 DEF Message
    <3>2. q \in Parts(Marks, D) /\ q.kind = p.kind /\ q.id = p.id
      BY <1>2, <2>2, TextedType
    <3>3. <<q>> \in PartLists(Marks, D) /\ "tool" \in Roles
      BY <3>2 DEF PartLists, Roles
    <3> QED
      BY <2>2, <3>1, <3>2, <3>3, MessageMade
  <2>4. t.out = Append(out, m) /\ t.held = <<>>
    BY <1>3, <1>4, <1>7, <1>8, <2>1, <2>2 DEF PartToOpenAI, Flush, AppendAlways, Texted
  <2>5. Leads(together, A, m, B)
    BY <1>3, <1>8, <2>3 DEF Leads
  <2>6. Runs(together, Append(out, m), P, B)
    BY <1>3, <1>5, <2>3, <2>5, RunsAppend
  <2>7. Bare(<<>>)
    BY DEF Bare
  <2> QED
    BY <1>1, <1>7, <2>4, <2>6, <2>7 DEF Halved
<1>9. CASE ~(i <= Cardinality(P))
  <2>1. p.kind \notin {"call", "result"} /\ A = B
    BY <1>3, <1>9
  <2>2. t.out = out /\ (t.held = held1 \/ t.held = Append(held1, p))
    BY <1>4, <1>7, <2>1 DEF PartToOpenAI, Waiting
  <2>3. Bare(Append(held1, p))
    BY <1>2, <1>5, <2>1, BareMore
  <2> QED
    BY <1>1, <1>5, <1>7, <1>9, <2>1, <2>2, <2>3 DEF Halved
<1> QED
  BY <1>8, <1>9

LEMMA RunsBlank ==
  ASSUME NEW together, NEW P, NEW Q, NEW none, none = <<>>, Runs(together, none, P, Q)
  PROVE  P = Q
BY DEF Runs

\* A message of the user in which nothing is answered.
LEMMA UserLeads ==
  ASSUME NEW Y, NEW parts \in Seq(Y), Bare(parts), NEW P, P = {}, NEW together
  PROVE  Leads(together, P, Message("user", parts), P)
<1>1. PICK m : m = Message("user", parts)
  OBVIOUS
<1>2. m.role = "user" /\ m.parts = parts
  BY <1>1 DEF Message
<1>3. Tidy(parts, P)
  BY TidyBare
<1> QED
  BY <1>1, <1>2, <1>3 DEF Leads

LEMMA UserRuns ==
  ASSUME NEW D, 0 \in D, NEW parts \in PartLists(Marks, D), NEW P \in Waits, Tidy(parts, P),
         NEW together, together = FALSE, NEW Q, Q = {}
  PROVE  Runs(together, UserToOpenAI(parts), P, Q)
<1> DEFINE X == Waiting(Marks, D)
           Y == Parts(Marks, D)
           n == Len(parts)
           e == Nothing
<1>1. OpenAIPartsIn(X, Y) /\ e \in X /\ parts \in Seq(Y) /\ n \in Nat
  <2>1. OpenAIPartsIn(X, Y)
    BY PartToOpenAIType DEF OpenAIPartsIn
  <2>2. e \in X /\ parts \in Seq(Y)
    BY DEF MessageLists, Waiting, PartLists, Nothing
  <2> QED
    BY <2>1, <2>2
<1> HIDE DEF X, Y, e
<1>2. PICK g \in [0..n -> X] :
        /\ g[0] = e /\ OpenAIParts(e, parts) = g[n]
        /\ \A i \in 1..n : g[i] = PartToOpenAI(g[i - 1], parts[i])
  BY <1>1, OpenAIPartsFold
<1> DEFINE T == {i \in 0..n : Halved(together, g[i], parts, P, i)}
           h == [i \in 0..n |-> i]
<1>3. h[0] \in T
  <2>1. 0 \in 0..n
    BY <1>1
  <2>2. e.out = <<>> /\ e.held = <<>>
    BY DEF e, Nothing
  <2>3. LeftOf(parts, P, 0) = P
    BY DEF LeftOf
  <2>4. Runs(together, <<>>, P, P)
    BY RunsNone
  <2>5. Halved(together, e, parts, P, 0)
    BY <2>2, <2>3, <2>4 DEF Halved, Bare
  <2> QED
    BY <1>2, <2>1, <2>5
<1>4. ASSUME NEW i \in 1..n, h[i - 1] \in T PROVE h[i] \in T
  <2>1. i - 1 \in 0..n /\ i \in 0..n
    BY <1>1
  <2>2. h[i - 1] = i - 1 /\ h[i] = i
    BY <2>1
  <2>3. PICK s : s = g[i - 1]
    OBVIOUS
  <2>4. s \in X /\ Halved(together, s, parts, P, i - 1)
    BY <1>2, <1>4, <2>1, <2>2, <2>3
  <2>5. Halved(together, PartToOpenAI(s, parts[i]), parts, P, i)
    BY <2>4, PartToOpenAIHalved DEF X
  <2> QED
    BY <1>2, <2>1, <2>2, <2>3, <2>5
<1> HIDE DEF T, h
<1>5. \A i \in 0..n : h[i] \in T
  BY <1>1, <1>3, <1>4, Climbs
<1>6. n \in 0..n /\ h[n] = n
  BY <1>1 DEF h
<1>7. PICK s : s = g[n]
  OBVIOUS
<1>8. s \in X /\ Halved(together, s, parts, P, n)
  BY <1>2, <1>5, <1>6, <1>7 DEF T
<1>9. LeftOf(parts, P, n) = Q
  <2>1. PICK k : k = Cardinality(P)
    OBVIOUS
  <2>2. k \in Nat /\ k <= n /\ \A x \in P : \E j \in 1..k : parts[j].id = x
    BY <2>1, WaitsFacts DEF Tidy
  <2>3. \A j \in 1..k : j \in 1..n
    BY <1>1, <2>2
  <2> QED
    BY <2>2, <2>3 DEF LeftOf
<1>10. PICK out, held1 : out = s.out /\ held1 = s.held
  OBVIOUS
<1>11. /\ out \in Seq(Messages(Marks, D)) /\ held1 \in Seq(Parts(Marks, D)) /\ held1 \in PartLists(Marks, D)
       /\ Runs(together, out, P, Q) /\ Bare(held1)
  BY <1>8, <1>9, <1>10, AwaitedType DEF Halved, MessageLists, PartLists, X
<1>12. PICK done : done = AppendAlways(out, "user", held1)
  OBVIOUS
<1>13. Q \in Waits
  BY WaitsFacts
<1>14. Runs(together, done, P, Q)
  <2>1. CASE held1 = <<>>
    BY <1>11, <1>12, <2>1 DEF AppendAlways
  <2>2. CASE held1 # <<>>
    <3>1. PICK m : m = Message("user", held1)
      OBVIOUS
    <3>2. m \in Messages(Marks, D) /\ Leads(together, Q, m, Q)
      <4>1. "user" \in Roles
        BY DEF Roles
      <4> QED
        BY <1>11, <3>1, <4>1, MessageMade, UserLeads
    <3>3. Runs(together, Append(out, m), P, Q)
      BY <1>11, <1>13, <3>2, RunsAppend
    <3> QED
      BY <1>12, <2>2, <3>1, <3>3 DEF AppendAlways
  <2> QED
    BY <2>1, <2>2
<1>15. UserToOpenAI(parts) = NotEmpty(done)
  BY <1>2, <1>7, <1>10, <1>12 DEF UserToOpenAI, OpenAIParts, Flush, e
<1>16. CASE done # <<>>
  BY <1>14, <1>15, <1>16 DEF NotEmpty
<1>17. CASE done = <<>>
  <2>1. P = Q
    BY <1>14, <1>17, RunsBlank
  <2>2. PICK p : p = Part("text", <<>>, 0)
    OBVIOUS
  <2>3. <<p>> \in Seq({p}) /\ Bare(<<p>>)
    BY <2>2 DEF Bare, Part
  <2>4. PICK one : one = <<p>>
    OBVIOUS
  <2>5. PICK m : m = Message("user", one)
    OBVIOUS
  <2>6. Leads(together, Q, m, Q)
    <3>1. one \in Seq({p}) /\ Bare(one)
      BY <2>3, <2>4
    <3> QED
      BY <2>5, <3>1, UserLeads
  <2>7. Runs(together, <<m>>, Q, Q)
    BY <1>13, <2>6, RunsOne
  <2>8. NotEmpty(done) = <<m>>
    BY <1>17, <2>2, <2>4, <2>5 DEF NotEmpty
  <2> QED
    BY <1>15, <2>1, <2>7, <2>8
<1> QED
  BY <1>16, <1>17

LEMMA AssistantRuns ==
  ASSUME NEW D, 0 \in D, NEW parts \in PartLists(Marks, D), NEW P, P = {}, NEW Q \in Waits, Q = Calls(parts),
         NEW together
  PROVE  Runs(together, AssistantToOpenAI(parts), P, Q)
<1>1. PICK p, calls : p = Part("text", Joined(parts), 0) /\ calls = OfKind(parts, {"call"})
  OBVIOUS
<1>2. p.kind = "text" /\ p \in Parts(Marks, D) /\ parts \in Seq(Parts(Marks, D))
  <2>1. "text" \in Kinds /\ Joined(parts) \in Texts(Marks)
    BY JoinedType DEF Kinds
  <2> QED
    BY <1>1, <2>1, PartMade DEF Part, PartLists
<1>3. calls \in Seq(Parts(Marks, D)) /\ Calls(calls) = Q
  <2>1. calls \in Seq(Parts(Marks, D))
    BY <1>1, <1>2, OfKindType
  <2>2. PICK kinds, kind : kinds = {"call"} /\ kind = "call"
    OBVIOUS
  <2>3. Ids(OfKind(parts, kinds), kind) = IF kind \in kinds THEN Ids(parts, kind) ELSE {}
    BY <1>2, IdsOfKind
  <2> QED
    BY <1>1, <2>1, <2>2, <2>3 DEF Calls
<1>4. PICK one : one = <<p>>
  OBVIOUS
<1>5. one \in Seq(Parts(Marks, D)) /\ Calls(one) = {}
  <2>1. Bare(one)
    BY <1>2, <1>4 DEF Bare
  <2> QED
    BY <1>2, <1>4, <2>1, BareIds
<1>6. Calls(one \o calls) = Q
  <2>1. Ids(one \o calls, "call") = Ids(one, "call") \cup Ids(calls, "call")
    BY <1>3, <1>5, IdsMore
  <2> QED
    BY <1>3, <1>5, <2>1 DEF Calls
<1>7. PICK m : m = Message("assistant", one \o calls)
  OBVIOUS
<1>8. m.role = "assistant" /\ m.parts = one \o calls
  BY <1>7 DEF Message
<1>9. Leads(together, P, m, Q)
  BY <1>6, <1>8 DEF Leads
<1>10. P \in Waits
  BY WaitsFacts
<1>11. Runs(together, <<m>>, P, Q)
  BY <1>9, <1>10, RunsOne
<1>12. AssistantToOpenAI(parts) = <<m>>
  BY <1>1, <1>4, <1>7 DEF AssistantToOpenAI
<1> QED
  BY <1>11, <1>12

LEMMA SystemRuns ==
  ASSUME NEW ms, NEW P, P = {}, NEW together
  PROVE  Runs(together, SystemOf(ms), P, P)
<1>1. P \in Waits
  BY WaitsFacts
<1>2. PICK text : SystemOf(ms) = AppendParts(<<>>, "system", text)
  BY DEF SystemOf
<1>3. PICK m : m = Message("system", text)
  OBVIOUS
<1>4. SystemOf(ms) = <<>> \/ SystemOf(ms) = <<m>>
  BY <1>2, <1>3 DEF AppendParts
<1>5. Leads(together, P, m, P)
  BY <1>3 DEF Leads, Message
<1>6. Runs(together, <<m>>, P, P)
  BY <1>1, <1>5, RunsOne
<1>7. Runs(together, <<>>, P, P)
  BY <1>1, RunsNone
<1> QED
  BY <1>4, <1>6, <1>7

LEMMA OneToOpenAIRuns ==
  ASSUME NEW D, 0 \in D, NEW m \in Messages(Marks, D), NEW P \in Waits, NEW Q \in Waits,
         NEW together, together = TRUE, NEW apart, apart = FALSE, Leads(together, P, m, Q)
  PROVE  Runs(apart, OneToOpenAI(m), P, Q)
<1>1. PICK parts, role : parts = m.parts /\ role = m.role
  OBVIOUS
<1>2. parts \in PartLists(Marks, D) /\ role \in Roles
  BY <1>1 DEF Messages
<1>3. CASE role = "assistant"
  <2>1. P = {} /\ Q = Calls(parts)
    BY <1>1, <1>3 DEF Leads
  <2>2. OneToOpenAI(m) = AssistantToOpenAI(parts)
    BY <1>1, <1>3 DEF OneToOpenAI
  <2>3. Runs(apart, AssistantToOpenAI(parts), P, Q)
    BY <1>2, <2>1, AssistantRuns
  <2> QED
    BY <2>2, <2>3
<1>4. CASE role = "system"
  <2>1. P = {} /\ Q = P
    BY <1>1, <1>4 DEF Leads
  <2>2. OneToOpenAI(m) = SystemOf(<<m>>)
    BY <1>1, <1>4 DEF OneToOpenAI
  <2> QED
    BY <2>1, <2>2, SystemRuns
<1>5. CASE role = "tool"
  BY <1>1, <1>5 DEF Leads
<1>6. CASE role = "user"
  <2>1. Q = {} /\ Tidy(parts, P)
    BY <1>1, <1>6 DEF Leads
  <2>2. OneToOpenAI(m) = UserToOpenAI(parts)
    BY <1>1, <1>6 DEF OneToOpenAI
  <2>3. Runs(apart, UserToOpenAI(parts), P, Q)
    BY <1>2, <2>1, UserRuns
  <2> QED
    BY <2>2, <2>3
<1> QED
  BY <1>2, <1>3, <1>4, <1>5, <1>6 DEF Roles

LEMMA ToOpenAIRuns ==
  ASSUME NEW D, 0 \in D, NEW ms \in MessageLists(Marks, D), NEW P \in Waits, NEW Q,
         NEW together, together = TRUE, NEW apart, apart = FALSE, Runs(together, ms, P, Q)
  PROVE  Runs(apart, ToOpenAI(ms), P, Q)
<1> DEFINE Y == Messages(Marks, D)
           ss == [i \in DOMAIN ms |-> OneToOpenAI(ms[i])]
           n == Len(ms)
<1>1. DOMAIN ms = 1..n /\ n \in Nat /\ \A i \in DOMAIN ms : ms[i] \in Y
  BY DEF MessageLists
<1>2. \A i \in DOMAIN ms : OneToOpenAI(ms[i]) \in Seq(Y)
  BY <1>1, OneToOpenAIType DEF MessageLists
<1>3. ss \in Seq(Seq(Y)) /\ Len(ss) = n /\ \A i \in 1..n : ss[i] = OneToOpenAI(ms[i])
  BY <1>1, <1>2
<1>4. ToOpenAI(ms) = FlattenSeq(ss)
  BY DEF ToOpenAI, OneToOpenAI
<1> HIDE DEF ss, Y, n
<1>5. PICK f \in [0..n -> Seq(Y)] : f[0] = <<>> /\ FlattenSeq(ss) = f[n] /\ \A i \in 1..n : f[i] = f[i - 1] \o ss[i]
  BY <1>3, FlattenTable
<1>6. PICK h \in [0..n -> Waits] : h[0] = P /\ h[n] = Q /\ Steps(together, ms, h)
  BY DEF Runs, n
<1>7. \A i \in 1..n : Leads(together, h[i - 1], ms[i], h[i])
  BY <1>6 DEF Steps, n
<1> DEFINE T == {i \in 0..n : Runs(apart, f[i], P, h[i])}
           id == [i \in 0..n |-> i]
<1>8. id[0] \in T
  <2>1. 0 \in 0..n
    BY <1>1
  <2>2. Runs(apart, <<>>, P, P)
    BY RunsNone
  <2> QED
    BY <1>5, <1>6, <2>1, <2>2
<1>9. ASSUME NEW i \in 1..n, id[i - 1] \in T PROVE id[i] \in T
  <2>1. i - 1 \in 0..n /\ i \in 0..n /\ i \in DOMAIN ms
    BY <1>1
  <2>2. id[i - 1] = i - 1 /\ id[i] = i
    BY <2>1
  <2>3. PICK a, b, m, A, B : a = f[i - 1] /\ b = ss[i] /\ m = ms[i] /\ A = h[i - 1] /\ B = h[i]
    OBVIOUS
  <2>4. a \in Seq(Y) /\ b \in Seq(Y) /\ m \in Y /\ A \in Waits /\ B \in Waits /\ b = OneToOpenAI(m)
        /\ Runs(apart, a, P, A) /\ Leads(together, A, m, B) /\ f[i] = a \o b
    BY <1>1, <1>2, <1>3, <1>5, <1>6, <1>7, <1>9, <2>1, <2>2, <2>3
  <2>5. Runs(apart, b, A, B)
    BY <2>4, OneToOpenAIRuns DEF Y
  <2>6. Runs(apart, a \o b, P, B)
    BY <2>4, <2>5, RunsJoin
  <2> QED
    BY <2>1, <2>2, <2>3, <2>4, <2>6
<1> HIDE DEF T, id
<1>10. \A i \in 0..n : id[i] \in T
  BY <1>1, <1>8, <1>9, Climbs
<1>11. n \in 0..n /\ id[n] = n
  BY <1>1 DEF id
<1> QED
  BY <1>4, <1>5, <1>6, <1>10, <1>11 DEF T

-----------------------------------------------------------------------------
\* Redaction changes neither kinds nor ids.

LEMMA TidySame ==
  ASSUME NEW Y, NEW parts \in Seq(Y), NEW Z, NEW others \in Seq(Z), SameParts(parts, others),
         NEW P \in Waits, Tidy(parts, P)
  PROVE  Tidy(others, P)
<1>1. PICK k : k = Cardinality(P)
  OBVIOUS
<1>2. /\ k \in Nat /\ Len(parts) = Len(others) /\ Len(parts) \in Nat /\ k <= Len(parts)
      /\ \A i \in 1..Len(parts) : parts[i].kind = others[i].kind /\ parts[i].id = others[i].id
  BY <1>1, WaitsFacts DEF Tidy, SameParts
<1>3. \A i \in 1..k : i \in 1..Len(parts)
  BY <1>2
<1>4. \A i \in k + 1..Len(parts) : i \in 1..Len(parts)
  BY <1>2
<1>5. /\ \A i \in 1..k : parts[i].kind = "result" /\ parts[i].id \in P
      /\ \A x \in P : \E i \in 1..k : parts[i].id = x
      /\ \A i, j \in 1..k : parts[i].id = parts[j].id => i = j
      /\ \A i \in k + 1..Len(parts) : parts[i].kind \notin {"call", "result"}
  BY <1>1 DEF Tidy
<1>6. k <= Len(others) /\ \A i \in k + 1..Len(others) : others[i].kind \notin {"call", "result"}
  BY <1>2, <1>4, <1>5
<1>7. /\ \A i \in 1..k : others[i].kind = "result" /\ others[i].id \in P
      /\ \A i, j \in 1..k : others[i].id = others[j].id => i = j
  BY <1>2, <1>3, <1>5
<1>8. ASSUME NEW x \in P PROVE \E i \in 1..k : others[i].id = x
  <2>1. PICK i \in 1..k : parts[i].id = x
    BY <1>5
  <2> QED
    BY <1>2, <1>3, <2>1
<1> QED
  BY <1>1, <1>6, <1>7, <1>8 DEF Tidy

LEMMA LeadsSame ==
  ASSUME NEW Y, NEW m, m.parts \in Seq(Y), NEW Z, NEW o, o.parts \in Seq(Z), m.role = o.role,
         SameParts(m.parts, o.parts), NEW P \in Waits, NEW Q, NEW together, Leads(together, P, m, Q)
  PROVE  Leads(together, P, o, Q)
<1>1. PICK parts, others, role : parts = m.parts /\ others = o.parts /\ role = m.role
  OBVIOUS
<1>2. parts \in Seq(Y) /\ others \in Seq(Z) /\ SameParts(parts, others) /\ role = o.role
  BY <1>1
<1>3. CASE role = "assistant"
  <2>1. Calls(parts) = Calls(others)
    BY <1>2, IdsSame DEF Calls
  <2>2. P = {} /\ Q = Calls(parts)
    BY <1>1, <1>3 DEF Leads
  <2> QED
    BY <1>1, <1>2, <1>3, <2>1, <2>2 DEF Leads
<1>4. CASE role = "tool"
  <2>1. /\ ~together /\ Len(parts) = 1 /\ parts[1].kind = "result" /\ parts[1].id \in P
        /\ Q = P \ {parts[1].id}
    BY <1>1, <1>4 DEF Leads
  <2>2. Len(others) = 1 /\ parts[1].kind = others[1].kind /\ parts[1].id = others[1].id
    BY <1>2, <2>1 DEF SameParts
  <2> QED
    BY <1>1, <1>2, <1>4, <2>1, <2>2 DEF Leads
<1>5. CASE role = "system"
  BY <1>1, <1>2, <1>5 DEF Leads
<1>6. CASE role \notin {"assistant", "tool", "system"}
  <2>1. Q = {} /\ (together \/ P = {}) /\ Tidy(parts, P)
    BY <1>1, <1>6 DEF Leads
  <2>2. Tidy(others, P)
    BY <1>2, <2>1, TidySame
  <2> QED
    BY <1>1, <1>2, <1>6, <2>1, <2>2 DEF Leads
<1> QED
  BY <1>3, <1>4, <1>5, <1>6

LEMMA RedactPartsSame ==
  ASSUME NEW p, NEW side, NEW D, NEW parts \in PartLists(Marks, D)
  PROVE  SameParts(parts, RedactParts(p, side, parts)) /\ RedactParts(p, side, parts) \in Seq(Range(RedactParts(p, side, parts)))
<1>1. \A i \in DOMAIN parts : parts[i] \in Parts(Marks, D)
  BY DEF PartLists
<1>2. \A text : \A q \in Parts(Marks, D) :
        [q EXCEPT !.text = text].kind = q.kind /\ [q EXCEPT !.text = text].id = q.id
  BY DEF Parts
<1>3. PICK others : others = RedactParts(p, side, parts)
  OBVIOUS
<1>4. /\ DOMAIN others = DOMAIN parts
      /\ \A i \in DOMAIN parts :
           others[i] = [parts[i] EXCEPT !.text = RedactText(p, ActionOf(p, side), parts[i].text)]
      /\ others = [i \in DOMAIN parts |-> others[i]]
  BY <1>3 DEF RedactParts
<1>5. SameParts(parts, others)
  <2>1. ASSUME NEW i \in DOMAIN parts PROVE parts[i].kind = others[i].kind /\ parts[i].id = others[i].id
    <3>1. PICK q, o, text : q = parts[i] /\ o = others[i] /\ text = RedactText(p, ActionOf(p, side), parts[i].text)
      OBVIOUS
    <3>2. q \in Parts(Marks, D) /\ o = [q EXCEPT !.text = text]
      BY <1>1, <1>4, <3>1
    <3> QED
      BY <1>2, <3>1, <3>2
  <2> QED
    BY <1>4, <2>1 DEF SameParts
<1>6. DOMAIN parts = 1..Len(parts) /\ Len(parts) \in Nat
  BY DEF PartLists
<1>7. others \in Seq(Range(others))
  BY <1>4, <1>6 DEF Range
<1> QED
  BY <1>3, <1>5, <1>7

LEMMA RedactedRuns ==
  ASSUME NEW p, NEW side, NEW D, NEW ms \in MessageLists(Marks, D), NEW together, NEW P, NEW Q,
         Runs(together, ms, P, Q)
  PROVE  Runs(together, Redacted(p, side, ms), P, Q)
<1>1. PICK all : all = Redacted(p, side, ms)
  OBVIOUS
<1>2. /\ DOMAIN ms = 1..Len(ms) /\ Len(ms) \in Nat /\ \A i \in DOMAIN ms : ms[i] \in Messages(Marks, D)
  BY DEF MessageLists
<1>3. /\ DOMAIN all = DOMAIN ms /\ all = [i \in DOMAIN ms |-> all[i]]
      /\ \A i \in DOMAIN ms : all[i] = [ms[i] EXCEPT !.parts = RedactParts(p, side, ms[i].parts)]
  BY <1>1 DEF Redacted
<1>4. Len(all) = Len(ms)
  BY <1>2, <1>3
<1>5. PICK h \in [0..Len(ms) -> Waits] : h[0] = P /\ h[Len(ms)] = Q /\ Steps(together, ms, h)
  BY DEF Runs
<1>6. ASSUME NEW i \in 1..Len(ms) PROVE Leads(together, h[i - 1], all[i], h[i])
  <2>1. PICK m, o, A, B : m = ms[i] /\ o = all[i] /\ A = h[i - 1] /\ B = h[i]
    OBVIOUS
  <2>2. i - 1 \in 0..Len(ms) /\ i \in DOMAIN ms
    BY <1>2
  <2>3. m \in Messages(Marks, D) /\ A \in Waits /\ Leads(together, A, m, B)
    BY <1>2, <1>5, <2>1, <2>2 DEF Steps
  <2>4. o = [m EXCEPT !.parts = RedactParts(p, side, m.parts)]
    BY <1>3, <2>1, <2>2
  <2>5. o.role = m.role /\ o.parts = RedactParts(p, side, m.parts) /\ m.parts \in PartLists(Marks, D)
    BY <2>3, <2>4 DEF Messages
  <2>6. SameParts(m.parts, o.parts) /\ o.parts \in Seq(Range(o.parts)) /\ m.parts \in Seq(Parts(Marks, D))
    BY <2>5, RedactPartsSame DEF PartLists
  <2>7. Leads(together, A, o, B)
    BY <2>3, <2>5, <2>6, LeadsSame
  <2> QED
    BY <2>1, <2>7
<1>7. Steps(together, all, h)
  BY <1>4, <1>6 DEF Steps
<1> QED
  BY <1>1, <1>4, <1>5, <1>7 DEF Runs

-----------------------------------------------------------------------------
\* Turns are what is left without the system's messages.

TurnsOnly(ms) == Where(ms, LAMBDA m : m.role # "system")
NoSystem(ms) == \A i \in DOMAIN ms : ms[i].role # "system"

LEMMA TurnsOnlyFacts ==
  ASSUME NEW D, NEW ms \in MessageLists(Marks, D), NEW together, NEW P \in Waits, NEW Q
  PROVE  /\ TurnsOnly(ms) \in MessageLists(Marks, D) /\ NoSystem(TurnsOnly(ms))
         /\ Runs(together, ms, P, Q) => Runs(together, TurnsOnly(ms), P, Q)
<1> DEFINE Y == Messages(Marks, D)
           ss == [i \in DOMAIN ms |-> IF ms[i].role # "system" THEN <<ms[i]>> ELSE <<>>]
           n == Len(ms)
<1>1. DOMAIN ms = 1..n /\ n \in Nat /\ \A i \in DOMAIN ms : ms[i] \in Y
  BY DEF MessageLists
<1>2. ss \in Seq(Seq(Y)) /\ Len(ss) = n
      /\ \A i \in 1..n : ss[i] = IF ms[i].role # "system" THEN <<ms[i]>> ELSE <<>>
  BY <1>1
<1>3. TurnsOnly(ms) = FlattenSeq(ss)
  BY DEF TurnsOnly, Where
<1> HIDE DEF ss, Y, n
<1>4. PICK f \in [0..n -> Seq(Y)] : f[0] = <<>> /\ FlattenSeq(ss) = f[n] /\ \A i \in 1..n : f[i] = f[i - 1] \o ss[i]
  BY <1>2, FlattenTable
<1>5. TurnsOnly(ms) \in MessageLists(Marks, D)
  BY <1>1, <1>3, <1>4 DEF MessageLists, Y
<1>6. NoSystem(TurnsOnly(ms))
  <2> SUFFICES ASSUME NEW x, Among(x, FlattenSeq(ss)) PROVE x.role # "system"
    BY <1>3 DEF NoSystem, Among
  <2>1. PICK i \in DOMAIN ss : Among(x, ss[i])
    BY <1>2, AmongFlat
  <2>2. i \in 1..n
    BY <1>2
  <2>3. ms[i].role # "system" /\ ss[i] = <<ms[i]>>
    BY <1>2, <2>1, <2>2 DEF Among
  <2>4. x = ms[i]
    BY <2>1, <2>3 DEF Among
  <2> QED
    BY <2>3, <2>4
<1>7. ASSUME Runs(together, ms, P, Q) PROVE Runs(together, TurnsOnly(ms), P, Q)
  <2>1. PICK h \in [0..n -> Waits] : h[0] = P /\ h[n] = Q /\ Steps(together, ms, h)
    BY <1>7 DEF Runs, n
  <2>2. \A i \in 1..n : Leads(together, h[i - 1], ms[i], h[i])
    BY <2>1 DEF Steps, n
  <2> DEFINE T == {i \in 0..n : Runs(together, f[i], P, h[i])}
             id == [i \in 0..n |-> i]
  <2>3. id[0] \in T
    <3>1. 0 \in 0..n
      BY <1>1
    <3>2. Runs(together, <<>>, P, P)
      BY RunsNone
    <3> QED
      BY <1>4, <2>1, <3>1, <3>2
  <2>4. ASSUME NEW i \in 1..n, id[i - 1] \in T PROVE id[i] \in T
    <3>1. i - 1 \in 0..n /\ i \in 0..n /\ i \in DOMAIN ms
      BY <1>1
    <3>2. id[i - 1] = i - 1 /\ id[i] = i
      BY <3>1
    <3>3. PICK a, m, A, B, new : a = f[i - 1] /\ m = ms[i] /\ A = h[i - 1] /\ B = h[i] /\ new = ss[i]
      OBVIOUS
    <3>4. a \in Seq(Y) /\ m \in Y /\ A \in Waits /\ B \in Waits
          /\ Runs(together, a, P, A) /\ Leads(together, A, m, B) /\ f[i] = a \o new
          /\ new = IF m.role # "system" THEN <<m>> ELSE <<>>
      BY <1>1, <1>2, <1>4, <2>1, <2>2, <2>4, <3>1, <3>2, <3>3
    <3>5. CASE m.role = "system"
      <4>1. A = B /\ f[i] = a
        BY <3>4, <3>5, ConcatEmptySeq DEF Leads
      <4> QED
        BY <3>1, <3>2, <3>3, <3>4, <4>1
    <3>6. CASE m.role # "system"
      <4>1. f[i] = Append(a, m)
        BY <3>4, <3>6, AppendIsConcat
      <4>2. Runs(together, Append(a, m), P, B)
        BY <3>4, RunsAppend
      <4> QED
        BY <3>1, <3>2, <3>3, <4>1, <4>2
    <3> QED
      BY <3>5, <3>6
  <2> HIDE DEF T, id
  <2>5. \A i \in 0..n : id[i] \in T
    BY <1>1, <2>3, <2>4, Climbs
  <2>6. n \in 0..n /\ id[n] = n
    BY <1>1 DEF id
  <2> QED
    BY <1>3, <1>4, <2>1, <2>5, <2>6 DEF T
<1> QED
  BY <1>5, <1>6, <1>7

\* The turns of a translated request.
LEMMA TurnsOfTranslated ==
  ASSUME NEW D, 0 \in D, NEW ms \in MessageLists(Marks, D), NEW turns \in MessageLists(Marks, D), NoSystem(turns)
  PROVE  TurnsOnly(SystemOf(ms) \o turns) = turns
BY TurnsAfterSystem DEF TurnsOnly, NoSystem

\* What CallsAnswered says of turns: apart is what OpenAI's protocol has.
After(turns, apart, i, k) ==
  IF apart THEN AllParts(SubSeq(turns, i + 1, i + k))
  ELSE IF i < Len(turns) THEN turns[i + 1].parts ELSE <<>>
Fits(turns, apart) ==
  \A i \in DOMAIN turns :
    LET calls == Calls(turns[i].parts)
        after == After(turns, apart, i, Cardinality(calls))
    IN  calls # {} => /\ 0 \notin calls
                      /\ Cardinality(calls) <= Len(after)
                      /\ Results(SubSeq(after, 1, Cardinality(calls))) = calls

LEMMA SettledFits ==
  ASSUME NEW Y, NEW turns \in Seq(Y), NEW C, C = {}, Settled(turns, C), NEW apart, apart = FALSE
  PROVE  Fits(turns, apart)
<1> SUFFICES ASSUME NEW i \in DOMAIN turns, NEW calls, calls = Calls(turns[i].parts), calls # {},
                    NEW after, after = After(turns, apart, i, Cardinality(calls))
             PROVE  /\ 0 \notin calls
                    /\ Cardinality(calls) <= Len(after)
                    /\ Results(SubSeq(after, 1, Cardinality(calls))) = calls
  BY DEF Fits
<1>1. i \in 1..Len(turns) /\ Len(turns) \in Nat
  OBVIOUS
<1>2. calls \in Waits
  BY <1>1 DEF Settled
<1>3. i # Len(turns)
  BY <1>1 DEF Settled
<1>4. i \in 1..Len(turns) - 1 /\ i < Len(turns)
  BY <1>1, <1>3
<1>5. Settles(turns[i + 1].parts, calls) /\ after = turns[i + 1].parts
  BY <1>4 DEF Settled, After
<1> QED
  BY <1>2, <1>5, WaitsFacts DEF Settles

\* Turns as a client of Anthropic's protocol sends them.
LEMMA RunsSettled ==
  ASSUME NEW D, NEW turns \in MessageLists(Marks, D), NoSystem(turns), NEW P, P = {},
         NEW together, together = TRUE, Runs(together, turns, P, P)
  PROVE  Settled(turns, P)
<1> DEFINE n == Len(turns)
<1>1. DOMAIN turns = 1..n /\ n \in Nat /\ \A i \in 1..n : turns[i] \in Messages(Marks, D)
  BY DEF MessageLists
<1>2. PICK h \in [0..n -> Waits] : h[0] = P /\ h[n] = P /\ Steps(together, turns, h)
  BY DEF Runs
<1> HIDE DEF n
<1>3. ASSUME NEW i \in 1..n
      PROVE  Settles(turns[i].parts, h[i - 1]) /\ h[i] = Calls(turns[i].parts) /\ turns[i].role # "system"
  <2>1. PICK parts, role, A, B : parts = turns[i].parts /\ role = turns[i].role /\ A = h[i - 1] /\ B = h[i]
    OBVIOUS
  <2>2. i - 1 \in 0..n /\ i \in 0..n
    BY <1>1
  <2>3. parts \in Seq(Parts(Marks, D)) /\ role \in Roles \ {"system"} /\ A \in Waits /\ B \in Waits
    BY <1>1, <1>2, <2>1, <2>2 DEF Messages, NoSystem, PartLists
  <2>4. Leads(together, A, turns[i], B)
    BY <1>2, <2>1 DEF Steps, n
  <2>5. CASE role = "assistant"
    <3>1. A = {} /\ B = Calls(parts)
      BY <2>1, <2>4, <2>5 DEF Leads
    <3>2. Settles(parts, A)
      BY <2>3, <3>1, SettlesNone
    <3> QED
      BY <2>1, <2>3, <3>1, <3>2
  <2>6. CASE role # "assistant"
    <3>1. B = {} /\ Tidy(parts, A)
      BY <2>1, <2>3, <2>4, <2>6 DEF Leads
    <3>2. Settles(parts, A) /\ Calls(parts) = {}
      BY <2>3, <3>1, SettlesTidy
    <3> QED
      BY <2>1, <2>3, <3>1, <3>2
  <2> QED
    BY <2>5, <2>6
<1>4. \A i \in 1..n : turns[i].role # "system" /\ Calls(turns[i].parts) \in Waits
  <2> TAKE i \in 1..n
  <2>1. i \in 0..n
    OBVIOUS
  <2> QED
    BY <1>2, <1>3, <2>1
<1>5. ASSUME NEW i \in 1..n - 1 PROVE Settles(turns[i + 1].parts, Calls(turns[i].parts))
  <2>1. PICK j : j = i + 1
    OBVIOUS
  <2>2. j \in 1..n /\ i \in 1..n /\ j - 1 = i
    BY <1>1, <2>1
  <2>3. Settles(turns[j].parts, h[j - 1]) /\ h[i] = Calls(turns[i].parts)
    BY <1>3, <2>2
  <2> QED
    BY <2>1, <2>2, <2>3
<1>6. turns # <<>> => n \in 1..n
  BY <1>1 DEF n
<1>7. P = IF turns = <<>> THEN {} ELSE Calls(turns[n].parts)
  BY <1>2, <1>3, <1>6
<1> QED
  BY <1>4, <1>5, <1>7 DEF Settled, n

-----------------------------------------------------------------------------
\* Turns of OpenAI's protocol: the calls are answered one message at a time.

LEMMA SingleParts ==
  ASSUME NEW Y, NEW s \in Seq(Y), NEW Z,
         \A l \in DOMAIN s : s[l].parts \in Seq(Z) /\ Len(s[l].parts) = 1
  PROVE  AllParts(s) = [l \in DOMAIN s |-> s[l].parts[1]]
<1> DEFINE A == [m \in Y |-> m.parts]
           g == [m \in Y |-> m.parts[1]]
           S == {g[y] : y \in Y}
<1>1. DOMAIN g = Y /\ Singles(g) \in Maps(Y, S) /\ \A y \in Y : Singles(g)[y] = <<y.parts[1]>>
  BY DEF Singles, Maps
<1>2. \A l \in DOMAIN s : s[l] \in Y
  OBVIOUS
<1>3. AllParts(s) = Flat(A, s)
  <2>1. \A l \in DOMAIN s : A[s[l]] = s[l].parts
    BY <1>2
  <2> HIDE DEF A
  <2> QED
    BY <2>1 DEF AllParts, Flat, Mapped
<1>4. \A l \in DOMAIN s : A[s[l]] = Singles(g)[s[l]]
  <2> TAKE l \in DOMAIN s
  <2>1. PICK m : m = s[l]
    OBVIOUS
  <2>2. m \in Y /\ m.parts \in Seq(Z) /\ Len(m.parts) = 1
    BY <1>2, <2>1
  <2>3. m.parts = <<m.parts[1]>>
    BY <2>2
  <2>4. A[m] = m.parts /\ Singles(g)[m] = <<m.parts[1]>>
    BY <1>1, <2>2
  <2> QED
    BY <2>1, <2>3, <2>4
<1>5. \A l \in DOMAIN s : g[s[l]] = s[l].parts[1]
  BY <1>2
<1> HIDE DEF A, g, S
<1>6. Flat(A, s) = Flat(Singles(g), s)
  BY <1>4, FlatSame
<1>7. Flat(Singles(g), s) = [l \in DOMAIN s |-> g[s[l]]]
  BY <1>1, FlatSingles
<1> QED
  BY <1>3, <1>5, <1>6, <1>7

\* The first j messages after the one that calls have answered each another call.
Answering(turns, h, i, calls, j) ==
  /\ i + j <= Len(turns) /\ h[i + j] \subseteq calls /\ Cardinality(h[i + j]) = Cardinality(calls) - j
  /\ \A l \in 1..j : Len(turns[i + l].parts) = 1 /\ turns[i + l].parts[1].kind = "result"
  /\ {turns[i + l].parts[1].id : l \in 1..j} = calls \ h[i + j]

LEMMA AnsweringMore ==
  ASSUME NEW D, NEW turns \in MessageLists(Marks, D), NoSystem(turns), NEW apart, apart = FALSE,
         NEW h \in [0..Len(turns) -> Waits], h[Len(turns)] = {}, Steps(apart, turns, h),
         NEW i \in 1..Len(turns), NEW calls \in Waits, NEW j \in 1..Cardinality(calls),
         Answering(turns, h, i, calls, j - 1)
  PROVE  Answering(turns, h, i, calls, j)
<1>1. PICK k, n, c, e : k = Cardinality(calls) /\ n = Len(turns) /\ c = i + (j - 1) /\ e = i + j
  OBVIOUS
<1>2. k \in Nat /\ n \in Nat /\ i \in Nat /\ j \in Nat /\ j <= k /\ 1 <= j /\ e = c + 1 /\ c \in Nat /\ e - 1 = c
  BY <1>1, WaitsFacts DEF MessageLists
<1>3. /\ c <= n /\ h[c] \subseteq calls /\ Cardinality(h[c]) = k - (j - 1)
      /\ \A l \in 1..j - 1 : Len(turns[i + l].parts) = 1 /\ turns[i + l].parts[1].kind = "result"
      /\ {turns[i + l].parts[1].id : l \in 1..j - 1} = calls \ h[c]
  BY <1>1 DEF Answering
<1>4. c \in 0..n /\ h[c] \in Waits
  BY <1>1, <1>2, <1>3
<1>5. h[c] # {}
  <2>1. Cardinality(h[c]) # 0
    BY <1>2, <1>3
  <2> QED
    BY <2>1, FS_EmptySet
<1>6. e \in 1..n /\ e \in 0..n
  <2>1. c # n
    BY <1>1, <1>5
  <2> QED
    BY <1>2, <1>3, <2>1
<1>7. PICK m, A, B, p : m = turns[e] /\ A = h[c] /\ B = h[e] /\ p = m.parts[1]
  OBVIOUS
<1>8. Leads(apart, A, m, B) /\ m.role # "system"
  BY <1>1, <1>2, <1>6, <1>7 DEF Steps, NoSystem
<1>9. Len(m.parts) = 1 /\ p.kind = "result" /\ p.id \in A /\ B = A \ {p.id}
  <2>1. A # {}
    BY <1>5, <1>7
  <2> QED
    BY <1>7, <1>8, <2>1 DEF Leads
<1>10. Cardinality(B) = k - j
  <2>1. IsFiniteSet(A) /\ Cardinality(A) = k - (j - 1)
    BY <1>3, <1>4, <1>7, WaitsFacts
  <2>2. Cardinality(A \ {p.id}) = Cardinality(A) - 1
    BY <1>9, <2>1, FS_RemoveElement
  <2> QED
    BY <1>2, <1>9, <2>1, <2>2
<1>11. \A l \in 1..j : l \in 1..j - 1 \/ l = j
  BY <1>2
<1>12. {turns[i + l].parts[1].id : l \in 1..j} = {turns[i + l].parts[1].id : l \in 1..j - 1} \cup {p.id}
  <2>1. \A l : l \in 1..j <=> l \in 1..j - 1 \/ l = j
    BY <1>2
  <2>2. turns[i + j].parts[1].id = p.id
    BY <1>1, <1>7
  <2> QED
    BY <2>1, <2>2
<1>13. {turns[i + l].parts[1].id : l \in 1..j} = calls \ B
  BY <1>3, <1>7, <1>9, <1>12
<1>14. B \subseteq calls
  BY <1>3, <1>7, <1>9
<1>15. \A l \in 1..j : Len(turns[i + l].parts) = 1 /\ turns[i + l].parts[1].kind = "result"
  BY <1>1, <1>3, <1>7, <1>9, <1>11
<1>16. i + j <= Len(turns)
  BY <1>1, <1>6
<1> QED
  BY <1>1, <1>7, <1>10, <1>13, <1>14, <1>15, <1>16 DEF Answering

LEMMA RunsFit ==
  ASSUME NEW D, NEW turns \in MessageLists(Marks, D), NoSystem(turns), NEW P, P = {},
         NEW together, together = FALSE, NEW apart, apart = TRUE, Runs(together, turns, P, P)
  PROVE  Fits(turns, apart)
<1> DEFINE n == Len(turns)
<1>1. DOMAIN turns = 1..n /\ n \in Nat /\ \A i \in 1..n : turns[i] \in Messages(Marks, D)
  BY DEF MessageLists
<1>2. PICK h \in [0..n -> Waits] : h[0] = P /\ h[n] = P /\ Steps(together, turns, h)
  BY DEF Runs
<1> SUFFICES ASSUME NEW i \in DOMAIN turns, NEW calls, calls = Calls(turns[i].parts), calls # {},
                    NEW k, k = Cardinality(calls), NEW after, after = AllParts(SubSeq(turns, i + 1, i + k))
             PROVE  0 \notin calls /\ k <= Len(after) /\ Results(SubSeq(after, 1, k)) = calls
  BY DEF Fits, After
<1>3. i \in 1..n /\ i \in 0..n /\ i - 1 \in 0..n
  BY <1>1
<1>4. h[i] = calls
  <2>1. PICK m, A, B, parts : m = turns[i] /\ A = h[i - 1] /\ B = h[i] /\ parts = m.parts
    OBVIOUS
  <2>2. Leads(together, A, m, B) /\ m.role # "system" /\ m.role \in Roles /\ parts \in Seq(Parts(Marks, D))
    BY <1>1, <1>2, <1>3, <2>1 DEF Steps, NoSystem, Messages, PartLists
  <2>3. CASE m.role = "assistant"
    BY <2>1, <2>2, <2>3 DEF Leads
  <2>4. CASE m.role = "tool"
    <3>1. Len(parts) = 1 /\ parts[1].kind = "result"
      BY <2>1, <2>2, <2>4 DEF Leads
    <3>2. \A l \in DOMAIN parts : parts[l].kind # "call"
      BY <2>2, <3>1
    <3>3. Calls(parts) = {}
      BY <3>2 DEF Calls, Ids
    <3> QED
      BY <2>1, <3>3
  <2>5. CASE m.role = "user"
    <3>1. A = {} /\ Tidy(parts, A)
      BY <2>1, <2>2, <2>5 DEF Leads
    <3>2. Calls(parts) = {}
      BY <2>2, <3>1, TidyBare, BareIds
    <3> QED
      BY <2>1, <3>2
  <2> QED
    BY <2>2, <2>3, <2>4, <2>5 DEF Roles
<1>5. calls \in Waits /\ k \in Nat /\ 0 \notin calls
  BY <1>2, <1>3, <1>4, WaitsFacts
<1> DEFINE T == {j \in 0..k : Answering(turns, h, i, calls, j)}
           id == [j \in 0..k |-> j]
<1>6. id[0] \in T
  <2>1. 0 \in 0..k /\ i + 0 = i /\ i <= n /\ k - 0 = k
    BY <1>1, <1>3, <1>5
  <2>2. {turns[i + l].parts[1].id : l \in 1..0} = {} /\ \A l \in 1..0 : FALSE
    OBVIOUS
  <2>3. Answering(turns, h, i, calls, 0)
    BY <1>4, <2>1, <2>2 DEF Answering
  <2> QED
    BY <2>1, <2>3
<1>7. ASSUME NEW j \in 1..k, id[j - 1] \in T PROVE id[j] \in T
  <2>1. j - 1 \in 0..k /\ j \in 0..k
    BY <1>5
  <2>2. id[j - 1] = j - 1 /\ id[j] = j
    BY <2>1
  <2>3. Answering(turns, h, i, calls, j - 1)
    BY <1>7, <2>2
  <2>4. Answering(turns, h, i, calls, j)
    BY <1>2, <1>3, <1>5, <2>3, AnsweringMore
  <2> QED
    BY <2>1, <2>2, <2>4
<1> HIDE DEF T, id
<1>8. \A j \in 0..k : id[j] \in T
  BY <1>5, <1>6, <1>7, Climbs
<1>9. Answering(turns, h, i, calls, k)
  <2>1. k \in 0..k /\ id[k] = k
    BY <1>5 DEF id
  <2> QED
    BY <1>8, <2>1 DEF T
<1>10. /\ i + k <= n /\ h[i + k] \subseteq calls /\ Cardinality(h[i + k]) = k - k
       /\ \A l \in 1..k : Len(turns[i + l].parts) = 1 /\ turns[i + l].parts[1].kind = "result"
       /\ {turns[i + l].parts[1].id : l \in 1..k} = calls \ h[i + k]
  BY <1>9 DEF Answering
<1>11. {turns[i + l].parts[1].id : l \in 1..k} = calls
  <2>1. PICK rest : rest = h[i + k]
    OBVIOUS
  <2>2. i + k \in 0..n
    BY <1>3, <1>5, <1>10
  <2>3. IsFiniteSet(rest) /\ Cardinality(rest) = 0
    BY <1>2, <1>5, <1>10, <2>1, <2>2, WaitsFacts
  <2>4. rest = {}
    BY <2>3, FS_EmptySet
  <2> QED
    BY <1>10, <2>1, <2>4
<1>12. PICK s : s = SubSeq(turns, i + 1, i + k)
  OBVIOUS
<1>13. s \in Seq(Messages(Marks, D)) /\ Len(s) = k /\ DOMAIN s = 1..k /\ \A l \in 1..k : s[l] = turns[i + l]
  <2>1. turns \in Seq(Messages(Marks, D)) /\ i \in Nat
    BY <1>3 DEF MessageLists
  <2>2. PICK a, b : a = i + 1 /\ b = i + k
    OBVIOUS
  <2>3. i \in Nat /\ k \in Nat /\ n \in Nat /\ 1 <= i /\ i + k <= n
    BY <1>1, <1>3, <1>5, <1>10
  <2>4. /\ a \in Int /\ b \in Int /\ (a <= b => b - a + 1 = k) /\ (~(a <= b) => k = 0)
        /\ \A l \in 1..k : a + l - 1 = i + l
    BY ONLY <2>2, <2>3
  <2>5. \A l \in a..b : l \in 1..n
    BY ONLY <2>2, <2>3
  <2>6. \A l \in a..b : turns[l] \in Messages(Marks, D)
    BY <1>1, <2>5
  <2>7. /\ SubSeq(turns, a, b) \in Seq(Messages(Marks, D))
        /\ Len(SubSeq(turns, a, b)) = IF a <= b THEN b - a + 1 ELSE 0
        /\ \A l \in 1..b - a + 1 : SubSeq(turns, a, b)[l] = turns[a + l - 1]
    BY <2>6, <2>4, SubSeqProperties
  <2>8. Len(s) = k /\ s \in Seq(Messages(Marks, D))
    BY <1>12, <2>2, <2>7, <2>4
  <2>9. ASSUME NEW l \in 1..k PROVE s[l] = turns[i + l]
    <3>1. a <= b /\ l \in 1..b - a + 1
      BY <2>3, <2>4
    <3> QED
      BY <1>12, <2>2, <2>7, <2>4, <3>1
  <2> QED
    BY <2>8, <2>9
<1>14. \A l \in DOMAIN s : s[l].parts \in Seq(Parts(Marks, D)) /\ Len(s[l].parts) = 1
  <2> TAKE l \in DOMAIN s
  <2>1. s[l] \in Messages(Marks, D) /\ Len(s[l].parts) = 1
    BY <1>10, <1>13
  <2> QED
    BY <2>1 DEF Messages, PartLists
<1>15. after = [l \in 1..k |-> s[l].parts[1]]
  BY <1>12, <1>13, <1>14, SingleParts
<1>16. \A l \in 1..k : after[l].kind = "result" /\ after[l].id = turns[i + l].parts[1].id
  BY <1>10, <1>13, <1>15
<1>17. Len(after) = k /\ DOMAIN after = 1..k /\ SubSeq(after, 1, k) = after
  <2>1. after \in Seq(Range(after)) /\ Len(after) = k
    BY <1>5, <1>15 DEF Range
  <2> QED
    BY <1>15, <2>1, SubSeqFull
<1>18. Results(after) = calls
  <2>1. Results(after) = {after[l].id : l \in 1..k}
    BY <1>16, <1>17 DEF Results, Ids
  <2>2. {after[l].id : l \in 1..k} = {turns[i + l].parts[1].id : l \in 1..k}
    <3> DEFINE f(l) == turns[i + l].parts[1].id
    <3>1. \A l \in 1..k : after[l].id = f(l)
      BY <1>16
    <3> HIDE DEF f
    <3>2. {after[l].id : l \in 1..k} = {f(l) : l \in 1..k}
      BY <3>1
    <3> QED
      BY <3>2 DEF f
  <2> QED
    BY <1>11, <2>1, <2>2
<1>19. k <= Len(after)
  BY <1>5, <1>17
<1> QED
  BY <1>5, <1>17, <1>18, <1>19

-----------------------------------------------------------------------------
\* The history, as far as calls and results go.

CallInv ==
  /\ Open \in Waits /\ Runs(client = "anthropic", history, {}, Open)
  /\ Ids(AllParts(history), "call") \cup Ids(AllParts(history), "result") \subseteq (0 - next)..next
  /\ phase = "asked" => Open = {}

\* A message that the history may be extended by.
Extends(m, bound) ==
  /\ (Open \cup Calls(m.parts)) \ Results(m.parts) \in Waits
  /\ Leads(client = "anthropic", Open, m, (Open \cup Calls(m.parts)) \ Results(m.parts))
  /\ Calls(m.parts) \cap Ids(AllParts(history), "result") = {}
  /\ Calls(m.parts) \cup Results(m.parts) \subseteq (0 - bound)..bound

LEMMA AllPartsAppend ==
  ASSUME NEW D, NEW ms \in MessageLists(Marks, D), NEW m \in Messages(Marks, D)
  PROVE  /\ AllParts(Append(ms, m)) = AllParts(ms) \o m.parts
         /\ AllParts(ms) \in PartLists(Marks, D) /\ m.parts \in PartLists(Marks, D)
<1> DEFINE Y == Messages(Marks, D)
           S == Parts(Marks, D)
           A == [x \in Y |-> x.parts]
<1>1. A \in Maps(Y, S) /\ m.parts \in PartLists(Marks, D) /\ A[m] = m.parts
  BY DEF Maps, Messages, PartLists
<1>2. ASSUME NEW s \in Seq(Y) PROVE AllParts(s) = Flat(A, s)
  <2>1. \A l \in DOMAIN s : A[s[l]] = s[l].parts
    OBVIOUS
  <2> HIDE DEF A
  <2> QED
    BY <2>1 DEF AllParts, Flat, Mapped
<1>3. ms \in Seq(Y) /\ m \in Y /\ Append(ms, m) \in Seq(Y)
  BY DEF MessageLists
<1> HIDE DEF Y, A, S
<1>4. Flat(A, Append(ms, m)) = Flat(A, ms) \o A[m] /\ Flat(A, ms) \in Seq(S)
  BY <1>1, <1>3, FlatAppend, FlatType
<1>5. AllParts(ms) \in PartLists(Marks, D)
  BY <1>2, <1>3, <1>4 DEF PartLists, S
<1>6. AllParts(Append(ms, m)) = AllParts(ms) \o m.parts
  BY <1>1, <1>2, <1>3, <1>4
<1> QED
  BY <1>1, <1>5, <1>6

LEMMA IdsAppend ==
  ASSUME NEW D, NEW ms \in MessageLists(Marks, D), NEW m \in Messages(Marks, D), NEW kind
  PROVE  Ids(AllParts(Append(ms, m)), kind) = Ids(AllParts(ms), kind) \cup Ids(m.parts, kind)
<1>1. PICK s, t : s = AllParts(ms) /\ t = m.parts
  OBVIOUS
<1>2. s \in Seq(Parts(Marks, D)) /\ t \in Seq(Parts(Marks, D)) /\ AllParts(Append(ms, m)) = s \o t
  BY <1>1, AllPartsAppend DEF PartLists
<1>3. Ids(s \o t, kind) = Ids(s, kind) \cup Ids(t, kind)
  BY <1>2, IdsMore
<1> QED
  BY <1>1, <1>2, <1>3

LEMMA CallsExtended ==
  ASSUME CallInv, next \in Nat, NEW D, history \in MessageLists(Marks, D), NEW m \in Messages(Marks, D),
         history' = Append(history, m), client' = client, next' \in Nat, next <= next', phase' # "asked",
         Extends(m, next')
  PROVE  CallInv'
<1>1. PICK C, R, A, B, Q, P, together :
        /\ C = Ids(AllParts(history), "call") /\ R = Ids(AllParts(history), "result") /\ P = Open
        /\ A = Calls(m.parts) /\ B = Results(m.parts) /\ Q = (P \cup A) \ B
        /\ together = (client = "anthropic")
  OBVIOUS
<1>2. P = C \ R
  BY <1>1 DEF Open
<1>3. Ids(AllParts(history'), "call") = C \cup A /\ Ids(AllParts(history'), "result") = R \cup B
  BY <1>1, IdsAppend DEF Calls, Results
<1>4. Open' = Ids(AllParts(history'), "call") \ Ids(AllParts(history'), "result")
  BY DEF Open, AllParts, Ids
<1>5. A \cap R = {} /\ A \cup B \subseteq (0 - next')..next' /\ Q \in Waits /\ Leads(together, P, m, Q)
  BY <1>1 DEF Extends
<1>6. Open' = Q
  BY <1>1, <1>2, <1>3, <1>4, <1>5
<1>7. C \cup R \subseteq (0 - next)..next /\ P \in Waits
  BY <1>1 DEF CallInv
<1>8. (C \cup A) \cup (R \cup B) \subseteq (0 - next')..next'
  <2>1. ASSUME NEW a \in Nat, NEW b \in Nat, a <= b, NEW x \in (0 - a)..a PROVE x \in (0 - b)..b
    BY ONLY <2>1
  <2> QED
    BY <1>5, <1>7, <2>1, Zenon
<1>9. PICK none : none = {}
  OBVIOUS
<1>10. Runs(together, history, none, P)
  BY <1>1, <1>9 DEF CallInv
<1>11. Runs(together, Append(history, m), none, Q)
  BY <1>5, <1>7, <1>10, RunsAppend DEF MessageLists
<1>12. Runs(together, history', none, Q)
  BY <1>11
<1>13. Runs(client = "anthropic", history, {}, Open)' <=> Runs(client' = "anthropic", history', {}, Open')
  BY DEF Runs, Steps, Leads, Tidy, Calls, Ids, Waits
<1>14. Runs(client = "anthropic", history, {}, Open)'
  BY <1>1, <1>6, <1>9, <1>12, <1>13
<1>15. Waits' = Waits
  BY DEF Waits
<1>16. (Ids(AllParts(history), "call") \cup Ids(AllParts(history), "result") \subseteq (0 - next)..next)'
  <2>1. Ids(AllParts(history), "call")' = Ids(AllParts(history'), "call") /\ Ids(AllParts(history), "result")' = Ids(AllParts(history'), "result")
    BY DEF Ids, AllParts
  <2> QED
    BY <1>3, <1>8, <2>1
<1> QED
  BY <1>5, <1>6, <1>14, <1>15, <1>16 DEF CallInv

LEMMA CallsInit == Init => CallInv
<1> SUFFICES ASSUME Init PROVE CallInv
  OBVIOUS
<1>1. history = <<>> /\ phase = "chat" /\ next = 1
  BY DEF Init
<1>2. AllParts(history) = <<>>
  <2>1. [i \in DOMAIN history |-> history[i].parts] = <<>>
    BY <1>1
  <2> QED
    BY <2>1, FlattenEmpty DEF AllParts
<1>3. Ids(AllParts(history), "call") = {} /\ Ids(AllParts(history), "result") = {} /\ Open = {}
  BY <1>2, IdsNone DEF Open
<1>4. PICK none, together : none = {} /\ together = (client = "anthropic")
  OBVIOUS
<1>5. none \in Waits
  BY <1>4, WaitsFacts
<1>6. Runs(together, <<>>, none, none)
  BY <1>5, RunsNone
<1> QED
  BY <1>1, <1>3, <1>4, <1>5, <1>6 DEF CallInv

LEMMA TidyResults ==
  ASSUME NEW Y, NEW parts \in Seq(Y), NEW P \in Waits, Tidy(parts, P)
  PROVE  Results(parts) = P
<1>1. PICK k : k = Cardinality(P)
  OBVIOUS
<1>2. /\ k \in Nat /\ k <= Len(parts) /\ Len(parts) \in Nat /\ DOMAIN parts = 1..Len(parts)
      /\ \A i \in 1..k : parts[i].kind = "result" /\ parts[i].id \in P
      /\ \A x \in P : \E i \in 1..k : parts[i].id = x
      /\ \A i \in k + 1..Len(parts) : parts[i].kind # "result"
  BY <1>1, WaitsFacts DEF Tidy
<1>3. \A i : i \in DOMAIN parts <=> i \in 1..k \/ i \in k + 1..Len(parts)
  BY <1>2
<1>4. Results(parts) = {parts[i].id : i \in {j \in DOMAIN parts : parts[j].kind = "result"}}
  BY DEF Results, Ids
<1> QED
  BY <1>2, <1>3, <1>4

\* What the client says without calls waiting.
LEMMA BareExtends ==
  ASSUME CallInv, Open = {}, NEW Y, NEW parts \in Seq(Y), Bare(parts), NEW role \in {"system", "user"}, NEW bound
  PROVE  Extends(Message(role, parts), bound)
<1>1. PICK m, P, together : m = Message(role, parts) /\ P = {} /\ together = (client = "anthropic")
  OBVIOUS
<1>2. m.role = role /\ m.parts = parts
  BY <1>1 DEF Message
<1>3. Calls(parts) = {} /\ Results(parts) = {}
  BY BareIds
<1>4. P \in Waits
  BY <1>1, WaitsFacts
<1>5. Leads(together, P, m, P)
  <2>1. CASE role = "system"
    BY <1>1, <1>2, <2>1 DEF Leads
  <2>2. CASE role = "user"
    BY <1>1, <2>2, UserLeads
  <2> QED
    BY <2>1, <2>2
<1>6. (Open \cup Calls(m.parts)) \ Results(m.parts) = P /\ Open = P
  BY <1>1, <1>2, <1>3
<1> QED
  BY <1>1, <1>2, <1>3, <1>4, <1>5, <1>6 DEF Extends

\* Every element of a set, once.
LEMMA SequenceOfAll ==
  ASSUME NEW P \in Waits, NEW ids, ids = SetToSeq(P), NEW k, k = Cardinality(P)
  PROVE  /\ ids \in Seq(P) /\ Len(ids) = k /\ k \in Nat /\ DOMAIN ids = 1..k
         /\ \A i, j \in 1..k : ids[i] = ids[j] => i = j
         /\ \A x \in P : \E i \in 1..k : ids[i] = x
<1>1. IsFiniteSet(P) /\ k \in Nat
  BY WaitsFacts
<1>2. ids \in Injection(1..k, P)
  <2>1. ExistsBijection(1..k, P)
    BY <1>1, FS_CardinalityType
  <2>2. \E g \in [1..k -> P] : IsInjective(g)
    BY <2>1 DEF ExistsBijection, Bijection, Injection
  <2>3. ids \in [1..k -> P] /\ IsInjective(ids)
    BY <2>2 DEF SetToSeq
  <2> QED
    BY <2>3 DEF Injection
<1>3. ids \in Surjection(1..k, P)
  <2>1. PICK S : S = 1..k
    OBVIOUS
  <2>2. Cardinality(S) = k
    BY <1>1, <2>1, FS_Interval
  <2>3. ids \in Surjection(S, P)
    BY <1>1, <1>2, <2>1, <2>2, FS_Injection
  <2> QED
    BY <2>1, <2>3
<1>4. ids \in [1..k -> P]
  BY <1>2 DEF Injection
<1>5. \A i, j \in 1..k : ids[i] = ids[j] => i = j
  BY <1>2, <1>4 DEF Injection, IsInjective
<1>6. \A x \in P : \E i \in 1..k : ids[i] = x
  BY <1>3, <1>4 DEF Surjection
<1> QED
  BY <1>1, <1>4, <1>5, <1>6

LEMMA ConcatAt ==
  ASSUME NEW Y, NEW s \in Seq(Y), NEW t \in Seq(Y)
  PROVE  /\ Len(s \o t) = Len(s) + Len(t)
         /\ \A i \in 1..Len(s) + Len(t) : (s \o t)[i] = IF i <= Len(s) THEN s[i] ELSE t[i - Len(s)]
BY ConcatProperties

\* The results of all calls, and what the client says besides.
LEMMA ResultsTidy ==
  ASSUME NEW P \in Waits, NEW ids, ids = SetToSeq(P), NEW Y, NEW results \in Seq(Y), Len(results) = Len(ids),
         \A i \in DOMAIN ids : results[i].kind = "result" /\ results[i].id = ids[i],
         NEW text \in Seq(Y), Bare(text)
  PROVE  Tidy(results \o text, P)
<1>1. PICK k, n, parts : k = Cardinality(P) /\ n = Len(text) /\ parts = results \o text
  OBVIOUS
<1>2. /\ ids \in Seq(P) /\ Len(ids) = k /\ k \in Nat /\ DOMAIN ids = 1..k
      /\ \A i, j \in 1..k : ids[i] = ids[j] => i = j
      /\ \A x \in P : \E i \in 1..k : ids[i] = x
  BY <1>1, SequenceOfAll
<1>3. \A i \in 1..k : ids[i] \in P
  BY <1>2
<1>4. /\ Len(parts) = k + n /\ n \in Nat /\ DOMAIN text = 1..n
      /\ \A i \in 1..k + n : parts[i] = IF i <= k THEN results[i] ELSE text[i - k]
  <2>1. Len(results) = k /\ n \in Nat /\ DOMAIN text = 1..n
    BY <1>1, <1>2
  <2>2. /\ Len(results \o text) = Len(results) + Len(text)
        /\ \A i \in 1..Len(results) + Len(text) :
             (results \o text)[i] = IF i <= Len(results) THEN results[i] ELSE text[i - Len(results)]
    BY ConcatAt
  <2> QED
    BY ONLY <1>1, <2>1, <2>2
<1>5. \A i \in 1..k : parts[i].kind = "result" /\ parts[i].id = ids[i]
  <2> TAKE i \in 1..k
  <2>1. i \in 1..k + n /\ i <= k
    BY <1>2, <1>4
  <2>2. parts[i] = results[i]
    BY <1>4, <2>1
  <2> QED
    BY <1>2, <2>2
<1>6. \A i \in k + 1..k + n : parts[i].kind \notin {"call", "result"}
  <2> TAKE i \in k + 1..k + n
  <2>1. i \in 1..k + n /\ ~(i <= k) /\ i - k \in 1..n
    BY <1>2, <1>4
  <2>2. parts[i] = text[i - k]
    BY <1>4, <2>1
  <2> QED
    BY <1>4, <2>1, <2>2 DEF Bare
<1>7. k <= Len(parts)
  BY <1>2, <1>4
<1>8. \A i, j \in 1..k : parts[i].id = parts[j].id => i = j
  BY <1>2, <1>5
<1>9. \A x \in P : \E i \in 1..k : parts[i].id = x
  BY <1>2, <1>5
<1>10. Tidy(parts, P)
  BY <1>1, <1>3, <1>4, <1>5, <1>6, <1>7, <1>8, <1>9 DEF Tidy
<1> QED
  BY <1>1, <1>10

\* All ids are smaller than those to come.
LEMMA Wider ==
  ASSUME NEW a \in Nat, NEW l \in Nat, NEW S, S \subseteq (0 - a)..a
  PROVE  S \subseteq (0 - (a + l))..(a + l)
<1>1. ASSUME NEW x \in (0 - a)..a PROVE x \in (0 - (a + l))..(a + l)
  OBVIOUS
<1> QED
  BY <1>1, Zenon

LEMMA PartsOfBare ==
  ASSUME next \in Nat, NEW shape \in Seq({"text", "data", "url", "other"}), NEW content \in AllWords
  PROVE  Bare(PartsOf(shape, content)) /\ PartsOf(shape, content) \in Seq(Parts(Marks, Int))
<1>1. PartsOf(shape, content) \in Seq(Parts(Marks, Int))
  <2>1. {"text", "data", "url", "other"} \subseteq Kinds
    BY DEF Kinds
  <2> QED
    BY <2>1, PartsOfType DEF PartLists
<1>2. DOMAIN PartsOf(shape, content) = DOMAIN shape
  BY DEF PartsOf
<1>3. \A i \in DOMAIN shape : PartsOf(shape, content)[i].kind = shape[i] /\ shape[i] \in {"text", "data", "url", "other"}
  BY DEF PartsOf, Part
<1> QED
  BY <1>1, <1>2, <1>3 DEF Bare

LEMMA ToolExtends ==
  ASSUME CallInv, client = "openai", NEW id \in Open, NEW p, p.kind = "result", p.id = id,
         NEW l \in Nat, next \in Nat
  PROVE  Extends(Message("tool", <<p>>), next + l)
<1>1. PICK m, parts, P, together, bound :
        /\ parts = <<p>> /\ m = Message("tool", parts) /\ P = Open /\ together = (client = "anthropic") /\ bound = next + l
  OBVIOUS
<1>2. m.role = "tool" /\ m.parts = parts /\ Len(parts) = 1 /\ parts[1] = p
  BY <1>1 DEF Message
<1>3. Calls(parts) = {} /\ Results(parts) = {id}
  BY <1>1, IdsOne DEF Calls, Results
<1>4. (Open \cup Calls(m.parts)) \ Results(m.parts) = P \ {id}
  BY <1>1, <1>2, <1>3
<1>5. P \in Waits /\ P \ {id} \in Waits
  BY <1>1, WaitsFacts DEF CallInv
<1>6. ~together
  BY <1>1
<1>7. Leads(together, P, m, P \ {id})
  BY <1>1, <1>2, <1>6 DEF Leads
<1>8. {id} \subseteq (0 - bound)..bound
  <2>1. {id} \subseteq (0 - next)..next
    BY DEF CallInv, Open
  <2> QED
    BY <1>1, <2>1, Wider
<1>9. Extends(m, bound)
  BY <1>1, <1>2, <1>3, <1>4, <1>5, <1>7, <1>8 DEF Extends
<1> QED
  BY <1>1, <1>9

LEMMA ToolsExtend ==
  ASSUME CallInv, client = "anthropic", NEW Y, NEW parts \in Seq(Y), Tidy(parts, Open), NEW l \in Nat, next \in Nat
  PROVE  Extends(Message("user", parts), next + l)
<1>1. PICK m, P, together, bound, none :
        /\ m = Message("user", parts) /\ P = Open /\ together = (client = "anthropic") /\ bound = next + l /\ none = {}
  OBVIOUS
<1>2. m.role = "user" /\ m.parts = parts
  BY <1>1 DEF Message
<1>3. P \in Waits /\ none \in Waits
  BY <1>1, WaitsFacts DEF CallInv
<1>4. Calls(parts) = {} /\ Results(parts) = P
  BY <1>1, <1>3, SettlesTidy, TidyResults
<1>5. (Open \cup Calls(m.parts)) \ Results(m.parts) = none
  BY <1>1, <1>2, <1>4
<1>6. together
  BY <1>1
<1>7. Leads(together, P, m, none)
  BY <1>1, <1>2, <1>6 DEF Leads
<1>8. P \subseteq (0 - bound)..bound
  <2>1. P \subseteq (0 - next)..next
    BY <1>1 DEF CallInv, Open
  <2> QED
    BY <1>1, <2>1, Wider
<1>9. Extends(m, bound)
  BY <1>1, <1>2, <1>3, <1>4, <1>5, <1>7, <1>8 DEF Extends
<1> QED
  BY <1>1, <1>9

LEMMA ClientExtends ==
  ASSUME TalkInv, CallInv, NEW content \in Contents,
         \/ System(content) \/ ToolResult(content)
         \/ \E shape \in UserShapes : User(shape, content)
         \/ \E more \in BOOLEAN : ToolResults(content, more)
  PROVE  \E m : Chat(m) /\ Len(m.parts) \in Nat /\ Extends(m, next + Len(m.parts))
<1>1. content \in AllWords /\ next \in Nat
  BY WordsGrow DEF TalkInv
<1>2. ASSUME NEW shape \in Seq({"text", "data", "url", "other"}), NEW role \in {"system", "user"}, Open = {},
             Chat(Message(role, PartsOf(shape, content)))
      PROVE  \E m : Chat(m) /\ Len(m.parts) \in Nat /\ Extends(m, next + Len(m.parts))
  <2>1. PICK m, parts : parts = PartsOf(shape, content) /\ m = Message(role, parts)
    OBVIOUS
  <2>2. Bare(parts) /\ parts \in Seq(Parts(Marks, Int))
    BY <1>1, <2>1, PartsOfBare
  <2>3. \A bound : Extends(m, bound)
    BY <1>2, <2>1, <2>2, BareExtends
  <2>4. m.parts = parts /\ Len(parts) \in Nat
    BY <2>1, <2>2 DEF Message
  <2> QED
    BY <1>2, <2>1, <2>3, <2>4
<1>3. CASE System(content)
  <2>1. <<"text">> \in Seq({"text", "data", "url", "other"})
    OBVIOUS
  <2> QED
    BY <1>2, <1>3, <2>1 DEF System
<1>4. ASSUME NEW shape \in UserShapes, User(shape, content)
      PROVE  \E m : Chat(m) /\ Len(m.parts) \in Nat /\ Extends(m, next + Len(m.parts))
  <2>1. shape \in Seq({"text", "data", "url", "other"})
    BY ShapesAssumption
  <2> QED
    BY <1>2, <1>4, <2>1 DEF User
<1>5. CASE ToolResult(content)
  <2>1. client = "openai" /\ \E id \in Open : Chat(Message("tool", <<Result(id, next + 1, content)>>))
    BY <1>5 DEF ToolResult
  <2>2. PICK id \in Open : Chat(Message("tool", <<Result(id, next + 1, content)>>))
    BY <2>1
  <2>3. PICK p, m : p = Result(id, next + 1, content) /\ m = Message("tool", <<p>>)
    OBVIOUS
  <2>4. p.kind = "result" /\ p.id = id
    BY <2>3 DEF Result, Part
  <2>5. m.parts = <<p>> /\ Len(m.parts) = 1
    BY <2>3 DEF Message
  <2>6. Extends(m, next + 1)
    BY <1>1, <2>1, <2>3, <2>4, ToolExtends
  <2> QED
    BY <2>2, <2>3, <2>5, <2>6
<1>6. ASSUME NEW more \in BOOLEAN, ToolResults(content, more)
      PROVE  \E m : Chat(m) /\ Len(m.parts) \in Nat /\ Extends(m, next + Len(m.parts))
  <2> DEFINE ids0 == SetToSeq(Open)
             results0 == [i \in DOMAIN ids0 |-> Result(ids0[i], next + i, content)]
             text0 == IF more THEN <<Part("text", TextFrom("text", next + Len(ids0) + 1, content), 0)>> ELSE <<>>
  <2>1. client = "anthropic" /\ Chat(Message("user", results0 \o text0))
    BY <1>6 DEF ToolResults
  <2>2. PICK P, ids : P = Open /\ ids = SetToSeq(P)
    OBVIOUS
  <2>3. PICK results, text, k : results = results0 /\ text = text0 /\ k = Cardinality(P)
    OBVIOUS
  <2>4. P \in Waits
    BY <2>2 DEF CallInv
  <2>5. ids \in Seq(P) /\ Len(ids) = k /\ k \in Nat /\ DOMAIN ids = 1..k
    BY <2>2, <2>3, <2>4, SequenceOfAll
  <2>6. /\ DOMAIN results = DOMAIN ids /\ results = [i \in DOMAIN ids |-> results[i]]
        /\ \A i \in DOMAIN ids : results[i].kind = "result" /\ results[i].id = ids[i]
    BY <2>2, <2>3 DEF Result, Part
  <2>7. Bare(text) /\ text \in Seq(Range(text))
    <3>1. text = <<>> \/ \E q : text = <<q>> /\ q.kind = "text"
      BY <2>3 DEF Part
    <3>2. CASE text = <<>>
      <4>1. DOMAIN text = {} /\ text \in Seq(Range(text))
        BY <3>2
      <4> QED
        BY <4>1 DEF Bare
    <3>3. ASSUME NEW q, text = <<q>>, q.kind = "text" PROVE Bare(text) /\ text \in Seq(Range(text))
      <4>1. DOMAIN text = {1} /\ text[1] = q
        BY <3>3
      <4>2. q \in Range(text)
        BY <4>1 DEF Range
      <4>3. <<q>> \in Seq(Range(text))
        BY <4>2
      <4>4. text \in Seq(Range(text))
        BY <3>3, <4>3
      <4>5. Bare(text)
        BY <3>3, <4>1 DEF Bare
      <4> QED
        BY <4>4, <4>5
    <3> QED
      BY <3>1, <3>2, <3>3
  <2> HIDE DEF results0, text0, ids0
  <2>8. PICK Y : Y = Range(results) \cup Range(text)
    OBVIOUS
  <2>9. results \in Seq(Y) /\ Len(results) = Len(ids)
    BY <2>5, <2>6, <2>8 DEF Range
  <2>10. text \in Seq(Y)
    <3>1. Range(text) \subseteq Y
      BY <2>8
    <3> QED
      BY <2>7, <3>1, SeqMonotonic
  <2>11. Tidy(results \o text, P)
    BY <2>2, <2>4, <2>6, <2>7, <2>9, <2>10, ResultsTidy
  <2>12. PICK parts, m, l : parts = results \o text /\ m = Message("user", parts) /\ l = Len(parts)
    OBVIOUS
  <2>13. parts \in Seq(Y) /\ l \in Nat /\ m.parts = parts
    BY <2>9, <2>10, <2>12, ConcatProperties DEF Message
  <2>14. Extends(m, next + l)
    BY <1>1, <2>1, <2>2, <2>11, <2>12, <2>13, ToolsExtend
  <2>15. Chat(m)
    BY <2>1, <2>3, <2>12
  <2> QED
    BY <2>12, <2>13, <2>14, <2>15
<1> QED
  BY <1>3, <1>4, <1>5, <1>6

LEMMA CallsByClient ==
  ASSUME TalkInv, CallInv, NEW content \in Contents,
         \/ System(content) \/ ToolResult(content)
         \/ \E shape \in UserShapes : User(shape, content)
         \/ \E more \in BOOLEAN : ToolResults(content, more)
  PROVE  CallInv'
<1>1. PICK D : \E m \in Talk(Marks, D) : history \in Talks(Marks, D) /\ Chat(m)
  BY ClientSays
<1>2. PICK o \in Talk(Marks, D) : history \in Talks(Marks, D) /\ Chat(o)
  BY <1>1
<1>3. PICK m : Chat(m) /\ Len(m.parts) \in Nat /\ Extends(m, next + Len(m.parts))
  BY ClientExtends
<1>4. history \in MessageLists(Marks, D) /\ o \in Messages(Marks, D)
  BY <1>2, TalkIsMessages
<1>5. m = o
  <2>1. Append(history, m) = Append(history, o) /\ Len(history) \in Nat
    BY <1>2, <1>3, <1>4 DEF Chat, MessageLists
  <2>2. \A x : Append(history, x)[Len(history) + 1] = x
    BY <1>4 DEF MessageLists
  <2> QED
    BY <2>1, <2>2
<1>6. /\ history' = Append(history, m) /\ client' = client /\ phase' = phase /\ phase = "chat"
      /\ next' = next + Len(m.parts)
  BY <1>3 DEF Chat
<1>7. next \in Nat /\ next' \in Nat /\ next <= next'
  BY <1>3, <1>6 DEF TalkInv
<1>8. Extends(m, next')
  BY <1>3, <1>6
<1> QED
  BY <1>4, <1>5, <1>6, <1>7, <1>8, CallsExtended

LEMMA AnswerToAnthropicCalls ==
  ASSUME next \in Nat, NEW D, 0 \in D, NEW q \in Seq(Voices(Marks, D)), NEW x \in Calls(AnswerToAnthropic(q))
  PROVE  \/ x \in Calls(q) /\ x # 0
         \/ 0 \in Calls(q) /\ \E i \in 1..Len(q) : x = 0 - (next + i)
<1>1. PICK first, calls : /\ calls = OfKind(q, {"call"})
                          /\ first = IF Joined(q) # <<>> THEN OfKind(q, {"text"}) ELSE Spoken(OfKind(q, {"thought"}))
  OBVIOUS
<1>2. Answered(q) = first \o WithIds(calls)
  BY <1>1 DEF Answered
<1>3. /\ first \in Seq(Voices(Marks, Made(D))) /\ WithIds(calls) \in Seq(Voices(Marks, Made(D)))
      /\ calls \in Seq(Voices(Marks, D))
  BY <1>1, AnsweredType, OfKindType
<1>4. Bare(first)
  <2>1. PICK texts, thoughts : texts = {"text"} /\ thoughts = {"thought"}
    OBVIOUS
  <2>2. CASE Joined(q) # <<>>
    <3>1. first = OfKind(q, texts)
      BY <1>1, <2>1, <2>2
    <3>2. \A i \in DOMAIN first : first[i].kind \in texts
      BY <3>1, OfKindKinds
    <3> QED
      BY <2>1, <3>2 DEF Bare
  <2>3. CASE Joined(q) = <<>>
    <3>1. PICK some : some = OfKind(q, thoughts)
      OBVIOUS
    <3>2. some \in Seq(Voices(Marks, D)) /\ first = Spoken(some)
      BY <1>1, <2>1, <2>3, <3>1, OfKindType
    <3>3. \A i \in DOMAIN some : some[i] \in Voices(Marks, D)
      BY <3>2
    <3>4. \A v \in Voices(Marks, D) : [v EXCEPT !.kind = "text"].kind = "text"
      BY DEF Voices
    <3>5. DOMAIN first = DOMAIN some /\ \A i \in DOMAIN some : first[i] = [some[i] EXCEPT !.kind = "text"]
      BY <3>2 DEF Spoken
    <3>6. \A i \in DOMAIN first : first[i].kind = "text"
      <4> TAKE i \in DOMAIN first
      <4>1. PICK v, o : v = some[i] /\ o = first[i]
        OBVIOUS
      <4>2. v \in Voices(Marks, D) /\ o = [v EXCEPT !.kind = "text"]
        BY <3>3, <3>5, <4>1
      <4> QED
        BY <3>4, <4>1, <4>2
    <3> QED
      BY <3>6 DEF Bare
  <2> QED
    BY <2>2, <2>3
<1>5. Answered(q) # <<>>
  <2> SUFFICES ASSUME Answered(q) = <<>> PROVE FALSE
    OBVIOUS
  <2>1. PICK p, one : p = Part("text", <<>>, 0) /\ one = <<p>>
    OBVIOUS
  <2>2. AnswerToAnthropic(q) = one
    BY <2>1, AnswerIs
  <2>3. Bare(one)
    BY <2>1 DEF Bare, Part
  <2> QED
    BY <2>2, <2>3, BareIds
<1>6. AnswerToAnthropic(q) = first \o WithIds(calls)
  BY <1>2, <1>5, AnswerIs
<1>7. x \in Calls(WithIds(calls))
  <2>1. PICK s, t : s = first /\ t = WithIds(calls)
    OBVIOUS
  <2>2. Ids(s \o t, "call") = Ids(s, "call") \cup Ids(t, "call")
    BY <1>3, <2>1, IdsMore
  <2>3. Ids(s, "call") = {}
    BY <1>4, <2>1, BareIds DEF Calls
  <2> QED
    BY <1>6, <2>1, <2>2, <2>3 DEF Calls
<1>8. PICK i \in DOMAIN WithIds(calls) : x = WithIds(calls)[i].id
  BY <1>7 DEF Calls, Ids
<1>9. i \in DOMAIN calls /\ x = WithId(calls[i], i).id
  BY <1>8 DEF WithIds
<1>10. PICK c : c = calls[i]
  OBVIOUS
<1>11. c \in Voices(Marks, D) /\ c.kind = "call" /\ i \in 1..Len(calls) /\ Len(calls) <= Len(q) /\ Len(q) \in Nat
  <2>1. c \in Voices(Marks, D) /\ i \in 1..Len(calls) /\ Len(q) \in Nat
    BY <1>3, <1>9, <1>10
  <2>2. PICK kinds : kinds = {"call"}
    OBVIOUS
  <2>3. \A j \in DOMAIN OfKind(q, kinds) : OfKind(q, kinds)[j].kind \in kinds
    BY OfKindKinds
  <2>4. Len(OfKind(q, kinds)) <= Len(q)
    BY OfKindLength
  <2> QED
    BY <1>1, <1>9, <1>10, <2>1, <2>2, <2>3, <2>4
<1>12. x = IF c.id = 0 THEN 0 - (next + i) ELSE c.id
  BY <1>9, <1>10, <1>11 DEF WithId, Voices
<1>13. c.id \in Calls(q)
  <2>1. c.id \in Ids(calls, "call")
    BY <1>9, <1>10, <1>11 DEF Ids
  <2>2. PICK kinds, kind : kinds = {"call"} /\ kind = "call"
    OBVIOUS
  <2>3. Ids(OfKind(q, kinds), kind) = IF kind \in kinds THEN Ids(q, kind) ELSE {}
    BY IdsOfKind
  <2> QED
    BY <1>1, <2>1, <2>2, <2>3 DEF Calls
<1>14. i \in 1..Len(q)
  <2>1. Len(calls) \in Nat
    BY <1>3
  <2> QED
    BY <1>11, <2>1
<1> QED
  BY <1>12, <1>13, <1>14

\* The calls of an answer: numbers that were not yet used, or what the gateway makes up.
LEMMA ReplyCalls ==
  ASSUME next \in Nat, NEW shape \in AnswerShapes, NEW content, NEW ids \in BOOLEAN,
         NEW x \in Calls(Reply(shape, content, ids))
  PROVE  IF ids THEN \E i \in 1..Len(shape) : x = next + i ELSE x = 0
<1>1. shape \in Seq({"text", "thought", "call"})
  BY ShapesAssumption
<1>2. DOMAIN shape = 1..Len(shape) /\ DOMAIN Reply(shape, content, ids) = DOMAIN shape
  BY <1>1 DEF Reply
<1>3. PICK i \in DOMAIN shape : Reply(shape, content, ids)[i].kind = "call" /\ x = Reply(shape, content, ids)[i].id
  BY <1>2 DEF Calls, Ids
<1>4. PICK p, text : p = Part(shape[i], text, IF shape[i] = "call" THEN next + i ELSE 0) /\ p = PartsOf(shape, content)[i]
  BY DEF PartsOf
<1>5. p.kind = shape[i] /\ p.id = IF shape[i] = "call" THEN next + i ELSE 0
  BY <1>4 DEF Part
<1>6. PICK r : r = Reply(shape, content, ids)[i]
  OBVIOUS
<1>7. r = [p EXCEPT !.id = IF ids THEN @ ELSE 0]
  BY <1>3, <1>4, <1>6 DEF Reply
<1>8. r.kind = p.kind /\ r.id = IF ids THEN p.id ELSE 0
  BY <1>4, <1>7 DEF Part
<1> QED
  BY <1>2, <1>3, <1>5, <1>6, <1>8

LEMMA AnswerForCalls ==
  ASSUME TalkInv, upstream \in {"openai", "anthropic", "bedrock"},
         NEW shape \in AnswerShapes, NEW content \in Contents \cup {CutOff}, NEW ids \in BOOLEAN,
         MayAnswer(shape, content, ids), NEW x \in Calls(AnswerFor(Reply(shape, content, ids)))
  PROVE  \E i \in 1..Len(shape) : x = next + i \/ x = 0 - (next + i)
<1>1. PICK parts : parts = Reply(shape, content, ids)
  OBVIOUS
<1>2. PICK D : 0 \in D /\ parts \in Seq(Voices(Marks, D))
  BY <1>1, ModelSays
<1>3. parts \in PartLists(Marks, D)
  BY <1>2, VoicesAreParts
<1>4. next \in Nat /\ client \in {"openai", "anthropic"} /\ (ids \/ (upstream = "openai" /\ client = "anthropic"))
  BY DEF TalkInv, MayAnswer
<1>5. \A y \in Calls(parts) : IF ids THEN \E i \in 1..Len(shape) : y = next + i ELSE y = 0
  BY <1>1, <1>4, ReplyCalls
<1>6. Len(parts) = Len(shape)
  <2>1. shape \in Seq({"text", "thought", "call"})
    BY ShapesAssumption
  <2>2. DOMAIN parts = DOMAIN shape
    BY <1>1 DEF Reply
  <2> QED
    BY <1>2, <2>1, <2>2
<1>7. PICK q : q = AnswerToOpenAI(parts)
  OBVIOUS
<1>8. Calls(q) = Calls(parts) /\ q \in Seq(Voices(Marks, D))
  <2>1. PICK text : text = Joined(parts)
    OBVIOUS
  <2>2. text \in Texts(Marks)
    BY <1>3, <2>1, JoinedType
  <2>3. Calls(Text(text) \o OfKind(parts, {"call"})) = Calls(parts)
    BY <1>2, <1>3, <2>2, IdsSpeech
  <2>4. q \in Seq(Voices(Marks, D))
    BY <1>2, <1>7, AnswerToOpenAIType
  <2> QED
    BY <1>7, <2>1, <2>3, <2>4 DEF AnswerToOpenAI
<1>9. x \in Calls(AnswerFor(parts))
  BY <1>1
<1>10. CASE x \in Calls(parts) /\ ids
  BY <1>5, <1>10
<1>11. CASE upstream = client
  BY <1>4, <1>9, <1>10, <1>11 DEF AnswerFor
<1>12. CASE upstream # client /\ client = "openai"
  BY <1>4, <1>7, <1>8, <1>9, <1>10, <1>12 DEF AnswerFor
<1>13. CASE client # "openai" /\ upstream = "bedrock"
  <2>1. x \in Calls(AnswerToAnthropic(q)) /\ ids
    BY <1>4, <1>7, <1>9, <1>13 DEF AnswerFor
  <2>2. 0 \notin Calls(q)
    <3>1. ASSUME NEW i \in 1..Len(shape) PROVE next + i # 0
      BY <1>4
    <3> QED
      BY <1>5, <1>8, <2>1, <3>1
  <2>3. x \in Calls(q)
    BY <1>2, <1>4, <1>8, <2>1, <2>2, AnswerToAnthropicCalls
  <2> QED
    BY <1>8, <1>10, <2>1, <2>3
<1>14. CASE client = "anthropic" /\ upstream = "openai"
  <2>1. x \in Calls(AnswerToAnthropic(parts))
    BY <1>9, <1>14 DEF AnswerFor
  <2>2. \/ x \in Calls(parts) /\ x # 0
        \/ \E i \in 1..Len(parts) : x = 0 - (next + i)
    BY <1>2, <1>4, <2>1, AnswerToAnthropicCalls
  <2> QED
    BY <1>5, <1>6, <2>2
<1> QED
  BY <1>4, <1>11, <1>12, <1>13, <1>14

LEMMA CallsByModel ==
  ASSUME TalkInv, SaidInv, CallInv,
         NEW shape \in AnswerShapes, NEW content \in Contents \cup {CutOff}, NEW ids \in BOOLEAN,
         Answer(shape, content, ids)
  PROVE  CallInv'
<1> DEFINE parts0 == Reply(shape, content, ids)
           answer0 == Told(parts0)
<1>1. PICK D : /\ 0 \in D /\ history \in Talks(Marks, D)
               /\ parts0 \in Seq(Voices(Marks, D)) /\ answer0 \in Talks(Marks, D)
  BY ModelSays
<1>2. /\ client' = client /\ phase = "asked" /\ next' = next + Len(shape) /\ MayAnswer(shape, content, ids)
      /\ upstream \in {"openai", "anthropic", "bedrock"} /\ next \in Nat /\ held \in Policies
  BY DEF Answer, TalkInv, SaidInv
<1>3. Len(shape) \in Nat
  BY ShapesAssumption
<1>4. next' \in Nat /\ next <= next'
  BY <1>2, <1>3
<1>5. \/ phase' = "refused" /\ UNCHANGED <<history, said>>
      \/ /\ ~Blocked(held, "output", answer0) /\ history' = history \o Redacted(held, "output", answer0)
         /\ phase' = "chat"
  BY Replies
<1>6. PICK parts, answer, redacted, said1 :
        /\ parts = parts0 /\ answer = answer0 /\ redacted = Redacted(held, "output", answer0) /\ said1 = AnswerFor(parts0)
  OBVIOUS
<1>7. PICK m0 : m0 = Message("assistant", said1)
  OBVIOUS
<1>8. answer = <<m0>> /\ m0.role = "assistant" /\ m0.parts = said1
  BY <1>6, <1>7 DEF Told, Message
<1>9. \A x \in Calls(said1) : \E i \in 1..Len(shape) : x = next + i \/ x = 0 - (next + i)
  BY <1>2, <1>6, AnswerForCalls
<1> HIDE DEF parts0, answer0
<1>10. CASE phase' = "refused" /\ history' = history
  <2>1. Open' = Open /\ AllParts(history)' = AllParts(history)
    BY <1>10 DEF Open, AllParts, Ids
  <2>2. Ids(AllParts(history), "call") \cup Ids(AllParts(history), "result") \subseteq (0 - next')..next'
    BY <1>2, <1>3, Wider DEF CallInv
  <2>3. (Ids(AllParts(history), "call") \cup Ids(AllParts(history), "result"))'
          = Ids(AllParts(history), "call") \cup Ids(AllParts(history), "result")
    BY <2>1 DEF Ids
  <2>4. Runs(client = "anthropic", history, {}, Open)' <=> Runs(client' = "anthropic", history', {}, Open')
    BY DEF Runs, Steps, Leads, Tidy, Calls, Ids, Waits
  <2>5. Runs(client = "anthropic", history, {}, Open)' /\ (Open \in Waits)'
    BY <1>2, <1>10, <2>1, <2>4 DEF CallInv, Waits
  <2> QED
    BY <1>10, <2>2, <2>3, <2>5 DEF CallInv
<1>11. CASE /\ ~Blocked(held, "output", answer) /\ history' = history \o redacted /\ phase' = "chat"
  <2>1. redacted \in Talks(Marks, D) /\ Len(redacted) = 1 /\ redacted = Redacted(held, "output", answer)
    <3>1. answer \in Talks(Marks, D)
      BY <1>1, <1>6
    <3>2. Len(answer) = 1
      BY <1>8
    <3> QED
      BY <1>2, <1>6, <1>11, <3>1, <3>2, Delivered
  <2>2. PICK m : m = redacted[1]
    OBVIOUS
  <2>3. redacted = <<m>> /\ m \in Talk(Marks, D)
    BY <2>1, <2>2 DEF Talks
  <2>4. m0 \in Talk(Marks, D)
    <3>1. answer \in Seq(Talk(Marks, D))
      BY <1>1, <1>6 DEF Talks
    <3>2. answer[1] = m0 /\ 1 \in DOMAIN answer
      BY <1>8
    <3> QED
      BY <3>1, <3>2
  <2>5. said1 \in Seq(Voices(Marks, D)) /\ said1 \in PartLists(Marks, D)
    <3>1. said1 \in Seq(Voices(Marks, D))
      BY <1>8, <2>4 DEF Talk
    <3> QED
      BY <3>1, VoicesAreParts
  <2>6. m = [m0 EXCEPT !.parts = RedactParts(held, "output", said1)]
    <3>1. 1 \in DOMAIN answer /\ answer[1] = m0
      BY <1>8
    <3> QED
      BY <1>8, <2>1, <2>2, <3>1 DEF Redacted
  <2>7. m.role = "assistant" /\ m.parts = RedactParts(held, "output", said1)
    BY <1>7, <2>6 DEF Message
  <2>8. SameParts(said1, m.parts)
    BY <2>5, <2>7, RedactPartsSame
  <2>9. Calls(m.parts) = Calls(said1) /\ Results(m.parts) = Results(said1)
    BY <2>8, IdsSame DEF Calls, Results
  <2>10. Results(said1) = {}
    <3>1. \A i \in DOMAIN said1 : said1[i] \in Voices(Marks, D)
      BY <2>5
    <3>2. \A v \in Voices(Marks, D) : v.kind # "result"
      BY DEF Voices, Voice
    <3>3. \A i \in DOMAIN said1 : said1[i].kind # "result"
      BY <3>1, <3>2
    <3> QED
      BY <3>3 DEF Results, Ids
  <2>11. PICK C, P, together : C = Calls(said1) /\ P = Open /\ together = (client = "anthropic")
    OBVIOUS
  <2>12. P = {}
    BY <1>2, <2>11 DEF CallInv
  <2>13. C \in Waits /\ C \subseteq (0 - next')..next' /\ C \cap ((0 - next)..next) = {}
    <3>1. ASSUME NEW i \in 1..Len(shape), NEW x, x = next + i \/ x = 0 - (next + i)
          PROVE  x \in Int /\ x # 0 /\ x \in (0 - next')..next' /\ x \notin (0 - next)..next
      BY <1>2, <1>3, <3>1
    <3>2. \A x \in C : x \in Int /\ x # 0 /\ x \in (0 - next')..next' /\ x \notin (0 - next)..next
      BY <1>9, <2>11, <3>1
    <3>3. IsFiniteSet(C)
      BY <2>5, <2>11, IdsType DEF Calls
    <3> QED
      BY <3>2, <3>3 DEF Waits
  <2>14. Ids(AllParts(history), "result") \subseteq (0 - next)..next
    BY DEF CallInv
  <2>15. (Open \cup Calls(m.parts)) \ Results(m.parts) = C
    BY <2>9, <2>10, <2>11, <2>12
  <2>16. Leads(together, P, m, C)
    BY <2>7, <2>9, <2>11, <2>12 DEF Leads
  <2>17. Extends(m, next')
    BY <2>9, <2>10, <2>11, <2>13, <2>14, <2>15, <2>16 DEF Extends
  <2>18. m \in Messages(Marks, D) /\ history \in MessageLists(Marks, D)
    BY <1>1, <2>3, TalkIsMessages
  <2>19. history' = Append(history, m)
    <3>1. history \in Seq(Messages(Marks, D))
      BY <2>18 DEF MessageLists
    <3> QED
      BY <1>11, <2>3, <2>18, <3>1, AppendIsConcat
  <2> QED
    BY <1>2, <1>4, <1>11, <2>17, <2>18, <2>19, CallsExtended
<1> QED
  BY <1>5, <1>6, <1>10, <1>11

LEMMA CallsStep == TalkInv /\ SaidInv /\ CallInv /\ [Next]_vars => CallInv'
<1> SUFFICES ASSUME TalkInv, SaidInv, CallInv, [Next]_vars PROVE CallInv'
  OBVIOUS
<1>1. ASSUME NEW content \in Contents,
             \/ System(content) \/ ToolResult(content)
             \/ \E shape \in UserShapes : User(shape, content)
             \/ \E more \in BOOLEAN : ToolResults(content, more)
      PROVE  CallInv'
  BY <1>1, CallsByClient
<1>2. ASSUME UNCHANGED <<client, history, next>>, phase' = "asked" => phase = "asked" \/ Open = {} PROVE CallInv'
  <2>1. Open' = Open /\ AllParts(history)' = AllParts(history)
    BY <1>2 DEF Open, AllParts, Ids
  <2>2. (Ids(AllParts(history), "call") \cup Ids(AllParts(history), "result"))'
          = Ids(AllParts(history), "call") \cup Ids(AllParts(history), "result")
    BY <2>1 DEF Ids
  <2>3. Runs(client = "anthropic", history, {}, Open)' <=> Runs(client' = "anthropic", history', {}, Open')
    BY DEF Runs, Steps, Leads, Tidy, Calls, Ids, Waits
  <2>4. Runs(client = "anthropic", history, {}, Open)' /\ (Open \in Waits)'
    BY <1>2, <2>1, <2>3 DEF CallInv, Waits
  <2> QED
    BY <1>2, <2>1, <2>2, <2>4 DEF CallInv
<1>3. ASSUME NEW up \in Upstreams, Ask(up) PROVE CallInv'
  BY <1>2, <1>3 DEF Ask
<1>4. ASSUME NEW shape \in AnswerShapes, NEW content \in Contents \cup {CutOff}, NEW ids \in BOOLEAN,
             Answer(shape, content, ids)
      PROVE  CallInv'
  BY <1>4, CallsByModel
<1>5. ASSUME NEW p \in SomePolicies, UpdatePolicy(p) PROVE CallInv'
  BY <1>2, <1>5 DEF UpdatePolicy
<1>6. CASE UNCHANGED vars
  BY <1>2, <1>6 DEF vars
<1> QED
  BY <1>1, <1>3, <1>4, <1>5, <1>6 DEF Next

-----------------------------------------------------------------------------
\* What is asked fits.

LEMMA OpenAITurnsFit ==
  ASSUME NEW D, NEW ms \in MessageLists(Marks, D), NEW P, P = {}, NEW together, together = FALSE,
         NEW apart, apart = TRUE, Runs(together, ms, P, P)
  PROVE  Fits(TurnsOnly(ms), apart)
<1>1. P \in Waits
  BY WaitsFacts
<1>2. PICK turns : turns = TurnsOnly(ms)
  OBVIOUS
<1>3. turns \in MessageLists(Marks, D) /\ NoSystem(turns) /\ Runs(together, turns, P, P)
  BY <1>1, <1>2, TurnsOnlyFacts
<1>4. Fits(turns, apart)
  BY <1>3, RunsFit
<1> QED
  BY <1>2, <1>4

LEMMA AnthropicTurnsFit ==
  ASSUME NEW D, NEW ms \in MessageLists(Marks, D), NEW P, P = {}, NEW together, together = TRUE,
         NEW apart, apart = FALSE, Runs(together, ms, P, P)
  PROVE  Fits(TurnsOnly(ms), apart)
<1>1. P \in Waits
  BY WaitsFacts
<1>2. PICK turns : turns = TurnsOnly(ms)
  OBVIOUS
<1>3. turns \in MessageLists(Marks, D) /\ NoSystem(turns) /\ Runs(together, turns, P, P)
  BY <1>1, <1>2, TurnsOnlyFacts
<1>4. Settled(turns, P) /\ turns \in Seq(Messages(Marks, D))
  BY <1>3, RunsSettled DEF MessageLists
<1>5. Fits(turns, apart)
  BY <1>4, SettledFits
<1> QED
  BY <1>2, <1>5

LEMMA SettledTurnsFit ==
  ASSUME NEW D, 0 \in D, NEW ms \in MessageLists(Marks, D), NEW all, SettledTurns(D, ms, all),
         NEW apart, apart = FALSE
  PROVE  Fits(TurnsOnly(all), apart)
<1>1. PICK turns \in MessageLists(Marks, D) : all = SystemOf(ms) \o turns /\ Settled(turns, {})
  BY DEF SettledTurns
<1>2. turns \in Seq(Messages(Marks, D)) /\ DOMAIN turns = 1..Len(turns)
  BY DEF MessageLists
<1>3. NoSystem(turns)
  BY <1>1, <1>2 DEF Settled, NoSystem
<1>4. TurnsOnly(all) = turns
  BY <1>1, <1>3, TurnsOfTranslated
<1>5. PICK none : none = {}
  OBVIOUS
<1>6. Settled(turns, none)
  BY <1>1, <1>5
<1>7. Fits(turns, apart)
  BY <1>2, <1>5, <1>6, SettledFits
<1> QED
  BY <1>4, <1>7

LEMMA TranslatedFits ==
  ASSUME NEW D, 0 \in D, NEW ms \in MessageLists(Marks, D), client \in {"openai", "anthropic"},
         NEW P, P = {}, NEW together, together = (client = "anthropic"), Runs(together, ms, P, P),
         NEW up \in {"openai", "anthropic", "bedrock"}, NEW apart, apart = (up = "openai")
  PROVE  Fits(TurnsOnly(Translated(up, ms)), apart)
<1>1. P \in Waits
  BY WaitsFacts
<1>2. CASE client = "openai"
  <2>1. together = FALSE
    BY <1>2
  <2>2. CASE up = "openai"
    <3>1. Translated(up, ms) = ms /\ apart = TRUE
      BY <1>2, <2>2 DEF Translated
    <3> QED
      BY <2>1, <3>1, OpenAITurnsFit
  <2>3. CASE up = "anthropic"
    <3>1. Translated(up, ms) = ToAnthropic(ms) /\ apart = FALSE
      BY <1>2, <2>3 DEF Translated
    <3>2. SettledTurns(D, ms, ToAnthropic(ms))
      BY <2>1, ToAnthropicSettled
    <3> QED
      BY <3>1, <3>2, SettledTurnsFit
  <2>4. CASE up = "bedrock"
    <3>1. Translated(up, ms) = ToBedrock(ms) /\ apart = FALSE
      BY <1>2, <2>4 DEF Translated
    <3>2. SettledTurns(D, ms, ToBedrock(ms))
      BY <2>1, ToBedrockSettled
    <3> QED
      BY <3>1, <3>2, SettledTurnsFit
  <2> QED
    BY <2>2, <2>3, <2>4
<1>3. CASE client = "anthropic"
  <2>1. together = TRUE
    BY <1>3
  <2>2. PICK out, no : out = ToOpenAI(ms) /\ no = FALSE
    OBVIOUS
  <2>3. out \in MessageLists(Marks, D)
    BY <2>2, ToOpenAIType
  <2>4. Runs(no, out, P, P)
    BY <1>1, <2>1, <2>2, ToOpenAIRuns
  <2>5. CASE up = "openai"
    <3>1. Translated(up, ms) = out /\ apart = TRUE
      BY <1>3, <2>2, <2>5 DEF Translated
    <3> QED
      BY <2>2, <2>3, <2>4, <3>1, OpenAITurnsFit
  <2>6. CASE up = "anthropic"
    <3>1. Translated(up, ms) = ms /\ apart = FALSE
      BY <1>3, <2>6 DEF Translated
    <3> QED
      BY <2>1, <3>1, AnthropicTurnsFit
  <2>7. CASE up = "bedrock"
    <3>1. Translated(up, ms) = ToBedrock(out) /\ apart = FALSE
      BY <1>3, <2>2, <2>7 DEF Translated
    <3>2. SettledTurns(D, out, ToBedrock(out))
      BY <2>2, <2>3, <2>4, ToBedrockSettled
    <3> QED
      BY <2>3, <3>1, <3>2, SettledTurnsFit
  <2> QED
    BY <2>5, <2>6, <2>7
<1> QED
  BY <1>2, <1>3

LEMMA CallsAnsweredIs == CallsAnswered <=> (Asked => Fits(Turns, upstream = "openai"))
BY Zenon DEF CallsAnswered, Fits, After, Calls, Results

LEMMA FitStep == TalkInv /\ SaidInv /\ CallInv /\ CallsAnswered /\ [Next]_vars => CallsAnswered'
<1> SUFFICES ASSUME TalkInv, SaidInv, CallInv, CallsAnswered, [Next]_vars PROVE CallsAnswered'
  OBVIOUS
<1>1. /\ CallsAnswered <=> (Asked => Fits(TurnsOnly(request), upstream = "openai"))
      /\ CallsAnswered' <=> (Asked' => Fits(TurnsOnly(request'), upstream' = "openai"))
  <2>1. CallsAnswered' <=> (Asked' => Fits(Turns, upstream = "openai")')
    BY CallsAnsweredIs, PTL
  <2>2. Fits(Turns, upstream = "openai")' <=> Fits(Turns', upstream' = "openai")
    BY DEF Fits, After, AllParts, Calls, Results, Ids
  <2>3. Turns' = TurnsOnly(request') /\ Turns = TurnsOnly(request)
    BY DEF Turns, TurnsOnly, Where
  <2> QED
    BY <2>1, <2>2, <2>3, CallsAnsweredIs
<1>2. ASSUME NEW up \in Upstreams, Ask(up) PROVE CallsAnswered'
  <2> DEFINE clean == Redacted(policy, "input", history)
  <2>1. SUFFICES ASSUME phase' = "asked" PROVE Fits(TurnsOnly(request'), upstream' = "openai")
    BY <1>1 DEF Asked
  <2>2. ~Blocked(policy, "input", history) /\ request' = Translated(up, clean) /\ upstream' = up /\ Open = {}
    BY <1>2, <2>1 DEF Ask, Refuse
  <2>3. PICK D : 0 \in D /\ history \in Talks(Marks, D)
    BY DEF TalkInv
  <2>4. clean \in MessageLists(Marks, D)
    <3>1. clean \in Talks(Allowed(policy, "input"), D)
      BY <2>2, <2>3, RedactedType DEF Sides, TalkInv
    <3>2. Allowed(policy, "input") \subseteq Marks
      BY DEF Allowed
    <3> QED
      BY <3>1, <3>2, FewerMarks, TalkIsMessages
  <2>5. PICK P, together, apart, ms, p :
          /\ P = {} /\ together = (client = "anthropic") /\ apart = (up = "openai") /\ ms = clean
          /\ p = policy
    OBVIOUS
  <2>6. Runs(together, history, P, P) /\ history \in MessageLists(Marks, D)
    BY <2>2, <2>3, <2>5, TalkIsMessages DEF CallInv
  <2>7. Runs(together, ms, P, P)
    BY <2>5, <2>6, RedactedRuns
  <2> HIDE DEF clean
  <2>8. up \in {"openai", "anthropic", "bedrock"} /\ client \in {"openai", "anthropic"}
    BY ProtocolsAssumption DEF TalkInv
  <2>9. Fits(TurnsOnly(Translated(up, ms)), apart)
    BY <2>3, <2>4, <2>5, <2>7, <2>8, TranslatedFits
  <2> QED
    BY <2>2, <2>5, <2>9
<1>3. ASSUME NEW content \in Contents,
             \/ System(content) \/ ToolResult(content)
             \/ \E shape \in UserShapes : User(shape, content)
             \/ \E more \in BOOLEAN : ToolResults(content, more)
      PROVE  phase' = "chat"
  BY <1>3, ClientSays DEF Chat
<1>4. ASSUME NEW shape \in AnswerShapes, NEW content \in Contents \cup {CutOff}, NEW ids \in BOOLEAN,
             Answer(shape, content, ids)
      PROVE  phase' # "asked"
  BY <1>4, Replies
<1>5. CASE \/ \E p \in SomePolicies : UpdatePolicy(p)
           \/ UNCHANGED vars
  <2>1. UNCHANGED <<request, upstream, phase>>
    BY <1>5 DEF UpdatePolicy, vars
  <2> QED
    BY <1>1, <2>1 DEF Asked
<1>6. CASE phase' # "asked"
  BY <1>6 DEF CallsAnswered, Asked
<1> QED
  BY <1>2, <1>3, <1>4, <1>5, <1>6 DEF Next

\* Every call is answered in the turn after the one that calls (for OpenAI, in the messages
\* after it), all of them and nothing before them, and none of them is without an id: for
\* any history, whichever upstreams have answered before, and whatever the guardrails have
\* redacted.  And turns for Anthropic alternate.  (The comment at
\* bridge_openai_anthropic.go:117-120; openAIMessagesToAnthropic, bedrockConverseInput,
\* anthropicUserMessageToOpenAI, anthropicResponseFromOpenAI.)
THEOREM TurnsFitEver == Spec => []TurnsFit
<1>1. Init => CallsAnswered
  BY DEF Init, CallsAnswered, Asked
<1>2. /\ TalkInv /\ SaidInv /\ NothingLost /\ CallInv /\ CallsAnswered /\ [Next]_vars
      => (TalkInv /\ SaidInv /\ NothingLost /\ CallInv /\ CallsAnswered)'
  BY TalkStep, SaidStep, CallsStep, FitStep
<1>3. Init => TalkInv /\ SaidInv /\ NothingLost /\ CallInv
  BY TalkInit, SaidInit, CallsInit
<1>4. Spec => []CallsAnswered
  BY <1>1, <1>2, <1>3, PTL DEF Spec
<1> QED
  BY <1>4, RolesAlternateEver, PTL DEF TurnsFit
=============================================================================

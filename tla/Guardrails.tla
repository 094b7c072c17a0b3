----------------------------- MODULE Guardrails -----------------------------
(***************************************************************************)
(* The guardrail policy, and what it does to messages.  A text is a        *)
(* sequence of pieces; a piece is known by its number, and by which rule   *)
(* finds it: "email" stands for what the built-in rules match, "code" for  *)
(* what an administrator's pattern matches.  Both look at the client's     *)
(* messages, and pass over strings that stand in an object under certain   *)
(* names ("id", "type", "model", "role", "provider", ...), at any depth.   *)
(* Where these are the protocol's own no secret stands there.  The         *)
(* arguments of a call are an object for a client of Anthropic's protocol; *)
(* what stands in them under such a name, or is itself a name, is a piece  *)
(* "named", and no rule finds it.                                          *)
(***************************************************************************)
EXTENDS Integers, Sequences, SequencesExt

Piece(n, is) == [n |-> n, is |-> is]
Part(kind, text, id) == [kind |-> kind, text |-> text, id |-> id]
Message(role, parts) == [role |-> role, parts |-> parts]

Actions == {"off", "redact", "block"}
Policies == [enabled : BOOLEAN, input : Actions, output : Actions,
             email : BOOLEAN, custom : {"none", "redact", "block"}]

DefaultPolicy == [enabled |-> FALSE, input |-> "redact", output |-> "redact",
                  email |-> TRUE, custom |-> "none"]

ActionOf(policy, phase) == IF policy.enabled THEN policy[phase] ELSE "off"

\* What the rules that are switched on look for.
Wanted(policy) ==
  (IF policy.email THEN {"email"} ELSE {}) \cup (IF policy.custom = "none" THEN {} ELSE {"code"})
Finds(policy, text) == {text[i].is : i \in DOMAIN text} \cap Wanted(policy)

\* A pattern may block by itself, whatever the action of the policy.
BlocksText(policy, action, text) ==
  action # "off" /\ \/ action = "block" /\ Finds(policy, text) # {}
                    \/ policy.custom = "block" /\ "code" \in Finds(policy, text)

RedactText(policy, action, text) ==
  IF action # "redact" THEN text
  ELSE [i \in DOMAIN text |->
          IF text[i].is \in Finds(policy, text) THEN Piece(text[i].n, "mark") ELSE text[i]]

\* Mutant of TextsOf: the arguments of calls are passed over.
TextsOfContents(messages) ==
  UNION {{messages[i].parts[j].text : j \in {k \in DOMAIN messages[i].parts : messages[i].parts[k].kind # "call"}}
         : i \in DOMAIN messages}

\* The walk goes through every object and list, the arguments of calls included, and
\* finds in them what is not "named".
TextsOf(messages) ==
  UNION {{messages[i].parts[j].text : j \in DOMAIN messages[i].parts} : i \in DOMAIN messages}

\* Something that blocks anywhere blocks the whole.
Blocked(policy, phase, messages) ==
  \E text \in TextsOf(messages) : BlocksText(policy, ActionOf(policy, phase), text)

RedactParts(policy, phase, parts) ==
  [j \in DOMAIN parts |-> [parts[j] EXCEPT !.text = RedactText(policy, ActionOf(policy, phase), @)]]
Redacted(policy, phase, messages) ==
  [i \in DOMAIN messages |-> [messages[i] EXCEPT !.parts = RedactParts(policy, phase, @)]]

\* A policy keeps what it finds out of the messages.
Clean(policy, phase, messages) ==
  ActionOf(policy, phase) # "off" =>
    \A i \in DOMAIN messages : \A j \in DOMAIN messages[i].parts :
      Finds(policy, messages[i].parts[j].text) = {}
=============================================================================

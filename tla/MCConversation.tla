--------------------------- MODULE MCConversation ---------------------------
(* Values for model checking Conversation.                                  *)
EXTENDS Conversation

MCUserShapes == {<<>>, <<"text", "data", "text">>, <<"url", "other", "text">>}
MCAnswerShapes == {<<"thought">>, <<"call">>, <<"text", "call", "call">>, <<"call", "text", "call">>}
MCContents == {<<"plain">>, <<"email", "code", "named", "image">>}

\* The default, redaction with a pattern that redacts, and a pattern that blocks.
MCPolicies ==
  {DefaultPolicy,
   [DefaultPolicy EXCEPT !.enabled = TRUE, !.custom = "redact"],
   [DefaultPolicy EXCEPT !.enabled = TRUE, !.input = "block", !.custom = "block"]}
=============================================================================

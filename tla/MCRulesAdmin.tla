---------------------------- MODULE MCRulesAdmin ----------------------------
(* Instances of RulesAdmin for TLC. *)
EXTENDS RulesAdmin

\* Two spellings of one term, another term, and a text of spaces only.
MCTexts == {"Spam", " spam ", "scam", " "}
MCNormOf == [x \in MCTexts |-> CASE x = " " -> "" [] x = "scam" -> x [] OTHER -> "spam"]

\* Two PATCHes that take the rows in opposite order.
MCPayloads == {<< <<"email", "block">>, <<"phone", "disabled">> >>,
               << <<"phone", "observe">>, <<"email", "observe">> >>}

MCMorePayloads ==
  MCPayloads \cup {<<>>, << <<"email", "unknown">> >>,
                   << <<"email", "disabled">>, <<"email", "observe">> >>}
=============================================================================

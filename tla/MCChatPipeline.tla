--------------------------- MODULE MCChatPipeline ---------------------------
(***************************************************************************)
(* Small instances of ChatPipeline, with two requests of one user.         *)
(* MCChatPipelineRules.cfg: content rules that change, every kind of       *)
(* reply, a failing statement or a crash.  MCChatPipelineSpend.cfg: costs  *)
(* and limits over a change of month, and progress.                        *)
(***************************************************************************)
EXTENDS ChatPipeline, TLC

CONSTANTS r1, r2, k1, u1

OneUser == [k \in Keys |-> u1]
FirstKey == [u \in Users |-> k1]

Usage(c) == [answer |-> "success", cost |-> c, pii |-> FALSE]
WithUsage == {Usage(1)}
NoUsage == {[answer |-> "success", cost |-> Null, pii |-> TRUE],
            [answer |-> "error", cost |-> Null, pii |-> FALSE]}

\* Months of two seconds: the last second of one, and the second one of the next.
NewMonth == {15, 30}
OneMoment == {10}

SameRequest == Permutations(Requests)
=============================================================================

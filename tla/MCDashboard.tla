---------------------------- MODULE MCDashboard ----------------------------
(* A small instance of Dashboard for TLC. *)
EXTENDS Dashboard, TLC

CONSTANTS r1, r2, i1, i2

Email(v) == [entity |-> "email", value |-> v]

Phone(v) == [entity |-> "phone", value |-> v]

Policy(action) == [e \in {"email", "phone"} |-> IF e = "email" THEN action ELSE "disabled"]

\* A value found twice, one of a disabled type and one in the answer, observed or blocked; a
\* term blocked in two texts, and another; a request over its limit.
PII(action) ==
  [gate |-> "open", terms |-> <<>>, policy |-> Policy(action),
   ingress |-> <<Email("x"), Email("x"), Phone("y")>>, egress |-> <<Email("z")>>]

MCCases == {PII("observe"), PII("block"), [PII("observe") EXCEPT !.terms = <<1, 1, 2>>],
            [PII("block") EXCEPT !.gate = "cost_limit"]}

MCUserLists == {<<"ana", "bob">>}

\* Within the second of the window's start, which sorts behind it, and within that of its
\* end: the first is left out of the window, the second is not.
MCInstants == {15, 25}
MCWindows == {<<10, 20>>, <<None, None>>}

SameRequest == Permutations(Requests) \cup Permutations(Ids)
=============================================================================

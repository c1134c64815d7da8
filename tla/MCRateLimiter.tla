--------------------------- MODULE MCRateLimiter ---------------------------
(***************************************************************************)
(* Small instances of RateLimiter.  MCRateLimiterBurst.cfg: concurrent     *)
(* requests of one user under one limit.  MCRateLimiterReconfigure.cfg:    *)
(* requests of two users under either of two limits or none, one saved     *)
(* while they run, with a failing statement or a crash.  (A disabled limit *)
(* is to a request what an empty table is.)                                *)
(***************************************************************************)
EXTENDS RateLimiter, TLC

CONSTANTS r1, r2, r3, r4, u1, u2

Tight == [enabled |-> TRUE, limit |-> 1, window |-> 2, quarantine |-> 1]
Loose == [enabled |-> TRUE, limit |-> 2, window |-> 1, quarantine |-> 2]

OneUser == [r \in Requests |-> u1]
TwoUsers == [r \in Requests |-> IF r = r3 THEN u2 ELSE u1]

TightOnly == {Tight}
AnyConfig == {Tight, Loose}

\* Tenths of a second: a window of two seconds that ends on a whole second.
WindowEdge == {0, 5, 20}

SameUser == Permutations(Requests)
SamePair == Permutations({r1, r2})
=============================================================================

------------------------------ MODULE CostLimit ------------------------------
(***************************************************************************)
(* The monthly cost limit of internal/proxy/cost_limit.go: what the proxy  *)
(* does to usage_records and to the limit of a tenant key, and nothing     *)
(* else.  A request arrives with the limit its key has at that moment, is  *)
(* checked against the rows its user has in the month in which its body    *)
(* has been read, is served or not, and at last adds a row of its own.     *)
(* The cost of the row is known only after the check, and other requests   *)
(* pass in between.                                                        *)
(*                                                                         *)
(* ChatPipeline details what happens to a request and implements this      *)
(* specification.                                                          *)
(***************************************************************************)
EXTENDS DBTime, DBSum, FiniteSets

CONSTANTS
  Requests,
  Users,
  Keys,        \* the active tenant keys
  NoKey,
  UserOf,      \* the user each key belongs to
  Limits,      \* the monthly limits of keys; NoLimit may be one
  Costs,       \* the costs stored for answered requests
  Null,        \* the SQL NULL in estimated_cost_eur
  Instants,
  MonthTicks   \* the length of a month

\* NULL in monthly_cost_limit_eur; the admin API stores positive numbers only.
NoLimit == 0

ASSUME RequestsAssumption == IsFiniteSet(Requests)
ASSUME KeysAssumption == NoKey \notin Keys /\ UserOf \in [Keys -> Users]
ASSUME MoneyAssumption == Limits \subseteq Nat /\ Costs \subseteq Nat /\ Null \notin Nat
\* Some answer is the dearest: models have prices and answers a length.
ASSUME DearestAssumption == \E c \in Costs : \A d \in Costs : d <= c
ASSUME TimeAssumption == /\ Instants \subseteq Nat
                         /\ MonthTicks \in Nat \ {0}
                         /\ MonthTicks % 10 = 0

VARIABLES
  now,
  stage,       \* how far each request is
  at,          \* the clock reading it is checked for
  key,         \* the key it arrived with
  limit,       \* the limit of that key when it arrived
  blocked,     \* requests answered "monthly cost limit exceeded"
  cost,        \* the estimated cost logRequest stores
  recordedAt,  \* logRequest's reading of the clock
  rows,        \* requests with a row in usage_records
  \* History variables: no action reads them.
  under,       \* the limit a request was found below, NoLimit if none was checked
  peak         \* the most requests of a user that were ever in flight together

request == <<stage, at, key, limit, blocked, cost, recordedAt>>
vars == <<now, request, rows, under, peak>>

\* From its check, or an answer without one, until its row is inserted, the cost of a
\* request is in nobody's sum.
InFlight == {"check", "open", "refused", "stamped"}

MonthStart(t) == t - (t % MonthTicks)

\* A month runs from its first instant to the first of the next, in the order of the text.
InMonth(x, t) ==
  /\ TextAtOrAfter(recordedAt[x], MonthStart(t))
  /\ TextBefore(recordedAt[x], MonthStart(t) + MonthTicks)

RowsOf(u) == {x \in rows : UserOf[key[x]] = u}

\* COALESCE(SUM(estimated_cost_eur), 0): a NULL does not count.
SumOf(S) == SumOver(cost, {x \in S : cost[x] # Null})

\* dashboardStore.usage over the month of t.
Spend(u, t) == SumOf({x \in RowsOf(u) : InMonth(x, t)})

Init ==
  /\ now \in Instants
  /\ stage = [r \in Requests |-> "idle"]
  /\ at = [r \in Requests |-> 0]
  /\ key = [r \in Requests |-> NoKey]
  /\ limit = [r \in Requests |-> NoLimit]
  /\ blocked = {}
  /\ cost = [r \in Requests |-> Null]
  /\ recordedAt = [r \in Requests |-> 0]
  /\ rows = {}
  /\ under = [r \in Requests |-> NoLimit]
  /\ peak = [u \in Users |-> 0]

-----------------------------------------------------------------------------

Goto(r, s) == stage' = [stage EXCEPT ![r] = s]

\* One more request of k's user is in flight.
CountFlights(k) ==
  LET flights == Cardinality({x \in Requests : /\ stage[x] \in InFlight
                                               /\ UserOf[key[x]] = UserOf[k]}) + 1
  IN peak' = [peak EXCEPT ![UserOf[k]] = IF flights > @ THEN flights ELSE @]

\* A request is authenticated with k, or acts for the owner of k.  It carries the limit the
\* key has at that moment; administrators change it at will.
Arrive(r, k, l) ==
  /\ stage[r] = "idle"
  /\ Goto(r, "arrived")
  /\ key' = [key EXCEPT ![r] = k]
  /\ limit' = [limit EXCEPT ![r] = l]
  /\ UNCHANGED <<now, at, blocked, cost, recordedAt, rows, under, peak>>

\* Its body has been read, after whatever time that took, and it is about to be checked.
Enter(r) ==
  /\ stage[r] = "arrived"
  /\ Goto(r, "check")
  /\ at' = [at EXCEPT ![r] = now]
  /\ CountFlights(key[r])
  /\ UNCHANGED <<now, key, limit, blocked, cost, recordedAt, rows, under>>

\* A request that is answered with an error before the check, its body read or not.
Refuse(r, k) ==
  /\ stage[r] = "idle" \/ (stage[r] = "arrived" /\ key[r] = k)
  /\ Goto(r, "refused")
  /\ key' = [key EXCEPT ![r] = k]
  /\ CountFlights(k)
  /\ UNCHANGED <<now, at, limit, blocked, cost, recordedAt, rows, under>>

\* Mutant of Check: a limit that is reached is not yet exceeded.
CheckAboveOnly(r) ==
  /\ stage[r] = "check"
  /\ Goto(r, "open")
  /\ \/ /\ limit[r] = NoLimit \/ Spend(UserOf[key[r]], at[r]) <= limit[r]
        /\ under' = [under EXCEPT ![r] = limit[r]]
        /\ UNCHANGED blocked
     \/ /\ limit[r] # NoLimit /\ Spend(UserOf[key[r]], at[r]) > limit[r]
        /\ blocked' = blocked \cup {r}
        /\ UNCHANGED under
  /\ UNCHANGED <<now, at, key, limit, cost, recordedAt, rows, peak>>

\* Mutant of Check: the rows of every month count.
CheckAllTime(r) ==
  /\ stage[r] = "check"
  /\ Goto(r, "open")
  /\ IF limit[r] # NoLimit /\ SumOf(RowsOf(UserOf[key[r]])) >= limit[r]
     THEN blocked' = blocked \cup {r} /\ UNCHANGED under
     ELSE under' = [under EXCEPT ![r] = limit[r]] /\ UNCHANGED blocked
  /\ UNCHANGED <<now, at, key, limit, cost, recordedAt, rows, peak>>

\* checkMonthlyCostLimit and its caller.
Check(r) ==
  /\ stage[r] = "check"
  /\ Goto(r, "open")
  /\ \/ /\ limit[r] = NoLimit \/ Spend(UserOf[key[r]], at[r]) < limit[r]
        /\ under' = [under EXCEPT ![r] = limit[r]]
        /\ UNCHANGED blocked
     \/ /\ limit[r] # NoLimit /\ Spend(UserOf[key[r]], at[r]) >= limit[r]
        /\ blocked' = blocked \cup {r}
        /\ UNCHANGED under
  /\ UNCHANGED <<now, at, key, limit, cost, recordedAt, rows, peak>>

\* The query fails: the request goes on unchecked.
CheckFails(r) ==
  /\ stage[r] = "check"
  /\ limit[r] # NoLimit
  /\ Goto(r, "open")
  /\ UNCHANGED <<now, at, key, limit, blocked, cost, recordedAt, rows, under, peak>>

\* The answer is known: logRequest estimates the cost, NULL for a refused or blocked
\* request, and reads the clock.
Stamp(r) ==
  /\ stage[r] \in {"open", "refused"}
  /\ Goto(r, "stamped")
  /\ \E c \in IF r \in blocked \/ stage[r] = "refused" THEN {Null} ELSE Costs \cup {Null} :
       cost' = [cost EXCEPT ![r] = c]
  /\ recordedAt' = [recordedAt EXCEPT ![r] = now]
  /\ UNCHANGED <<now, at, key, limit, blocked, rows, under, peak>>

Insert(r) ==
  /\ stage[r] = "stamped"
  /\ Goto(r, "recorded")
  /\ rows' = rows \cup {r}
  /\ UNCHANGED <<now, at, key, limit, blocked, cost, recordedAt, under, peak>>

\* The insert of one request fails, or the process dies with some in flight.
Lose(S) ==
  /\ S # {}
  /\ \A r \in S : stage[r] \in InFlight \cup {"arrived"}
  /\ stage' = [r \in Requests |-> IF r \in S THEN "gone" ELSE stage[r]]
  /\ UNCHANGED <<now, at, key, limit, blocked, cost, recordedAt, rows, under, peak>>

Tick ==
  /\ \E t \in Instants : t > now /\ now' = t
  /\ UNCHANGED <<request, rows, under, peak>>

Next ==
  \/ \E r \in Requests, k \in Keys : Refuse(r, k) \/ \E l \in Limits : Arrive(r, k, l)
  \/ \E r \in Requests : Enter(r) \/ Check(r) \/ CheckFails(r) \/ Stamp(r) \/ Insert(r)
  \/ \E S \in SUBSET Requests : Lose(S)
  \/ Tick

Spec == Init /\ [][Next]_vars

-----------------------------------------------------------------------------
(* Properties. *)

\* Rows stamped after the first instant of a month and within its first second: their
\* text sorts before that instant, so the query adds them to the month that is over.
StampedLate(x) == (recordedAt[x] % MonthTicks) \in 1..9

Dearest == CHOOSE c \in Costs : \A d \in Costs : d <= c

\* A monthly limit may be overrun, because the cost of a request is known only after its
\* check, but by no more than the requests of the user that were ever in flight together
\* can cost: the rows of a month that belong to requests found below a limit of l or
\* less sum up to less than l and that overrun.  It holds whatever the user's other keys
\* allow, for a limit changed on the way and for a request that was checked last month.
SpendBound ==
  \A u \in Users, l \in Limits \ {NoLimit}, t \in Instants :
    SumOf({x \in RowsOf(u) : /\ InMonth(x, t)
                             /\ ~StampedLate(x)
                             /\ under[x] \in 1..l})
      < l + peak[u] * Dearest

\* A request is answered "monthly cost limit exceeded" only if its user's rows of the
\* month its body was read in come up to the limit its key had on arrival, be it in an
\* earlier month.
CostBlockJustified ==
  \A r \in blocked : limit[r] > 0 /\ Spend(UserOf[key[r]], at[r]) >= limit[r]

\* README.md:20 promises a spend cap per tenant key: a request is blocked only if the
\* spend under its own key comes up to the key's limit.
CapIsPerKey ==
  \A r \in blocked :
    SumOf({x \in RowsOf(UserOf[key[r]]) : key[x] = key[r] /\ InMonth(x, at[r])}) >= limit[r]
=============================================================================

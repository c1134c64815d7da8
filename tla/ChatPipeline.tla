---------------------------- MODULE ChatPipeline ----------------------------
(***************************************************************************)
(* A chat completion on its way through the proxy: authentication, the     *)
(* reading of its body, the monthly cost limit, the rate limiter, the      *)
(* content rules, the provider, the upstream call, the reply to the client *)
(* and the three inserts that record it (internal/proxy/server.go,         *)
(* cost_limit.go and dashboard_store.go).                                  *)
(*                                                                         *)
(* Requests run concurrently, one goroutine each, and wait for their       *)
(* clients without a deadline when they read the body and when they write  *)
(* the reply.  A request reads the spend of its user before the upstream   *)
(* call and adds to it afterwards, with a provider, a clock and other      *)
(* requests in between; errors of the two limits let the request through,  *)
(* errors of the content rules stop it, and each insert may fail without   *)
(* the others.                                                             *)
(*                                                                         *)
(* The rate limiter's verdict is any of the three it can give here (module *)
(* RateLimiter says which), and so is the provider's reply.                *)
(***************************************************************************)
EXTENDS DBTime, DBSum, FiniteSets

CONSTANTS
  Requests,
  Users,
  Keys,        \* the active tenant keys
  NoKey,
  UserOf,      \* the user each key belongs to
  NewestKey,   \* the key of a user that findUserKeysByUserID lists first
  Limits,      \* the monthly limits administrators choose from; NoLimit is one
  Null,        \* the SQL NULL in estimated_cost_eur
  Replies,     \* the replies of providers
  Rules,       \* the rules that can stop a request for its text
  Instants,
  MonthTicks,  \* the length of a month
  MaxFaults    \* bound on failed SQL statements and crashes

\* NULL in monthly_cost_limit_eur; the admin API stores positive numbers only.
NoLimit == 0

\* A reply: its status below 400 or not, what its usage is estimated to cost, if it
\* reports usage, and whether a PII policy finds something in it.
Reply == [answer : {"success", "error"}, cost : Nat \cup {Null}, pii : BOOLEAN]

ASSUME RequestsAssumption == IsFiniteSet(Requests)
ASSUME KeysAssumption == /\ NoKey \notin Keys
                         /\ UserOf \in [Keys -> Users]
                         /\ NewestKey \in [Users -> Keys]
                         /\ \A u \in Users : UserOf[NewestKey[u]] = u
ASSUME MoneyAssumption == Limits \subseteq Nat /\ Null \notin Nat /\ Replies \subseteq Reply

\* What logRequest may store for a reply; without usage it is 0.
ReplyCosts == ({reply.cost : reply \in Replies} \ {Null}) \cup {0}

\* Some reply is the dearest: models have prices and replies a length.
ASSUME DearestAssumption == \E c \in ReplyCosts : \A d \in ReplyCosts : d <= c

\* A blocked term, and a PII policy whose action is to block.
ASSUME RulesAssumption == Rules \subseteq {"term", "pii"}
ASSUME TimeAssumption == /\ Instants \subseteq Nat
                         /\ MonthTicks \in Nat \ {0}
                         /\ MonthTicks % 10 = 0
ASSUME BoundsAssumption == MaxFaults \in Nat

VARIABLES
  now,
  limitOf,      \* monthly_cost_limit_eur of each key
  rules,        \* the rules in force
  pc,           \* the next statement of each request
  remote,       \* requests whose body comes, or whose reply has to go, over a connection
  at,           \* the clock reading its cost limit is checked for
  key,          \* the key it authenticated with
  limit,        \* the limit read with the key
  hits,         \* the rules its text breaks
  answer,       \* success or error: whether the status is below 400
  usage,        \* the estimated cost of the reply's usage, Null without usage
  found,        \* PII findings collected: ingress, egress
  outcome,      \* the guardrail that stopped it
  cost,         \* the cost logRequest stores
  recordedAt,   \* logRequest's reading of the clock
  usageRows,    \* requests with a row in usage_records
  findingRows,  \* <<request, direction>> rows in pii_findings
  outcomeRows,  \* <<request, outcome>> rows in guardrail_outcomes
  auditRows,    \* requests whose quarantine is in audit_events
  faults,
  \* History variables: no action reads them.
  under,        \* the limit a request was found below, NoLimit if none was checked
  peak,         \* the most requests of a user that were ever in flight together
  since,        \* the rules its text breaks that are in force ever since its body was read
  called,       \* requests sent to a provider
  lost          \* <<request, table>>: an insert failed

config == <<limitOf, rules>>
draft == <<remote, at, key, limit, hits>>
result == <<answer, usage, found, outcome>>
tables == <<usageRows, findingRows, outcomeRows, auditRows>>
history == <<under, peak, since, called, lost>>
stamp == <<cost, recordedAt>>
vars == <<now, config, pc, draft, result, stamp, tables, faults, history>>

\* From the cost limit to the insert into usage_records, a request is in flight:
\* its cost is not in the spend yet.
InFlight == {"cost", "rate", "audit", "terms", "policies", "provider", "upstream", "reply",
             "invalid", "log", "usage"}
Running == {"body"} \cup InFlight \cup {"findings", "outcomes"}
Ended == {"rejected", "done", "died"}

Outcomes == {"none", "cost_limit", "rate_block", "rate_quarantine", "nsfw_keyword"}

-----------------------------------------------------------------------------
(* The spend of a user in a month, as the query of dashboardStore.usage sums it. *)

MonthStart(t) == t - (t % MonthTicks)

\* A month runs from its first instant to the first of the next, in the order of the text.
InMonth(x, t) ==
  /\ TextAtOrAfter(recordedAt[x], MonthStart(t))
  /\ TextBefore(recordedAt[x], MonthStart(t) + MonthTicks)

RowsOf(u) == {x \in usageRows : UserOf[key[x]] = u}

\* COALESCE(SUM(estimated_cost_eur), 0): a NULL does not count.
SumOf(S) == SumOver(cost, {x \in S : cost[x] # Null})

Spend(u, t) == SumOf({x \in RowsOf(u) : InMonth(x, t)})

Init ==
  /\ now \in Instants
  /\ limitOf \in [Keys -> Limits]
  /\ rules \in SUBSET Rules
  /\ pc = [r \in Requests |-> "idle"]
  /\ remote = {}
  /\ at = [r \in Requests |-> 0]
  /\ key = [r \in Requests |-> NoKey]
  /\ limit = [r \in Requests |-> NoLimit]
  /\ hits = [r \in Requests |-> {}]
  /\ answer = [r \in Requests |-> "error"]
  /\ usage = [r \in Requests |-> Null]
  /\ found = [r \in Requests |-> {}]
  /\ outcome = [r \in Requests |-> "none"]
  /\ cost = [r \in Requests |-> Null]
  /\ recordedAt = [r \in Requests |-> 0]
  /\ usageRows = {}
  /\ findingRows = {}
  /\ outcomeRows = {}
  /\ auditRows = {}
  /\ faults = 0
  /\ under = [r \in Requests |-> NoLimit]
  /\ peak = [u \in Users |-> 0]
  /\ since = [r \in Requests |-> {}]
  /\ called = {}
  /\ lost = {}

-----------------------------------------------------------------------------
(* Arrival. *)

Goto(r, step) == pc' = [pc EXCEPT ![r] = step]

Fault == faults < MaxFaults /\ faults' = faults + 1

FlightsOf(u) == {x \in Requests : pc[x] \in InFlight /\ UserOf[key[x]] = u}

\* One more request of k's user is in flight.
CountFlights(k) ==
  LET flights == Cardinality(FlightsOf(UserOf[k])) + 1
  IN peak' = [peak EXCEPT ![UserOf[k]] = IF flights > @ THEN flights ELSE @]

\* The request carries the limit its key has now.
Arrive(r, k) ==
  /\ pc[r] = "idle"
  /\ Goto(r, "body")
  /\ key' = [key EXCEPT ![r] = k]
  /\ limit' = [limit EXCEPT ![r] = limitOf[k]]
  /\ UNCHANGED <<now, config, at, hits, result, stamp, tables, faults, history>>

\* authMiddleware, for a key that is known and active (module TenantKeys).
Authenticate(r, k) == Arrive(r, k) /\ remote' = remote \cup {r}

\* The dashboard playground and the test form act for a user without a key of theirs: they
\* take the limit of the user's newest key.  They build the body and collect the reply in
\* memory.
Playground(r, u) == Arrive(r, NewestKey[u]) /\ UNCHANGED remote

\* Mutant of Reject: a rejected request is recorded as well.
RejectAndLog(r) ==
  /\ pc[r] = "idle"
  /\ Goto(r, "log")
  /\ UNCHANGED <<now, config, draft, result, stamp, tables, faults, history>>

\* No bearer token, an unknown key or a failed lookup: the answer is 401 or 503, and
\* with no user to record it under, logRequest stores nothing.
Reject(r) ==
  /\ pc[r] = "idle"
  /\ Goto(r, "rejected")
  /\ UNCHANGED <<now, config, draft, result, stamp, tables, faults, history>>

\* An authenticated request that is no POST: a logged error, and its body is not read.
WrongMethod(r, k) ==
  /\ pc[r] = "idle"
  /\ Goto(r, "invalid")
  /\ key' = [key EXCEPT ![r] = k]
  /\ CountFlights(k)
  /\ UNCHANGED <<now, config, remote, at, limit, hits, result, stamp, tables, faults, under,
                 since, called, lost>>

\* The body has been read to its end and is valid, and the clock is read.  The server sets
\* no deadline for it (cmd/apiguard/main.go:40-43).
ReadBody(r) ==
  /\ pc[r] = "body"
  /\ Goto(r, "cost")
  /\ at' = [at EXCEPT ![r] = now]
  /\ \E broken \in SUBSET Rules : /\ hits' = [hits EXCEPT ![r] = broken]
                                  /\ since' = [since EXCEPT ![r] = broken \cap rules]
  /\ CountFlights(key[r])
  /\ UNCHANGED <<now, config, remote, key, limit, result, stamp, tables, faults, under,
                 called, lost>>

\* The client goes away before the end of the body, or the body is invalid: a logged error.
Malformed(r) ==
  /\ pc[r] = "body"
  /\ r \in remote
  /\ Goto(r, "invalid")
  /\ remote' = remote \ {r}
  /\ CountFlights(key[r])
  /\ UNCHANGED <<now, config, at, key, limit, hits, result, stamp, tables, faults, under,
                 since, called, lost>>

-----------------------------------------------------------------------------
(* The guardrails, in the order of handleChatCompletions. *)

Stop(r, o) ==
  /\ outcome' = [outcome EXCEPT ![r] = o]
  /\ Goto(r, "log")

\* Mutant of CheckCost: the limit is read again, after it was read with the key.
CheckCostNow(r) ==
  LET l == limitOf[key[r]]
  IN /\ pc[r] = "cost"
     /\ IF l = NoLimit \/ Spend(UserOf[key[r]], at[r]) < l
        THEN under' = [under EXCEPT ![r] = l] /\ Goto(r, "rate") /\ UNCHANGED outcome
        ELSE Stop(r, "cost_limit") /\ UNCHANGED under
     /\ UNCHANGED <<now, config, draft, answer, usage, found, stamp, tables, faults, peak,
                    since, called, lost>>

CheckCost(r) ==
  /\ pc[r] = "cost"
  /\ \/ /\ limit[r] = NoLimit \/ Spend(UserOf[key[r]], at[r]) < limit[r]
        /\ under' = [under EXCEPT ![r] = limit[r]]
        /\ Goto(r, "rate")
        /\ UNCHANGED outcome
     \/ /\ limit[r] # NoLimit /\ Spend(UserOf[key[r]], at[r]) >= limit[r]
        /\ Stop(r, "cost_limit")
        /\ UNCHANGED under
  /\ UNCHANGED <<now, config, draft, answer, usage, found, stamp, tables, faults,
                 peak, since, called, lost>>

\* The query failed: a warning is logged and the request goes on.
CheckCostFails(r) ==
  /\ pc[r] = "cost"
  /\ limit[r] # NoLimit
  /\ Fault
  /\ Goto(r, "rate")
  /\ UNCHANGED <<now, config, draft, result, stamp, tables, history>>

\* checkRateLimit; when this request opened a quarantine, an audit event follows.
\* Without a verdict (an error) the request goes on, as with "allowed".
CheckRate(r) ==
  /\ pc[r] = "rate"
  /\ \/ Goto(r, "terms") /\ UNCHANGED outcome
     \/ Stop(r, "rate_block")
     \/ Goto(r, "audit") /\ UNCHANGED outcome
  /\ UNCHANGED <<now, config, draft, answer, usage, found, stamp, tables, faults, history>>

\* The error of writeAuditEvent is ignored.
AuditQuarantine(r) ==
  /\ pc[r] = "audit"
  /\ \/ auditRows' = auditRows \cup {r} /\ UNCHANGED <<faults, lost>>
     \/ /\ Fault
        /\ auditRows' \in {auditRows, auditRows \cup {r}}
        /\ lost' = lost \cup {<<r, "audit">>}
  /\ Stop(r, "rate_quarantine")
  /\ UNCHANGED <<now, config, draft, answer, usage, found, stamp, usageRows, findingRows,
                 outcomeRows, under, peak, since, called>>

CheckTerms(r) ==
  /\ pc[r] = "terms"
  /\ IF "term" \in hits[r] \cap rules
     THEN Stop(r, "nsfw_keyword")
     ELSE Goto(r, "policies") /\ UNCHANGED outcome
  /\ UNCHANGED <<now, config, draft, answer, usage, found, stamp, tables, faults, history>>

\* A PII policy that does not block observes: the finding is recorded either way.
\* A blocking finding leaves no guardrail outcome.
CheckPolicies(r) ==
  /\ pc[r] = "policies"
  /\ found' = [found EXCEPT ![r] = IF "pii" \in hits[r] THEN {"ingress"} ELSE {}]
  /\ Goto(r, IF "pii" \in hits[r] \cap rules THEN "log" ELSE "provider")
  /\ UNCHANGED <<now, config, draft, answer, usage, outcome, stamp, tables, faults, history>>

\* Mutant of RuleLoadFails: an error lets the request through, as it does for the limits.
RuleLoadPasses(r) ==
  /\ pc[r] \in {"terms", "policies"}
  /\ Fault
  /\ Goto(r, IF pc[r] = "terms" THEN "policies" ELSE "provider")
  /\ UNCHANGED <<now, config, draft, result, stamp, tables, history>>

\* Terms or policies cannot be loaded: 500.
RuleLoadFails(r) ==
  /\ pc[r] \in {"terms", "policies"}
  /\ Fault
  /\ Goto(r, "log")
  /\ UNCHANGED <<now, config, draft, result, stamp, tables, history>>

-----------------------------------------------------------------------------
(* The provider. *)

\* resolveManagedProviderForModel finds a provider (module ProviderRegistry) or not.
Resolve(r) ==
  /\ pc[r] = "provider"
  /\ \/ Goto(r, "upstream") /\ called' = called \cup {r}
     \/ Goto(r, "log") /\ UNCHANGED called
  /\ UNCHANGED <<now, config, draft, result, stamp, tables, faults, under, peak, since, lost>>

\* The whole reply has arrived: any status, with usage or without, with PII in it or not.
\* Egress findings are recorded, never blocked.
Relay(r) ==
  /\ pc[r] = "upstream"
  /\ \E reply \in Replies :
       /\ answer' = [answer EXCEPT ![r] = reply.answer]
       /\ usage' = [usage EXCEPT ![r] = reply.cost]
       /\ found' = [found EXCEPT ![r] = IF reply.pii THEN @ \cup {"egress"} ELSE @]
  /\ Goto(r, "reply")
  /\ UNCHANGED <<now, config, draft, outcome, stamp, tables, faults, history>>

\* The client has taken the reply, or gone away.  The server sets no deadline for it either.
\* Its own answers are short enough to be buffered and are not waited for.
WriteReply(r) ==
  /\ pc[r] = "reply"
  /\ Goto(r, "log")
  /\ remote' = remote \ {r}
  /\ UNCHANGED <<now, config, at, key, limit, hits, result, stamp, tables, faults, history>>

\* Mutant of UpstreamTimesOut: the upstream call has no deadline.
UpstreamHangs(r) == pc[r] = "upstream" /\ UNCHANGED vars

\* 504 when UpstreamTimeout runs out.
UpstreamTimesOut(r) ==
  /\ pc[r] = "upstream"
  /\ Goto(r, "log")
  /\ UNCHANGED <<now, config, draft, result, stamp, tables, faults, history>>

\* 502: no connection, a reply cut short, or the client went away.
UpstreamBreaks(r) ==
  /\ pc[r] = "upstream"
  /\ Goto(r, "log")
  /\ UNCHANGED <<now, config, draft, result, stamp, tables, faults, history>>

-----------------------------------------------------------------------------
(* logRequest: the clock is read, then three inserts, each with its own fate. *)

\* The estimate if the reply had usage; otherwise 0 for a status below 400 and NULL
\* for an error.
StoredCost(r) ==
  IF usage[r] # Null THEN usage[r] ELSE IF answer[r] = "success" THEN 0 ELSE Null

Stamp(r) ==
  /\ pc[r] \in {"invalid", "log"}
  /\ cost' = [cost EXCEPT ![r] = StoredCost(r)]
  /\ recordedAt' = [recordedAt EXCEPT ![r] = now]
  /\ Goto(r, "usage")
  /\ UNCHANGED <<now, config, draft, result, tables, faults, history>>

InsertUsage(r) ==
  /\ pc[r] = "usage"
  /\ usageRows' = usageRows \cup {r}
  /\ Goto(r, "findings")
  /\ UNCHANGED <<now, config, draft, result, stamp, findingRows, outcomeRows, auditRows,
                 faults, history>>

InsertFindings(r) ==
  /\ pc[r] = "findings"
  /\ findingRows' = findingRows \cup ({r} \X found[r])
  /\ Goto(r, "outcomes")
  /\ UNCHANGED <<now, config, draft, result, stamp, usageRows, outcomeRows, auditRows,
                 faults, history>>

InsertOutcomes(r) ==
  /\ pc[r] = "outcomes"
  /\ outcomeRows' = outcomeRows \cup ({r} \X ({outcome[r]} \ {"none"}))
  /\ Goto(r, "done")
  /\ UNCHANGED <<now, config, draft, result, stamp, usageRows, findingRows, auditRows,
                 faults, history>>

\* Mutant of InsertFails: logRequest returns at the first error.
InsertFailureEnds(r) ==
  /\ Fault
  /\ pc[r] \in {"usage", "findings", "outcomes"}
  /\ lost' = lost \cup {<<r, pc[r]>>}
  /\ Goto(r, "done")
  /\ UNCHANGED <<now, config, draft, result, stamp, tables, under, peak, since, called>>

\* An insert reports an error, before or after it took effect; logRequest goes on with
\* the next table.  Findings are inserted one by one until one fails.
InsertFails(r) ==
  /\ Fault
  /\ \/ /\ pc[r] = "usage"
        /\ usageRows' \in {usageRows, usageRows \cup {r}}
        /\ lost' = lost \cup {<<r, "usage">>}
        /\ Goto(r, "findings")
        /\ UNCHANGED <<findingRows, outcomeRows>>
     \/ /\ pc[r] = "findings" /\ found[r] # {}
        /\ \E first \in {{}, {"ingress"}, found[r]} :
             findingRows' = findingRows \cup ({r} \X (first \cap found[r]))
        /\ lost' = lost \cup {<<r, "findings">>}
        /\ Goto(r, "outcomes")
        /\ UNCHANGED <<usageRows, outcomeRows>>
     \/ /\ pc[r] = "outcomes" /\ outcome[r] # "none"
        /\ outcomeRows' \in {outcomeRows, outcomeRows \cup {<<r, outcome[r]>>}}
        /\ lost' = lost \cup {<<r, "outcomes">>}
        /\ Goto(r, "done")
        /\ UNCHANGED <<usageRows, findingRows>>
  /\ UNCHANGED <<now, config, draft, result, stamp, auditRows, under, peak, since, called>>

-----------------------------------------------------------------------------
(* Administrators, the clock and crashes. *)

\* PATCH /user-keys/<id> sets or clears the limit.
SetLimit(k, l) ==
  /\ l # limitOf[k]
  /\ limitOf' = [limitOf EXCEPT ![k] = l]
  /\ UNCHANGED <<now, rules, pc, draft, result, stamp, tables, faults, history>>

EnableRule(rule) ==
  /\ rule \notin rules
  /\ rules' = rules \cup {rule}
  /\ UNCHANGED <<now, limitOf, pc, draft, result, stamp, tables, faults, history>>

DisableRule(rule) ==
  /\ rule \in rules
  /\ rules' = rules \ {rule}
  /\ since' = [r \in Requests |-> since[r] \ {rule}]
  /\ UNCHANGED <<now, limitOf, pc, draft, result, stamp, tables, faults, under, peak,
                 called, lost>>

Tick ==
  /\ \E t \in Instants : t > now /\ now' = t
  /\ UNCHANGED <<config, pc, draft, result, stamp, tables, faults, history>>

\* The process dies: requests end where they are, rows already inserted stay.
Crash ==
  /\ \E r \in Requests : pc[r] \in Running
  /\ Fault
  /\ pc' = [r \in Requests |-> IF pc[r] \in Running THEN "died" ELSE pc[r]]
  /\ UNCHANGED <<now, config, draft, result, stamp, tables, history>>

\* The steps a running request takes without a failing statement and without its client.
Proceed(r) ==
  \/ r \notin remote /\ (ReadBody(r) \/ WriteReply(r))
  \/ CheckCost(r) \/ CheckRate(r) \/ AuditQuarantine(r) \/ CheckTerms(r) \/ CheckPolicies(r)
  \/ Resolve(r)
  \/ UpstreamTimesOut(r)
  \/ Stamp(r) \/ InsertUsage(r) \/ InsertFindings(r) \/ InsertOutcomes(r)

Next ==
  \/ \E r \in Requests, k \in Keys : Authenticate(r, k) \/ WrongMethod(r, k)
  \/ \E r \in Requests, u \in Users : Playground(r, u)
  \/ \E r \in Requests : ReadBody(r) \/ Malformed(r) \/ WriteReply(r)
  \/ \E r \in Requests : Reject(r) \/ Proceed(r) \/ Relay(r) \/ UpstreamBreaks(r)
  \/ \E r \in Requests : CheckCostFails(r) \/ RuleLoadFails(r) \/ InsertFails(r)
  \/ \E k \in Keys, l \in Limits : SetLimit(k, l)
  \/ \E rule \in Rules : EnableRule(rule) \/ DisableRule(rule)
  \/ Tick
  \/ Crash

Spec == Init /\ [][Next]_vars

\* A goroutine with a statement to execute executes it in the end, and the deadline of an
\* upstream call passes.  Nothing is assumed of providers, clients or administrators: a
\* client may send its body and take its reply as slowly as it likes, or never.
Fairness == \A r \in Requests : WF_vars(Proceed(r))

FairSpec == Spec /\ Fairness

-----------------------------------------------------------------------------
(* Properties. *)

\* Every variable keeps its type, and a request that has entered has a key.
TypeOK ==
  /\ now \in Instants
  /\ limitOf \in [Keys -> Limits]
  /\ rules \subseteq Rules
  /\ pc \in [Requests -> {"idle"} \cup Running \cup Ended]
  /\ remote \subseteq Requests
  /\ at \in [Requests -> Instants \cup {0}]
  /\ key \in [Requests -> Keys \cup {NoKey}]
  /\ \A r \in Requests : pc[r] \in Running => key[r] \in Keys
  /\ limit \in [Requests -> Limits \cup {NoLimit}]
  /\ hits \in [Requests -> SUBSET Rules]
  /\ answer \in [Requests -> {"success", "error"}]
  /\ usage \in [Requests -> {reply.cost : reply \in Replies} \cup {Null}]
  /\ found \in [Requests -> SUBSET {"ingress", "egress"}]
  /\ outcome \in [Requests -> Outcomes]
  /\ cost \in [Requests -> {reply.cost : reply \in Replies} \cup {0, Null}]
  /\ recordedAt \in [Requests -> Instants \cup {0}]
  /\ usageRows \subseteq {r \in Requests : key[r] \in Keys}
  /\ findingRows \subseteq Requests \X {"ingress", "egress"}
  /\ outcomeRows \subseteq Requests \X Outcomes
  /\ auditRows \subseteq Requests
  /\ faults \in Nat
  /\ under \in [Requests -> Limits \cup {NoLimit}]
  /\ peak \in [Users -> Nat]
  /\ since \in [Requests -> SUBSET Rules]
  /\ called \subseteq Requests
  /\ lost \subseteq Requests \X {"audit", "usage", "findings", "outcomes"}

\* No request is sent to a provider with a text that breaks a rule which was in force
\* when its body had been read and has been ever since, whatever limits, statements or
\* processes failed: the two limits let a request through on an error, the rules do not.
RulesHold ==
  \A r \in called : since[r] = {}

\* The tables agree with each other and with what happened, except where an insert
\* failed: the dashboard counts no PII finding or guardrail outcome of a request its log
\* does not show, a quarantine on record was audited, and a finished request is recorded
\* in full.  Of a request that died, the tables hold a beginning.
EvidenceAgrees ==
  \A r \in Requests :
    /\ (\E row \in findingRows \cup outcomeRows : row[1] = r) =>
         r \in usageRows \/ <<r, "usage">> \in lost
    /\ <<r, "rate_quarantine">> \in outcomeRows =>
         r \in auditRows \/ <<r, "audit">> \in lost
    /\ pc[r] = "done" =>
         /\ r \in usageRows \/ <<r, "usage">> \in lost
         /\ {r} \X found[r] \subseteq findingRows \/ <<r, "findings">> \in lost
         /\ outcome[r] = "none" \/ <<r, outcome[r]>> \in outcomeRows
              \/ <<r, "outcomes">> \in lost

\* The two waits without a deadline: io.ReadAll(r.Body) and w.Write(upstreamBody).
WaitsForClient(r) == r \in remote /\ pc[r] \in {"body", "reply"}

\* A request that got past authentication is recorded in the end, even if its provider never
\* answers, unless the process dies or it comes to wait for its client, which may neither send
\* its body nor take its reply for ever.  Nothing else holds it up, not the clients of other
\* requests; and the requests of the playground, which have no such client, always end.
RequestsEnd ==
  \A r \in Requests :
    (pc[r] \in Running) ~> (pc[r] \in {"done", "died"} \/ WaitsForClient(r))

\* server.go:907-913 says of a NULL cost that the request was blocked before the upstream
\* call, and that a request whose upstream call returned no usage is stored with cost 0.
NullMeansNotCalled ==
  \A x \in usageRows : cost[x] = Null => x \notin called

\* To the cost limit, a request past its check is open until logRequest has its cost,
\* and gone once it can no longer add a row.
Stage(r) ==
  CASE pc[r] \in {"idle", "rejected"} -> "idle"
    [] pc[r] = "body" -> "arrived"
    [] pc[r] = "cost" -> "check"
    [] pc[r] \in {"rate", "audit", "terms", "policies", "provider", "upstream", "reply",
                  "log"} -> "open"
    [] pc[r] = "invalid" -> "refused"
    [] pc[r] = "usage" -> "stamped"
    [] OTHER -> IF r \in usageRows THEN "recorded" ELSE "gone"

Limiter ==
  INSTANCE CostLimit WITH
    Costs <- ReplyCosts,
    stage <- [r \in Requests |-> Stage(r)],
    blocked <- {r \in Requests : outcome[r] = "cost_limit"},
    rows <- usageRows

\* Whatever happens to requests on their way, and wherever it ends, the proxy treats the
\* spend of its users as CostLimit says.
RefinesCostLimit == Limiter!Spec
=============================================================================

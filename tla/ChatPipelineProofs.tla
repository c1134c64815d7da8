-------------------------- MODULE ChatPipelineProofs --------------------------
(***************************************************************************)
(* Proofs about ChatPipeline, for any number of requests, users, keys,     *)
(* limits and replies, and any number of failures: types, the content      *)
(* rules, the evidence in the tables, and that the pipeline implements the *)
(* abstract cost limit.                                                    *)
(***************************************************************************)
EXTENDS ChatPipeline, FiniteSetTheorems, TLAPS

\* The cases of a step, for the lemmas below.
LEMMA StepCases ==
  ASSUME [Next]_vars
  PROVE  \/ \E r \in Requests, k \in Keys :
              \/ Arrive(r, k) /\ remote' \in {remote, remote \cup {r}}
              \/ WrongMethod(r, k)
         \/ \E r \in Requests :
              \/ ReadBody(r) \/ Malformed(r) \/ WriteReply(r)
              \/ Reject(r) \/ CheckCost(r) \/ CheckCostFails(r)
              \/ CheckRate(r) \/ AuditQuarantine(r) \/ CheckTerms(r) \/ CheckPolicies(r)
              \/ RuleLoadFails(r) \/ Resolve(r) \/ Relay(r) \/ UpstreamTimesOut(r)
              \/ UpstreamBreaks(r)
              \/ Stamp(r) \/ InsertUsage(r) \/ InsertFindings(r) \/ InsertOutcomes(r)
              \/ InsertFails(r)
         \/ \E k \in Keys, l \in Limits : SetLimit(k, l)
         \/ \E rule \in Rules : EnableRule(rule) \/ DisableRule(rule)
         \/ Tick
         \/ Crash
         \/ UNCHANGED vars
BY KeysAssumption DEF Next, Proceed, Authenticate, Playground

-----------------------------------------------------------------------------
(* Types. *)

LEMMA InitTypeOK == Init => TypeOK
BY DEF Init, TypeOK, Outcomes, Running, InFlight, Ended

LEMMA FlightsCount == ASSUME NEW u PROVE Cardinality(FlightsOf(u)) \in Nat
<1>1. FlightsOf(u) \in SUBSET Requests
  BY DEF FlightsOf
<1>2. QED
  BY <1>1, RequestsAssumption, FS_Subset, FS_CardinalityType

Costs == {reply.cost : reply \in Replies}

LEMMA NextTypeOK == TypeOK /\ [Next]_vars => TypeOK'
<1> SUFFICES ASSUME TypeOK, [Next]_vars PROVE TypeOK'
  OBVIOUS
<1> USE DEF TypeOK, Goto, Running, InFlight, Ended, config, draft, result, stamp, tables, history
<1>1. ASSUME NEW r \in Requests, NEW k \in Keys, Arrive(r, k),
             remote' \in {remote, remote \cup {r}}
      PROVE  TypeOK'
  <2>1. /\ pc' \in [Requests -> {"idle"} \cup Running \cup Ended]
        /\ key' \in [Requests -> Keys \cup {NoKey}]
        /\ \A x \in Requests : pc'[x] \in Running => key'[x] \in Keys
        /\ \A x \in Requests : key[x] \in Keys => key'[x] \in Keys
    BY <1>1 DEF Arrive
  <2>2. usageRows' \subseteq {x \in Requests : key'[x] \in Keys}
    BY <1>1, <2>1 DEF Arrive
  <2>3. limit' \in [Requests -> Limits \cup {NoLimit}] /\ remote' \subseteq Requests
    BY <1>1 DEF Arrive
  <2>4. QED
    BY <1>1, <2>1, <2>2, <2>3 DEF Arrive
<1>2. ASSUME NEW k \in Keys, CountFlights(k) PROVE peak' \in [Users -> Nat]
  <2> DEFINE n == Cardinality(FlightsOf(UserOf[k])) + 1
  <2>1. n \in Nat
    BY FlightsCount
  <2>2. peak' = [peak EXCEPT ![UserOf[k]] = IF n > @ THEN n ELSE @]
    BY <1>2 DEF CountFlights
  <2> HIDE DEF n
  <2>3. QED
    BY <2>1, <2>2
<1>3. ASSUME NEW r \in Requests, NEW k \in Keys, WrongMethod(r, k) PROVE TypeOK'
  <2>1. peak' \in [Users -> Nat]
    BY <1>2, <1>3 DEF WrongMethod
  <2>2. /\ pc' \in [Requests -> {"idle"} \cup Running \cup Ended]
        /\ key' \in [Requests -> Keys \cup {NoKey}]
        /\ \A x \in Requests : pc'[x] \in Running => key'[x] \in Keys
        /\ \A x \in Requests : key[x] \in Keys => key'[x] \in Keys
    BY <1>3 DEF WrongMethod
  <2>3. usageRows' \subseteq {x \in Requests : key'[x] \in Keys}
    BY <1>3, <2>2 DEF WrongMethod
  <2>4. QED
    BY <1>3, <2>1, <2>2, <2>3 DEF WrongMethod
<1>4. ASSUME NEW r \in Requests, ReadBody(r) PROVE TypeOK'
  <2>1. key[r] \in Keys
    BY <1>4 DEF ReadBody
  <2>2. peak' \in [Users -> Nat]
    BY <1>2, <1>4, <2>1 DEF ReadBody
  <2>3. hits' \in [Requests -> SUBSET Rules] /\ since' \in [Requests -> SUBSET Rules]
    BY <1>4 DEF ReadBody
  <2>4. /\ pc' \in [Requests -> {"idle"} \cup Running \cup Ended]
        /\ \A x \in Requests : pc'[x] \in Running => key[x] \in Keys
        /\ at' \in [Requests -> Instants \cup {0}]
    BY <1>4 DEF ReadBody
  <2>5. QED
    BY <1>4, <2>2, <2>3, <2>4 DEF ReadBody
<1>5. ASSUME NEW r \in Requests, Malformed(r) PROVE TypeOK'
  <2>1. key[r] \in Keys
    BY <1>5 DEF Malformed
  <2>2. peak' \in [Users -> Nat]
    BY <1>2, <1>5, <2>1 DEF Malformed
  <2>3. /\ pc' \in [Requests -> {"idle"} \cup Running \cup Ended]
        /\ \A x \in Requests : pc'[x] \in Running => key[x] \in Keys
    BY <1>5 DEF Malformed
  <2>4. QED
    BY <1>5, <2>2, <2>3 DEF Malformed
<1>6. ASSUME NEW r \in Requests, WriteReply(r) PROVE TypeOK'
  BY <1>6 DEF WriteReply
<1>7. ASSUME NEW r \in Requests, Reject(r) \/ CheckCost(r) \/ CheckCostFails(r) PROVE TypeOK'
  <2>1. CASE Reject(r) \/ CheckCostFails(r)
    BY <2>1 DEF Reject, CheckCostFails, Fault
  <2>2. CASE CheckCost(r) /\ Goto(r, "rate") /\ under' = [under EXCEPT ![r] = limit[r]]
             /\ UNCHANGED outcome
    <3>1. under' \in [Requests -> Limits \cup {NoLimit}]
      BY <2>2
    <3>2. pc' \in [Requests -> {"idle"} \cup Running \cup Ended]
            /\ \A x \in Requests : pc'[x] \in Running => key[x] \in Keys
      BY <2>2 DEF CheckCost
    <3>3. UNCHANGED <<now, config, draft, answer, usage, found, stamp, tables, faults,
                      peak, since, called, lost, outcome>>
      BY <2>2 DEF CheckCost
    <3>4. QED
      BY <3>1, <3>2, <3>3
  <2>3. CASE CheckCost(r) /\ Stop(r, "cost_limit")
    BY <2>3 DEF CheckCost, Stop, Outcomes
  <2>4. QED
    BY <1>7, <2>1, <2>2, <2>3 DEF CheckCost
<1>8. ASSUME NEW r \in Requests, CheckRate(r) \/ AuditQuarantine(r) PROVE TypeOK'
  <2>1. CASE CheckRate(r)
    BY <2>1 DEF CheckRate, Stop, Outcomes
  <2>2. CASE AuditQuarantine(r)
    BY <2>2 DEF AuditQuarantine, Stop, Outcomes, Fault
  <2>3. QED
    BY <1>8, <2>1, <2>2
<1>9. ASSUME NEW r \in Requests, CheckTerms(r) \/ CheckPolicies(r) \/ RuleLoadFails(r) PROVE TypeOK'
  <2>1. CASE CheckTerms(r)
    BY <2>1 DEF CheckTerms, Stop, Outcomes
  <2>2. CASE CheckPolicies(r)
    <3>1. found' \in [Requests -> SUBSET {"ingress", "egress"}]
      BY <2>2 DEF CheckPolicies
    <3>2. QED
      BY <2>2, <3>1 DEF CheckPolicies
  <2>3. CASE RuleLoadFails(r)
    BY <2>3 DEF RuleLoadFails, Fault
  <2>4. QED
    BY <1>9, <2>1, <2>2, <2>3
<1>10. ASSUME NEW r \in Requests, Resolve(r) \/ UpstreamTimesOut(r) \/ UpstreamBreaks(r) PROVE TypeOK'
  <2>1. CASE Resolve(r)
    BY <2>1 DEF Resolve
  <2>2. CASE UpstreamTimesOut(r)
    BY <2>2 DEF UpstreamTimesOut
  <2>3. CASE UpstreamBreaks(r)
    BY <2>3 DEF UpstreamBreaks
  <2>4. QED
    BY <1>10, <2>1, <2>2, <2>3
<1>11. ASSUME NEW r \in Requests, Relay(r) PROVE TypeOK'
  <2>1. PICK reply \in Replies :
          /\ answer' = [answer EXCEPT ![r] = reply.answer]
          /\ usage' = [usage EXCEPT ![r] = reply.cost]
          /\ found' = [found EXCEPT ![r] = IF reply.pii THEN @ \cup {"egress"} ELSE @]
    BY <1>11 DEF Relay
  <2>2. reply.answer \in {"success", "error"}
    BY MoneyAssumption DEF Reply
  <2>3. answer' \in [Requests -> {"success", "error"}]
    BY <2>1, <2>2
  <2>4. usage' \in [Requests -> Costs \cup {Null}]
    BY <2>1 DEF Costs
  <2>5. found' \in [Requests -> SUBSET {"ingress", "egress"}]
    BY <2>1
  <2>6. QED
    BY <1>11, <2>3, <2>4, <2>5 DEF Relay, Costs
<1>12. ASSUME NEW r \in Requests, Stamp(r) PROVE TypeOK'
  <2>1. StoredCost(r) \in Costs \cup {0, Null}
    BY DEF StoredCost, Costs
  <2>2. QED
    BY <1>12, <2>1 DEF Stamp, Costs
<1>13. ASSUME NEW r \in Requests, InsertUsage(r) \/ InsertFindings(r) \/ InsertOutcomes(r) PROVE TypeOK'
  <2>1. CASE InsertUsage(r)
    BY <2>1 DEF InsertUsage
  <2>2. CASE InsertFindings(r)
    BY <2>2 DEF InsertFindings
  <2>3. CASE InsertOutcomes(r)
    BY <2>3 DEF InsertOutcomes
  <2>4. QED
    BY <1>13, <2>1, <2>2, <2>3
<1>14. ASSUME NEW r \in Requests, InsertFails(r) PROVE TypeOK'
  <2>1. CASE pc[r] = "usage"
    BY <1>14, <2>1 DEF InsertFails, Fault
  <2>2. CASE pc[r] = "findings"
    <3>1. PICK first \in {{}, {"ingress"}, found[r]} :
            findingRows' = findingRows \cup ({r} \X (first \cap found[r]))
      BY <1>14, <2>2 DEF InsertFails
    <3>2. findingRows' \subseteq Requests \X {"ingress", "egress"}
      BY <3>1
    <3>3. QED
      BY <1>14, <2>2, <3>2 DEF InsertFails, Fault
  <2>3. CASE pc[r] = "outcomes"
    BY <1>14, <2>3 DEF InsertFails, Fault
  <2>4. QED
    BY <1>14, <2>1, <2>2, <2>3 DEF InsertFails
<1>15. ASSUME NEW k \in Keys, NEW l \in Limits, SetLimit(k, l) PROVE TypeOK'
  BY <1>15 DEF SetLimit
<1>16. ASSUME NEW rule \in Rules, EnableRule(rule) \/ DisableRule(rule) PROVE TypeOK'
  BY <1>16 DEF EnableRule, DisableRule
<1>17. CASE Tick
  BY <1>17 DEF Tick
<1>18. CASE Crash
  BY <1>18 DEF Crash, Fault
<1>19. CASE UNCHANGED vars
  BY <1>19 DEF vars
<1>20. QED
  BY StepCases, <1>1, <1>3, <1>4, <1>5, <1>6, <1>7, <1>8, <1>9, <1>10, <1>11, <1>12, <1>13,
     <1>14, <1>15, <1>16, <1>17, <1>18, <1>19

\* Every variable of the pipeline keeps its type, and a request on its way has a key.
THEOREM TypeCorrect == Spec => []TypeOK
<1>1. Init => TypeOK
  BY InitTypeOK
<1>2. TypeOK /\ [Next]_vars => TypeOK'
  BY NextTypeOK
<1>3. QED
  BY <1>1, <1>2, PTL DEF Spec

-----------------------------------------------------------------------------
(* The content rules. *)

\* What a request has passed, of the rules its text breaks that are in force ever since its
\* body was read.
Passed(r) ==
  /\ since[r] \subseteq hits[r]
  /\ pc[r] \in {"idle"} \cup Running => since[r] \subseteq rules
  /\ pc[r] \in {"policies", "provider"} => "term" \notin since[r]
  /\ pc[r] = "provider" => "pii" \notin since[r]
  /\ r \in called => since[r] = {}
  /\ pc[r] \in {"idle", "body"} => r \notin called

RulesInv == TypeOK /\ \A r \in Requests : Passed(r)

\* A step that has nothing to do with the rules.
LEMMA RulesAside ==
  ASSUME RulesInv, NEW r \in Requests, NEW s \in Running \cup Ended,
         pc[r] \in {"idle"} \cup Running, s \notin {"policies", "provider"},
         s = "body" => pc[r] = "idle",
         pc' = [pc EXCEPT ![r] = s], UNCHANGED <<rules, hits, since, called>>
  PROVE  \A x \in Requests : Passed(x)'
<1> SUFFICES ASSUME NEW x \in Requests PROVE Passed(x)'
  OBVIOUS
<1>1. Passed(x) /\ Passed(r)
  BY DEF RulesInv
<1>2. pc'[x] = IF x = r THEN s ELSE pc[x]
  BY DEF RulesInv, TypeOK
<1>3. s # "idle"
  BY DEF Running, InFlight, Ended
<1>4. QED
  BY <1>1, <1>2, <1>3 DEF Passed

LEMMA NextRulesInv == RulesInv /\ [Next]_vars => \A x \in Requests : Passed(x)'
<1> SUFFICES ASSUME RulesInv, [Next]_vars PROVE \A x \in Requests : Passed(x)'
  OBVIOUS
<1>0. \A x \in Requests : Passed(x)
  BY DEF RulesInv
<1>1. ASSUME NEW r \in Requests, ReadBody(r), NEW x \in Requests PROVE Passed(x)'
  <2>1. CASE x = r
    <3>1. /\ pc'[r] = "cost" /\ since'[r] = hits'[r] \cap rules
          /\ r \notin called /\ UNCHANGED <<rules, called>>
      BY <1>0, <1>1 DEF ReadBody, RulesInv, TypeOK, Goto, Passed, config
    <3>2. QED
      BY <2>1, <3>1 DEF Passed
  <2>2. CASE x # r
    <3>1. pc'[x] = pc[x] /\ since'[x] = since[x] /\ hits'[x] = hits[x] /\ UNCHANGED <<rules, called>>
      BY <1>1, <2>2 DEF ReadBody, RulesInv, TypeOK, Goto, config
    <3>2. QED
      BY <1>0, <3>1 DEF Passed
  <2>3. QED
    BY <2>1, <2>2
<1>2. ASSUME NEW r \in Requests, NEW k \in Keys, Arrive(r, k) \/ WrongMethod(r, k)
      PROVE  \A x \in Requests : Passed(x)'
  BY <1>2, RulesAside DEF Arrive, WrongMethod, Goto, config, history, Running, InFlight
<1>3. ASSUME NEW r \in Requests, NEW s \in Running \cup Ended, s \notin {"policies", "provider"},
             s # "body", pc[r] \in {"idle"} \cup Running, Goto(r, s),
             UNCHANGED <<rules, hits, since, called>>
      PROVE  \A x \in Requests : Passed(x)'
  BY <1>3, RulesAside DEF Goto
<1>4. ASSUME NEW r \in Requests,
             \/ Reject(r) \/ CheckCost(r) \/ CheckCostFails(r) \/ CheckRate(r) \/ AuditQuarantine(r)
             \/ RuleLoadFails(r) \/ Relay(r) \/ UpstreamTimesOut(r) \/ UpstreamBreaks(r)
             \/ Malformed(r) \/ WriteReply(r) \/ Stamp(r) \/ InsertUsage(r) \/ InsertFindings(r) \/ InsertOutcomes(r)
             \/ InsertFails(r)
      PROVE  \A x \in Requests : Passed(x)'
  <2>1. UNCHANGED <<rules, hits, since, called>> /\ pc[r] \in {"idle"} \cup Running
    BY <1>4 DEF Reject, CheckCost, CheckCostFails, CheckRate, AuditQuarantine, RuleLoadFails,
       Malformed, WriteReply, Relay, UpstreamTimesOut, UpstreamBreaks, Stamp, InsertUsage, InsertFindings, InsertOutcomes,
       InsertFails, Stop, config, draft, history, Running, InFlight
  <2>2. \E s \in (Running \cup Ended) \ {"body", "policies", "provider"} : Goto(r, s)
    BY <1>4 DEF Reject, CheckCost, CheckCostFails, CheckRate, AuditQuarantine, RuleLoadFails,
       Malformed, WriteReply, Relay, UpstreamTimesOut, UpstreamBreaks, Stamp, InsertUsage, InsertFindings, InsertOutcomes,
       InsertFails, Stop, Running, InFlight, Ended
  <2>3. QED
    BY <1>3, <2>1, <2>2
<1>5. ASSUME NEW r \in Requests, CheckTerms(r) PROVE \A x \in Requests : Passed(x)'
  <2>1. UNCHANGED <<rules, hits, since, called>> /\ pc[r] = "terms"
    BY <1>5 DEF CheckTerms, history, config, draft
  <2>2. CASE Stop(r, "nsfw_keyword")
    BY <1>3, <2>1, <2>2 DEF Stop, Running, InFlight
  <2>3. CASE "term" \notin hits[r] \cap rules /\ Goto(r, "policies")
    <3> SUFFICES ASSUME NEW x \in Requests PROVE Passed(x)'
      OBVIOUS
    <3>1. pc'[x] = IF x = r THEN "policies" ELSE pc[x]
      BY <2>3 DEF Goto, RulesInv, TypeOK
    <3>2. since[r] \subseteq rules
      BY <1>0, <2>1 DEF Passed, Running, InFlight
    <3>3. QED
      BY <1>0, <2>1, <2>3, <3>1, <3>2 DEF Passed
  <2>4. QED
    BY <1>5, <2>2, <2>3 DEF CheckTerms
<1>6. ASSUME NEW r \in Requests, CheckPolicies(r) PROVE \A x \in Requests : Passed(x)'
  <2>1. UNCHANGED <<rules, hits, since, called>> /\ pc[r] = "policies"
    BY <1>6 DEF CheckPolicies, history, config, draft
  <2>2. CASE Goto(r, "log")
    BY <1>3, <2>1, <2>2 DEF Running, InFlight
  <2>3. CASE "pii" \notin hits[r] \cap rules /\ Goto(r, "provider")
    <3> SUFFICES ASSUME NEW x \in Requests PROVE Passed(x)'
      OBVIOUS
    <3>1. pc'[x] = IF x = r THEN "provider" ELSE pc[x]
      BY <2>3 DEF Goto, RulesInv, TypeOK
    <3>2. since[r] \subseteq rules
      BY <1>0, <2>1 DEF Passed, Running, InFlight
    <3>3. QED
      BY <1>0, <2>1, <2>3, <3>1, <3>2 DEF Passed
  <2>4. QED
    BY <1>6, <2>2, <2>3 DEF CheckPolicies
<1>7. ASSUME NEW r \in Requests, Resolve(r), NEW x \in Requests PROVE Passed(x)'
  <2>1. UNCHANGED <<rules, hits, since>> /\ pc[r] = "provider" /\ called' \in {called, called \cup {r}}
    BY <1>7 DEF Resolve, config, draft
  <2>2. pc'[x] \in IF x = r THEN {"upstream", "log"} ELSE {pc[x]}
    BY <1>7 DEF Resolve, Goto, RulesInv, TypeOK
  <2>3. since[r] \in SUBSET {"term", "pii"}
    BY RulesAssumption DEF RulesInv, TypeOK
  <2>4. since[r] = {}
    BY <1>0, <2>1, <2>3 DEF Passed
  <2>5. since[r] \subseteq rules
    BY <1>0, <2>1 DEF Passed, Running, InFlight
  <2>6. QED
    BY <1>0, <2>1, <2>2, <2>4, <2>5 DEF Passed
<1>8. ASSUME NEW k \in Keys, NEW l \in Limits, SetLimit(k, l), NEW x \in Requests PROVE Passed(x)'
  BY <1>0, <1>8 DEF SetLimit, draft, history, Passed
<1>9. ASSUME NEW rule \in Rules, EnableRule(rule), NEW x \in Requests PROVE Passed(x)'
  BY <1>0, <1>9 DEF EnableRule, draft, history, Passed
<1>10. ASSUME NEW rule \in Rules, DisableRule(rule), NEW x \in Requests PROVE Passed(x)'
  <2>1. since'[x] = since[x] \ {rule} /\ rules' = rules \ {rule} /\ UNCHANGED <<pc, hits, called>>
    BY <1>10 DEF DisableRule, draft
  <2>2. QED
    BY <1>0, <2>1 DEF Passed
<1>11. ASSUME Tick, NEW x \in Requests PROVE Passed(x)'
  BY <1>0, <1>11 DEF Tick, config, draft, history, Passed
<1>12. ASSUME Crash, NEW x \in Requests PROVE Passed(x)'
  <2>1. pc'[x] = (IF pc[x] \in Running THEN "died" ELSE pc[x]) /\ UNCHANGED <<rules, hits, since, called>>
    BY <1>12 DEF Crash, config, draft, history
  <2>2. QED
    BY <1>0, <2>1 DEF Passed, Running, InFlight
<1>13. ASSUME UNCHANGED vars, NEW x \in Requests PROVE Passed(x)'
  BY <1>0, <1>13 DEF vars, config, draft, history, Passed
<1>14. QED
  BY StepCases, <1>1, <1>2, <1>4, <1>5, <1>6, <1>7, <1>8, <1>9, <1>10, <1>11, <1>12, <1>13

\* No request reaches a provider with a text that breaks a rule in force since its body was read:
\* the content rules stop a request when they can not be loaded, and nothing between
\* that and the call goes round them.
THEOREM RulesAlwaysHold == Spec => []RulesHold
<1>1. Init => RulesInv
  <2> SUFFICES ASSUME Init PROVE RulesInv
    OBVIOUS
  <2>1. \A r \in Requests : Passed(r)
    BY DEF Init, Passed
  <2>2. QED
    BY <2>1, InitTypeOK DEF RulesInv
<1>2. RulesInv /\ [Next]_vars => RulesInv'
  BY NextTypeOK, NextRulesInv DEF RulesInv
<1>3. RulesInv => RulesHold
  BY DEF RulesInv, Passed, RulesHold, TypeOK
<1>4. QED
  BY <1>1, <1>2, <1>3, PTL DEF Spec

-----------------------------------------------------------------------------
(* The evidence in the tables. *)

Unrecorded == {"idle", "rejected", "body"} \cup InFlight

\* What the tables hold of a request at each step.
Recorded(r) ==
  /\ pc[r] \in Unrecorded =>
       r \notin usageRows /\ (\A row \in findingRows \cup outcomeRows : row[1] # r)
  /\ pc[r] \in {"findings", "outcomes", "done"} => r \in usageRows \/ <<r, "usage">> \in lost
  /\ pc[r] \in {"outcomes", "done"} =>
       {r} \X found[r] \subseteq findingRows \/ <<r, "findings">> \in lost
  /\ pc[r] = "done" =>
       outcome[r] = "none" \/ <<r, outcome[r]>> \in outcomeRows \/ <<r, "outcomes">> \in lost
  /\ (\E row \in findingRows \cup outcomeRows : row[1] = r) =>
       r \in usageRows \/ <<r, "usage">> \in lost
  /\ <<r, "rate_quarantine">> \in outcomeRows => outcome[r] = "rate_quarantine"
  /\ outcome[r] = "rate_quarantine" => r \in auditRows \/ <<r, "audit">> \in lost

EvidenceInv == TypeOK /\ \A r \in Requests : Recorded(r)

\* A step of one request leaves the evidence of the others as it is.
OthersKept(r) ==
  \A x \in Requests : x # r =>
    /\ pc'[x] = pc[x] /\ outcome'[x] = outcome[x] /\ found'[x] = found[x]
    /\ x \in usageRows' <=> x \in usageRows
    /\ x \in auditRows' <=> x \in auditRows
    /\ \A row : row[1] = x => /\ row \in findingRows' <=> row \in findingRows
                              /\ row \in outcomeRows' <=> row \in outcomeRows
    /\ \A t : <<x, t>> \in lost' <=> <<x, t>> \in lost

LEMMA OthersRecorded ==
  ASSUME EvidenceInv, NEW r \in Requests, OthersKept(r), Recorded(r)'
  PROVE  \A x \in Requests : Recorded(x)'
<1> SUFFICES ASSUME NEW x \in Requests, x # r PROVE Recorded(x)'
  OBVIOUS
<1>1. Recorded(x)
  BY DEF EvidenceInv
<1>2. /\ pc'[x] = pc[x] /\ outcome'[x] = outcome[x] /\ found'[x] = found[x]
      /\ x \in usageRows' <=> x \in usageRows
      /\ x \in auditRows' <=> x \in auditRows
      /\ \A t : <<x, t>> \in lost' <=> <<x, t>> \in lost
      /\ \A row : row[1] = x => (row \in findingRows' <=> row \in findingRows)
      /\ \A row : row[1] = x => (row \in outcomeRows' <=> row \in outcomeRows)
  BY DEF OthersKept
<1>3. \A o : <<x, o>> \in outcomeRows' <=> <<x, o>> \in outcomeRows
  BY <1>2
<1>4. {x} \X found[x] \subseteq findingRows => {x} \X found[x] \subseteq findingRows'
  <2> SUFFICES ASSUME {x} \X found[x] \subseteq findingRows, NEW row \in {x} \X found[x]
               PROVE  row \in findingRows'
    OBVIOUS
  <2>1. row[1] = x
    OBVIOUS
  <2>2. QED
    BY <1>2, <2>1
<1>5. (\E row \in findingRows' \cup outcomeRows' : row[1] = x)
        <=> \E row \in findingRows \cup outcomeRows : row[1] = x
  BY <1>2
<1>6. QED
  BY <1>1, <1>2, <1>3, <1>4, <1>5 DEF Recorded

\* Before the inserts: no step but AuditQuarantine records anything.
LEMMA BeforeRecord ==
  ASSUME EvidenceInv, NEW r \in Requests, NEW s \in Unrecorded, pc[r] \in Unrecorded,
         pc' = [pc EXCEPT ![r] = s], UNCHANGED <<tables, lost>>,
         \A x \in Requests : x # r => outcome'[x] = outcome[x] /\ found'[x] = found[x],
         outcome'[r] = outcome[r] \/ outcome'[r] # "rate_quarantine"
  PROVE  \A x \in Requests : Recorded(x)'
<1>1. OthersKept(r)
  BY DEF OthersKept, tables, EvidenceInv, TypeOK
<1>2. Recorded(r) /\ pc'[r] = s
  BY DEF EvidenceInv, TypeOK
<1>3. \A o : <<r, o>> \notin outcomeRows
  <2> SUFFICES ASSUME NEW o, <<r, o>> \in outcomeRows PROVE FALSE
    OBVIOUS
  <2>1. <<r, o>>[1] = r
    OBVIOUS
  <2>2. QED
    BY <1>2, <2>1 DEF Recorded
<1>4. s \notin {"findings", "outcomes", "done"}
  BY DEF Unrecorded, InFlight
<1>5. Recorded(r)'
  BY <1>2, <1>3, <1>4 DEF Recorded, tables
<1>6. QED
  BY <1>1, <1>5, OthersRecorded

LEMMA StopKeepsOthers ==
  ASSUME TypeOK, NEW r \in Requests, NEW o, Stop(r, o)
  PROVE  /\ outcome'[r] = o
         /\ \A x \in Requests : x # r => outcome'[x] = outcome[x]
         /\ pc' = [pc EXCEPT ![r] = "log"]
BY DEF TypeOK, Stop, Goto

LEMMA NextEvidenceInv == EvidenceInv /\ [Next]_vars => \A x \in Requests : Recorded(x)'
<1> SUFFICES ASSUME EvidenceInv, [Next]_vars PROVE \A x \in Requests : Recorded(x)'
  OBVIOUS
<1>0. TypeOK /\ \A x \in Requests : Recorded(x)
  BY DEF EvidenceInv
<1>1. ASSUME NEW r \in Requests,
             (\E k \in Keys : Arrive(r, k) \/ WrongMethod(r, k)) \/ ReadBody(r) \/ Malformed(r)
      PROVE  \A x \in Requests : Recorded(x)'
  BY <1>1, BeforeRecord DEF Arrive, WrongMethod, ReadBody, Malformed, Goto, result, history,
     Unrecorded, InFlight
<1>2. ASSUME NEW r \in Requests,
             \/ Reject(r) \/ CheckCostFails(r) \/ RuleLoadFails(r) \/ Resolve(r)
             \/ UpstreamTimesOut(r) \/ UpstreamBreaks(r) \/ WriteReply(r) \/ Stamp(r)
      PROVE  \A x \in Requests : Recorded(x)'
  BY <1>2, BeforeRecord DEF Reject, CheckCostFails, RuleLoadFails, Resolve, UpstreamTimesOut,
     UpstreamBreaks, WriteReply, Stamp, Goto, result, history, Unrecorded, InFlight
<1>3. ASSUME NEW r \in Requests, CheckCost(r) \/ CheckRate(r) \/ CheckTerms(r)
      PROVE  \A x \in Requests : Recorded(x)'
  <2>1. UNCHANGED <<tables, lost, found>> /\ pc[r] \in Unrecorded
    BY <1>3 DEF CheckCost, CheckRate, CheckTerms, history, Unrecorded, InFlight
  <2>2. \/ \E s \in Unrecorded : Goto(r, s) /\ UNCHANGED outcome
        \/ \E o \in {"cost_limit", "rate_block", "nsfw_keyword"} : Stop(r, o)
    BY <1>3 DEF CheckCost, CheckRate, CheckTerms, Unrecorded, InFlight
  <2>3. ASSUME NEW s \in Unrecorded, Goto(r, s) /\ UNCHANGED outcome
        PROVE  \A x \in Requests : Recorded(x)'
    BY <2>1, <2>3, BeforeRecord DEF Goto
  <2>4. ASSUME NEW o \in {"cost_limit", "rate_block", "nsfw_keyword"}, Stop(r, o)
        PROVE  \A x \in Requests : Recorded(x)'
    BY <1>0, <2>1, <2>4, BeforeRecord, StopKeepsOthers DEF Unrecorded, InFlight
  <2>5. QED
    BY <2>2, <2>3, <2>4
<1>4. ASSUME NEW r \in Requests, CheckPolicies(r) \/ Relay(r)
      PROVE  \A x \in Requests : Recorded(x)'
  <2>1. UNCHANGED <<tables, lost, outcome>> /\ pc[r] \in Unrecorded
    BY <1>4 DEF CheckPolicies, Relay, history, Unrecorded, InFlight
  <2>2. \E s \in Unrecorded : pc' = [pc EXCEPT ![r] = s]
    BY <1>4 DEF CheckPolicies, Relay, Goto, Unrecorded, InFlight
  <2>3. \A x \in Requests : x # r => found'[x] = found[x]
    BY <1>0, <1>4 DEF CheckPolicies, Relay, TypeOK
  <2>4. QED
    BY <2>1, <2>2, <2>3, BeforeRecord
<1>5. ASSUME NEW r \in Requests, AuditQuarantine(r) PROVE \A x \in Requests : Recorded(x)'
  <2>1. /\ pc[r] = "audit" /\ Stop(r, "rate_quarantine")
        /\ UNCHANGED <<usageRows, findingRows, outcomeRows, found>>
        /\ \/ auditRows' = auditRows \cup {r} /\ UNCHANGED lost
           \/ auditRows' \in {auditRows, auditRows \cup {r}} /\ lost' = lost \cup {<<r, "audit">>}
    BY <1>5 DEF AuditQuarantine
  <2>2. /\ outcome'[r] = "rate_quarantine" /\ pc'[r] = "log"
        /\ \A x \in Requests : x # r => outcome'[x] = outcome[x] /\ pc'[x] = pc[x]
    BY <1>0, <2>1, StopKeepsOthers DEF TypeOK
  <2>3. OthersKept(r)
    BY <2>1, <2>2 DEF OthersKept
  <2>4. Recorded(r)
    BY <1>0
  <2>5. Recorded(r)'
    BY <2>1, <2>2, <2>4 DEF Recorded, Unrecorded, InFlight
  <2>6. QED
    BY <2>3, <2>5, OthersRecorded
<1>6. ASSUME NEW r \in Requests, InsertUsage(r) \/ (InsertFails(r) /\ pc[r] = "usage")
      PROVE  \A x \in Requests : Recorded(x)'
  <2>1. /\ pc[r] = "usage" /\ pc' = [pc EXCEPT ![r] = "findings"]
        /\ UNCHANGED <<result, findingRows, outcomeRows, auditRows>>
        /\ \/ usageRows' = usageRows \cup {r} /\ UNCHANGED lost
           \/ usageRows' \in {usageRows, usageRows \cup {r}} /\ lost' = lost \cup {<<r, "usage">>}
    BY <1>6 DEF InsertUsage, InsertFails, Goto, history
  <2>2. pc'[r] = "findings" /\ OthersKept(r)
    BY <1>0, <2>1 DEF OthersKept, TypeOK, result
  <2>3. Recorded(r)
    BY <1>0
  <2>4. Recorded(r)'
    BY <2>1, <2>2, <2>3 DEF Recorded, Unrecorded, InFlight, result
  <2>5. QED
    BY <2>2, <2>4, OthersRecorded
<1>7. ASSUME NEW r \in Requests, InsertFindings(r) \/ (InsertFails(r) /\ pc[r] = "findings")
      PROVE  \A x \in Requests : Recorded(x)'
  <2>1. /\ pc[r] = "findings" /\ pc' = [pc EXCEPT ![r] = "outcomes"]
        /\ UNCHANGED <<result, usageRows, outcomeRows, auditRows>>
        /\ \/ findingRows' = findingRows \cup ({r} \X found[r]) /\ UNCHANGED lost
           \/ /\ \E first : findingRows' = findingRows \cup ({r} \X (first \cap found[r]))
              /\ lost' = lost \cup {<<r, "findings">>}
    BY <1>7 DEF InsertFindings, InsertFails, Goto, history
  <2>2. PICK S : findingRows' = findingRows \cup ({r} \X S)
    BY <2>1
  <2>3. ASSUME NEW x \in Requests, x # r, NEW row, row[1] = x
        PROVE  row \in findingRows' <=> row \in findingRows
    <3>1. row \notin {r} \X S
      BY <2>3
    <3>2. QED
      BY <2>2, <3>1
  <2>4. pc'[r] = "outcomes" /\ OthersKept(r)
    BY <1>0, <2>1, <2>3 DEF OthersKept, TypeOK, result
  <2>5. Recorded(r)
    BY <1>0
  <2>6. {r} \X found'[r] \subseteq findingRows' \/ <<r, "findings">> \in lost'
    BY <2>1 DEF result
  <2>7. r \in usageRows' \/ <<r, "usage">> \in lost'
    BY <2>1, <2>5 DEF Recorded
  <2>8. Recorded(r)'
    BY <2>1, <2>4, <2>5, <2>6, <2>7 DEF Recorded, Unrecorded, InFlight, result
  <2>9. QED
    BY <2>4, <2>8, OthersRecorded
<1>8. ASSUME NEW r \in Requests, InsertOutcomes(r) \/ (InsertFails(r) /\ pc[r] = "outcomes")
      PROVE  \A x \in Requests : Recorded(x)'
  <2>1. /\ pc[r] = "outcomes" /\ pc' = [pc EXCEPT ![r] = "done"]
        /\ UNCHANGED <<result, usageRows, findingRows, auditRows>>
        /\ \/ outcomeRows' = outcomeRows \cup ({r} \X ({outcome[r]} \ {"none"})) /\ UNCHANGED lost
           \/ /\ outcome[r] # "none" /\ outcomeRows' \in {outcomeRows, outcomeRows \cup {<<r, outcome[r]>>}}
              /\ lost' = lost \cup {<<r, "outcomes">>}
    BY <1>8 DEF InsertOutcomes, InsertFails, Goto, history
  <2>2. /\ outcomeRows \subseteq outcomeRows'
        /\ \A row \in outcomeRows' : row \in outcomeRows \/ row = <<r, outcome[r]>>
    BY <2>1
  <2>3. ASSUME NEW x \in Requests, x # r, NEW row, row[1] = x
        PROVE  row \in outcomeRows' <=> row \in outcomeRows
    <3>1. row # <<r, outcome[r]>>
      BY <2>3
    <3>2. QED
      BY <2>2, <3>1
  <2>4. pc'[r] = "done" /\ OthersKept(r)
    BY <1>0, <2>1, <2>3 DEF OthersKept, TypeOK, result
  <2>5. Recorded(r)
    BY <1>0
  <2>6. outcome'[r] = "none" \/ <<r, outcome'[r]>> \in outcomeRows' \/ <<r, "outcomes">> \in lost'
    BY <2>1 DEF result
  <2>7. /\ r \in usageRows' \/ <<r, "usage">> \in lost'
        /\ {r} \X found'[r] \subseteq findingRows' \/ <<r, "findings">> \in lost'
    BY <2>1, <2>5 DEF Recorded, result
  <2>8. <<r, "rate_quarantine">> \in outcomeRows' => outcome'[r] = "rate_quarantine"
    BY <2>1, <2>2, <2>5 DEF Recorded, result
  <2>9. outcome'[r] = "rate_quarantine" => r \in auditRows' \/ <<r, "audit">> \in lost'
    BY <2>1, <2>5 DEF Recorded, result
  <2>10. Recorded(r)'
    BY <2>4, <2>6, <2>7, <2>8, <2>9 DEF Recorded, Unrecorded, InFlight
  <2>11. QED
    BY <2>4, <2>10, OthersRecorded
<1>9. ASSUME NEW x \in Requests,
             \/ \E k \in Keys, l \in Limits : SetLimit(k, l)
             \/ \E rule \in Rules : EnableRule(rule) \/ DisableRule(rule)
             \/ Tick \/ UNCHANGED vars
      PROVE  Recorded(x)'
  <2>1. UNCHANGED <<pc, result, tables, lost>>
    BY <1>9 DEF SetLimit, EnableRule, DisableRule, Tick, vars, history
  <2>2. QED
    BY <1>0, <2>1 DEF Recorded, result, tables
<1>10. ASSUME Crash, NEW x \in Requests PROVE Recorded(x)'
  <2>1. pc'[x] = (IF pc[x] \in Running THEN "died" ELSE pc[x]) /\ UNCHANGED <<result, tables, lost>>
    BY <1>10 DEF Crash, history
  <2>2. QED
    BY <1>0, <2>1 DEF Recorded, result, tables, Unrecorded, InFlight
<1>11. QED
  BY StepCases, <1>1, <1>2, <1>3, <1>4, <1>5, <1>6, <1>7, <1>8, <1>9, <1>10 DEF InsertFails

\* The tables agree with each other and with what happened, except where an insert failed:
\* the three inserts of a request are separate, and only their order relates them.
THEOREM EvidenceAlwaysAgrees == Spec => []EvidenceAgrees
<1>1. Init => EvidenceInv
  <2> SUFFICES ASSUME Init PROVE EvidenceInv
    OBVIOUS
  <2>1. \A r \in Requests : Recorded(r)
    BY DEF Init, Recorded
  <2>2. QED
    BY <2>1, InitTypeOK DEF EvidenceInv
<1>2. EvidenceInv /\ [Next]_vars => EvidenceInv'
  BY NextTypeOK, NextEvidenceInv DEF EvidenceInv
<1>3. EvidenceInv => EvidenceAgrees
  BY DEF EvidenceInv, Recorded, EvidenceAgrees
<1>4. QED
  BY <1>1, <1>2, <1>3, PTL DEF Spec

-----------------------------------------------------------------------------
(* The pipeline implements the abstract cost limit. *)

\* What the mapping rests on: until the reply arrives nothing is known of it, a request that
\* a guardrail stopped has no usage, and a row is not there before its insert.
Unanswered == {"idle", "body", "cost", "rate", "audit", "terms", "policies", "provider",
               "upstream", "invalid"}

Mappable(r) ==
  /\ pc[r] \in Unanswered => outcome[r] = "none" /\ usage[r] = Null /\ answer[r] = "error"
  /\ outcome[r] # "none" => usage[r] = Null /\ answer[r] = "error"
  /\ pc[r] \in Unrecorded => r \notin usageRows

MappingInv == TypeOK /\ \A r \in Requests : Mappable(r)

LEMMA InitMapping == Init => MappingInv
<1> SUFFICES ASSUME Init PROVE MappingInv
  OBVIOUS
<1>1. \A r \in Requests : Mappable(r)
  BY DEF Init, Mappable
<1>2. QED
  BY <1>1, InitTypeOK DEF MappingInv

LEMMA OthersMappable ==
  ASSUME MappingInv, NEW r \in Requests, Mappable(r)',
         \A x \in Requests : x # r =>
           /\ pc'[x] = pc[x] /\ outcome'[x] = outcome[x] /\ usage'[x] = usage[x]
           /\ answer'[x] = answer[x] /\ (x \in usageRows' <=> x \in usageRows)
  PROVE  \A x \in Requests : Mappable(x)'
<1> SUFFICES ASSUME NEW x \in Requests, x # r PROVE Mappable(x)'
  OBVIOUS
<1>1. Mappable(x)
  BY DEF MappingInv
<1>2. QED
  BY <1>1 DEF Mappable

LEMMA NextMapping == MappingInv /\ [Next]_vars => \A x \in Requests : Mappable(x)'
<1> SUFFICES ASSUME MappingInv, [Next]_vars PROVE \A x \in Requests : Mappable(x)'
  OBVIOUS
<1>0. TypeOK /\ \A x \in Requests : Mappable(x)
  BY DEF MappingInv
<1>1. ASSUME NEW r \in Requests, NEW s, pc' = [pc EXCEPT ![r] = s], UNCHANGED <<result, usageRows>>,
             s \in Unanswered => pc[r] \in Unanswered,
             s \in Unrecorded => pc[r] \in Unrecorded
      PROVE  \A x \in Requests : Mappable(x)'
  <2>1. Mappable(r)'
    BY <1>0, <1>1 DEF Mappable, result, TypeOK
  <2>2. QED
    BY <1>0, <1>1, <2>1, OthersMappable DEF TypeOK, result
<1>2. ASSUME NEW r \in Requests,
             (\E k \in Keys : Arrive(r, k) \/ WrongMethod(r, k)) \/ ReadBody(r) \/ Malformed(r)
      PROVE  \A x \in Requests : Mappable(x)'
  BY <1>1, <1>2 DEF Arrive, WrongMethod, ReadBody, Malformed, Goto, tables, Unanswered, Unrecorded
<1>3. ASSUME NEW r \in Requests,
             \/ Reject(r) \/ CheckCostFails(r) \/ RuleLoadFails(r) \/ Resolve(r)
             \/ UpstreamTimesOut(r) \/ UpstreamBreaks(r) \/ WriteReply(r) \/ Stamp(r)
             \/ InsertFindings(r) \/ InsertOutcomes(r)
             \/ (InsertFails(r) /\ pc[r] \in {"findings", "outcomes"})
      PROVE  \A x \in Requests : Mappable(x)'
  BY <1>1, <1>3 DEF Reject, CheckCostFails, RuleLoadFails, Resolve, UpstreamTimesOut,
     UpstreamBreaks, WriteReply, Stamp, InsertFindings, InsertOutcomes, InsertFails, Goto, tables, history,
     Unanswered, Unrecorded, InFlight
<1>4. ASSUME NEW r \in Requests, CheckCost(r) \/ CheckRate(r) \/ AuditQuarantine(r) \/ CheckTerms(r)
      PROVE  \A x \in Requests : Mappable(x)'
  <2>1. UNCHANGED <<answer, usage, found, usageRows>> /\ pc[r] \in Unanswered \cap Unrecorded
    BY <1>4 DEF CheckCost, CheckRate, AuditQuarantine, CheckTerms, tables, Unanswered, Unrecorded, InFlight
  <2>2. \/ \E s \in Unanswered : Goto(r, s) /\ UNCHANGED outcome
        \/ \E o : Stop(r, o)
    BY <1>4 DEF CheckCost, CheckRate, AuditQuarantine, CheckTerms, Unanswered
  <2>3. ASSUME NEW s \in Unanswered, Goto(r, s) /\ UNCHANGED outcome
        PROVE  \A x \in Requests : Mappable(x)'
    BY <1>1, <2>1, <2>3 DEF Goto, result
  <2>4. ASSUME NEW o, Stop(r, o) PROVE \A x \in Requests : Mappable(x)'
    <3>1. pc'[r] = "log" /\ outcome'[r] = o
            /\ \A x \in Requests : x # r => pc'[x] = pc[x] /\ outcome'[x] = outcome[x]
      BY <1>0, <2>4 DEF Stop, Goto, TypeOK
    <3>2. Mappable(r)'
      BY <1>0, <2>1, <3>1 DEF Mappable, Unanswered
    <3>3. QED
      BY <2>1, <3>1, <3>2, OthersMappable
  <2>5. QED
    BY <2>2, <2>3, <2>4
<1>5. ASSUME NEW r \in Requests, CheckPolicies(r) PROVE \A x \in Requests : Mappable(x)'
  <2>1. /\ UNCHANGED <<answer, usage, outcome, usageRows>> /\ pc[r] = "policies"
        /\ \E s \in {"log", "provider"} : Goto(r, s)
    BY <1>5 DEF CheckPolicies, tables
  <2>2. pc'[r] \in {"log", "provider"} /\ \A x \in Requests : x # r => pc'[x] = pc[x]
    BY <1>0, <2>1 DEF Goto, TypeOK
  <2>3. Mappable(r)'
    BY <1>0, <2>1, <2>2 DEF Mappable, Unanswered, Unrecorded, InFlight
  <2>4. QED
    BY <2>1, <2>2, <2>3, OthersMappable
<1>6. ASSUME NEW r \in Requests, Relay(r) PROVE \A x \in Requests : Mappable(x)'
  <2>1. UNCHANGED <<outcome, usageRows>> /\ pc[r] = "upstream" /\ Goto(r, "reply")
    BY <1>6 DEF Relay, tables
  <2>2. pc'[r] = "reply" /\ \A x \in Requests : x # r => pc'[x] = pc[x] /\ usage'[x] = usage[x] /\ answer'[x] = answer[x]
    BY <1>0, <1>6, <2>1 DEF Relay, Goto, TypeOK
  <2>3. outcome[r] = "none" /\ r \notin usageRows
    BY <1>0, <2>1 DEF Mappable, Unanswered, Unrecorded, InFlight
  <2>4. Mappable(r)'
    BY <2>1, <2>2, <2>3 DEF Mappable, Unanswered
  <2>5. QED
    BY <2>1, <2>2, <2>4, OthersMappable
<1>7. ASSUME NEW r \in Requests, InsertUsage(r) \/ (InsertFails(r) /\ pc[r] = "usage")
      PROVE  \A x \in Requests : Mappable(x)'
  <2>1. /\ pc' = [pc EXCEPT ![r] = "findings"] /\ UNCHANGED result
        /\ usageRows' \in {usageRows, usageRows \cup {r}}
    BY <1>7 DEF InsertUsage, InsertFails, Goto
  <2>2. Mappable(r)'
    BY <1>0, <2>1 DEF Mappable, result, TypeOK, Unanswered, Unrecorded, InFlight
  <2>3. QED
    BY <1>0, <2>1, <2>2, OthersMappable DEF TypeOK, result
<1>8. ASSUME NEW x \in Requests,
             \/ \E k \in Keys, l \in Limits : SetLimit(k, l)
             \/ \E rule \in Rules : EnableRule(rule) \/ DisableRule(rule)
             \/ Tick \/ UNCHANGED vars
      PROVE  Mappable(x)'
  <2>1. UNCHANGED <<pc, result, usageRows>>
    BY <1>8 DEF SetLimit, EnableRule, DisableRule, Tick, vars, tables
  <2>2. QED
    BY <1>0, <2>1 DEF Mappable, result
<1>9. ASSUME Crash, NEW x \in Requests PROVE Mappable(x)'
  <2>1. pc'[x] = (IF pc[x] \in Running THEN "died" ELSE pc[x]) /\ UNCHANGED <<result, usageRows>>
    BY <1>9 DEF Crash, tables
  <2>2. QED
    BY <1>0, <2>1 DEF Mappable, result, Unanswered, Unrecorded, InFlight
<1>10. QED
  BY StepCases, <1>2, <1>3, <1>4, <1>5, <1>6, <1>7, <1>8, <1>9 DEF InsertFails


\* The abstract state the pipeline is mapped to.
AStage == [r \in Requests |-> Stage(r)]
ABlocked == {r \in Requests : outcome[r] = "cost_limit"}

LEMMA StageOfStep ==
  ASSUME NEW r \in Requests
  PROVE  /\ pc[r] \in {"idle", "rejected"} => Stage(r) = "idle"
         /\ pc[r] = "body" => Stage(r) = "arrived"
         /\ pc[r] = "cost" => Stage(r) = "check"
         /\ pc[r] \in {"rate", "audit", "terms", "policies", "provider", "upstream", "reply",
                      "log"} =>
              Stage(r) = "open"
         /\ pc[r] = "invalid" => Stage(r) = "refused"
         /\ pc[r] = "usage" => Stage(r) = "stamped"
         /\ pc[r] \in {"findings", "outcomes", "done", "died"} =>
              Stage(r) = IF r \in usageRows THEN "recorded" ELSE "gone"
BY DEF Stage

LEMMA SameFlights ==
  ASSUME TypeOK, NEW r \in Requests
  PROVE  AStage[r] \in Limiter!InFlight <=> pc[r] \in InFlight
BY StageOfStep DEF AStage, TypeOK, Running, InFlight, Ended, Limiter!InFlight

LEMMA StageMoves ==
  ASSUME TypeOK, NEW r \in Requests, NEW s, pc' = [pc EXCEPT ![r] = s],
         \A x \in Requests : x # r => (x \in usageRows' <=> x \in usageRows)
  PROVE  AStage' = [AStage EXCEPT ![r] = Stage(r)'] /\ pc'[r] = s
<1>1. \A x \in Requests : x # r => pc'[x] = pc[x]
  BY DEF TypeOK
<1>2. \A x \in Requests : x # r => Stage(x)' = Stage(x)
  BY <1>1 DEF Stage
<1>3. QED
  BY <1>2 DEF AStage, TypeOK

LEMMA SameSpend ==
  ASSUME NEW u, NEW t
  PROVE  Limiter!Spend(u, t) = Spend(u, t)
<1>1. \A S : Limiter!SumOf(S) = SumOf(S)
  BY DEF Limiter!SumOf, SumOf, Limiter!SumOver, SumOver, Limiter!Units, Units,
     Limiter!Cardinality, Cardinality
<1>2. {x \in Limiter!RowsOf(u) : Limiter!InMonth(x, t)} = {x \in RowsOf(u) : InMonth(x, t)}
  BY DEF Limiter!RowsOf, RowsOf, Limiter!InMonth, InMonth, Limiter!MonthStart, MonthStart,
     Limiter!TextAtOrAfter, TextAtOrAfter, Limiter!TextBefore, TextBefore, Limiter!TextKey, TextKey
<1>3. QED
  BY <1>1, <1>2 DEF Limiter!Spend, Spend

\* The part of the state the abstract cost limit shares with the pipeline as it is.
Shared == <<now, at, key, limit, cost, recordedAt, under, peak>>

\* A step within a stage is no step of the abstract cost limit.
LEMMA StageKept ==
  ASSUME TypeOK, NEW r \in Requests, NEW s, pc' = [pc EXCEPT ![r] = s],
         UNCHANGED <<usageRows, Shared>>, Stage(r)' = Stage(r), ABlocked' = ABlocked
  PROVE  UNCHANGED Limiter!vars
<1>1. AStage' = AStage
  BY StageMoves DEF AStage
<1>2. QED
  BY <1>1 DEF Limiter!vars, Limiter!request, AStage, ABlocked, Shared

LEMMA SameCount ==
  ASSUME TypeOK, NEW k \in Keys,
         CountFlights(k)
  PROVE  Limiter!CountFlights(k)
<1>1. {x \in Requests : AStage[x] \in Limiter!InFlight /\ UserOf[key[x]] = UserOf[k]}
        = FlightsOf(UserOf[k])
  BY SameFlights DEF FlightsOf
<1>2. \A S : Limiter!Cardinality(S) = Cardinality(S)
  BY DEF Limiter!Cardinality, Cardinality
<1>3. QED
  BY <1>1, <1>2 DEF CountFlights, Limiter!CountFlights, AStage

LEMMA ArriveMaps ==
  ASSUME MappingInv, NEW r \in Requests, NEW k \in Keys, Arrive(r, k)
  PROVE  Limiter!Next
<1>1. TypeOK
  BY DEF MappingInv
<1>2. limitOf[k] \in Limits
  BY <1>1 DEF TypeOK
<1>3. AStage[r] = "idle"
  BY StageOfStep DEF Arrive, AStage
<1>4. pc' = [pc EXCEPT ![r] = "body"] /\ UNCHANGED <<usageRows, outcome>>
  BY DEF Arrive, Goto, tables, result
<1>5. AStage' = [AStage EXCEPT ![r] = "arrived"]
  <2>1. AStage' = [AStage EXCEPT ![r] = Stage(r)'] /\ pc'[r] = "body"
    BY <1>1, <1>4, StageMoves
  <2>2. Stage(r)' = "arrived"
    BY <2>1 DEF Stage
  <2>3. QED
    BY <2>1, <2>2
<1>6. Limiter!Arrive(r, k, limitOf[k])
  BY <1>3, <1>4, <1>5 DEF Arrive, Limiter!Arrive, Limiter!Goto, AStage, stamp, history
<1>7. QED
  BY <1>2, <1>6 DEF Limiter!Next

LEMMA EnterMaps ==
  ASSUME MappingInv, NEW r \in Requests, ReadBody(r)
  PROVE  Limiter!Next
<1>1. TypeOK /\ key[r] \in Keys
  BY DEF MappingInv, TypeOK, ReadBody, Running
<1>2. AStage[r] = "arrived"
  BY StageOfStep DEF ReadBody, AStage
<1>3. pc' = [pc EXCEPT ![r] = "cost"] /\ UNCHANGED <<usageRows, outcome>>
  BY DEF ReadBody, Goto, tables, result
<1>4. AStage' = [AStage EXCEPT ![r] = "check"]
  <2>1. AStage' = [AStage EXCEPT ![r] = Stage(r)'] /\ pc'[r] = "cost"
    BY <1>1, <1>3, StageMoves
  <2>2. Stage(r)' = "check"
    BY <2>1 DEF Stage
  <2>3. QED
    BY <2>1, <2>2
<1>5. Limiter!CountFlights(key[r])
  BY <1>1, SameCount DEF ReadBody
<1>6. Limiter!Enter(r)
  BY <1>2, <1>3, <1>4, <1>5 DEF ReadBody, Limiter!Enter, Limiter!Goto, AStage, stamp
<1>7. QED
  BY <1>6 DEF Limiter!Next

\* An authenticated request that is answered with an error, before its body is read or after.
LEMMA RefuseMaps ==
  ASSUME MappingInv, NEW r \in Requests, NEW k \in Keys,
         WrongMethod(r, k) \/ (Malformed(r) /\ k = key[r])
  PROVE  Limiter!Next
<1>1. TypeOK
  BY DEF MappingInv
<1>2. AStage[r] = "idle" \/ (AStage[r] = "arrived" /\ key[r] = k)
  BY StageOfStep DEF WrongMethod, Malformed, AStage
<1>3. pc' = [pc EXCEPT ![r] = "invalid"] /\ UNCHANGED <<usageRows, outcome>>
  BY DEF WrongMethod, Malformed, Goto, tables, result
<1>4. AStage' = [AStage EXCEPT ![r] = "refused"]
  <2>1. AStage' = [AStage EXCEPT ![r] = Stage(r)'] /\ pc'[r] = "invalid"
    BY <1>1, <1>3, StageMoves
  <2>2. Stage(r)' = "refused"
    BY <2>1 DEF Stage
  <2>3. QED
    BY <2>1, <2>2
<1>5. key' = [key EXCEPT ![r] = k]
  BY <1>1 DEF WrongMethod, Malformed, draft, TypeOK
<1>6. Limiter!CountFlights(k)
  BY <1>1, SameCount DEF WrongMethod, Malformed
<1>7. UNCHANGED <<now, at, limit, cost, recordedAt, under>>
  BY DEF WrongMethod, Malformed, draft, stamp
<1>8. Limiter!Refuse(r, k)
  BY <1>2, <1>3, <1>4, <1>5, <1>6, <1>7 DEF Limiter!Refuse, Limiter!Goto, AStage
<1>9. QED
  BY <1>8 DEF Limiter!Next

LEMMA CheckMaps ==
  ASSUME MappingInv, NEW r \in Requests, CheckCost(r) \/ CheckCostFails(r)
  PROVE  Limiter!Next
<1>0. TypeOK /\ Mappable(r)
  BY DEF MappingInv
<1>1. pc[r] = "cost" /\ AStage[r] = "check"
  BY StageOfStep DEF CheckCost, CheckCostFails, AStage
<1>2. outcome[r] = "none" /\ UNCHANGED <<now, at, key, limit, stamp, usageRows, peak>>
  BY <1>0, <1>1 DEF Mappable, Unanswered, CheckCost, CheckCostFails, draft, tables, history
<1>3. \E s \in {"rate", "log"} : pc' = [pc EXCEPT ![r] = s]
  BY DEF CheckCost, CheckCostFails, Stop, Goto
<1>4. AStage' = [AStage EXCEPT ![r] = "open"]
  <2>1. AStage' = [AStage EXCEPT ![r] = Stage(r)'] /\ pc'[r] \in {"rate", "log"}
    BY <1>0, <1>2, <1>3, StageMoves
  <2>2. Stage(r)' = "open"
    BY <2>1 DEF Stage
  <2>3. QED
    BY <2>1, <2>2
<1>5. CASE CheckCostFails(r)
  <2>1. UNCHANGED <<outcome, under>> /\ limit[r] # NoLimit
    BY <1>5 DEF CheckCostFails, result, history
  <2>2. Limiter!CheckFails(r)
    BY <1>1, <1>2, <1>4, <2>1 DEF Limiter!CheckFails, Limiter!Goto, AStage, stamp,
       Limiter!NoLimit, NoLimit
  <2>3. QED
    BY <2>2 DEF Limiter!Next
<1>6. CASE CheckCost(r) /\ limit[r] # NoLimit /\ Spend(UserOf[key[r]], at[r]) >= limit[r]
           /\ Stop(r, "cost_limit") /\ UNCHANGED under
  <2>1. ABlocked' = ABlocked \cup {r}
    BY <1>0, <1>6 DEF ABlocked, Stop, TypeOK
  <2>2. Limiter!Check(r)
    BY <1>1, <1>2, <1>4, <1>6, <2>1, SameSpend DEF Limiter!Check, Limiter!Goto, AStage, ABlocked,
       stamp, Limiter!NoLimit, NoLimit
  <2>3. QED
    BY <2>2 DEF Limiter!Next
<1>7. CASE CheckCost(r) /\ (limit[r] = NoLimit \/ Spend(UserOf[key[r]], at[r]) < limit[r])
           /\ under' = [under EXCEPT ![r] = limit[r]] /\ UNCHANGED outcome
  <2>1. Limiter!Check(r)
    BY <1>1, <1>2, <1>4, <1>7, SameSpend DEF Limiter!Check, Limiter!Goto, AStage,
       stamp, Limiter!NoLimit, NoLimit
  <2>2. QED
    BY <2>1 DEF Limiter!Next
<1>8. QED
  BY <1>5, <1>6, <1>7 DEF CheckCost

\* Steps the abstract cost limit does not see.
LEMMA QuietSteps ==
  ASSUME MappingInv, NEW r \in Requests,
         \/ Reject(r) \/ CheckRate(r) \/ AuditQuarantine(r) \/ CheckTerms(r) \/ CheckPolicies(r)
         \/ RuleLoadFails(r) \/ Resolve(r) \/ Relay(r) \/ UpstreamTimesOut(r) \/ UpstreamBreaks(r)
         \/ WriteReply(r) \/ InsertFindings(r) \/ InsertOutcomes(r)
         \/ (InsertFails(r) /\ pc[r] \in {"findings", "outcomes"})
  PROVE  UNCHANGED Limiter!vars
<1> DEFINE Open == {"rate", "audit", "terms", "policies", "provider", "upstream", "reply", "log"}
           Late == {"findings", "outcomes", "done", "died"}
<1>0. TypeOK /\ Mappable(r)
  BY DEF MappingInv
<1>1. UNCHANGED <<usageRows, Shared>>
  BY DEF Reject, CheckRate, AuditQuarantine, CheckTerms, CheckPolicies, RuleLoadFails, Resolve, Relay,
     WriteReply, UpstreamTimesOut, UpstreamBreaks, InsertFindings, InsertOutcomes, InsertFails, draft, stamp,
     tables, history, Shared
<1>2. PICK s : /\ pc' = [pc EXCEPT ![r] = s]
               /\ \/ pc[r] = "idle" /\ s = "rejected"
                  \/ pc[r] \in Open /\ s \in Open
                  \/ pc[r] \in Late /\ s \in Late
  BY DEF Reject, CheckRate, AuditQuarantine, CheckTerms, CheckPolicies, RuleLoadFails, Resolve, Relay,
     WriteReply, UpstreamTimesOut, UpstreamBreaks, InsertFindings, InsertOutcomes, InsertFails, Stop, Goto
<1>3. Stage(r)' = Stage(r)
  <2>1. pc'[r] = s
    BY <1>0, <1>2 DEF TypeOK
  <2>2. CASE pc[r] = "idle"
    BY <1>2, <2>1, <2>2 DEF Stage
  <2>3. CASE pc[r] \in Open
    BY <1>2, <2>1, <2>3 DEF Stage
  <2>4. CASE pc[r] \in Late
    BY <1>1, <1>2, <2>1, <2>4 DEF Stage
  <2>5. QED
    BY <1>2, <2>2, <2>3, <2>4
<1>4. ABlocked' = ABlocked
  <2>1. \/ UNCHANGED outcome
        \/ /\ pc[r] \in Unanswered
           /\ \E o \in {"rate_block", "rate_quarantine", "nsfw_keyword"} : Stop(r, o)
    BY DEF Reject, CheckRate, AuditQuarantine, CheckTerms, CheckPolicies, RuleLoadFails, Resolve, Relay,
       WriteReply, UpstreamTimesOut, UpstreamBreaks, InsertFindings, InsertOutcomes, InsertFails, result, Unanswered
  <2>2. QED
    BY <1>0, <2>1 DEF ABlocked, Stop, Mappable, TypeOK
<1>5. QED
  BY <1>0, <1>1, <1>2, <1>3, <1>4, StageKept

LEMMA StampMaps ==
  ASSUME MappingInv, NEW r \in Requests, Stamp(r)
  PROVE  Limiter!Next
<1>0. TypeOK /\ Mappable(r)
  BY DEF MappingInv
<1>1. AStage[r] \in {"open", "refused"} /\ (AStage[r] = "refused" <=> pc[r] = "invalid")
  BY StageOfStep DEF Stamp, AStage
<1>2. pc' = [pc EXCEPT ![r] = "usage"] /\ UNCHANGED <<usageRows, outcome>>
  BY DEF Stamp, Goto, tables, result
<1>3. AStage' = [AStage EXCEPT ![r] = "stamped"]
  <2>1. AStage' = [AStage EXCEPT ![r] = Stage(r)'] /\ pc'[r] = "usage"
    BY <1>0, <1>2, StageMoves
  <2>2. Stage(r)' = "stamped"
    BY <2>1 DEF Stage
  <2>3. QED
    BY <2>1, <2>2
<1>4. /\ r \in ABlocked \/ AStage[r] = "refused" => StoredCost(r) = Null
      /\ StoredCost(r) \in ReplyCosts \cup {Null}
  BY <1>0, <1>1 DEF ABlocked, StoredCost, Mappable, Unanswered, TypeOK, ReplyCosts
<1>5. Limiter!Stamp(r)
  BY <1>1, <1>2, <1>3, <1>4 DEF Stamp, Limiter!Stamp, Limiter!Goto, AStage, ABlocked, draft, history
<1>6. QED
  BY <1>5 DEF Limiter!Next

LEMMA InsertMaps ==
  ASSUME MappingInv, NEW r \in Requests, InsertUsage(r) \/ (InsertFails(r) /\ pc[r] = "usage")
  PROVE  Limiter!Next
<1>0. TypeOK /\ Mappable(r)
  BY DEF MappingInv
<1>1. /\ pc[r] = "usage" /\ pc' = [pc EXCEPT ![r] = "findings"]
      /\ UNCHANGED <<outcome, Shared>>
      /\ usageRows' \in {usageRows, usageRows \cup {r}}
  BY DEF InsertUsage, InsertFails, Goto, draft, result, stamp, history, Shared
<1>2. AStage[r] = "stamped" /\ r \notin usageRows
  BY <1>0, <1>1, StageOfStep DEF AStage, Mappable, Unrecorded, InFlight
<1>3. AStage' = [AStage EXCEPT ![r] = Stage(r)'] /\ pc'[r] = "findings"
  BY <1>0, <1>1, StageMoves
<1>4. CASE usageRows' = usageRows \cup {r}
  <2>1. Stage(r)' = "recorded"
    BY <1>3, <1>4 DEF Stage
  <2>2. Limiter!Insert(r)
    BY <1>1, <1>2, <1>3, <1>4, <2>1 DEF Limiter!Insert, Limiter!Goto, AStage, Shared
  <2>3. QED
    BY <2>2 DEF Limiter!Next
<1>5. CASE usageRows' = usageRows
  <2>1. Stage(r)' = "gone"
    BY <1>2, <1>3, <1>5 DEF Stage
  <2>2. AStage' = [x \in Requests |-> IF x \in {r} THEN "gone" ELSE AStage[x]]
    BY <1>3, <2>1 DEF AStage
  <2>3. \A x \in {r} : AStage[x] \in Limiter!InFlight
    BY <1>2 DEF Limiter!InFlight
  <2>4. Limiter!Lose({r})
    BY <1>1, <1>5, <2>2, <2>3 DEF Limiter!Lose, AStage, Shared
  <2>5. QED
    BY <2>4 DEF Limiter!Next
<1>6. QED
  BY <1>1, <1>4, <1>5

LEMMA CrashMaps ==
  ASSUME MappingInv, Crash
  PROVE  Limiter!Next \/ UNCHANGED Limiter!vars
<1> DEFINE S == {x \in Requests : AStage[x] \in Limiter!InFlight \cup {"arrived"}}
<1>0. TypeOK /\ \A x \in Requests : Mappable(x)
  BY DEF MappingInv
<1>1. UNCHANGED <<usageRows, outcome, Shared>>
  BY DEF Crash, draft, result, stamp, tables, history, Shared
<1>2. ASSUME NEW x \in Requests
      PROVE  Stage(x)' = IF x \in S THEN "gone" ELSE AStage[x]
  <2>1. pc'[x] = IF pc[x] \in Running THEN "died" ELSE pc[x]
    BY DEF Crash
  <2>2. x \in S <=> pc[x] \in InFlight \cup {"body"}
    BY <1>0, StageOfStep DEF AStage, TypeOK, Running, InFlight, Ended, Limiter!InFlight
  <2>3. CASE pc[x] \in InFlight \cup {"body"}
    <3>1. pc'[x] = "died" /\ x \notin usageRows'
      BY <1>0, <1>1, <2>1, <2>3 DEF Running, Mappable, Unrecorded, InFlight
    <3>2. Stage(x)' = "gone"
      BY <3>1 DEF Stage
    <3>3. QED
      BY <2>2, <2>3, <3>2
  <2>4. CASE pc[x] \in {"findings", "outcomes"}
    <3>1. pc'[x] = "died"
      BY <2>1, <2>4 DEF Running
    <3>2. Stage(x)' = Stage(x)
      BY <1>1, <2>4, <3>1 DEF Stage
    <3>3. pc[x] \notin InFlight \cup {"body"}
      BY <2>4 DEF InFlight
    <3>4. QED
      BY <2>2, <3>2, <3>3 DEF AStage
  <2>5. CASE pc[x] \notin Running
    <3>1. pc'[x] = pc[x]
      BY <2>1, <2>5
    <3>2. Stage(x)' = Stage(x)
      BY <1>1, <3>1 DEF Stage
    <3>3. QED
      BY <2>2, <2>5, <3>2 DEF AStage, Running
  <2>6. QED
    BY <2>3, <2>4, <2>5 DEF Running
<1>3. AStage' = [x \in Requests |-> IF x \in S THEN "gone" ELSE AStage[x]]
  BY <1>2 DEF AStage
<1>4. CASE S = {}
  <2>1. AStage' = AStage
    BY <1>3, <1>4 DEF AStage
  <2>2. QED
    BY <1>1, <2>1 DEF Limiter!vars, Limiter!request, AStage, Shared
<1>5. CASE S # {}
  <2>1. Limiter!Lose(S)
    <3> \A x \in S : AStage[x] \in Limiter!InFlight \cup {"arrived"}
      OBVIOUS
    <3> HIDE DEF S
    <3> QED
      BY <1>1, <1>3, <1>5 DEF Limiter!Lose, AStage, Shared
  <2>2. S \in SUBSET Requests
    OBVIOUS
  <2>3. QED
    BY <2>1, <2>2 DEF Limiter!Next
<1>6. QED
  BY <1>4, <1>5

\* Whatever happens to requests on their way, and wherever it ends, failed statements and
\* crashes included, the proxy treats the spend of its users as CostLimit says.
THEOREM ImplementsCostLimit == Spec => RefinesCostLimit
<1>1. Init => Limiter!Init
  <2> SUFFICES ASSUME Init PROVE Limiter!Init
    OBVIOUS
  <2>1. AStage = [r \in Requests |-> "idle"]
    BY StageOfStep DEF Init, AStage
  <2>2. ABlocked = {}
    BY DEF Init, ABlocked
  <2>3. QED
    BY <2>1, <2>2 DEF Init, Limiter!Init, AStage, ABlocked, NoLimit, Limiter!NoLimit
<1>2. MappingInv /\ [Next]_vars => [Limiter!Next]_Limiter!vars
  <2> SUFFICES ASSUME MappingInv, [Next]_vars PROVE Limiter!Next \/ UNCHANGED Limiter!vars
    OBVIOUS
  <2>1. CASE \/ \E k \in Keys, l \in Limits : SetLimit(k, l)
             \/ \E rule \in Rules : EnableRule(rule) \/ DisableRule(rule)
             \/ UNCHANGED vars
    <3>1. UNCHANGED <<pc, usageRows, outcome, Shared>>
      BY <2>1 DEF SetLimit, EnableRule, DisableRule, vars, draft, result, stamp, tables, history, Shared
    <3>2. AStage' = AStage
      BY <3>1 DEF AStage, Stage
    <3>3. QED
      BY <3>1, <3>2 DEF Limiter!vars, Limiter!request, AStage, Shared
  <2>2. CASE Tick
    <3>1. UNCHANGED <<pc, usageRows, outcome, draft, stamp, under, peak>>
      BY <2>2 DEF Tick, result, tables, history
    <3>2. AStage' = AStage
      BY <3>1 DEF AStage, Stage
    <3>3. Limiter!Tick
      BY <2>2, <3>1, <3>2 DEF Tick, Limiter!Tick, Limiter!request, AStage, draft, stamp
    <3>4. QED
      BY <3>3 DEF Limiter!Next
  <2>3. ASSUME NEW r \in Requests, NEW k \in Keys,
               Arrive(r, k) \/ WrongMethod(r, k) \/ ReadBody(r)
        PROVE  Limiter!Next
    BY <2>3, ArriveMaps, EnterMaps, RefuseMaps
  <2>4. ASSUME NEW r \in Requests, Malformed(r) PROVE Limiter!Next
    <3>1. key[r] \in Keys
      BY <2>4 DEF MappingInv, TypeOK, Malformed, Running
    <3>2. QED
      BY <2>4, <3>1, RefuseMaps
  <2>5. QED
    BY <2>1, <2>2, StepCases, EnterMaps, CheckMaps, QuietSteps, StampMaps, InsertMaps,
       CrashMaps, <2>3, <2>4 DEF InsertFails
<1>3. MappingInv /\ [Next]_vars => MappingInv'
  BY NextTypeOK, NextMapping DEF MappingInv
<1>4. QED
  BY <1>1, <1>2, <1>3, InitMapping, PTL DEF Spec, RefinesCostLimit, Limiter!Spec

-----------------------------------------------------------------------------
(* What is proved of the cost limit holds of the pipeline. *)

Proved ==
  INSTANCE CostLimitProofs WITH
    Costs <- ReplyCosts,
    stage <- [r \in Requests |-> Stage(r)],
    blocked <- {r \in Requests : outcome[r] = "cost_limit"},
    rows <- usageRows

\* The specification that the proofs are about is the one the pipeline implements.
LEMMA SameInit == Limiter!Init => Proved!Init
BY DEF Limiter!Init, Proved!Init, Limiter!NoLimit, Proved!NoLimit

LEMMA SameNext == [Limiter!Next]_Limiter!vars => [Proved!Next]_Proved!vars
<1>1. \A u, t : Proved!Spend(u, t) = Limiter!Spend(u, t)
  BY DEF Proved!Spend, Limiter!Spend, Proved!RowsOf, Limiter!RowsOf, Proved!InMonth,
     Limiter!InMonth, Proved!SumOf, Limiter!SumOf, Proved!SumOver, Limiter!SumOver,
     Proved!Units, Limiter!Units, Proved!Cardinality, Limiter!Cardinality,
     Proved!MonthStart, Limiter!MonthStart, Proved!TextAtOrAfter, Limiter!TextAtOrAfter,
     Proved!TextBefore, Limiter!TextBefore, Proved!TextKey, Limiter!TextKey
<1>2. \A r \in Requests, k \in Keys : Limiter!Refuse(r, k) => Proved!Refuse(r, k)
  BY DEF Limiter!Refuse, Proved!Refuse, Limiter!Goto, Proved!Goto, Limiter!CountFlights,
     Proved!CountFlights, Limiter!InFlight, Proved!InFlight, Limiter!Cardinality,
     Proved!Cardinality
<1>3. \A r \in Requests, k \in Keys, l \in Limits : Limiter!Arrive(r, k, l) => Proved!Arrive(r, k, l)
  BY DEF Limiter!Arrive, Proved!Arrive, Limiter!Goto, Proved!Goto
<1>4. \A r \in Requests : Limiter!Enter(r) => Proved!Enter(r)
  BY DEF Limiter!Enter, Proved!Enter, Limiter!Goto, Proved!Goto, Limiter!CountFlights,
     Proved!CountFlights, Limiter!InFlight, Proved!InFlight, Limiter!Cardinality,
     Proved!Cardinality
<1>5. \A r \in Requests : Limiter!Check(r) => Proved!Check(r)
  BY <1>1 DEF Limiter!Check, Proved!Check, Limiter!Goto, Proved!Goto, Limiter!NoLimit,
     Proved!NoLimit
<1>6. \A r \in Requests : Limiter!CheckFails(r) => Proved!CheckFails(r)
  BY DEF Limiter!CheckFails, Proved!CheckFails, Limiter!Goto, Proved!Goto, Limiter!NoLimit,
     Proved!NoLimit
<1>7. \A r \in Requests : Limiter!Stamp(r) => Proved!Stamp(r)
  BY DEF Limiter!Stamp, Proved!Stamp, Limiter!Goto, Proved!Goto
<1>8. \A r \in Requests : Limiter!Insert(r) => Proved!Insert(r)
  BY DEF Limiter!Insert, Proved!Insert, Limiter!Goto, Proved!Goto
<1>9. \A S : Limiter!Lose(S) => Proved!Lose(S)
  BY DEF Limiter!Lose, Proved!Lose, Limiter!InFlight, Proved!InFlight
<1>10. Limiter!Tick => Proved!Tick
  BY DEF Limiter!Tick, Proved!Tick, Limiter!request, Proved!request
<1>11. UNCHANGED Limiter!vars => UNCHANGED Proved!vars
  BY DEF Limiter!vars, Proved!vars, Limiter!request, Proved!request
<1>12. QED
  BY <1>2, <1>4, <1>5, <1>6, <1>7, <1>8, <1>9, <1>10, <1>11, <1>3 DEF Limiter!Next, Proved!Next

LEMMA SpendAsProved == Spec => Proved!Spec
BY ImplementsCostLimit, SameInit, SameNext, PTL DEF RefinesCostLimit, Limiter!Spec, Proved!Spec

\* The assumptions on the constants of the cost limit hold of the pipeline's.
LEMMA LimitAssumptions ==
  /\ Proved!IsFiniteSet(Requests)
  /\ NoKey \notin Keys /\ UserOf \in [Keys -> Users]
  /\ Limits \subseteq Nat /\ ReplyCosts \subseteq Nat /\ Null \notin Nat
  /\ \E c \in ReplyCosts : \A d \in ReplyCosts : d <= c
  /\ Instants \subseteq Nat
  /\ MonthTicks \in Nat \ {0}
  /\ MonthTicks % 10 = 0
<1>1. Proved!IsFiniteSet(Requests)
  BY RequestsAssumption DEF Proved!IsFiniteSet, IsFiniteSet
<1>2. ReplyCosts \subseteq Nat
  BY MoneyAssumption DEF ReplyCosts, Reply
<1>3. QED
  BY <1>1, <1>2, KeysAssumption, MoneyAssumption, DearestAssumption, TimeAssumption

\* In the pipeline with its failures and crashes, the rows of a month that belong to
\* requests found below a limit of l or less sum up to less than l and the cost of the
\* requests of the user that were ever in flight together (server.go:718 and
\* cost_limit.go:29-59).
THEOREM SpendStaysBounded == Spec => []Proved!SpendBound
<1>1. Proved!Spec => []Proved!SpendBound
  BY LimitAssumptions, Proved!OverrunBounded, Zenon
<1>2. QED
  BY <1>1, SpendAsProved, PTL

\* In the pipeline with its failures and crashes, a request ends with the outcome
\* "cost_limit" only if its user's rows of the month it arrived in come up to the limit its
\* key had on arrival (server.go:718 and cost_limit.go:29-59).
THEOREM CostBlocksJustified == Spec => []Proved!CostBlockJustified
<1>1. Proved!Spec => []Proved!CostBlockJustified
  BY LimitAssumptions, Proved!BlockJustified, Zenon
<1>2. QED
  BY <1>1, SpendAsProved, PTL
=============================================================================

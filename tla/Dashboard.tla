----------------------------- MODULE Dashboard -----------------------------
(***************************************************************************)
(* The evidence of chat requests and the pages that show it.  A request    *)
(* finds PII and blocked terms (pii.go, nsfw.go) and then logRequest       *)
(* stores a row in usage_records, one in pii_findings for each finding and *)
(* one in guardrail_outcomes for each outcome (server.go,                  *)
(* dashboard_store.go), each insert by itself.  Only the user, the request *)
(* id, which the client may choose, and the time join these rows.          *)
(*                                                                         *)
(* A page of the dashboard reads the three tables in separate statements   *)
(* while requests are being recorded: the log page joins the newest usage  *)
(* rows with their findings and outcomes, the usage page sums each table.  *)
(***************************************************************************)
EXTENDS DBTime, DBSum, FiniteSets, Sequences

CONSTANTS
  Requests,
  NoRequest,
  Users,
  UserLists,  \* the users of a page: one, or those of the overview in order
  Ids,        \* values of X-Request-ID
  Cases,      \* what a request meets: [gate : "open", or the type of the limit that blocks;
              \* terms : the ids of the blocked terms in its texts; policy : the PII policies,
              \* an action for each type; ingress, egress : its matches [entity, value] and
              \* those of the answer]
  Instants,
  Windows,    \* <<from, to>>, either of them None
  None,
  Limit,      \* maxDashboardLogsPerTenant
  MaxFaults   \* bound on failed statements and crashes

ASSUME RequestsAssumption == IsFiniteSet(Requests)
\* configuredUsers lists each user once; the overview of no users reads nothing.
ASSUME UsersAssumption ==
  \A users \in UserLists :
    /\ users \in Seq(Users) \ {<<>>}
    /\ \A j, k \in DOMAIN users : users[j] = users[k] => j = k
ASSUME CasesAssumption ==
  \A c \in Cases :
    /\ c.gate \in {"open", "rate_limiter", "cost_limit"}
    /\ c.terms \in Seq(Nat)
    /\ {c.ingress, c.egress} \subseteq Seq([entity : DOMAIN c.policy, value : STRING])
ASSUME LimitAssumption == Limit \in Nat \ {0}
ASSUME BoundsAssumption == MaxFaults \in Nat /\ Instants \subseteq Nat /\ None \notin Nat
ASSUME WindowsAssumption ==
  \A w \in Windows : /\ {w[1], w[2]} \subseteq Nat \cup {None}
                     /\ w[1] # None /\ w[2] # None => w[1] < w[2]

VARIABLES
  now,
  asked,   \* each request: its user, id and case
  at,      \* logRequest's reading of the clock
  pc,
  left,    \* the findings and outcomes it has still to insert
  stored,  \* its rows in the three tables
  page,    \* the page being built, or the last one
  faults,
  \* History variables: no action reads them.
  lossy,   \* requests some of whose rows may be missing
  before   \* the requests recorded in full when the page was opened

vars == <<now, asked, at, pc, left, stored, page, faults, lossy, before>>

-----------------------------------------------------------------------------
(* What a request finds. *)

\* Mutant of Findings: a match found again is not counted.
FindingsOnce(text, policy, direction) ==
  {[direction |-> direction, entity |-> m.entity, action |-> policy[m.entity],
    value |-> m.value, count |-> 1] :
     m \in {text[k] : k \in {l \in DOMAIN text : policy[text[l].entity] # "disabled"}}}

\* detectPIIFindings: one record for each value found, with the number of its matches.
Findings(text, policy, direction) ==
  {[direction |-> direction, entity |-> m.entity, action |-> policy[m.entity],
    value |-> m.value, count |-> Cardinality({k \in DOMAIN text : text[k] = m})] :
     m \in {text[k] : k \in {l \in DOMAIN text : policy[text[l].entity] # "disabled"}}}

HasBlockingPIIFinding(findings) ==
  \E f \in findings : f.action = "block" /\ f.direction = "ingress"

Outcome(type, id) == [type |-> type, policy |-> id]

\* nsfwGuardrailOutcomes: one for each term, in however many texts it is.
NSFWOutcomes(terms) == {Outcome("nsfw_keyword", terms[k]) : k \in DOMAIN terms}

\* The order of handleChatCompletions: limits, blocked terms, PII of the request, answer.
Evidence(c) ==
  LET ingress == Findings(c.ingress, c.policy, "ingress")
      egress == Findings(c.egress, c.policy, "egress")
  IN  IF c.gate # "open" THEN [findings |-> {}, outcomes |-> {Outcome(c.gate, 0)}]
      ELSE IF c.terms # <<>> THEN [findings |-> {}, outcomes |-> NSFWOutcomes(c.terms)]
      ELSE [findings |-> IF HasBlockingPIIFinding(ingress) THEN ingress
                         ELSE ingress \cup egress,
            outcomes |-> {}]

-----------------------------------------------------------------------------
(* What it stores. *)

Request == [user : Users, id : Ids, case : Cases]

Nothing == [findings |-> {}, outcomes |-> {}]

NoPage == [step |-> "none", kind |-> "none", users |-> <<>>, turn |-> 1, window |-> <<None, None>>,
           records |-> {}, findings |-> {}, again |-> {}, shown |-> {}]

Init ==
  /\ now \in {t \in Instants : \A u \in Instants : t <= u}
  /\ asked = [r \in Requests |-> NoRequest]
  /\ at = [r \in Requests |-> 0]
  /\ pc = [r \in Requests |-> "idle"]
  /\ left = [r \in Requests |-> Nothing]
  /\ stored = [r \in Requests |-> [usage |-> FALSE, findings |-> {}, outcomes |-> {}]]
  /\ page = NoPage
  /\ faults = 0
  /\ lossy = {}
  /\ before = {}

Fault == faults < MaxFaults /\ faults' = faults + 1

Tick ==
  /\ now' \in {t \in Instants : t > now}
  /\ UNCHANGED <<asked, at, pc, left, stored, page, faults, lossy, before>>

\* A request is handled, and logRequest reads the clock.
Answer(r, q) ==
  /\ pc[r] = "idle"
  /\ asked' = [asked EXCEPT ![r] = q]
  /\ at' = [at EXCEPT ![r] = now]
  /\ left' = [left EXCEPT ![r] = Evidence(q.case)]
  /\ pc' = [pc EXCEPT ![r] = "record"]
  /\ UNCHANGED <<now, stored, page, faults, lossy, before>>

After(rest) == IF rest = Nothing THEN "done" ELSE "rows"

RecordUsage(r) ==
  /\ pc[r] = "record"
  /\ stored' = [stored EXCEPT ![r].usage = TRUE]
  /\ pc' = [pc EXCEPT ![r] = After(left[r])]
  /\ UNCHANGED <<now, asked, at, left, page, faults, lossy, before>>

\* Ingress first; the order within a direction is that of the fingerprints.
NextFindings(r) ==
  LET ingress == {f \in left[r].findings : f.direction = "ingress"}
  IN  IF ingress # {} THEN ingress ELSE left[r].findings

Take(r, rest) ==
  /\ left' = [left EXCEPT ![r] = rest]
  /\ pc' = [pc EXCEPT ![r] = After(rest)]

RecordPIIFinding(r) ==
  /\ pc[r] = "rows"
  /\ \E f \in NextFindings(r) :
       /\ stored' = [stored EXCEPT ![r].findings = @ \cup {f}]
       /\ Take(r, [left[r] EXCEPT !.findings = @ \ {f}])
  /\ UNCHANGED <<now, asked, at, page, faults, lossy, before>>

RecordGuardrailOutcome(r) ==
  /\ pc[r] = "rows"
  /\ left[r].findings = {}
  /\ \E o \in left[r].outcomes :
       /\ stored' = [stored EXCEPT ![r].outcomes = @ \cup {o}]
       /\ Take(r, [left[r] EXCEPT !.outcomes = @ \ {o}])
  /\ UNCHANGED <<now, asked, at, page, faults, lossy, before>>

\* A failed insert is logged; it ends its table's inserts, and the next table's follow.
RecordFails(r) ==
  /\ pc[r] \in {"record", "rows"}
  /\ Fault
  /\ lossy' = lossy \cup {r}
  /\ Take(r, IF pc[r] = "record" THEN left[r]
             ELSE IF left[r].findings # {} THEN [left[r] EXCEPT !.findings = {}]
             ELSE Nothing)
  /\ UNCHANGED <<now, asked, at, stored, page, before>>

Crash ==
  /\ Fault
  /\ LET S == {r \in Requests : pc[r] \in {"record", "rows"}}
     IN  /\ S # {}
         /\ pc' = [r \in Requests |-> IF r \in S THEN "died" ELSE pc[r]]
         /\ lossy' = lossy \cup S
  /\ page' = NoPage
  /\ left' = [r \in Requests |-> Nothing]
  /\ before' = {}
  /\ UNCHANGED <<now, asked, at, stored>>

-----------------------------------------------------------------------------
(* What a page reads. *)

InWindow(t, w) ==
  /\ w[1] # None => TextAtOrAfter(t, w[1])
  /\ w[2] # None => TextBefore(t, w[2])

\* Mutant of OfUser: the join is on the request id alone.
OfAnyUser(r, u) == TRUE

OfUser(r, u) == asked[r].user = u

\* The rows a query on findings or outcomes may select; None asks for every id.
Matching(u, w, ids) ==
  {r \in Requests :
     /\ pc[r] # "idle"
     /\ OfUser(r, u)
     /\ InWindow(at[r], w)
     /\ ids # None => asked[r].id \in ids}

UsageRows(u, w) ==
  {r \in Requests : pc[r] # "idle" /\ asked[r].user = u /\ stored[r].usage /\ InWindow(at[r], w)}

FindingRows(u, w, ids) ==
  UNION {{[req |-> r, f |-> f] : f \in stored[r].findings} : r \in Matching(u, w, ids)}

OutcomeRows(u, w, ids) ==
  UNION {{[req |-> r, type |-> o.type] : o \in stored[r].outcomes} : r \in Matching(u, w, ids)}

\* Mutant of Newest: ORDER BY without DESC.
Oldest(S, T) ==
  T \subseteq S /\ \A r \in T, q \in S \ T : ~TextBefore(at[q], at[r])

\* ORDER BY timestamp_utc DESC LIMIT: ties are broken by the database.
Newest(S, T) ==
  T \subseteq S /\ \A r \in T, q \in S \ T : ~TextBefore(at[r], at[q])

Label(type) ==
  CASE type = "nsfw_keyword" -> "NSFW"
    [] type = "rate_limiter" -> "Rate Limit"
    [] type = "cost_limit" -> "Cost Limit"

\* The sums of scanPIIRequestSummaries and scanPIITenantSummary.
Count(rows, direction) ==
  SumOver([row \in rows |-> row.f.count], {row \in rows : row.f.direction = direction})

PIILabel(rows) == IF rows # {} THEN {"PII"} ELSE {}

\* buildRequestSecuritySummary: what the rows under the id of an entry add up to.
LogEntry(u, r, findings, outcomes) ==
  LET mine == {x \in findings : asked[x.req].id = asked[r].id}
  IN  [user |-> u, req |-> r, ingress |-> Count(mine, "ingress"),
       egress |-> Count(mine, "egress"),
       labels |-> PIILabel(mine)
                    \cup {Label(x.type) : x \in {y \in outcomes : asked[y.req].id = asked[r].id}}]

\* Mutant of UsageItem: securitySummary is called before piiSummary.
UsageItemSwapped(u, records, findings, again, outcomes) ==
  [user |-> u, counted |-> records, flagged |-> {asked[x.req].id : x \in again},
   ingress |-> Count(again, "ingress"),
   labels |-> PIILabel(findings) \cup {Label(x.type) : x \in outcomes}]

\* Totals, piiSummary, and the labels of securitySummary, which reads the findings again.
UsageItem(u, records, findings, again, outcomes) ==
  [user |-> u, counted |-> records, flagged |-> {asked[x.req].id : x \in findings},
   ingress |-> Count(findings, "ingress"),
   labels |-> PIILabel(again) \cup {Label(x.type) : x \in outcomes}]

-----------------------------------------------------------------------------
(* The pages. *)

\* A page of one user, or the overview of all.
Open(kind, users, w) ==
  /\ page.step \in {"none", "answered"}
  /\ page' = [NoPage EXCEPT !.step = "records", !.kind = kind, !.users = users, !.window = w]
  /\ before' = {r \in Requests : pc[r] = "done"} \ lossy
  /\ UNCHANGED <<now, asked, at, pc, left, stored, faults, lossy>>

Reader == page.users[page.turn]

\* The page after the items of one user: the next user, or the answer.
Show(items) ==
  [page EXCEPT !.step = IF page.turn = Len(page.users) THEN "answered" ELSE "records",
               !.turn = @ + 1, !.shown = @ \cup items,
               !.records = {}, !.findings = {}, !.again = {}]

\* Findings and outcomes are read only for the ids of the page.
ReadLogRecords ==
  /\ page.step = "records"
  /\ page.kind = "logs"
  /\ LET S == UsageRows(Reader, page.window)
     IN  \E T \in SUBSET S :
           /\ Cardinality(T) = IF Cardinality(S) < Limit THEN Cardinality(S) ELSE Limit
           /\ Newest(S, T)
           /\ page' = IF T = {} THEN Show({})
                      ELSE [page EXCEPT !.step = "findings", !.records = T]
  /\ UNCHANGED <<now, asked, at, pc, left, stored, faults, lossy, before>>

ReadTotals ==
  /\ page.step = "records"
  /\ page.kind = "usage"
  /\ page' = [page EXCEPT !.step = "findings", !.records = UsageRows(Reader, page.window)]
  /\ UNCHANGED <<now, asked, at, pc, left, stored, faults, lossy, before>>

PageIds == IF page.kind = "logs" THEN {asked[r].id : r \in page.records} ELSE None

ReadFindings ==
  /\ page.step = "findings"
  /\ page' = [page EXCEPT !.step = IF page.kind = "logs" THEN "outcomes" ELSE "again",
                          !.findings = FindingRows(Reader, page.window, PageIds)]
  /\ UNCHANGED <<now, asked, at, pc, left, stored, faults, lossy, before>>

\* securitySummary counts the flagged requests anew.
ReadFindingsAgain ==
  /\ page.step = "again"
  /\ page' = [page EXCEPT !.step = "outcomes",
                          !.again = FindingRows(Reader, page.window, None)]
  /\ UNCHANGED <<now, asked, at, pc, left, stored, faults, lossy, before>>

ReadOutcomes ==
  /\ page.step = "outcomes"
  /\ LET outcomes == OutcomeRows(Reader, page.window, PageIds)
     IN  page' = Show(IF page.kind = "logs"
                      THEN {LogEntry(Reader, r, page.findings, outcomes) : r \in page.records}
                      ELSE {UsageItem(Reader, page.records, page.findings, page.again,
                                      outcomes)})
  /\ UNCHANGED <<now, asked, at, pc, left, stored, faults, lossy, before>>

\* A failed read is answered 500, whatever was read already.
PageFails ==
  /\ page.step \notin {"none", "answered"}
  /\ Fault
  /\ page' = NoPage
  /\ before' = {}
  /\ UNCHANGED <<now, asked, at, pc, left, stored, lossy>>

Next ==
  \/ Tick
  \/ \E r \in Requests :
       \/ \E q \in Request : Answer(r, q)
       \/ RecordUsage(r)
       \/ RecordPIIFinding(r)
       \/ RecordGuardrailOutcome(r)
       \/ RecordFails(r)
  \/ Crash
  \/ \E kind \in {"logs", "usage"}, users \in UserLists, w \in Windows : Open(kind, users, w)
  \/ ReadLogRecords
  \/ ReadTotals
  \/ ReadFindings
  \/ ReadFindingsAgain
  \/ ReadOutcomes
  \/ PageFails

Spec == Init /\ [][Next]_vars

-----------------------------------------------------------------------------

\* The matches of enabled policies in a request or its answer.
Matches(text, policy) == {k \in DOMAIN text : policy[text[k].entity] # "disabled"}

Blocked(c) == c.gate # "open" \/ c.terms # <<>>

Ingress(r) ==
  LET c == asked[r].case
  IN  IF Blocked(c) THEN 0 ELSE Cardinality(Matches(c.ingress, c.policy))

TotalIngress(S) == SumOver([r \in S |-> Ingress(r)], S)

Egress(r) ==
  LET c == asked[r].case
      barred == \E k \in DOMAIN c.ingress : c.policy[c.ingress[k].entity] = "block"
  IN  IF Blocked(c) \/ barred THEN 0 ELSE Cardinality(Matches(c.egress, c.policy))

Labels(r) ==
  LET c == asked[r].case
  IN  (IF Ingress(r) + Egress(r) > 0 THEN {"PII"} ELSE {})
        \cup IF c.gate # "open" THEN {Label(c.gate)} ELSE IF c.terms # <<>> THEN {"NSFW"} ELSE {}

SharesId(r) ==
  \E q \in Requests \ {r} :
    pc[q] # "idle" /\ asked[q].user = asked[r].user /\ asked[q].id = asked[r].id

\* A time in the window, or out of it, whichever way the second of a bound sorts.
Inside(t, w) ==
  /\ w[1] # None => t = w[1] \/ Second(t) > Second(w[1])
  /\ w[2] # None => Second(t) < Second(w[2])

Outside(t, w) ==
  \/ w[1] # None /\ Second(t) < Second(w[1])
  \/ w[2] # None /\ (t = w[2] \/ Second(t) > Second(w[2]))

LogPage == page.step = "answered" /\ page.kind = "logs"
UsagePage == page.step = "answered" /\ page.kind = "usage"

\* An entry of the log page tells of its request all that was found, and nothing of other
\* requests, if the request was recorded in full before the page was opened and no other
\* request of the user came with its id.
EntryTellsRequest ==
  LogPage => \A e \in page.shown :
    e.req \in before /\ ~SharesId(e.req) =>
      /\ e.ingress = Ingress(e.req)
      /\ e.egress = Egress(e.req)
      /\ e.labels = Labels(e.req)

\* A request the log page leaves out gave way to Limit requests as new as itself, to the
\* second.
NewestShown ==
  LogPage => \A r \in {q \in before : asked[q].user \in {page.users[k] : k \in DOMAIN page.users}} :
    LET shown == {e \in page.shown : e.user = asked[r].user}
    IN  Inside(at[r], page.window) /\ (\A e \in shown : e.req # r) =>
          /\ Cardinality(shown) = Limit
          /\ \A e \in shown : Second(at[e.req]) >= Second(at[r])

\* The usage page counts every request recorded in its window before it was opened, with
\* all its findings, and none from outside.
TotalsCount ==
  UsagePage => \A i \in page.shown :
    LET sure == {r \in before : asked[r].user = i.user /\ Inside(at[r], page.window)}
        known == {r \in Requests : pc[r] # "idle" /\ asked[r].user = i.user
                                     /\ ~Outside(at[r], page.window)}
    IN  /\ sure \subseteq i.counted /\ i.counted \subseteq known
        /\ TotalIngress(sure) <= i.ingress
        /\ i.ingress <= TotalIngress(known)

\* The parts of the usage page are read one after the other, and agree: where it counts a
\* flagged request, it carries the label.
LabelsAgree ==
  UsagePage => \A i \in page.shown : i.flagged # {} => "PII" \in i.labels
=============================================================================

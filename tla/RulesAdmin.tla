----------------------------- MODULE RulesAdmin -----------------------------
(***************************************************************************)
(* The administration of the content rules: blocked terms (POST, PATCH and *)
(* DELETE under /nsfw-terms) and PII policies (PATCH /pii-policy), with    *)
(* the audit event each handler writes after its change (admin_api.go,     *)
(* management_service.go, management_store.go).                            *)
(*                                                                         *)
(* Handlers run concurrently.  The statements of a term handler commit one *)
(* by one: it checks for duplicates and writes later, and a PATCH that     *)
(* does not name "enabled" writes back what it read.  A PATCH of policies  *)
(* upserts its entries in one transaction, in the order of its payload, so *)
(* two of them may wait for each other's rows.                             *)
(***************************************************************************)
EXTENDS Integers, Sequences, FiniteSets

CONSTANTS
  Admins,     \* administrator requests, each handled once
  NoAdmin,
  Texts,      \* what administrators type
  NormOf,     \* normalizeNSFWTerm of each text; NoWord is ""
  NoWord,
  Ids,        \* 1..n
  NoTerm,
  Entities,
  Payloads,   \* the bodies of PATCH /pii-policy: sequences of <<entity, action>>,
              \* with "unknown" for a type or an action that is not supported
  MaxFaults   \* bound on failed statements and crashes

Words == {NormOf[x] : x \in Texts} \ {NoWord}
PolicyActions == {"observe", "block", "disabled"}
Term == [word : Words, enabled : BOOLEAN]

ASSUME IdsAssumption == Ids \in SUBSET (Nat \ {0}) /\ NoTerm \notin Term
ASSUME PayloadsAssumption == Payloads \subseteq Seq(Entities \X (PolicyActions \cup {"unknown"}))
ASSUME AdminsAssumption == NoAdmin \notin Admins
ASSUME BoundsAssumption == MaxFaults \in Nat

VARIABLES
  terms,     \* nsfw_blocked_terms by id
  nextId,
  policies,  \* pii_guardrail_policies: the action of each type
  owner,     \* the transaction that holds the row lock of a policy
  pc,        \* the next statement of each request
  req,       \* the locals of each handler, until its outcome is known
  status,    \* what its audit event will say
  audit,     \* audit_events: the status recorded for each request
  faults,
  \* History variables: no action reads them.
  changed,   \* requests whose change took effect
  doubtful,  \* those whose statement failed and may have taken effect all the same
  late,      \* updates that came after the row was deleted
  untraced,  \* requests whose audit event could not be written
  intended,  \* the value of "enabled" named last, by id
  overlapped, \* ids where another PATCH had read the value before it was named
  serial     \* the policies if every PATCH were one step

tables == <<terms, nextId, policies>>
history == <<changed, doubtful, late, untraced, intended, overlapped, serial>>
vars == <<tables, owner, pc, req, status, audit, faults, history>>

Ended == {"done", "died"}
TermSteps == {"find", "load", "reload", "unique", "write", "delete"}
PolicySteps == {"upsert", "commit", "list"}
Running == TermSteps \cup PolicySteps \cup {"audit"}

\* What a handler holds: the normal form of the text, the id of the path (0 for a new
\* term), whether "enabled" is named and the value to write, the policies, and how many of
\* them are upserted.
Nothing ==
  [word |-> NoWord, id |-> 0, named |-> FALSE, enabled |-> FALSE, payload |-> <<>>, sent |-> 0]

Init ==
  /\ \E S \in SUBSET Ids : \E word \in [S -> Words] :
       /\ \A i, j \in S : word[i] = word[j] => i = j
       /\ nextId \in {i \in 1..(Cardinality(Ids) + 1) : \A j \in S : j < i}
       /\ terms = [i \in Ids |-> IF i \in S THEN [word |-> word[i], enabled |-> TRUE]
                                 ELSE NoTerm]
  /\ policies = [e \in Entities |-> "observe"]
  /\ owner = [e \in Entities |-> NoAdmin]
  /\ pc = [a \in Admins |-> "idle"]
  /\ req = [a \in Admins |-> Nothing]
  /\ status = [a \in Admins |-> "none"]
  /\ audit = [a \in Admins |-> "none"]
  /\ faults = 0
  /\ changed = {}
  /\ doubtful = {}
  /\ late = {}
  /\ untraced = {}
  /\ intended = [i \in Ids |-> TRUE]
  /\ overlapped = {}
  /\ serial = policies

Goto(a, step) == pc' = [pc EXCEPT ![a] = step]

\* The next step, with the locals as they are.
Pass(a, step) == Goto(a, step) /\ UNCHANGED <<req, status>>

\* The first step, with the locals of the request.
Begin(a, step, r) == Goto(a, step) /\ req' = [req EXCEPT ![a] = r] /\ UNCHANGED status

\* The outcome is known, and only its audit event is left to write.
Finish(a, s) ==
  /\ Goto(a, "audit")
  /\ status' = [status EXCEPT ![a] = s]
  /\ req' = [req EXCEPT ![a] = Nothing]

\* An answer without an audit event.
Answer(a) == Goto(a, "done") /\ req' = [req EXCEPT ![a] = Nothing] /\ UNCHANGED status

Fault == faults < MaxFaults /\ faults' = faults + 1

Exists(i) == terms[i] # NoTerm

-----------------------------------------------------------------------------
(* Blocked terms. *)

Posting(b) == req[b].id = 0 /\ pc[b] \in {"unique", "write"}

\* An empty term is refused before anything is read.  (The second guard bounds the ids.)
Post(a, x, e) ==
  /\ pc[a] = "idle"
  /\ nextId + Cardinality({b \in Admins : Posting(b)}) \in Ids
  /\ IF NormOf[x] = NoWord THEN Finish(a, "failed")
     ELSE Begin(a, "unique", [Nothing EXCEPT !.word = NormOf[x], !.named = TRUE, !.enabled = e])
  /\ UNCHANGED <<tables, owner, audit, faults, history>>

Patch(a, i, x, named, e) ==
  /\ pc[a] = "idle"
  /\ Begin(a, "load", [Nothing EXCEPT !.word = NormOf[x], !.id = i, !.named = named,
                                      !.enabled = e])
  /\ UNCHANGED <<tables, owner, audit, faults, history>>

Delete(a, i) ==
  /\ pc[a] = "idle"
  /\ Begin(a, "find", [Nothing EXCEPT !.id = i])
  /\ UNCHANGED <<tables, owner, audit, faults, history>>

\* Mutant of Merged: "enabled" defaults to true, as in POST.
MergedDefault(r) == IF r.named THEN r.enabled ELSE TRUE

\* payload.Enabled, or the value of the row.
Merged(r) == IF r.named THEN r.enabled ELSE terms[r.id].enabled

\* The handler's own read; an unknown id is answered 404.
Load(a) ==
  /\ pc[a] = "load"
  /\ IF Exists(req[a].id)
     THEN Begin(a, "reload", [req[a] EXCEPT !.enabled = Merged(req[a])])
     ELSE Answer(a)
  /\ UNCHANGED <<tables, owner, audit, faults, history>>

\* updateManagedNSFWBlockedTerm reads the row again, then looks at the text.
Reload(a) ==
  /\ pc[a] = "reload"
  /\ IF Exists(req[a].id) /\ req[a].word # NoWord THEN Pass(a, "unique") ELSE Finish(a, "failed")
  /\ UNCHANGED <<tables, owner, audit, faults, history>>

Taken(word, i) == \E j \in Ids \ {i} : Exists(j) /\ terms[j].word = word

\* ensureUniqueNSFWNormalizedTerm; the id is 0 for a new term.
EnsureUnique(a) ==
  /\ pc[a] = "unique"
  /\ IF Taken(req[a].word, req[a].id) THEN Finish(a, "failed") ELSE Pass(a, "write")
  /\ UNCHANGED <<tables, owner, audit, faults, history>>

NewTerm(r) == [word |-> r.word, enabled |-> r.enabled]

\* Mutant of Accepts: the column normalized_term is not UNIQUE.
AcceptsAny(r) == TRUE

Accepts(r) == ~Taken(r.word, r.id)

\* PATCHes of i that do not name "enabled" and have read it.
HoldsCopy(a, i) == req[a].id = i /\ ~req[a].named /\ pc[a] \in {"reload", "unique", "write"}

\* What an explicit value of "enabled" means for the term.
Name(a, i) ==
  IF req[a].named
  THEN /\ intended' = [intended EXCEPT ![i] = req[a].enabled]
       /\ overlapped' = IF \E b \in Admins : HoldsCopy(b, i)
                        THEN overlapped \cup {i} ELSE overlapped \ {i}
  ELSE UNCHANGED <<intended, overlapped>>

StoreAt(a, i) ==
  /\ terms' = [terms EXCEPT ![i] = NewTerm(req[a])]
  /\ changed' = changed \cup {a}
  /\ Name(a, i)
  /\ UNCHANGED late

\* Mutant of UpdateTerm: it inserts the row if it is gone.
UpsertTerm(a) == StoreAt(a, req[a].id)

\* UPDATE ... WHERE id = ?: of a row that is gone it changes nothing, without an error.
UpdateTerm(a) ==
  IF Exists(req[a].id) THEN StoreAt(a, req[a].id)
  ELSE late' = late \cup {a} /\ UNCHANGED <<terms, changed, intended, overlapped>>

Store(a) == IF req[a].id = 0 THEN StoreAt(a, nextId) ELSE UpdateTerm(a)

\* A sequence number is drawn even if the row is refused.
Draw(a) == nextId' = IF req[a].id = 0 THEN nextId + 1 ELSE nextId

WriteTerm(a) ==
  /\ pc[a] = "write"
  /\ Draw(a)
  /\ \/ Accepts(req[a]) /\ Store(a) /\ Finish(a, "success")
     \/ /\ ~Accepts(req[a])
        /\ Finish(a, "failed")
        /\ UNCHANGED <<terms, changed, intended, overlapped, late>>
  /\ UNCHANGED <<policies, owner, audit, faults, doubtful, untraced, serial>>

\* The statement took effect, and its answer was lost.
WriteTermDoubtful(a) ==
  /\ pc[a] = "write"
  /\ Accepts(req[a])
  /\ Fault
  /\ Draw(a)
  /\ Store(a)
  /\ doubtful' = doubtful \cup {a}
  /\ Finish(a, "failed")
  /\ UNCHANGED <<policies, owner, audit, untraced, serial>>

FindTerm(a) ==
  /\ pc[a] = "find"
  /\ IF Exists(req[a].id) THEN Pass(a, "delete") ELSE Finish(a, "failed")
  /\ UNCHANGED <<tables, owner, audit, faults, history>>

Remove(a) ==
  LET i == req[a].id
  IN  /\ terms' = [terms EXCEPT ![i] = NoTerm]
      /\ changed' = IF Exists(i) THEN changed \cup {a} ELSE changed
      /\ late' = IF Exists(i) THEN late ELSE late \cup {a}

DeleteTerm(a) ==
  /\ pc[a] = "delete"
  /\ Remove(a)
  /\ Finish(a, "success")
  /\ UNCHANGED <<nextId, policies, owner, audit, faults, doubtful, untraced, intended,
                 overlapped, serial>>

DeleteTermDoubtful(a) ==
  /\ pc[a] = "delete"
  /\ Fault
  /\ Remove(a)
  /\ doubtful' = doubtful \cup {a}
  /\ Finish(a, "failed")
  /\ UNCHANGED <<nextId, policies, owner, audit, untraced, intended, overlapped, serial>>

\* Mutant of TermFails: the error of a write is dropped.
TermFailsUnseen(a) ==
  /\ pc[a] \in TermSteps
  /\ Fault
  /\ Finish(a, IF pc[a] \in {"write", "delete"} THEN "success" ELSE "failed")
  /\ UNCHANGED <<tables, owner, audit, history>>

\* A failed read or write: 500 and an audit event, except for the PATCH handler's own
\* read, which is answered without one.
TermFails(a) ==
  /\ pc[a] \in TermSteps
  /\ Fault
  /\ IF pc[a] = "load" THEN Answer(a) ELSE Finish(a, "failed")
  /\ UNCHANGED <<tables, owner, audit, history>>

-----------------------------------------------------------------------------
(* PII policies. *)

\* updateManagedPIIPolicies looks at the whole payload before it writes any of it.
PatchPolicies(a, p) ==
  /\ pc[a] = "idle"
  /\ IF p # <<>> /\ \A k \in DOMAIN p : p[k][2] \in PolicyActions
     THEN Begin(a, "upsert", [Nothing EXCEPT !.payload = p])
     ELSE Finish(a, "failed")
  /\ UNCHANGED <<tables, owner, audit, faults, history>>

Entry(a) == req[a].payload[req[a].sent + 1]

Wanted(a) == Entry(a)[1]

Waits(a) == pc[a] = "upsert" /\ owner[Wanted(a)] \notin {a, NoAdmin}

Release(a) == owner' = [e \in Entities |-> IF owner[e] = a THEN NoAdmin ELSE owner[e]]

AfterUpsert(a) ==
  LET sent == req[a].sent + 1
  IN  Begin(a, IF sent = Len(req[a].payload) THEN "commit" ELSE "upsert",
            [req[a] EXCEPT !.sent = sent])

\* Mutant of Upsert: outside a transaction, each statement commits by itself.
UpsertAlone(a) ==
  /\ pc[a] = "upsert"
  /\ ~Waits(a)
  /\ policies' = [policies EXCEPT ![Wanted(a)] = Entry(a)[2]]
  /\ AfterUpsert(a)
  /\ UNCHANGED <<terms, nextId, owner, audit, faults, history>>

\* INSERT ... ON CONFLICT DO UPDATE waits for the row, and keeps it to the end of its
\* transaction.
Upsert(a) ==
  /\ pc[a] = "upsert"
  /\ ~Waits(a)
  /\ owner' = [owner EXCEPT ![Wanted(a)] = a]
  /\ AfterUpsert(a)
  /\ UNCHANGED <<tables, audit, faults, history>>

\* The last entry of p for each type it names, over q.
Applied(p, q) ==
  [e \in Entities |->
     LET K == {k \in DOMAIN p : p[k][1] = e}
     IN  IF K = {} THEN q[e] ELSE p[CHOOSE k \in K : \A l \in K : l <= k][2]]

\* The rows the transaction owns take the values it wrote.
Commit(a) ==
  LET p == req[a].payload
  IN  /\ pc[a] = "commit"
      /\ policies' = [e \in Entities |-> IF owner[e] = a THEN Applied(p, policies)[e]
                                         ELSE policies[e]]
      /\ serial' = Applied(p, serial)
      /\ changed' = changed \cup {a}
      /\ Release(a)

CommitPolicies(a) ==
  /\ Commit(a)
  /\ Pass(a, "list")
  /\ UNCHANGED <<terms, nextId, audit, faults, doubtful, late, untraced, intended, overlapped>>

CommitDoubtful(a) ==
  /\ Commit(a)
  /\ Fault
  /\ doubtful' = doubtful \cup {a}
  /\ Finish(a, "failed")
  /\ UNCHANGED <<terms, nextId, audit, late, untraced, intended, overlapped>>

\* The answer lists the policies.
ListPolicies(a) ==
  /\ pc[a] = "list"
  /\ Finish(a, "success")
  /\ UNCHANGED <<tables, owner, audit, faults, history>>

\* The policies are saved, and the handler answers and records a failure.
ListFails(a) ==
  /\ pc[a] = "list"
  /\ Fault
  /\ doubtful' = doubtful \cup {a}
  /\ Finish(a, "failed")
  /\ UNCHANGED <<tables, owner, audit, changed, late, untraced, intended, overlapped, serial>>

\* Mutant of AbortPolicies: the deferred rollback tests an error that stays nil, as that of
\* syncProviderModels does.
AbortWithoutRollback(a) == Finish(a, "failed") /\ UNCHANGED <<tables, owner, audit, history>>

\* A failed statement or commit rolls the transaction back.
AbortPolicies(a) == Finish(a, "failed") /\ Release(a) /\ UNCHANGED <<tables, audit, history>>

UpsertFails(a) ==
  /\ pc[a] \in {"upsert", "commit"}
  /\ Fault
  /\ AbortPolicies(a)

Blocker(a) == owner[Wanted(a)]

\* The database breaks a cycle of waiting transactions by failing one of them.
DeadlockFound(a) ==
  /\ \E S \in SUBSET Admins :
       /\ a \in S
       /\ \A b \in S : Waits(b)
       /\ S = {Blocker(b) : b \in S}
  /\ AbortPolicies(a)
  /\ UNCHANGED faults

-----------------------------------------------------------------------------
(* The audit event, the crash, and the next step. *)

WriteAudit(a) ==
  /\ pc[a] = "audit"
  /\ audit' = [audit EXCEPT ![a] = status[a]]
  /\ Goto(a, "done")
  /\ UNCHANGED <<tables, owner, req, status, faults, history>>

\* writeAuditEvent drops the error.
AuditFails(a) ==
  /\ pc[a] = "audit"
  /\ Fault
  /\ \E s \in {"none", status[a]} : audit' = [audit EXCEPT ![a] = s]
  /\ untraced' = untraced \cup {a}
  /\ Goto(a, "done")
  /\ UNCHANGED <<tables, owner, req, status, changed, doubtful, late, intended,
                 overlapped, serial>>

\* The process stops: what was not committed is rolled back.
Crash ==
  /\ \E a \in Admins : pc[a] \in Running
  /\ Fault
  /\ pc' = [a \in Admins |-> IF pc[a] \in Running THEN "died" ELSE pc[a]]
  /\ owner' = [e \in Entities |-> NoAdmin]
  /\ req' = [a \in Admins |-> Nothing]
  /\ UNCHANGED <<tables, status, audit, history>>

Ask(a) ==
  \/ \E x \in Texts, e \in BOOLEAN : Post(a, x, e)
  \/ \E i \in Ids, x \in Texts, n \in BOOLEAN, e \in BOOLEAN : (n \/ ~e) /\ Patch(a, i, x, n, e)
  \/ \E i \in Ids : Delete(a, i)
  \/ \E p \in Payloads : PatchPolicies(a, p)

Step(a) ==
  \/ Load(a)
  \/ Reload(a)
  \/ EnsureUnique(a)
  \/ WriteTerm(a)
  \/ FindTerm(a)
  \/ DeleteTerm(a)
  \/ Upsert(a)
  \/ CommitPolicies(a)
  \/ ListPolicies(a)
  \/ DeadlockFound(a)
  \/ WriteAudit(a)

Fails(a) ==
  \/ WriteTermDoubtful(a)
  \/ DeleteTermDoubtful(a)
  \/ TermFails(a)
  \/ CommitDoubtful(a)
  \/ ListFails(a)
  \/ UpsertFails(a)
  \/ AuditFails(a)

\* Every request has been handled.
Finished == (\A a \in Admins : pc[a] \in Ended) /\ UNCHANGED vars

Next == (\E a \in Admins : Ask(a) \/ Step(a) \/ Fails(a)) \/ Crash \/ Finished

Spec == Init /\ [][Next]_vars

\* The server runs the goroutine of every request, and the database serves the next
\* transaction that waits and looks for deadlocks.
Fairness == \A a \in Admins : WF_vars(Step(a))

FairSpec == Spec /\ Fairness

-----------------------------------------------------------------------------

TypeOK ==
  /\ terms \in [Ids -> Term \cup {NoTerm}]
  /\ nextId \in Nat \ {0}
  /\ \A i \in Ids : Exists(i) => i < nextId
  /\ policies \in [Entities -> PolicyActions]
  /\ owner \in [Entities -> Admins \cup {NoAdmin}]
  /\ pc \in [Admins -> {"idle"} \cup Running \cup Ended]
  /\ \A a \in Admins : pc[a] = "upsert" => req[a].sent < Len(req[a].payload)
  /\ \A a \in Admins : pc[a] = "write" => req[a].word \in Words
  /\ status \in [Admins -> {"none", "failed", "success"}]
  /\ audit \in [Admins -> {"none", "failed", "success"}]

\* No two rows block the same term, although handlers check for duplicates and insert later.
NoTwinTerms ==
  \A i, j \in Ids : Exists(i) /\ Exists(j) /\ terms[i].word = terms[j].word => i = j

\* A term is on or off as an administrator last said, although edits of its text write the
\* switch back: it is lost only to an edit that had read the row before.
SwitchHolds ==
  \A i \in Ids \ overlapped : Exists(i) => terms[i].enabled = intended[i]

\* The policies a chat request reads are the result of whole PATCHes, one after the other.
PoliciesNeverMixed == policies = serial

\* A change that took effect left a "success" event, and such an event tells of one, unless
\* the event could not be written, the answer of the change was lost, or the row was deleted
\* just before.
ChangesTraced ==
  \A a \in Admins : pc[a] = "done" =>
    /\ a \in changed => audit[a] = "success" \/ a \in untraced \cup doubtful
    /\ audit[a] = "success" => a \in changed \cup late

\* A late PATCH does not bring back a term that was deleted.
DeletedStaysDeleted ==
  [][\A i \in Ids : i < nextId /\ terms[i] = NoTerm => terms'[i] = NoTerm]_vars

\* Every request is answered or dies with the process, although transactions wait for each
\* other's rows.
HandlersEnd == \A a \in Admins : pc[a] \in Running ~> pc[a] \in Ended
=============================================================================

----------------------------- MODULE TenantKeys -----------------------------
(***************************************************************************)
(* Tenant keys: how a raw key becomes a user.  Keys live in the table      *)
(* tenant_api_keys, where administrators create, revoke and delete them;   *)
(* keys of the environment (TENANT_API_KEYS) are imported at every start   *)
(* and, as a fallback, also honoured without a row.  The process may die   *)
(* at any statement and be started again with another environment.         *)
(***************************************************************************)
EXTENDS Integers, FiniteSets

CONSTANTS
  Keys,        \* raw keys
  Managed,     \* those newTenantKeyMaterial generates for administrators
  Shaped,      \* those of the environment that look like generated ones (agtk_ID_SECRET)
  OwnerOf,     \* the user the server assigns to a generated key
  Users,
  NoUser,
  NoRow,
  Envs,        \* the values of TENANT_API_KEYS: the user of each key, or NoUser
  Limits,      \* monthly limits; NoLimit is one
  Requests,
  NoKey,
  Admins,      \* concurrent administrator requests
  MaxChanges,  \* bound on administrator requests
  MaxFaults    \* bound on failed SQL statements and crashes

NoLimit == 0

ASSUME KeysAssumption == /\ Managed \subseteq Keys
                         /\ Shaped \subseteq Keys \ Managed
                         /\ OwnerOf \in [Managed -> Users]
                         /\ NoKey \notin Keys
ASSUME UsersAssumption == NoUser \notin Users
ASSUME EnvsAssumption ==
  Envs \subseteq {e \in [Keys -> Users \cup {NoUser}] : \A k \in Managed : e[k] = NoUser}
ASSUME LimitsAssumption == Limits \subseteq Nat /\ NoLimit \in Limits
ASSUME BoundsAssumption == MaxChanges \in Nat /\ MaxFaults \in Nat

Statuses == {"active", "revoked", "deleted"}

\* A row of tenant_api_keys; usd is the column monthly_cost_limit_usd of older versions,
\* which nothing writes any more.
Row == [user : Users, status : Statuses, eur : Limits, usd : Limits]

ASSUME NoRowAssumption == NoRow \notin Row

VARIABLES
  phase,     \* of the process: down, boot (no request is served yet), up
  env,       \* cfg.TenantByAPIKey
  fallback,  \* cfg.LegacyFallback
  toImport,  \* keys bootstrapManagedConfig has still to import
  row,       \* the row of each key, found by its lookup key
  pc,        \* of each request
  key,       \* the key it presents
  user,      \* the user it is authenticated as
  job,       \* the audit event an administrator request will write next
  audits,    \* <<action, key>> rows of audit_events
  used,      \* keys with a last_used_at
  changes,
  faults,
  \* History variables: no action reads them.
  barred,    \* requests whose key was revoked or deleted when they arrived
  missed,    \* keys whose import failed
  lastSet,   \* the limit set by the last PATCH that took effect
  cut        \* <<action, key>> of changes that will have no audit event: it failed, the
             \* process died before it, or the change itself reported an error

process == <<phase, env, fallback, toImport>>
requests == <<pc, key, user>>
admin == <<job, changes>>
history == <<barred, missed, lastSet, cut>>
vars == <<process, row, requests, admin, audits, used, faults, history>>

NoJob == <<>>
Actions == {"create", "revoke", "delete"}

Init ==
  /\ phase = "down"
  /\ env = [k \in Keys |-> NoUser]
  /\ fallback = FALSE
  /\ toImport = {}
  /\ row \in [Keys -> {NoRow} \cup {x \in Row : x.status = "active" /\ x.eur = NoLimit}]
  /\ \A k \in Managed : row[k] = NoRow
  /\ pc = [r \in Requests |-> "idle"]
  /\ key = [r \in Requests |-> NoKey]
  /\ user = [r \in Requests |-> NoUser]
  /\ job = [a \in Admins |-> NoJob]
  /\ audits = {}
  /\ used = {}
  /\ changes = 0
  /\ faults = 0
  /\ barred = {}
  /\ missed = {}
  /\ lastSet = [k \in Keys |-> NoLimit]
  /\ cut = {}

Goto(r, step) == pc' = [pc EXCEPT ![r] = step]

Fault == faults < MaxFaults /\ faults' = faults + 1

HasRow(k) == row[k] # NoRow

-----------------------------------------------------------------------------
(* The process. *)

\* Mutant of Migrated: every limit in USD is copied, not only where EUR has none.
MigratedAnew(x) == IF x.usd # NoLimit THEN [x EXCEPT !.eur = x.usd] ELSE x

\* migrateAddMonthlyCostLimit, on every start.
Migrated(x) == IF x.eur = NoLimit /\ x.usd # NoLimit THEN [x EXCEPT !.eur = x.usd] ELSE x

\* A start reads its environment and migrates the tables.
Start(e, f) ==
  /\ phase = "down"
  /\ phase' = "boot"
  /\ env' = e
  /\ fallback' = f
  /\ toImport' = {k \in Keys : e[k] # NoUser}
  /\ row' = [k \in Keys |-> IF HasRow(k) THEN Migrated(row[k]) ELSE NoRow]
  /\ UNCHANGED <<requests, admin, audits, used, faults, history>>

Imported(k) == [user |-> env[k], status |-> "active", eur |-> NoLimit, usd |-> NoLimit]

\* Mutant of Import: a key that is revoked or deleted is imported anew.
ImportRevived(k) ==
  /\ phase = "boot"
  /\ k \in toImport
  /\ toImport' = toImport \ {k}
  /\ row' = IF HasRow(k) /\ row[k].status = "active"
            THEN row ELSE [row EXCEPT ![k] = Imported(k)]
  /\ UNCHANGED <<phase, env, fallback, requests, admin, audits, used, faults, history>>

\* Mutant of Import: the environment overrides the user of the row.
ImportOverrides(k) ==
  /\ phase = "boot"
  /\ k \in toImport
  /\ toImport' = toImport \ {k}
  /\ row' = [row EXCEPT ![k] = IF HasRow(k) THEN [@ EXCEPT !.user = env[k]] ELSE Imported(k)]
  /\ UNCHANGED <<phase, env, fallback, requests, admin, audits, used, faults, history>>

\* importLegacyTenantKey: a key with a row, whatever its status, is left alone.
Import(k) ==
  /\ phase = "boot"
  /\ k \in toImport
  /\ toImport' = toImport \ {k}
  /\ row' = IF HasRow(k) THEN row ELSE [row EXCEPT ![k] = Imported(k)]
  /\ UNCHANGED <<phase, env, fallback, requests, admin, audits, used, faults, history>>

\* The error, of an INSERT that may have taken effect, is logged and the next key imported.
ImportFails(k) ==
  /\ phase = "boot"
  /\ k \in toImport
  /\ Fault
  /\ toImport' = toImport \ {k}
  /\ missed' = missed \cup {k}
  /\ UNCHANGED row \/ (~HasRow(k) /\ row' = [row EXCEPT ![k] = Imported(k)])
  /\ UNCHANGED <<phase, env, fallback, requests, admin, audits, used, barred, lastSet, cut>>

Serve ==
  /\ phase = "boot"
  /\ toImport = {}
  /\ phase' = "up"
  /\ UNCHANGED <<env, fallback, toImport, row, requests, admin, audits, used, faults, history>>

\* The process dies, and with it every request and every audit event not yet written.
Crash ==
  /\ phase # "down"
  /\ Fault
  /\ phase' = "down"
  /\ toImport' = {}
  /\ pc' = [r \in Requests |-> IF pc[r] \in {"lookup", "touch"} THEN "died" ELSE pc[r]]
  /\ cut' = cut \cup {job[a] : a \in {b \in Admins : job[b] # NoJob}}
  /\ job' = [a \in Admins |-> NoJob]
  /\ UNCHANGED <<env, fallback, row, key, user, changes, audits, used, barred, missed, lastSet>>

-----------------------------------------------------------------------------
(* Authentication: lookupManagedTenantKey. *)

Arrive(r, k) ==
  /\ phase = "up"
  /\ pc[r] = "idle"
  /\ Goto(r, "lookup")
  /\ key' = [key EXCEPT ![r] = k]
  /\ barred' = IF HasRow(k) /\ row[k].status # "active" THEN barred \cup {r} ELSE barred
  /\ UNCHANGED <<process, row, user, admin, audits, used, faults, missed, lastSet, cut>>

Admit(r, u, step) ==
  /\ user' = [user EXCEPT ![r] = u]
  /\ Goto(r, step)

Deny(r) == Goto(r, "denied") /\ UNCHANGED user

\* A raw key of the form agtk_ID_SECRET is looked up by its ID; the import files every
\* key of the environment under its hash, where such a key is never looked for.
Findable(k) == HasRow(k) /\ k \notin Shaped

\* Mutant of Lookup: the fallback is tried for a key without an active row.
LookupActive(r) ==
  LET k == key[r]
  IN /\ pc[r] = "lookup"
     /\ \/ Findable(k) /\ row[k].status = "active" /\ Admit(r, row[k].user, "touch")
        \/ /\ ~(Findable(k) /\ row[k].status = "active")
           /\ IF fallback /\ env[k] # NoUser THEN Admit(r, env[k], "admitted") ELSE Deny(r)
     /\ UNCHANGED <<process, row, key, admin, audits, used, faults, history>>

\* Mutant of Lookup: the environment is asked before the table.
LookupEnvFirst(r) ==
  LET k == key[r]
  IN /\ pc[r] = "lookup"
     /\ IF fallback /\ env[k] # NoUser
        THEN Admit(r, env[k], "admitted")
        ELSE IF Findable(k) /\ row[k].status = "active"
             THEN Admit(r, row[k].user, "touch") ELSE Deny(r)
     /\ UNCHANGED <<process, row, key, admin, audits, used, faults, history>>

\* Mutant of Lookup: the fallback does not check that the environment names the key.
LookupUnnamed(r) ==
  LET k == key[r]
  IN /\ pc[r] = "lookup"
     /\ \/ Findable(k) /\ row[k].status = "active" /\ Admit(r, row[k].user, "touch")
        \/ Findable(k) /\ row[k].status # "active" /\ Deny(r)
        \/ ~Findable(k) /\ fallback /\ Admit(r, env[k], "admitted")
        \/ ~Findable(k) /\ ~fallback /\ Deny(r)
     /\ UNCHANGED <<process, row, key, admin, audits, used, faults, history>>

\* A row decides, whatever its status; without one the environment may.
Lookup(r) ==
  LET k == key[r]
  IN /\ pc[r] = "lookup"
     /\ \/ Findable(k) /\ row[k].status = "active" /\ Admit(r, row[k].user, "touch")
        \/ Findable(k) /\ row[k].status # "active" /\ Deny(r)
        \/ ~Findable(k) /\ fallback /\ env[k] # NoUser /\ Admit(r, env[k], "admitted")
        \/ ~Findable(k) /\ (~fallback \/ env[k] = NoUser) /\ Deny(r)
     /\ UNCHANGED <<process, row, key, admin, audits, used, faults, history>>

\* 503.
LookupFails(r) ==
  /\ pc[r] = "lookup"
  /\ Fault
  /\ Deny(r)
  /\ UNCHANGED <<process, row, key, admin, audits, used, history>>

\* The key may have been revoked in the meantime; an error is ignored.
Touch(r) ==
  /\ pc[r] = "touch"
  /\ Goto(r, "admitted")
  /\ \/ used' = used \cup {key[r]} /\ UNCHANGED faults
     \/ Fault /\ UNCHANGED used
  /\ UNCHANGED <<process, row, key, user, admin, audits, history>>

-----------------------------------------------------------------------------
(* Administrators: one UPDATE or INSERT, then an audit event if it reports success. *)

Begin(a) ==
  /\ phase = "up"
  /\ job[a] = NoJob
  /\ changes < MaxChanges
  /\ changes' = changes + 1

\* The change took effect.  If its statement reports an error all the same, as when the
\* connection breaks, the handler answers 500 and writes no event.
Report(a, event) ==
  \/ job' = [job EXCEPT ![a] = event] /\ UNCHANGED <<faults, cut>>
  \/ Fault /\ cut' = cut \cup {event} /\ UNCHANGED job

\* The statement failed and changed nothing: 500.
ChangeFails(a) ==
  /\ Begin(a)
  /\ Fault
  /\ UNCHANGED <<process, row, requests, job, audits, used, history>>

CreateKey(a, k) ==
  /\ Begin(a)
  /\ k \in Managed /\ ~HasRow(k)
  /\ row' = [row EXCEPT ![k] = [user |-> OwnerOf[k], status |-> "active",
                                eur |-> NoLimit, usd |-> NoLimit]]
  /\ Report(a, <<"create", k>>)
  /\ UNCHANGED <<process, requests, audits, used, barred, missed, lastSet>>

\* UPDATE ... WHERE id = k AND status = 'active'; success is reported and audited for a
\* row that is not active, too.
Revoke(a, k) ==
  /\ Begin(a)
  /\ HasRow(k)
  /\ row' = IF row[k].status = "active" THEN [row EXCEPT ![k].status = "revoked"] ELSE row
  /\ Report(a, <<"revoke", k>>)
  /\ UNCHANGED <<process, requests, audits, used, barred, missed, lastSet>>

\* Mutant of Delete: the handler answers without an audit event.
DeleteQuietly(a, k) ==
  /\ Begin(a)
  /\ HasRow(k)
  /\ row' = [row EXCEPT ![k].status = "deleted"]
  /\ UNCHANGED <<process, requests, job, audits, used, faults, history>>

Delete(a, k) ==
  /\ Begin(a)
  /\ HasRow(k)
  /\ row' = [row EXCEPT ![k].status = "deleted"]
  /\ Report(a, <<"delete", k>>)
  /\ UNCHANGED <<process, requests, audits, used, barred, missed, lastSet>>

\* PATCH: not audited.
SetLimit(a, k, l) ==
  /\ Begin(a)
  /\ HasRow(k)
  /\ row' = [row EXCEPT ![k].eur = l]
  /\ lastSet' = [lastSet EXCEPT ![k] = l]
  /\ UNCHANGED faults \/ Fault
  /\ UNCHANGED <<process, requests, job, audits, used, barred, missed, cut>>

Audit(a) ==
  /\ job[a] # NoJob
  /\ job' = [job EXCEPT ![a] = NoJob]
  /\ \/ audits' = audits \cup {job[a]} /\ UNCHANGED <<faults, cut>>
     \/ Fault /\ cut' = cut \cup {job[a]} /\ UNCHANGED audits
  /\ UNCHANGED <<process, row, requests, changes, used, barred, missed, lastSet>>

Next ==
  \/ \E e \in Envs, f \in BOOLEAN : Start(e, f)
  \/ \E k \in Keys : Import(k) \/ ImportFails(k)
  \/ Serve
  \/ Crash
  \/ \E r \in Requests, k \in Keys : Arrive(r, k)
  \/ \E r \in Requests : Lookup(r) \/ LookupFails(r) \/ Touch(r)
  \/ \E a \in Admins, k \in Keys : CreateKey(a, k) \/ Revoke(a, k) \/ Delete(a, k)
  \/ \E a \in Admins, k \in Keys, l \in Limits : SetLimit(a, k, l)
  \/ \E a \in Admins : ChangeFails(a) \/ Audit(a)

Spec == Init /\ [][Next]_vars

-----------------------------------------------------------------------------
(* Properties. *)

\* Every variable keeps its type, and an admitted request has a user.
TypeOK ==
  /\ phase \in {"down", "boot", "up"}
  /\ env \in [Keys -> Users \cup {NoUser}]
  /\ fallback \in BOOLEAN
  /\ toImport \subseteq {k \in Keys : env[k] # NoUser}
  /\ row \in [Keys -> Row \cup {NoRow}]
  /\ pc \in [Requests -> {"idle", "lookup", "touch", "admitted", "denied", "died"}]
  /\ key \in [Requests -> Keys \cup {NoKey}]
  /\ user \in [Requests -> Users \cup {NoUser}]
  /\ \A r \in Requests : /\ pc[r] # "idle" => key[r] \in Keys
                         /\ pc[r] \in {"touch", "admitted"} => user[r] \in Users
  /\ job \in [Admins -> {NoJob} \cup (Actions \X Keys)]
  /\ audits \subseteq Actions \X Keys
  /\ used \subseteq Keys
  /\ changes \in Nat
  /\ faults \in Nat
  /\ barred \subseteq Requests
  /\ missed \subseteq Keys
  /\ lastSet \in [Keys -> Limits]
  /\ cut \subseteq Actions \X Keys

\* A key that was revoked or deleted before a request arrived does not authenticate it:
\* not by its row, not by the environment, however often the process is restarted with
\* the key still in its environment.  (A key of the environment that looks like a
\* generated one is not covered: its row is never found.)
RevokedStaysOut ==
  \A r \in barred : key[r] \notin Shaped => pc[r] \notin {"touch", "admitted"}

\* A key always stands for the same user, whatever later environments say of it, unless
\* an import of it failed, so that it was honoured without a row.
SameKeySameUser ==
  \A r, s \in Requests :
    (key[r] = key[s] /\ user[r] # NoUser /\ user[s] # NoUser) =>
      user[r] = user[s] \/ key[r] \in missed \cup Shaped

\* The limit of a key is the one of the last PATCH that took effect.  Only where that was to clear
\* it, a start brings back a limit in USD that an older version left in the row.
LimitIsLastSet ==
  \A k \in Keys :
    HasRow(k) => \/ row[k].eur = lastSet[k]
                 \/ lastSet[k] = NoLimit /\ row[k].eur = row[k].usd

\* No row is dropped, given to another user or made active again, by whatever sequence of
\* administrators, restarts and imports.
StatusRank(s) == CASE s = "active" -> 0 [] s = "revoked" -> 1 [] s = "deleted" -> 2

RowsOnlyFall ==
  [][\A k \in Keys :
       HasRow(k) => /\ row'[k] # NoRow
                    /\ row'[k].user = row[k].user
                    /\ StatusRank(row'[k].status) >= StatusRank(row[k].status)]_vars

\* Every change of a key's status leaves an audit event, except in three cases: writing the
\* event failed, the process died before it, or the statement of the change reported an
\* error although it took effect, so that the handler told the administrator it had failed.
ChangesAudited ==
  \A k \in Keys :
    LET Traced(action) == \/ <<action, k>> \in audits \cup cut
                          \/ \E a \in Admins : job[a] = <<action, k>>
    IN /\ (k \in Managed /\ HasRow(k)) => Traced("create")
       /\ (HasRow(k) /\ row[k].status = "revoked") => Traced("revoke")
       /\ (HasRow(k) /\ row[k].status = "deleted") => Traced("delete")
=============================================================================

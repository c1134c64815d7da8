------------------------------- MODULE Startup -------------------------------
(***************************************************************************)
(* The life of the container: scripts/api-guard-entrypoint.sh copies the   *)
(* tables of a mounted SQLite file with cmd/migrate-sqlite, then starts    *)
(* the proxy, which creates its tables, default policies and master key    *)
(* (NewServer).  The container is restarted after a crash or by an         *)
(* operator, so the copy is repeated; the tool may also be run by hand     *)
(* while the proxy serves.                                                 *)
(*                                                                         *)
(* A copy does not carry ids over: Postgres numbers the rows anew, and a   *)
(* number drawn by a transaction that is rolled back is gone.  A model     *)
(* names its provider by number.                                           *)
(*                                                                         *)
(* Reads of the SQLite file, and of Postgres tables that exist or not, are *)
(* merged into the step that uses them: nothing changes them meanwhile.    *)
(***************************************************************************)
EXTENDS Integers, Sequences, FiniteSets

CONSTANTS
  Source,      \* the rows of each table of the SQLite file
  Entities,    \* supportedPIIEntityTypes
  EnvKeys,     \* values of SECRET_MASTER_KEY; NoKey is none
  OwnKeys,     \* names of keys and providers created in Postgres
  MaxStarts,   \* bound on starts of the container and of the tool
  MaxWrites,   \* bound on rows the proxy writes
  MaxFaults    \* bound on failed statements and crashes

Usage == "usage_records"
Keys == "tenant_api_keys"
Providers == "provider_credentials"
Models == "provider_models"
Policies == "pii_guardrail_policies"

\* The tables in the order of the copy.  audit_events, pii_findings, guardrail_outcomes
\* have no constraint, as usage_records; nsfw_blocked_terms has one, as tenant_api_keys.
Order == <<Usage, Keys, Providers, Models, Policies>>
Tables == {Order[i] : i \in DOMAIN Order}

\* A row: what must be unique in its table, the provider of a model, and its content:
\* the action of a policy, the key a provider's secret is sealed with.
Content == [key : STRING, ref : Nat, data : STRING \X Nat]

Plain == <<"plain", 0>>
Observe == <<"observe", 0>>
Block == <<"block", 0>>
NoKey == <<"none", 0>>
Generated(n) == <<"generated", n>>

\* No two rows of a table of the file are the same, models refer to its providers, and
\* policies refer to nothing.
ASSUME SourceAssumption ==
  /\ Source \in [Tables -> Seq(Content)]
  /\ \A t \in Tables : \A i, j \in DOMAIN Source[t] :
       Source[t][i].key = Source[t][j].key /\ Source[t][i].ref = Source[t][j].ref => i = j
  /\ \A i \in DOMAIN Source[Models] : Source[Models][i].ref \in DOMAIN Source[Providers]
  /\ \A i \in DOMAIN Source[Policies] : Source[Policies][i].ref = 0
ASSUME KeysAssumption == EnvKeys \subseteq ({"env", "none"} \X Nat)
ASSUME NamesAssumption ==
  /\ Entities \subseteq STRING
  /\ OwnKeys \subseteq STRING
ASSUME BoundsAssumption == MaxStarts \in Nat /\ MaxWrites \in Nat /\ MaxFaults \in Nat

VARIABLES
  proxy,      \* down, the steps of NewServer, up
  env,        \* SECRET_MASTER_KEY of this start
  masterKey,  \* cfg.SecretMasterKey of the running proxy
  stored,     \* the master key in server_config
  created,    \* the tables that exist in Postgres
  rows,       \* and their rows
  nextId,     \* the sequence of each table
  tool,       \* off, check, copy: migrate-sqlite between two tables or within one
  byHand,     \* it was not started by the entrypoint
  at,         \* the table it is at
  batch,      \* the rows its open transaction has inserted
  starts,
  writes,
  faults,
  \* History variables: no action reads them.
  miscounted, \* tables the tool took for empty because counting them failed
  cut,        \* tables it committed after reading them had broken off
  stray,      \* tables whose numbers went elsewhere: to the proxy or a lost transaction
  absent,     \* tables the tool did not find in Postgres in this run, or the last
  failed,     \* tables at which a statement of that run failed
  leftover,   \* tables of the file that run left empty, once it has ended
  chosen,     \* the action an administrator of the proxy chose last for an entity
  sealedIn    \* <<provider, env>>: the setting a secret was sealed under

postgres == <<stored, created, rows, nextId>>
migration == <<tool, byHand, at, batch>>
bounds == <<starts, writes, faults>>
history == <<miscounted, cut, stray, absent, failed, leftover, chosen, sealedIn>>
vars == <<proxy, env, masterKey, postgres, migration, bounds, history>>

Booting == {"usage tables", "tables", "policies", "master key"}

Init ==
  /\ proxy = "down"
  /\ env = NoKey
  /\ masterKey = NoKey
  /\ stored = NoKey
  /\ created = {}
  /\ rows = [t \in Tables |-> {}]
  /\ nextId = [t \in Tables |-> 1]
  /\ tool = "off"
  /\ byHand = FALSE
  /\ at = 1
  /\ batch = {}
  /\ starts = 0
  /\ writes = 0
  /\ faults = 0
  /\ miscounted = {}
  /\ cut = {}
  /\ stray = {}
  /\ absent = {}
  /\ failed = {}
  /\ leftover = {}
  /\ chosen = [e \in Entities |-> NoKey]
  /\ sealedIn = {}

Fault == faults < MaxFaults /\ faults' = faults + 1

-----------------------------------------------------------------------------
(* The rows of Postgres. *)

Constrained == {Keys, Models, Policies}

\* UNIQUE(lookup_key), UNIQUE(provider_credential_id, provider_model_id), PRIMARY KEY
\* (entity_type), and the foreign key of models.
Accepts(t, content, present) ==
  /\ t \in Constrained => \A x \in present : x.key # content.key \/ x.ref # content.ref
  /\ t = Models => \E x \in rows[Providers] : x.id = content.ref

Numbered(t, content, origin) ==
  [id |-> nextId[t], key |-> content.key, ref |-> content.ref, data |-> content.data,
   origin |-> origin]

Draw(t) == nextId' = [nextId EXCEPT ![t] = @ + 1]

-----------------------------------------------------------------------------
(* The container, and the tool by hand. *)

Mount == starts < MaxStarts /\ starts' = starts + 1

RunTool ==
  /\ tool' = "check"
  /\ at' = 1
  /\ absent' = {}
  /\ failed' = {}
  /\ leftover' = {}

\* The entrypoint, with or without a SQLite file.
StartContainer(e) ==
  /\ proxy = "down" /\ tool = "off"
  /\ Mount
  /\ env' = e
  /\ byHand' = FALSE
  /\ \/ RunTool /\ UNCHANGED proxy
     \/ proxy' = "usage tables" /\ UNCHANGED <<tool, at, absent, failed, leftover>>
  /\ UNCHANGED <<masterKey, postgres, batch, writes, faults, miscounted, cut, stray, chosen,
                 sealedIn>>

RunByHand ==
  /\ proxy = "up" /\ tool = "off"
  /\ Mount
  /\ byHand' = TRUE
  /\ RunTool
  /\ UNCHANGED <<proxy, env, masterKey, postgres, batch, writes, faults, miscounted, cut,
                 stray, chosen, sealedIn>>

\* The tool dies, or gives up because it cannot reach a database; the entrypoint ends with
\* it (set -e).  Postgres drops the transaction.
ToolDies ==
  /\ tool # "off"
  /\ Fault
  /\ tool' = "off"
  /\ batch' = {}
  /\ stray' = IF batch # {} THEN stray \cup {Order[at]} ELSE stray
  /\ UNCHANGED <<proxy, env, masterKey, postgres, byHand, at, starts, writes, miscounted, cut,
                 absent, failed, leftover, chosen, sealedIn>>

\* The proxy dies, or panics because a statement of NewServer failed.
ProxyDies ==
  /\ proxy # "down"
  /\ Fault
  /\ proxy' = "down"
  /\ masterKey' = NoKey
  /\ UNCHANGED <<env, postgres, migration, starts, writes, history>>

-----------------------------------------------------------------------------
(* migrate-sqlite. *)

AtTable(step) == tool = step /\ at \in DOMAIN Order

NextTable ==
  /\ tool' = "check"
  /\ at' = at + 1
  /\ batch' = {}

\* Mutant of Failed: the first error ends the run.
FailedForAll(t) ==
  /\ failed' = failed \cup {t}
  /\ tool' = "check"
  /\ at' = Len(Order) + 1
  /\ batch' = {}

\* An error is logged and the loop goes on.
Failed(t) == failed' = failed \cup {t} /\ NextTable

\* Mutant of Skips: the rows of Postgres are not counted.
SkipsEmptyOnly(t) == t \notin created \/ Source[t] = <<>>

\* No such table, rows in Postgres already, or nothing in SQLite.
Skips(t) == t \notin created \/ rows[t] # {} \/ Source[t] = <<>>

SkipTable ==
  /\ AtTable("check")
  /\ Skips(Order[at])
  /\ NextTable
  /\ absent' = absent \cup ({Order[at]} \ created)
  /\ UNCHANGED <<proxy, env, masterKey, postgres, byHand, bounds, miscounted, cut, stray,
                 failed, leftover, chosen, sealedIn>>

BeginCopy ==
  /\ AtTable("check")
  /\ ~Skips(Order[at])
  /\ tool' = "copy"
  /\ UNCHANGED <<proxy, env, masterKey, postgres, byHand, at, batch, bounds, history>>

\* A failed query counts 0 rows: in Postgres the table is taken for empty and copied, in
\* SQLite it is skipped, as it is when the existence of a table cannot be read.
CountFails ==
  /\ AtTable("check")
  /\ Order[at] \in created /\ Source[Order[at]] # <<>>
  /\ Fault
  /\ \/ /\ tool' = "copy"
        /\ miscounted' = miscounted \cup {Order[at]}
        /\ UNCHANGED <<at, batch, failed>>
     \/ Failed(Order[at]) /\ UNCHANGED miscounted
  /\ UNCHANGED <<proxy, env, masterKey, postgres, byHand, starts, writes, cut, stray, absent,
                 leftover, chosen, sealedIn>>

\* Mutant of NextRow: the newest row first.
NextRowBackwards == Source[Order[at]][Len(Source[Order[at]]) - Cardinality(batch)]

NextRow == Source[Order[at]][Cardinality(batch) + 1]

Unread == Cardinality(batch) < Len(Source[Order[at]])

\* Mutant of CopyRow: each row is inserted by a statement of its own.
CopyRowAtOnce ==
  LET t == Order[at]
  IN /\ AtTable("copy")
     /\ Unread
     /\ Accepts(t, NextRow, rows[t] \cup batch)
     /\ batch' = batch \cup {Numbered(t, NextRow, "sqlite")}
     /\ rows' = [rows EXCEPT ![t] = @ \cup {Numbered(t, NextRow, "sqlite")}]
     /\ Draw(t)
     /\ UNCHANGED <<proxy, env, masterKey, stored, created, tool, byHand, at, bounds, history>>

CopyRow ==
  LET t == Order[at]
  IN /\ AtTable("copy")
     /\ Unread
     /\ Accepts(t, NextRow, rows[t] \cup batch)
     /\ batch' = batch \cup {Numbered(t, NextRow, "sqlite")}
     /\ Draw(t)
     /\ UNCHANGED <<proxy, env, masterKey, stored, created, rows, tool, byHand, at, bounds,
                    history>>

\* A constraint refuses the row: the transaction is rolled back, its numbers are gone, and
\* the loop goes on as after a failed statement.
RowRefused ==
  LET t == Order[at]
  IN /\ AtTable("copy")
     /\ Unread
     /\ ~Accepts(t, NextRow, rows[t] \cup batch)
     /\ NextTable
     /\ Draw(t)
     /\ stray' = stray \cup {t}
     /\ UNCHANGED <<proxy, env, masterKey, stored, created, rows, byHand, bounds, miscounted,
                    cut, absent, failed, leftover, chosen, sealedIn>>

\* A statement of the transaction, or reading a row, fails: rolled back.
CopyFails ==
  /\ AtTable("copy")
  /\ Fault
  /\ Failed(Order[at])
  /\ stray' = IF batch # {} THEN stray \cup {Order[at]} ELSE stray
  /\ UNCHANGED <<proxy, env, masterKey, postgres, byHand, starts, writes, miscounted, cut,
                 absent, leftover, chosen, sealedIn>>

\* COMMIT makes the rows visible; its error may come before or after that.
Commit(t) == rows' = [rows EXCEPT ![t] = @ \cup batch]

FinishCopy ==
  LET t == Order[at]
  IN /\ AtTable("copy")
     /\ ~Unread
     /\ Commit(t)
     /\ NextTable
     /\ UNCHANGED <<proxy, env, masterKey, stored, created, nextId, byHand, bounds, history>>

CommitFails ==
  LET t == Order[at]
  IN /\ AtTable("copy")
     /\ ~Unread
     /\ Fault
     /\ \/ Commit(t) /\ UNCHANGED stray
        \/ stray' = stray \cup {t} /\ UNCHANGED rows
     /\ Failed(t)
     /\ UNCHANGED <<proxy, env, masterKey, stored, created, nextId, byHand, starts, writes,
                    miscounted, cut, absent, leftover, chosen, sealedIn>>

\* rows.Next returns FALSE at an error too, and rows.Err is not asked: the rows read so
\* far are committed, and the table counts as copied.
ReadBreaks ==
  LET t == Order[at]
  IN /\ AtTable("copy")
     /\ Unread
     /\ Fault
     /\ Commit(t)
     /\ Failed(t)
     /\ cut' = cut \cup {t}
     /\ UNCHANGED <<proxy, env, masterKey, stored, created, nextId, byHand, starts, writes,
                    miscounted, stray, absent, leftover, chosen, sealedIn>>

\* Tables of the file without a row in Postgres, or without a table there.
LeftEmpty == {t \in Tables : Source[t] # <<>> /\ rows[t] = {}}

\* Started by the entrypoint, the tool is followed by the proxy.
FinishTool ==
  /\ tool = "check" /\ at \notin DOMAIN Order
  /\ tool' = "off"
  /\ leftover' = LeftEmpty
  /\ IF byHand THEN UNCHANGED proxy ELSE proxy' = "usage tables"
  /\ UNCHANGED <<env, masterKey, postgres, byHand, at, batch, bounds, miscounted, cut, stray,
                 absent, failed, chosen, sealedIn>>

-----------------------------------------------------------------------------
(* NewServer. *)

Boots(step, next) == proxy = step /\ proxy' = next

\* Each schema is sent as one string, which Postgres executes as one transaction.
CreateUsageTables ==
  /\ Boots("usage tables", "tables")
  /\ created' = created \cup {Usage}
  /\ UNCHANGED <<env, masterKey, stored, rows, nextId, migration, bounds, history>>

CreateTables ==
  /\ Boots("tables", "policies")
  /\ created' = Tables
  /\ UNCHANGED <<env, masterKey, stored, rows, nextId, migration, bounds, history>>

\* Mutant of Missing: every start sets the defaults.
MissingAlways == Entities

\* Supported types without a row.
Missing == {e \in Entities : \A x \in rows[Policies] : x.key # e}

Policy(e, action, origin) ==
  [id |-> 0, key |-> e, ref |-> 0, data |-> action, origin |-> origin]

\* INSERT ... ON CONFLICT(entity_type) DO UPDATE.
Upsert(new) ==
  rows' = [rows EXCEPT ![Policies] =
             {x \in @ : \A y \in new : x.key # y.key} \cup new]

EnsureDefaultPolicies ==
  /\ Boots("policies", "master key")
  /\ Upsert({Policy(e, Observe, "proxy") : e \in Missing})
  /\ UNCHANGED <<env, masterKey, stored, created, nextId, migration, bounds, history>>

\* Mutant of MasterKey: a start without SECRET_MASTER_KEY generates a key.
MasterKeyAnew == IF env # NoKey THEN env ELSE Generated(starts)

\* getOrCreateMasterKey, when the environment has none.
MasterKey ==
  IF env # NoKey THEN env ELSE IF stored # NoKey THEN stored ELSE Generated(starts)

LoadMasterKey ==
  /\ Boots("master key", "up")
  /\ masterKey' = MasterKey
  /\ stored' = IF env = NoKey THEN MasterKey ELSE stored
  /\ UNCHANGED <<env, created, rows, nextId, migration, bounds, history>>

-----------------------------------------------------------------------------
(* What the proxy writes while it serves. *)

\* A row that conflicts with an uncommitted one of the tool waits for its transaction.
Write(t, content) ==
  /\ proxy = "up"
  /\ writes < MaxWrites /\ writes' = writes + 1
  /\ Accepts(t, content, rows[t] \cup (IF tool = "copy" /\ Order[at] = t THEN batch ELSE {}))
  /\ rows' = [rows EXCEPT ![t] = @ \cup {Numbered(t, content, "proxy")}]
  /\ Draw(t)
  /\ stray' = stray \cup {t}
  /\ UNCHANGED <<proxy, env, masterKey, stored, created, migration, starts, faults, miscounted,
                 cut, absent, failed, leftover, chosen>>

\* A request is recorded, a key created.
AddRow(t, name) ==
  /\ Write(t, [key |-> name, ref |-> 0, data |-> Plain])
  /\ UNCHANGED sealedIn

\* A provider is saved, its secret sealed with the master key.
AddProvider(name) ==
  /\ Write(Providers, [key |-> name, ref |-> 0, data |-> masterKey])
  /\ sealedIn' = sealedIn \cup {<<nextId[Providers], env>>}

\* A sync adds a model to a provider.
AddModel(name, provider) ==
  /\ Write(Models, [key |-> name, ref |-> provider.id, data |-> Plain])
  /\ UNCHANGED sealedIn

\* PATCH /pii-policy.
ChoosePolicy(e, action) ==
  /\ proxy = "up"
  /\ writes < MaxWrites /\ writes' = writes + 1
  /\ Upsert({Policy(e, action, "proxy")})
  /\ chosen' = [chosen EXCEPT ![e] = action]
  /\ UNCHANGED <<proxy, env, masterKey, stored, created, nextId, migration, starts, faults,
                 miscounted, cut, stray, absent, failed, leftover, sealedIn>>

Serve ==
  \/ \E name \in OwnKeys : \E t \in {Usage, Keys} : AddRow(t, name)
  \/ \E name \in OwnKeys : AddProvider(name)
  \/ \E name \in OwnKeys : \E provider \in rows[Providers] : AddModel(name, provider)
  \/ \E e \in Entities : \E action \in {Observe, Block} : ChoosePolicy(e, action)

Boot == CreateUsageTables \/ CreateTables \/ EnsureDefaultPolicies \/ LoadMasterKey

Copy ==
  \/ SkipTable \/ BeginCopy \/ CopyRow \/ RowRefused \/ FinishCopy \/ FinishTool
  \/ CountFails \/ CopyFails \/ CommitFails \/ ReadBreaks

Next ==
  \/ \E e \in EnvKeys : StartContainer(e)
  \/ RunByHand
  \/ Copy
  \/ Boot
  \/ Serve
  \/ ToolDies
  \/ ProxyDies

Spec == Init /\ [][Next]_vars

-----------------------------------------------------------------------------
(* Properties. *)

Copied(t) == {x \in rows[t] : x.origin = "sqlite"}

\* However often the copy is cut off and repeated, no row of the SQLite file comes to
\* Postgres twice, unless the rows of its table could not be counted.
CopiedOnce ==
  \A t \in Tables \ miscounted : \A x, y \in Copied(t) :
    x.key = y.key /\ x.ref = y.ref => x = y

\* A table holds all rows of the file or none of them (a policy may have been chosen anew
\* since), unless reading them broke off: then it holds a beginning, and a repeated copy
\* takes it for complete.
WholeOrNothing ==
  \A t \in Tables \ cut : Copied(t) # {} =>
    \A i \in DOMAIN Source[t] : \E x \in rows[t] :
      x.key = Source[t][i].key /\ x.ref = Source[t][i].ref

\* A copied model belongs to the provider it had in the file.  Ids are not copied, so this
\* holds only as long as the numbers of providers went to one copy alone: not after a failed
\* attempt, nor when the proxy saved a provider before, nor after a second copy.
ModelsFollowProviders ==
  Providers \notin stray \cup miscounted =>
    \A model \in Copied(Models) : \E provider \in Copied(Providers) :
      provider.id = model.ref /\ provider.key = Source[Providers][model.ref].key

\* The tables of the file a run of the tool leaves empty in Postgres are those the proxy had
\* not created yet and those at which one of its statements failed.  Models are one more
\* where the providers are not those of the file under their numbers, because a statement
\* failed at them in this run, a copy of them was lost or cut off before, or the proxy saved
\* one: then the foreign key of models refuses them.
LossesExplained ==
  leftover \subseteq absent \cup failed
                    \cup (IF Providers \in stray \cup cut \cup failed THEN {Models} ELSE {})

\* While the proxy serves, every type of PII has a policy, and the one an administrator
\* chose stays over restarts and repeated copies: neither puts the default back.
PoliciesKept ==
  /\ proxy = "up" => \A e \in Entities : \E x \in rows[Policies] : x.key = e
  /\ \A e \in Entities : chosen[e] # NoKey =>
       {x.data : x \in {y \in rows[Policies] : y.key = e}} = {chosen[e]}

\* The secret of a provider can be read by every start with the setting of
\* SECRET_MASTER_KEY it was saved under, whatever starts there were in between.
SecretsReadable ==
  proxy = "up" => \A x \in rows[Providers] :
    <<x.id, env>> \in sealedIn => x.data = masterKey
=============================================================================

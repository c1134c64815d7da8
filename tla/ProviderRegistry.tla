--------------------------- MODULE ProviderRegistry ---------------------------
(***************************************************************************)
(* Providers and their models: the tables provider_credentials and         *)
(* provider_models, the administrators who change them and the requests    *)
(* that look for a provider of a model.                                    *)
(*                                                                         *)
(* Create, rotate and refresh read a row or the list of rows, ask the      *)
(* provider over the network which models it has, write the whole row back *)
(* and bring the models up to date; other administrators and requests run  *)
(* in between.  A request reads the active providers first and then the    *)
(* models of one after the other.  The process may die at any time; every  *)
(* start may import a provider of the environment.                         *)
(***************************************************************************)
EXTENDS Integers, FiniteSets

CONSTANTS
  Providers,  \* the ids provider_credentials can hand out
  NoProvider,
  Secrets,    \* API keys of providers, told apart by the mask the server keeps of them
  Models,
  NoRow,
  NoRoute,
  Requests,
  Admins,     \* concurrent administrator requests
  MaxEvents   \* bound on administrator requests, failed SQL statements and restarts

\* The columns of provider_credentials that decide anything.
Types == {"openai", "other"}
Row == [type : Types, status : {"active", "deleted"}, secret : Secrets]

\* A row of provider_models: no row, not offered by the provider at the last sync,
\* or synced and enabled or not.  No statement leaves a missing model enabled.
Listing == {"absent", "missing", "disabled", "enabled"}

ASSUME NamesAssumption ==
  NoRow \notin Row /\ NoProvider \notin Providers /\ NoRoute \notin Providers \X Secrets
ASSUME BoundsAssumption == MaxEvents \in Nat

VARIABLES
  row,       \* provider_credentials
  catalog,   \* provider_models
  step,      \* of each administrator request: what it does next
  kind,      \* which request it is
  target,    \* the provider it is about
  copy,      \* the row it will write
  offered,   \* the models the provider named, or those the administrator enables
  seen,      \* the catalogue a sync has read
  pc,        \* of each chat request: idle, looking, routed, refused, failed, died
  model,     \* the model it asks for
  todo,      \* <<provider, secret>> pairs it has still to look at
  route,     \* the pair it is sent to
  events,
  \* History variables: no action reads them.
  intended,  \* the rows, had every operation only changed what it is about
  overtaken, \* administrator requests whose reading of a row is out of date
  dirty,     \* providers whose row was written from such a reading
  chosen,    \* models an administrator enabled, by creating the provider or one by one
  outrun,    \* administrator requests whose reading of a catalogue is out of date
  undone,    \* providers whose catalogue was written from such a reading
  rotated,   \* providers whose secret was replaced
  unchecked, \* providers a restart imported although another one had the same secret
  steady     \* the providers that have served a request's model ever since it began

tables == <<row, catalog>>
locals == <<kind, target, copy, offered, seen>>
admin == <<step, locals>>
lookup == <<pc, model, todo, route>>
history == <<intended, overtaken, dirty, chosen, outrun, undone, rotated, unchecked>>
vars == <<tables, admin, lookup, events, history, steady>>

NoModels == [m \in Models |-> "absent"]
NoRows == [p \in Providers |-> NoRow]
NoCatalog == [p \in Providers |-> NoModels]

\* What the import of a provider of the environment leaves: its row, and the models it
\* named, all of them enabled.
ImportedRow(s) == [type |-> "openai", status |-> "active", secret |-> s]
ImportedModels(named) == [m \in Models |-> IF m \in named THEN "enabled" ELSE "absent"]

\* The first start has imported a provider before the first request is served, or it has
\* not: nothing is configured, the provider did not answer, or a statement failed.
Bootstrapped ==
  \/ row = NoRows /\ catalog = NoCatalog
  \/ \E p \in Providers, s \in Secrets, named \in SUBSET Models :
       /\ row = [NoRows EXCEPT ![p] = ImportedRow(s)]
       /\ catalog = [NoCatalog EXCEPT ![p] = ImportedModels(named)]

Init ==
  /\ Bootstrapped
  /\ step = [a \in Admins |-> "idle"]
  /\ kind = [a \in Admins |-> "none"]
  /\ target = [a \in Admins |-> NoProvider]
  /\ copy = [a \in Admins |-> NoRow]
  /\ offered = [a \in Admins |-> {}]
  /\ seen = [a \in Admins |-> NoModels]
  /\ pc = [r \in Requests |-> "idle"]
  /\ model \in [Requests -> Models]
  /\ todo = [r \in Requests |-> {}]
  /\ route = [r \in Requests |-> NoRoute]
  /\ events = 0
  /\ intended = row
  /\ overtaken = {}
  /\ dirty = {}
  /\ chosen = [p \in Providers |-> {m \in Models : catalog[p][m] = "enabled"}]
  /\ outrun = {}
  /\ undone = {}
  /\ rotated = {}
  /\ unchecked = {}
  /\ steady = [r \in Requests |-> {}]

Event == events < MaxEvents /\ events' = events + 1

Active(p) == row[p] # NoRow /\ row[p].status = "active"

\* What an administrator's reading is out of date about once a has written p's row:
\* the row itself, or the list a duplicate key was looked for in.
Overtake(a, p) ==
  overtaken' = (overtaken \ {a}) \cup
    {b \in Admins \ {a} : /\ step[b] \in {"list", "save", "mark"}
                          /\ kind[b] = "create" \/ target[b] = p}

-----------------------------------------------------------------------------
(* Administrators. *)

Begin(a, k, p, next) ==
  /\ step[a] = "idle"
  /\ Event
  /\ step' = [step EXCEPT ![a] = next]
  /\ kind' = [kind EXCEPT ![a] = k]
  /\ target' = [target EXCEPT ![a] = p]

Then(a, next) == step' = [step EXCEPT ![a] = next]

\* An administrator request is over, and its locals are gone.
End(a) ==
  /\ Then(a, "idle")
  /\ kind' = [kind EXCEPT ![a] = "none"]
  /\ target' = [target EXCEPT ![a] = NoProvider]
  /\ copy' = [copy EXCEPT ![a] = NoRow]
  /\ offered' = [offered EXCEPT ![a] = {}]
  /\ seen' = [seen EXCEPT ![a] = NoModels]

\* Mutant of BeginCreate: the key is not compared with those of other providers.
BeginCreateUnchecked(a, t, s) ==
  /\ Begin(a, "create", NoProvider, "list")
  /\ copy' = [copy EXCEPT ![a] = [type |-> t, status |-> "active", secret |-> s]]
  /\ UNCHANGED <<tables, offered, seen, lookup, history>>

\* createManagedProviderCredential refuses a key that a provider not deleted has.
BeginCreate(a, t, s) ==
  /\ \A p \in Providers : Active(p) => row[p].secret # s
  /\ Begin(a, "create", NoProvider, "list")
  /\ copy' = [copy EXCEPT ![a] = [type |-> t, status |-> "active", secret |-> s]]
  /\ UNCHANGED <<tables, offered, seen, lookup, history>>

\* rotateManagedProviderCredential looks for no duplicate.
BeginRotate(a, p, s) ==
  /\ Active(p)
  /\ Begin(a, "rotate", p, "list")
  /\ copy' = [copy EXCEPT ![a] = [row[p] EXCEPT !.secret = s]]
  /\ UNCHANGED <<tables, offered, seen, lookup, history>>

\* Mutant of BeginRefresh: a deleted provider may be refreshed.
BeginRefreshAny(a, p) ==
  /\ row[p] # NoRow
  /\ Begin(a, "refresh", p, "list")
  /\ copy' = [copy EXCEPT ![a] = [row[p] EXCEPT !.status = "active"]]
  /\ UNCHANGED <<tables, offered, seen, lookup, history>>

BeginRefresh(a, p) ==
  /\ Active(p)
  /\ Begin(a, "refresh", p, "list")
  /\ copy' = [copy EXCEPT ![a] = row[p]]
  /\ UNCHANGED <<tables, offered, seen, lookup, history>>

\* The provider names its models.
ListModels(a) ==
  /\ step[a] = "list"
  /\ \E named \in SUBSET Models : offered' = [offered EXCEPT ![a] = named]
  /\ Then(a, "save")
  /\ UNCHANGED <<tables, kind, target, copy, seen, lookup, events, history>>

\* It does not answer, or rejects the key.  A refresh then marks the row it has read.
ListingFails(a) ==
  /\ step[a] = "list"
  /\ IF kind[a] = "refresh"
     THEN Then(a, "mark") /\ UNCHANGED <<locals, overtaken>>
     ELSE End(a) /\ overtaken' = overtaken \ {a}
  /\ UNCHANGED <<tables, lookup, events,
                 intended, dirty, chosen, outrun, undone, rotated, unchecked>>

\* The whole row is written, over whatever it has become since it was read; the new
\* row of a create gets the next id.
WriteRow(a, p) ==
  /\ row' = [row EXCEPT ![p] = copy[a]]
  /\ intended' = CASE kind[a] = "create" -> [intended EXCEPT ![p] = copy[a]]
                   [] kind[a] = "rotate" -> [intended EXCEPT ![p].secret = copy[a].secret]
                   [] OTHER -> intended
  /\ rotated' = IF kind[a] = "rotate" THEN rotated \cup {p} ELSE rotated
  /\ dirty' = IF a \in overtaken THEN dirty \cup {p} ELSE dirty
  /\ Overtake(a, p)

Destination(a) ==
  IF kind[a] = "create" THEN {p \in Providers : row[p] = NoRow} ELSE {target[a]}

\* Mutant of Save: the id of a new row is not passed on.
SaveWithoutId(a) ==
  /\ step[a] = "save"
  /\ \E p \in Destination(a) : WriteRow(a, p)
  /\ Then(a, "read")
  /\ UNCHANGED <<catalog, kind, target, copy, offered, seen, lookup, events,
                 chosen, outrun, undone, unchecked>>

\* saveProviderCredential, and the catalogue comes next.
Save(a) ==
  /\ step[a] = "save"
  /\ \E p \in Destination(a) :
       /\ WriteRow(a, p)
       /\ target' = [target EXCEPT ![a] = p]
  /\ Then(a, "read")
  /\ UNCHANGED <<catalog, kind, copy, offered, seen, lookup, events,
                 chosen, outrun, undone, unchecked>>

\* saveProviderCredential of a refresh that failed: the old row with an error in it.
Mark(a) ==
  /\ step[a] = "mark"
  /\ WriteRow(a, target[a])
  /\ End(a)
  /\ UNCHANGED <<catalog, lookup, events,
                 chosen, outrun, undone, unchecked>>

\* The write reports an error, before or after it took effect.
SaveFails(a) ==
  /\ step[a] \in {"save", "mark"}
  /\ Event
  /\ \/ \E p \in Destination(a) : WriteRow(a, p)
     \/ /\ UNCHANGED <<row, intended, rotated, dirty>>
        /\ overtaken' = overtaken \ {a}
  /\ End(a)
  /\ UNCHANGED <<catalog, lookup,
                 chosen, outrun, undone, unchecked>>

\* syncProviderModels reads which models are enabled; the transaction is READ COMMITTED
\* and locks nothing yet.
SyncRead(a) ==
  /\ step[a] = "read"
  /\ seen' = [seen EXCEPT ![a] = catalog[target[a]]]
  /\ outrun' = outrun \ {a}
  /\ Then(a, "write")
  /\ UNCHANGED <<tables, kind, target, copy, offered, lookup, events,
                 intended, overtaken, dirty, chosen, undone, rotated, unchecked>>

\* Mutant of NewListing: whichever operation discovers a model enables it.
NewListingEnabled(a, m) ==
  IF m \in offered[a] THEN IF seen[a][m] = "absent" \/ seen[a][m] = "enabled"
                           THEN "enabled" ELSE "disabled"
  ELSE IF seen[a][m] = "absent" THEN catalog[target[a]][m] ELSE "missing"

\* What a sync writes for m: a model that had a row keeps its switch as read, a new one is
\* enabled with a new provider only, and one the provider no longer names is missing.
NewListing(a, m) ==
  IF m \in offered[a]
  THEN IF seen[a][m] = "enabled" \/ (seen[a][m] = "absent" /\ kind[a] = "create")
       THEN "enabled" ELSE "disabled"
  ELSE IF seen[a][m] = "absent" THEN catalog[target[a]][m] ELSE "missing"

WriteCatalog(a) ==
  LET p == target[a]
  IN /\ catalog' = [catalog EXCEPT ![p] = [m \in Models |-> NewListing(a, m)]]
     /\ chosen' = IF kind[a] = "create"
                  THEN [chosen EXCEPT ![p] = @ \cup {m \in offered[a] : seen[a][m] = "absent"}]
                  ELSE chosen
     /\ undone' = IF a \in outrun THEN undone \cup {p} ELSE undone

\* The rows a transaction touches stay locked until it commits: its writes are one step.
SyncWrite(a) ==
  /\ step[a] = "write"
  /\ WriteCatalog(a)
  /\ End(a)
  /\ UNCHANGED <<row, lookup, events,
                 intended, overtaken, dirty, outrun, rotated, unchecked>>

\* Nothing of the transaction, or all of it, although the commit reported an error.
SyncFails(a) ==
  /\ step[a] \in {"read", "write"}
  /\ Event
  /\ \/ step[a] = "write" /\ WriteCatalog(a)
     \/ UNCHANGED <<catalog, chosen, undone>>
  /\ End(a)
  /\ UNCHANGED <<row, lookup,
                 intended, overtaken, dirty, outrun, rotated, unchecked>>

MarkDeleted(a, p) ==
  IF Active(p)
  THEN /\ row' = [row EXCEPT ![p].status = "deleted"]
       /\ intended' = [intended EXCEPT ![p].status = "deleted"]
       /\ Overtake(a, p)
  ELSE UNCHANGED <<row, intended, overtaken>>

\* deleteProviderCredential, of a provider whether or not it exists or is deleted already.
Delete(a, p) ==
  /\ Begin(a, "delete", p, "disable")
  /\ MarkDeleted(a, p)
  /\ UNCHANGED <<catalog, copy, offered, seen, lookup, dirty, chosen, outrun, undone, rotated,
                 unchecked>>

\* Its first statement reports an error, before or after it took effect: the second one,
\* for the models, is not tried.
DeleteFails(a, p) ==
  /\ step[a] = "idle"
  /\ Event
  /\ MarkDeleted(a, p) \/ UNCHANGED <<row, intended, overtaken>>
  /\ UNCHANGED <<catalog, admin, lookup, dirty, chosen, outrun, undone, rotated, unchecked>>

\* Whoever is about to write p's catalogue from a reading of it, a excepted.
Outrun(a) ==
  outrun' = outrun \cup {b \in Admins \ {a} : step[b] = "write" /\ target[b] = target[a]}

\* The administrator sets the listings of a provider, and chooses these of its models.
SetListings(a, listing, choice) ==
  /\ catalog' = [catalog EXCEPT ![target[a]] = listing]
  /\ chosen' = [chosen EXCEPT ![target[a]] = choice]
  /\ Outrun(a)

DisableAll(a) ==
  SetListings(a, [m \in Models |-> IF catalog[target[a]][m] = "absent"
                                  THEN "absent" ELSE "missing"], {})

DisableModels(a) ==
  /\ step[a] = "disable"
  /\ DisableAll(a)
  /\ End(a)
  /\ UNCHANGED <<row, lookup, events,
                 intended, overtaken, dirty, undone, rotated, unchecked>>

\* The first statement succeeded, the second reports an error.
DisableFails(a) ==
  /\ step[a] = "disable"
  /\ Event
  /\ DisableAll(a) \/ UNCHANGED <<catalog, chosen, outrun>>
  /\ End(a)
  /\ UNCHANGED <<row, lookup, intended, overtaken, dirty, undone, rotated, unchecked>>

\* PATCH .../models with the models to be enabled.
BeginPatch(a, p, S) ==
  /\ Active(p)
  /\ Begin(a, "patch", p, "patch")
  /\ offered' = [offered EXCEPT ![a] = S]
  /\ UNCHANGED <<tables, copy, seen, lookup, history>>

\* Only synced models can be enabled.
EnableOffered(a) ==
  LET old == catalog[target[a]]
  IN SetListings(a, [m \in Models |-> IF old[m] \in {"absent", "missing"} THEN old[m]
                                     ELSE IF m \in offered[a] THEN "enabled" ELSE "disabled"],
                 offered[a])

\* updateProviderModelEnabled: one transaction.
Patch(a) ==
  /\ step[a] = "patch"
  /\ EnableOffered(a)
  /\ End(a)
  /\ UNCHANGED <<row, lookup, events,
                 intended, overtaken, dirty, undone, rotated, unchecked>>

\* It is rolled back, or its commit reports an error although it took effect.
PatchFails(a) ==
  /\ step[a] = "patch"
  /\ Event
  /\ EnableOffered(a) \/ UNCHANGED <<catalog, chosen, outrun>>
  /\ End(a)
  /\ UNCHANGED <<row, lookup, intended, overtaken, dirty, undone, rotated, unchecked>>

-----------------------------------------------------------------------------
(* Chat requests: resolveManagedProviderForModel. *)

ListProviders(r) ==
  /\ pc[r] = "idle"
  /\ pc' = [pc EXCEPT ![r] = "looking"]
  /\ todo' = [todo EXCEPT ![r] = {<<p, row[p].secret>> : p \in {q \in Providers : Active(q)}}]
  /\ UNCHANGED <<tables, admin, model, route, events, history>>

\* Mutant of LookAt: the first provider decides.
LookAtFirst(r, x) ==
  /\ pc[r] = "looking"
  /\ x \in todo[r]
  /\ IF catalog[x[1]][model[r]] = "enabled"
     THEN /\ pc' = [pc EXCEPT ![r] = "routed"]
          /\ route' = [route EXCEPT ![r] = x]
          /\ UNCHANGED todo
     ELSE /\ todo' = [todo EXCEPT ![r] = {}]
          /\ UNCHANGED <<pc, route>>
  /\ UNCHANGED <<tables, admin, model, events, history>>

\* The providers are ordered by their types, and in any order within one; which of them
\* comes next is left open.
LookAt(r, x) ==
  /\ pc[r] = "looking"
  /\ x \in todo[r]
  /\ IF catalog[x[1]][model[r]] = "enabled"
     THEN /\ pc' = [pc EXCEPT ![r] = "routed"]
          /\ route' = [route EXCEPT ![r] = x]
          /\ UNCHANGED todo
     ELSE /\ todo' = [todo EXCEPT ![r] = @ \ {x}]
          /\ UNCHANGED <<pc, route>>
  /\ UNCHANGED <<tables, admin, model, events, history>>

\* "model is not enabled".
Refuse(r) ==
  /\ pc[r] = "looking"
  /\ todo[r] = {}
  /\ pc' = [pc EXCEPT ![r] = "refused"]
  /\ UNCHANGED <<tables, admin, model, todo, route, events, history>>

\* A table cannot be read: 500.
LookupFails(r) ==
  /\ pc[r] \in {"idle", "looking"}
  /\ Event
  /\ pc' = [pc EXCEPT ![r] = "failed"]
  /\ UNCHANGED <<tables, admin, model, todo, route, history>>

-----------------------------------------------------------------------------

\* bootstrapManagedConfig, with UPSTREAM_API_KEY set and no provider of its type on record,
\* deleted ones included: the provider is saved, no other one is looked at, and the models
\* it named are enabled, unless the sync fails.
BootstrapImport ==
  /\ \A p \in Providers : row[p] # NoRow => row[p].type # "openai"
  /\ \E p \in Providers, s \in Secrets, named \in SUBSET Models :
       /\ row[p] = NoRow
       /\ row' = [row EXCEPT ![p] = ImportedRow(s)]
       /\ intended' = [intended EXCEPT ![p] = ImportedRow(s)]
       /\ catalog' = [catalog EXCEPT ![p] = ImportedModels(named)]
       /\ chosen' = [chosen EXCEPT ![p] = named]
       /\ unchecked' = IF \E q \in Providers : Active(q) /\ row[q].secret = s
                       THEN unchecked \cup {p} ELSE unchecked

\* The process dies with the requests in it and is started again; the tables survive, and
\* the start may add a provider before it serves.
Restart ==
  /\ Event
  /\ step' = [a \in Admins |-> "idle"]
  /\ kind' = [a \in Admins |-> "none"]
  /\ target' = [a \in Admins |-> NoProvider]
  /\ copy' = [a \in Admins |-> NoRow]
  /\ offered' = [a \in Admins |-> {}]
  /\ seen' = [a \in Admins |-> NoModels]
  /\ pc' = [r \in Requests |-> IF pc[r] = "looking" THEN "died" ELSE pc[r]]
  /\ overtaken' = {}
  /\ outrun' = {}
  /\ BootstrapImport \/ UNCHANGED <<tables, intended, chosen, unchecked>>
  /\ UNCHANGED <<model, todo, route, dirty, undone, rotated>>

\* The providers a request for m can be sent to.
Serving(m) == {p \in Providers : Active(p) /\ catalog[p][m] = "enabled"}

Observe ==
  steady' = [r \in Requests |->
    IF pc'[r] # "looking" THEN steady[r]
    ELSE IF pc[r] = "idle" THEN Serving(model[r])'
    ELSE steady[r] \cap Serving(model[r])']

AdminStep(a) ==
  \/ \E t \in Types, s \in Secrets : BeginCreate(a, t, s)
  \/ \E p \in Providers, s \in Secrets : BeginRotate(a, p, s)
  \/ \E p \in Providers : BeginRefresh(a, p) \/ Delete(a, p) \/ DeleteFails(a, p)
  \/ \E p \in Providers, S \in SUBSET Models : BeginPatch(a, p, S)
  \/ ListModels(a) \/ ListingFails(a) \/ Save(a) \/ Mark(a) \/ SaveFails(a)
  \/ SyncRead(a) \/ SyncWrite(a) \/ SyncFails(a)
  \/ DisableModels(a) \/ DisableFails(a)
  \/ Patch(a) \/ PatchFails(a)

Lookup(r) ==
  \/ ListProviders(r)
  \/ \E x \in todo[r] : LookAt(r, x)
  \/ Refuse(r)
  \/ LookupFails(r)

Next ==
  /\ \/ \E a \in Admins : AdminStep(a)
     \/ \E r \in Requests : Lookup(r)
     \/ Restart
  /\ Observe

Spec == Init /\ [][Next]_vars

-----------------------------------------------------------------------------
(* Properties. *)

\* Every variable keeps its type, and an administrator request that is under way has what
\* its next statement needs.
TypeOK ==
  /\ row \in [Providers -> Row \cup {NoRow}]
  /\ catalog \in [Providers -> [Models -> Listing]]
  /\ step \in [Admins -> {"idle", "list", "save", "mark", "read", "write", "disable", "patch"}]
  /\ kind \in [Admins -> {"none", "create", "rotate", "refresh", "delete", "patch"}]
  /\ target \in [Admins -> Providers \cup {NoProvider}]
  /\ copy \in [Admins -> Row \cup {NoRow}]
  /\ \A a \in Admins :
       /\ step[a] \in {"list", "save", "mark"} => copy[a] \in Row
       /\ step[a] \in {"read", "write", "disable", "patch", "mark"} => target[a] \in Providers
  /\ offered \in [Admins -> SUBSET Models]
  /\ seen \in [Admins -> [Models -> Listing]]
  /\ pc \in [Requests -> {"idle", "looking", "routed", "refused", "failed", "died"}]
  /\ model \in [Requests -> Models]
  /\ todo \in [Requests -> SUBSET (Providers \X Secrets)]
  /\ route \in [Requests -> (Providers \X Secrets) \cup {NoRoute}]
  /\ events \in Nat
  /\ intended \in [Providers -> Row \cup {NoRow}]
  /\ overtaken \subseteq Admins
  /\ dirty \subseteq Providers
  /\ chosen \in [Providers -> SUBSET Models]
  /\ outrun \subseteq Admins
  /\ undone \subseteq Providers
  /\ rotated \subseteq Providers
  /\ unchecked \subseteq Providers
  /\ steady \in [Requests -> SUBSET Providers]

\* A deleted provider stays deleted and a provider keeps the key it was last given,
\* except where a rotate or refresh that read the row before the latest change wrote
\* its copy back after it: only then is a change lost.
RowIsIntended ==
  \A p \in Providers \ dirty : row[p] = intended[p]

\* A model is enabled only with its provider, as an administrator creates it or a start
\* imports it, or by an administrator who names it since.  A sync enables no model it
\* discovers later and none that was switched off or missing, unless it read the catalogue
\* before the administrator changed it.
EnabledByChoice ==
  \A p \in Providers \ undone, m \in Models : catalog[p][m] = "enabled" => m \in chosen[p]

\* No two providers in use have the same key, except in three cases: a rotate gave it to one,
\* which does not look for others; two creates looked before either had saved; or a start
\* imported a provider of the environment with the key of one that was there.
NoTwins ==
  \A p, q \in Providers :
    (p # q /\ Active(p) /\ Active(q) /\ row[p].secret = row[q].secret) =>
      {p, q} \cap (rotated \cup dirty \cup unchecked) # {}

\* A request is told that its model is not enabled only if no provider served the model
\* all the time it looked, whatever else administrators, restarts and syncs did meanwhile.
NeverMissed ==
  \A r \in Requests : pc[r] = "refused" => steady[r] = {}
=============================================================================

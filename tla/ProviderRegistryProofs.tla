----------------------- MODULE ProviderRegistryProofs -----------------------
(***************************************************************************)
(* Proofs about ProviderRegistry: types, and what is left of the rows,     *)
(* keys and catalogues of providers when administrators, failures and      *)
(* restarts interleave, and of a request's search among them.              *)
(***************************************************************************)
EXTENDS ProviderRegistry, TLAPS

-----------------------------------------------------------------------------
(* Types, in four parts. *)

TableTypes ==
  /\ row \in [Providers -> Row \cup {NoRow}]
  /\ catalog \in [Providers -> [Models -> Listing]]
  /\ intended \in [Providers -> Row \cup {NoRow}]
  /\ chosen \in [Providers -> SUBSET Models]
  /\ dirty \subseteq Providers
  /\ undone \subseteq Providers
  /\ rotated \subseteq Providers
  /\ unchecked \subseteq Providers

AdminTypes ==
  /\ step \in [Admins -> {"idle", "list", "save", "mark", "read", "write", "disable", "patch"}]
  /\ kind \in [Admins -> {"none", "create", "rotate", "refresh", "delete", "patch"}]
  /\ target \in [Admins -> Providers \cup {NoProvider}]
  /\ copy \in [Admins -> Row \cup {NoRow}]
  /\ \A a \in Admins :
       /\ step[a] \in {"list", "save", "mark"} => copy[a] \in Row
       /\ step[a] \in {"read", "write", "disable", "patch", "mark"} => target[a] \in Providers
  /\ offered \in [Admins -> SUBSET Models]
  /\ seen \in [Admins -> [Models -> Listing]]
  /\ overtaken \subseteq Admins
  /\ outrun \subseteq Admins

LookupTypes ==
  /\ pc \in [Requests -> {"idle", "looking", "routed", "refused", "failed", "died"}]
  /\ model \in [Requests -> Models]
  /\ todo \in [Requests -> SUBSET (Providers \X Secrets)]
  /\ route \in [Requests -> (Providers \X Secrets) \cup {NoRoute}]
  /\ steady \in [Requests -> SUBSET Providers]

LEMMA TypeParts == TypeOK <=> TableTypes /\ AdminTypes /\ LookupTypes /\ events \in Nat
BY DEF TypeOK, TableTypes, AdminTypes, LookupTypes

\* An administrator request that has read a row, or is about to file one, and will write it.
Holding(a) == step[a] \in {"list", "save", "mark"}

\* The rows and what was intended of them exist alike, and whoever holds the copy of a row
\* holds it of one that exists.
Grounded ==
  /\ \A p \in Providers : row[p] = NoRow <=> intended[p] = NoRow
  /\ \A a \in Admins :
       /\ Holding(a) => kind[a] \in {"create", "rotate", "refresh"}
       /\ step[a] = "mark" => kind[a] = "refresh"
       /\ Holding(a) /\ kind[a] # "create" =>
            target[a] \in Providers /\ row[target[a]] # NoRow

TypeInv == TypeOK /\ Grounded

LEMMA InitTypeInv == Init => TypeInv
<1> SUFFICES ASSUME Init PROVE TypeInv
  OBVIOUS
<1>1. row \in [Providers -> Row \cup {NoRow}] /\ catalog \in [Providers -> [Models -> Listing]]
  <2>1. CASE row = NoRows /\ catalog = NoCatalog
    BY <2>1 DEF NoRows, NoCatalog, NoModels, Listing
  <2>2. ASSUME NEW p \in Providers, NEW s \in Secrets, NEW named \in SUBSET Models,
               row = [NoRows EXCEPT ![p] = ImportedRow(s)],
               catalog = [NoCatalog EXCEPT ![p] = ImportedModels(named)]
        PROVE  /\ row \in [Providers -> Row \cup {NoRow}]
               /\ catalog \in [Providers -> [Models -> Listing]]
    BY <2>2 DEF NoRows, NoCatalog, NoModels, Listing, Row, Types, ImportedRow, ImportedModels
  <2>3. QED
    BY <2>1, <2>2 DEF Init, Bootstrapped
<1>2. TableTypes
  BY <1>1 DEF Init, TableTypes
<1>3. AdminTypes
  BY DEF Init, AdminTypes, NoModels, Listing
<1>4. LookupTypes
  BY DEF Init, LookupTypes
<1>5. Grounded
  BY DEF Init, Grounded, Holding
<1>6. QED
  BY <1>2, <1>3, <1>4, <1>5, TypeParts DEF Init, TypeInv

-----------------------------------------------------------------------------
(* What the actions have in common. *)

\* The locals of a request that is over are reset, and the others keep theirs.
LEMMA EndTypes ==
  ASSUME AdminTypes, NEW a \in Admins, End(a), overtaken' \subseteq Admins,
         outrun' \subseteq Admins
  PROVE  AdminTypes'
BY DEF AdminTypes, End, Then, NoModels, Listing

\* A row is written where there is one, or by a create where there is none.
LEMMA DestinationKnown ==
  ASSUME TypeInv, NEW a \in Admins, step[a] \in {"save", "mark"}, NEW p \in Destination(a)
  PROVE  /\ p \in Providers /\ copy[a] \in Row
         /\ kind[a] \in {"create", "rotate", "refresh"}
         /\ kind[a] = "create" => row[p] = NoRow
         /\ kind[a] # "create" => p = target[a] /\ row[p] # NoRow /\ intended[p] \in Row
         /\ row[p] # NoRow => row[p] \in Row
<1>1. /\ row \in [Providers -> Row \cup {NoRow}] /\ intended \in [Providers -> Row \cup {NoRow}]
      /\ copy[a] \in Row
  BY DEF TypeInv, TypeOK
<1>2. /\ kind[a] \in {"create", "rotate", "refresh"}
      /\ kind[a] # "create" => target[a] \in Providers /\ row[target[a]] # NoRow
      /\ \A q \in Providers : row[q] = NoRow <=> intended[q] = NoRow
  BY DEF TypeInv, Grounded, Holding
<1>3. QED
  BY <1>1, <1>2 DEF Destination

\* What is left when row p is written.
LEMMA WriteRowTypes ==
  ASSUME TypeInv, NEW a \in Admins, step[a] \in {"save", "mark"}, NEW p \in Destination(a),
         WriteRow(a, p)
  PROVE  /\ row' \in [Providers -> Row \cup {NoRow}]
         /\ intended' \in [Providers -> Row \cup {NoRow}]
         /\ rotated' \subseteq Providers /\ dirty' \subseteq Providers
         /\ overtaken' \subseteq Admins
         /\ row'[p] # NoRow /\ intended'[p] # NoRow
         /\ \A q \in Providers \ {p} : row'[q] = row[q] /\ intended'[q] = intended[q]
<1>1. /\ row \in [Providers -> Row \cup {NoRow}] /\ intended \in [Providers -> Row \cup {NoRow}]
      /\ rotated \subseteq Providers /\ dirty \subseteq Providers /\ overtaken \subseteq Admins
  BY DEF TypeInv, TypeOK
<1>2. /\ p \in Providers /\ copy[a] \in Row
      /\ kind[a] \in {"create", "rotate", "refresh"}
      /\ kind[a] # "create" => intended[p] \in Row
  BY DestinationKnown
<1>3. row' = [row EXCEPT ![p] = copy[a]]
  BY DEF WriteRow
<1>4. \E x \in Row : intended' = [intended EXCEPT ![p] = x]
  <2>1. CASE kind[a] = "create"
    BY <1>2, <2>1 DEF WriteRow
  <2>2. CASE kind[a] = "rotate"
    <3>1. intended' = [intended EXCEPT ![p] = [intended[p] EXCEPT !.secret = copy[a].secret]]
      BY <1>1, <1>2, <2>2 DEF WriteRow
    <3>2. [intended[p] EXCEPT !.secret = copy[a].secret] \in Row
      BY <1>2, <2>2 DEF Row
    <3>3. QED
      BY <3>1, <3>2
  <2>3. CASE kind[a] = "refresh"
    <3>1. intended' = intended /\ intended[p] \in Row
      BY <1>2, <2>3 DEF WriteRow
    <3>2. intended = [intended EXCEPT ![p] = intended[p]]
      BY <1>1, <1>2
    <3>3. QED
      BY <3>1, <3>2
  <2>4. QED
    BY <1>2, <2>1, <2>2, <2>3
<1>5. rotated' \subseteq Providers /\ dirty' \subseteq Providers /\ overtaken' \subseteq Admins
  BY <1>1, <1>2 DEF WriteRow, Overtake
<1>6. QED
  BY <1>1, <1>2, <1>3, <1>4, <1>5, NamesAssumption

\* A provider that is deleted keeps its row.
DeleteRow(p) ==
  /\ Active(p)
  /\ row' = [row EXCEPT ![p].status = "deleted"]
  /\ intended' = [intended EXCEPT ![p].status = "deleted"]

LEMMA DeleteRowTypes ==
  ASSUME TypeInv, NEW p \in Providers, DeleteRow(p)
  PROVE  /\ row' \in [Providers -> Row \cup {NoRow}]
         /\ intended' \in [Providers -> Row \cup {NoRow}]
         /\ row[p] \in Row /\ intended[p] \in Row
         /\ row' = [row EXCEPT ![p] = [row[p] EXCEPT !.status = "deleted"]]
         /\ intended' = [intended EXCEPT ![p] = [intended[p] EXCEPT !.status = "deleted"]]
         /\ row'[p] # NoRow /\ intended'[p] # NoRow
         /\ \A q \in Providers \ {p} : row'[q] = row[q] /\ intended'[q] = intended[q]
<1>1. /\ row \in [Providers -> Row \cup {NoRow}] /\ intended \in [Providers -> Row \cup {NoRow}]
      /\ row[p] # NoRow /\ intended[p] # NoRow
  BY DEF TypeInv, TypeOK, Grounded, DeleteRow, Active
<1>2. row[p] \in Row /\ intended[p] \in Row
  BY <1>1
<1>3. /\ row' = [row EXCEPT ![p] = [row[p] EXCEPT !.status = "deleted"]]
      /\ intended' = [intended EXCEPT ![p] = [intended[p] EXCEPT !.status = "deleted"]]
  BY <1>1 DEF DeleteRow
<1>4. /\ [row[p] EXCEPT !.status = "deleted"] \in Row
      /\ [intended[p] EXCEPT !.status = "deleted"] \in Row
  BY <1>2 DEF Row
<1>5. QED
  BY <1>1, <1>2, <1>3, <1>4, NamesAssumption

\* How a step of an administrator may change the rows: not at all, by writing the copy he
\* holds, or by deleting a provider.
Written(a) ==
  \E p \in Destination(a) : step[a] \in {"save", "mark"} /\ WriteRow(a, p)

Deleted(a) ==
  \E p \in Providers : DeleteRow(p) /\ Overtake(a, p) /\ UNCHANGED <<rotated, dirty>>

LEMMA RowChange ==
  ASSUME TypeInv, NEW a \in Admins, AdminStep(a)
  PROVE  \/ UNCHANGED <<row, intended, rotated, dirty>> /\ overtaken \ {a} \subseteq overtaken'
         \/ Written(a)
         \/ Deleted(a)
<1> DEFINE Same == UNCHANGED <<row, intended, rotated, dirty>>
                     /\ overtaken \ {a} \subseteq overtaken'
<1>1. CASE Save(a)
  BY <1>1 DEF Save, Written
<1>2. CASE Mark(a)
  <2>1. kind[a] = "refresh"
    BY <1>2 DEF Mark, TypeInv, Grounded
  <2>2. target[a] \in Destination(a)
    BY <2>1 DEF Destination
  <2>3. QED
    BY <1>2, <2>2 DEF Mark, Written
<1>3. CASE SaveFails(a)
  BY <1>3 DEF SaveFails, Written
<1>4. ASSUME NEW p \in Providers, Delete(a, p) \/ DeleteFails(a, p) PROVE Same \/ Deleted(a)
  BY <1>4 DEF Delete, DeleteFails, MarkDeleted, DeleteRow, Deleted
<1>5. CASE \/ \E t \in Types, s \in Secrets : BeginCreate(a, t, s)
           \/ \E p \in Providers, s \in Secrets : BeginRotate(a, p, s)
           \/ \E p \in Providers : BeginRefresh(a, p)
           \/ \E p \in Providers, S \in SUBSET Models : BeginPatch(a, p, S)
  BY <1>5 DEF BeginCreate, BeginRotate, BeginRefresh, BeginPatch, tables, history
<1>6. CASE ListModels(a) \/ ListingFails(a)
  BY <1>6 DEF ListModels, ListingFails, tables, history
<1>7. CASE SyncRead(a) \/ SyncWrite(a) \/ SyncFails(a)
  BY <1>7 DEF SyncRead, SyncWrite, SyncFails, tables, history
<1>8. CASE DisableModels(a) \/ DisableFails(a) \/ Patch(a) \/ PatchFails(a)
  BY <1>8 DEF DisableModels, DisableFails, Patch, PatchFails, tables, history
<1>9. QED
  BY <1>1, <1>2, <1>3, <1>4, <1>5, <1>6, <1>7, <1>8 DEF AdminStep

\* A start that imports a provider adds a row, which nobody holds a copy of.
LEMMA Imported ==
  ASSUME TypeInv, BootstrapImport
  PROVE  \E p \in Providers, s \in Secrets, named \in SUBSET Models :
           /\ row[p] = NoRow
           /\ row'[p] = ImportedRow(s) /\ intended'[p] = ImportedRow(s)
           /\ \A q \in Providers \ {p} : row'[q] = row[q] /\ intended'[q] = intended[q]
           /\ row' \in [Providers -> Row \cup {NoRow}]
           /\ intended' \in [Providers -> Row \cup {NoRow}]
           /\ row'[p] # NoRow /\ intended'[p] # NoRow
           /\ catalog' = [catalog EXCEPT ![p] = ImportedModels(named)]
           /\ chosen' = [chosen EXCEPT ![p] = named]
           /\ unchecked \subseteq unchecked' /\ unchecked' \subseteq Providers
           /\ (\E q \in Providers : Active(q) /\ row[q].secret = s) => p \in unchecked'
<1>1. /\ row \in [Providers -> Row \cup {NoRow}] /\ intended \in [Providers -> Row \cup {NoRow}]
      /\ unchecked \subseteq Providers
  BY DEF TypeInv, TypeOK
<1>2. PICK p \in Providers, s \in Secrets, named \in SUBSET Models :
        /\ row[p] = NoRow
        /\ row' = [row EXCEPT ![p] = ImportedRow(s)]
        /\ intended' = [intended EXCEPT ![p] = ImportedRow(s)]
        /\ catalog' = [catalog EXCEPT ![p] = ImportedModels(named)]
        /\ chosen' = [chosen EXCEPT ![p] = named]
        /\ unchecked' = IF \E q \in Providers : Active(q) /\ row[q].secret = s
                        THEN unchecked \cup {p} ELSE unchecked
  BY DEF BootstrapImport
<1>3. ImportedRow(s) \in Row
  BY DEF ImportedRow, Row, Types
<1>4. /\ row'[p] = ImportedRow(s) /\ intended'[p] = ImportedRow(s)
      /\ \A q \in Providers \ {p} : row'[q] = row[q] /\ intended'[q] = intended[q]
      /\ row' \in [Providers -> Row \cup {NoRow}]
      /\ intended' \in [Providers -> Row \cup {NoRow}]
  BY <1>1, <1>2, <1>3
<1>5. unchecked \subseteq unchecked' /\ unchecked' \subseteq Providers
  BY <1>1, <1>2
<1>6. (\E q \in Providers : Active(q) /\ row[q].secret = s) => p \in unchecked'
  BY <1>2
<1>7. QED
  BY <1>2, <1>3, <1>4, <1>5, <1>6, NamesAssumption

\* No step but an administrator's leaves an administrator with a copy he had not, and none
\* touches the tables, but for a start that imports a provider.
LEMMA Idlers ==
  ASSUME [Next]_vars, \A a \in Admins : ~AdminStep(a)
  PROVE  /\ UNCHANGED <<dirty, rotated, undone>>
         /\ \/ UNCHANGED <<row, intended, catalog, chosen, unchecked>>
            \/ BootstrapImport /\ \A a \in Admins : step'[a] = "idle"
         /\ \/ /\ UNCHANGED <<row, catalog, chosen>>
               /\ UNCHANGED <<step, kind, target, copy, offered, seen, overtaken, outrun>>
            \/ \A a \in Admins : step'[a] = "idle"
<1>1. CASE \E r \in Requests : Lookup(r)
  BY <1>1 DEF Lookup, ListProviders, LookAt, Refuse, LookupFails, tables, admin, locals, history
<1>2. CASE UNCHANGED vars
  BY <1>2 DEF vars, tables, admin, locals, history
<1>3. CASE Restart
  BY <1>3 DEF Restart, tables
<1>4. QED
  BY <1>1, <1>2, <1>3 DEF Next

\* How a step may change the catalogues: not at all, by a sync, by an administrator's choice
\* or his deletion of a provider, or by an import.
Synced(a) == step[a] = "write" /\ WriteCatalog(a)

Choosing(a) ==
  /\ step[a] \in {"disable", "patch"}
  /\ DisableAll(a) \/ EnableOffered(a)
  /\ UNCHANGED undone

LEMMA CatalogChange ==
  ASSUME [Next]_vars
  PROVE  \/ UNCHANGED <<catalog, chosen, undone>>
         \/ \E a \in Admins : Synced(a)
         \/ \E a \in Admins : Choosing(a)
         \/ BootstrapImport /\ UNCHANGED undone
<1> DEFINE Same == UNCHANGED <<catalog, chosen, undone>>
<1>1. ASSUME NEW a \in Admins, AdminStep(a) PROVE Same \/ Synced(a) \/ Choosing(a)
  <2>1. CASE DisableModels(a) \/ DisableFails(a)
    BY <2>1 DEF DisableModels, DisableFails, Choosing
  <2>2. CASE Patch(a) \/ PatchFails(a)
    BY <2>2 DEF Patch, PatchFails, Choosing
  <2>3. CASE SyncWrite(a) \/ SyncFails(a)
    BY <2>3 DEF SyncWrite, SyncFails, Synced
  <2>4. CASE \/ \E t \in Types, s \in Secrets : BeginCreate(a, t, s)
             \/ \E p \in Providers, s \in Secrets : BeginRotate(a, p, s)
             \/ \E p \in Providers : BeginRefresh(a, p) \/ Delete(a, p) \/ DeleteFails(a, p)
             \/ \E p \in Providers, S \in SUBSET Models : BeginPatch(a, p, S)
    BY <2>4 DEF BeginCreate, BeginRotate, BeginRefresh, BeginPatch, Delete, DeleteFails, tables,
                history
  <2>5. CASE ListModels(a) \/ ListingFails(a) \/ SyncRead(a)
    BY <2>5 DEF ListModels, ListingFails, SyncRead, tables, history
  <2>6. CASE Save(a) \/ Mark(a) \/ SaveFails(a)
    BY <2>6 DEF Save, Mark, SaveFails
  <2>7. QED
    BY <1>1, <2>1, <2>2, <2>3, <2>4, <2>5, <2>6 DEF AdminStep
<1>2. ASSUME NEW r \in Requests, Lookup(r) PROVE Same
  BY <1>2 DEF Lookup, ListProviders, LookAt, Refuse, LookupFails, tables, history
<1>3. CASE Restart
  BY <1>3 DEF Restart, tables
<1>4. CASE UNCHANGED vars
  BY <1>4 DEF vars, tables, history
<1>5. QED
  BY <1>1, <1>2, <1>3, <1>4 DEF Next

\* What an administrator's choice makes of a listing.
LEMMA ChoosingIsLocal ==
  ASSUME TypeInv, NEW a \in Admins, Choosing(a)
  PROVE  /\ target[a] \in Providers
         /\ Outrun(a)
         /\ \E listing \in [Models -> Listing], choice \in SUBSET Models :
              /\ catalog' = [catalog EXCEPT ![target[a]] = listing]
              /\ chosen' = [chosen EXCEPT ![target[a]] = choice]
              /\ \A m \in Models : listing[m] = "enabled" => m \in choice
<1>1. /\ target[a] \in Providers /\ offered[a] \in SUBSET Models
      /\ catalog[target[a]] \in [Models -> Listing]
  BY DEF TypeInv, TypeOK, Choosing
<1>2. CASE DisableAll(a)
  <2> DEFINE Off == [m \in Models |-> IF catalog[target[a]][m] = "absent"
                                      THEN "absent" ELSE "missing"]
  <2>1. Off \in [Models -> Listing] /\ \A m \in Models : Off[m] # "enabled"
    BY DEF Listing
  <2>2. /\ catalog' = [catalog EXCEPT ![target[a]] = Off]
        /\ chosen' = [chosen EXCEPT ![target[a]] = {}]
        /\ Outrun(a)
    BY <1>2 DEF DisableAll, SetListings
  <2> HIDE DEF Off
  <2>3. {} \in SUBSET Models
    OBVIOUS
  <2>4. \E listing \in [Models -> Listing], choice \in SUBSET Models :
          /\ catalog' = [catalog EXCEPT ![target[a]] = listing]
          /\ chosen' = [chosen EXCEPT ![target[a]] = choice]
          /\ \A m \in Models : listing[m] = "enabled" => m \in choice
    BY <2>1, <2>2, <2>3, Zenon
  <2>5. QED
    BY <1>1, <2>2, <2>4
<1>3. CASE EnableOffered(a)
  <2> DEFINE On == [m \in Models |->
               IF catalog[target[a]][m] \in {"absent", "missing"} THEN catalog[target[a]][m]
               ELSE IF m \in offered[a] THEN "enabled" ELSE "disabled"]
  <2>1. On \in [Models -> Listing] /\ \A m \in Models : On[m] = "enabled" => m \in offered[a]
    BY <1>1 DEF Listing
  <2>2. /\ catalog' = [catalog EXCEPT ![target[a]] = On]
        /\ chosen' = [chosen EXCEPT ![target[a]] = offered[a]]
        /\ Outrun(a)
    BY <1>3 DEF EnableOffered, SetListings
  <2> HIDE DEF On
  <2>3. QED
    BY <1>1, <2>1, <2>2
<1>4. QED
  BY <1>2, <1>3 DEF Choosing

LEMMA NewListingType ==
  ASSUME TypeOK, NEW a \in Admins, target[a] \in Providers, NEW m \in Models
  PROVE  NewListing(a, m) \in Listing
BY DEF NewListing, TypeOK, Listing

\* Administrators touch no search of a request, and none of their steps is a restart's.
LEMMA AdminsKeep ==
  ASSUME NEW a \in Admins, AdminStep(a)
  PROVE  UNCHANGED <<lookup, unchecked>>
BY DEF AdminStep, BeginCreate, BeginRotate, BeginRefresh, Delete, DeleteFails, BeginPatch,
   ListModels, ListingFails, Save, Mark, SaveFails, SyncRead, SyncWrite, SyncFails,
   DisableModels, DisableFails, Patch, PatchFails, history

LEMMA NextTableTypes == TypeInv /\ [Next]_vars => TableTypes'
<1> SUFFICES ASSUME TypeInv, [Next]_vars PROVE TableTypes'
  OBVIOUS
<1>0. TypeOK /\ TableTypes /\ AdminTypes
  BY TypeParts DEF TypeInv
<1>1. /\ row' \in [Providers -> Row \cup {NoRow}] /\ intended' \in [Providers -> Row \cup {NoRow}]
      /\ rotated' \subseteq Providers /\ dirty' \subseteq Providers
  <2>1. CASE \E a \in Admins : AdminStep(a)
    BY <1>0, <2>1, RowChange, WriteRowTypes, DeleteRowTypes DEF TableTypes, Written, Deleted
  <2>2. CASE \A a \in Admins : ~AdminStep(a)
    BY <1>0, <2>2, Idlers, Imported DEF TableTypes
  <2>3. QED
    BY <2>1, <2>2
<1>4. unchecked' \subseteq Providers
  BY <1>0, AdminsKeep, Idlers, Imported DEF TableTypes
<1> DEFINE CatalogTyped == /\ catalog' \in [Providers -> [Models -> Listing]]
                           /\ chosen' \in [Providers -> SUBSET Models]
                           /\ undone' \subseteq Providers
<1>2. CatalogTyped
  <2>1. CASE UNCHANGED <<catalog, chosen, undone>>
    BY <1>0, <2>1 DEF TableTypes
  <2>2. ASSUME NEW a \in Admins, Synced(a)
        PROVE  CatalogTyped
    <3>1. target[a] \in Providers
      BY <1>0, <2>2 DEF AdminTypes, Synced
    <3>2. [m \in Models |-> NewListing(a, m)] \in [Models -> Listing]
      BY <1>0, <3>1, NewListingType
    <3>3. catalog' \in [Providers -> [Models -> Listing]]
      <4>1. catalog' = [catalog EXCEPT ![target[a]] = [m \in Models |-> NewListing(a, m)]]
        BY <2>2 DEF Synced, WriteCatalog
      <4>2. QED
        BY <1>0, <3>1, <3>2, <4>1 DEF TableTypes
    <3>4. chosen' \in [Providers -> SUBSET Models]
      <4>1. offered[a] \subseteq Models
        BY <1>0 DEF AdminTypes
      <4>2. QED
        BY <1>0, <2>2, <3>1, <4>1 DEF Synced, WriteCatalog, TableTypes
    <3>5. undone' \subseteq Providers
      BY <1>0, <2>2, <3>1 DEF Synced, WriteCatalog, TableTypes
    <3>6. QED
      BY <3>3, <3>4, <3>5
  <2>3. ASSUME NEW a \in Admins, Choosing(a)
        PROVE  CatalogTyped
    <3>1. PICK listing \in [Models -> Listing], choice \in SUBSET Models :
            /\ catalog' = [catalog EXCEPT ![target[a]] = listing]
            /\ chosen' = [chosen EXCEPT ![target[a]] = choice]
      BY <2>3, ChoosingIsLocal
    <3>2. QED
      BY <1>0, <2>3, <3>1 DEF TableTypes, Choosing
  <2>4. CASE BootstrapImport /\ UNCHANGED undone
    <3>1. PICK p \in Providers, named \in SUBSET Models :
            /\ catalog' = [catalog EXCEPT ![p] = ImportedModels(named)]
            /\ chosen' = [chosen EXCEPT ![p] = named]
      BY <2>4, Imported
    <3>2. ImportedModels(named) \in [Models -> Listing]
      BY DEF ImportedModels, Listing
    <3>3. QED
      BY <1>0, <2>4, <3>1, <3>2 DEF TableTypes
  <2>5. QED
    BY <2>1, <2>2, <2>3, <2>4, CatalogChange
<1>3. QED
  BY <1>1, <1>2, <1>4 DEF TableTypes

\* The next statement of a request is known by its step.
LEMMA AdminStepTypes ==
  ASSUME TypeInv, NEW a \in Admins, AdminStep(a)
  PROVE  AdminTypes'
<1>0. TypeOK /\ TableTypes /\ AdminTypes
  BY TypeParts DEF TypeInv
<1> USE DEF AdminTypes, Begin, Then, history, locals
<1>1. ASSUME NEW t \in Types, NEW s \in Secrets, BeginCreate(a, t, s) PROVE AdminTypes'
  <2>1. [type |-> t, status |-> "active", secret |-> s] \in Row
    BY DEF Row
  <2>2. QED
    BY <1>0, <1>1, <2>1 DEF BeginCreate
<1>2. ASSUME NEW p \in Providers, NEW s \in Secrets, BeginRotate(a, p, s) PROVE AdminTypes'
  <2>1. row[p] \in Row
    BY <1>0, <1>2 DEF BeginRotate, Active, TableTypes
  <2>2. [row[p] EXCEPT !.secret = s] \in Row
    BY <2>1 DEF Row
  <2>3. QED
    BY <1>0, <1>2, <2>2 DEF BeginRotate
<1>3. ASSUME NEW p \in Providers, BeginRefresh(a, p) PROVE AdminTypes'
  <2>1. row[p] \in Row
    BY <1>0, <1>3 DEF BeginRefresh, Active, TableTypes
  <2>2. QED
    BY <1>0, <1>3, <2>1 DEF BeginRefresh
<1>4. ASSUME NEW p \in Providers, Delete(a, p) PROVE AdminTypes'
  <2>1. overtaken' \subseteq Admins
    BY <1>0, <1>4 DEF Delete, MarkDeleted, Overtake
  <2>2. QED
    BY <1>0, <1>4, <2>1 DEF Delete
<1>5. ASSUME NEW p \in Providers, NEW S \in SUBSET Models, BeginPatch(a, p, S) PROVE AdminTypes'
  BY <1>0, <1>5 DEF BeginPatch
<1>6. CASE ListModels(a)
  BY <1>0, <1>6 DEF ListModels
<1>7. CASE ListingFails(a)
  <2>1. CASE kind[a] = "refresh"
    <3>1. target[a] \in Providers
      BY <1>7, <2>1 DEF ListingFails, TypeInv, Grounded, Holding
    <3>2. QED
      BY <1>0, <1>7, <2>1, <3>1 DEF ListingFails
  <2>2. CASE kind[a] # "refresh"
    <3>1. End(a) /\ overtaken' \subseteq Admins /\ outrun' \subseteq Admins
      BY <1>0, <1>7, <2>2 DEF ListingFails
    <3>2. QED
      BY <1>0, <3>1, EndTypes
  <2>3. QED
    BY <2>1, <2>2
<1>8. CASE Save(a)
  <2>1. PICK p \in Destination(a) : WriteRow(a, p) /\ target' = [target EXCEPT ![a] = p]
    BY <1>8 DEF Save
  <2>2. p \in Providers /\ overtaken' \subseteq Admins
    BY <1>8, <2>1, DestinationKnown, WriteRowTypes DEF Save
  <2>3. QED
    BY <1>0, <1>8, <2>1, <2>2 DEF Save
<1>9. CASE Mark(a) \/ SaveFails(a)
  <2>1. End(a) /\ outrun' \subseteq Admins
    BY <1>0, <1>9 DEF Mark, SaveFails
  <2>2. overtaken' \subseteq Admins
    BY <1>0, <1>9 DEF Mark, SaveFails, WriteRow, Overtake
  <2>3. QED
    BY <1>0, <2>1, <2>2, EndTypes
<1>10. CASE SyncRead(a)
  <2>1. catalog[target[a]] \in [Models -> Listing]
    BY <1>0, <1>10 DEF SyncRead, TableTypes
  <2>2. QED
    BY <1>0, <1>10, <2>1 DEF SyncRead
<1>11. CASE SyncWrite(a) \/ SyncFails(a)
  <2>1. End(a) /\ overtaken' \subseteq Admins /\ outrun' \subseteq Admins
    BY <1>0, <1>11 DEF SyncWrite, SyncFails
  <2>2. QED
    BY <1>0, <2>1, EndTypes
<1>12. CASE DisableModels(a) \/ DisableFails(a) \/ Patch(a) \/ PatchFails(a)
  <2>1. End(a) /\ overtaken' \subseteq Admins /\ (Outrun(a) \/ outrun' = outrun)
    BY <1>0, <1>12
    DEF DisableModels, DisableFails, Patch, PatchFails, DisableAll, EnableOffered, SetListings
  <2>2. outrun' \subseteq Admins
    BY <1>0, <2>1 DEF Outrun
  <2>3. QED
    BY <1>0, <2>1, <2>2, EndTypes
<1>13. ASSUME NEW p \in Providers, DeleteFails(a, p) PROVE AdminTypes'
  <2>1. overtaken' \subseteq Admins /\ UNCHANGED <<admin, outrun>>
    BY <1>0, <1>13 DEF DeleteFails, MarkDeleted, Overtake
  <2>2. QED
    BY <1>0, <2>1 DEF admin
<1>14. QED
  BY <1>1, <1>2, <1>3, <1>4, <1>5, <1>6, <1>7, <1>8, <1>9, <1>10, <1>11, <1>12, <1>13
  DEF AdminStep

LEMMA NextAdminTypes == TypeInv /\ [Next]_vars => AdminTypes'
<1> SUFFICES ASSUME TypeInv, [Next]_vars PROVE AdminTypes'
  OBVIOUS
<1>0. AdminTypes
  BY TypeParts DEF TypeInv
<1>1. CASE \E a \in Admins : AdminStep(a)
  BY <1>1, AdminStepTypes
<1>2. CASE Restart
  BY <1>0, <1>2 DEF Restart, AdminTypes, NoModels, Listing
<1>3. CASE (\E r \in Requests : Lookup(r)) \/ UNCHANGED vars
  <2>1. UNCHANGED <<step, kind, target, copy, offered, seen, overtaken, outrun>>
    BY <1>3 DEF vars, Lookup, ListProviders, LookAt, Refuse, LookupFails, admin, locals, history
  <2>2. QED
    BY <1>0, <2>1 DEF AdminTypes
<1>4. QED
  BY <1>1, <1>2, <1>3 DEF Next

LEMMA NextLookupTypes == TypeInv /\ [Next]_vars => LookupTypes' /\ events' \in Nat
<1> SUFFICES ASSUME TypeInv, [Next]_vars PROVE LookupTypes' /\ events' \in Nat
  OBVIOUS
<1>0. LookupTypes /\ TableTypes /\ events \in Nat
  BY TypeParts DEF TypeInv
<1>1. events' \in Nat
  <2>1. ASSUME NEW a \in Admins, AdminStep(a) PROVE events' = events \/ Event
    <3>1. CASE \/ \E t \in Types, s \in Secrets : BeginCreate(a, t, s)
               \/ \E p \in Providers, s \in Secrets : BeginRotate(a, p, s)
               \/ \E p \in Providers : BeginRefresh(a, p) \/ Delete(a, p)
               \/ \E p \in Providers, S \in SUBSET Models : BeginPatch(a, p, S)
      BY <3>1 DEF BeginCreate, BeginRotate, BeginRefresh, Delete, BeginPatch, Begin
    <3>2. CASE ListModels(a) \/ ListingFails(a) \/ Save(a) \/ Mark(a) \/ SyncRead(a)
                 \/ SyncWrite(a) \/ DisableModels(a) \/ Patch(a)
      BY <3>2 DEF ListModels, ListingFails, Save, Mark, SyncRead, SyncWrite, DisableModels, Patch
    <3>3. CASE \/ \E p \in Providers : DeleteFails(a, p)
               \/ SaveFails(a) \/ SyncFails(a) \/ DisableFails(a) \/ PatchFails(a)
      BY <3>3 DEF DeleteFails, SaveFails, SyncFails, DisableFails, PatchFails
    <3>4. QED
      BY <2>1, <3>1, <3>2, <3>3 DEF AdminStep
  <2>2. ASSUME NEW r \in Requests, Lookup(r) PROVE events' = events \/ Event
    BY <2>2 DEF Lookup, ListProviders, LookAt, Refuse, LookupFails
  <2>3. CASE Restart \/ UNCHANGED vars
    BY <1>0, <2>3 DEF Restart, vars, Event
  <2>4. QED
    BY <1>0, <2>1, <2>2, <2>3 DEF Next, Event
<1> DEFINE Typed ==
      /\ pc' \in [Requests -> {"idle", "looking", "routed", "refused", "failed", "died"}]
      /\ model' = model
      /\ todo' \in [Requests -> SUBSET (Providers \X Secrets)]
      /\ route' \in [Requests -> (Providers \X Secrets) \cup {NoRoute}]
<1>2. Typed
  <2>1. ASSUME NEW a \in Admins, AdminStep(a) PROVE UNCHANGED lookup
    BY <2>1, AdminsKeep
  <2>2. ASSUME NEW r \in Requests, ListProviders(r) PROVE Typed
    <3>1. {<<p, row[p].secret>> : p \in {q \in Providers : Active(q)}}
            \in SUBSET (Providers \X Secrets)
      BY <1>0 DEF TableTypes, Active, Row
    <3>2. QED
      BY <1>0, <2>2, <3>1 DEF ListProviders, LookupTypes
  <2>3. ASSUME NEW r \in Requests, NEW x \in todo[r], LookAt(r, x) PROVE Typed
    <3>1. x \in Providers \X Secrets
      BY <1>0, <2>3 DEF LookupTypes
    <3>2. QED
      BY <1>0, <2>3, <3>1 DEF LookAt, LookupTypes
  <2>4. ASSUME NEW r \in Requests, Refuse(r) \/ LookupFails(r) PROVE Typed
    BY <1>0, <2>4 DEF Refuse, LookupFails, LookupTypes
  <2>5. CASE Restart
    BY <1>0, <2>5 DEF Restart, LookupTypes
  <2>6. CASE UNCHANGED lookup
    BY <1>0, <2>6 DEF lookup, LookupTypes
  <2>7. QED
    BY <2>1, <2>2, <2>3, <2>4, <2>5, <2>6 DEF Next, Lookup, vars
<1>3. steady' \in [Requests -> SUBSET Providers]
  <2>1. CASE UNCHANGED vars
    BY <1>0, <2>1 DEF vars, LookupTypes
  <2>2. CASE Observe
    BY <1>0, <2>2 DEF Observe, LookupTypes, Serving
  <2>3. QED
    BY <2>1, <2>2 DEF Next
<1>4. QED
  BY <1>0, <1>1, <1>2, <1>3 DEF LookupTypes

\* A step of one administrator leaves the locals of the others alone.
LEMMA OthersKeep ==
  ASSUME TypeOK, NEW a \in Admins, AdminStep(a), NEW b \in Admins \ {a}
  PROVE  /\ step'[b] = step[b] /\ kind'[b] = kind[b] /\ target'[b] = target[b]
         /\ copy'[b] = copy[b] /\ offered'[b] = offered[b] /\ seen'[b] = seen[b]
<1>0. AdminTypes
  BY TypeParts
<1> USE DEF AdminTypes, Then
<1>1. CASE End(a)
  BY <1>0, <1>1 DEF End
<1>2. CASE \/ \E t \in Types, s \in Secrets : BeginCreate(a, t, s)
           \/ \E p \in Providers, s \in Secrets : BeginRotate(a, p, s)
           \/ \E p \in Providers : BeginRefresh(a, p)
  BY <1>0, <1>2 DEF BeginCreate, BeginRotate, BeginRefresh, Begin
<1>3. CASE \/ \E p \in Providers : Delete(a, p) \/ DeleteFails(a, p)
           \/ \E p \in Providers, S \in SUBSET Models : BeginPatch(a, p, S)
  BY <1>0, <1>3 DEF Delete, DeleteFails, BeginPatch, Begin, admin, locals
<1>4. CASE ListModels(a) \/ SyncRead(a)
  BY <1>0, <1>4 DEF ListModels, SyncRead
<1>5. CASE Save(a)
  BY <1>0, <1>5 DEF Save
<1>6. CASE ListingFails(a) /\ kind[a] = "refresh"
  BY <1>0, <1>6 DEF ListingFails, locals
<1>7. QED
  BY <1>1, <1>2, <1>3, <1>4, <1>5, <1>6
  DEF AdminStep, ListingFails, Mark, SaveFails, SyncWrite, SyncFails, DisableModels,
      DisableFails, Patch, PatchFails

\* Whoever holds a copy after a step of his has taken it now, from a provider that is not
\* deleted or for one whose key nobody has, or has kept it.
Taken(a) ==
  \/ /\ kind'[a] = "create"
     /\ \A p \in Providers : Active(p) => row[p].secret # copy'[a].secret
  \/ \E p \in Providers :
       /\ Active(p)
       /\ target'[a] = p
       /\ \/ kind'[a] = "rotate" /\ \E s \in Secrets : copy'[a] = [row[p] EXCEPT !.secret = s]
          \/ kind'[a] = "refresh" /\ copy'[a] = row[p]

Kept(a) ==
  /\ Holding(a)
  /\ kind'[a] = kind[a] /\ target'[a] = target[a] /\ copy'[a] = copy[a]

LEMMA HoldingAfter ==
  ASSUME TypeInv, NEW a \in Admins, AdminStep(a), step'[a] \in {"list", "save", "mark"}
  PROVE  /\ row' = row /\ overtaken' = overtaken
         /\ Taken(a) \/ Kept(a)
         /\ step'[a] = "mark" => kind'[a] = "refresh"
<1>0. AdminTypes
  BY TypeParts DEF TypeInv
<1> USE DEF AdminTypes, Then, Begin, tables, history
<1> DEFINE Goal == /\ row' = row /\ overtaken' = overtaken
                   /\ Taken(a) \/ Kept(a)
                   /\ step'[a] = "mark" => kind'[a] = "refresh"
<1>1. CASE End(a)
  BY <1>0, <1>1 DEF End
<1>2. ASSUME NEW t \in Types, NEW s \in Secrets, BeginCreate(a, t, s) PROVE Goal
  <2>1. step'[a] = "list" /\ kind'[a] = "create" /\ copy'[a].secret = s
    BY <1>0, <1>2 DEF BeginCreate
  <2>2. \A p \in Providers : Active(p) => row[p].secret # s
    BY <1>2 DEF BeginCreate
  <2>3. row' = row /\ overtaken' = overtaken
    BY <1>2 DEF BeginCreate
  <2>4. QED
    BY <2>1, <2>2, <2>3 DEF Taken
<1>3. ASSUME NEW p \in Providers, NEW s \in Secrets, BeginRotate(a, p, s) PROVE Goal
  <2>1. /\ step'[a] = "list" /\ kind'[a] = "rotate" /\ target'[a] = p
        /\ copy'[a] = [row[p] EXCEPT !.secret = s]
    BY <1>0, <1>3 DEF BeginRotate
  <2>2. row' = row /\ overtaken' = overtaken /\ Active(p)
    BY <1>3 DEF BeginRotate
  <2>3. QED
    BY <2>1, <2>2 DEF Taken
<1>4. ASSUME NEW p \in Providers, BeginRefresh(a, p) PROVE Goal
  <2>1. step'[a] = "list" /\ kind'[a] = "refresh" /\ target'[a] = p /\ copy'[a] = row[p]
    BY <1>0, <1>4 DEF BeginRefresh
  <2>2. row' = row /\ overtaken' = overtaken /\ Active(p)
    BY <1>4 DEF BeginRefresh
  <2>3. QED
    BY <2>1, <2>2 DEF Taken
<1>5. ASSUME \/ \E p \in Providers : Delete(a, p) \/ DeleteFails(a, p)
             \/ \E p \in Providers, S \in SUBSET Models : BeginPatch(a, p, S)
             \/ SyncRead(a) \/ Save(a)
      PROVE  FALSE
  BY <1>0, <1>5 DEF Delete, DeleteFails, BeginPatch, SyncRead, Save, admin
<1>6. CASE ListModels(a)
  BY <1>0, <1>6 DEF ListModels, Kept, Holding
<1>7. CASE ListingFails(a) /\ kind[a] = "refresh"
  BY <1>0, <1>7 DEF ListingFails, Kept, Holding, locals
<1>8. QED
  BY <1>1, <1>2, <1>3, <1>4, <1>5, <1>6, <1>7
  DEF AdminStep, ListingFails, Mark, SaveFails, SyncWrite, SyncFails, DisableModels,
      DisableFails, Patch, PatchFails

\* No row is dropped.
LEMMA RowsStay ==
  ASSUME TypeInv, [Next]_vars, NEW p \in Providers
  PROVE  /\ row[p] # NoRow => row'[p] # NoRow
         /\ row'[p] = NoRow <=> intended'[p] = NoRow
<1>0. row[p] = NoRow <=> intended[p] = NoRow
  BY DEF TypeInv, Grounded
<1>1. ASSUME NEW a \in Admins, NEW q \in Destination(a), step[a] \in {"save", "mark"},
             WriteRow(a, q)
      PROVE  /\ row[p] # NoRow => row'[p] # NoRow
             /\ row'[p] = NoRow <=> intended'[p] = NoRow
  BY <1>0, <1>1, WriteRowTypes
<1>2. ASSUME NEW q \in Providers, DeleteRow(q)
      PROVE  /\ row[p] # NoRow => row'[p] # NoRow
             /\ row'[p] = NoRow <=> intended'[p] = NoRow
  BY <1>0, <1>2, DeleteRowTypes
<1>3. CASE \E a \in Admins : AdminStep(a)
  BY <1>0, <1>1, <1>2, <1>3, RowChange DEF Written, Deleted
<1>4. CASE \A a \in Admins : ~AdminStep(a)
  BY <1>0, <1>4, Idlers, Imported
<1>5. QED
  BY <1>3, <1>4

LEMMA NextGrounded == TypeInv /\ [Next]_vars => Grounded'
<1> SUFFICES ASSUME TypeInv, [Next]_vars PROVE Grounded'
  OBVIOUS
<1>0. /\ row \in [Providers -> Row \cup {NoRow}]
      /\ \A p \in Providers : row[p] # NoRow => row'[p] # NoRow
  BY RowsStay DEF TypeInv, TypeOK
<1>1. \A p \in Providers : row'[p] = NoRow <=> intended'[p] = NoRow
  BY RowsStay
<1>2. ASSUME NEW a \in Admins
      PROVE  /\ step'[a] \in {"list", "save", "mark"} =>
                  /\ kind'[a] \in {"create", "rotate", "refresh"}
                  /\ kind'[a] # "create" =>
                       target'[a] \in Providers /\ row'[target'[a]] # NoRow
             /\ step'[a] = "mark" => kind'[a] = "refresh"
  <2>0. /\ Holding(a) => kind[a] \in {"create", "rotate", "refresh"}
        /\ step[a] = "mark" => kind[a] = "refresh"
        /\ Holding(a) /\ kind[a] # "create" => target[a] \in Providers /\ row[target[a]] # NoRow
    BY DEF TypeInv, Grounded
  <2>1. CASE AdminStep(a)
    <3>1. SUFFICES ASSUME step'[a] \in {"list", "save", "mark"}
                   PROVE  /\ kind'[a] \in {"create", "rotate", "refresh"}
                          /\ kind'[a] # "create" =>
                               target'[a] \in Providers /\ row'[target'[a]] # NoRow
      BY <2>1, HoldingAfter
    <3>2. CASE Taken(a)
      BY <1>0, <3>2 DEF Taken, Active
    <3>3. CASE Kept(a)
      BY <1>0, <2>0, <3>3 DEF Kept
    <3>4. QED
      BY <2>1, <3>1, <3>2, <3>3, HoldingAfter
  <2>2. ASSUME NEW b \in Admins \ {a}, AdminStep(b)
        PROVE  step'[a] = step[a] /\ kind'[a] = kind[a] /\ target'[a] = target[a]
    BY <2>2, OthersKeep DEF TypeInv
  <2>3. CASE \A b \in Admins : ~AdminStep(b)
    BY <2>0, <2>3, Idlers DEF Holding
  <2>4. QED
    BY <1>0, <2>0, <2>1, <2>2, <2>3 DEF Holding
<1>3. QED
  BY <1>1, <1>2 DEF Grounded, Holding

LEMMA NextTypeInv == TypeInv /\ [Next]_vars => TypeInv'
<1>1. (TypeOK <=> TableTypes /\ AdminTypes /\ LookupTypes /\ events \in Nat)'
  BY DEF TypeOK, TableTypes, AdminTypes, LookupTypes
<1>2. QED
  BY <1>1, NextTableTypes, NextAdminTypes, NextLookupTypes, NextGrounded DEF TypeInv

LEMMA TypeInvHolds == Spec => []TypeInv
<1>1. QED
  BY InitTypeInv, NextTypeInv, PTL DEF Spec

\* Every variable keeps its type, and an administrator request that is under way has the
\* row and the provider its next statement needs.
THEOREM TypeCorrect == Spec => []TypeOK
<1>1. TypeInv => TypeOK
  BY DEF TypeInv
<1>2. QED
  BY <1>1, TypeInvHolds, PTL

-----------------------------------------------------------------------------
(* Rows and keys. *)

\* A copy that no other write has overtaken is still what it was taken from, but for the
\* key of a rotate; a new provider's key is still nobody's.
Fresh(a) ==
  /\ kind[a] = "create" => \A p \in Providers : Active(p) => row[p].secret # copy[a].secret
  /\ kind[a] = "rotate" => copy[a] = [row[target[a]] EXCEPT !.secret = copy[a].secret]
  /\ kind[a] = "refresh" => copy[a] = row[target[a]]

CopyInv == \A a \in Admins \ overtaken : Holding(a) => Fresh(a)

\* Whoever writes a row overtakes the copies of others that depend on it.
LEMMA OthersStayFresh ==
  ASSUME TypeInv, CopyInv, NEW a \in Admins, NEW b \in Admins \ {a}, AdminStep(b),
         a \notin overtaken', Holding(a)
  PROVE  /\ kind[a] = "create" => row' = row
         /\ kind[a] # "create" => row'[target[a]] = row[target[a]]
         /\ Fresh(a)
<1>1. ASSUME NEW p \in Providers, Overtake(b, p)
      PROVE  kind[a] # "create" /\ target[a] # p /\ a \notin overtaken
  BY <1>1 DEF Overtake, Holding
<1>2. kind[a] # "create" => target[a] \in Providers
  BY DEF TypeInv, Grounded
<1>3. ASSUME NEW p \in Destination(b), step[b] \in {"save", "mark"}, WriteRow(b, p)
      PROVE  /\ kind[a] # "create" /\ a \notin overtaken
             /\ row'[target[a]] = row[target[a]]
  <2>1. Overtake(b, p) /\ p \in Providers
    BY <1>3, DestinationKnown DEF WriteRow
  <2>2. kind[a] # "create" /\ target[a] \in Providers \ {p} /\ a \notin overtaken
    BY <1>1, <1>2, <2>1
  <2>3. QED
    BY <1>3, <2>2, WriteRowTypes
<1>4. ASSUME NEW p \in Providers, DeleteRow(p), Overtake(b, p)
      PROVE  /\ kind[a] # "create" /\ a \notin overtaken
             /\ row'[target[a]] = row[target[a]]
  BY <1>1, <1>2, <1>4, DeleteRowTypes
<1>5. /\ a \notin overtaken
      /\ kind[a] = "create" => row' = row
      /\ kind[a] # "create" => row'[target[a]] = row[target[a]]
  BY <1>3, <1>4, RowChange DEF Written, Deleted
<1>6. QED
  BY <1>5 DEF CopyInv

LEMMA NextCopyInv == TypeInv /\ CopyInv /\ [Next]_vars => CopyInv'
<1> SUFFICES ASSUME TypeInv, CopyInv, [Next]_vars,
                    NEW a \in Admins, a \notin overtaken',
                    step'[a] \in {"list", "save", "mark"}
             PROVE  Fresh(a)'
  BY DEF CopyInv, Holding
<1>0. row \in [Providers -> Row \cup {NoRow}]
  BY DEF TypeInv, TypeOK
<1>1. CASE AdminStep(a)
  <2>1. row' = row /\ overtaken' = overtaken /\ (Taken(a) \/ Kept(a))
    BY <1>1, HoldingAfter
  <2>2. CASE Taken(a)
    <3>1. CASE kind'[a] = "create"
      BY <2>1, <2>2, <3>1 DEF Taken, Fresh, Active
    <3>2. CASE kind'[a] # "create"
      <4>1. PICK p \in Providers :
              /\ Active(p)
              /\ target'[a] = p
              /\ \/ kind'[a] = "rotate" /\ \E s \in Secrets : copy'[a] = [row[p] EXCEPT !.secret = s]
                 \/ kind'[a] = "refresh" /\ copy'[a] = row[p]
        BY <2>2, <3>2 DEF Taken
      <4>2. row[p] \in Row
        BY <1>0, <4>1 DEF Active
      <4>3. kind'[a] = "rotate" => copy'[a] = [row[p] EXCEPT !.secret = copy'[a].secret]
        BY <4>1, <4>2 DEF Row
      <4>4. QED
        BY <2>1, <3>2, <4>1, <4>3 DEF Fresh
    <3>3. QED
      BY <3>1, <3>2
  <2>3. CASE Kept(a)
    <3>1. Fresh(a)
      BY <2>1, <2>3 DEF CopyInv, Kept
    <3>2. QED
      BY <2>1, <2>3, <3>1 DEF Fresh, Kept, Active
  <2>4. QED
    BY <2>1, <2>2, <2>3
<1>2. ASSUME NEW b \in Admins \ {a}, AdminStep(b) PROVE Fresh(a)'
  <2>1. step'[a] = step[a] /\ kind'[a] = kind[a] /\ target'[a] = target[a] /\ copy'[a] = copy[a]
    BY <1>2, OthersKeep DEF TypeInv
  <2>2. /\ kind[a] = "create" => row' = row
        /\ kind[a] # "create" => row'[target[a]] = row[target[a]]
        /\ Fresh(a)
    BY <1>2, <2>1, OthersStayFresh DEF Holding
  <2>3. QED
    BY <2>1, <2>2 DEF Fresh, Active
<1>3. CASE \A b \in Admins : ~AdminStep(b)
  <2>1. row' = row /\ UNCHANGED <<step, kind, target, copy, overtaken>>
    BY <1>3, Idlers
  <2>2. Fresh(a)
    BY <2>1 DEF CopyInv, Holding
  <2>3. QED
    BY <2>1, <2>2 DEF Fresh, Active
<1>4. QED
  BY <1>1, <1>2, <1>3

\* A write of a fresh copy does what it is about to the row it finds.
LEMMA NextRowIsIntended ==
  TypeInv /\ CopyInv /\ RowIsIntended /\ [Next]_vars => RowIsIntended'
<1> SUFFICES ASSUME TypeInv, CopyInv, RowIsIntended, [Next]_vars,
                    NEW p \in Providers, p \notin dirty'
             PROVE  row'[p] = intended'[p]
  BY DEF RowIsIntended
<1>0. row \in [Providers -> Row \cup {NoRow}] /\ intended \in [Providers -> Row \cup {NoRow}]
  BY DEF TypeInv, TypeOK
<1>1. ASSUME NEW a \in Admins, NEW q \in Destination(a), step[a] \in {"save", "mark"},
             WriteRow(a, q)
      PROVE  row'[p] = intended'[p]
  <2>1. CASE p # q
    <3>1. p \notin dirty
      BY <1>1 DEF WriteRow
    <3>2. row'[p] = row[p] /\ intended'[p] = intended[p]
      BY <1>1, <2>1, WriteRowTypes
    <3>3. QED
      BY <3>1, <3>2 DEF RowIsIntended
  <2>2. CASE p = q
    <3>1. a \notin overtaken /\ p \notin dirty
      BY <1>1, <2>2 DEF WriteRow
    <3>2. Fresh(a) /\ row[p] = intended[p]
      BY <1>1, <3>1 DEF CopyInv, Holding, RowIsIntended
    <3>3. /\ kind[a] \in {"create", "rotate", "refresh"}
          /\ kind[a] # "create" => p = target[a] /\ intended[p] \in Row
      BY <1>1, <2>2, DestinationKnown
    <3>4. row'[p] = copy[a]
      BY <1>0, <1>1, <2>2 DEF WriteRow
    <3>5. CASE kind[a] = "create"
      BY <1>0, <1>1, <2>2, <3>4, <3>5 DEF WriteRow
    <3>6. CASE kind[a] = "rotate"
      <4>1. intended' = [intended EXCEPT ![p] = [intended[p] EXCEPT !.secret = copy[a].secret]]
        BY <1>0, <1>1, <2>2, <3>6 DEF WriteRow
      <4>2. intended'[p] = [intended[p] EXCEPT !.secret = copy[a].secret]
        BY <1>0, <4>1
      <4>3. copy[a] = [row[p] EXCEPT !.secret = copy[a].secret]
        BY <3>2, <3>3, <3>6 DEF Fresh
      <4>4. QED
        BY <3>2, <3>4, <4>2, <4>3
    <3>7. CASE kind[a] = "refresh"
      <4>1. intended' = intended
        BY <1>1, <3>7 DEF WriteRow
      <4>2. QED
        BY <3>2, <3>3, <3>4, <3>7, <4>1 DEF Fresh
    <3>8. QED
      BY <3>3, <3>5, <3>6, <3>7
  <2>3. QED
    BY <2>1, <2>2
<1>2. ASSUME NEW q \in Providers, DeleteRow(q), dirty' = dirty
      PROVE  row'[p] = intended'[p]
  <2>1. row[p] = intended[p]
    BY <1>2 DEF RowIsIntended
  <2>2. /\ row' = [row EXCEPT ![q] = [row[q] EXCEPT !.status = "deleted"]]
        /\ intended' = [intended EXCEPT ![q] = [intended[q] EXCEPT !.status = "deleted"]]
    BY <1>2, DeleteRowTypes
  <2>3. QED
    BY <1>0, <2>1, <2>2
<1>3. CASE UNCHANGED <<row, intended, dirty>>
  BY <1>3 DEF RowIsIntended
<1>4. CASE BootstrapImport /\ UNCHANGED dirty
  <2>1. row[p] = intended[p]
    BY <1>4 DEF RowIsIntended
  <2>2. QED
    BY <1>4, <2>1, Imported
<1>5. CASE \E a \in Admins : AdminStep(a)
  BY <1>1, <1>2, <1>3, <1>5, RowChange DEF Written, Deleted
<1>6. CASE \A a \in Admins : ~AdminStep(a)
  BY <1>3, <1>4, <1>6, Idlers
<1>7. QED
  BY <1>5, <1>6

\* Whatever creates, rotates, refreshes, deletes and imports read, write and fail to write in
\* between, a provider has the row they meant it to have, unless one of them wrote back a
\* copy older than the latest change.
THEOREM RowsIntended == Spec => []RowIsIntended
<1>1. Init => CopyInv /\ RowIsIntended
  BY DEF Init, CopyInv, RowIsIntended, Holding
<1>2. QED
  BY <1>1, NextCopyInv, NextRowIsIntended, TypeInvHolds, PTL DEF Spec

\* A new provider's key is nobody's when it is filed, a rotate and an unchecked
\* import are known by their providers, and nothing else gives a provider a key.
LEMMA NextNoTwins == TypeInv /\ CopyInv /\ NoTwins /\ [Next]_vars => NoTwins'
<1> DEFINE Active1(p) == row'[p] # NoRow /\ row'[p].status = "active"
<1> SUFFICES ASSUME TypeInv, CopyInv, NoTwins, [Next]_vars,
                    NEW p \in Providers, NEW q \in Providers, p # q,
                    Active1(p), Active1(q), row'[p].secret = row'[q].secret
             PROVE  {p, q} \cap (rotated' \cup dirty' \cup unchecked') # {}
  BY DEF NoTwins, Active
<1>0. row \in [Providers -> Row \cup {NoRow}]
  BY DEF TypeInv, TypeOK
<1>1. CASE UNCHANGED <<row, rotated, dirty, unchecked>>
  BY <1>1 DEF NoTwins, Active
<1>2. ASSUME NEW x \in Providers, DeleteRow(x), UNCHANGED <<rotated, dirty, unchecked>>
      PROVE  {p, q} \cap (rotated' \cup dirty' \cup unchecked') # {}
  <2>1. row'[x] = [row[x] EXCEPT !.status = "deleted"] /\ row[x] \in Row
    BY <1>0, <1>2, DeleteRowTypes
  <2>2. row'[x].status = "deleted"
    BY <2>1 DEF Row
  <2>3. p # x /\ q # x
    BY <2>2
  <2>4. row'[p] = row[p] /\ row'[q] = row[q]
    BY <1>2, <2>3, DeleteRowTypes
  <2>5. QED
    BY <1>2, <2>4 DEF NoTwins, Active
<1>3. ASSUME NEW a \in Admins, NEW x \in Destination(a), step[a] \in {"save", "mark"},
             WriteRow(a, x), UNCHANGED unchecked
      PROVE  {p, q} \cap (rotated' \cup dirty' \cup unchecked') # {}
  <2>1. rotated \subseteq rotated' /\ dirty \subseteq dirty' /\ unchecked' = unchecked
    BY <1>3 DEF WriteRow
  <2>2. /\ x \in Providers /\ row'[x] = copy[a]
        /\ \A y \in Providers \ {x} : row'[y] = row[y]
        /\ kind[a] \in {"create", "rotate", "refresh"}
        /\ kind[a] # "create" => x = target[a]
    BY <1>0, <1>3, DestinationKnown, WriteRowTypes DEF WriteRow
  <2>3. CASE x \notin {p, q}
    <3>1. row'[p] = row[p] /\ row'[q] = row[q]
      BY <2>2, <2>3
    <3>2. {p, q} \cap (rotated \cup dirty \cup unchecked) # {}
      BY <3>1 DEF NoTwins, Active
    <3>3. QED
      BY <2>1, <3>2
  <2>4. CASE a \in overtaken
    <3>1. x \in dirty'
      BY <1>3, <2>4 DEF WriteRow
    <3>2. QED
      BY <2>1, <2>3, <3>1
  <2>5. CASE kind[a] = "rotate"
    <3>1. x \in rotated'
      BY <1>3, <2>5 DEF WriteRow
    <3>2. QED
      BY <2>1, <2>3, <3>1
  <2>6. CASE a \notin overtaken /\ kind[a] = "refresh"
    <3>0. Fresh(a)
      BY <1>3, <2>6 DEF CopyInv, Holding
    <3>1. row'[x] = row[x]
      BY <2>2, <2>6, <3>0 DEF Fresh
    <3>2. row'[p] = row[p] /\ row'[q] = row[q]
      BY <2>2, <3>1
    <3>3. {p, q} \cap (rotated \cup dirty \cup unchecked) # {}
      BY <3>2 DEF NoTwins, Active
    <3>4. QED
      BY <2>1, <3>3
  <2>7. CASE a \notin overtaken /\ kind[a] = "create" /\ x \in {p, q}
    <3>1. PICK y \in {p, q} : y # x
      OBVIOUS
    <3>2. row'[y] = row[y] /\ Active(y) /\ row[y].secret = copy[a].secret
      BY <2>2, <2>7, <3>1 DEF Active
    <3>3. Fresh(a)
      BY <1>3, <2>7 DEF CopyInv, Holding
    <3>4. row[y].secret # copy[a].secret
      BY <2>7, <3>2, <3>3 DEF Fresh
    <3>5. QED
      BY <3>2, <3>4
  <2>8. QED
    BY <2>2, <2>3, <2>4, <2>5, <2>6, <2>7
<1>4. CASE BootstrapImport /\ UNCHANGED <<rotated, dirty>>
  <2>1. PICK x \in Providers, s \in Secrets :
          /\ row[x] = NoRow
          /\ row'[x] = ImportedRow(s)
          /\ \A y \in Providers \ {x} : row'[y] = row[y]
          /\ unchecked \subseteq unchecked'
          /\ (\E y \in Providers : Active(y) /\ row[y].secret = s) => x \in unchecked'
    BY <1>4, Imported
  <2>2. CASE x \notin {p, q}
    <3>1. row'[p] = row[p] /\ row'[q] = row[q]
      BY <2>1, <2>2
    <3>2. {p, q} \cap (rotated \cup dirty \cup unchecked) # {}
      BY <3>1 DEF NoTwins, Active
    <3>3. QED
      BY <1>4, <2>1, <3>2
  <2>3. CASE x \in {p, q}
    <3>1. PICK y \in {p, q} : y # x
      OBVIOUS
    <3>2. row'[y] = row[y] /\ Active(y) /\ row[y].secret = s
      BY <2>1, <2>3, <3>1 DEF Active, ImportedRow
    <3>3. x \in unchecked'
      BY <2>1, <3>1, <3>2
    <3>4. QED
      BY <2>3, <3>3
  <2>4. QED
    BY <2>2, <2>3
<1>5. CASE \E a \in Admins : AdminStep(a)
  BY <1>1, <1>2, <1>3, <1>5, RowChange, AdminsKeep DEF Written, Deleted
<1>6. CASE \A a \in Admins : ~AdminStep(a)
  BY <1>1, <1>4, <1>6, Idlers
<1>7. QED
  BY <1>5, <1>6

\* Two providers in use share a key only where a rotate, which does not look, two creates
\* that looked before either had saved, or a start, which does not look, gave it to them.
THEOREM KeysUnique == Spec => []NoTwins
<1>1. Init => CopyInv
  BY DEF Init, CopyInv, Holding
<1>2. Init => NoTwins
  <2> SUFFICES ASSUME Init, NEW p \in Providers, NEW q \in Providers, p # q,
                      Active(p), Active(q)
               PROVE  FALSE
    BY DEF NoTwins
  <2>1. CASE row = NoRows
    BY <2>1 DEF NoRows, Active
  <2>2. ASSUME NEW x \in Providers, NEW s \in Secrets,
               row = [NoRows EXCEPT ![x] = ImportedRow(s)]
        PROVE  FALSE
    BY <2>2 DEF NoRows, Active, ImportedRow
  <2>3. QED
    BY <2>1, <2>2 DEF Init, Bootstrapped
<1>3. QED
  BY <1>1, <1>2, NextCopyInv, NextNoTwins, TypeInvHolds, PTL DEF Spec

-----------------------------------------------------------------------------
(* Catalogues. *)

\* What a sync has read as enabled was chosen, unless an administrator has chosen anew.
SeenInv ==
  \A a \in Admins \ outrun :
    step[a] = "write" /\ target[a] \notin undone =>
      \A m \in Models : seen[a][m] = "enabled" => m \in chosen[target[a]]

\* What a sync of a knows of a catalogue it has not been outrun on.
LEMMA SyncKeepsChoice ==
  ASSUME TypeInv, SeenInv, EnabledByChoice, NEW a \in Admins, step[a] = "write",
         WriteCatalog(a)
  PROVE  /\ \A p \in Providers : chosen[p] \subseteq chosen'[p]
         /\ undone \subseteq undone'
         /\ \A p \in Providers, m \in Models :
              p \notin undone' /\ catalog'[p][m] = "enabled" => m \in chosen'[p]
<1>0. /\ catalog \in [Providers -> [Models -> Listing]]
      /\ chosen \in [Providers -> SUBSET Models]
      /\ target[a] \in Providers
  BY DEF TypeInv, TypeOK
<1>1. undone \subseteq undone' /\ (target[a] \notin undone' => a \notin outrun)
  BY DEF WriteCatalog
<1>2. \A p \in Providers : chosen[p] \subseteq chosen'[p]
  BY <1>0 DEF WriteCatalog
<1>3. ASSUME NEW p \in Providers, NEW m \in Models, p \notin undone',
             catalog'[p][m] = "enabled"
      PROVE  m \in chosen'[p]
  <2>1. CASE p # target[a]
    <3>1. catalog'[p] = catalog[p]
      BY <1>0, <2>1 DEF WriteCatalog
    <3>2. m \in chosen[p]
      BY <1>1, <1>3, <3>1 DEF EnabledByChoice
    <3>3. QED
      BY <1>2, <3>2
  <2>2. CASE p = target[a]
    <3>1. catalog'[p][m] = NewListing(a, m)
      BY <1>0, <2>2 DEF WriteCatalog
    <3>2. \/ seen[a][m] = "enabled"
          \/ m \in offered[a] /\ seen[a][m] = "absent" /\ kind[a] = "create"
          \/ catalog[p][m] = "enabled"
      BY <1>3, <2>2, <3>1 DEF NewListing
    <3>3. a \notin outrun /\ p \notin undone
      BY <1>1, <1>3, <2>2
    <3>4. CASE seen[a][m] = "enabled"
      <4>1. m \in chosen[p]
        BY <2>2, <3>3, <3>4 DEF SeenInv
      <4>2. QED
        BY <1>2, <4>1
    <3>5. CASE m \in offered[a] /\ seen[a][m] = "absent" /\ kind[a] = "create"
      BY <1>0, <2>2, <3>5 DEF WriteCatalog
    <3>6. CASE catalog[p][m] = "enabled"
      <4>1. m \in chosen[p]
        BY <3>3, <3>6 DEF EnabledByChoice
      <4>2. QED
        BY <1>2, <4>1
    <3>7. QED
      BY <3>2, <3>4, <3>5, <3>6
  <2>3. QED
    BY <2>1, <2>2
<1>4. QED
  BY <1>1, <1>2, <1>3

LEMMA NextEnabledByChoice ==
  TypeInv /\ SeenInv /\ EnabledByChoice /\ [Next]_vars => EnabledByChoice'
<1> SUFFICES ASSUME TypeInv, SeenInv, EnabledByChoice, [Next]_vars,
                    NEW p \in Providers, p \notin undone', NEW m \in Models,
                    catalog'[p][m] = "enabled"
             PROVE  m \in chosen'[p]
  BY DEF EnabledByChoice
<1>0. /\ catalog \in [Providers -> [Models -> Listing]]
      /\ chosen \in [Providers -> SUBSET Models]
  BY DEF TypeInv, TypeOK
<1>1. CASE UNCHANGED <<catalog, chosen, undone>>
  BY <1>1 DEF EnabledByChoice
<1>2. ASSUME NEW a \in Admins, Synced(a)
      PROVE  m \in chosen'[p]
  BY <1>2, SyncKeepsChoice DEF Synced
<1>3. ASSUME NEW a \in Admins, Choosing(a)
      PROVE  m \in chosen'[p]
  <2>1. PICK listing \in [Models -> Listing], choice \in SUBSET Models :
          /\ catalog' = [catalog EXCEPT ![target[a]] = listing]
          /\ chosen' = [chosen EXCEPT ![target[a]] = choice]
          /\ \A n \in Models : listing[n] = "enabled" => n \in choice
    BY <1>3, ChoosingIsLocal
  <2>2. CASE p = target[a]
    BY <1>0, <2>1, <2>2
  <2>3. CASE p # target[a]
    BY <1>0, <1>3, <2>1, <2>3 DEF EnabledByChoice, Choosing
  <2>4. QED
    BY <2>2, <2>3
<1>4. CASE BootstrapImport /\ UNCHANGED undone
  <2>1. PICK x \in Providers, named \in SUBSET Models :
          /\ catalog' = [catalog EXCEPT ![x] = ImportedModels(named)]
          /\ chosen' = [chosen EXCEPT ![x] = named]
    BY <1>4, Imported
  <2>2. CASE p = x
    BY <1>0, <2>1, <2>2 DEF ImportedModels
  <2>3. CASE p # x
    BY <1>0, <1>4, <2>1, <2>3 DEF EnabledByChoice
  <2>4. QED
    BY <2>2, <2>3
<1>5. QED
  BY <1>1, <1>2, <1>3, <1>4, CatalogChange

\* Who is about to write a catalogue after a step of his has read it in that step.
LEMMA WritingAfter ==
  ASSUME TypeInv, NEW a \in Admins, AdminStep(a), step'[a] = "write"
  PROVE  /\ target'[a] = target[a] /\ target[a] \in Providers
         /\ seen'[a] = catalog[target[a]]
         /\ UNCHANGED <<catalog, chosen, undone>>
<1>0. AdminTypes
  BY TypeParts DEF TypeInv
<1> USE DEF AdminTypes, Then, Begin
<1>1. CASE SyncRead(a)
  BY <1>0, <1>1 DEF SyncRead, tables
<1>2. CASE End(a)
  BY <1>0, <1>2 DEF End
<1>3. ASSUME \/ \E t \in Types, s \in Secrets : BeginCreate(a, t, s)
             \/ \E p \in Providers, s \in Secrets : BeginRotate(a, p, s)
             \/ \E p \in Providers : BeginRefresh(a, p) \/ Delete(a, p) \/ DeleteFails(a, p)
             \/ \E p \in Providers, S \in SUBSET Models : BeginPatch(a, p, S)
      PROVE  FALSE
  BY <1>0, <1>3 DEF BeginCreate, BeginRotate, BeginRefresh, Delete, DeleteFails, BeginPatch, admin
<1>4. ASSUME ListModels(a) \/ (ListingFails(a) /\ kind[a] = "refresh") \/ Save(a)
      PROVE  FALSE
  BY <1>0, <1>4 DEF ListModels, ListingFails, Save
<1>5. QED
  BY <1>1, <1>2, <1>3, <1>4
  DEF AdminStep, ListingFails, Mark, SaveFails, SyncWrite, SyncFails, DisableModels,
      DisableFails, Patch, PatchFails

\* Whoever chooses models anew outruns the syncs that have read the catalogue before.
LEMMA ChoiceChange ==
  ASSUME TypeInv, SeenInv, EnabledByChoice, NEW a \in Admins, NEW b \in Admins \ {a},
         AdminStep(b), step[a] = "write", a \notin outrun'
  PROVE  /\ a \notin outrun
         /\ undone \subseteq undone'
         /\ chosen[target[a]] \subseteq chosen'[target[a]]
<1>0. /\ target[a] \in Providers /\ chosen \in [Providers -> SUBSET Models]
  BY DEF TypeInv, TypeOK
<1>1. CASE DisableModels(b) \/ DisableFails(b) \/ Patch(b) \/ PatchFails(b)
  <2>1. Choosing(b) \/ UNCHANGED <<chosen, outrun, undone>>
    BY <1>1 DEF DisableModels, DisableFails, Patch, PatchFails, Choosing
  <2>2. CASE UNCHANGED <<chosen, outrun, undone>>
    BY <2>2
  <2>3. CASE Choosing(b)
    <3>1. PICK choice \in SUBSET Models : chosen' = [chosen EXCEPT ![target[b]] = choice]
      BY <2>3, ChoosingIsLocal
    <3>2. Outrun(b) /\ undone' = undone
      BY <2>3, ChoosingIsLocal DEF Choosing
    <3>3. a \notin outrun /\ target[a] # target[b]
      BY <3>2 DEF Outrun
    <3>4. QED
      BY <1>0, <3>1, <3>2, <3>3
  <2>4. QED
    BY <2>1, <2>2, <2>3
<1>2. CASE SyncWrite(b) \/ SyncFails(b)
  <2>1. outrun' = outrun
    BY <1>2 DEF SyncWrite, SyncFails
  <2>2. CASE step[b] = "write" /\ WriteCatalog(b)
    BY <1>0, <2>1, <2>2, SyncKeepsChoice
  <2>3. CASE UNCHANGED <<chosen, undone>>
    BY <2>1, <2>3
  <2>4. QED
    BY <1>2, <2>2, <2>3 DEF SyncWrite, SyncFails
<1>3. CASE SyncRead(b)
  BY <1>3 DEF SyncRead
<1>4. CASE \/ \E t \in Types, s \in Secrets : BeginCreate(b, t, s)
           \/ \E p \in Providers, s \in Secrets : BeginRotate(b, p, s)
           \/ \E p \in Providers : BeginRefresh(b, p) \/ Delete(b, p) \/ DeleteFails(b, p)
           \/ \E p \in Providers, S \in SUBSET Models : BeginPatch(b, p, S)
  BY <1>4 DEF BeginCreate, BeginRotate, BeginRefresh, Delete, DeleteFails, BeginPatch, history
<1>5. CASE ListModels(b) \/ ListingFails(b) \/ Save(b) \/ Mark(b) \/ SaveFails(b)
  BY <1>5 DEF ListModels, ListingFails, Save, Mark, SaveFails, history
<1>6. QED
  BY <1>1, <1>2, <1>3, <1>4, <1>5 DEF AdminStep

LEMMA NextSeenInv == TypeInv /\ SeenInv /\ EnabledByChoice /\ [Next]_vars => SeenInv'
<1> SUFFICES ASSUME TypeInv, SeenInv, EnabledByChoice, [Next]_vars,
                    NEW a \in Admins, a \notin outrun', step'[a] = "write",
                    target'[a] \notin undone', NEW m \in Models, seen'[a][m] = "enabled"
             PROVE  m \in chosen'[target'[a]]
  BY DEF SeenInv
<1>1. CASE AdminStep(a)
  BY <1>1, WritingAfter DEF EnabledByChoice
<1>2. ASSUME NEW b \in Admins \ {a}, AdminStep(b) PROVE m \in chosen'[target'[a]]
  <2>1. step'[a] = step[a] /\ target'[a] = target[a] /\ seen'[a] = seen[a]
    BY <1>2, OthersKeep DEF TypeInv
  <2>2. /\ a \notin outrun /\ undone \subseteq undone'
        /\ chosen[target[a]] \subseteq chosen'[target[a]]
    BY <1>2, <2>1, ChoiceChange
  <2>3. m \in chosen[target[a]]
    BY <2>1, <2>2 DEF SeenInv
  <2>4. QED
    BY <2>1, <2>2, <2>3
<1>3. CASE \A b \in Admins : ~AdminStep(b)
  BY <1>3, Idlers DEF SeenInv
<1>4. QED
  BY <1>1, <1>2, <1>3

\* Creates, syncs, choices, deletions, failures and restarts in any order enable no model
\* that no administrator chose and no import named, unless a sync had read the catalogue before the choice.
THEOREM ChoiceKept == Spec => []EnabledByChoice
<1>1. Init => SeenInv /\ EnabledByChoice
  BY DEF Init, SeenInv, EnabledByChoice
<1>2. QED
  BY <1>1, NextSeenInv, NextEnabledByChoice, TypeInvHolds, PTL DEF Spec

-----------------------------------------------------------------------------
(* The search of a request. *)

\* A provider that has served the model since the search began is still on the list.
LookInv ==
  \A r \in Requests :
    /\ pc[r] = "looking" => \A p \in steady[r] : \E s \in Secrets : <<p, s>> \in todo[r]
    /\ pc[r] = "refused" => steady[r] = {}

LEMMA NextLookInv == TypeInv /\ TypeOK' /\ LookInv /\ [Next]_vars => LookInv'
<1> SUFFICES ASSUME TypeInv, TypeOK', LookInv, [Next]_vars, NEW r \in Requests
             PROVE  /\ pc'[r] = "looking" =>
                         \A p \in steady'[r] : \E s \in Secrets : <<p, s>> \in todo'[r]
                    /\ pc'[r] = "refused" => steady'[r] = {}
  BY DEF LookInv
<1> DEFINE Goal == /\ pc'[r] = "looking" =>
                         \A p \in steady'[r] : \E s \in Secrets : <<p, s>> \in todo'[r]
                   /\ pc'[r] = "refused" => steady'[r] = {}
<1>0. LookupTypes /\ TableTypes
  BY TypeParts DEF TypeInv
<1>1. CASE UNCHANGED vars
  BY <1>1 DEF vars, lookup, LookInv
<1>2. CASE Observe
  <2>1. /\ pc'[r] # "looking" => steady'[r] = steady[r]
        /\ pc'[r] = "looking" /\ pc[r] = "idle" => steady'[r] = Serving(model[r])'
        /\ pc'[r] = "looking" /\ pc[r] # "idle" => steady'[r] = steady[r] \cap Serving(model[r])'
    BY <1>2 DEF Observe
  \* A step that leaves r's place and list as they are only takes providers away.
  <2>2. CASE pc'[r] = pc[r] /\ todo'[r] = todo[r]
    BY <2>1, <2>2 DEF LookInv
  <2>3. ASSUME NEW q \in Requests, ListProviders(q) PROVE Goal
    <3>1. CASE q = r
      <4>1. /\ pc'[r] = "looking" /\ pc[r] = "idle"
            /\ todo'[r] = {<<p, row[p].secret>> : p \in {x \in Providers : Active(x)}}
            /\ row' = row /\ catalog' = catalog /\ model' = model
        BY <1>0, <2>3, <3>1 DEF ListProviders, LookupTypes, tables
      <4>2. ASSUME NEW p \in Serving(model[r])'
            PROVE  \E s \in Secrets : <<p, s>> \in todo'[r]
        <5>1. p \in Providers /\ Active(p)
          BY <4>1, <4>2 DEF Serving, Active
        <5>2. row[p].secret \in Secrets
          BY <1>0, <5>1 DEF TableTypes, Active, Row
        <5>3. QED
          BY <4>1, <5>1, <5>2
      <4>3. QED
        BY <2>1, <4>1, <4>2
    <3>2. CASE q # r
      BY <1>0, <2>2, <2>3, <3>2 DEF ListProviders, LookupTypes
    <3>3. QED
      BY <3>1, <3>2
  <2>4. ASSUME NEW q \in Requests, NEW x \in todo[q], LookAt(q, x) PROVE Goal
    <3>1. CASE q # r
      BY <1>0, <2>2, <2>4, <3>1 DEF LookAt, LookupTypes
    <3>2. CASE q = r /\ catalog[x[1]][model[r]] = "enabled"
      <4>1. pc'[r] = "routed"
        BY <1>0, <2>4, <3>2 DEF LookAt, LookupTypes
      <4>2. QED
        BY <4>1
    <3>3. CASE q = r /\ catalog[x[1]][model[r]] # "enabled"
      <4>1. /\ pc[r] = "looking" /\ pc'[r] = "looking"
            /\ todo'[r] = todo[r] \ {x}
            /\ row' = row /\ catalog' = catalog /\ model' = model
        BY <1>0, <2>4, <3>3 DEF LookAt, LookupTypes, tables
      <4>2. x[1] \notin Serving(model[r])'
        BY <3>3, <4>1 DEF Serving
      <4>3. steady'[r] = steady[r] \cap Serving(model[r])'
        BY <2>1, <4>1
      <4>4. ASSUME NEW p \in steady'[r] PROVE \E s \in Secrets : <<p, s>> \in todo'[r]
        <5>1. p # x[1] /\ p \in steady[r]
          BY <4>2, <4>3, <4>4
        <5>2. PICK s \in Secrets : <<p, s>> \in todo[r]
          BY <4>1, <5>1 DEF LookInv
        <5>3. <<p, s>> # x
          BY <5>1
        <5>4. QED
          BY <4>1, <5>2, <5>3
      <4>5. QED
        BY <4>1, <4>4
    <3>4. QED
      BY <3>1, <3>2, <3>3
  <2>5. ASSUME NEW q \in Requests, Refuse(q) PROVE Goal
    <3>1. CASE q # r
      BY <1>0, <2>2, <2>5, <3>1 DEF Refuse, LookupTypes
    <3>2. CASE q = r
      <4>1. pc[r] = "looking" /\ todo[r] = {} /\ pc'[r] = "refused"
        BY <1>0, <2>5, <3>2 DEF Refuse, LookupTypes
      <4>2. steady[r] = {}
        BY <4>1 DEF LookInv
      <4>3. QED
        BY <2>1, <4>1, <4>2
    <3>3. QED
      BY <3>1, <3>2
  <2>6. ASSUME NEW q \in Requests, LookupFails(q) PROVE Goal
    <3>1. CASE q # r
      BY <1>0, <2>2, <2>6, <3>1 DEF LookupFails, LookupTypes
    <3>2. CASE q = r
      BY <1>0, <2>6, <3>2 DEF LookupFails, LookupTypes
    <3>3. QED
      BY <3>1, <3>2
  <2>7. CASE Restart
    <3>1. todo' = todo /\ pc'[r] = IF pc[r] = "looking" THEN "died" ELSE pc[r]
      BY <2>7 DEF Restart
    <3>2. QED
      BY <2>2, <3>1
  <2>8. ASSUME NEW a \in Admins, AdminStep(a) PROVE Goal
    BY <2>2, <2>8, AdminsKeep DEF lookup
  <2>9. QED
    BY <1>2, <2>3, <2>4, <2>5, <2>6, <2>7, <2>8, <1>1 DEF Next, Lookup
<1>3. QED
  BY <1>1, <1>2 DEF Next

\* No interleaving of its search with administrators, syncs and failures makes a request
\* miss a provider that served its model all the time.
THEOREM SearchComplete == Spec => []NeverMissed
<1>1. Init => LookInv
  BY DEF Init, LookInv
<1>2. LookInv => NeverMissed
  BY DEF LookInv, NeverMissed
<1>3. TypeInv /\ [Next]_vars => TypeOK'
  BY NextTypeInv DEF TypeInv
<1>4. QED
  BY <1>1, <1>2, <1>3, NextLookInv, TypeInvHolds, PTL DEF Spec
=============================================================================

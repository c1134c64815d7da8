---------------------------- MODULE StartupProofs ----------------------------
(***************************************************************************)
(* Proofs about Startup, for any SQLite file without equal rows, any       *)
(* number of starts, rows of the proxy, failures and crashes.              *)
(***************************************************************************)
EXTENDS Startup, FiniteSetTheorems, TLAPS

-----------------------------------------------------------------------------
(* The steps, by what they do to the rows. *)

LEMMA Steps ==
  ASSUME [Next]_vars
  PROVE  \/ \E e \in EnvKeys : StartContainer(e)
         \/ RunByHand \/ ToolDies \/ ProxyDies
         \/ SkipTable \/ BeginCopy \/ CopyRow \/ RowRefused \/ FinishCopy \/ FinishTool
         \/ CountFails \/ CopyFails \/ CommitFails \/ ReadBreaks
         \/ CreateUsageTables \/ CreateTables \/ EnsureDefaultPolicies \/ LoadMasterKey
         \/ \E name \in OwnKeys : \E t \in {Usage, Keys} : AddRow(t, name)
         \/ \E name \in OwnKeys : AddProvider(name)
         \/ \E name \in OwnKeys : \E provider \in rows[Providers] : AddModel(name, provider)
         \/ \E e \in Entities : \E action \in {Observe, Block} : ChoosePolicy(e, action)
         \/ UNCHANGED vars
BY DEF Next, Copy, Boot, Serve

LEMMA TheTables ==
  /\ Tables = {Usage, Keys, Providers, Models, Policies}
  /\ DOMAIN Order = 1..5 /\ Len(Order) = 5
  /\ \A i \in DOMAIN Order : Order[i] \in Tables
  /\ \A t \in Tables : \E i \in DOMAIN Order : Order[i] = t
  /\ Models # Providers /\ Policies # Providers /\ Policies # Models
  /\ {Usage, Keys} \cap {Providers, Models, Policies} = {}
BY DEF Tables, Order, Usage, Keys, Providers, Models, Policies

LEMMA NumberedRow ==
  ASSUME NEW t, NEW c, NEW o
  PROVE  /\ Numbered(t, c, o).id = nextId[t]
         /\ Numbered(t, c, o).key = c.key
         /\ Numbered(t, c, o).ref = c.ref
         /\ Numbered(t, c, o).data = c.data
         /\ Numbered(t, c, o).origin = o
BY DEF Numbered

LEMMA PolicyRow ==
  ASSUME NEW e, NEW a, NEW o
  PROVE  /\ Policy(e, a, o).key = e
         /\ Policy(e, a, o).ref = 0
         /\ Policy(e, a, o).data = a
         /\ Policy(e, a, o).origin = o
BY DEF Policy

\* The transaction of the tool becomes visible, whole or cut off.
Committed ==
  /\ tool = "copy" /\ tool' = "check" /\ at' = at + 1 /\ batch' = {}
  /\ rows' = [rows EXCEPT ![Order[at]] = @ \cup batch]
  /\ ~Unread \/ cut' = cut \cup {Order[at]}
  /\ UNCHANGED <<proxy, created, nextId, stored, miscounted, stray, chosen, sealedIn>>

\* The proxy adds a row to a table whose rows are numbered.
Added ==
  /\ proxy = "up"
  /\ \E t \in Tables \ {Policies} : \E c :
       /\ rows' = [rows EXCEPT ![t] = @ \cup {Numbered(t, c, "proxy")}]
       /\ nextId' = [nextId EXCEPT ![t] = @ + 1]
       /\ stray' = stray \cup {t}
       /\ IF t = Providers
          THEN c.data = masterKey /\ sealedIn' = sealedIn \cup {<<nextId[Providers], env>>}
          ELSE UNCHANGED sealedIn
  /\ UNCHANGED <<proxy, env, masterKey, created, stored, tool, byHand, at, batch, miscounted,
                 cut, absent, failed, leftover, chosen>>

\* The proxy sets policies: the missing ones, or the one that is chosen.
Upserted ==
  /\ \/ /\ proxy = "policies" /\ proxy' = "master key"
        /\ Upsert({Policy(e, Observe, "proxy") : e \in Missing})
        /\ UNCHANGED chosen
     \/ /\ proxy = "up" /\ UNCHANGED proxy
        /\ \E e \in Entities : \E action \in {Observe, Block} :
             /\ Upsert({Policy(e, action, "proxy")})
             /\ chosen' = [chosen EXCEPT ![e] = action]
  /\ UNCHANGED <<env, masterKey, created, stored, nextId, tool, byHand, at, batch, miscounted,
                 cut, stray, absent, failed, leftover, sealedIn>>

LEMMA Additions ==
  /\ \A name \in OwnKeys : \A t \in {Usage, Keys} : AddRow(t, name) => Added
  /\ \A name \in OwnKeys : AddProvider(name) => Added
  /\ \A name \in OwnKeys : \A provider \in rows[Providers] : AddModel(name, provider) => Added
<1>1. ASSUME NEW name \in OwnKeys, NEW t \in {Usage, Keys}, AddRow(t, name) PROVE Added
  BY <1>1, TheTables DEF AddRow, Write, Draw, Added, migration
<1>2. ASSUME NEW name \in OwnKeys, AddProvider(name) PROVE Added
  <2> DEFINE c == [key |-> name, ref |-> 0, data |-> masterKey]
  <2>1. c.data = masterKey
    OBVIOUS
  <2>2. QED
    BY <1>2, <2>1, TheTables DEF AddProvider, Write, Draw, Added, migration
<1>3. ASSUME NEW name \in OwnKeys, NEW provider \in rows[Providers], AddModel(name, provider)
      PROVE  Added
  BY <1>3, TheTables DEF AddModel, Write, Draw, Added, migration
<1>4. QED
  BY <1>1, <1>2, <1>3

LEMMA RowsChange ==
  ASSUME [Next]_vars
  PROVE  \/ UNCHANGED <<rows, chosen, sealedIn>>
         \/ Committed \/ Added \/ Upserted
<1>1. CASE FinishCopy \/ CommitFails \/ ReadBreaks
  BY <1>1 DEF FinishCopy, CommitFails, ReadBreaks, Committed, Commit, Failed, NextTable, AtTable,
     bounds, history
<1>2. CASE EnsureDefaultPolicies
  BY <1>2 DEF EnsureDefaultPolicies, Boots, Upserted, migration, history
<1>3. ASSUME NEW e \in Entities, NEW action \in {Observe, Block}, ChoosePolicy(e, action)
      PROVE  Upserted
  BY <1>3 DEF ChoosePolicy, Upserted, migration
<1>4. QED
  BY <1>1, <1>2, <1>3, Steps, Additions
     DEF StartContainer, RunByHand, ToolDies, ProxyDies, SkipTable, BeginCopy, CopyRow,
         RowRefused, FinishTool, CountFails, CopyFails, CreateUsageTables, CreateTables,
         LoadMasterKey, postgres, history, vars

-----------------------------------------------------------------------------
(* Where the tool and the proxy are. *)

Position ==
  /\ rows = [t \in Tables |-> rows[t]]
  /\ nextId \in [Tables -> Nat]
  /\ created \subseteq Tables
  /\ tool \in {"off", "check", "copy"}
  /\ at \in Nat \ {0}

\* While the tool runs, the proxy does not start; a copy is of an existing table.
ToolInv ==
  /\ tool # "off" => proxy \in {"down", "up"}
  /\ tool # "copy" => batch = {}
  /\ tool = "copy" => at \in DOMAIN Order /\ Order[at] \in created /\ Source[Order[at]] # <<>>
  /\ proxy \in {"policies", "master key", "up"} => created = Tables

LEMMA InitTool == Init => Position /\ ToolInv
BY DEF Init, Position, ToolInv

LEMMA RowsStayAFunction ==
  ASSUME Position, [Next]_vars
  PROVE  rows' = [t \in Tables |-> rows'[t]]
<1>1. CASE UNCHANGED rows
  BY <1>1 DEF Position
<1>2. CASE Committed
  BY <1>2 DEF Committed, Position
<1>3. CASE Added
  BY <1>3 DEF Added, Position
<1>4. CASE Upserted
  BY <1>4 DEF Upserted, Upsert, Position
<1>5. QED
  BY <1>1, <1>2, <1>3, <1>4, RowsChange

LEMMA NextPosition ==
  ASSUME Position, [Next]_vars
  PROVE  Position'
<1>1. nextId' \in [Tables -> Nat]
  <2>1. CASE CopyRow \/ RowRefused
    BY <2>1 DEF CopyRow, RowRefused, Draw, Position
  <2>2. CASE Added
    BY <2>2 DEF Added, Position
  <2>3. CASE UNCHANGED nextId
    BY <2>3 DEF Position
  <2>4. QED
    BY <2>1, <2>2, <2>3, Steps, Additions
       DEF StartContainer, RunByHand, ToolDies, ProxyDies, SkipTable, BeginCopy, FinishCopy,
           FinishTool, CountFails, CopyFails, CommitFails, ReadBreaks, CreateUsageTables,
           CreateTables, EnsureDefaultPolicies, LoadMasterKey, ChoosePolicy, postgres, vars
<1>2. created' \subseteq Tables
  BY Steps, TheTables
     DEF StartContainer, RunByHand, ToolDies, ProxyDies, SkipTable, BeginCopy, CopyRow,
         RowRefused, FinishCopy, FinishTool, CountFails, CopyFails, CommitFails, ReadBreaks,
         CreateUsageTables, CreateTables, EnsureDefaultPolicies, LoadMasterKey, AddRow,
         AddProvider, AddModel, Write, ChoosePolicy, postgres, vars, Position
<1>3. tool' \in {"off", "check", "copy"} /\ at' \in Nat \ {0}
  <2>0. /\ tool \in {"off", "check", "copy"}
        /\ at \in Nat \ {0} /\ at + 1 \in Nat \ {0} /\ 1 \in Nat \ {0}
    BY DEF Position
  <2>1. CASE (\E e \in EnvKeys : StartContainer(e)) \/ RunByHand \/ ToolDies \/ ProxyDies
    BY <2>0, <2>1 DEF StartContainer, RunByHand, RunTool, ToolDies, ProxyDies, migration
  <2>2. CASE SkipTable \/ BeginCopy \/ CountFails \/ FinishTool
    BY <2>0, <2>2 DEF SkipTable, BeginCopy, CountFails, FinishTool, Failed, NextTable
  <2>3. CASE CopyRow \/ RowRefused \/ FinishCopy \/ CopyFails \/ CommitFails \/ ReadBreaks
    BY <2>0, <2>3 DEF CopyRow, RowRefused, FinishCopy, CopyFails, CommitFails, ReadBreaks, Failed,
       NextTable
  <2>4. CASE UNCHANGED migration \/ Added
    BY <2>0, <2>4 DEF migration, Added
  <2>5. QED
    BY <2>1, <2>2, <2>3, <2>4, Steps, Additions
       DEF CreateUsageTables, CreateTables, EnsureDefaultPolicies, LoadMasterKey, ChoosePolicy,
           vars
<1>4. QED
  BY <1>1, <1>2, <1>3, RowsStayAFunction DEF Position

LEMMA NextTool ==
  ASSUME Position, ToolInv, [Next]_vars
  PROVE  ToolInv'
<1> USE DEF ToolInv
<1>1. CASE (\E e \in EnvKeys : StartContainer(e)) \/ RunByHand \/ ToolDies \/ ProxyDies
  BY <1>1 DEF StartContainer, RunByHand, RunTool, ToolDies, ProxyDies, postgres, migration
<1>2. CASE SkipTable \/ BeginCopy \/ CountFails
  BY <1>2 DEF SkipTable, BeginCopy, CountFails, Skips, AtTable, Failed, NextTable, postgres
<1>3. CASE CopyRow \/ RowRefused \/ FinishCopy \/ CopyFails \/ CommitFails \/ ReadBreaks
  BY <1>3 DEF CopyRow, RowRefused, FinishCopy, CopyFails, CommitFails, ReadBreaks, AtTable,
     Failed, NextTable, postgres
<1>4. CASE FinishTool
  BY <1>4 DEF FinishTool, postgres
<1>5. CASE CreateUsageTables \/ CreateTables \/ EnsureDefaultPolicies \/ LoadMasterKey
  BY <1>5 DEF CreateUsageTables, CreateTables, EnsureDefaultPolicies, LoadMasterKey, Boots,
     migration, Position
<1>6. CASE Added \/ UNCHANGED vars
  BY <1>6 DEF Added, vars, postgres, migration
<1>7. ASSUME NEW e \in Entities, NEW action \in {Observe, Block}, ChoosePolicy(e, action)
      PROVE  ToolInv'
  BY <1>7 DEF ChoosePolicy, migration
<1>8. QED
  BY <1>1, <1>2, <1>3, <1>4, <1>5, <1>6, <1>7, Steps, Additions

-----------------------------------------------------------------------------
(* The open transaction holds the beginning of its table. *)

Same(x, row) == x.key = row.key /\ x.ref = row.ref

IsBeginning(b, file) ==
  /\ IsFiniteSet(b)
  /\ Cardinality(b) <= Len(file)
  /\ \A x \in b : x.origin = "sqlite" /\ \E i \in 1..Cardinality(b) : Same(x, file[i])
  /\ \A i \in 1..Cardinality(b) : \E x \in b : Same(x, file[i])
  /\ \A x, y \in b : Same(x, y) => x = y

BatchInv == tool = "copy" => IsBeginning(batch, Source[Order[at]])

LEMMA NothingRead == ASSUME NEW file \in Seq(Content) PROVE IsBeginning({}, file)
BY FS_EmptySet DEF IsBeginning

LEMMA OneMoreRead ==
  ASSUME NEW t \in Tables, NEW b, IsBeginning(b, Source[t]), Cardinality(b) < Len(Source[t]),
         NEW x, x.origin = "sqlite", Same(x, Source[t][Cardinality(b) + 1])
  PROVE  /\ IsBeginning(b \cup {x}, Source[t])
         /\ Cardinality(b \cup {x}) = Cardinality(b) + 1
<1> DEFINE file == Source[t]
           k == Cardinality(b)
<1>0. file \in Seq(Content) /\ IsFiniteSet(b) /\ k \in Nat /\ Len(file) \in Nat
  BY SourceAssumption, FS_CardinalityType DEF IsBeginning
<1>1. \A i \in 1..k : ~Same(x, file[i])
  <2> SUFFICES ASSUME NEW i \in 1..k, Same(x, file[i]) PROVE FALSE
    OBVIOUS
  <2>1. i \in DOMAIN file /\ k + 1 \in DOMAIN file
    BY <1>0
  <2>2. file[i].key = file[k + 1].key /\ file[i].ref = file[k + 1].ref
    BY DEF Same
  <2>3. i = k + 1
    BY <2>1, <2>2, SourceAssumption
  <2>4. QED
    BY <2>3, <1>0
<1>2. \A y \in b : ~Same(x, y) /\ ~Same(y, x)
  BY <1>1 DEF IsBeginning, Same
<1>3. x \notin b
  BY <1>2 DEF Same
<1>4. IsFiniteSet(b \cup {x}) /\ Cardinality(b \cup {x}) = k + 1
  BY <1>0, <1>3, FS_AddElement
<1> HIDE DEF file, k
<1>5. \A i \in 1..(k + 1) : i \in 1..k \/ i = k + 1
  BY <1>0
<1>6. 1..k \subseteq 1..(k + 1) /\ k + 1 \in 1..(k + 1)
  BY <1>0
<1>7. \A y \in b \cup {x} : y.origin = "sqlite" /\ \E i \in 1..(k + 1) : Same(y, file[i])
  BY <1>6 DEF IsBeginning, file, k
<1>8. \A i \in 1..(k + 1) : \E y \in b \cup {x} : Same(y, file[i])
  BY <1>5 DEF IsBeginning, file, k
<1>9. \A y, z \in b \cup {x} : Same(y, z) => y = z
  BY <1>2 DEF IsBeginning
<1>10. k + 1 <= Len(file)
  BY <1>0 DEF file, k
<1>11. IsBeginning(b \cup {x}, file)
  BY <1>4, <1>7, <1>8, <1>9, <1>10 DEF IsBeginning
<1>12. QED
  BY <1>4, <1>11 DEF file, k

LEMMA NextBatch ==
  ASSUME Position, ToolInv, BatchInv, [Next]_vars
  PROVE  BatchInv'
<1>0. \A i \in DOMAIN Order : Source[Order[i]] \in Seq(Content)
  BY TheTables, SourceAssumption
<1>1. CASE BeginCopy \/ CountFails
  <2>1. tool' = "copy" => at' = at /\ batch' = batch /\ batch = {} /\ at \in DOMAIN Order
    BY <1>1 DEF BeginCopy, CountFails, AtTable, Failed, NextTable, ToolInv
  <2>2. QED
    BY <2>1, <1>0, NothingRead DEF BatchInv
<1>2. CASE CopyRow
  <2> DEFINE t == Order[at]
             x == Numbered(t, NextRow, "sqlite")
  <2>1. /\ tool = "copy" /\ UNCHANGED <<tool, at>> /\ batch' = batch \cup {x}
        /\ Cardinality(batch) < Len(Source[t])
    BY <1>2 DEF CopyRow, AtTable, Unread
  <2>2. t \in Tables
    BY <2>1, TheTables DEF ToolInv
  <2>3. x.origin = "sqlite" /\ Same(x, Source[t][Cardinality(batch) + 1])
    BY NumberedRow DEF Same, NextRow
  <2>4. IsBeginning(batch, Source[t])
    BY <2>1 DEF BatchInv
  <2> HIDE DEF t, x
  <2>5. IsBeginning(batch \cup {x}, Source[t])
    BY <2>1, <2>2, <2>3, <2>4, OneMoreRead
  <2>6. QED
    BY <2>1, <2>5 DEF BatchInv, t
<1>3. CASE tool' # "copy" \/ UNCHANGED <<tool, at, batch>>
  BY <1>3 DEF BatchInv
<1>4. QED
  BY <1>1, <1>2, <1>3, Steps, Additions
     DEF StartContainer, RunByHand, RunTool, ToolDies, ProxyDies, SkipTable, RowRefused,
         FinishCopy, FinishTool, CopyFails, CommitFails, ReadBreaks, Failed, NextTable,
         CreateUsageTables, CreateTables, EnsureDefaultPolicies, LoadMasterKey, Added,
         ChoosePolicy, migration, vars

\* What all that follows rests on.
Base == Position /\ ToolInv /\ BatchInv

LEMMA InitBase == Init => Base
BY InitTool DEF Init, BatchInv, Base

LEMMA NextBase == ASSUME Base, [Next]_vars PROVE Base'
BY NextPosition, NextTool, NextBatch DEF Base

LEMMA Marked ==
  ASSUME [Next]_vars
  PROVE  miscounted \subseteq miscounted' /\ cut \subseteq cut' /\ stray \subseteq stray'
BY Steps, Additions
   DEF StartContainer, RunByHand, ToolDies, ProxyDies, SkipTable, BeginCopy, CopyRow,
       RowRefused, FinishCopy, FinishTool, CountFails, CopyFails, CommitFails, ReadBreaks,
       CreateUsageTables, CreateTables, EnsureDefaultPolicies, LoadMasterKey, Added,
       ChoosePolicy, history, vars

LEMMA UpsertedRows ==
  ASSUME Upserted
  PROVE  \E new : /\ Upsert(new)
                  /\ \A x \in new : x.origin = "proxy" /\ x.ref = 0
<1>1. CASE proxy = "policies" /\ Upsert({Policy(e, Observe, "proxy") : e \in Missing})
  <2> DEFINE new == {Policy(e, Observe, "proxy") : e \in Missing}
  <2>1. \A x \in new : x.origin = "proxy" /\ x.ref = 0
    BY PolicyRow
  <2>2. QED
    BY <1>1, <2>1
<1>2. ASSUME NEW e \in Entities, NEW action, Upsert({Policy(e, action, "proxy")})
      PROVE  \E new : /\ Upsert(new)
                      /\ \A x \in new : x.origin = "proxy" /\ x.ref = 0
  <2>1. \A x \in {Policy(e, action, "proxy")} : x.origin = "proxy" /\ x.ref = 0
    BY PolicyRow
  <2>2. QED
    BY <1>2, <2>1
<1>3. QED
  BY <1>1, <1>2 DEF Upserted

LEMMA CopiedChange ==
  ASSUME Base, [Next]_vars, NEW t \in Tables
  PROVE  \/ Copied(t)' \subseteq Copied(t)
         \/ Committed /\ t = Order[at] /\ Copied(t)' \subseteq Copied(t) \cup batch
<1>1. CASE UNCHANGED rows
  BY <1>1 DEF Copied
<1>2. CASE Committed
  BY <1>2 DEF Committed, Copied, Base, Position
<1>3. CASE Added
  <2>1. PICK u \in Tables : \E c : rows' = [rows EXCEPT ![u] = @ \cup {Numbered(u, c, "proxy")}]
    BY <1>3 DEF Added
  <2>2. \A c : Numbered(u, c, "proxy").origin = "proxy"
    BY NumberedRow
  <2>3. QED
    BY <2>1, <2>2 DEF Copied, Base, Position
<1>4. CASE Upserted
  <2>1. PICK new : Upsert(new) /\ \A x \in new : x.origin = "proxy"
    BY <1>4, UpsertedRows
  <2>2. QED
    BY <2>1 DEF Upsert, Copied, Base, Position
<1>5. QED
  BY <1>1, <1>2, <1>3, <1>4, RowsChange

-----------------------------------------------------------------------------
(* CopiedOnce: a table is copied while nothing of the file is in it. *)

NothingCopiedYet ==
  tool = "copy" /\ Order[at] \notin miscounted => Copied(Order[at]) = {}

LEMMA NextNothingCopied ==
  ASSUME Base, NothingCopiedYet, [Next]_vars
  PROVE  NothingCopiedYet'
<1> SUFFICES ASSUME tool' = "copy", Order[at'] \notin miscounted'
             PROVE  \A x \in rows'[Order[at']] : x.origin # "sqlite"
  BY DEF NothingCopiedYet, Copied
<1>1. CASE BeginCopy
  BY <1>1 DEF BeginCopy, Skips, postgres
<1>2. CASE CountFails
  BY <1>2 DEF CountFails, Failed, NextTable
<1>3. CASE tool = "copy" /\ UNCHANGED at
  <2> DEFINE t == Order[at]
  <2>1. t \in Tables
    BY <1>3, TheTables DEF Base, ToolInv
  <2>2. Copied(t) = {}
    BY <1>3, Marked DEF NothingCopiedYet
  <2>3. ~Committed
    BY DEF Committed
  <2>4. \A u \in Tables : Copied(u) = {} => \A x \in rows'[u] : x.origin # "sqlite"
    BY <2>3, CopiedChange DEF Copied
  <2>5. QED
    BY <2>1, <2>2, <2>4, <1>3
<1>4. QED
  BY <1>1, <1>2, <1>3, Steps, Additions
     DEF StartContainer, RunByHand, RunTool, ToolDies, ProxyDies, SkipTable, CopyRow, RowRefused,
         FinishCopy, FinishTool, CopyFails, CommitFails, ReadBreaks, Failed, NextTable,
         CreateUsageTables, CreateTables, EnsureDefaultPolicies, LoadMasterKey, Added,
         ChoosePolicy, migration, vars

\* However often the copy is repeated, no row of the SQLite file comes to Postgres twice.
THEOREM NoRowTwice == Spec => []CopiedOnce
<1> DEFINE Inv == Base /\ NothingCopiedYet /\ CopiedOnce
<1>1. Init => Inv
  BY InitBase DEF Init, NothingCopiedYet, CopiedOnce, Copied
<1>2. ASSUME Inv, [Next]_vars PROVE Inv'
  <2>1. Base' /\ NothingCopiedYet'
    BY <1>2, NextBase, NextNothingCopied
  <2>2. CopiedOnce'
    <3> SUFFICES ASSUME NEW t \in Tables \ miscounted', NEW x \in Copied(t)', NEW y \in Copied(t)',
                        x.key = y.key, x.ref = y.ref
                 PROVE  x = y
      BY DEF CopiedOnce
    <3>1. t \in Tables \ miscounted
      BY <1>2, Marked
    <3>2. CASE Copied(t)' \subseteq Copied(t)
      BY <1>2, <3>1, <3>2 DEF CopiedOnce
    <3>3. CASE Committed /\ t = Order[at] /\ Copied(t)' \subseteq Copied(t) \cup batch
      <4>1. x \in batch /\ y \in batch
        BY <1>2, <3>1, <3>3 DEF NothingCopiedYet, Committed
      <4>2. QED
        BY <1>2, <3>3, <4>1 DEF Base, BatchInv, IsBeginning, Committed, Same
    <3>4. QED
      BY <1>2, <3>2, <3>3, CopiedChange
  <2>3. QED
    BY <2>1, <2>2
<1>3. QED
  BY <1>1, <1>2, PTL DEF Spec

-----------------------------------------------------------------------------
(* WholeOrNothing: what is copied stays. *)

PoliciesReferToNothing == \A x \in rows[Policies] : x.ref = 0

\* The open copy of the policies refers to nothing either.
LEMMA BatchOfPolicies ==
  ASSUME Base, tool = "copy", Order[at] = Policies
  PROVE  \A x \in batch : x.ref = 0
<1>1. Source[Policies] \in Seq(Content) /\ Cardinality(batch) \in Nat
  BY TheTables, SourceAssumption, FS_CardinalityType DEF Base, BatchInv, IsBeginning
<1>2. \A i \in 1..Cardinality(batch) : i \in DOMAIN Source[Policies]
  BY <1>1 DEF Base, BatchInv, IsBeginning
<1>3. QED
  BY <1>2, SourceAssumption DEF Base, BatchInv, IsBeginning, Same

LEMMA NextPoliciesRefer ==
  ASSUME Base, PoliciesReferToNothing, [Next]_vars
  PROVE  PoliciesReferToNothing'
<1>1. CASE UNCHANGED rows
  BY <1>1 DEF PoliciesReferToNothing
<1>2. CASE Committed
  BY <1>2, BatchOfPolicies, TheTables DEF Committed, PoliciesReferToNothing, Base, Position, ToolInv
<1>3. CASE Added
  BY <1>3, TheTables DEF Added, PoliciesReferToNothing, Base, Position
<1>4. CASE Upserted
  <2>1. PICK new : Upsert(new) /\ \A x \in new : x.ref = 0
    BY <1>4, UpsertedRows
  <2>2. QED
    BY <2>1, TheTables DEF Upsert, PoliciesReferToNothing, Base, Position
<1>5. QED
  BY <1>1, <1>2, <1>3, <1>4, RowsChange

LEMMA RowsKeepTheirKeys ==
  ASSUME Base, PoliciesReferToNothing, [Next]_vars, NEW t \in Tables, NEW x \in rows[t]
  PROVE  \E y \in rows'[t] : Same(y, x)
<1>0. Same(x, x)
  BY DEF Same
<1>1. CASE UNCHANGED rows \/ Committed \/ Added
  BY <1>0, <1>1 DEF Committed, Added, Base, Position
<1>2. CASE Upserted
  <2>1. PICK new : Upsert(new) /\ \A y \in new : y.ref = 0
    BY <1>2, UpsertedRows
  <2>2. CASE t # Policies \/ \A y \in new : x.key # y.key
    BY <1>0, <2>1, <2>2 DEF Upsert, Base, Position
  <2>3. CASE t = Policies /\ \E y \in new : x.key = y.key
    BY <2>1, <2>3 DEF Upsert, Base, Position, PoliciesReferToNothing, Same
  <2>4. QED
    BY <2>2, <2>3
<1>3. QED
  BY <1>1, <1>2, RowsChange

\* A table holds all rows of the file or none of them, unless reading them broke off.
THEOREM AllOrNone == Spec => []WholeOrNothing
<1> DEFINE Inv == Base /\ PoliciesReferToNothing /\ WholeOrNothing
<1>1. Init => Inv
  BY InitBase, TheTables DEF Init, PoliciesReferToNothing, WholeOrNothing, Copied
<1>2. ASSUME Inv, [Next]_vars PROVE Inv'
  <2>1. Base' /\ PoliciesReferToNothing'
    BY <1>2, NextBase, NextPoliciesRefer
  <2>2. WholeOrNothing'
    <3> SUFFICES ASSUME NEW t \in Tables \ cut', Copied(t)' # {}, NEW i \in DOMAIN Source[t]
                 PROVE  \E y \in rows'[t] : Same(y, Source[t][i])
      BY DEF WholeOrNothing, Same
    <3>1. t \in Tables \ cut
      BY <1>2, Marked
    <3>2. CASE Copied(t) # {}
      <4>1. PICK x \in rows[t] : Same(x, Source[t][i])
        BY <1>2, <3>1, <3>2 DEF WholeOrNothing, Same
      <4>2. QED
        BY <1>2, <4>1, RowsKeepTheirKeys DEF Same
    <3>3. CASE Copied(t) = {}
      <4>1. Committed /\ t = Order[at]
        BY <1>2, <3>3, CopiedChange
      <4>2. ~Unread /\ tool = "copy" /\ rows'[t] = rows[t] \cup batch
        BY <1>2, <4>1 DEF Committed, Base, Position
      <4>3. IsBeginning(batch, Source[t])
        BY <1>2, <4>1, <4>2 DEF Base, BatchInv
      <4>4. Source[t] \in Seq(Content) /\ Cardinality(batch) \in Nat
        BY <4>3, SourceAssumption, FS_CardinalityType DEF IsBeginning
      <4>5. i \in 1..Cardinality(batch)
        BY <4>1, <4>2, <4>3, <4>4 DEF Unread, IsBeginning
      <4>6. QED
        BY <4>2, <4>3, <4>5 DEF IsBeginning
    <3>4. QED
      BY <3>2, <3>3
  <2>3. QED
    BY <2>1, <2>2
<1>3. QED
  BY <1>1, <1>2, PTL DEF Spec

-----------------------------------------------------------------------------
(* PoliciesKept: no step takes a policy away, and the tool has none to add   *)
(* where one is.                                                             *)

HasPolicy(e) == \E x \in rows[Policies] : x.key = e

PolicyInv ==
  /\ proxy \in {"master key", "up"} => \A e \in Entities : HasPolicy(e)
  /\ tool = "copy" /\ Order[at] = Policies =>
       \A x \in batch, y \in rows[Policies] : x.key # y.key
  /\ chosen = [e \in Entities |-> chosen[e]]
  /\ \A e \in Entities : chosen[e] # NoKey =>
       HasPolicy(e) /\ \A x \in rows[Policies] : x.key = e => x.data = chosen[e]

LEMMA PoliciesStay ==
  ASSUME Base, PoliciesReferToNothing, [Next]_vars, NEW e, HasPolicy(e)
  PROVE  HasPolicy(e)'
BY RowsKeepTheirKeys, TheTables DEF HasPolicy, Same

LEMMA BatchHasNewPolicies ==
  ASSUME Base, PoliciesReferToNothing, PolicyInv, [Next]_vars,
         tool' = "copy", Order[at'] = Policies
  PROVE  \A x \in batch', y \in rows'[Policies] : x.key # y.key
<1>1. CASE BeginCopy \/ CountFails
  BY <1>1 DEF BeginCopy, CountFails, Failed, NextTable, AtTable, Base, ToolInv
<1>2. CASE CopyRow
  <2>1. tool = "copy" /\ at' = at /\ Order[at] = Policies /\ UNCHANGED rows
    BY <1>2 DEF CopyRow, AtTable
  <2>2. /\ batch' = batch \cup {Numbered(Policies, NextRow, "sqlite")}
        /\ \A x \in rows[Policies] : x.key # NextRow.key \/ x.ref # NextRow.ref
    BY <1>2, <2>1 DEF CopyRow, Accepts, Constrained
  <2>3. NextRow.ref = 0
    <3>1. Source[Policies] \in Seq(Content) /\ Cardinality(batch) \in Nat
      BY <2>1, TheTables, SourceAssumption, FS_CardinalityType DEF Base, BatchInv, IsBeginning
    <3>2. Cardinality(batch) + 1 \in DOMAIN Source[Policies]
      BY <1>2, <2>1, <3>1 DEF CopyRow, Unread
    <3>3. QED
      BY <2>1, <3>2, SourceAssumption DEF NextRow
  <2>4. \A x \in rows[Policies] : x.key # NextRow.key
    BY <2>2, <2>3 DEF PoliciesReferToNothing
  <2>5. Numbered(Policies, NextRow, "sqlite").key = NextRow.key
    BY NumberedRow
  <2>6. QED
    BY <2>1, <2>2, <2>4, <2>5 DEF PolicyInv
<1>3. CASE Upserted
  <2>1. tool = "copy" /\ Order[at] = Policies /\ UNCHANGED batch
    BY <1>3 DEF Upserted
  <2>2. proxy = "up"
    BY <1>3, <2>1 DEF Upserted, Base, ToolInv
  <2>3. PICK e \in Entities, action \in {Observe, Block} : Upsert({Policy(e, action, "proxy")})
    BY <1>3, <2>2 DEF Upserted
  <2>4. HasPolicy(e) /\ Policy(e, action, "proxy").key = e
    BY <2>2, PolicyRow DEF PolicyInv
  <2>5. \A y \in rows'[Policies] : \E z \in rows[Policies] : z.key = y.key
    BY <2>3, <2>4, TheTables DEF Upsert, HasPolicy, Base, Position
  <2>6. \A x \in batch, y \in rows[Policies] : x.key # y.key
    BY <2>1 DEF PolicyInv
  <2>7. QED
    BY <2>1, <2>5, <2>6
<1>4. CASE Added
  BY <1>4, TheTables DEF Added, PolicyInv, Base, Position
<1>5. CASE UNCHANGED <<tool, at, batch, rows>>
  BY <1>5 DEF PolicyInv
<1>6. QED
  BY <1>1, <1>2, <1>3, <1>4, <1>5, Steps, Additions, RowsChange
     DEF StartContainer, RunByHand, RunTool, ToolDies, ProxyDies, SkipTable, RowRefused,
         FinishCopy, FinishTool, CopyFails, CommitFails, ReadBreaks, Failed, NextTable,
         CreateUsageTables, CreateTables, EnsureDefaultPolicies, LoadMasterKey, Committed,
         ChoosePolicy, migration, postgres, vars

LEMMA ChosenStays ==
  ASSUME Base, PoliciesReferToNothing, PolicyInv, [Next]_vars,
         NEW e \in Entities, chosen'[e] # NoKey
  PROVE  HasPolicy(e)' /\ \A x \in rows'[Policies] : x.key = e => x.data = chosen'[e]
<1>1. CASE UNCHANGED <<rows, chosen>>
  BY <1>1 DEF PolicyInv, HasPolicy
<1>2. CASE Committed
  <2>1. UNCHANGED chosen /\ HasPolicy(e)
    BY <1>2 DEF Committed, PolicyInv
  <2>2. HasPolicy(e)'
    BY <2>1, PoliciesStay
  <2>3. \A x \in rows[Policies] : x.key = e => x.data = chosen[e]
    BY <2>1 DEF PolicyInv, Committed
  <2>4. CASE Order[at] = Policies
    <3>1. rows'[Policies] = rows[Policies] \cup batch
      BY <1>2, <2>4, TheTables DEF Committed, Base, Position
    <3>2. \A x \in batch, y \in rows[Policies] : x.key # y.key
      BY <1>2, <2>4 DEF Committed, PolicyInv
    <3>3. \A x \in batch : x.key # e
      BY <2>1, <3>2 DEF HasPolicy
    <3>4. QED
      BY <2>1, <2>2, <2>3, <3>1, <3>3
  <2>5. CASE Order[at] # Policies
    BY <1>2, <2>1, <2>2, <2>3, <2>5, TheTables DEF Committed, Base, Position
  <2>6. QED
    BY <2>4, <2>5
<1>3. CASE Added
  BY <1>3, TheTables DEF Added, PolicyInv, HasPolicy, Base, Position
<1>4. CASE Upserted /\ proxy = "policies"
  <2>1. Upsert({Policy(x, Observe, "proxy") : x \in Missing}) /\ UNCHANGED chosen
    BY <1>4 DEF Upserted
  <2>2. HasPolicy(e) /\ e \notin Missing
    BY <2>1 DEF PolicyInv, HasPolicy, Missing
  <2>3. HasPolicy(e)'
    BY <2>2, PoliciesStay
  <2>4. \A x \in {Policy(y, Observe, "proxy") : y \in Missing} : x.key # e
    BY <2>2, PolicyRow
  <2>5. QED
    BY <2>1, <2>3, <2>4, TheTables DEF Upsert, PolicyInv, Base, Position
<1>5. CASE Upserted /\ proxy = "up"
  <2>1. PICK f \in Entities, action \in {Observe, Block} :
               /\ Upsert({Policy(f, action, "proxy")})
               /\ chosen' = [chosen EXCEPT ![f] = action]
    BY <1>5 DEF Upserted
  <2> DEFINE new == Policy(f, action, "proxy")
  <2>2. new.key = f /\ new.data = action
    BY PolicyRow
  <2> HIDE DEF new
  <2>3. rows'[Policies] = {x \in rows[Policies] : x.key # f} \cup {new}
    BY <2>1, <2>2, TheTables DEF Upsert, Base, Position, new
  <2>4. CASE e = f
    BY <2>1, <2>2, <2>3, <2>4 DEF PolicyInv, HasPolicy
  <2>5. CASE e # f
    BY <2>1, <2>2, <2>3, <2>5 DEF PolicyInv, HasPolicy
  <2>6. QED
    BY <2>4, <2>5
<1>6. QED
  BY <1>1, <1>2, <1>3, <1>4, <1>5, RowsChange DEF Upserted

\* Every type of PII has a policy while the proxy serves, and a chosen one stays.
THEOREM PoliciesStayChosen == Spec => []PoliciesKept
<1> DEFINE Inv == Base /\ PoliciesReferToNothing /\ PolicyInv
<1>1. Init => Inv
  BY InitBase, TheTables DEF Init, PoliciesReferToNothing, PolicyInv, HasPolicy
<1>2. ASSUME Inv, [Next]_vars PROVE Inv'
  <2>1. Base' /\ PoliciesReferToNothing'
    BY <1>2, NextBase, NextPoliciesRefer
  <2>2. proxy' \in {"master key", "up"} => \A e \in Entities : HasPolicy(e)'
    <3>1. CASE EnsureDefaultPolicies
      <4> DEFINE new == {Policy(e, Observe, "proxy") : e \in Missing}
      <4>1. rows'[Policies] = {x \in rows[Policies] : \A y \in new : x.key # y.key} \cup new
        BY <1>2, <3>1, TheTables DEF EnsureDefaultPolicies, Upsert, Base, Position
      <4>2. \A e \in Missing : Policy(e, Observe, "proxy") \in new /\ Policy(e, Observe, "proxy").key = e
        BY PolicyRow
      <4>3. ASSUME NEW e \in Entities PROVE HasPolicy(e)'
        <5>1. CASE e \in Missing
          BY <4>1, <4>2, <5>1 DEF HasPolicy
        <5>2. CASE e \notin Missing
          BY <1>2, <5>2, PoliciesStay DEF Missing, HasPolicy
        <5>3. QED
          BY <5>1, <5>2
      <4>4. QED
        BY <4>3
    <3>2. CASE proxy \in {"master key", "up"}
      BY <1>2, <3>2, PoliciesStay DEF PolicyInv
    <3>3. QED
      BY <1>2, <3>1, <3>2, Steps, Additions
         DEF StartContainer, RunByHand, ToolDies, ProxyDies, SkipTable, BeginCopy, CopyRow,
             RowRefused, FinishCopy, FinishTool, CountFails, CopyFails, CommitFails, ReadBreaks,
             CreateUsageTables, CreateTables, LoadMasterKey, Boots, Added, ChoosePolicy, vars
  <2>3. chosen' = [e \in Entities |-> chosen'[e]]
    <3>1. CASE UNCHANGED chosen
      BY <1>2, <3>1 DEF PolicyInv
    <3>2. QED
      BY <1>2, <3>1, RowsChange DEF Committed, Added, Upserted, PolicyInv
  <2>4. QED
    BY <1>2, <2>1, <2>2, <2>3, BatchHasNewPolicies, ChosenStays DEF PolicyInv
<1>3. Inv => PoliciesKept
  <2> SUFFICES ASSUME Inv PROVE PoliciesKept
    OBVIOUS
  <2>1. proxy = "up" => \A e \in Entities : \E x \in rows[Policies] : x.key = e
    BY DEF PolicyInv, HasPolicy
  <2>2. ASSUME NEW e \in Entities, chosen[e] # NoKey
        PROVE  {x.data : x \in {y \in rows[Policies] : y.key = e}} = {chosen[e]}
    <3>1. (\E x \in rows[Policies] : x.key = e)
          /\ \A x \in rows[Policies] : x.key = e => x.data = chosen[e]
      BY <2>2 DEF PolicyInv, HasPolicy
    <3>2. QED
      BY <3>1
  <2>3. QED
    BY <2>1, <2>2 DEF PoliciesKept
<1>4. QED
  BY <1>1, <1>2, <1>3, PTL DEF Spec

-----------------------------------------------------------------------------
(* SecretsReadable: a number names one provider, and a stored master key is  *)
(* never replaced.                                                           *)

KeyUnder(e) == IF e # NoKey THEN e ELSE stored

SecretInv ==
  /\ proxy = "up" => masterKey = KeyUnder(env) /\ (env = NoKey => stored # NoKey)
  /\ \A x \in rows[Providers] : x.id \in Nat /\ x.id < nextId[Providers]
  /\ \A n, e : <<n, e>> \in sealedIn => n \in Nat /\ n < nextId[Providers]
  /\ tool = "copy" /\ Order[at] = Providers =>
       \A x \in batch : /\ x.id \in Nat /\ x.id < nextId[Providers]
                       /\ \A e : <<x.id, e>> \notin sealedIn
  /\ \A x \in rows[Providers] : \A e : <<x.id, e>> \in sealedIn =>
       x.data = KeyUnder(e) /\ (e = NoKey => stored # NoKey)

LEMMA MasterKeyStays ==
  ASSUME [Next]_vars, stored # NoKey
  PROVE  stored' = stored
BY Steps, Additions
   DEF StartContainer, RunByHand, ToolDies, ProxyDies, SkipTable, BeginCopy, CopyRow, RowRefused,
       FinishCopy, FinishTool, CountFails, CopyFails, CommitFails, ReadBreaks,
       CreateUsageTables, CreateTables, EnsureDefaultPolicies, LoadMasterKey, MasterKey,
       Added, ChoosePolicy, postgres, vars

LEMMA MasterKeyLoaded ==
  ASSUME SecretInv, [Next]_vars
  PROVE  proxy' = "up" => masterKey' = KeyUnder(env)' /\ (env' = NoKey => stored' # NoKey)
<1>1. CASE LoadMasterKey
  <2>1. Generated(starts) # NoKey
    BY DEF Generated, NoKey
  <2>2. QED
    BY <1>1, <2>1 DEF LoadMasterKey, MasterKey, KeyUnder
<1>2. CASE proxy = "up" /\ UNCHANGED <<env, masterKey>>
  BY <1>2, MasterKeyStays DEF SecretInv, KeyUnder
<1>3. QED
  BY <1>1, <1>2, Steps, Additions
     DEF StartContainer, RunByHand, ToolDies, ProxyDies, SkipTable, BeginCopy, CopyRow,
         RowRefused, FinishCopy, FinishTool, CountFails, CopyFails, CommitFails, ReadBreaks,
         CreateUsageTables, CreateTables, EnsureDefaultPolicies, Boots, Added, ChoosePolicy,
         vars

LEMMA NumbersGrow ==
  ASSUME Base, [Next]_vars
  PROVE  nextId[Providers] \in Nat /\ nextId'[Providers] \in Nat
         /\ nextId[Providers] <= nextId'[Providers]
<1>0. nextId \in [Tables -> Nat] /\ Providers \in Tables
  BY TheTables DEF Base, Position
<1>1. CASE CopyRow \/ RowRefused
  BY <1>0, <1>1 DEF CopyRow, RowRefused, Draw
<1>2. CASE Added
  BY <1>0, <1>2 DEF Added
<1>3. CASE UNCHANGED nextId
  BY <1>0, <1>3
<1>4. QED
  BY <1>1, <1>2, <1>3, Steps, Additions
     DEF StartContainer, RunByHand, ToolDies, ProxyDies, SkipTable, BeginCopy, FinishCopy,
         FinishTool, CountFails, CopyFails, CommitFails, ReadBreaks, CreateUsageTables,
         CreateTables, EnsureDefaultPolicies, LoadMasterKey, ChoosePolicy, postgres, vars

\* What a step of the tool leaves in its transaction.
LEMMA BatchChange ==
  ASSUME Base, [Next]_vars, tool' = "copy"
  PROVE  \/ batch' = {}
         \/ CopyRow
         \/ UNCHANGED <<tool, at, batch>>
BY Steps, Additions
   DEF StartContainer, RunByHand, RunTool, ToolDies, ProxyDies, SkipTable, BeginCopy, CopyRow,
       RowRefused, FinishCopy, FinishTool, CountFails, CopyFails, CommitFails, ReadBreaks,
       AtTable, Failed, NextTable, CreateUsageTables, CreateTables, EnsureDefaultPolicies,
       LoadMasterKey, Added, ChoosePolicy, migration, vars, Base, ToolInv

LEMMA ProviderRowChange ==
  ASSUME Base, [Next]_vars, NEW x \in rows'[Providers]
  PROVE  \/ x \in rows[Providers]
         \/ Committed /\ Order[at] = Providers /\ x \in batch
         \/ Added /\ \E c : x = Numbered(Providers, c, "proxy") /\ c.data = masterKey
<1>0. Providers \in Tables
  BY TheTables
<1>1. CASE UNCHANGED rows
  BY <1>1
<1>2. CASE Committed
  BY <1>0, <1>2 DEF Committed, Base, Position
<1>3. CASE Added
  <2>1. PICK t \in Tables \ {Policies} : \E c :
               /\ rows' = [rows EXCEPT ![t] = @ \cup {Numbered(t, c, "proxy")}]
               /\ t = Providers => c.data = masterKey
    BY <1>3 DEF Added
  <2>2. QED
    BY <1>0, <1>3, <2>1 DEF Base, Position
<1>4. CASE Upserted
  BY <1>0, <1>4, UpsertedRows, TheTables DEF Upsert, Base, Position
<1>5. QED
  BY <1>1, <1>2, <1>3, <1>4, RowsChange

LEMMA SealedChange ==
  ASSUME Base, [Next]_vars, NEW n, NEW e, <<n, e>> \in sealedIn'
  PROVE  \/ <<n, e>> \in sealedIn
         \/ /\ Added /\ n = nextId[Providers] /\ e = env
            /\ nextId'[Providers] = nextId[Providers] + 1
<1>1. CASE Added
  <2>1. PICK t \in Tables : /\ nextId' = [nextId EXCEPT ![t] = @ + 1]
                            /\ IF t = Providers
                               THEN sealedIn' = sealedIn \cup {<<nextId[Providers], env>>}
                               ELSE UNCHANGED sealedIn
    BY <1>1 DEF Added
  <2>2. CASE t = Providers
    BY <1>1, <2>1, <2>2 DEF Base, Position
  <2>3. CASE t # Providers
    BY <2>1, <2>3
  <2>4. QED
    BY <2>2, <2>3
<1>2. QED
  BY <1>1, RowsChange DEF Committed, Upserted

LEMMA AddedProvider ==
  ASSUME Base, [Next]_vars, Added, NEW c, Numbered(Providers, c, "proxy") \in rows'[Providers],
         Numbered(Providers, c, "proxy") \notin rows[Providers]
  PROVE  nextId'[Providers] = nextId[Providers] + 1
<1>1. PICK t \in Tables :
             /\ nextId' = [nextId EXCEPT ![t] = @ + 1]
             /\ \E d : rows' = [rows EXCEPT ![t] = @ \cup {Numbered(t, d, "proxy")}]
  BY DEF Added
<1>2. t = Providers
  BY <1>1, TheTables DEF Base, Position
<1>3. QED
  BY <1>1, <1>2 DEF Base, Position

LEMMA NextSecret ==
  ASSUME Base, SecretInv, [Next]_vars
  PROVE  SecretInv'
<1> DEFINE n0 == nextId[Providers]
           n1 == nextId'[Providers]
<1>0. n0 \in Nat /\ n1 \in Nat /\ n0 <= n1
  BY NumbersGrow
<1>1. ASSUME NEW n, NEW e, <<n, e>> \in sealedIn' PROVE n \in Nat /\ n < n1
  <2>1. CASE <<n, e>> \in sealedIn
    BY <1>0, <2>1 DEF SecretInv
  <2>2. QED
    BY <1>0, <1>1, <2>1, SealedChange
<1>2. ASSUME NEW x \in rows'[Providers] PROVE x.id \in Nat /\ x.id < n1
  <2>1. CASE x \in rows[Providers]
    BY <1>0, <2>1 DEF SecretInv
  <2>2. CASE Committed /\ Order[at] = Providers /\ x \in batch
    BY <1>0, <2>2 DEF SecretInv, Committed
  <2>3. ASSUME x \notin rows[Providers], Added, NEW c, x = Numbered(Providers, c, "proxy")
        PROVE  x.id = n0 /\ n1 = n0 + 1
    BY <2>3, AddedProvider, NumberedRow
  <2>4. QED
    BY <1>0, <2>1, <2>2, <2>3, ProviderRowChange
<1>3. ASSUME tool' = "copy", Order[at'] = Providers, NEW x \in batch'
      PROVE  x.id \in Nat /\ x.id < n1 /\ \A e : <<x.id, e>> \notin sealedIn'
  <2>1. CASE CopyRow
    <3>1. /\ tool = "copy" /\ Order[at] = Providers /\ sealedIn' = sealedIn
          /\ batch' = batch \cup {Numbered(Providers, NextRow, "sqlite")} /\ n1 = n0 + 1
      BY <1>3, <2>1, TheTables DEF CopyRow, AtTable, Draw, history, Base, Position
    <3>2. Numbered(Providers, NextRow, "sqlite").id = n0
      BY NumberedRow
    <3>3. \A e : <<n0, e>> \notin sealedIn
      BY <1>0 DEF SecretInv
    <3>4. QED
      BY <1>0, <1>3, <3>1, <3>2, <3>3 DEF SecretInv
  <2>2. CASE UNCHANGED <<tool, at, batch>>
    <3>1. x.id \in Nat /\ x.id < n0 /\ \A e : <<x.id, e>> \notin sealedIn
      BY <1>3, <2>2 DEF SecretInv
    <3>2. QED
      BY <1>0, <3>1, SealedChange
  <2>3. QED
    BY <1>3, <2>1, <2>2, BatchChange
<1>4. ASSUME NEW x \in rows'[Providers], NEW e, <<x.id, e>> \in sealedIn'
      PROVE  x.data = KeyUnder(e)' /\ (e = NoKey => stored' # NoKey)
  <2>1. CASE x \in rows[Providers]
    <3>1. <<x.id, e>> \in sealedIn
      BY <1>0, <1>4, <2>1, SealedChange DEF SecretInv
    <3>2. x.data = KeyUnder(e) /\ (e = NoKey => stored # NoKey)
      BY <2>1, <3>1 DEF SecretInv
    <3>3. QED
      BY <3>2, MasterKeyStays DEF KeyUnder
  <2>2. CASE Committed /\ Order[at] = Providers /\ x \in batch
    BY <1>4, <2>2 DEF SecretInv, Committed
  <2>3. ASSUME x \notin rows[Providers], Added, NEW c, x = Numbered(Providers, c, "proxy"),
               c.data = masterKey
        PROVE  x.data = KeyUnder(e)' /\ (e = NoKey => stored' # NoKey)
    <3>1. x.id = n0 /\ x.data = masterKey
      BY <2>3, NumberedRow
    <3>2. <<x.id, e>> \notin sealedIn
      BY <1>0, <3>1 DEF SecretInv
    <3>3. e = env
      BY <1>4, <3>2, SealedChange
    <3>4. proxy = "up" /\ stored' = stored
      BY <2>3 DEF Added
    <3>5. QED
      BY <3>1, <3>3, <3>4 DEF SecretInv, KeyUnder
  <2>4. QED
    BY <2>1, <2>2, <2>3, ProviderRowChange
<1> HIDE DEF n0, n1
<1>5. QED
  BY <1>1, <1>2, <1>3, <1>4, MasterKeyLoaded DEF SecretInv, n1

\* A secret can be read by every start with the setting it was saved under.
THEOREM SecretsStayReadable == Spec => []SecretsReadable
<1> DEFINE Inv == Base /\ SecretInv
<1>1. Init => Inv
  BY InitBase, TheTables DEF Init, SecretInv
<1>2. ASSUME Inv, [Next]_vars PROVE Inv'
  BY <1>2, NextBase, NextSecret
<1>3. Inv => SecretsReadable
  BY DEF SecretInv, SecretsReadable
<1>4. QED
  BY <1>1, <1>2, <1>3, PTL DEF Spec

-----------------------------------------------------------------------------
(* ModelsFollowProviders: as long as one copy alone has drawn numbers for    *)
(* providers, a provider has the number of its place in the file.            *)

Clean == Providers \notin stray \cup miscounted

InItsPlace(x) == x.origin = "sqlite" /\ x.key = Source[Providers][x.id].key

CopyingProviders == tool = "copy" /\ Order[at] = Providers

PlaceInv ==
  /\ \A x \in rows[Providers] : InItsPlace(x)
  /\ CopyingProviders =>
       /\ rows[Providers] = {} /\ nextId[Providers] = Cardinality(batch) + 1
       /\ \A x \in batch : InItsPlace(x)
  /\ ~CopyingProviders /\ rows[Providers] = {} => nextId[Providers] = 1

LEMMA CopyProviderInPlace ==
  ASSUME Base, PlaceInv, CopyRow, CopyingProviders
  PROVE  PlaceInv'
<1> DEFINE x == Numbered(Providers, NextRow, "sqlite")
<1>0. Providers \in Tables
  BY TheTables
<1>1. /\ UNCHANGED <<rows, tool, at>> /\ batch' = batch \cup {x}
      /\ Cardinality(batch) < Len(Source[Providers])
      /\ nextId'[Providers] = nextId[Providers] + 1
  BY <1>0 DEF CopyRow, Unread, Draw, CopyingProviders, Base, Position
<1>2. /\ x.id = nextId[Providers] /\ x.key = NextRow.key /\ x.origin = "sqlite"
      /\ Same(x, NextRow)
  BY NumberedRow DEF Same
<1>3. NextRow = Source[Providers][Cardinality(batch) + 1]
  BY DEF NextRow, CopyingProviders
<1>4. InItsPlace(x)
  BY <1>2, <1>3 DEF PlaceInv, InItsPlace
<1> HIDE DEF x
<1>5. Cardinality(batch') = Cardinality(batch) + 1
  BY <1>0, <1>1, <1>2, <1>3, OneMoreRead DEF Base, BatchInv, CopyingProviders
<1>6. QED
  BY <1>1, <1>4, <1>5 DEF PlaceInv, CopyingProviders, InItsPlace

LEMMA ProvidersStayInPlace ==
  ASSUME Base, PlaceInv, UNCHANGED <<rows[Providers], nextId[Providers]>>,
         CopyingProviders <=> CopyingProviders', CopyingProviders => batch' = batch
  PROVE  PlaceInv'
BY DEF PlaceInv, InItsPlace

LEMMA NextPlace ==
  ASSUME Base, Clean => PlaceInv, [Next]_vars, Clean'
  PROVE  PlaceInv'
<1>0. Clean /\ PlaceInv /\ Providers \in Tables
  BY Marked, TheTables DEF Clean
<1>1. CASE Committed
  <2>1. UNCHANGED nextId /\ ~CopyingProviders'
    BY <1>1 DEF Committed, CopyingProviders
  <2>2. CASE CopyingProviders
    <3>1. rows'[Providers] = batch
      BY <1>0, <1>1, <2>2 DEF Committed, CopyingProviders, PlaceInv, Base, Position
    <3>2. batch = {} => nextId[Providers] = 1
      BY <1>0, <2>2, FS_EmptySet DEF PlaceInv
    <3>3. QED
      BY <1>0, <2>1, <2>2, <3>1, <3>2 DEF PlaceInv, InItsPlace
  <2>3. CASE ~CopyingProviders
    <3>1. UNCHANGED rows[Providers]
      BY <1>0, <1>1, <2>3 DEF Committed, CopyingProviders, Base, Position
    <3>2. QED
      BY <1>0, <2>1, <2>3, <3>1, ProvidersStayInPlace
  <2>4. QED
    BY <2>2, <2>3
<1>2. CASE Added
  <2>1. UNCHANGED <<rows[Providers], nextId[Providers]>>
    BY <1>0, <1>2 DEF Added, Clean, Base, Position
  <2>2. (CopyingProviders <=> CopyingProviders') /\ batch' = batch
    BY <1>2 DEF Added, CopyingProviders
  <2>3. QED
    BY <1>0, <2>1, <2>2, ProvidersStayInPlace
<1>3. CASE Upserted
  <2>1. UNCHANGED <<rows[Providers], nextId>>
    BY <1>0, <1>3, UpsertedRows, TheTables DEF Upserted, Upsert, Base, Position
  <2>2. (CopyingProviders <=> CopyingProviders') /\ batch' = batch
    BY <1>3 DEF Upserted, CopyingProviders
  <2>3. QED
    BY <1>0, <2>1, <2>2, ProvidersStayInPlace
<1>4. CASE BeginCopy
  <2>1. ~CopyingProviders /\ UNCHANGED <<rows, nextId, at, batch>> /\ batch = {}
        /\ rows[Order[at]] = {}
    BY <1>4 DEF BeginCopy, AtTable, Skips, CopyingProviders, postgres, Base, ToolInv
  <2>2. CASE CopyingProviders'
    <3>1. rows[Providers] = {} /\ Cardinality(batch) = 0 /\ nextId[Providers] = 1
      BY <1>0, <2>1, <2>2, FS_EmptySet DEF CopyingProviders, PlaceInv
    <3>2. QED
      BY <2>1, <2>2, <3>1 DEF PlaceInv
  <2>3. CASE ~CopyingProviders'
    BY <1>0, <2>1, <2>3, ProvidersStayInPlace
  <2>4. QED
    BY <2>2, <2>3
<1>5. CASE CountFails
  <2>1. ~CopyingProviders /\ UNCHANGED <<rows, nextId>> /\ ~CopyingProviders'
    BY <1>5 DEF CountFails, AtTable, Failed, NextTable, CopyingProviders, postgres, Clean
  <2>2. QED
    BY <1>0, <2>1, ProvidersStayInPlace
<1>6. CASE CopyRow
  <2>1. CASE CopyingProviders
    BY <1>0, <1>6, <2>1, CopyProviderInPlace
  <2>2. CASE ~CopyingProviders
    <3>1. UNCHANGED <<rows, nextId[Providers]>> /\ ~CopyingProviders'
      BY <1>0, <1>6, <2>2 DEF CopyRow, AtTable, Draw, CopyingProviders, Base, Position
    <3>2. QED
      BY <1>0, <2>2, <3>1, ProvidersStayInPlace
  <2>3. QED
    BY <2>1, <2>2
<1>7. CASE RowRefused
  <2>1. ~CopyingProviders /\ UNCHANGED <<rows, nextId[Providers]>> /\ ~CopyingProviders'
    BY <1>0, <1>7 DEF RowRefused, AtTable, Draw, Failed, NextTable, CopyingProviders, Clean,
       Base, Position
  <2>2. QED
    BY <1>0, <2>1, ProvidersStayInPlace
<1>8. CASE CopyFails \/ ToolDies
  <2>1. UNCHANGED <<rows, nextId>> /\ ~CopyingProviders'
    BY <1>8 DEF CopyFails, ToolDies, Failed, NextTable, CopyingProviders, postgres
  <2>2. CASE CopyingProviders
    <3>1. batch = {}
      BY <1>8, <2>2 DEF CopyFails, ToolDies, CopyingProviders, Clean
    <3>2. nextId[Providers] = 1
      BY <1>0, <2>2, <3>1, FS_EmptySet DEF PlaceInv
    <3>3. QED
      BY <1>0, <2>1, <3>2 DEF PlaceInv, InItsPlace
  <2>3. CASE ~CopyingProviders
    BY <1>0, <2>1, <2>3, ProvidersStayInPlace
  <2>4. QED
    BY <2>2, <2>3
<1>9. CASE UNCHANGED <<rows, nextId>> /\ ~CopyingProviders /\ ~CopyingProviders'
  BY <1>0, <1>9, ProvidersStayInPlace
<1>10. CASE UNCHANGED <<rows, nextId, tool, at, batch>>
  BY <1>0, <1>10, ProvidersStayInPlace DEF CopyingProviders
<1>11. CASE FinishCopy \/ ReadBreaks \/ CommitFails
  <2>1. CASE Committed
    BY <1>1, <2>1
  <2>2. CASE ~Committed
    <3>1. /\ UNCHANGED <<rows, nextId>> /\ tool = "copy" /\ tool' = "check"
          /\ stray' = stray \cup {Order[at]}
      BY <1>11, <2>2 DEF FinishCopy, ReadBreaks, CommitFails, AtTable, Commit, Failed, NextTable,
         Committed, bounds, history
    <3>2. QED
      BY <1>9, <3>1 DEF CopyingProviders, Clean
  <2>3. QED
    BY <2>1, <2>2
<1>12. CASE (\E e \in EnvKeys : StartContainer(e)) \/ RunByHand \/ SkipTable \/ FinishTool
  BY <1>9, <1>12 DEF StartContainer, RunByHand, RunTool, SkipTable, FinishTool, AtTable,
     NextTable, CopyingProviders, postgres
<1>13. CASE \/ ProxyDies \/ CreateUsageTables \/ CreateTables \/ EnsureDefaultPolicies
            \/ LoadMasterKey \/ UNCHANGED vars
            \/ \E e \in Entities : \E action \in {Observe, Block} : ChoosePolicy(e, action)
  <2>1. UNCHANGED <<nextId, tool, at, batch>> /\ (tool = "copy" => tool' # "check")
    BY <1>13 DEF ProxyDies, CreateUsageTables, CreateTables, EnsureDefaultPolicies, LoadMasterKey,
       ChoosePolicy, postgres, migration, vars
  <2>2. QED
    BY <1>2, <1>3, <1>10, <2>1, RowsChange DEF Committed
<1>14. QED
  BY <1>2, <1>4, <1>5, <1>6, <1>7, <1>8, <1>11, <1>12, <1>13, Steps, Additions

\* A copied model, committed or not, refers to a provider in Postgres.
Refers(m) == \E x \in rows[Providers] : x.id = m.ref

ForeignKeyInv ==
  /\ \A m \in Copied(Models) : Refers(m)
  /\ tool = "copy" /\ Order[at] = Models => \A m \in batch : Refers(m)

LEMMA ProvidersAreNotRemoved ==
  ASSUME Base, [Next]_vars
  PROVE  rows[Providers] \subseteq rows'[Providers]
<1>0. Providers \in Tables
  BY TheTables
<1>1. CASE Upserted
  BY <1>0, <1>1, UpsertedRows, TheTables DEF Upsert, Base, Position
<1>2. CASE UNCHANGED rows \/ Committed \/ Added
  BY <1>0, <1>2 DEF Committed, Added, Base, Position
<1>3. QED
  BY <1>1, <1>2, RowsChange

LEMMA NextForeignKey ==
  ASSUME Base, ForeignKeyInv, [Next]_vars
  PROVE  ForeignKeyInv'
<1>0. \A m : Refers(m) => Refers(m)'
  BY ProvidersAreNotRemoved DEF Refers
<1>1. ASSUME NEW m \in Copied(Models)' PROVE Refers(m)'
  <2>1. m \in Copied(Models) \/ (tool = "copy" /\ Order[at] = Models /\ m \in batch)
    BY <1>1, CopiedChange, TheTables DEF Committed
  <2>2. QED
    BY <1>0, <2>1 DEF ForeignKeyInv
<1>2. ASSUME tool' = "copy", Order[at'] = Models, NEW m \in batch' PROVE Refers(m)'
  <2>1. CASE CopyRow
    <3>1. /\ tool = "copy" /\ Order[at] = Models
          /\ batch' = batch \cup {Numbered(Models, NextRow, "sqlite")}
          /\ \E x \in rows[Providers] : x.id = NextRow.ref
      BY <1>2, <2>1 DEF CopyRow, AtTable, Accepts
    <3>2. Numbered(Models, NextRow, "sqlite").ref = NextRow.ref
      BY NumberedRow
    <3>3. Refers(m)
      BY <1>2, <3>1, <3>2 DEF ForeignKeyInv, Refers
    <3>4. QED
      BY <1>0, <3>3
  <2>2. CASE UNCHANGED <<tool, at, batch>>
    BY <1>0, <1>2, <2>2 DEF ForeignKeyInv
  <2>3. QED
    BY <1>2, <2>1, <2>2, BatchChange
<1>3. QED
  BY <1>1, <1>2 DEF ForeignKeyInv

\* A copied model belongs to the provider it had in the file, as long as the numbers of
\* providers went to one copy alone.
THEOREM ModelsStayTogether == Spec => []ModelsFollowProviders
<1> DEFINE Inv == Base /\ (Clean => PlaceInv) /\ ForeignKeyInv
<1>1. Init => Inv
  BY InitBase, TheTables DEF Init, PlaceInv, CopyingProviders, ForeignKeyInv, Copied
<1>2. ASSUME Inv, [Next]_vars PROVE Inv'
  BY <1>2, NextBase, NextPlace, NextForeignKey
<1>3. Inv => ModelsFollowProviders
  BY DEF Clean, PlaceInv, InItsPlace, ForeignKeyInv, Refers, Copied, ModelsFollowProviders
<1>4. QED
  BY <1>1, <1>2, <1>3, PTL DEF Spec

-----------------------------------------------------------------------------
(* LossesExplained: the providers a copy has committed have the numbers of   *)
(* their places in the file, so the foreign key refuses no model; and the    *)
(* tool leaves a table behind as copied, as having rows, or as explained.    *)

Sure == Providers \notin stray \cup cut

Filled(b, n) == \A i \in 1..n : \E x \in b : x.id = i

\* The strengthening: providers come with the numbers from 1 on, and all of them at once.
NumbersInv ==
  /\ rows[Providers] # {} => Filled(rows[Providers], Len(Source[Providers]))
  /\ rows[Providers] = {} /\ CopyingProviders =>
       nextId[Providers] = Cardinality(batch) + 1 /\ Filled(batch, Cardinality(batch))
  /\ rows[Providers] = {} /\ ~CopyingProviders => nextId[Providers] = 1

LEMMA CopyNumbersProvider ==
  ASSUME Base, NumbersInv, CopyRow, CopyingProviders
  PROVE  NumbersInv'
<1> DEFINE x == Numbered(Providers, NextRow, "sqlite")
           n == Cardinality(batch)
<1>0. Providers \in Tables
  BY TheTables
<1>1. /\ UNCHANGED <<rows, tool, at>> /\ batch' = batch \cup {x}
      /\ Cardinality(batch) < Len(Source[Providers])
      /\ nextId'[Providers] = nextId[Providers] + 1
  BY <1>0 DEF CopyRow, Unread, Draw, CopyingProviders, Base, Position
<1>2. x.id = nextId[Providers] /\ x.origin = "sqlite" /\ Same(x, NextRow)
  BY NumberedRow DEF Same
<1>3. NextRow = Source[Providers][n + 1]
  BY DEF NextRow, CopyingProviders
<1>4. n \in Nat
  BY FS_CardinalityType DEF Base, BatchInv, CopyingProviders, IsBeginning
<1> HIDE DEF x
<1>5. Cardinality(batch') = n + 1
  BY <1>0, <1>1, <1>2, <1>3, OneMoreRead DEF Base, BatchInv, CopyingProviders
<1> HIDE DEF n
<1>6. \A i \in 1..(n + 1) : i \in 1..n \/ i = n + 1
  BY <1>4
<1>7. CASE rows[Providers] = {}
  <2>1. nextId[Providers] = n + 1 /\ Filled(batch, n)
    BY <1>7 DEF NumbersInv, CopyingProviders, n
  <2>2. Filled(batch', n + 1)
    BY <1>1, <1>2, <1>6, <2>1 DEF Filled
  <2>3. QED
    BY <1>1, <1>5, <1>7, <2>1, <2>2 DEF NumbersInv, CopyingProviders
<1>8. CASE rows[Providers] # {}
  BY <1>1, <1>8 DEF NumbersInv, CopyingProviders, Filled
<1>9. QED
  BY <1>7, <1>8

LEMMA NumbersStay ==
  ASSUME NumbersInv, UNCHANGED <<rows[Providers], nextId[Providers]>>,
         CopyingProviders <=> CopyingProviders', CopyingProviders => batch' = batch
  PROVE  NumbersInv'
BY DEF NumbersInv, Filled

LEMMA CommitNumbersProviders ==
  ASSUME Base, NumbersInv, Committed, Providers \notin cut'
  PROVE  NumbersInv'
<1>0. Providers \in Tables
  BY TheTables
<1>1. UNCHANGED nextId /\ ~CopyingProviders'
  BY DEF Committed, CopyingProviders
<1>2. CASE CopyingProviders
  <2>1. rows'[Providers] = rows[Providers] \cup batch /\ ~Unread
    BY <1>0, <1>2 DEF Committed, CopyingProviders, Base, Position
  <2>2. Cardinality(batch) \in Nat /\ Len(Source[Providers]) \in Nat
        /\ Cardinality(batch) <= Len(Source[Providers])
    BY <1>0, <1>2, SourceAssumption, FS_CardinalityType
    DEF Base, BatchInv, CopyingProviders, IsBeginning
  <2>3. Cardinality(batch) = Len(Source[Providers])
    BY <1>2, <2>1, <2>2 DEF Unread, CopyingProviders
  <2>4. CASE rows[Providers] = {}
    <3>1. nextId[Providers] = Cardinality(batch) + 1 /\ Filled(batch, Len(Source[Providers]))
      BY <1>2, <2>3, <2>4 DEF NumbersInv
    <3>2. rows'[Providers] = batch
      BY <2>1, <2>4
    <3>3. batch = {} => nextId'[Providers] = 1
      BY <1>1, <3>1, FS_EmptySet
    <3>4. QED
      BY <1>1, <3>1, <3>2, <3>3 DEF NumbersInv
  <2>5. CASE rows[Providers] # {}
    BY <1>1, <2>1, <2>5 DEF NumbersInv, Filled
  <2>6. QED
    BY <2>4, <2>5
<1>3. CASE ~CopyingProviders
  <2>1. UNCHANGED rows[Providers]
    BY <1>0, <1>3 DEF Committed, CopyingProviders, Base, Position
  <2>2. QED
    BY <1>1, <1>3, <2>1, NumbersStay
<1>4. QED
  BY <1>2, <1>3

LEMMA NextNumbers ==
  ASSUME Base, Sure => NumbersInv, [Next]_vars, Sure'
  PROVE  NumbersInv'
<1>0. NumbersInv /\ Providers \in Tables
  BY Marked, TheTables DEF Sure
<1>1. CASE Committed
  BY <1>0, <1>1, CommitNumbersProviders DEF Sure
<1>2. CASE Added
  <2>1. UNCHANGED <<rows[Providers], nextId[Providers]>>
    BY <1>0, <1>2 DEF Added, Sure, Base, Position
  <2>2. (CopyingProviders <=> CopyingProviders') /\ batch' = batch
    BY <1>2 DEF Added, CopyingProviders
  <2>3. QED
    BY <1>0, <2>1, <2>2, NumbersStay
<1>3. CASE Upserted
  <2>1. UNCHANGED <<rows[Providers], nextId>>
    BY <1>0, <1>3, UpsertedRows, TheTables DEF Upserted, Upsert, Base, Position
  <2>2. (CopyingProviders <=> CopyingProviders') /\ batch' = batch
    BY <1>3 DEF Upserted, CopyingProviders
  <2>3. QED
    BY <1>0, <2>1, <2>2, NumbersStay
<1>4. CASE BeginCopy \/ CountFails
  <2>1. /\ ~CopyingProviders /\ UNCHANGED <<rows, nextId>>
        /\ CopyingProviders' => batch' = {}
    BY <1>4 DEF BeginCopy, CountFails, AtTable, Failed, NextTable, CopyingProviders, postgres,
       Base, ToolInv
  <2>2. CASE CopyingProviders'
    <3>1. Cardinality(batch') = 0 /\ 1..0 = {}
      BY <2>1, <2>2, FS_EmptySet
    <3>2. QED
      BY <1>0, <2>1, <2>2, <3>1 DEF NumbersInv, Filled
  <2>3. CASE ~CopyingProviders'
    BY <1>0, <2>1, <2>3, NumbersStay
  <2>4. QED
    BY <2>2, <2>3
<1>5. CASE CopyRow
  <2>1. CASE CopyingProviders
    BY <1>0, <1>5, <2>1, CopyNumbersProvider
  <2>2. CASE ~CopyingProviders
    <3>1. UNCHANGED <<rows, nextId[Providers]>> /\ ~CopyingProviders'
      BY <1>0, <1>5, <2>2 DEF CopyRow, AtTable, Draw, CopyingProviders, Base, Position
    <3>2. QED
      BY <1>0, <2>2, <3>1, NumbersStay
  <2>3. QED
    BY <2>1, <2>2
<1>6. CASE RowRefused
  <2>1. ~CopyingProviders /\ UNCHANGED <<rows, nextId[Providers]>> /\ ~CopyingProviders'
    BY <1>0, <1>6 DEF RowRefused, AtTable, Draw, NextTable, CopyingProviders, Sure, Base,
       Position
  <2>2. QED
    BY <1>0, <2>1, NumbersStay
<1>7. CASE CopyFails \/ ToolDies
  <2>1. UNCHANGED <<rows, nextId>> /\ ~CopyingProviders'
    BY <1>7 DEF CopyFails, ToolDies, Failed, NextTable, CopyingProviders, postgres
  <2>2. CASE CopyingProviders
    <3>1. batch = {}
      BY <1>7, <2>2 DEF CopyFails, ToolDies, CopyingProviders, Sure
    <3>2. rows[Providers] = {} => nextId[Providers] = 1
      BY <1>0, <2>2, <3>1, FS_EmptySet DEF NumbersInv
    <3>3. QED
      BY <1>0, <2>1, <3>2 DEF NumbersInv, Filled
  <2>3. CASE ~CopyingProviders
    BY <1>0, <2>1, <2>3, NumbersStay
  <2>4. QED
    BY <2>2, <2>3
<1>8. CASE UNCHANGED <<rows, nextId>> /\ ~CopyingProviders /\ ~CopyingProviders'
  BY <1>0, <1>8, NumbersStay
<1>9. CASE UNCHANGED <<rows, nextId, tool, at, batch>>
  BY <1>0, <1>9, NumbersStay DEF CopyingProviders
<1>10. CASE FinishCopy \/ ReadBreaks \/ CommitFails
  <2>1. CASE ~Committed
    <3>1. /\ UNCHANGED <<rows, nextId>> /\ tool = "copy" /\ tool' = "check"
          /\ stray' = stray \cup {Order[at]}
      BY <1>10, <2>1 DEF FinishCopy, ReadBreaks, CommitFails, AtTable, Commit, Failed, NextTable,
         Committed, bounds, history
    <3>2. QED
      BY <1>8, <3>1 DEF CopyingProviders, Sure
  <2>2. QED
    BY <1>1, <2>1
<1>11. CASE (\E e \in EnvKeys : StartContainer(e)) \/ RunByHand \/ SkipTable \/ FinishTool
  BY <1>8, <1>11 DEF StartContainer, RunByHand, RunTool, SkipTable, FinishTool, AtTable,
     NextTable, CopyingProviders, postgres
<1>12. CASE \/ ProxyDies \/ CreateUsageTables \/ CreateTables \/ EnsureDefaultPolicies
            \/ LoadMasterKey \/ UNCHANGED vars
            \/ \E e \in Entities : \E action \in {Observe, Block} : ChoosePolicy(e, action)
  <2>1. UNCHANGED <<nextId, tool, at, batch>> /\ (tool = "copy" => tool' # "check")
    BY <1>12 DEF ProxyDies, CreateUsageTables, CreateTables, EnsureDefaultPolicies, LoadMasterKey,
       ChoosePolicy, postgres, migration, vars
  <2>2. QED
    BY <1>2, <1>3, <1>9, <2>1, RowsChange DEF Committed
<1>13. QED
  BY <1>2, <1>4, <1>5, <1>6, <1>7, <1>10, <1>11, <1>12, Steps, Additions

Explained(t) ==
  \/ t \in absent \cup failed
  \/ t = Models /\ Providers \in stray \cup cut \cup failed

Settled(t) == Source[t] = <<>> \/ rows[t] # {} \/ Explained(t)

\* What the tool has left behind in this run, and at the end of the last.  A table is
\* absent from Postgres only together with those the proxy creates with it.
SettledInv ==
  /\ Models \in created => Providers \in created
  /\ tool # "off" => /\ \A i \in DOMAIN Order : i < at => Settled(Order[i])
                     /\ absent \cap created = {}
  /\ \A t \in leftover : Explained(t)

LEMMA SettledStays ==
  ASSUME Base, PoliciesReferToNothing, [Next]_vars, NEW t \in Tables, Settled(t),
         absent \subseteq absent', failed \subseteq failed'
  PROVE  Settled(t)'
BY RowsKeepTheirKeys, Marked DEF Settled, Explained

\* A constraint refuses a row only because of a row of the same table that was there, or of
\* a provider that is not.
LEMMA RefusalExplained ==
  ASSUME Base, Sure => NumbersInv, SettledInv, [Next]_vars, RowRefused, NEW t, t = Order[at]
  PROVE  Settled(t)'
<1>0. /\ t \in Tables /\ Providers \in Tables /\ tool = "copy" /\ at \in DOMAIN Order
      /\ Source[t] \in Seq(Content) /\ IsBeginning(batch, Source[t])
      /\ Cardinality(batch) < Len(Source[t]) /\ Cardinality(batch) \in Nat
      /\ ~Accepts(t, NextRow, rows[t] \cup batch)
      /\ UNCHANGED <<rows, absent, failed, cut>> /\ stray \subseteq stray'
  BY TheTables, SourceAssumption, FS_CardinalityType
  DEF RowRefused, AtTable, Unread, Base, BatchInv, IsBeginning
<1> DEFINE k == Cardinality(batch) + 1
<1>1. k \in DOMAIN Source[t] /\ NextRow = Source[t][k]
  BY <1>0 DEF NextRow
<1>2. ASSUME NEW x \in batch, x.key = NextRow.key, x.ref = NextRow.ref PROVE FALSE
  <2>1. PICK i \in 1..Cardinality(batch) : Same(x, Source[t][i])
    BY <1>0 DEF IsBeginning
  <2>2. i \in DOMAIN Source[t] /\ i # k
    BY <1>0
  <2>3. Source[t][i].key = Source[t][k].key /\ Source[t][i].ref = Source[t][k].ref
    BY <1>1, <1>2, <2>1 DEF Same
  <2>4. QED
    BY <1>0, <1>1, <2>2, <2>3, SourceAssumption
<1> HIDE DEF k
<1>3. CASE rows[t] # {}
  BY <1>0, <1>3 DEF Settled
<1>4. CASE rows[t] = {}
  <2>1. t = Models /\ \A x \in rows[Providers] : x.id # NextRow.ref
    BY <1>0, <1>2, <1>4 DEF Accepts
  <2>2. NextRow.ref \in 1..Len(Source[Providers])
    BY <1>0, <1>1, <2>1, SourceAssumption
  <2>3. CASE Providers \in stray \cup cut \cup failed
    BY <1>0, <2>1, <2>3 DEF Settled, Explained
  <2>4. CASE Providers \notin stray \cup cut \cup failed
    <3>1. rows[Providers] = {}
      BY <2>1, <2>2, <2>4 DEF Sure, NumbersInv, Filled
    <3>2. Settled(Providers)
      <4>1. /\ Order[1] = Usage /\ Order[2] = Keys /\ Order[3] = Providers
            /\ Order[5] = Policies /\ at \in 1..5 /\ Order[at] = Models
        BY <1>0, <2>1, TheTables DEF Order
      <4>2. at \notin {1, 2, 3, 5}
        BY <4>1, TheTables
      <4>3. 3 \in DOMAIN Order /\ 3 < at
        BY <4>1, <4>2, TheTables
      <4>4. QED
        BY <1>0, <4>1, <4>3 DEF SettledInv
    <3>3. Source[Providers] # <<>>
      BY <2>2
    <3>4. Providers \in absent
      BY <2>4, <3>1, <3>2, <3>3, TheTables DEF Settled, Explained
    <3>5. Providers \in created
      BY <1>0, <2>1 DEF Base, ToolInv, SettledInv
    <3>6. QED
      BY <1>0, <3>4, <3>5 DEF SettledInv
  <2>5. QED
    BY <2>3, <2>4
<1>5. QED
  BY <1>3, <1>4

\* The table a step of the tool leaves.
LEMMA LeavesSettled ==
  ASSUME Base, Sure => NumbersInv, SettledInv, [Next]_vars, NextTable, at \in DOMAIN Order,
         NEW t, t = Order[at]
  PROVE  Settled(t)'
<1>0. t \in Tables
  BY TheTables
<1>1. CASE SkipTable
  BY <1>1 DEF SkipTable, Skips, Settled, Explained, postgres
<1>2. CASE failed' = failed \cup {t}
  BY <1>2 DEF Settled, Explained
<1>3. CASE FinishCopy
  <2>1. IsBeginning(batch, Source[t]) /\ ~Unread /\ Source[t] # <<>>
    BY <1>3 DEF FinishCopy, AtTable, Base, BatchInv, ToolInv
  <2>2. Source[t] \in Seq(Content)
    BY <1>0, SourceAssumption
  <2>3. batch # {}
    <3>1. CASE batch = {}
      <4>1. Cardinality(batch) = 0
        BY <3>1, FS_EmptySet
      <4>2. QED
        BY <2>1, <2>2, <4>1 DEF Unread
    <3>2. QED
      BY <3>1
  <2>4. rows'[t] = rows[t] \cup batch
    BY <1>0, <1>3 DEF FinishCopy, Commit, Base, Position
  <2>5. QED
    BY <2>3, <2>4 DEF Settled
<1>4. CASE RowRefused
  BY <1>4, RefusalExplained
<1>5. at' # at /\ at' # 1
  BY TheTables DEF NextTable
<1>6. QED
  BY <1>1, <1>2, <1>3, <1>4, <1>5, Steps, Additions
     DEF NextTable, StartContainer, RunByHand, RunTool, ToolDies, ProxyDies, BeginCopy, CopyRow,
         FinishTool, CountFails, CopyFails, CommitFails, ReadBreaks, Failed, CreateUsageTables,
         CreateTables, EnsureDefaultPolicies, LoadMasterKey, Added, ChoosePolicy, migration,
         vars

\* While the tool goes on, the tables stay, and failures and absences add up.
LEMMA ToolGoesOn ==
  ASSUME Base, [Next]_vars, tool # "off", tool' # "off"
  PROVE  /\ created' = created /\ failed \subseteq failed' /\ leftover' = leftover
         /\ absent \subseteq absent' /\ absent' \cap created \subseteq absent
         /\ at' = at \/ (NextTable /\ at \in DOMAIN Order)
<1>1. CASE SkipTable \/ BeginCopy \/ CountFails
  BY <1>1 DEF SkipTable, BeginCopy, CountFails, AtTable, Failed, postgres, history
<1>2. CASE CopyRow \/ RowRefused \/ FinishCopy \/ CopyFails \/ CommitFails \/ ReadBreaks
  BY <1>2 DEF CopyRow, RowRefused, FinishCopy, CopyFails, CommitFails, ReadBreaks, AtTable,
     Failed, postgres, history, Base, ToolInv
<1>3. CASE CreateUsageTables \/ CreateTables \/ EnsureDefaultPolicies \/ LoadMasterKey
  BY <1>3 DEF CreateUsageTables, CreateTables, EnsureDefaultPolicies, LoadMasterKey, Boots,
     Base, ToolInv
<1>4. CASE UNCHANGED <<at, created, absent, failed, leftover>>
  BY <1>4
<1>5. ASSUME NEW e \in Entities, NEW action \in {Observe, Block}, ChoosePolicy(e, action)
      PROVE  UNCHANGED <<at, created, absent, failed, leftover>>
  BY <1>5 DEF ChoosePolicy, migration
<1>6. QED
  BY <1>1, <1>2, <1>3, <1>4, <1>5, Steps, Additions
     DEF StartContainer, RunByHand, ToolDies, FinishTool, ProxyDies, Added, migration, postgres,
         history, vars

\* The tables of models and of providers are created together.
LEMMA CreatedTogether ==
  ASSUME Models \in created => Providers \in created, [Next]_vars
  PROVE  (Models \in created => Providers \in created)'
<1>1. CASE CreateUsageTables
  <2>1. created' = created \cup {Usage} /\ Usage # Models
    BY <1>1, TheTables DEF CreateUsageTables
  <2>2. QED
    BY <2>1
<1>2. CASE CreateTables
  BY <1>2, TheTables DEF CreateTables
<1>3. CASE created' = created
  BY <1>3
<1>4. QED
  BY <1>1, <1>2, <1>3, Steps, Additions
     DEF StartContainer, RunByHand, ToolDies, ProxyDies, SkipTable, BeginCopy, CopyRow,
         RowRefused, FinishCopy, FinishTool, CountFails, CopyFails, CommitFails, ReadBreaks,
         EnsureDefaultPolicies, LoadMasterKey, Added, ChoosePolicy, postgres, vars

\* What a run left behind stays explained until the next one.
LEMMA LeftoverExplained ==
  ASSUME SettledInv, [Next]_vars, ~FinishTool
  PROVE  \A t \in leftover' : Explained(t)'
<1>1. CASE leftover' = {}
  BY <1>1
<1>2. CASE leftover' = leftover /\ absent \subseteq absent' /\ failed \subseteq failed'
  BY <1>2, Marked DEF SettledInv, Explained
<1>3. ASSUME NEW e \in EnvKeys, StartContainer(e)
      PROVE  leftover' = {} \/ UNCHANGED <<absent, failed, leftover>>
  BY <1>3 DEF StartContainer, RunTool
<1>4. QED
  BY <1>1, <1>2, <1>3, Steps, Additions
     DEF RunByHand, RunTool, ToolDies, ProxyDies, SkipTable, BeginCopy, CopyRow, RowRefused,
         FinishCopy, CountFails, CopyFails, CommitFails, ReadBreaks, Failed, CreateUsageTables,
         CreateTables, EnsureDefaultPolicies, LoadMasterKey, Added, ChoosePolicy, history, vars

LEMMA NextSettled ==
  ASSUME Base, PoliciesReferToNothing, Sure => NumbersInv, SettledInv, [Next]_vars
  PROVE  SettledInv'
<1>1. CASE tool # "off" /\ tool' # "off"
  <2>1. ASSUME NEW i \in DOMAIN Order, i < at' PROVE Settled(Order[i])'
    <3>0. Order[i] \in Tables /\ i \in Nat /\ at \in Nat
      BY TheTables DEF Base, Position
    <3>1. CASE i < at
      BY <1>1, <3>0, <3>1, ToolGoesOn, SettledStays DEF SettledInv
    <3>2. CASE ~(i < at)
      <4>1. NextTable /\ at \in DOMAIN Order
        BY <1>1, <2>1, <3>2, ToolGoesOn
      <4>2. i = at
        BY <2>1, <3>0, <3>2, <4>1 DEF NextTable
      <4>3. QED
        BY <1>1, <4>1, <4>2, LeavesSettled
    <3>3. QED
      BY <3>1, <3>2
  <2>2. absent' \cap created' = {}
    BY <1>1, ToolGoesOn DEF SettledInv
  <2>3. ~FinishTool
    BY <1>1 DEF FinishTool
  <2>4. QED
    BY <2>1, <2>2, <2>3, CreatedTogether, LeftoverExplained DEF SettledInv
<1>2. CASE tool = "off"
  <2>1. ~FinishTool /\ (tool' # "off" => at' = 1 /\ absent' = {})
    BY <1>2, Steps, Additions
       DEF StartContainer, RunByHand, RunTool, ToolDies, ProxyDies, SkipTable, BeginCopy,
           CopyRow, RowRefused, FinishCopy, FinishTool, CountFails, CopyFails, CommitFails,
           ReadBreaks, AtTable, CreateUsageTables, CreateTables, EnsureDefaultPolicies,
           LoadMasterKey, Added, ChoosePolicy, migration, history, vars
  <2>2. tool' # "off" => \A i \in DOMAIN Order : ~(i < at')
    BY <2>1, TheTables
  <2>3. QED
    BY <2>1, <2>2, CreatedTogether, LeftoverExplained DEF SettledInv
<1>3. CASE tool # "off" /\ tool' = "off"
  <2>1. CASE FinishTool
    <3>1. at \notin 1..5 /\ at \in Nat \ {0}
      BY <2>1, TheTables DEF FinishTool, Base, Position
    <3>2. \A i \in DOMAIN Order : i < at
      BY <3>1, TheTables
    <3>3. \A t \in Tables : Settled(t)
      BY <1>3, <3>2, TheTables DEF SettledInv
    <3>4. \A t \in LeftEmpty : Explained(t)
      BY <3>3 DEF LeftEmpty, Settled
    <3>5. leftover' = LeftEmpty /\ UNCHANGED <<absent, failed, stray, cut>>
      BY <2>1 DEF FinishTool
    <3>6. \A t \in leftover' : Explained(t)'
      BY <3>4, <3>5 DEF Explained
    <3>7. QED
      BY <1>3, <3>6, CreatedTogether DEF SettledInv
  <2>2. CASE ~FinishTool
    BY <1>3, <2>2, CreatedTogether, LeftoverExplained DEF SettledInv
  <2>3. QED
    BY <2>1, <2>2
<1>4. QED
  BY <1>1, <1>2, <1>3

\* A run leaves a table of the file empty only for a reason of its own: the table was not
\* there yet, a statement failed at it, or its foreign key misses the numbers of the file.
THEOREM LossesHaveReasons == Spec => []LossesExplained
<1> DEFINE Inv == Base /\ PoliciesReferToNothing /\ (Sure => NumbersInv) /\ SettledInv
<1>1. Init => Inv
  BY InitBase, TheTables
  DEF Init, PoliciesReferToNothing, NumbersInv, CopyingProviders, SettledInv
<1>2. ASSUME Inv, [Next]_vars PROVE Inv'
  BY <1>2, NextBase, NextPoliciesRefer, NextNumbers, NextSettled
<1>3. Inv => LossesExplained
  BY DEF SettledInv, Explained, LossesExplained
<1>4. QED
  BY <1>1, <1>2, <1>3, PTL DEF Spec
=============================================================================

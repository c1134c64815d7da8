-------------------------- MODULE RateLimiterProofs --------------------------
(***************************************************************************)
(* Proofs about RateLimiter, for any number of requests, users, clocks and *)
(* configurations.                                                         *)
(***************************************************************************)
EXTENDS RateLimiter, FiniteSetTheorems, TLAPS

\* Adding whole seconds to an instant moves its place in the text order by as much.
LEMMA TextKeyShift ==
  ASSUME NEW t \in Int, NEW k \in Int
  PROVE  TextKey(t - Ticks(k)) = TextKey(t) - Ticks(k)
  BY DEF TextKey, Ticks

LEMMA TextKeyType ==
  ASSUME NEW t \in Int
  PROVE  TextKey(t) \in Int
  BY DEF TextKey

-----------------------------------------------------------------------------
(* Type correctness. *)

LEMMA InitTypeOK == Init => TypeOK
  <1> SUFFICES ASSUME Init PROVE TypeOK
    OBVIOUS
  <1>1. configRows \in Seq(Configs)
    <2>1. CASE configRows = <<>>
      BY <2>1
    <2>2. ASSUME NEW c \in Configs, configRows = <<c>> PROVE configRows \in Seq(Configs)
      BY <2>2
    <2>3. QED
      BY <2>1, <2>2 DEF Init
  <1>2. QED
    BY <1>1, InstantsAssumption DEF Init, TypeOK, Steps, Answers

\* Every variable keeps its type under every step of the rate limiter.
LEMMA NextTypeOK == TypeOK /\ [Next]_vars => TypeOK'
  <1> SUFFICES ASSUME TypeOK, [Next]_vars PROVE TypeOK'
    OBVIOUS
  <1> USE DEF TypeOK, Goto, Steps, Answers, tables, adminVars, history
  <1>1. ASSUME NEW r \in Requests, Arrive(r) PROVE TypeOK'
    BY <1>1 DEF Arrive, InForce
  <1>2. ASSUME NEW r \in Requests, ReadConfig(r) PROVE TypeOK'
    <2>1. configRows # <<>> => configRows[Len(configRows)] \in Configs
      OBVIOUS
    <2>2. QED
      BY <1>2, <2>1 DEF ReadConfig
  <1>3. ASSUME NEW r \in Requests, CheckQuarantine(r) PROVE TypeOK'
    BY <1>3 DEF CheckQuarantine
  <1>4. ASSUME NEW r \in Requests, Prune(r) PROVE TypeOK'
    BY <1>4 DEF Prune
  <1>5. ASSUME NEW r \in Requests, Record(r) PROVE TypeOK'
    BY <1>5 DEF Record
  <1>6. ASSUME NEW r \in Requests, Count(r) PROVE TypeOK'
    BY <1>6 DEF Count
  <1>7. ASSUME NEW r \in Requests, Lock(r) PROVE TypeOK'
    BY <1>7 DEF Lock
  <1>8. ASSUME NEW r \in Requests, Wipe(r) PROVE TypeOK'
    BY <1>8 DEF Wipe, WipeRows
  <1>9. ASSUME NEW r \in Requests, CheckFault(r) PROVE TypeOK'
    <2>1. CASE ReadFails(r)
      BY <2>1 DEF ReadFails, Fault
    <2>2. CASE RecordFails(r)
      BY <2>2 DEF RecordFails, Fault
    <2>3. CASE LockFails(r)
      BY <2>3 DEF LockFails, Fault
    <2>4. CASE PruneFails(r)
      BY <2>4 DEF PruneFails, Fault
    <2>5. CASE WipeFails(r)
      BY <2>5 DEF WipeFails, WipeRows, Fault
    <2>6. QED
      BY <1>9, <2>1, <2>2, <2>3, <2>4, <2>5 DEF CheckFault
  <1>10. ASSUME NEW a \in Admins, NEW c \in Configs, DeleteConfig(a, c) PROVE TypeOK'
    BY <1>10 DEF DeleteConfig
  <1>11. ASSUME NEW a \in Admins, NEW c \in Configs, SaveFails(a, c) PROVE TypeOK'
    <2>1. configRows' \in Seq(Configs)
      <3>1. CASE adminPc[a] = "idle"
        <4>1. configRows' = configRows \/ configRows' = <<>>
          BY <1>11, <3>1 DEF SaveFails
        <4>2. <<>> \in Seq(Configs)
          OBVIOUS
        <4>3. configRows \in Seq(Configs)
          OBVIOUS
        <4>4. QED
          BY <4>1, <4>2, <4>3, Zenon
      <3>2. CASE adminPc[a] = "insert"
        <4>1. configRows' = configRows \/ configRows' = Append(configRows, adminCfg[a])
          BY <1>11, <3>2 DEF SaveFails
        <4>2. configRows \in Seq(Configs) /\ adminCfg[a] \in Configs
          BY <3>2
        <4>3. Append(configRows, adminCfg[a]) \in Seq(Configs)
          BY <4>2
        <4>4. QED
          BY <4>1, <4>2, <4>3, Zenon
      <3>3. QED
        BY <1>11, <3>1, <3>2 DEF SaveFails
    <2>2. saves' \in Nat /\ faults' \in Nat
      BY <1>11 DEF SaveFails, Fault
    <2>3. \A b \in Admins : adminPc'[b] = "insert" => adminPc[b] = "insert"
      BY <1>11 DEF SaveFails
    <2>4. adminPc' \in [Admins -> {"idle", "insert"}] /\ interrupted' \in BOOLEAN
      BY <1>11 DEF SaveFails
    <2>5. UNCHANGED <<now, recorded, locked, unlocked, pc, at, cfg, adminCfg, history>>
      BY <1>11 DEF SaveFails
    <2>6. QED
      BY <2>1, <2>2, <2>3, <2>4, <2>5
  <1>12. ASSUME NEW a \in Admins, InsertConfig(a) PROVE TypeOK'
    BY <1>12 DEF InsertConfig
  <1>13. ASSUME NEW u \in Users, UnlockQuarantine(u) PROVE TypeOK'
    BY <1>13 DEF UnlockQuarantine, InForce
  <1>14. CASE Tick
    BY <1>14 DEF Tick
  <1>15. CASE Crash
    BY <1>15 DEF Crash, Fault
  <1>16. CASE UNCHANGED vars
    BY <1>16 DEF vars
  <1>17. QED
    BY <1>1, <1>2, <1>3, <1>4, <1>5, <1>6, <1>7, <1>8, <1>9, <1>10, <1>11, <1>12, <1>13,
       <1>14, <1>15, <1>16 DEF Next, CheckStep

\* The variables of the rate limiter keep their types.
THEOREM TypeCorrect == Spec => []TypeOK
  <1>1. QED
    BY InitTypeOK, NextTypeOK, PTL DEF Spec

-----------------------------------------------------------------------------
(* The window bound. *)

\* The steps of a request that has not inserted its counter row yet.
Unrecorded == {"idle", "config", "quarantine", "prune", "record"}

\* A row is inserted once, counted after that, and wiped at most once: what makes the
\* groups of AdmittedIn stable once a quarantine has set them apart.
RowInv ==
  /\ \A r \in sawOwnRow : pc[r] \notin Unrecorded \cup {"count"}
  /\ \A r \in recorded : pc[r] \notin Unrecorded
  /\ \A r \in Requests :
       wipedBy[r] # NoRequest =>
         /\ r \notin recorded
         /\ pc[r] \notin Unrecorded
         /\ pc[wipedBy[r]] = "locked"

LEMMA InitRowInv == Init => RowInv
  BY DEF Init, RowInv

\* Every step keeps rows inserted once, counted after that and wiped at most once.
LEMMA NextRowInv == TypeOK /\ RowInv /\ [Next]_vars => RowInv'
  <1> SUFFICES ASSUME TypeOK, RowInv, [Next]_vars PROVE RowInv'
    OBVIOUS
  <1> USE DEF RowInv, Unrecorded, Goto, tables, adminVars, history
  <1>0. /\ pc \in [Requests -> {"idle"} \cup Steps \cup Answers]
        /\ wipedBy \in [Requests -> Requests \cup {NoRequest}]
        /\ recorded \subseteq Requests
        /\ sawOwnRow \subseteq Requests
        /\ NoRequest \notin Requests
    BY RequestsAssumption DEF TypeOK
  <1>1. ASSUME NEW r \in Requests, Arrive(r) PROVE RowInv'
    BY <1>0, <1>1 DEF Arrive
  <1>2. ASSUME NEW r \in Requests, ReadConfig(r) PROVE RowInv'
    BY <1>0, <1>2 DEF ReadConfig
  <1>3. ASSUME NEW r \in Requests, CheckQuarantine(r) PROVE RowInv'
    BY <1>0, <1>3 DEF CheckQuarantine
  <1>4. ASSUME NEW r \in Requests, Prune(r) PROVE RowInv'
    BY <1>0, <1>4 DEF Prune
  <1>5. ASSUME NEW r \in Requests, Record(r) PROVE RowInv'
    BY <1>0, <1>5 DEF Record
  <1>6. ASSUME NEW r \in Requests, Count(r) PROVE RowInv'
    BY <1>0, <1>6 DEF Count
  <1>7. ASSUME NEW r \in Requests, Lock(r) PROVE RowInv'
    BY <1>0, <1>7 DEF Lock
  <1>8. ASSUME NEW r \in Requests, Wipe(r) PROVE RowInv'
    BY <1>0, <1>8 DEF Wipe, WipeRows, OwnRows
  <1>9. ASSUME NEW r \in Requests, CheckFault(r) PROVE RowInv'
    <2>1. CASE ReadFails(r)
      BY <1>0, <2>1 DEF ReadFails
    <2>2. CASE RecordFails(r)
      BY <1>0, <2>2 DEF RecordFails
    <2>3. CASE LockFails(r)
      BY <1>0, <2>3 DEF LockFails
    <2>4. CASE PruneFails(r)
      BY <1>0, <2>4 DEF PruneFails
    <2>5. CASE WipeFails(r)
      BY <1>0, <2>5 DEF WipeFails, WipeRows, OwnRows
    <2>6. QED
      BY <1>9, <2>1, <2>2, <2>3, <2>4, <2>5 DEF CheckFault
  <1>10. ASSUME NEW a \in Admins, NEW c \in Configs, DeleteConfig(a, c) PROVE RowInv'
    BY <1>10 DEF DeleteConfig
  <1>11. ASSUME NEW a \in Admins, NEW c \in Configs, SaveFails(a, c) PROVE RowInv'
    BY <1>11 DEF SaveFails
  <1>12. ASSUME NEW a \in Admins, InsertConfig(a) PROVE RowInv'
    BY <1>12 DEF InsertConfig
  <1>13. ASSUME NEW u \in Users, UnlockQuarantine(u) PROVE RowInv'
    BY <1>13 DEF UnlockQuarantine
  <1>14. CASE Tick
    BY <1>14 DEF Tick
  <1>15. CASE Crash
    BY <1>0, <1>15 DEF Crash, Steps
  <1>16. CASE UNCHANGED vars
    BY <1>16 DEF vars
  <1>17. QED
    BY <1>1, <1>2, <1>3, <1>4, <1>5, <1>6, <1>7, <1>8, <1>9, <1>10, <1>11, <1>12, <1>13,
       <1>14, <1>15, <1>16 DEF Next, CheckStep

Group(u, c, e, t) == {r \in AdmittedIn(u, c, e) : During(r, c, t)}

LEMMA GroupFinite ==
  ASSUME NEW u, NEW c, NEW e, NEW t
  PROVE  IsFiniteSet(Group(u, c, e, t))
  BY FS_Subset, RequestsAssumption DEF Group, AdmittedIn

\* What a window holds when r is admitted was counted by r: r recorded itself before
\* counting, and the window of r reaches at least as far back.
LEMMA AdmittedWereCounted ==
  ASSUME TypeOK, NEW r \in Requests, NEW u, NEW c \in Configs, NEW t \in Instants,
         NEW G, r \in G, AsStrict(cfg[r], c),
         \A x \in G : /\ x \in recorded
                      /\ UserOf[x] = u
                      /\ During(x, c, t)
  PROVE  G \subseteq InWindow(r)
  <1> SUFFICES ASSUME NEW x \in G PROVE x \in InWindow(r)
    OBVIOUS
  <1>1. /\ at[x] \in Int /\ at[r] \in Int /\ t \in Int
        /\ c.window \in Int /\ cfg[r].window \in Int
    <2>1. x \in Requests /\ at \in [Requests -> Instants \cup {0}]
                         /\ cfg \in [Requests -> Configs \cup {NoConfig}]
      BY DEF TypeOK
    <2>2. \A d \in Configs \cup {NoConfig} : d.window \in Int
      BY ConfigsAssumption DEF Config, NoConfig
    <2>3. \A i \in Instants \cup {0} : i \in Int
      BY InstantsAssumption
    <2>4. at[x] \in Instants \cup {0} /\ at[r] \in Instants \cup {0}
      BY <2>1
    <2>5. cfg[r] \in Configs \cup {NoConfig}
      BY <2>1
    <2>6. QED
      BY <2>2, <2>3, <2>4, <2>5
  <1>2. TextKey(at[x]) >= TextKey(t) - Ticks(c.window)
    BY <1>1, TextKeyShift DEF During, TextAtOrAfter
  <1>3. TextKey(t) >= TextKey(at[r])
    BY <1>1, TextKeyType DEF During, TextBefore
  <1>4. Ticks(c.window) <= Ticks(cfg[r].window)
    BY <1>1 DEF AsStrict, Ticks
  <1>5. TextKey(at[x]) >= TextKey(at[r]) - Ticks(cfg[r].window)
    BY <1>1, <1>2, <1>3, <1>4, TextKeyType DEF Ticks
  <1>6. TextAtOrAfter(at[x], WindowStart(r))
    BY <1>1, <1>5, TextKeyShift DEF WindowStart, TextAtOrAfter
  <1>7. QED
    BY <1>6 DEF InWindow

\* A bound on the groups is a bound on WindowBound's sets, and a group that shrinks
\* keeps its bound.
LEMMA GroupsBound ==
  WindowBound <=>
    \A u \in Users, c \in Configs, e \in Requests \cup {NoRequest}, t \in Instants :
      Cardinality(Group(u, c, e, t)) <= c.limit
  BY DEF WindowBound, Group

LEMMA SmallerGroup ==
  ASSUME NEW c \in Configs, NEW G, NEW H, IsFiniteSet(H), G \subseteq H,
         Cardinality(H) <= c.limit
  PROVE  Cardinality(G) <= c.limit
  <1>1. Cardinality(G) <= Cardinality(H) /\ IsFiniteSet(G)
    BY FS_Subset
  <1>2. Cardinality(G) \in Nat /\ Cardinality(H) \in Nat
    BY <1>1, FS_CardinalityType
  <1>3. c.limit \in Nat
    BY ConfigsAssumption DEF Config
  <1>4. QED
    BY <1>1, <1>2, <1>3

\* A step that admits nobody and wipes nothing.
QuietStep ==
  /\ UNCHANGED wipedBy
  /\ \A r \in Requests :
       (pc'[r] = "allowed" /\ r \in sawOwnRow') =>
         /\ pc[r] = "allowed"
         /\ r \in sawOwnRow
         /\ at'[r] = at[r]
         /\ cfg'[r] = cfg[r]
         /\ r \in recorded' => r \in recorded

LEMMA QuietStepKeepsBound == QuietStep /\ WindowBound => WindowBound'
  <1> SUFFICES ASSUME QuietStep, WindowBound,
                      NEW u \in Users, NEW c \in Configs,
                      NEW e \in Requests \cup {NoRequest}, NEW t \in Instants
               PROVE  Cardinality(Group(u, c, e, t)') <= c.limit
    BY DEF WindowBound, Group
  <1>1. Group(u, c, e, t)' \subseteq Group(u, c, e, t)
    BY DEF QuietStep, Group, AdmittedIn, During
  <1>2. QED
    BY <1>1, GroupFinite, SmallerGroup, GroupsBound

\* Admission by count: the group of the request holds nothing the request did not count.
LEMMA CountKeepsBound ==
  ASSUME TypeOK, RowInv, WindowBound, NEW r \in Requests, Count(r)
  PROVE  WindowBound'
  <1> SUFFICES ASSUME NEW u \in Users, NEW c \in Configs,
                      NEW e \in Requests \cup {NoRequest}, NEW t \in Instants
               PROVE  Cardinality(Group(u, c, e, t)') <= c.limit
    BY DEF WindowBound, Group
  <1> DEFINE G == Group(u, c, e, t)'
  <1>1. /\ UNCHANGED <<at, cfg, recorded, wipedBy>>
        /\ \A x \in Requests \ {r} : pc'[x] = pc[x]
        /\ \A x \in Requests \ {r} : x \in sawOwnRow' <=> x \in sawOwnRow
        /\ r \in sawOwnRow' => r \in recorded
        /\ r \in recorded => wipedBy[r] = NoRequest
    BY RequestsAssumption DEF Count, Goto, TypeOK, RowInv, tables
  <1>2. CASE r \in G
    <2>1. /\ UserOf[r] = u
          /\ pc'[r] = "allowed"
          /\ AsStrict(cfg[r], c)
          /\ r \in recorded
      BY <1>1, <1>2 DEF Group, AdmittedIn
    <2>2. e = NoRequest
      BY <1>1, <1>2, <2>1, RequestsAssumption DEF Group, AdmittedIn
    <2>3. Cardinality(InWindow(r)) <= cfg[r].limit
      BY <2>1 DEF Count, Goto, TypeOK
    <2>4. \A x \in G : x \in recorded /\ UserOf[x] = u /\ During(x, c, t)
      BY <1>1, <2>2 DEF Group, AdmittedIn, During
    <2>5. G \subseteq InWindow(r)
      BY <1>2, <2>1, <2>4, AdmittedWereCounted
    <2>6. IsFiniteSet(InWindow(r))
      <3>1. InWindow(r) \subseteq Requests
        BY DEF InWindow, TypeOK
      <3>2. QED
        BY <3>1, FS_Subset, RequestsAssumption
    <2>7. Cardinality(InWindow(r)) <= c.limit
      <3>1. cfg[r] \in Configs \cup {NoConfig}
        BY DEF TypeOK
      <3>2. c.limit \in Nat /\ cfg[r].limit \in Nat
        BY <3>1, ConfigsAssumption DEF Config, NoConfig
      <3>3. Cardinality(InWindow(r)) \in Nat
        BY <2>6, FS_CardinalityType
      <3>4. QED
        BY <2>1, <2>3, <3>2, <3>3 DEF AsStrict
    <2>8. QED
      BY <2>5, <2>6, <2>7, SmallerGroup
  <1>3. CASE r \notin G
    <2>1. G \subseteq Group(u, c, e, t)
      BY <1>1, <1>3 DEF Group, AdmittedIn, During
    <2>2. QED
      BY <2>1, GroupFinite, SmallerGroup, GroupsBound
  <1>4. QED
    BY <1>2, <1>3

\* A wipe turns the group of the rows still counted into the group of that quarantine.
LEMMA WipeKeepsBound ==
  ASSUME TypeOK, RowInv, WindowBound, NEW r \in Requests, pc[r] = "wipe",
         WipeRows(r), Goto(r, "locked"), UNCHANGED <<at, cfg, sawOwnRow>>
  PROVE  WindowBound'
  <1> SUFFICES ASSUME NEW u \in Users, NEW c \in Configs,
                      NEW e \in Requests \cup {NoRequest}, NEW t \in Instants
               PROVE  Cardinality(Group(u, c, e, t)') <= c.limit
    BY DEF WindowBound, Group
  <1>1. \A x \in Requests : pc'[x] = "allowed" => pc[x] = "allowed"
    BY DEF Goto, TypeOK
  <1>2. \A x \in Requests : wipedBy[x] # r
    BY RequestsAssumption DEF RowInv, TypeOK
  <1>3. CASE e = r
    <2>1. Group(u, c, e, t)' \subseteq Group(u, c, NoRequest, t)
      BY <1>1, <1>2, <1>3, RequestsAssumption
      DEF WipeRows, OwnRows, Group, AdmittedIn, During
    <2>2. QED
      BY <2>1, GroupFinite, SmallerGroup, GroupsBound
  <1>4. CASE e # r
    <2>1. Group(u, c, e, t)' \subseteq Group(u, c, e, t)
      BY <1>1, <1>4, RequestsAssumption
      DEF WipeRows, OwnRows, Group, AdmittedIn, During
    <2>2. QED
      BY <2>1, GroupFinite, SmallerGroup, GroupsBound
  <1>5. QED
    BY <1>3, <1>4

\* WindowBound is preserved by every step of the rate limiter.
LEMMA NextWindowBound == TypeOK /\ RowInv /\ WindowBound /\ [Next]_vars => WindowBound'
  <1> SUFFICES ASSUME TypeOK, RowInv, WindowBound, [Next]_vars PROVE WindowBound'
    OBVIOUS
  <1>0. /\ pc \in [Requests -> {"idle"} \cup Steps \cup Answers]
        /\ at \in [Requests -> Instants \cup {0}]
        /\ cfg \in [Requests -> Configs \cup {NoConfig}]
    BY DEF TypeOK
  <1>1. ASSUME NEW r \in Requests, Arrive(r) PROVE WindowBound'
    BY <1>0, <1>1, QuietStepKeepsBound DEF Arrive, QuietStep, Goto, tables
  <1>2. ASSUME NEW r \in Requests, ReadConfig(r) PROVE WindowBound'
    BY <1>0, <1>2, QuietStepKeepsBound DEF ReadConfig, QuietStep, Goto, tables, history
  <1>3. ASSUME NEW r \in Requests, CheckQuarantine(r) PROVE WindowBound'
    BY <1>0, <1>3, QuietStepKeepsBound DEF CheckQuarantine, QuietStep, Goto, tables, history
  <1>4. ASSUME NEW r \in Requests, Prune(r) PROVE WindowBound'
    BY <1>0, <1>4, QuietStepKeepsBound DEF Prune, QuietStep, Goto, history
  <1>5. ASSUME NEW r \in Requests, Record(r) PROVE WindowBound'
    BY <1>0, <1>5, QuietStepKeepsBound DEF Record, QuietStep, Goto, history
  <1>6. ASSUME NEW r \in Requests, Count(r) PROVE WindowBound'
    BY <1>6, CountKeepsBound
  <1>7. ASSUME NEW r \in Requests, Lock(r) PROVE WindowBound'
    BY <1>0, <1>7, QuietStepKeepsBound DEF Lock, QuietStep, Goto, history
  <1>8. ASSUME NEW r \in Requests, Wipe(r) PROVE WindowBound'
    BY <1>8, WipeKeepsBound DEF Wipe
  <1>9. ASSUME NEW r \in Requests, CheckFault(r) PROVE WindowBound'
    <2>1. CASE ReadFails(r)
      BY <1>0, <2>1, QuietStepKeepsBound DEF ReadFails, QuietStep, Goto, tables, history
    <2>2. CASE RecordFails(r)
      BY <1>0, <2>2, QuietStepKeepsBound DEF RecordFails, QuietStep, Goto, history
    <2>3. CASE LockFails(r)
      BY <1>0, <2>3, QuietStepKeepsBound DEF LockFails, QuietStep, Goto, history
    <2>4. CASE PruneFails(r)
      BY <1>0, <2>4, QuietStepKeepsBound DEF PruneFails, QuietStep, Goto, history
    <2>5. CASE WipeFails(r)
      <3>1. CASE WipeRows(r)
        BY <2>5, <3>1, WipeKeepsBound DEF WipeFails
      <3>2. CASE UNCHANGED <<recorded, wipedBy>>
        BY <1>0, <2>5, <3>2, QuietStepKeepsBound DEF WipeFails, QuietStep, Goto
      <3>3. QED
        BY <2>5, <3>1, <3>2 DEF WipeFails
    <2>6. QED
      BY <1>9, <2>1, <2>2, <2>3, <2>4, <2>5 DEF CheckFault
  <1>10. ASSUME NEW a \in Admins, NEW c \in Configs, DeleteConfig(a, c) PROVE WindowBound'
    BY <1>10, QuietStepKeepsBound DEF DeleteConfig, QuietStep, history
  <1>11. ASSUME NEW a \in Admins, NEW c \in Configs, SaveFails(a, c) PROVE WindowBound'
    BY <1>11, QuietStepKeepsBound DEF SaveFails, QuietStep, history
  <1>12. ASSUME NEW a \in Admins, InsertConfig(a) PROVE WindowBound'
    BY <1>12, QuietStepKeepsBound DEF InsertConfig, QuietStep, history
  <1>13. ASSUME NEW u \in Users, UnlockQuarantine(u) PROVE WindowBound'
    BY <1>13, QuietStepKeepsBound DEF UnlockQuarantine, QuietStep, history
  <1>14. CASE Tick
    BY <1>14, QuietStepKeepsBound DEF Tick, QuietStep, history, tables
  <1>15. CASE Crash
    BY <1>15, <1>0, QuietStepKeepsBound DEF Crash, QuietStep, history, tables
  <1>16. CASE UNCHANGED vars
    BY <1>16, QuietStepKeepsBound DEF vars, QuietStep, history, tables
  <1>17. QED
    BY <1>1, <1>2, <1>3, <1>4, <1>5, <1>6, <1>7, <1>8, <1>9, <1>10, <1>11, <1>12, <1>13,
       <1>14, <1>15, <1>16 DEF Next, CheckStep

LEMMA InitWindowBound == Init => WindowBound
  <1> SUFFICES ASSUME Init, NEW u \in Users, NEW c \in Configs,
                      NEW e \in Requests \cup {NoRequest}, NEW t \in Instants
               PROVE  Cardinality(Group(u, c, e, t)) <= c.limit
    BY GroupsBound
  <1>1. Group(u, c, e, t) = {}
    BY DEF Init, Group, AdmittedIn
  <1>2. c.limit \in Nat
    BY ConfigsAssumption DEF Config
  <1>3. QED
    BY <1>1, <1>2, FS_EmptySet

\* Between two wipes of a user's counter, the requests admitted in any window of time
\* never exceed the limit, however many requests, administrators, failing statements and
\* crashes interleave.
THEOREM WindowBounded == Spec => []WindowBound
  <1>1. Init => TypeOK /\ RowInv /\ WindowBound
    BY InitTypeOK, InitRowInv, InitWindowBound
  <1>2. (TypeOK /\ RowInv /\ WindowBound) /\ [Next]_vars
          => (TypeOK /\ RowInv /\ WindowBound)'
    BY NextTypeOK, NextRowInv, NextWindowBound
  <1>3. QED
    BY <1>1, <1>2, PTL DEF Spec

-----------------------------------------------------------------------------
(* The gap in the configuration table. *)

\* Once a configuration was saved, the limiter is off for want of a row only between the
\* two statements of a save, or after a save that was cut off there.
THEOREM ConfigGapIsASave == Spec => []ConfigGapExplained
  <1>1. Init => ConfigGapExplained
    BY DEF Init, ConfigGapExplained
  <1>2. TypeOK /\ ConfigGapExplained /\ [Next]_vars => ConfigGapExplained'
    <2> SUFFICES ASSUME TypeOK, ConfigGapExplained, [Next]_vars PROVE ConfigGapExplained'
      OBVIOUS
    <2>1. ASSUME NEW r \in Requests, Arrive(r) \/ CheckStep(r) PROVE ConfigGapExplained'
      BY <2>1 DEF Arrive, CheckStep, ReadConfig, CheckQuarantine, Prune, Record, Count, Lock,
                  Wipe, ConfigGapExplained, tables, adminVars
    <2>2. ASSUME NEW r \in Requests, CheckFault(r) PROVE ConfigGapExplained'
      BY <2>2 DEF CheckFault, ReadFails, RecordFails, LockFails, PruneFails, WipeFails,
                  ConfigGapExplained, tables, adminVars
    <2>3. ASSUME NEW a \in Admins, NEW c \in Configs, DeleteConfig(a, c)
          PROVE  ConfigGapExplained'
      BY <2>3 DEF DeleteConfig, ConfigGapExplained, TypeOK
    <2>4. ASSUME NEW a \in Admins, NEW c \in Configs, SaveFails(a, c)
          PROVE  ConfigGapExplained'
      BY <2>4 DEF SaveFails, ConfigGapExplained
    <2>5. ASSUME NEW a \in Admins, InsertConfig(a) PROVE ConfigGapExplained'
      <3>1. configRows' # <<>>
        <4>1. configRows \in Seq(Configs) /\ adminCfg[a] \in Configs
          BY <2>5 DEF InsertConfig, TypeOK
        <4>2. QED
          BY <2>5, <4>1 DEF InsertConfig
      <3>2. QED
        BY <3>1 DEF ConfigGapExplained
    <2>6. ASSUME NEW u \in Users, UnlockQuarantine(u) PROVE ConfigGapExplained'
      BY <2>6 DEF UnlockQuarantine, ConfigGapExplained, adminVars
    <2>7. CASE Tick
      BY <2>7 DEF Tick, ConfigGapExplained, tables, adminVars
    <2>8. CASE Crash
      BY <2>8 DEF Crash, ConfigGapExplained, tables, TypeOK
    <2>9. CASE UNCHANGED vars
      BY <2>9 DEF vars, ConfigGapExplained, tables, adminVars
    <2>10. QED
      BY <2>1, <2>2, <2>3, <2>4, <2>5, <2>6, <2>7, <2>8, <2>9 DEF Next
  <1>3. QED
    BY <1>1, <1>2, TypeCorrect, PTL DEF Spec

-----------------------------------------------------------------------------
(* Quarantine. *)

\* What a request saw in force when it arrived stays in force for it until released:
\* a quarantine belongs to a request that is past its count, whose clock reading and
\* configuration no longer change.
HeldInv ==
  /\ \A q \in locked : pc[q] \notin Unrecorded \cup {"count"}
  /\ \A r \in Requests : \A q \in held[r] :
       /\ pc[r] # "idle"
       /\ q \in locked
       /\ UserOf[q] = UserOf[r]
       /\ TextBefore(at[r], Expires(q))

LEMMA InitHeldInv == Init => HeldInv /\ QuarantineHolds
  BY DEF Init, HeldInv, QuarantineHolds

LEMMA NextHeldInv == TypeOK /\ HeldInv /\ [Next]_vars => HeldInv'
  <1> SUFFICES ASSUME TypeOK, HeldInv, [Next]_vars PROVE HeldInv'
    OBVIOUS
  <1> USE DEF HeldInv, Unrecorded, Goto, Expires
  <1>0. /\ pc \in [Requests -> {"idle"} \cup Steps \cup Answers]
        /\ at \in [Requests -> Instants \cup {0}]
        /\ cfg \in [Requests -> Configs \cup {NoConfig}]
        /\ held \in [Requests -> SUBSET Requests]
        /\ locked \subseteq Requests
    BY DEF TypeOK
  <1>1. ASSUME NEW r \in Requests, Arrive(r) PROVE HeldInv'
    <2>1. UNCHANGED <<locked, cfg>>
      BY <1>1 DEF Arrive, tables
    <2>2. \A x \in Requests : x # r => /\ pc'[x] = pc[x]
                                      /\ at'[x] = at[x]
                                      /\ held'[x] = held[x]
      BY <1>0, <1>1 DEF Arrive
    <2>3. pc[r] = "idle" /\ pc'[r] = "config" /\ at'[r] = now /\ held'[r] = InForce(UserOf[r], now)
      BY <1>0, <1>1 DEF Arrive
    <2>4. r \notin locked
      BY <2>3
    <2>5. ASSUME NEW q \in held'[r]
          PROVE  q \in locked /\ UserOf[q] = UserOf[r] /\ TextBefore(now, Expires(q))
      BY <2>3, <2>5 DEF InForce
    <2>6. \A q \in locked : q # r /\ at'[q] = at[q] /\ pc'[q] = pc[q]
      BY <1>0, <2>2, <2>4
    <2>7. \A q \in locked' : pc'[q] \notin Unrecorded \cup {"count"}
      BY <2>1, <2>6
    <2>8. ASSUME NEW x \in Requests, NEW q \in held'[x]
          PROVE  pc'[x] # "idle" /\ q \in locked' /\ UserOf[q] = UserOf[x]
                 /\ TextBefore(at'[x], at'[q] + Ticks(cfg'[q].quarantine))
      <3>1. CASE x = r
        BY <2>1, <2>3, <2>5, <2>6, <2>8, <3>1
      <3>2. CASE x # r
        BY <2>1, <2>2, <2>6, <2>8, <3>2
      <3>3. QED
        BY <3>1, <3>2
    <2>9. QED
      BY <2>7, <2>8
  <1>2. ASSUME NEW r \in Requests, ReadConfig(r) PROVE HeldInv'
    <2>1. UNCHANGED <<locked, at, held>> /\ r \notin locked
      BY <1>2 DEF ReadConfig, tables, history
    <2>2. \A x \in Requests : x # r => pc'[x] = pc[x] /\ cfg'[x] = cfg[x]
      BY <1>0, <1>2 DEF ReadConfig
    <2>3. pc'[r] # "idle"
      BY <1>0, <1>2 DEF ReadConfig
    <2>4. QED
      BY <1>0, <2>1, <2>2, <2>3
  <1>3. ASSUME NEW r \in Requests, CheckQuarantine(r) PROVE HeldInv'
    BY <1>0, <1>3 DEF CheckQuarantine, tables, history
  <1>4. ASSUME NEW r \in Requests, Prune(r) PROVE HeldInv'
    BY <1>0, <1>4 DEF Prune, history
  <1>5. ASSUME NEW r \in Requests, Record(r) PROVE HeldInv'
    BY <1>0, <1>5 DEF Record, history
  <1>6. ASSUME NEW r \in Requests, Count(r) PROVE HeldInv'
    BY <1>0, <1>6 DEF Count, tables
  <1>7. ASSUME NEW r \in Requests, Lock(r) PROVE HeldInv'
    BY <1>0, <1>7 DEF Lock, history
  <1>8. ASSUME NEW r \in Requests, Wipe(r) PROVE HeldInv'
    BY <1>0, <1>8 DEF Wipe
  <1>9. ASSUME NEW r \in Requests, CheckFault(r) PROVE HeldInv'
    <2>1. CASE ReadFails(r)
      BY <1>0, <2>1 DEF ReadFails, tables, history
    <2>2. CASE RecordFails(r)
      BY <1>0, <2>2 DEF RecordFails, history
    <2>3. CASE LockFails(r)
      BY <1>0, <2>3 DEF LockFails, history
    <2>4. CASE PruneFails(r)
      BY <1>0, <2>4 DEF PruneFails, history
    <2>5. CASE WipeFails(r)
      BY <1>0, <2>5 DEF WipeFails
    <2>6. QED
      BY <1>9, <2>1, <2>2, <2>3, <2>4, <2>5 DEF CheckFault
  <1>10. ASSUME NEW a \in Admins, NEW c \in Configs, DeleteConfig(a, c) PROVE HeldInv'
    BY <1>10 DEF DeleteConfig, history
  <1>11. ASSUME NEW a \in Admins, NEW c \in Configs, SaveFails(a, c) PROVE HeldInv'
    BY <1>11 DEF SaveFails, history
  <1>12. ASSUME NEW a \in Admins, InsertConfig(a) PROVE HeldInv'
    BY <1>12 DEF InsertConfig, history
  <1>13. ASSUME NEW u \in Users, UnlockQuarantine(u) PROVE HeldInv'
    BY <1>13 DEF UnlockQuarantine, history
  <1>14. CASE Tick
    BY <1>14 DEF Tick, history, tables
  <1>15. CASE Crash
    BY <1>0, <1>15 DEF Crash, history, tables, Steps
  <1>16. CASE UNCHANGED vars
    BY <1>16 DEF vars, history, tables
  <1>17. QED
    BY <1>1, <1>2, <1>3, <1>4, <1>5, <1>6, <1>7, <1>8, <1>9, <1>10, <1>11, <1>12, <1>13,
       <1>14, <1>15, <1>16 DEF Next, CheckStep

\* The steps QuarantineHolds speaks of, which a request reaches only through the
\* quarantine check.
Checked == {"prune", "record", "count", "allowed", "lock", "wipe", "locked"}

LEMMA NextQuarantineHolds ==
  TypeOK /\ HeldInv /\ QuarantineHolds /\ [Next]_vars => QuarantineHolds'
  <1> SUFFICES ASSUME TypeOK, HeldInv, QuarantineHolds, [Next]_vars,
                      NEW r \in Requests, pc'[r] \in Checked
               PROVE  held'[r] \subseteq unlocked'
    BY DEF QuarantineHolds, Checked
  <1>0. pc \in [Requests -> {"idle"} \cup Steps \cup Answers]
    BY DEF TypeOK
  <1>1. unlocked \subseteq unlocked'
    BY DEF Next, vars, Arrive, CheckStep, ReadConfig, CheckQuarantine, Prune, Record, Count,
           Lock, Wipe, CheckFault, ReadFails, RecordFails, LockFails, PruneFails, WipeFails,
           DeleteConfig, SaveFails, InsertConfig, UnlockQuarantine, Tick, Crash, tables
  <1>2. CASE CheckQuarantine(r)
    <2>1. held'[r] = held[r] /\ InForce(UserOf[r], at[r]) = {}
      BY <1>0, <1>2 DEF CheckQuarantine, Goto, Checked, history
    <2>2. QED
      BY <1>1, <2>1 DEF HeldInv, InForce
  <1>3. CASE ~CheckQuarantine(r)
    <2>1. pc[r] \in Checked /\ held'[r] = held[r]
      <3> USE <1>0 DEF Goto, Checked, history
      <3>1. ASSUME NEW x \in Requests, Arrive(x) PROVE pc[r] \in Checked /\ held'[r] = held[r]
        BY <3>1 DEF Arrive, TypeOK
      <3>2. ASSUME NEW x \in Requests, ReadConfig(x) \/ Prune(x) \/ Record(x)
            PROVE  pc[r] \in Checked /\ held'[r] = held[r]
        BY <3>2 DEF ReadConfig, Prune, Record
      <3>3. ASSUME NEW x \in Requests, CheckQuarantine(x)
            PROVE  pc[r] \in Checked /\ held'[r] = held[r]
        BY <1>3, <3>3 DEF CheckQuarantine
      <3>4. ASSUME NEW x \in Requests, Count(x) \/ Lock(x) \/ Wipe(x)
            PROVE  pc[r] \in Checked /\ held'[r] = held[r]
        BY <3>4 DEF Count, Lock, Wipe
      <3>5. ASSUME NEW x \in Requests, CheckFault(x)
            PROVE  pc[r] \in Checked /\ held'[r] = held[r]
        BY <3>5 DEF CheckFault, ReadFails, RecordFails, LockFails, PruneFails, WipeFails
      <3>6. CASE UNCHANGED <<pc, history>>
        BY <3>6
      <3>7. CASE Crash
        BY <3>7 DEF Crash, Steps
      <3>8. QED
        BY <3>1, <3>2, <3>3, <3>4, <3>5, <3>6, <3>7
        DEF Next, CheckStep, vars, DeleteConfig, SaveFails, InsertConfig, UnlockQuarantine, Tick
    <2>2. QED
      BY <1>1, <2>1 DEF QuarantineHolds, Checked
  <1>4. QED
    BY <1>2, <1>3

\* Nobody who arrived quarantined gets past the quarantine check before an administrator
\* has released every quarantine that was in force at the arrival.
THEOREM QuarantineHeld == Spec => []QuarantineHolds
  <1>1. Init => TypeOK /\ HeldInv /\ QuarantineHolds
    BY InitTypeOK, InitHeldInv
  <1>2. (TypeOK /\ HeldInv /\ QuarantineHolds) /\ [Next]_vars
          => (TypeOK /\ HeldInv /\ QuarantineHolds)'
    BY NextTypeOK, NextHeldInv, NextQuarantineHolds
  <1>3. QED
    BY <1>1, <1>2, PTL DEF Spec

-----------------------------------------------------------------------------
(* Justified quarantines, and rows that stay. *)

\* The steps of a request whose row was not counted by anybody, or will not be.
Uncounted == Unrecorded \cup {"denied"}

\* A request is past its configuration only with the limiter on, as are the rows counted;
\* no request carries a reading of the clock from the future.
EnabledInv ==
  /\ \A r \in Requests : pc[r] \in Steps \ {"config"} => cfg[r].enabled
  /\ \A r \in recorded : cfg[r].enabled /\ pc[r] \notin Uncounted
  /\ \A r \in Requests : at[r] <= now

\* What no step of any actor undoes: a request keeps its reading of the clock once it
\* arrived and its configuration once it has read it, does not return to before its count,
\* and locks its user only after a count above the limit.
Onward ==
  /\ now <= now'
  /\ \A x \in Requests :
       /\ pc[x] # "idle" => at'[x] = at[x] /\ pc'[x] # "idle"
       /\ pc[x] \notin {"idle", "config"} => cfg'[x] = cfg[x] /\ pc'[x] \notin {"idle", "config"}
       /\ pc[x] \notin Uncounted => pc'[x] \notin Uncounted
       /\ pc'[x] = "lock" =>
            pc[x] = "lock" \/ (Count(x) /\ ~(Cardinality(InWindow(x)) <= cfg[x].limit))
       /\ x \in locked' => x \in locked \/ pc[x] = "lock"

LEMMA OnwardOnly == TypeOK /\ [Next]_vars => Onward
  <1> SUFFICES ASSUME TypeOK, [Next]_vars PROVE Onward
    OBVIOUS
  <1> USE DEF Onward, Uncounted, Unrecorded, Goto, tables
  <1>0. /\ pc \in [Requests -> {"idle"} \cup Steps \cup Answers]
        /\ at \in [Requests -> Instants \cup {0}]
        /\ cfg \in [Requests -> Configs \cup {NoConfig}]
        /\ now \in Nat
    BY InstantsAssumption DEF TypeOK
  <1>1. ASSUME NEW r \in Requests, Arrive(r) PROVE Onward
    BY <1>0, <1>1 DEF Arrive
  <1>2. ASSUME NEW r \in Requests, ReadConfig(r) PROVE Onward
    BY <1>0, <1>2 DEF ReadConfig
  <1>3. ASSUME NEW r \in Requests, CheckQuarantine(r) \/ Prune(r) \/ Record(r) PROVE Onward
    BY <1>0, <1>3 DEF CheckQuarantine, Prune, Record
  <1>4. ASSUME NEW r \in Requests, Count(r) PROVE Onward
    <2>1. /\ UNCHANGED <<now, at, cfg, locked>>
          /\ pc[r] = "count" /\ pc'[r] \in {"allowed", "lock"}
          /\ \A x \in Requests : x # r => pc'[x] = pc[x]
          /\ pc'[r] = "lock" => ~(Cardinality(InWindow(r)) <= cfg[r].limit)
      BY <1>0, <1>4 DEF Count
    <2>2. QED
      BY <1>0, <1>4, <2>1
  <1>5. ASSUME NEW r \in Requests, Lock(r) \/ Wipe(r) PROVE Onward
    BY <1>0, <1>5 DEF Lock, Wipe
  <1>6. ASSUME NEW r \in Requests, CheckFault(r) PROVE Onward
    BY <1>0, <1>6 DEF CheckFault, ReadFails, RecordFails, LockFails, PruneFails, WipeFails
  <1>7. ASSUME NEW a \in Admins, NEW c \in Configs, DeleteConfig(a, c) \/ SaveFails(a, c) PROVE Onward
    BY <1>0, <1>7 DEF DeleteConfig, SaveFails
  <1>8. ASSUME NEW a \in Admins, InsertConfig(a) PROVE Onward
    BY <1>0, <1>8 DEF InsertConfig
  <1>9. ASSUME NEW u \in Users, UnlockQuarantine(u) PROVE Onward
    BY <1>0, <1>9 DEF UnlockQuarantine
  <1>10. CASE Tick
    <2>1. now' \in Nat /\ now' > now
      BY <1>10, InstantsAssumption DEF Tick
    <2>2. QED
      BY <1>0, <1>10, <2>1 DEF Tick
  <1>11. CASE Crash
    BY <1>0, <1>11 DEF Crash, Steps
  <1>12. CASE UNCHANGED vars
    BY <1>0, <1>12 DEF vars
  <1>13. QED
    BY <1>1, <1>2, <1>3, <1>4, <1>5, <1>6, <1>7, <1>8, <1>9, <1>10, <1>11, <1>12 DEF Next, CheckStep

LEMMA Clocks ==
  ASSUME TypeOK
  PROVE  now \in Nat /\ \A x \in Requests : at[x] \in Nat
  <1>1. \A i \in Instants \cup {0} : i \in Nat
    BY InstantsAssumption
  <1>2. now \in Instants /\ at \in [Requests -> Instants \cup {0}]
    BY DEF TypeOK
  <1>3. \A x \in Requests : at[x] \in Instants \cup {0}
    BY <1>2
  <1>4. QED
    BY <1>1, <1>2, <1>3

LEMMA NextClock ==
  ASSUME TypeOK, [Next]_vars
  PROVE  now' \in Nat
  <1>1. now' \in Instants
    BY NextTypeOK DEF TypeOK
  <1>2. QED
    BY <1>1, InstantsAssumption

\* The rows of the counter change only by a request that records its own, a prune and a wipe.
LEMMA RowsChange ==
  ASSUME TypeOK, [Next]_vars
  PROVE  /\ \A x \in recorded' : x \in recorded \/ pc[x] = "record"
         /\ \A x \in recorded : \/ x \in recorded'
                                \/ \E r \in Requests : pc[r] = "prune" /\ x \in Stale(r)
                                \/ \E r \in Requests : wipedBy'[x] = r
  <1> USE DEF Goto, tables
  <1>0. recorded \subseteq Requests /\ wipedBy \in [Requests -> Requests \cup {NoRequest}]
    BY DEF TypeOK
  <1>1. CASE UNCHANGED recorded
    BY <1>1
  <1>2. ASSUME NEW r \in Requests, Prune(r) \/ PruneFails(r)
        PROVE  /\ \A x \in recorded' : x \in recorded
               /\ \A x \in recorded : x \in recorded' \/ (pc[r] = "prune" /\ x \in Stale(r))
    BY <1>2 DEF Prune, PruneFails
  <1>3. ASSUME NEW r \in Requests, Record(r) \/ RecordFails(r)
        PROVE  /\ \A x \in recorded' : x \in recorded \/ pc[x] = "record"
               /\ recorded \subseteq recorded'
    BY <1>3 DEF Record, RecordFails
  <1>4. ASSUME NEW r \in Requests, Wipe(r) \/ WipeFails(r)
        PROVE  /\ \A x \in recorded' : x \in recorded
               /\ \A x \in recorded : x \in recorded' \/ wipedBy'[x] = r
    BY <1>0, <1>4 DEF Wipe, WipeFails, WipeRows
  <1>5. \/ UNCHANGED recorded
        \/ \E r \in Requests : \/ Prune(r) \/ PruneFails(r) \/ Record(r) \/ RecordFails(r)
                               \/ Wipe(r) \/ WipeFails(r)
    BY DEF Next, vars, Arrive, CheckStep, ReadConfig, CheckQuarantine, Count, Lock, CheckFault,
           ReadFails, LockFails, DeleteConfig, SaveFails, InsertConfig, UnlockQuarantine, Tick, Crash
  <1>6. QED
    BY <1>1, <1>2, <1>3, <1>4, <1>5

LEMMA NextEnabledInv == TypeOK /\ EnabledInv /\ [Next]_vars => EnabledInv'
  <1> SUFFICES ASSUME TypeOK, EnabledInv, [Next]_vars PROVE EnabledInv'
    OBVIOUS
  <1>0. /\ pc \in [Requests -> {"idle"} \cup Steps \cup Answers]
        /\ at \in [Requests -> Instants \cup {0}]
        /\ cfg \in [Requests -> Configs \cup {NoConfig}]
        /\ recorded \subseteq Requests
        /\ now \in Nat /\ now' \in Nat
        /\ \A x \in Requests : at[x] \in Nat
        /\ Onward
    BY Clocks, NextClock, OnwardOnly DEF TypeOK
  <1>1. ASSUME NEW x \in Requests, pc'[x] \in Steps \ {"config"}
        PROVE  cfg'[x].enabled
    <2>1. CASE ReadConfig(x)
      BY <1>0, <1>1, <2>1 DEF ReadConfig, Goto, Steps
    <2>2. CASE ~ReadConfig(x)
      <3>1. pc[x] \in Steps \ {"config"}
        <4> USE <1>0, <1>1 DEF Goto, Steps, tables
        <4>1. ASSUME NEW r \in Requests, Arrive(r) PROVE pc[x] \in Steps \ {"config"}
          BY <4>1 DEF Arrive
        <4>2. ASSUME NEW r \in Requests, CheckStep(r) PROVE pc[x] \in Steps \ {"config"}
          BY <2>2, <4>2 DEF CheckStep, ReadConfig, CheckQuarantine, Prune, Record, Count, Lock, Wipe
        <4>3. ASSUME NEW r \in Requests, CheckFault(r) PROVE pc[x] \in Steps \ {"config"}
          BY <4>3 DEF CheckFault, ReadFails, RecordFails, LockFails, PruneFails, WipeFails
        <4>4. CASE Crash
          BY <4>4 DEF Crash
        <4>5. CASE UNCHANGED pc
          BY <4>5
        <4>6. QED
          BY <4>1, <4>2, <4>3, <4>4, <4>5 DEF Next, vars, DeleteConfig, SaveFails, InsertConfig,
             UnlockQuarantine, Tick
      <3>2. cfg'[x] = cfg[x]
        BY <1>0, <3>1 DEF Onward, Steps
      <3>3. QED
        BY <3>1, <3>2 DEF EnabledInv
    <2>3. QED
      BY <2>1, <2>2
  <1>2. ASSUME NEW x \in recorded'
        PROVE  cfg'[x].enabled /\ pc'[x] \notin Uncounted
    <2>1. CASE x \in recorded
      BY <1>0, <2>1 DEF EnabledInv, Onward, Uncounted, Unrecorded
    <2>2. CASE x \notin recorded
      <3>1. x \in Requests /\ pc[x] = "record"
        BY <2>2, NextTypeOK, RowsChange DEF TypeOK
      <3>2. cfg'[x].enabled
        BY <1>0, <3>1 DEF EnabledInv, Onward, Steps
      <3>3. \E r \in Requests : Record(r) \/ RecordFails(r)
        BY <2>2 DEF Next, vars, tables, Arrive, CheckStep, ReadConfig, CheckQuarantine, Prune, Count,
           Lock, Wipe, WipeRows, CheckFault, ReadFails, LockFails, PruneFails, WipeFails, DeleteConfig,
           SaveFails, InsertConfig, UnlockQuarantine, Tick, Crash
      <3>4. pc'[x] \in {"count", "open"}
        BY <1>0, <2>2, <3>3 DEF Record, RecordFails, Goto
      <3>5. QED
        BY <3>2, <3>4 DEF Uncounted, Unrecorded
    <2>3. QED
      BY <2>1, <2>2
  <1>3. ASSUME NEW x \in Requests PROVE at'[x] <= now'
    <2>1. CASE pc[x] # "idle"
      BY <1>0, <2>1 DEF EnabledInv, Onward
    <2>2. CASE pc[x] = "idle"
      <3>1. at'[x] = at[x] \/ at'[x] = now
        BY <1>0 DEF Next, vars, Arrive, CheckStep, ReadConfig, CheckQuarantine, Prune, Record, Count,
           Lock, Wipe, CheckFault, ReadFails, RecordFails, LockFails, PruneFails, WipeFails,
           DeleteConfig, SaveFails, InsertConfig, UnlockQuarantine, Tick, Crash
      <3>2. QED
        BY <1>0, <3>1 DEF EnabledInv, Onward
    <2>3. QED
      BY <2>1, <2>2
  <1>4. QED
    BY <1>1, <1>2, <1>3 DEF EnabledInv

\* The requests QuarantineJustified counts for q.
Crowd(q) ==
  {x \in Requests : /\ UserOf[x] = UserOf[q]
                    /\ TextAtOrAfter(at[x], WindowStart(q))
                    /\ cfg[x].enabled
                    /\ pc[x] \notin Uncounted}

CrowdInv ==
  \A q \in Requests :
    q \in locked \/ pc[q] = "lock" =>
      pc[q] \notin {"idle", "config"} /\ Cardinality(Crowd(q)) > cfg[q].limit

LEMMA NextCrowdInv == TypeOK /\ EnabledInv /\ CrowdInv /\ [Next]_vars => CrowdInv'
  <1> SUFFICES ASSUME TypeOK, EnabledInv, CrowdInv, [Next]_vars, NEW q \in Requests,
                      q \in locked' \/ pc'[q] = "lock"
               PROVE  pc'[q] \notin {"idle", "config"} /\ Cardinality(Crowd(q)') > cfg'[q].limit
    BY DEF CrowdInv
  <1>0. Onward /\ cfg \in [Requests -> Configs \cup {NoConfig}] /\ recorded \subseteq Requests
    BY OnwardOnly DEF TypeOK
  <1>1. \/ q \in locked \/ pc[q] = "lock"
        \/ Count(q) /\ ~(Cardinality(InWindow(q)) <= cfg[q].limit)
    BY <1>0 DEF Onward
  <1>2. pc[q] \notin {"idle", "config"}
    BY <1>1 DEF CrowdInv, Count
  <1>3. /\ pc'[q] \notin {"idle", "config"}
        /\ at'[q] = at[q] /\ cfg'[q] = cfg[q]
    BY <1>0, <1>2 DEF Onward
  <1>4. Crowd(q) \subseteq Crowd(q)'
    BY <1>0, <1>3 DEF Crowd, WindowStart, Onward, Uncounted, Unrecorded
  <1>5. IsFiniteSet(Crowd(q)')
    BY RequestsAssumption, FS_Subset DEF Crowd
  <1>6. \E S : S \subseteq Crowd(q)' /\ ~(Cardinality(S) <= cfg[q].limit)
    <2>1. CASE q \in locked \/ pc[q] = "lock"
      <3>1. Cardinality(Crowd(q)) > cfg[q].limit
        BY <2>1 DEF CrowdInv
      <3>2. Cardinality(Crowd(q)) \in Nat
        BY RequestsAssumption, FS_Subset, FS_CardinalityType DEF Crowd
      <3>3. cfg[q].limit \in Nat
        BY <1>0, ConfigsAssumption DEF Config, NoConfig
      <3>4. QED
        BY <1>4, <3>1, <3>2, <3>3
    <2>2. CASE Count(q) /\ ~(Cardinality(InWindow(q)) <= cfg[q].limit)
      <3>1. InWindow(q) \subseteq Crowd(q)
        BY <1>0 DEF InWindow, Crowd, EnabledInv
      <3>2. QED
        BY <1>4, <2>2, <3>1
    <2>3. QED
      BY <1>1, <2>1, <2>2
  <1>7. PICK S : S \subseteq Crowd(q)' /\ ~(Cardinality(S) <= cfg[q].limit)
    BY <1>6
  <1>8. Cardinality(S) <= Cardinality(Crowd(q)') /\ Cardinality(S) \in Nat
          /\ Cardinality(Crowd(q)') \in Nat
    BY <1>5, <1>7, FS_Subset, FS_CardinalityType
  <1>9. cfg[q].limit \in Nat
    BY <1>0, ConfigsAssumption DEF Config, NoConfig
  <1>10. QED
    BY <1>3, <1>7, <1>8, <1>9

LEMMA InitEnabledInv == Init => EnabledInv /\ CrowdInv
  BY InstantsAssumption DEF Init, EnabledInv, CrowdInv, Steps

\* A user is quarantined only after more requests of that user than the limit, all in the
\* window of the request that was denied, passed the quarantine check.
THEOREM QuarantinesAreJustified == Spec => []QuarantineJustified
  <1>1. Init => TypeOK /\ EnabledInv /\ CrowdInv
    BY InitTypeOK, InitEnabledInv
  <1>2. (TypeOK /\ EnabledInv /\ CrowdInv) /\ [Next]_vars => (TypeOK /\ EnabledInv /\ CrowdInv)'
    BY NextTypeOK, NextEnabledInv, NextCrowdInv
  <1>3. TypeOK /\ CrowdInv => QuarantineJustified
    <2> SUFFICES ASSUME TypeOK, CrowdInv, NEW q \in locked
                 PROVE  Cardinality({x \in Requests :
                          /\ UserOf[x] = UserOf[q]
                          /\ TextAtOrAfter(at[x], WindowStart(q))
                          /\ cfg[x].enabled
                          /\ pc[x] \notin {"idle", "config", "quarantine", "prune", "record", "denied"}})
                          > cfg[q].limit
      BY DEF QuarantineJustified
    <2>1. Crowd(q) = {x \in Requests :
                          /\ UserOf[x] = UserOf[q]
                          /\ TextAtOrAfter(at[x], WindowStart(q))
                          /\ cfg[x].enabled
                          /\ pc[x] \notin {"idle", "config", "quarantine", "prune", "record", "denied"}}
      BY DEF Crowd, Uncounted, Unrecorded
    <2>2. q \in Requests
      BY DEF TypeOK
    <2>3. QED
      BY <2>1, <2>2 DEF CrowdInv
  <1>4. QED
    BY <1>1, <1>2, <1>3, PTL DEF Spec

\* A later second sorts behind every instant of an earlier one, so a row of a second the
\* window has not left is not stale, whatever the fractions.
LEMMA LaterSecondsSortLater ==
  ASSUME NEW a \in Nat, NEW b \in Nat, NEW t \in Nat, NEW w \in Nat,
         b <= t, Second(a) > Second(t) - w
  PROVE  ~TextBefore(a, b - Ticks(w))
  <1>1. Second(b) <= Second(t)
    BY DEF Second
  <1>2. Second(a) >= Second(b) - w + 1 /\ Second(a) \in Int /\ Second(b) \in Int
    BY <1>1 DEF Second
  <1>3. a >= 10 * Second(a) /\ b <= 10 * Second(b) + 9
    BY DEF Second
  <1>4. TextKey(a) >= 10 * Second(a)
    <2>1. a % 10 = 0 => TextKey(a) = a + 9
      BY DEF TextKey
    <2>2. a % 10 # 0 => TextKey(a) = a - 1 /\ a >= 10 * Second(a) + 1
      BY DEF TextKey, Second
    <2>3. QED
      BY <1>3, <2>1, <2>2, <1>2
  <1>5. TextKey(b) <= 10 * Second(b) + 9
    <2>1. b % 10 = 0 => TextKey(b) = b + 9 /\ b = 10 * Second(b)
      BY DEF TextKey, Second
    <2>2. b % 10 # 0 => TextKey(b) = b - 1
      BY DEF TextKey
    <2>3. QED
      BY <1>3, <2>1, <2>2, <1>2
  <1>6. TextKey(b - Ticks(w)) = TextKey(b) - Ticks(w)
    BY TextKeyShift
  <1>7. TextKey(a) \in Int /\ TextKey(b) \in Int
    BY TextKeyType
  <1>8. QED
    BY <1>2, <1>4, <1>5, <1>6, <1>7 DEF TextBefore, Ticks

\* A request that recorded its row and is still inside the shortest window in use is counted
\* by every later request of its user, unless a quarantine of that user wiped its row.
THEOREM RowsStayWhileLive == Spec => []LiveRowsStay
  <1>1. Init => LiveRowsStay
    BY DEF Init, LiveRowsStay
  <1>2. TypeOK /\ EnabledInv /\ LiveRowsStay /\ [Next]_vars => LiveRowsStay'
    <2> SUFFICES ASSUME TypeOK, EnabledInv, LiveRowsStay, [Next]_vars, NEW x \in Requests,
                        pc'[x] \in {"count", "allowed"}, wipedBy'[x] = NoRequest,
                        \A c \in Configs : Second(at'[x]) > Second(now') - c.window
                 PROVE  x \in recorded'
      BY DEF LiveRowsStay
    <2>0. /\ pc \in [Requests -> {"idle"} \cup Steps \cup Answers]
          /\ at \in [Requests -> Instants \cup {0}]
          /\ cfg \in [Requests -> Configs \cup {NoConfig}]
          /\ wipedBy \in [Requests -> Requests \cup {NoRequest}]
          /\ now \in Nat /\ now' \in Nat
          /\ \A y \in Requests : at[y] \in Nat
          /\ \A c \in Configs : c.window \in Nat
          /\ Onward
      BY Clocks, NextClock, OnwardOnly, ConfigsAssumption DEF TypeOK, Config
    <2>1. Record(x) \/ pc[x] \in {"count", "allowed"}
      <3> USE <2>0 DEF Goto, tables, Steps
      <3>1. ASSUME NEW r \in Requests, Arrive(r) \/ CheckStep(r)
            PROVE  Record(x) \/ pc[x] \in {"count", "allowed"}
        BY <3>1 DEF Arrive, CheckStep, ReadConfig, CheckQuarantine, Prune, Record, Count, Lock, Wipe
      <3>2. ASSUME NEW r \in Requests, CheckFault(r) PROVE pc[x] \in {"count", "allowed"}
        BY <3>2 DEF CheckFault, ReadFails, RecordFails, LockFails, PruneFails, WipeFails
      <3>3. CASE Crash
        BY <3>3 DEF Crash
      <3>4. CASE UNCHANGED pc
        BY <3>4
      <3>5. QED
        BY <3>1, <3>2, <3>3, <3>4 DEF Next, vars, DeleteConfig, SaveFails, InsertConfig,
           UnlockQuarantine, Tick
    <2>2. CASE Record(x)
      BY <2>2 DEF Record
    <2>3. CASE pc[x] \in {"count", "allowed"}
      <3>1. at'[x] = at[x]
        BY <2>0, <2>3 DEF Onward
      <3>2. \A c \in Configs : Second(at[x]) > Second(now) - c.window
        BY <2>0, <3>1 DEF Onward, Second
      <3>3. wipedBy[x] = NoRequest
        <4>1. wipedBy'[x] = wipedBy[x] \/ wipedBy'[x] \in Requests
          BY <2>0 DEF Next, vars, history, Arrive, CheckStep, ReadConfig, CheckQuarantine, Prune, Record,
             Count, Lock, Wipe, WipeRows, CheckFault, ReadFails, RecordFails, LockFails, PruneFails,
             WipeFails, DeleteConfig, SaveFails, InsertConfig, UnlockQuarantine, Tick, Crash
        <4>2. QED
          BY <4>1, RequestsAssumption
      <3>4. x \in recorded
        BY <2>3, <3>2, <3>3 DEF LiveRowsStay
      <3>5. ASSUME NEW r \in Requests, pc[r] = "prune" PROVE x \notin Stale(r)
        <4>1. cfg[r] \in Configs
          BY <2>0, <3>5 DEF EnabledInv, Steps, NoConfig
        <4>2. at[r] <= now
          BY DEF EnabledInv
        <4>3. ~TextBefore(at[x], at[r] - Ticks(cfg[r].window))
          BY <2>0, <3>2, <4>1, <4>2, LaterSecondsSortLater
        <4>4. QED
          BY <4>3 DEF Stale, WindowStart
      <3>6. QED
        BY <3>4, <3>5, RowsChange, RequestsAssumption
    <2>4. QED
      BY <2>1, <2>2, <2>3
  <1>3. QED
    <2>1. Init => TypeOK /\ EnabledInv /\ LiveRowsStay
      BY <1>1, InitTypeOK, InitEnabledInv
    <2>2. (TypeOK /\ EnabledInv /\ LiveRowsStay) /\ [Next]_vars
            => (TypeOK /\ EnabledInv /\ LiveRowsStay)'
      BY <1>2, NextTypeOK, NextEnabledInv
    <2>3. QED
      BY <2>1, <2>2, PTL DEF Spec
=============================================================================

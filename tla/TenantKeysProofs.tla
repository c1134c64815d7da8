--------------------------- MODULE TenantKeysProofs ---------------------------
(***************************************************************************)
(* Proofs about TenantKeys: types, the life of a row and of its limit, the *)
(* audit trail, and that a revoked or deleted key authenticates nobody,    *)
(* over any number of restarts.                                            *)
(***************************************************************************)
EXTENDS TenantKeys, TLAPS

LEMMA InitTypeOK == Init => TypeOK
<1> SUFFICES ASSUME Init PROVE TypeOK
  OBVIOUS
<1>1. row \in [Keys -> Row \cup {NoRow}]
  BY DEF Init
<1>2. job \in [Admins -> {NoJob} \cup (Actions \X Keys)]
  BY DEF Init
<1>3. QED
  BY <1>1, <1>2, LimitsAssumption DEF Init, TypeOK

LEMMA MigratedType == \A x \in Row : Migrated(x) \in Row /\ Migrated(x).user = x.user
                                                        /\ Migrated(x).status = x.status
BY LimitsAssumption DEF Migrated, Row

\* A start changes at most the limit of a row.
LEMMA StartKeepsRows ==
  ASSUME TypeOK, NEW e \in Envs, NEW f \in BOOLEAN, Start(e, f), NEW k \in Keys
  PROVE  /\ row'[k] \in Row \cup {NoRow}
         /\ row[k] = NoRow <=> row'[k] = NoRow
         /\ HasRow(k) => row'[k].user = row[k].user /\ row'[k].status = row[k].status
<1>1. row'[k] = IF HasRow(k) THEN Migrated(row[k]) ELSE NoRow
  BY DEF Start
<1>2. row[k] \in Row \cup {NoRow}
  BY DEF TypeOK
<1>3. CASE HasRow(k)
  BY <1>1, <1>2, <1>3, MigratedType, NoRowAssumption DEF HasRow
<1>4. CASE ~HasRow(k)
  BY <1>1, <1>2, <1>4 DEF HasRow
<1>5. QED
  BY <1>3, <1>4

\* Every action keeps the types.
LEMMA NextTypeOK == TypeOK /\ [Next]_vars => TypeOK'
<1> SUFFICES ASSUME TypeOK, [Next]_vars PROVE TypeOK'
  OBVIOUS
<1> USE KeysAssumption, UsersAssumption, LimitsAssumption, BoundsAssumption
        DEF TypeOK, Fault, Goto, process, requests, admin, history, HasRow
<1>1. ASSUME NEW e \in Envs, NEW f \in BOOLEAN, Start(e, f) PROVE TypeOK'
  <2>1. row' \in [Keys -> Row \cup {NoRow}]
    <3>1. \A k \in Keys : row'[k] \in Row \cup {NoRow}
      BY <1>1, StartKeepsRows
    <3>2. QED
      BY <1>1, <3>1 DEF Start
  <2>2. env' \in [Keys -> Users \cup {NoUser}]
    BY <1>1, EnvsAssumption DEF Start
  <2>3. QED
    BY <1>1, <2>1, <2>2 DEF Start
<1>2. ASSUME NEW k \in Keys, Import(k) PROVE TypeOK'
  <2>1. env[k] \in Users
    BY <1>2 DEF Import
  <2>2. Imported(k) \in Row
    BY <2>1 DEF Imported, Row, Statuses, NoLimit
  <2>3. row' \in [Keys -> Row \cup {NoRow}]
    BY <1>2, <2>2 DEF Import
  <2>4. QED
    BY <1>2, <2>3 DEF Import
<1>3. ASSUME NEW k \in Keys, ImportFails(k) PROVE TypeOK'
  <2>1. env[k] \in Users
    BY <1>3 DEF ImportFails
  <2>2. Imported(k) \in Row
    BY <2>1 DEF Imported, Row, Statuses, NoLimit
  <2>3. row' \in [Keys -> Row \cup {NoRow}]
    BY <1>3, <2>2 DEF ImportFails
  <2>4. QED
    BY <1>3, <2>3 DEF ImportFails
<1>4. CASE Serve
  BY <1>4 DEF Serve
<1>5. CASE Crash
  <2>1. cut' \subseteq Actions \X Keys
    BY <1>5 DEF Crash
  <2>2. QED
    BY <1>5, <2>1 DEF Crash
<1>6. ASSUME NEW r \in Requests, NEW k \in Keys, Arrive(r, k) PROVE TypeOK'
  BY <1>6 DEF Arrive
<1>7. ASSUME NEW r \in Requests, Lookup(r) PROVE TypeOK'
  <2>1. key[r] \in Keys
    BY <1>7 DEF Lookup
  <2>2. CASE Deny(r)
    BY <1>7, <2>1, <2>2 DEF Lookup, Deny
  <2>3. ASSUME NEW u \in Users, NEW step \in {"touch", "admitted"}, Admit(r, u, step)
        PROVE  TypeOK'
    BY <1>7, <2>1, <2>3 DEF Lookup, Admit
  <2>4. Findable(key[r]) => row[key[r]].user \in Users
    BY <2>1 DEF Findable, Row
  <2>5. env[key[r]] # NoUser => env[key[r]] \in Users
    BY <2>1
  <2>6. \/ Findable(key[r]) /\ Admit(r, row[key[r]].user, "touch")
        \/ env[key[r]] # NoUser /\ Admit(r, env[key[r]], "admitted")
        \/ Deny(r)
    BY <1>7 DEF Lookup
  <2>7. QED
    BY <2>2, <2>3, <2>4, <2>5, <2>6
<1>8. ASSUME NEW r \in Requests, LookupFails(r) PROVE TypeOK'
  BY <1>8 DEF LookupFails, Deny
<1>9. ASSUME NEW r \in Requests, Touch(r) PROVE TypeOK'
  BY <1>9 DEF Touch
<1>10. ASSUME NEW a \in Admins, NEW k \in Keys, CreateKey(a, k) PROVE TypeOK'
  BY <1>10 DEF CreateKey, Begin, Report, Row, Statuses, NoLimit, Actions
<1>11. ASSUME NEW a \in Admins, NEW k \in Keys, Revoke(a, k) PROVE TypeOK'
  BY <1>11 DEF Revoke, Begin, Report, Row, Statuses, Actions
<1>12. ASSUME NEW a \in Admins, NEW k \in Keys, Delete(a, k) PROVE TypeOK'
  BY <1>12 DEF Delete, Begin, Report, Row, Statuses, Actions
<1>13. ASSUME NEW a \in Admins, NEW k \in Keys, NEW l \in Limits, SetLimit(a, k, l)
       PROVE TypeOK'
  BY <1>13 DEF SetLimit, Begin, Row
<1>14. ASSUME NEW a \in Admins, Audit(a) PROVE TypeOK'
  BY <1>14 DEF Audit
<1>15. ASSUME NEW a \in Admins, ChangeFails(a) PROVE TypeOK'
  BY <1>15 DEF ChangeFails, Begin
<1>16. CASE UNCHANGED vars
  BY <1>16 DEF vars
<1>17. QED
  BY <1>1, <1>2, <1>3, <1>4, <1>5, <1>6, <1>7, <1>8, <1>9, <1>10, <1>11, <1>12, <1>13,
     <1>14, <1>15, <1>16 DEF Next

\* Every variable keeps its type, whatever the keys, users and environments.
THEOREM TypeCorrect == Spec => []TypeOK
<1>1. Init => TypeOK
  BY InitTypeOK
<1>2. TypeOK /\ [Next]_vars => TypeOK'
  BY NextTypeOK
<1>3. QED
  BY <1>1, <1>2, PTL DEF Spec

-----------------------------------------------------------------------------
(* The life of a row. *)

\* Row k, if there is one, stays, keeps its user and does not get more active.
Falls(k) ==
  HasRow(k) => /\ row'[k] # NoRow
               /\ row'[k].user = row[k].user
               /\ StatusRank(row'[k].status) >= StatusRank(row[k].status)

LEMMA UnchangedRowFalls ==
  ASSUME TypeOK, NEW k \in Keys, row'[k] = row[k]
  PROVE  Falls(k)
<1> SUFFICES ASSUME HasRow(k) PROVE StatusRank(row[k].status) >= StatusRank(row[k].status)
  BY DEF Falls, HasRow
<1>1. row[k].status \in Statuses
  BY DEF TypeOK, HasRow, Row
<1>2. QED
  BY <1>1 DEF StatusRank, Statuses

LEMMA StepFalls == TypeOK /\ [Next]_vars => \A k \in Keys : Falls(k)
<1> SUFFICES ASSUME TypeOK, [Next]_vars, NEW k \in Keys PROVE Falls(k)
  OBVIOUS
<1>0. HasRow(k) => row[k] \in Row
  BY DEF TypeOK, HasRow
<1>1. CASE row' = row
  BY <1>1, UnchangedRowFalls
<1>2. ASSUME NEW e \in Envs, NEW f \in BOOLEAN, Start(e, f) PROVE Falls(k)
  <2>1. HasRow(k) => /\ row'[k] # NoRow
                     /\ row'[k].user = row[k].user
                     /\ row'[k].status = row[k].status
    BY <1>2, StartKeepsRows DEF HasRow
  <2>2. row[k].status \in Statuses => StatusRank(row[k].status) \in Nat
    BY DEF StatusRank, Statuses
  <2>3. QED
    BY <1>0, <2>1, <2>2 DEF Falls, Row
<1>3. ASSUME NEW x \in Keys, Import(x) \/ ImportFails(x) PROVE Falls(k)
  <2>1. HasRow(k) => row'[k] = row[k]
    BY <1>3 DEF Import, ImportFails, HasRow, TypeOK
  <2>2. CASE HasRow(k)
    BY <2>1, <2>2, UnchangedRowFalls
  <2>3. QED
    BY <2>2 DEF Falls
<1>4. ASSUME NEW a \in Admins, NEW x \in Keys, CreateKey(a, x) PROVE Falls(k)
  <2>1. HasRow(k) => row'[k] = row[k]
    BY <1>4 DEF CreateKey, HasRow, TypeOK
  <2>2. CASE HasRow(k)
    BY <2>1, <2>2, UnchangedRowFalls
  <2>3. QED
    BY <2>2 DEF Falls
<1>5. ASSUME NEW a \in Admins, NEW x \in Keys, Revoke(a, x) PROVE Falls(k)
  <2>1. CASE row'[k] = row[k]
    BY <2>1, UnchangedRowFalls
  <2>2. CASE row'[k] # row[k]
    <3>1. /\ HasRow(k)
          /\ row'[k] = [row[k] EXCEPT !.status = "revoked"]
          /\ row[k].status = "active"
      BY <1>5, <2>2 DEF Revoke, TypeOK
    <3>2. /\ row'[k] \in Row
          /\ row'[k].user = row[k].user
          /\ row'[k].status = "revoked"
      BY <1>0, <3>1 DEF Row, Statuses
    <3>3. StatusRank("revoked") >= StatusRank("active")
      BY DEF StatusRank
    <3>4. QED
      BY <3>1, <3>2, <3>3, NoRowAssumption DEF Falls
  <2>3. QED
    BY <2>1, <2>2
<1>6. ASSUME NEW a \in Admins, NEW x \in Keys, Delete(a, x) PROVE Falls(k)
  <2>1. CASE k # x
    <3>1. row'[k] = row[k]
      BY <1>6, <2>1 DEF Delete, TypeOK
    <3>2. QED
      BY <3>1, UnchangedRowFalls
  <2>2. CASE k = x
    <3>1. row'[k] = [row[k] EXCEPT !.status = "deleted"] /\ HasRow(k)
      BY <1>6, <2>2 DEF Delete, TypeOK
    <3>2. /\ row'[k] \in Row
          /\ row'[k].user = row[k].user
          /\ row'[k].status = "deleted"
          /\ row[k].status \in Statuses
      BY <1>0, <3>1 DEF Row, Statuses
    <3>3. \A s \in Statuses : StatusRank("deleted") >= StatusRank(s)
      BY DEF StatusRank, Statuses
    <3>4. QED
      BY <3>2, <3>3, NoRowAssumption DEF Falls
  <2>3. QED
    BY <2>1, <2>2
<1>7. ASSUME NEW a \in Admins, NEW x \in Keys, NEW l \in Limits, SetLimit(a, x, l)
      PROVE Falls(k)
  <2>1. CASE k # x
    <3>1. row'[k] = row[k]
      BY <1>7, <2>1 DEF SetLimit, TypeOK
    <3>2. QED
      BY <3>1, UnchangedRowFalls
  <2>2. CASE k = x
    <3>1. row'[k] = [row[k] EXCEPT !.eur = l] /\ HasRow(k)
      BY <1>7, <2>2 DEF SetLimit, TypeOK
    <3>2. /\ row'[k] \in Row
          /\ row'[k].user = row[k].user
          /\ row'[k].status = row[k].status
          /\ row[k].status \in Statuses
      BY <1>0, <3>1 DEF Row
    <3>3. \A s \in Statuses : StatusRank(s) >= StatusRank(s)
      BY DEF StatusRank, Statuses
    <3>4. QED
      BY <3>2, <3>3, NoRowAssumption DEF Falls
  <2>3. QED
    BY <2>1, <2>2
<1>8. QED
  <2>1. CASE \E a \in Admins : ChangeFails(a)
    BY <1>1, <2>1 DEF ChangeFails
  <2>2. CASE Serve \/ Crash \/ UNCHANGED vars
    BY <1>1, <2>2 DEF Serve, Crash, vars
  <2>3. CASE \E r \in Requests : Lookup(r) \/ LookupFails(r) \/ Touch(r)
    BY <1>1, <2>3 DEF Lookup, LookupFails, Touch
  <2>4. CASE \E r \in Requests, x \in Keys : Arrive(r, x)
    BY <1>1, <2>4 DEF Arrive
  <2>5. CASE \E a \in Admins : Audit(a)
    BY <1>1, <2>5 DEF Audit
  <2>6. QED
    BY <1>2, <1>3, <1>4, <1>5, <1>6, <1>7, <2>1, <2>2, <2>3, <2>4, <2>5 DEF Next

\* No sequence of administrators, restarts and imports drops a row, gives it to another
\* user or makes its key active again.
THEOREM RowsFall == Spec => RowsOnlyFall
<1>1. TypeOK /\ [Next]_vars =>
        [\A k \in Keys :
           HasRow(k) => /\ row'[k] # NoRow
                        /\ row'[k].user = row[k].user
                        /\ StatusRank(row'[k].status) >= StatusRank(row[k].status)]_vars
  BY StepFalls DEF Falls
<1>2. QED
  BY <1>1, TypeCorrect, PTL DEF Spec, RowsOnlyFall

-----------------------------------------------------------------------------
(* Revoked keys. *)

\* The strengthening of RevokedStaysOut: the key of a barred request has a row that is
\* not active, so a lookup that still has to come finds it and denies.
BarredInv ==
  \A r \in barred :
    /\ pc[r] # "idle"
    /\ HasRow(key[r])
    /\ row[key[r]].status # "active"
    /\ key[r] \notin Shaped => pc[r] \notin {"touch", "admitted"}

LEMMA InactiveStays ==
  ASSUME TypeOK, TypeOK', [Next]_vars, NEW k \in Keys, HasRow(k), row[k].status # "active"
  PROVE  HasRow(k)' /\ row'[k].status # "active"
<1>1. row'[k] # NoRow /\ StatusRank(row'[k].status) >= StatusRank(row[k].status)
  BY StepFalls DEF Falls
<1>2. row[k].status \in {"revoked", "deleted"}
  BY DEF TypeOK, HasRow, Row, Statuses
<1>3. StatusRank(row[k].status) \in {1, 2}
  BY <1>2 DEF StatusRank
<1>4. StatusRank("active") = 0
  BY DEF StatusRank
<1>5. QED
  BY <1>1, <1>3, <1>4 DEF HasRow

\* A lookup whose key has a row that is not active denies, unless the key is one of those
\* whose row is never found.
LEMMA LookupDenies ==
  ASSUME TypeOK, NEW r \in Requests, Lookup(r), HasRow(key[r]),
         row[key[r]].status # "active", key[r] \notin Shaped
  PROVE  pc'[r] = "denied"
BY DEF Lookup, Findable, Deny, Goto, TypeOK

LEMMA NextBarredInv == TypeOK /\ TypeOK' /\ BarredInv /\ [Next]_vars => BarredInv'
<1> SUFFICES ASSUME TypeOK, TypeOK', BarredInv, [Next]_vars, NEW r \in barred'
             PROVE  /\ pc'[r] # "idle"
                    /\ HasRow(key[r])'
                    /\ row'[key'[r]].status # "active"
                    /\ key'[r] \notin Shaped => pc'[r] \notin {"touch", "admitted"}
  BY DEF BarredInv
<1>0. r \in Requests /\ barred \subseteq Requests /\ key \in [Requests -> Keys \cup {NoKey}]
  BY DEF TypeOK
<1>1. CASE r \notin barred
  <2>1. PICK x \in Requests, k \in Keys : Arrive(x, k)
    BY <1>1 DEF Next, vars, history, Start, Import, ImportFails, Serve, Crash, Lookup,
       LookupFails, Touch, CreateKey, Revoke, Delete, SetLimit, Report, ChangeFails, Audit
  <2>2. r = x /\ HasRow(k) /\ row[k].status # "active" /\ row' = row
    BY <1>1, <2>1 DEF Arrive
  <2>3. pc'[r] = "lookup" /\ key'[r] = k
    BY <1>0, <2>1, <2>2 DEF Arrive, Goto, TypeOK
  <2>4. QED
    BY <2>2, <2>3 DEF HasRow
<1>2. CASE r \in barred
  <2>1. /\ pc[r] # "idle"
        /\ HasRow(key[r])
        /\ row[key[r]].status # "active"
        /\ key[r] \notin Shaped => pc[r] \notin {"touch", "admitted"}
    BY <1>2 DEF BarredInv
  <2>2. key[r] \in Keys
    BY <1>0, <2>1 DEF TypeOK
  <2>3. key'[r] = key[r]
    <3>1. ASSUME NEW x \in Requests, NEW k \in Keys, Arrive(x, k) PROVE key'[r] = key[r]
      BY <1>0, <2>1, <3>1 DEF Arrive
    <3>2. QED
      BY <3>1 DEF Next, vars, requests, Start, Import, ImportFails, Serve, Crash, Lookup,
         LookupFails, Touch, CreateKey, Revoke, Delete, SetLimit, Report, ChangeFails, Audit
  <2>4. HasRow(key[r])' /\ row'[key'[r]].status # "active"
    BY <2>1, <2>2, <2>3, InactiveStays DEF HasRow
  <2>5. pc'[r] # "idle" /\ (key[r] \notin Shaped => pc'[r] \notin {"touch", "admitted"})
    <3>1. ASSUME NEW x \in Requests, NEW k \in Keys, Arrive(x, k)
          PROVE  pc'[r] = pc[r]
      BY <1>0, <2>1, <3>1 DEF Arrive, Goto, TypeOK
    <3>2. ASSUME NEW x \in Requests, Lookup(x)
          PROVE  \/ pc'[r] = pc[r]
                 \/ key[r] \in Shaped /\ pc'[r] # "idle"
                 \/ pc'[r] = "denied"
      <4>1. CASE x = r
        <5>1. pc'[r] \in {"touch", "admitted", "denied"}
          BY <1>0, <3>2, <4>1 DEF Lookup, Admit, Deny, Goto, TypeOK
        <5>2. QED
          BY <1>0, <2>1, <3>2, <4>1, <5>1, LookupDenies
      <4>2. CASE x # r
        <5>1. \/ pc' = [pc EXCEPT ![x] = "touch"]
              \/ pc' = [pc EXCEPT ![x] = "admitted"]
              \/ pc' = [pc EXCEPT ![x] = "denied"]
          BY <3>2 DEF Lookup, Admit, Deny, Goto
        <5>2. DOMAIN pc = Requests
          BY DEF TypeOK
        <5>3. QED
          BY <1>0, <4>2, <5>1, <5>2
      <4>3. QED
        BY <4>1, <4>2
    <3>3. ASSUME NEW x \in Requests, LookupFails(x)
          PROVE  pc'[r] \in {pc[r], "denied"}
      BY <1>0, <3>3 DEF LookupFails, Deny, Goto, TypeOK
    <3>4. ASSUME NEW x \in Requests, Touch(x)
          PROVE  pc'[r] = pc[r] \/ (pc[r] = "touch" /\ pc'[r] = "admitted")
      <4>1. pc[x] = "touch" /\ pc' = [pc EXCEPT ![x] = "admitted"]
        BY <3>4 DEF Touch, Goto
      <4>2. DOMAIN pc = Requests
        BY DEF TypeOK
      <4>3. QED
        BY <1>0, <4>1, <4>2
    <3>5. CASE Crash
      <4>1. pc'[r] \in {pc[r], "died"}
        BY <1>0, <3>5 DEF Crash
      <4>2. QED
        BY <2>1, <4>1
    <3>6. CASE pc' = pc
      BY <2>1, <3>6
    <3>7. CASE \E e \in Envs, f \in BOOLEAN : Start(e, f)
      BY <3>6, <3>7 DEF Start, requests
    <3>8. CASE \E k \in Keys : Import(k) \/ ImportFails(k)
      BY <3>6, <3>8 DEF Import, ImportFails, requests
    <3>9. CASE \E a \in Admins, k \in Keys : CreateKey(a, k) \/ Revoke(a, k) \/ Delete(a, k)
      BY <3>6, <3>9 DEF CreateKey, Revoke, Delete, requests
    <3>10. CASE \E a \in Admins, k \in Keys, l \in Limits : SetLimit(a, k, l)
      BY <3>6, <3>10 DEF SetLimit, requests
    <3>11. CASE Serve \/ (\E a \in Admins : ChangeFails(a) \/ Audit(a)) \/ UNCHANGED vars
      BY <3>6, <3>11 DEF Serve, ChangeFails, Audit, requests, vars
    <3>12. QED
      BY <2>1, <3>1, <3>2, <3>3, <3>4, <3>5, <3>7, <3>8, <3>9, <3>10, <3>11 DEF Next
  <2>6. QED
    BY <2>3, <2>4, <2>5
<1>3. QED
  BY <1>1, <1>2

\* A request whose key was revoked or deleted before it arrived is never admitted, over
\* any number of restarts with the key still in the environment.
THEOREM RevokedOut == Spec => []RevokedStaysOut
<1>1. Init => BarredInv
  BY DEF Init, BarredInv
<1>2. BarredInv => RevokedStaysOut
  BY DEF BarredInv, RevokedStaysOut
<1>3. QED
  BY <1>1, <1>2, NextBarredInv, TypeCorrect, PTL DEF Spec

-----------------------------------------------------------------------------
(* One user per key. *)

\* What a boot has done: a key of the environment has a row, or its import failed, or is
\* still to come; and requests run only when nothing is to come.
BootInv ==
  /\ phase = "up" => toImport = {}
  /\ phase # "down" =>
       \A k \in Keys : env[k] # NoUser => HasRow(k) \/ k \in missed \/ k \in toImport
  /\ \A r \in Requests : pc[r] = "lookup" => phase = "up"

\* A request's user is that of its key's row, unless the key was honoured without one.
UserInv ==
  \A r \in Requests :
    /\ pc[r] = "idle" => user[r] = NoUser
    /\ user[r] # NoUser => \/ key[r] \in missed \cup Shaped
                           \/ HasRow(key[r]) /\ row[key[r]].user = user[r]

\* Only an arriving request turns to its lookup, and it arrives at a running process.
LEMMA OnlyArriveLooksUp ==
  ASSUME TypeOK, [Next]_vars, NEW r \in Requests, pc'[r] = "lookup", pc[r] # "lookup"
  PROVE  phase' = "up"
<1>0. DOMAIN pc = Requests
  BY DEF TypeOK
<1>1. ASSUME NEW x \in Requests, NEW k \in Keys, Arrive(x, k) PROVE phase' = "up"
  BY <1>1 DEF Arrive, process
<1>2. ASSUME NEW x \in Requests, Lookup(x) PROVE FALSE
  <2>1. \/ pc' = [pc EXCEPT ![x] = "touch"]
        \/ pc' = [pc EXCEPT ![x] = "admitted"]
        \/ pc' = [pc EXCEPT ![x] = "denied"]
    BY <1>2 DEF Lookup, Admit, Deny, Goto
  <2>2. QED
    BY <1>0, <2>1
<1>3. ASSUME NEW x \in Requests, LookupFails(x) \/ Touch(x) PROVE FALSE
  <2>1. pc' = [pc EXCEPT ![x] = "denied"] \/ pc' = [pc EXCEPT ![x] = "admitted"]
    BY <1>3 DEF LookupFails, Touch, Deny, Goto
  <2>2. QED
    BY <1>0, <2>1
<1>4. CASE Crash
  BY <1>0, <1>4 DEF Crash
<1>5. pc' # pc
  OBVIOUS
<1>6. QED
  BY <1>1, <1>2, <1>3, <1>4, <1>5
  DEF Next, vars, requests, Start, Import, ImportFails, Serve, CreateKey, Revoke, Delete,
      SetLimit, Report, ChangeFails, Audit

LEMMA NextBootInv == TypeOK /\ TypeOK' /\ BootInv /\ [Next]_vars => BootInv'
<1> SUFFICES ASSUME TypeOK, TypeOK', BootInv, [Next]_vars PROVE BootInv'
  OBVIOUS
<1>1. ASSUME NEW r \in Requests, pc'[r] = "lookup" PROVE phase' = "up"
  <2>1. CASE pc[r] # "lookup"
    BY <1>1, <2>1, OnlyArriveLooksUp
  <2>2. CASE pc[r] = "lookup"
    <3>1. phase = "up" /\ phase # "down" /\ phase # "boot"
      BY <2>2 DEF BootInv
    <3>2. CASE Crash
      BY <1>1, <2>2, <3>2 DEF Crash, TypeOK
    <3>3. CASE ~Crash
      BY <3>1, <3>3 DEF Next, vars, process, Start, Import, ImportFails, Serve, Arrive,
         Lookup, LookupFails, Touch, CreateKey, Revoke, Delete, SetLimit, Report, ChangeFails, Audit
    <3>4. QED
      BY <3>2, <3>3
  <2>3. QED
    BY <2>1, <2>2
<1>2. ASSUME NEW k \in Keys, HasRow(k) PROVE HasRow(k)'
  BY <1>2, StepFalls DEF Falls, HasRow
<1>3. missed \subseteq missed'
  BY DEF Next, vars, history, Start, Import, ImportFails, Serve, Crash, Arrive, Lookup,
     LookupFails, Touch, CreateKey, Revoke, Delete, SetLimit, Report, ChangeFails, Audit
<1>4. ASSUME NEW k \in Keys, phase' # "down", env'[k] # NoUser
      PROVE  HasRow(k)' \/ k \in missed' \/ k \in toImport'
  <2>1. ASSUME NEW e \in Envs, NEW f \in BOOLEAN, Start(e, f)
        PROVE  k \in toImport'
    BY <1>4, <2>1 DEF Start
  <2>2. ASSUME NEW x \in Keys, Import(x)
        PROVE  HasRow(k)' \/ k \in missed' \/ k \in toImport'
    <3>1. HasRow(k) \/ k \in missed \/ k \in toImport
      BY <1>4, <2>2 DEF Import, BootInv
    <3>2. k = x => HasRow(k)'
      <4>1. SUFFICES ASSUME k = x, ~HasRow(x) PROVE row'[x] # NoRow
        BY <1>2 DEF HasRow
      <4>2. env[x] \in Users
        BY <2>2 DEF Import, TypeOK
      <4>3. Imported(x) \in Row
        BY <4>2, LimitsAssumption DEF Imported, Row, Statuses, NoLimit
      <4>4. row'[x] = Imported(x)
        BY <2>2, <4>1 DEF Import, TypeOK
      <4>5. QED
        BY <4>3, <4>4, NoRowAssumption
    <3>3. k # x /\ k \in toImport => k \in toImport'
      BY <2>2 DEF Import
    <3>4. QED
      BY <1>2, <1>3, <3>1, <3>2, <3>3
  <2>3. ASSUME NEW x \in Keys, ImportFails(x)
        PROVE  HasRow(k)' \/ k \in missed' \/ k \in toImport'
    <3>1. HasRow(k) \/ k \in missed \/ k \in toImport
      BY <1>4, <2>3 DEF ImportFails, BootInv
    <3>2. toImport' = toImport \ {x} /\ missed' = missed \cup {x}
      BY <2>3 DEF ImportFails
    <3>3. QED
      BY <1>2, <3>1, <3>2
  <2>4. CASE Crash
    BY <1>4, <2>4 DEF Crash
  <2>5. CASE Serve
    BY <1>2, <1>3, <1>4, <2>5 DEF Serve, BootInv
  <2>6. CASE UNCHANGED process
    BY <1>2, <1>3, <1>4, <2>6 DEF process, BootInv
  <2>7. QED
    BY <2>1, <2>2, <2>3, <2>4, <2>5, <2>6
    DEF Next, vars, Arrive, Lookup, LookupFails, Touch, CreateKey, Revoke, Delete, SetLimit,
        Report, ChangeFails, Audit
<1>5. phase' = "up" => toImport' = {}
  BY DEF BootInv, Next, vars, process, Start, Import, ImportFails, Serve, Crash, Arrive,
     Lookup, LookupFails, Touch, CreateKey, Revoke, Delete, SetLimit, Report, ChangeFails, Audit
<1>6. QED
  BY <1>1, <1>4, <1>5 DEF BootInv

\* A lookup takes the user of the row, or of the environment for a key honoured without one.
LEMMA LookupKeepsUserInv ==
  ASSUME TypeOK, BootInv, UserInv, NEW x \in Requests, Lookup(x)
  PROVE  UserInv'
<1>1. /\ pc[x] = "lookup"
      /\ key' = key /\ row' = row /\ missed' = missed
      /\ user' = user \/ \E u : user' = [user EXCEPT ![x] = u]
  BY DEF Lookup, Admit, Deny, history
<1>2. key[x] \in Keys
  BY <1>1 DEF TypeOK
<1>3. \/ pc' = [pc EXCEPT ![x] = "touch"]
      \/ pc' = [pc EXCEPT ![x] = "admitted"]
      \/ pc' = [pc EXCEPT ![x] = "denied"]
  BY DEF Lookup, Admit, Deny, Goto
<1>4. DOMAIN pc = Requests /\ user \in [Requests -> Users \cup {NoUser}]
  BY DEF TypeOK
<1>5. ASSUME NEW r \in Requests, r # x
      PROVE  pc'[r] = pc[r] /\ user'[r] = user[r]
  BY <1>1, <1>3, <1>4, <1>5
<1>6. pc'[x] # "idle"
  BY <1>3, <1>4
<1>7. \/ user'[x] = user[x]
      \/ Findable(key[x]) /\ user'[x] = row[key[x]].user
      \/ ~Findable(key[x]) /\ env[key[x]] # NoUser
  BY <1>4 DEF Lookup, Admit, Deny
<1>8. ~Findable(key[x]) /\ env[key[x]] # NoUser => key[x] \in missed \cup Shaped
  BY <1>1, <1>2 DEF Findable, BootInv
<1>9. user'[x] # NoUser => \/ key[x] \in missed \cup Shaped
                           \/ HasRow(key[x]) /\ row[key[x]].user = user'[x]
  BY <1>7, <1>8 DEF Findable, UserInv
<1>10. QED
  BY <1>1, <1>5, <1>6, <1>9 DEF UserInv, HasRow

LEMMA NextUserInv == TypeOK /\ BootInv /\ UserInv /\ [Next]_vars => UserInv'
<1> SUFFICES ASSUME TypeOK, BootInv, UserInv, [Next]_vars PROVE UserInv'
  OBVIOUS
<1>1. ASSUME NEW k \in Keys, HasRow(k) PROVE row'[k] # NoRow /\ row'[k].user = row[k].user
  BY <1>1, StepFalls DEF Falls
<1>2. missed \subseteq missed'
  BY DEF Next, vars, history, Start, Import, ImportFails, Serve, Crash, Arrive, Lookup,
     LookupFails, Touch, CreateKey, Revoke, Delete, SetLimit, Report, ChangeFails, Audit
\* All that is left to show of a step that is not a lookup.
<1>3. ASSUME \A r \in Requests : /\ user'[r] = user[r]
                                 /\ pc'[r] = "idle" => pc[r] = "idle"
                                 /\ key'[r] = key[r] \/ pc[r] = "idle"
      PROVE  UserInv'
  <2> SUFFICES ASSUME NEW r \in Requests
               PROVE  /\ pc'[r] = "idle" => user'[r] = NoUser
                      /\ user'[r] # NoUser =>
                           \/ key'[r] \in missed' \cup Shaped
                           \/ HasRow(key[r])' /\ row'[key'[r]].user = user'[r]
    BY DEF UserInv, HasRow
  <2>1. pc'[r] = "idle" => user'[r] = NoUser
    BY <1>3 DEF UserInv
  <2>2. ASSUME user'[r] # NoUser
        PROVE  \/ key'[r] \in missed' \cup Shaped
               \/ HasRow(key[r])' /\ row'[key'[r]].user = user'[r]
    <3>1. pc[r] # "idle" /\ user'[r] = user[r] /\ key'[r] = key[r] /\ key[r] \in Keys
      BY <1>3, <2>2 DEF UserInv, TypeOK
    <3>2. QED
      BY <1>1, <1>2, <2>2, <3>1 DEF UserInv, HasRow
  <2>3. QED
    BY <2>1, <2>2
<1>4. ASSUME NEW x \in Requests, Lookup(x) PROVE UserInv'
  BY <1>4, LookupKeepsUserInv
<1>5. CASE \E x \in Requests, k \in Keys : Arrive(x, k)
  BY <1>3, <1>5 DEF Arrive, Goto, TypeOK
<1>6. CASE \E x \in Requests : LookupFails(x) \/ Touch(x)
  <2>1. user' = user /\ key' = key
    BY <1>6 DEF LookupFails, Touch, Deny
  <2>2. PICK x \in Requests : \/ pc' = [pc EXCEPT ![x] = "denied"]
                              \/ pc' = [pc EXCEPT ![x] = "admitted"]
    BY <1>6 DEF LookupFails, Touch, Deny, Goto
  <2>3. DOMAIN pc = Requests
    BY DEF TypeOK
  <2>4. \A r \in Requests : pc'[r] = "idle" => pc[r] = "idle"
    BY <2>2, <2>3
  <2>5. QED
    BY <1>3, <2>1, <2>4
<1>7. CASE Crash
  BY <1>3, <1>7 DEF Crash
<1>8. CASE UNCHANGED requests
  BY <1>3, <1>8 DEF requests
<1>9. QED
  BY <1>4, <1>5, <1>6, <1>7, <1>8
  DEF Next, vars, Start, Import, ImportFails, Serve, CreateKey, Revoke, Delete, SetLimit,
      Report, ChangeFails, Audit

\* A key stands for one user over all environments and restarts, unless an import of it
\* failed or its row is never found.
THEOREM OneUserPerKey == Spec => []SameKeySameUser
<1>1. Init => BootInv /\ UserInv
  BY DEF Init, BootInv, UserInv
<1>2. TypeOK /\ UserInv => SameKeySameUser
  BY DEF UserInv, SameKeySameUser
<1>3. QED
  BY <1>1, <1>2, NextBootInv, NextUserInv, TypeCorrect, PTL DEF Spec
-----------------------------------------------------------------------------
(* Limits. *)

\* The strengthening of LimitIsLastSet: no limit has been set of a key without a row.
LimitInv ==
  /\ LimitIsLastSet
  /\ \A k \in Keys : ~HasRow(k) => lastSet[k] = NoLimit

\* What a step may do to the limit of key k: nothing, file it without one, move the limit
\* of older versions to its new column, or set it.
LimitStep(k) ==
  \/ /\ lastSet'[k] = lastSet[k]
     /\ \/ row'[k] = row[k]
        \/ ~HasRow(k) /\ row'[k].eur = NoLimit
        \/ HasRow(k) /\ row'[k] = Migrated(row[k])
        \/ HasRow(k) /\ row'[k].eur = row[k].eur /\ row'[k].usd = row[k].usd
  \/ lastSet'[k] = row'[k].eur

LEMMA LimitChange == TypeOK /\ [Next]_vars => \A k \in Keys : LimitStep(k)
<1> SUFFICES ASSUME TypeOK, [Next]_vars, NEW k \in Keys PROVE LimitStep(k)
  OBVIOUS
<1>0. /\ row \in [Keys -> Row \cup {NoRow}] /\ lastSet \in [Keys -> Limits]
      /\ HasRow(k) => row[k] \in Row
  BY DEF TypeOK, HasRow
<1>1. CASE lastSet' = lastSet /\ row' = row
  BY <1>1 DEF LimitStep
<1>2. ASSUME NEW e \in Envs, NEW f \in BOOLEAN, Start(e, f) PROVE LimitStep(k)
  <2>1. /\ row'[k] = IF HasRow(k) THEN Migrated(row[k]) ELSE NoRow
        /\ lastSet' = lastSet
    BY <1>2 DEF Start, history
  <2>2. QED
    BY <2>1 DEF LimitStep, HasRow
<1>3. ASSUME NEW x \in Keys, Import(x) \/ ImportFails(x) PROVE LimitStep(k)
  <2>1. CASE x # k \/ HasRow(k)
    <3>1. lastSet' = lastSet /\ row'[k] = row[k]
      BY <1>0, <1>3, <2>1 DEF Import, ImportFails, HasRow, history
    <3>2. QED
      BY <3>1 DEF LimitStep
  <2>2. CASE x = k /\ ~HasRow(k)
    <3>1. lastSet' = lastSet /\ row'[k] \in {row[k], Imported(k)}
      BY <1>0, <1>3, <2>2 DEF Import, ImportFails, history
    <3>2. QED
      BY <2>2, <3>1 DEF LimitStep, Imported
  <2>3. QED
    BY <2>1, <2>2
<1>4. ASSUME NEW a \in Admins, NEW x \in Keys, CreateKey(a, x) PROVE LimitStep(k)
  <2>1. /\ lastSet' = lastSet
        /\ \/ row'[k] = row[k]
           \/ /\ ~HasRow(k)
              /\ row'[k] = [user |-> OwnerOf[k], status |-> "active",
                            eur |-> NoLimit, usd |-> NoLimit]
    BY <1>0, <1>4 DEF CreateKey, history, HasRow
  <2>2. QED
    BY <2>1 DEF LimitStep
<1>5. ASSUME NEW a \in Admins, NEW x \in Keys, Revoke(a, x) \/ Delete(a, x)
      PROVE  LimitStep(k)
  <2>1. /\ lastSet' = lastSet
        /\ \/ row'[k] = row[k]
           \/ HasRow(k) /\ \E s \in Statuses : row'[k] = [row[k] EXCEPT !.status = s]
    BY <1>0, <1>5 DEF Revoke, Delete, history, HasRow, Statuses
  <2>2. HasRow(k) => \A s \in Statuses : /\ [row[k] EXCEPT !.status = s].eur = row[k].eur
                                         /\ [row[k] EXCEPT !.status = s].usd = row[k].usd
    BY <1>0 DEF Row
  <2>3. QED
    BY <2>1, <2>2 DEF LimitStep
<1>6. ASSUME NEW a \in Admins, NEW x \in Keys, NEW l \in Limits, SetLimit(a, x, l)
      PROVE  LimitStep(k)
  <2>1. CASE x = k
    <3>1. HasRow(k) /\ row'[k] = [row[k] EXCEPT !.eur = l] /\ lastSet'[k] = l
      BY <1>0, <1>6, <2>1 DEF SetLimit
    <3>2. QED
      BY <1>0, <3>1 DEF LimitStep, Row
  <2>2. CASE x # k
    <3>1. row'[k] = row[k] /\ lastSet'[k] = lastSet[k]
      BY <1>0, <1>6, <2>2 DEF SetLimit
    <3>2. QED
      BY <3>1 DEF LimitStep
  <2>3. QED
    BY <2>1, <2>2
<1>7. QED
  <2>1. CASE \E a \in Admins : ChangeFails(a)
    BY <1>1, <2>1 DEF ChangeFails, history
  <2>2. CASE Serve \/ Crash \/ UNCHANGED vars
    BY <1>1, <2>2 DEF Serve, Crash, vars, history
  <2>3. CASE \E r \in Requests : Lookup(r) \/ LookupFails(r) \/ Touch(r)
    BY <1>1, <2>3 DEF Lookup, LookupFails, Touch, history
  <2>4. CASE \E r \in Requests, x \in Keys : Arrive(r, x)
    BY <1>1, <2>4 DEF Arrive
  <2>5. CASE \E a \in Admins : Audit(a)
    BY <1>1, <2>5 DEF Audit
  <2>6. QED
    BY <1>2, <1>3, <1>4, <1>5, <1>6, <2>1, <2>2, <2>3, <2>4, <2>5 DEF Next

LEMMA NextLimitInv == TypeOK /\ LimitInv /\ [Next]_vars => LimitInv'
<1> SUFFICES ASSUME TypeOK, LimitInv, [Next]_vars, NEW k \in Keys
             PROVE  /\ row'[k] # NoRow => \/ row'[k].eur = lastSet'[k]
                                          \/ lastSet'[k] = NoLimit /\ row'[k].eur = row'[k].usd
                    /\ row'[k] = NoRow => lastSet'[k] = NoLimit
  BY DEF LimitInv, LimitIsLastSet, HasRow
<1>1. /\ HasRow(k) => row[k] \in Row
      /\ HasRow(k) => \/ row[k].eur = lastSet[k]
                      \/ lastSet[k] = NoLimit /\ row[k].eur = row[k].usd
      /\ ~HasRow(k) => lastSet[k] = NoLimit
  BY DEF LimitInv, LimitIsLastSet, TypeOK, HasRow
<1>2. HasRow(k) => row'[k] # NoRow
  BY StepFalls DEF Falls
<1>3. CASE HasRow(k) /\ row'[k] = Migrated(row[k]) /\ lastSet'[k] = lastSet[k]
  <2>1. CASE row[k].eur = NoLimit /\ row[k].usd # NoLimit
    BY <1>1, <1>3, <2>1, NoRowAssumption, MigratedType DEF Migrated, Row
  <2>2. CASE ~(row[k].eur = NoLimit /\ row[k].usd # NoLimit)
    BY <1>1, <1>2, <1>3, <2>2 DEF Migrated
  <2>3. QED
    BY <2>1, <2>2
<1>4. CASE ~HasRow(k) /\ lastSet'[k] = lastSet[k]
  BY <1>1, <1>4, LimitChange DEF LimitStep, HasRow
<1>5. CASE HasRow(k)
  BY <1>1, <1>2, <1>3, <1>5, LimitChange DEF LimitStep
<1>6. CASE ~HasRow(k) /\ lastSet'[k] # lastSet[k]
  <2>1. \A a \in Admins, x \in Keys, l \in Limits : ~SetLimit(a, x, l)
    BY <1>6 DEF SetLimit, TypeOK
  <2>2. lastSet' = lastSet
    BY <2>1 DEF Next, vars, history, Start, Import, ImportFails, Serve, Crash, Arrive,
       Lookup, LookupFails, Touch, CreateKey, Revoke, Delete, Report, ChangeFails, Audit
  <2>3. QED
    BY <1>6, <2>2
<1>7. QED
  BY <1>4, <1>5, <1>6

\* The limit a key has is the one an administrator set last, whatever migrations the
\* restarts run; they bring back a limit of an older version only where it was cleared.
THEOREM LimitLasts == Spec => []LimitIsLastSet
<1>1. Init => LimitInv
  BY NoRowAssumption DEF Init, LimitInv, LimitIsLastSet, HasRow
<1>2. LimitInv => LimitIsLastSet
  BY DEF LimitInv
<1>3. QED
  BY <1>1, <1>2, NextLimitInv, TypeCorrect, PTL DEF Spec

-----------------------------------------------------------------------------
(* The audit trail. *)

\* The event is written, or will never be, or it is still to come.
Traced(action, k) ==
  \/ <<action, k>> \in audits \cup cut
  \/ \E a \in Admins : job[a] = <<action, k>>

TracedNext(action, k) ==
  \/ <<action, k>> \in audits' \cup cut'
  \/ \E a \in Admins : job'[a] = <<action, k>>

\* No step loses an event: an administrator begins no other change before it is written or
\* given up, and a crash gives all of them up.
LEMMA TraceStays ==
  ASSUME TypeOK, [Next]_vars, NEW action \in Actions, NEW k \in Keys, Traced(action, k)
  PROVE  TracedNext(action, k)
<1>0. job \in [Admins -> {NoJob} \cup (Actions \X Keys)] /\ NoJob # <<action, k>>
  BY DEF TypeOK, NoJob
<1>1. audits \cup cut \subseteq audits' \cup cut'
  BY DEF Next, vars, history, Start, Import, ImportFails, Serve, Crash, Arrive, Lookup,
     LookupFails, Touch, CreateKey, Revoke, Delete, SetLimit, Report, ChangeFails, Audit
<1>2. CASE <<action, k>> \in audits \cup cut
  BY <1>1, <1>2 DEF TracedNext
<1>3. ASSUME NEW a \in Admins, job[a] = <<action, k>> PROVE TracedNext(action, k)
  <2>1. CASE Crash
    <3>1. job[a] \in cut'
      BY <1>0, <1>3, <2>1 DEF Crash
    <3>2. QED
      BY <1>3, <3>1 DEF TracedNext
  <2>2. ASSUME NEW b \in Admins, Audit(b) PROVE TracedNext(action, k)
    <3>1. CASE a = b
      BY <1>3, <2>2, <3>1 DEF Audit, TracedNext
    <3>2. CASE a # b
      BY <1>0, <1>3, <2>2, <3>2 DEF Audit, TracedNext
    <3>3. QED
      BY <3>1, <3>2
  <2>3. ASSUME NEW b \in Admins, NEW x \in Keys, CreateKey(b, x) \/ Revoke(b, x) \/ Delete(b, x)
        PROVE  TracedNext(action, k)
    <3>1. job[b] = NoJob /\ (job' = job \/ \E j : job' = [job EXCEPT ![b] = j])
      BY <2>3 DEF CreateKey, Revoke, Delete, Begin, Report
    <3>2. job'[a] = job[a]
      BY <1>0, <1>3, <3>1
    <3>3. QED
      BY <1>3, <3>2 DEF TracedNext
  <2>4. CASE job' = job
    BY <1>3, <2>4 DEF TracedNext
  <2>5. QED
    BY <2>1, <2>2, <2>3, <2>4
    DEF Next, vars, admin, Start, Import, ImportFails, Serve, Arrive, Lookup, LookupFails,
        Touch, SetLimit, ChangeFails
<1>4. QED
  BY <1>2, <1>3 DEF Traced

\* A key of the environment is never one of those generated for administrators.
EnvInv == \A k \in Managed : env[k] = NoUser

LEMMA NextEnvInv == EnvInv /\ [Next]_vars => EnvInv'
<1> SUFFICES ASSUME EnvInv, [Next]_vars PROVE EnvInv'
  OBVIOUS
<1>1. ASSUME NEW e \in Envs, NEW f \in BOOLEAN, Start(e, f) PROVE EnvInv'
  BY <1>1, EnvsAssumption DEF Start, EnvInv
<1>2. CASE env' = env
  BY <1>2 DEF EnvInv
<1>3. QED
  BY <1>1, <1>2
  DEF Next, vars, process, Import, ImportFails, Serve, Crash, Arrive, Lookup, LookupFails,
      Touch, CreateKey, Revoke, Delete, SetLimit, Report, ChangeFails, Audit

\* Where a row appears or changes its status, the event of the change comes next.
LEMMA ChangeTraced ==
  ASSUME TypeOK, EnvInv, [Next]_vars, NEW k \in Keys
  PROVE  /\ k \in Managed /\ ~HasRow(k) /\ row'[k] # NoRow => TracedNext("create", k)
         /\ \/ HasRow(k) /\ row'[k].status = row[k].status
            \/ row'[k] = NoRow
            \/ row'[k].status = "active"
            \/ row'[k].status = "revoked" /\ TracedNext("revoke", k)
            \/ row'[k].status = "deleted" /\ TracedNext("delete", k)
<1>0. /\ row \in [Keys -> Row \cup {NoRow}]
      /\ DOMAIN job = Admins
      /\ HasRow(k) => row[k] \in Row
  BY DEF TypeOK, HasRow
<1> DEFINE Goal ==
      /\ k \in Managed /\ ~HasRow(k) /\ row'[k] # NoRow => TracedNext("create", k)
      /\ \/ HasRow(k) /\ row'[k].status = row[k].status
         \/ row'[k] = NoRow
         \/ row'[k].status = "active"
         \/ row'[k].status = "revoked" /\ TracedNext("revoke", k)
         \/ row'[k].status = "deleted" /\ TracedNext("delete", k)
<1>1. CASE row'[k] = row[k]
  BY <1>1 DEF HasRow
<1>2. ASSUME NEW e \in Envs, NEW f \in BOOLEAN, Start(e, f) PROVE Goal
  BY <1>2, StartKeepsRows DEF HasRow
<1>3. ASSUME NEW x \in Keys, Import(x) \/ ImportFails(x) PROVE Goal
  <2>1. CASE row'[k] # row[k]
    <3>1. x = k /\ ~HasRow(k) /\ row'[k] = Imported(k) /\ env[k] # NoUser
      BY <1>0, <1>3, <2>1 DEF Import, ImportFails, HasRow, TypeOK
    <3>2. k \notin Managed
      BY <3>1 DEF EnvInv
    <3>3. QED
      BY <3>1, <3>2 DEF Imported
  <2>2. QED
    BY <1>1, <2>1
<1>4. ASSUME NEW a \in Admins, NEW x \in Keys, CreateKey(a, x) PROVE Goal
  <2>1. CASE x = k
    <3>1. row'[k].status = "active" /\ Report(a, <<"create", k>>)
      BY <1>0, <1>4, <2>1 DEF CreateKey
    <3>2. QED
      BY <1>0, <3>1 DEF Report, TracedNext
  <2>2. CASE x # k
    BY <1>0, <1>1, <1>4, <2>2 DEF CreateKey
  <2>3. QED
    BY <2>1, <2>2
<1>5. ASSUME NEW a \in Admins, NEW x \in Keys, Revoke(a, x) PROVE Goal
  <2>1. CASE row'[k] # row[k]
    <3>1. /\ HasRow(k)
          /\ row'[k] = [row[k] EXCEPT !.status = "revoked"]
          /\ Report(a, <<"revoke", k>>)
      BY <1>0, <1>5, <2>1 DEF Revoke
    <3>2. QED
      BY <1>0, <3>1 DEF Report, TracedNext, Row
  <2>2. QED
    BY <1>1, <2>1
<1>6. ASSUME NEW a \in Admins, NEW x \in Keys, Delete(a, x) PROVE Goal
  <2>1. CASE row'[k] # row[k]
    <3>1. /\ HasRow(k)
          /\ row'[k] = [row[k] EXCEPT !.status = "deleted"]
          /\ Report(a, <<"delete", k>>)
      BY <1>0, <1>6, <2>1 DEF Delete
    <3>2. QED
      BY <1>0, <3>1 DEF Report, TracedNext, Row
  <2>2. QED
    BY <1>1, <2>1
<1>7. ASSUME NEW a \in Admins, NEW x \in Keys, NEW l \in Limits, SetLimit(a, x, l) PROVE Goal
  <2>1. CASE row'[k] # row[k]
    <3>1. HasRow(k) /\ row'[k] = [row[k] EXCEPT !.eur = l]
      BY <1>0, <1>7, <2>1 DEF SetLimit
    <3>2. QED
      BY <1>0, <3>1 DEF Row
  <2>2. QED
    BY <1>1, <2>1
<1>8. Goal
  <2>1. CASE \E a \in Admins : ChangeFails(a)
    BY <1>1, <2>1 DEF ChangeFails
  <2>2. CASE Serve \/ Crash \/ UNCHANGED vars
    BY <1>1, <2>2 DEF Serve, Crash, vars
  <2>3. CASE \E r \in Requests : Lookup(r) \/ LookupFails(r) \/ Touch(r)
    BY <1>1, <2>3 DEF Lookup, LookupFails, Touch
  <2>4. CASE \E r \in Requests, x \in Keys : Arrive(r, x)
    BY <1>1, <2>4 DEF Arrive
  <2>5. CASE \E a \in Admins : Audit(a)
    BY <1>1, <2>5 DEF Audit
  <2>6. QED
    BY <1>2, <1>3, <1>4, <1>5, <1>6, <1>7, <2>1, <2>2, <2>3, <2>4, <2>5 DEF Next
<1>9. QED
  BY <1>8

\* However creates, revocations, deletions, failures and crashes interleave, each change
\* of a key's status has its event, unless that event could not be written, the process
\* died before it, or the change was answered with an error although it took effect.
THEOREM AuditComplete == Spec => []ChangesAudited
<1>1. Init => ChangesAudited
  BY NoRowAssumption DEF Init, ChangesAudited, HasRow
<1>2. ASSUME TypeOK, EnvInv, ChangesAudited, [Next]_vars PROVE ChangesAudited'
  <2> SUFFICES ASSUME NEW k \in Keys
               PROVE  /\ k \in Managed /\ row'[k] # NoRow => TracedNext("create", k)
                      /\ row'[k] # NoRow /\ row'[k].status = "revoked" =>
                           TracedNext("revoke", k)
                      /\ row'[k] # NoRow /\ row'[k].status = "deleted" =>
                           TracedNext("delete", k)
    BY DEF ChangesAudited, HasRow, TracedNext
  <2>1. /\ k \in Managed /\ HasRow(k) => Traced("create", k)
        /\ HasRow(k) /\ row[k].status = "revoked" => Traced("revoke", k)
        /\ HasRow(k) /\ row[k].status = "deleted" => Traced("delete", k)
    BY <1>2 DEF ChangesAudited, Traced
  <2>2. \A action \in Actions : Traced(action, k) => TracedNext(action, k)
    BY <1>2, TraceStays
  <2>3. "create" \in Actions /\ "revoke" \in Actions /\ "delete" \in Actions
    BY DEF Actions
  <2>4. QED
    BY <1>2, <2>1, <2>2, <2>3, ChangeTraced
<1>3. Init => EnvInv
  BY KeysAssumption DEF Init, EnvInv
<1>4. QED
  BY <1>1, <1>2, <1>3, NextEnvInv, TypeCorrect, PTL DEF Spec
===============================================================================

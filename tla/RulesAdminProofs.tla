--------------------------- MODULE RulesAdminProofs ---------------------------
(***************************************************************************)
(* Proofs about RulesAdmin: types, and what overlapping handlers can not   *)
(* break, for any number of administrators, terms, types of PII and        *)
(* payloads, and any number of failures.                                   *)
(***************************************************************************)
EXTENDS RulesAdmin, WellFoundedInduction, SequenceTheorems, TLAPS

Entries == Entities \X (PolicyActions \cup {"unknown"})

Locals ==
  [word : Words \cup {NoWord}, id : Nat, named : BOOLEAN, enabled : BOOLEAN,
   payload : Seq(Entries), sent : Nat]

\* What a handler holds at each step.
LocalsOK ==
  \A a \in Admins :
    /\ req[a] \in Locals
    /\ pc[a] \in {"find", "load", "reload", "delete"} => req[a].id \in Ids
    /\ pc[a] \in {"unique", "write"} =>
         req[a].word \in Words /\ (req[a].id \in Ids \/ (req[a].id = 0 /\ req[a].named))
    /\ pc[a] = "upsert" => req[a].sent < Len(req[a].payload)
    /\ pc[a] = "commit" => req[a].sent = Len(req[a].payload)
    /\ pc[a] \in {"upsert", "commit"} =>
         \A k \in DOMAIN req[a].payload : req[a].payload[k][2] \in PolicyActions

TypeInv == TypeOK /\ req \in [Admins -> Locals] /\ LocalsOK

-----------------------------------------------------------------------------
(* Types. *)

LEMMA NothingType == Nothing \in Locals
BY DEF Nothing, Locals

LEMMA NormType == ASSUME NEW x \in Texts PROVE NormOf[x] \in Words \cup {NoWord}
BY DEF Words

LEMMA InitTypeInv == Init => TypeInv
<1> SUFFICES ASSUME Init PROVE TypeInv
  OBVIOUS
<1>1. terms \in [Ids -> Term \cup {NoTerm}] /\ nextId \in Nat \ {0}
        /\ \A i \in Ids : Exists(i) => i < nextId
  <2>1. PICK S \in SUBSET Ids : \E word \in [S -> Words] :
          /\ nextId \in {i \in 1..(Cardinality(Ids) + 1) : \A j \in S : j < i}
          /\ terms = [i \in Ids |-> IF i \in S THEN [word |-> word[i], enabled |-> TRUE]
                                    ELSE NoTerm]
    BY DEF Init
  <2>2. PICK word \in [S -> Words] :
          /\ nextId \in {i \in 1..(Cardinality(Ids) + 1) : \A j \in S : j < i}
          /\ terms = [i \in Ids |-> IF i \in S THEN [word |-> word[i], enabled |-> TRUE]
                                    ELSE NoTerm]
    BY <2>1
  <2>3. \A i \in Ids : terms[i] \in Term \cup {NoTerm}
    BY <2>2 DEF Term
  <2>4. \A i \in Ids : Exists(i) => i \in S
    BY <2>2 DEF Exists
  <2>5. QED
    BY <2>2, <2>3, <2>4
<1>2. policies \in [Entities -> PolicyActions]
  BY DEF Init, PolicyActions
<1>3. req = [a \in Admins |-> Nothing] /\ pc = [a \in Admins |-> "idle"]
  BY DEF Init
<1>4. LocalsOK
  BY <1>3, NothingType DEF LocalsOK
<1>5. QED
  BY <1>1, <1>2, <1>3, <1>4, NothingType DEF Init, TypeInv, TypeOK, Running, Ended, TermSteps, PolicySteps

\* A step that leaves one handler at pc s with locals r, within its types.
Fits(s, r) ==
  /\ r \in Locals
  /\ s \in {"find", "load", "reload", "delete"} => r.id \in Ids
  /\ s \in {"unique", "write"} => r.word \in Words /\ (r.id \in Ids \/ (r.id = 0 /\ r.named))
  /\ s = "upsert" => r.sent < Len(r.payload)
  /\ s = "commit" => r.sent = Len(r.payload)
  /\ s \in {"upsert", "commit"} => \A k \in DOMAIN r.payload : r.payload[k][2] \in PolicyActions

LEMMA FitsBefore == ASSUME TypeInv, NEW a \in Admins PROVE Fits(pc[a], req[a])
BY DEF TypeInv, LocalsOK, Fits

LEMMA NothingFits == ASSUME NEW s \in {"idle", "audit", "done", "died"} PROVE Fits(s, Nothing)
BY NothingType DEF Fits

\* One handler moves, the tables stay within their types.
LEMMA OneMoves ==
  ASSUME TypeInv, NEW a \in Admins, NEW s \in {"idle"} \cup Running \cup Ended, NEW r,
         pc' = [pc EXCEPT ![a] = s], req' = [req EXCEPT ![a] = r], Fits(s, r)
  PROVE  /\ pc' \in [Admins -> {"idle"} \cup Running \cup Ended]
         /\ req' \in [Admins -> Locals]
         /\ LocalsOK'
<1>1. r \in Locals
  BY DEF Fits
<1>2. \A b \in Admins : pc'[b] = (IF b = a THEN s ELSE pc[b]) /\ req'[b] = (IF b = a THEN r ELSE req[b])
  BY DEF TypeInv, TypeOK
<1>3. \A b \in Admins : Fits(pc'[b], req'[b])
  BY <1>2, FitsBefore
<1>4. LocalsOK'
  BY <1>3 DEF LocalsOK, Fits
<1>5. QED
  BY <1>1, <1>4 DEF TypeInv, TypeOK

Results == {"none", "failed", "success"}

HandlersOK ==
  /\ pc \in [Admins -> {"idle"} \cup Running \cup Ended]
  /\ req \in [Admins -> Locals]
  /\ LocalsOK
  /\ status \in [Admins -> Results]

RestOK ==
  /\ terms \in [Ids -> Term \cup {NoTerm}]
  /\ nextId \in Nat \ {0}
  /\ \A i \in Ids : Exists(i) => i < nextId
  /\ policies \in [Entities -> PolicyActions]
  /\ owner \in [Entities -> Admins \cup {NoAdmin}]
  /\ audit \in [Admins -> Results]

LEMMA TypeParts == TypeInv <=> HandlersOK /\ RestOK
BY DEF TypeInv, TypeOK, HandlersOK, RestOK, Results, LocalsOK

LEMMA TypePartsNext == HandlersOK' /\ RestOK' => TypeInv'
BY DEF TypeInv, TypeOK, HandlersOK, RestOK, Results, LocalsOK

LEMMA FinishType ==
  ASSUME TypeInv, NEW a \in Admins, NEW s \in {"failed", "success"}, Finish(a, s)
  PROVE  HandlersOK'
<1>1. pc' = [pc EXCEPT ![a] = "audit"] /\ req' = [req EXCEPT ![a] = Nothing]
  BY DEF Finish, Goto
<1>2. "audit" \in Running
  BY DEF Running
<1>3. status' \in [Admins -> Results]
  BY DEF Finish, TypeInv, TypeOK, Results
<1>4. QED
  BY <1>1, <1>2, <1>3, OneMoves, NothingFits DEF HandlersOK

LEMMA AnswerType ==
  ASSUME TypeInv, NEW a \in Admins, Answer(a)
  PROVE  HandlersOK'
<1>1. pc' = [pc EXCEPT ![a] = "done"] /\ req' = [req EXCEPT ![a] = Nothing]
  BY DEF Answer, Goto
<1>2. "done" \in Ended
  BY DEF Ended
<1>3. status' \in [Admins -> Results]
  BY DEF Answer, TypeInv, TypeOK, Results
<1>4. QED
  BY <1>1, <1>2, <1>3, OneMoves, NothingFits DEF HandlersOK

LEMMA BeginType ==
  ASSUME TypeInv, NEW a \in Admins, NEW s \in Running, NEW r, Begin(a, s, r), Fits(s, r)
  PROVE  HandlersOK'
<1>1. pc' = [pc EXCEPT ![a] = s] /\ req' = [req EXCEPT ![a] = r]
  BY DEF Begin, Goto
<1>2. status' \in [Admins -> Results]
  BY DEF Begin, TypeInv, TypeOK, Results
<1>3. QED
  BY <1>1, <1>2, OneMoves DEF HandlersOK

LEMMA PassType ==
  ASSUME TypeInv, NEW a \in Admins, NEW s \in Running, Pass(a, s), Fits(s, req[a])
  PROVE  HandlersOK'
<1>1. pc' = [pc EXCEPT ![a] = s] /\ req' = req
  BY DEF Pass, Goto
<1>2. req' = [req EXCEPT ![a] = req[a]]
  BY <1>1 DEF TypeInv
<1>3. status' \in [Admins -> Results]
  BY DEF Pass, TypeInv, TypeOK, Results
<1>4. QED
  BY <1>1, <1>2, <1>3, OneMoves DEF HandlersOK

LEMMA SameTables == ASSUME TypeInv, UNCHANGED <<tables, owner, audit>> PROVE RestOK'
BY TypeParts DEF tables, RestOK, Exists

\* The steps before a term is written or deleted.
LEMMA TermStepsType ==
  ASSUME TypeInv, NEW a \in Admins,
         \/ \E x \in Texts, e \in BOOLEAN : Post(a, x, e)
         \/ \E i \in Ids, x \in Texts, n \in BOOLEAN, e \in BOOLEAN : Patch(a, i, x, n, e)
         \/ \E i \in Ids : Delete(a, i)
         \/ Load(a) \/ Reload(a) \/ EnsureUnique(a) \/ FindTerm(a) \/ TermFails(a)
  PROVE  TypeInv'
<1>0. RestOK'
  BY SameTables DEF Post, Patch, Delete, Load, Reload, EnsureUnique, FindTerm, TermFails
<1> SUFFICES HandlersOK'
  BY <1>0, TypePartsNext
<1>1. ASSUME NEW x \in Texts, NEW e \in BOOLEAN, Post(a, x, e) PROVE HandlersOK'
  <2> DEFINE r == [Nothing EXCEPT !.word = NormOf[x], !.named = TRUE, !.enabled = e]
  <2>1. CASE NormOf[x] = NoWord
    BY <1>1, <2>1, FinishType DEF Post
  <2>2. CASE NormOf[x] # NoWord
    <3>1. NormOf[x] \in Words
      BY <2>2, NormType
    <3>2. r \in Locals /\ r.word = NormOf[x] /\ r.id = 0 /\ r.named
      BY <3>1, NothingType DEF Nothing, Locals
    <3>3. Fits("unique", r)
      BY <3>1, <3>2 DEF Fits
    <3>4. Begin(a, "unique", r)
      BY <1>1, <2>2 DEF Post
    <3>5. QED
      BY <3>3, <3>4, BeginType DEF Running, TermSteps
  <2>3. QED
    BY <2>1, <2>2
<1>2. ASSUME NEW i \in Ids, NEW x \in Texts, NEW n \in BOOLEAN, NEW e \in BOOLEAN, Patch(a, i, x, n, e)
      PROVE  HandlersOK'
  <2> DEFINE r == [Nothing EXCEPT !.word = NormOf[x], !.id = i, !.named = n, !.enabled = e]
  <2>1. r \in Locals /\ r.id = i
    BY NothingType, NormType, IdsAssumption DEF Nothing, Locals
  <2>2. Fits("load", r)
    BY <2>1 DEF Fits
  <2>3. Begin(a, "load", r)
    BY <1>2 DEF Patch
  <2>4. QED
    BY <2>2, <2>3, BeginType DEF Running, TermSteps
<1>3. ASSUME NEW i \in Ids, Delete(a, i) PROVE HandlersOK'
  <2> DEFINE r == [Nothing EXCEPT !.id = i]
  <2>1. r \in Locals /\ r.id = i
    BY NothingType, IdsAssumption DEF Nothing, Locals
  <2>2. Fits("find", r)
    BY <2>1 DEF Fits
  <2>3. QED
    BY <1>3, <2>2, BeginType DEF Delete, Running, TermSteps
<1>4. CASE Load(a)
  <2>1. CASE ~Exists(req[a].id)
    BY <1>4, <2>1, AnswerType DEF Load
  <2>2. CASE Exists(req[a].id)
    <3> DEFINE r == [req[a] EXCEPT !.enabled = Merged(req[a])]
    <3>1. req[a] \in Locals /\ req[a].id \in Ids
      BY <1>4, FitsBefore DEF Load, Fits
    <3>2. terms[req[a].id] \in Term
      BY <2>2, <3>1 DEF TypeInv, TypeOK, Exists
    <3>3. Merged(req[a]) \in BOOLEAN
      BY <3>1, <3>2 DEF Merged, Locals, Term
    <3>4. r \in Locals /\ r.id = req[a].id
      BY <3>1, <3>3 DEF Locals
    <3>5. Fits("reload", r)
      BY <3>1, <3>4 DEF Fits
    <3>6. QED
      BY <1>4, <2>2, <3>5, BeginType DEF Load, Running, TermSteps
  <2>3. QED
    BY <2>1, <2>2
<1>5. CASE Reload(a)
  <2>1. CASE Exists(req[a].id) /\ req[a].word # NoWord
    <3>1. req[a] \in Locals /\ req[a].id \in Ids
      BY <1>5, FitsBefore DEF Reload, Fits
    <3>2. req[a].word \in Words
      BY <2>1, <3>1 DEF Locals
    <3>3. Fits("unique", req[a])
      BY <3>1, <3>2 DEF Fits
    <3>4. QED
      BY <1>5, <2>1, <3>3, PassType DEF Reload, Running, TermSteps
  <2>2. CASE ~(Exists(req[a].id) /\ req[a].word # NoWord)
    BY <1>5, <2>2, FinishType DEF Reload
  <2>3. QED
    BY <2>1, <2>2
<1>6. CASE EnsureUnique(a)
  <2>1. Fits("write", req[a])
    BY <1>6, FitsBefore DEF EnsureUnique, Fits
  <2>2. QED
    BY <1>6, <2>1, PassType, FinishType DEF EnsureUnique, Running, TermSteps
<1>7. CASE FindTerm(a)
  <2>1. Fits("delete", req[a])
    BY <1>7, FitsBefore DEF FindTerm, Fits
  <2>2. QED
    BY <1>7, <2>1, PassType, FinishType DEF FindTerm, Running, TermSteps
<1>8. CASE TermFails(a)
  BY <1>8, FinishType, AnswerType DEF TermFails
<1>9. QED
  BY <1>0, <1>1, <1>2, <1>3, <1>4, <1>5, <1>6, <1>7, <1>8

LEMMA NewTermType ==
  ASSUME NEW r \in Locals, r.word \in Words
  PROVE  NewTerm(r) \in Term
BY DEF NewTerm, Locals, Term

\* A statement that stores a term keeps the table's types, whether it finds its row or not.
LEMMA StoreType ==
  ASSUME TypeInv, NEW a \in Admins, pc[a] = "write", Store(a), Draw(a)
  PROVE  /\ terms' \in [Ids -> Term \cup {NoTerm}]
         /\ nextId' \in Nat \ {0}
         /\ \A i \in Ids : Exists(i)' => i < nextId'
<1>1. req[a] \in Locals /\ req[a].word \in Words /\ (req[a].id = 0 \/ req[a].id \in Ids)
  BY FitsBefore DEF Fits
<1>2. NewTerm(req[a]) \in Term
  BY <1>1, NewTermType
<1>3. CASE req[a].id = 0
  <2>1. nextId' = nextId + 1 /\ terms' = [terms EXCEPT ![nextId] = NewTerm(req[a])]
    BY <1>3 DEF Store, StoreAt, Draw
  <2>2. terms' \in [Ids -> Term \cup {NoTerm}]
    BY <1>2, <2>1 DEF TypeInv, TypeOK
  <2>3. \A i \in Ids : Exists(i)' => i = nextId \/ Exists(i)
    BY <2>1 DEF TypeInv, TypeOK, Exists
  <2>4. QED
    BY <2>1, <2>2, <2>3, IdsAssumption DEF TypeInv, TypeOK
<1>4. CASE req[a].id # 0
  <2> DEFINE i == req[a].id
  <2>1. nextId' = nextId /\ i \in Ids
    BY <1>1, <1>4 DEF Draw
  <2>2. CASE Exists(i)
    <3>1. terms' = [terms EXCEPT ![i] = NewTerm(req[a])]
      BY <1>4, <2>2 DEF Store, UpdateTerm, StoreAt
    <3>2. terms' \in [Ids -> Term \cup {NoTerm}]
      BY <1>2, <3>1 DEF TypeInv, TypeOK
    <3>3. \A j \in Ids : Exists(j)' => Exists(j)
      BY <2>2, <3>1 DEF TypeInv, TypeOK, Exists
    <3>4. QED
      BY <2>1, <3>2, <3>3 DEF TypeInv, TypeOK
  <2>3. CASE ~Exists(i)
    <3>1. terms' = terms
      BY <1>4, <2>3 DEF Store, UpdateTerm
    <3>2. QED
      BY <2>1, <3>1 DEF TypeInv, TypeOK, Exists
  <2>4. QED
    BY <2>2, <2>3
<1>5. QED
  BY <1>3, <1>4

LEMMA RemoveType ==
  ASSUME TypeInv, NEW a \in Admins, Remove(a), UNCHANGED nextId
  PROVE  /\ terms' \in [Ids -> Term \cup {NoTerm}]
         /\ nextId' \in Nat \ {0}
         /\ \A i \in Ids : Exists(i)' => i < nextId' /\ terms'[i] = terms[i]
<1>1. terms' = [terms EXCEPT ![req[a].id] = NoTerm]
  BY DEF Remove
<1>2. \A i \in Ids : Exists(i)' => Exists(i) /\ terms'[i] = terms[i]
  BY <1>1 DEF TypeInv, TypeOK, Exists
<1>3. QED
  BY <1>1, <1>2 DEF TypeInv, TypeOK

\* The writes of terms.
LEMMA TermWritesType ==
  ASSUME TypeInv, NEW a \in Admins,
         WriteTerm(a) \/ WriteTermDoubtful(a) \/ DeleteTerm(a) \/ DeleteTermDoubtful(a)
  PROVE  TypeInv'
<1>1. HandlersOK'
  BY FinishType DEF WriteTerm, WriteTermDoubtful, DeleteTerm, DeleteTermDoubtful
<1>2. CASE (WriteTerm(a) /\ Store(a)) \/ WriteTermDoubtful(a)
  <2>1. pc[a] = "write" /\ Store(a) /\ Draw(a) /\ UNCHANGED <<policies, owner, audit>>
    BY <1>2 DEF WriteTerm, WriteTermDoubtful
  <2>2. RestOK'
    BY <2>1, StoreType, TypeParts DEF RestOK
  <2>3. QED
    BY <1>1, <2>2, TypePartsNext
<1>3. CASE WriteTerm(a) /\ ~Store(a)
  <2>1. UNCHANGED <<terms, policies, owner, audit>> /\ Draw(a)
    BY <1>3 DEF WriteTerm
  <2>2. nextId' \in Nat \ {0} /\ nextId' >= nextId
    BY <2>1 DEF Draw, TypeInv, TypeOK
  <2>3. \A i \in Ids : Exists(i)' => i < nextId'
    BY <2>1, <2>2, IdsAssumption DEF TypeInv, TypeOK, Exists
  <2>4. RestOK'
    BY <2>1, <2>2, <2>3, TypeParts DEF RestOK
  <2>5. QED
    BY <1>1, <2>4, TypePartsNext
<1>4. CASE DeleteTerm(a) \/ DeleteTermDoubtful(a)
  <2>1. Remove(a) /\ UNCHANGED <<nextId, policies, owner, audit>>
    BY <1>4 DEF DeleteTerm, DeleteTermDoubtful
  <2>2. RestOK'
    BY <2>1, RemoveType, TypeParts DEF RestOK
  <2>3. QED
    BY <1>1, <2>2, TypePartsNext
<1>5. QED
  BY <1>2, <1>3, <1>4

\* A set of positions that is not empty has a last one.
LEMMA LastPosition ==
  ASSUME NEW n \in Nat, NEW K \in SUBSET (1..n), K # {}
  PROVE  \E k \in K : \A l \in K : l <= k
<1> DEFINE T == {n - k : k \in K}
<1>0. \A k \in K : k \in Nat /\ k <= n
  OBVIOUS
<1>1. T \subseteq Nat /\ T # {}
  <2>1. \A k \in K : n - k \in Nat
    BY <1>0
  <2>2. QED
    BY <2>1
<1> DEFINE R == OpToRel(<, Nat)
<1>2. IsWellFoundedOn(R, Nat)
  BY NatLessThanWellFounded
<1>3. \A x, y \in Nat : y < x => <<y, x>> \in R
  BY DEF OpToRel
<1> HIDE DEF R
<1>4. PICK x \in T : \A y \in T : ~(<<y, x>> \in R)
  BY <1>1, <1>2, WFMin
<1>5. \A y \in T : ~(y < x)
  BY <1>1, <1>3, <1>4
<1>6. PICK k \in K : x = n - k
  BY <1>4
<1>7. \A l \in K : l <= k
  <2> SUFFICES ASSUME NEW l \in K PROVE l <= k
    OBVIOUS
  <2>1. ~(n - l < n - k)
    BY <1>5, <1>6
  <2>2. QED
    BY <1>0, <2>1
<1>8. QED
  BY <1>7

\* The last entry for a type is one of the entries for it.
LEMMA AppliedValue ==
  ASSUME NEW p \in Seq(Entries), NEW q, NEW e \in Entities
  PROVE  \/ Applied(p, q)[e] = q[e] /\ (\A k \in DOMAIN p : p[k][1] # e)
         \/ \E k \in DOMAIN p : p[k][1] = e /\ Applied(p, q)[e] = p[k][2]
<1> DEFINE K == {k \in DOMAIN p : p[k][1] = e}
<1>1. Applied(p, q)[e] =
        IF K = {} THEN q[e] ELSE p[CHOOSE k \in K : \A l \in K : l <= k][2]
  BY DEF Applied
<1>2. CASE K = {}
  BY <1>1, <1>2
<1>3. CASE K # {}
  <2>1. Len(p) \in Nat /\ K \in SUBSET (1..Len(p))
    OBVIOUS
  <2>2. \E k \in K : \A l \in K : l <= k
    BY <1>3, <2>1, LastPosition
  <2>3. (CHOOSE k \in K : \A l \in K : l <= k) \in K
    BY <2>2
  <2>4. QED
    BY <1>1, <1>3, <2>3
<1>4. QED
  BY <1>2, <1>3

LEMMA EntryType ==
  ASSUME TypeInv, NEW a \in Admins, pc[a] = "upsert"
  PROVE  Entry(a) \in Entries /\ Wanted(a) \in Entities /\ Entry(a)[2] \in PolicyActions
<1>1. req[a] \in Locals /\ req[a].sent < Len(req[a].payload)
        /\ \A k \in DOMAIN req[a].payload : req[a].payload[k][2] \in PolicyActions
  BY FitsBefore DEF Fits
<1>2. req[a].payload \in Seq(Entries) /\ req[a].sent \in Nat
  BY <1>1 DEF Locals
<1>3. req[a].sent + 1 \in 1..Len(req[a].payload)
  BY <1>1, <1>2
<1>4. req[a].sent + 1 \in DOMAIN req[a].payload /\ Entry(a) \in Entries
  BY <1>2, <1>3 DEF Entry
<1>5. QED
  BY <1>1, <1>4 DEF Entry, Wanted, Entries

LEMMA AfterUpsertType ==
  ASSUME TypeInv, NEW a \in Admins, pc[a] = "upsert", AfterUpsert(a)
  PROVE  HandlersOK'
<1> DEFINE n == req[a].sent + 1
           s == IF n = Len(req[a].payload) THEN "commit" ELSE "upsert"
           r == [req[a] EXCEPT !.sent = n]
<1>1. /\ req[a] \in Locals /\ req[a].sent < Len(req[a].payload)
      /\ \A k \in DOMAIN req[a].payload : req[a].payload[k][2] \in PolicyActions
  BY FitsBefore DEF Fits
<1>2. req[a].payload \in Seq(Entries) /\ req[a].sent \in Nat
  BY <1>1 DEF Locals
<1>3. n \in Nat /\ (n = Len(req[a].payload) \/ n < Len(req[a].payload))
  BY <1>1, <1>2
<1>4. r \in Locals /\ r.payload = req[a].payload /\ r.sent = n
  BY <1>1, <1>3 DEF Locals
<1>5. Fits(s, r)
  BY <1>1, <1>3, <1>4 DEF Fits
<1>6. Begin(a, s, r) /\ s \in Running
  BY DEF AfterUpsert, Running, PolicySteps
<1>7. QED
  BY <1>5, <1>6, BeginType

LEMMA PoliciesType ==
  ASSUME TypeInv, NEW a \in Admins, pc[a] = "commit", Commit(a)
  PROVE  policies' \in [Entities -> PolicyActions] /\ owner' \in [Entities -> Admins \cup {NoAdmin}]
<1> DEFINE p == req[a].payload
<1>1. req[a] \in Locals /\ \A k \in DOMAIN p : p[k][2] \in PolicyActions
  BY FitsBefore DEF Fits
<1>2. p \in Seq(Entries)
  BY <1>1 DEF Locals
<1>3. \A e \in Entities : policies[e] \in PolicyActions
  BY DEF TypeInv, TypeOK
<1>4. \A e \in Entities : Applied(p, policies)[e] \in PolicyActions
  BY <1>1, <1>2, <1>3, AppliedValue
<1>5. policies' = [e \in Entities |-> IF owner[e] = a THEN Applied(p, policies)[e] ELSE policies[e]]
  BY DEF Commit
<1>6. QED
  BY <1>3, <1>4, <1>5 DEF Commit, Release, TypeInv, TypeOK

\* The PATCH of policies.
LEMMA PolicyStepsType ==
  ASSUME TypeInv, NEW a \in Admins,
         \/ \E p \in Payloads : PatchPolicies(a, p)
         \/ Upsert(a) \/ CommitPolicies(a) \/ CommitDoubtful(a) \/ ListPolicies(a) \/ ListFails(a)
         \/ UpsertFails(a) \/ DeadlockFound(a)
  PROVE  TypeInv'
<1>1. ASSUME NEW p \in Payloads, PatchPolicies(a, p) PROVE TypeInv'
  <2>1. CASE p # <<>> /\ \A k \in DOMAIN p : p[k][2] \in PolicyActions
    <3> DEFINE r == [Nothing EXCEPT !.payload = p]
    <3>1. p \in Seq(Entries)
      BY PayloadsAssumption DEF Entries
    <3>2. Len(p) > 0
      BY <2>1, <3>1, EmptySeq
    <3>3. r \in Locals /\ r.payload = p /\ r.sent = 0
      BY <3>1, NothingType DEF Nothing, Locals
    <3>4. Fits("upsert", r)
      BY <2>1, <3>2, <3>3 DEF Fits
    <3>5. HandlersOK'
      BY <1>1, <2>1, <3>4, BeginType DEF PatchPolicies, Running, PolicySteps
    <3>6. QED
      BY <1>1, <3>5, SameTables, TypePartsNext DEF PatchPolicies
  <2>2. CASE ~(p # <<>> /\ \A k \in DOMAIN p : p[k][2] \in PolicyActions)
    BY <1>1, <2>2, FinishType, SameTables, TypePartsNext DEF PatchPolicies
  <2>3. QED
    BY <2>1, <2>2
<1>2. CASE Upsert(a)
  <2>1. HandlersOK'
    BY <1>2, AfterUpsertType DEF Upsert
  <2>2. owner' \in [Entities -> Admins \cup {NoAdmin}]
    BY <1>2 DEF Upsert, TypeInv, TypeOK
  <2>3. RestOK'
    BY <1>2, <2>2, TypeParts DEF Upsert, tables, RestOK, Exists
  <2>4. QED
    BY <2>1, <2>3, TypePartsNext
<1>3. CASE CommitPolicies(a) \/ CommitDoubtful(a)
  <2>1. pc[a] = "commit" /\ Commit(a) /\ UNCHANGED <<terms, nextId, audit>>
    BY <1>3 DEF CommitPolicies, CommitDoubtful, Commit
  <2>2. Fits("list", req[a])
    BY <2>1, FitsBefore DEF Fits
  <2>3. HandlersOK'
    BY <1>3, <2>2, PassType, FinishType DEF CommitPolicies, CommitDoubtful, Running, PolicySteps
  <2>4. RestOK'
    BY <2>1, PoliciesType, TypeParts DEF RestOK, Exists
  <2>5. QED
    BY <2>3, <2>4, TypePartsNext
<1>4. CASE ListPolicies(a) \/ ListFails(a)
  BY <1>4, FinishType, SameTables, TypePartsNext DEF ListPolicies, ListFails
<1>5. CASE UpsertFails(a) \/ DeadlockFound(a)
  <2>1. AbortPolicies(a)
    BY <1>5 DEF UpsertFails, DeadlockFound
  <2>2. HandlersOK'
    BY <2>1, FinishType DEF AbortPolicies
  <2>3. owner' \in [Entities -> Admins \cup {NoAdmin}]
    BY <2>1 DEF AbortPolicies, Release, TypeInv, TypeOK
  <2>4. RestOK'
    BY <2>1, <2>3, TypeParts DEF AbortPolicies, tables, RestOK, Exists
  <2>5. QED
    BY <2>2, <2>4, TypePartsNext
<1>6. QED
  BY <1>1, <1>2, <1>3, <1>4, <1>5

LEMMA AuditType ==
  ASSUME TypeInv, NEW a \in Admins, WriteAudit(a) \/ AuditFails(a)
  PROVE  TypeInv'
<1>1. pc[a] = "audit" /\ pc' = [pc EXCEPT ![a] = "done"] /\ req' = req
        /\ UNCHANGED <<tables, owner, status>>
  BY DEF WriteAudit, AuditFails, Goto
<1>2. req' = [req EXCEPT ![a] = req[a]]
  BY <1>1 DEF TypeInv
<1>3. Fits("done", req[a]) /\ "done" \in Ended
  BY <1>1, FitsBefore DEF Fits, Ended
<1>4. HandlersOK'
  BY <1>1, <1>2, <1>3, OneMoves, TypeParts DEF HandlersOK
<1>5. audit' \in [Admins -> Results]
  BY DEF WriteAudit, AuditFails, TypeInv, TypeOK, Results
<1>6. RestOK'
  BY <1>1, <1>5, TypeParts DEF tables, RestOK, Exists
<1>7. QED
  BY <1>4, <1>6, TypePartsNext

LEMMA CrashType ==
  ASSUME TypeInv, Crash
  PROVE  TypeInv'
<1>1. \A a \in Admins : pc'[a] \in {"idle"} \cup Ended /\ req'[a] = Nothing
  BY DEF Crash, TypeInv, TypeOK, Ended
<1>2. \A a \in Admins : Fits(pc'[a], req'[a])
  BY <1>1, NothingFits DEF Ended
<1>3. LocalsOK'
  BY <1>2 DEF LocalsOK, Fits
<1>4. pc' \in [Admins -> {"idle"} \cup Running \cup Ended] /\ req' \in [Admins -> Locals]
  BY <1>1, NothingType DEF Crash
<1>5. owner' \in [Entities -> Admins \cup {NoAdmin}]
  BY DEF Crash
<1>6. HandlersOK' /\ RestOK'
  BY <1>3, <1>4, <1>5, TypeParts DEF Crash, tables, HandlersOK, RestOK, Exists
<1>7. QED
  BY <1>6, TypePartsNext

\* The cases of a step, for the lemmas below.
LEMMA StepCases ==
  ASSUME [Next]_vars
  PROVE  \/ \E a \in Admins :
              \/ \E x \in Texts, e \in BOOLEAN : Post(a, x, e)
              \/ \E i \in Ids, x \in Texts, n \in BOOLEAN, e \in BOOLEAN : Patch(a, i, x, n, e)
              \/ \E i \in Ids : Delete(a, i)
              \/ Load(a) \/ Reload(a) \/ EnsureUnique(a) \/ FindTerm(a) \/ TermFails(a)
         \/ \E a \in Admins :
              WriteTerm(a) \/ WriteTermDoubtful(a) \/ DeleteTerm(a) \/ DeleteTermDoubtful(a)
         \/ \E a \in Admins :
              \/ \E p \in Payloads : PatchPolicies(a, p)
              \/ Upsert(a) \/ CommitPolicies(a) \/ CommitDoubtful(a) \/ ListPolicies(a)
              \/ ListFails(a) \/ UpsertFails(a) \/ DeadlockFound(a)
         \/ \E a \in Admins : WriteAudit(a) \/ AuditFails(a)
         \/ Crash
         \/ UNCHANGED vars
<1>1. CASE UNCHANGED vars
  BY <1>1
<1>2. CASE Crash \/ Finished
  BY <1>2 DEF Finished
<1>3. CASE \E a \in Admins : Ask(a)
  BY <1>3 DEF Ask
<1>4. CASE \E a \in Admins : Step(a)
  BY <1>4 DEF Step
<1>5. CASE \E a \in Admins : Fails(a)
  BY <1>5 DEF Fails
<1>6. QED
  BY <1>1, <1>2, <1>3, <1>4, <1>5 DEF Next

LEMMA NextTypeInv == TypeInv /\ [Next]_vars => TypeInv'
<1> SUFFICES ASSUME TypeInv, [Next]_vars PROVE TypeInv'
  OBVIOUS
<1>1. CASE UNCHANGED vars
  BY <1>1 DEF vars, tables, TypeInv, TypeOK, LocalsOK, Exists
<1>2. QED
  BY <1>1, StepCases, TermStepsType, TermWritesType, PolicyStepsType, AuditType, CrashType

\* Every variable keeps its type, whatever administrators ask for, whichever statements fail
\* and wherever the process stops.
THEOREM TypeCorrect == Spec => []TypeOK
<1>1. Init => TypeInv
  BY InitTypeInv
<1>2. TypeInv /\ [Next]_vars => TypeInv'
  BY NextTypeInv
<1>3. TypeInv => TypeOK
  BY DEF TypeInv
<1>4. QED
  BY <1>1, <1>2, <1>3, PTL DEF Spec

-----------------------------------------------------------------------------
(* Blocked terms. *)

\* A row is written only by a statement that the unique index accepts: a new row, or one
\* that is there.
Writes(a, i) ==
  /\ Accepts(req[a]) /\ req[a].word \in Words /\ req[a] \in Locals
  /\ \/ req[a].id = 0 /\ i = nextId
     \/ req[a].id = i /\ i \in Ids /\ Exists(i)
  /\ terms' = [terms EXCEPT ![i] = NewTerm(req[a])]

LEMMA TermsChange ==
  ASSUME TypeInv, [Next]_vars
  PROVE  \/ terms' = terms
         \/ \E a \in Admins : \E i \in Nat : Writes(a, i)
         \/ \E i \in Ids : terms' = [terms EXCEPT ![i] = NoTerm]
<1>1. ASSUME NEW a \in Admins, pc[a] = "write", Accepts(req[a]), Store(a)
      PROVE  terms' = terms \/ \E i \in Nat : Writes(a, i)
  <2>1. req[a] \in Locals /\ req[a].word \in Words /\ (req[a].id = 0 \/ req[a].id \in Ids)
    BY <1>1, FitsBefore DEF Fits
  <2>2. CASE req[a].id = 0
    <3>1. Writes(a, nextId)
      BY <1>1, <2>1, <2>2 DEF Store, StoreAt, Writes
    <3>2. QED
      BY <3>1 DEF TypeInv, TypeOK
  <2>3. CASE req[a].id # 0 /\ Exists(req[a].id)
    <3>1. Writes(a, req[a].id)
      BY <1>1, <2>1, <2>3 DEF Store, UpdateTerm, StoreAt, Writes
    <3>2. QED
      BY <2>1, <3>1, IdsAssumption
  <2>4. CASE req[a].id # 0 /\ ~Exists(req[a].id)
    BY <1>1, <2>4 DEF Store, UpdateTerm
  <2>5. QED
    BY <2>2, <2>3, <2>4
<1>2. ASSUME NEW a \in Admins, WriteTerm(a) \/ WriteTermDoubtful(a)
      PROVE  terms' = terms \/ \E i \in Nat : Writes(a, i)
  BY <1>1, <1>2 DEF WriteTerm, WriteTermDoubtful
<1>3. ASSUME NEW a \in Admins, DeleteTerm(a) \/ DeleteTermDoubtful(a)
      PROVE  \E i \in Ids : terms' = [terms EXCEPT ![i] = NoTerm]
  <2>1. req[a].id \in Ids
    BY <1>3, FitsBefore DEF Fits, DeleteTerm, DeleteTermDoubtful
  <2>2. QED
    BY <1>3, <2>1 DEF DeleteTerm, DeleteTermDoubtful, Remove
<1>4. ASSUME NEW a \in Admins,
             \/ \E x \in Texts, e \in BOOLEAN : Post(a, x, e)
             \/ \E i \in Ids, x \in Texts, n \in BOOLEAN, e \in BOOLEAN : Patch(a, i, x, n, e)
             \/ \E i \in Ids : Delete(a, i)
             \/ Load(a) \/ Reload(a) \/ EnsureUnique(a) \/ FindTerm(a) \/ TermFails(a)
      PROVE  terms' = terms
  BY <1>4 DEF Post, Patch, Delete, Load, Reload, EnsureUnique, FindTerm, TermFails, tables
<1>5. ASSUME NEW a \in Admins,
             \/ \E p \in Payloads : PatchPolicies(a, p)
             \/ Upsert(a) \/ CommitPolicies(a) \/ CommitDoubtful(a) \/ ListPolicies(a)
             \/ ListFails(a) \/ UpsertFails(a) \/ DeadlockFound(a)
      PROVE  terms' = terms
  BY <1>5 DEF PatchPolicies, Upsert, CommitPolicies, CommitDoubtful, ListPolicies, ListFails,
              UpsertFails, DeadlockFound, AbortPolicies, tables
<1>6. ASSUME (\E a \in Admins : WriteAudit(a) \/ AuditFails(a)) \/ Crash \/ UNCHANGED vars
      PROVE  terms' = terms
  BY <1>6 DEF WriteAudit, AuditFails, Crash, vars, tables
<1>7. QED
  BY StepCases, <1>2, <1>3, <1>4, <1>5, <1>6

LEMMA InitNoTwins == Init => NoTwinTerms
<1> SUFFICES ASSUME Init PROVE NoTwinTerms
  OBVIOUS
<1> DEFINE Rows(S, word) ==
             /\ \A i, j \in S : word[i] = word[j] => i = j
             /\ terms = [i \in Ids |-> IF i \in S THEN [word |-> word[i], enabled |-> TRUE]
                                       ELSE NoTerm]
<1>0. PICK S \in SUBSET Ids : \E word \in [S -> Words] : Rows(S, word)
  BY DEF Init
<1>1. PICK word \in [S -> Words] : Rows(S, word)
  BY <1>0
<1>2. \A i \in Ids : Exists(i) => i \in S /\ terms[i].word = word[i]
  BY <1>1 DEF Exists
<1>3. QED
  BY <1>1, <1>2 DEF NoTwinTerms

LEMMA NextNoTwins == TypeInv /\ NoTwinTerms /\ [Next]_vars => NoTwinTerms'
<1> SUFFICES ASSUME TypeInv, NoTwinTerms, [Next]_vars PROVE NoTwinTerms'
  OBVIOUS
<1>1. CASE terms' = terms
  BY <1>1 DEF NoTwinTerms, Exists
<1>2. ASSUME NEW a \in Admins, NEW i \in Nat, Writes(a, i) PROVE NoTwinTerms'
  <2>1. \A j \in Ids : j # i /\ Exists(j) => terms[j].word # req[a].word
    BY <1>2, IdsAssumption DEF Writes, Accepts, Taken
  <2>2. \A j \in Ids : terms'[j] = IF j = i THEN NewTerm(req[a]) ELSE terms[j]
    BY <1>2 DEF Writes, TypeInv, TypeOK
  <2>3. NewTerm(req[a]).word = req[a].word
    BY DEF NewTerm
  <2>4. QED
    BY <2>1, <2>2, <2>3 DEF NoTwinTerms, Exists
<1>3. ASSUME NEW i \in Ids, terms' = [terms EXCEPT ![i] = NoTerm] PROVE NoTwinTerms'
  <2>1. \A j \in Ids : Exists(j)' => Exists(j) /\ terms'[j] = terms[j]
    BY <1>3 DEF Exists, TypeInv, TypeOK
  <2>2. QED
    BY <2>1 DEF NoTwinTerms
<1>4. QED
  BY TermsChange, <1>1, <1>2, <1>3

\* No two rows block the same term: the check for duplicates is stale when the row is
\* inserted, and the unique index refuses what it missed.
THEOREM NoTwinsEver == Spec => []NoTwinTerms
<1>1. Init => TypeInv /\ NoTwinTerms
  BY InitTypeInv, InitNoTwins
<1>2. TypeInv /\ NoTwinTerms /\ [Next]_vars => (TypeInv /\ NoTwinTerms)'
  BY NextTypeInv, NextNoTwins
<1>3. QED
  BY <1>1, <1>2, PTL DEF Spec

LEMMA StepKeepsDeleted ==
  TypeInv /\ [Next]_vars => \A i \in Ids : i < nextId /\ terms[i] = NoTerm => terms'[i] = NoTerm
<1> SUFFICES ASSUME TypeInv, [Next]_vars, NEW i \in Ids, i < nextId, terms[i] = NoTerm
             PROVE  terms'[i] = NoTerm
  OBVIOUS
<1>1. ASSUME NEW a \in Admins, NEW j \in Nat, Writes(a, j) PROVE terms'[i] = NoTerm
  <2>1. i # j
    BY <1>1, IdsAssumption DEF Writes, Exists, TypeInv, TypeOK
  <2>2. QED
    BY <1>1, <2>1 DEF Writes, TypeInv, TypeOK
<1>2. ASSUME NEW j \in Ids, terms' = [terms EXCEPT ![j] = NoTerm] PROVE terms'[i] = NoTerm
  BY <1>2 DEF TypeInv, TypeOK
<1>3. QED
  BY TermsChange, <1>1, <1>2

\* A term that an administrator deleted does not come back: a PATCH that read it before
\* updates a row that is gone, and ids are not used again.
THEOREM DeletedForGood == Spec => DeletedStaysDeleted
<1>1. Init => TypeInv
  BY InitTypeInv
<1>2. TypeInv /\ [Next]_vars => TypeInv'
  BY NextTypeInv
<1>3. TypeInv /\ [Next]_vars
        => [\A i \in Ids : i < nextId /\ terms[i] = NoTerm => terms'[i] = NoTerm]_vars
  BY StepKeepsDeleted
<1>4. QED
  BY <1>1, <1>2, <1>3, PTL DEF Spec, DeletedStaysDeleted

-----------------------------------------------------------------------------
(* PII policies. *)

\* A transaction holds the rows of the entries it has upserted.
Owned ==
  \A a \in Admins : pc[a] \in {"upsert", "commit"} =>
    \A k \in 1..req[a].sent : owner[req[a].payload[k][1]] = a

PoliciesInv == TypeInv /\ Owned /\ PoliciesNeverMixed

\* A handler that is not between its upserts leaves the rows alone.
LEMMA OwnedByOthers ==
  ASSUME TypeInv, Owned, NEW a \in Admins, NEW s, NEW r,
         pc' = [pc EXCEPT ![a] = s], req' = [req EXCEPT ![a] = r],
         s \in {"upsert", "commit"} => r.sent = 0,
         \A e \in Entities, b \in Admins : b # a /\ owner[e] = b => owner'[e] = b
  PROVE  Owned'
<1> SUFFICES ASSUME NEW b \in Admins, pc'[b] \in {"upsert", "commit"}, NEW k \in 1..req'[b].sent
             PROVE  owner'[req'[b].payload[k][1]] = b
  BY DEF Owned
<1>1. CASE b = a
  <2>1. pc'[b] = s /\ req'[b] = r
    BY <1>1 DEF TypeInv, TypeOK
  <2>2. r.sent = 0
    BY <2>1
  <2>3. QED
    BY <2>1, <2>2
<1>2. CASE b # a
  <2>1. pc'[b] = pc[b] /\ req'[b] = req[b]
    BY <1>2 DEF TypeInv, TypeOK
  <2>2. req[b] \in Locals /\ req[b].sent <= Len(req[b].payload)
    BY <2>1, FitsBefore DEF Fits, Locals
  <2>3. k \in 1..Len(req[b].payload) /\ req[b].payload \in Seq(Entries)
    BY <2>1, <2>2 DEF Locals
  <2>4. req[b].payload[k][1] \in Entities
    BY <2>3 DEF Entries
  <2>5. QED
    BY <1>2, <2>1, <2>4 DEF Owned
<1>3. QED
  BY <1>1, <1>2

\* The term handlers, and the first and last steps of a PATCH of policies.
LEMMA TermStepsMove ==
  ASSUME TypeInv, NEW a \in Admins,
         \/ \E x \in Texts, e \in BOOLEAN : Post(a, x, e)
         \/ \E i \in Ids, x \in Texts, n \in BOOLEAN, e \in BOOLEAN : Patch(a, i, x, n, e)
         \/ \E i \in Ids : Delete(a, i)
         \/ Load(a) \/ Reload(a) \/ EnsureUnique(a) \/ FindTerm(a) \/ TermFails(a)
         \/ WriteTerm(a) \/ WriteTermDoubtful(a) \/ DeleteTerm(a) \/ DeleteTermDoubtful(a)
         \/ WriteAudit(a) \/ AuditFails(a)
  PROVE  /\ \E s, r : /\ pc' = [pc EXCEPT ![a] = s] /\ req' = [req EXCEPT ![a] = r]
                      /\ s \notin {"upsert", "commit", "list"}
         /\ UNCHANGED <<policies, owner, serial>>
<1>1. req = [req EXCEPT ![a] = req[a]]
  BY DEF TypeInv
<1>2. UNCHANGED <<policies, owner, serial>>
  BY DEF Post, Patch, Delete, Load, Reload, EnsureUnique, FindTerm, TermFails, WriteTerm,
         WriteTermDoubtful, DeleteTerm, DeleteTermDoubtful, WriteAudit, AuditFails, tables, history
<1>3. ASSUME NEW s, NEW t \in {"audit", "done"}, Finish(a, s) \/ Answer(a)
      PROVE  \E u, r : /\ pc' = [pc EXCEPT ![a] = u] /\ req' = [req EXCEPT ![a] = r]
                       /\ u \notin {"upsert", "commit", "list"}
  BY <1>3 DEF Finish, Answer, Goto
<1>4. ASSUME NEW s \in TermSteps, NEW r, Begin(a, s, r)
      PROVE  \E u, q : /\ pc' = [pc EXCEPT ![a] = u] /\ req' = [req EXCEPT ![a] = q]
                       /\ u \notin {"upsert", "commit", "list"}
  BY <1>4 DEF Begin, Goto, TermSteps
<1>5. ASSUME NEW s \in TermSteps, Pass(a, s)
      PROVE  \E u, q : /\ pc' = [pc EXCEPT ![a] = u] /\ req' = [req EXCEPT ![a] = q]
                       /\ u \notin {"upsert", "commit", "list"}
  BY <1>1, <1>5 DEF Pass, Goto, TermSteps
<1>6. CASE WriteAudit(a) \/ AuditFails(a)
  BY <1>1, <1>2, <1>6 DEF WriteAudit, AuditFails, Goto
<1>7. CASE TermFails(a) \/ WriteTerm(a) \/ WriteTermDoubtful(a) \/ DeleteTerm(a) \/ DeleteTermDoubtful(a)
  BY <1>2, <1>3, <1>7 DEF TermFails, WriteTerm, WriteTermDoubtful, DeleteTerm, DeleteTermDoubtful
<1>8. CASE Load(a) \/ Reload(a) \/ EnsureUnique(a) \/ FindTerm(a)
  BY <1>2, <1>3, <1>4, <1>5, <1>8 DEF Load, Reload, EnsureUnique, FindTerm, TermSteps
<1>9. CASE \/ \E x \in Texts, e \in BOOLEAN : Post(a, x, e)
           \/ \E i \in Ids, x \in Texts, n \in BOOLEAN, e \in BOOLEAN : Patch(a, i, x, n, e)
           \/ \E i \in Ids : Delete(a, i)
  BY <1>2, <1>3, <1>4, <1>9 DEF Post, Patch, Delete, TermSteps
<1>10. QED
  BY <1>6, <1>7, <1>8, <1>9

\* The entries of one PATCH, applied to the rows it holds or to all of them, give the same.
LEMMA CommitIsSerial ==
  ASSUME PoliciesInv, NEW a \in Admins, Commit(a)
  PROVE  policies' = serial'
<1> DEFINE p == req[a].payload
<1>1. pc[a] = "commit" /\ serial' = Applied(p, serial) /\ policies = serial
        /\ policies' = [e \in Entities |-> IF owner[e] = a THEN Applied(p, policies)[e] ELSE policies[e]]
  BY DEF Commit, PoliciesInv, PoliciesNeverMixed
<1>2. req[a] \in Locals /\ req[a].sent = Len(p)
  BY <1>1, FitsBefore DEF PoliciesInv, Fits
<1>3. p \in Seq(Entries)
  BY <1>2 DEF Locals
<1>4. \A k \in DOMAIN p : owner[p[k][1]] = a
  BY <1>1, <1>2, <1>3 DEF PoliciesInv, Owned
<1>5. ASSUME NEW e \in Entities, owner[e] # a PROVE Applied(p, policies)[e] = policies[e]
  BY <1>3, <1>4, <1>5, AppliedValue
<1>6. serial' = [e \in Entities |-> Applied(p, policies)[e]]
  <2> HIDE DEF p
  <2>1. serial' = Applied(p, policies)
    BY <1>1
  <2>2. Applied(p, policies) = [e \in Entities |-> Applied(p, policies)[e]]
    BY DEF Applied
  <2>3. QED
    BY <2>1, <2>2
<1>7. QED
  BY <1>1, <1>5, <1>6

LEMMA NextPoliciesInv == PoliciesInv /\ [Next]_vars => (Owned /\ PoliciesNeverMixed)'
<1> SUFFICES ASSUME PoliciesInv, [Next]_vars PROVE Owned' /\ PoliciesNeverMixed'
  OBVIOUS
<1> USE DEF PoliciesInv
<1>0. req = [a \in Admins |-> req[a]] /\ \A a \in Admins : req = [req EXCEPT ![a] = req[a]]
  BY DEF TypeInv
<1>1. ASSUME NEW a \in Admins, UNCHANGED <<policies, owner, serial>>,
             NEW s, NEW r, pc' = [pc EXCEPT ![a] = s], req' = [req EXCEPT ![a] = r],
             s \in {"upsert", "commit"} => r.sent = 0
      PROVE  Owned' /\ PoliciesNeverMixed'
  BY <1>1, OwnedByOthers DEF PoliciesNeverMixed
<1>2. ASSUME NEW a \in Admins, NEW p \in Payloads, PatchPolicies(a, p)
      PROVE  Owned' /\ PoliciesNeverMixed'
  <2>1. UNCHANGED <<policies, owner, serial>>
    BY <1>2 DEF PatchPolicies, tables, history
  <2>2. CASE Finish(a, "failed")
    BY <1>1, <2>1, <2>2 DEF Finish, Goto
  <2>3. CASE Begin(a, "upsert", [Nothing EXCEPT !.payload = p])
    <3>1. [Nothing EXCEPT !.payload = p].sent = 0
      BY DEF Nothing
    <3>2. QED
      BY <1>1, <2>1, <2>3, <3>1 DEF Begin, Goto
  <2>4. QED
    BY <1>2, <2>2, <2>3 DEF PatchPolicies
<1>3. ASSUME NEW a \in Admins, ListPolicies(a) \/ ListFails(a)
      PROVE  Owned' /\ PoliciesNeverMixed'
  BY <1>1, <1>3 DEF ListPolicies, ListFails, Finish, Goto, tables, history
<1>4. ASSUME NEW a \in Admins, Upsert(a) PROVE Owned' /\ PoliciesNeverMixed'
  <2> DEFINE n == req[a].sent + 1
             p == req[a].payload
             s == IF n = Len(p) THEN "commit" ELSE "upsert"
  <2>1. /\ pc' = [pc EXCEPT ![a] = s] /\ req' = [req EXCEPT ![a] = [req[a] EXCEPT !.sent = n]]
        /\ owner' = [owner EXCEPT ![p[n][1]] = a]
        /\ owner[p[n][1]] \in {a, NoAdmin}
        /\ pc[a] = "upsert" /\ UNCHANGED <<policies, serial>>
    BY <1>4 DEF Upsert, AfterUpsert, Begin, Goto, Wanted, Entry, Waits, tables, history
  <2>2. req[a] \in Locals /\ req[a].sent < Len(p)
    BY <2>1, FitsBefore DEF Fits
  <2>3. n \in Nat /\ n \in 1..Len(p) /\ p \in Seq(Entries) /\ req[a].sent \in Nat
    BY <2>2 DEF Locals
  <2>4. \A e \in Entities, b \in Admins : b # a /\ owner[e] = b => owner'[e] = b
    BY <2>1, AdminsAssumption DEF TypeInv, TypeOK
  <2>5. ASSUME NEW b \in Admins, pc'[b] \in {"upsert", "commit"}, NEW k \in 1..req'[b].sent
        PROVE  owner'[req'[b].payload[k][1]] = b
    <3>1. CASE b = a
      <4>1. req'[b] = [req[a] EXCEPT !.sent = n]
        BY <2>1, <3>1 DEF TypeInv
      <4>2. req'[b].sent = n /\ req'[b].payload = p
        BY <2>2, <4>1 DEF Locals
      <4>3. k \in 1..Len(p) /\ p[k][1] \in Entities
        BY <2>3, <4>2 DEF Entries
      <4>4. CASE p[k][1] = p[n][1]
        BY <2>1, <3>1, <4>2, <4>3, <4>4 DEF TypeInv, TypeOK
      <4>5. CASE p[k][1] # p[n][1]
        <5>1. k \in 1..req[a].sent
          BY <2>3, <4>2, <4>5
        <5>2. owner[p[k][1]] = a
          BY <2>1, <5>1 DEF Owned
        <5>3. QED
          BY <2>1, <3>1, <4>2, <4>3, <4>5, <5>2 DEF TypeInv, TypeOK
      <4>6. QED
        BY <4>4, <4>5
    <3>2. CASE b # a
      <4>1. pc'[b] = pc[b] /\ req'[b] = req[b]
        BY <2>1, <3>2 DEF TypeInv, TypeOK
      <4>2. req[b] \in Locals /\ req[b].sent <= Len(req[b].payload)
        BY <2>5, <4>1, FitsBefore DEF Fits, Locals
      <4>3. k \in 1..Len(req[b].payload) /\ req[b].payload \in Seq(Entries)
        BY <2>5, <4>1, <4>2 DEF Locals
      <4>4. req[b].payload[k][1] \in Entities
        BY <4>3 DEF Entries
      <4>5. QED
        BY <2>4, <2>5, <3>2, <4>1, <4>4 DEF Owned
    <3>3. QED
      BY <3>1, <3>2
  <2>6. QED
    BY <2>1, <2>5 DEF Owned, PoliciesNeverMixed
<1>5. ASSUME NEW a \in Admins, Release(a)
      PROVE  \A e \in Entities, b \in Admins : b # a /\ owner[e] = b => owner'[e] = b
  BY <1>5 DEF Release, TypeInv, TypeOK
<1>6. ASSUME NEW a \in Admins, CommitPolicies(a) \/ CommitDoubtful(a)
      PROVE  Owned' /\ PoliciesNeverMixed'
  <2>1. Commit(a) /\ Release(a)
    BY <1>6 DEF CommitPolicies, CommitDoubtful, Commit
  <2>2. PoliciesNeverMixed'
    BY <2>1, CommitIsSerial DEF PoliciesNeverMixed
  <2>3. PICK s, r : /\ pc' = [pc EXCEPT ![a] = s] /\ req' = [req EXCEPT ![a] = r]
                    /\ s \notin {"upsert", "commit"}
    BY <1>0, <1>6 DEF CommitPolicies, CommitDoubtful, Pass, Finish, Goto
  <2>4. \A e \in Entities, b \in Admins : b # a /\ owner[e] = b => owner'[e] = b
    BY <1>5, <2>1
  <2>5. Owned'
    BY <2>3, <2>4, OwnedByOthers
  <2>6. QED
    BY <2>2, <2>5
<1>7. ASSUME NEW a \in Admins, UpsertFails(a) \/ DeadlockFound(a)
      PROVE  Owned' /\ PoliciesNeverMixed'
  <2>1. Release(a) /\ Finish(a, "failed") /\ UNCHANGED <<policies, serial>>
    BY <1>7 DEF UpsertFails, DeadlockFound, AbortPolicies, tables, history
  <2>2. QED
    BY <1>5, <2>1, OwnedByOthers DEF Finish, Goto, PoliciesNeverMixed
<1>8. CASE Crash
  <2>1. \A a \in Admins : pc'[a] \notin {"upsert", "commit"}
    BY <1>8 DEF Crash, TypeInv, TypeOK, Running, PolicySteps
  <2>2. QED
    BY <1>8, <2>1 DEF Crash, Owned, PoliciesNeverMixed, tables, history
<1>9. CASE UNCHANGED vars
  BY <1>9 DEF vars, tables, history, Owned, PoliciesNeverMixed
<1>10. QED
  BY StepCases, TermStepsMove, <1>1, <1>2, <1>3, <1>4, <1>6, <1>7, <1>8, <1>9

\* The policies chat requests read are those of whole PATCHes, one after the other, although
\* their statements interleave: a transaction keeps the rows it has written, to its commit.
THEOREM PoliciesAreSerial == Spec => []PoliciesNeverMixed
<1>1. Init => PoliciesInv
  <2> SUFFICES ASSUME Init PROVE PoliciesInv
    OBVIOUS
  <2>1. Owned
    BY DEF Init, Owned
  <2>2. QED
    BY <2>1, InitTypeInv DEF PoliciesInv, PoliciesNeverMixed, Init
<1>2. PoliciesInv /\ [Next]_vars => PoliciesInv'
  BY NextTypeInv, NextPoliciesInv DEF PoliciesInv
<1>3. PoliciesInv => PoliciesNeverMixed
  BY DEF PoliciesInv
<1>4. QED
  BY <1>1, <1>2, <1>3, PTL DEF Spec

-----------------------------------------------------------------------------
(* The audit trail. *)

BeforeWrite == {"idle"} \cup TermSteps \cup {"upsert", "commit"}

\* Before its write a request has changed nothing; after it, its status says what it did.
TracedSoFar(a) ==
  /\ pc[a] \in BeforeWrite => a \notin changed \cup late
  /\ pc[a] = "list" => a \in changed
  /\ pc[a] = "audit" =>
       /\ a \in changed => status[a] = "success" \/ a \in doubtful
       /\ status[a] = "success" => a \in changed \cup late
  /\ pc[a] # "done" => audit[a] = "none"
  /\ pc[a] = "done" =>
       /\ a \in changed => audit[a] = "success" \/ a \in untraced \cup doubtful
       /\ audit[a] = "success" => a \in changed \cup late

TraceInv == TypeInv /\ \A a \in Admins : TracedSoFar(a)

\* A step of one handler says nothing of the others.
OthersSame(a) ==
  \A b \in Admins : b # a =>
    /\ pc'[b] = pc[b] /\ status'[b] = status[b] /\ audit'[b] = audit[b]
    /\ b \in changed' <=> b \in changed
    /\ b \in doubtful' <=> b \in doubtful
    /\ b \in late' <=> b \in late
    /\ b \in untraced' <=> b \in untraced

LEMMA OthersTraced ==
  ASSUME TraceInv, NEW a \in Admins, OthersSame(a), TracedSoFar(a)'
  PROVE  \A b \in Admins : TracedSoFar(b)'
<1> SUFFICES ASSUME NEW b \in Admins, b # a PROVE TracedSoFar(b)'
  OBVIOUS
<1>1. TracedSoFar(b)
  BY DEF TraceInv
<1>2. QED
  BY <1>1 DEF OthersSame, TracedSoFar

LEMMA HandlerOnly ==
  ASSUME TypeInv, NEW a \in Admins, NEW s,
         \/ Pass(a, s) \/ Answer(a) \/ Finish(a, s) \/ \E r : Begin(a, s, r)
  PROVE  \A b \in Admins : b # a => pc'[b] = pc[b] /\ status'[b] = status[b]
BY DEF Pass, Answer, Finish, Begin, Goto, TypeInv, TypeOK

\* Steps that write nothing yet.
LEMMA NoWriteTraced ==
  ASSUME TraceInv, NEW a \in Admins, UNCHANGED <<audit, changed, doubtful, late, untraced>>,
         pc[a] \in BeforeWrite,
         \/ Finish(a, "failed")
         \/ Answer(a)
         \/ \E s \in BeforeWrite : Pass(a, s) \/ \E r : Begin(a, s, r)
  PROVE  \A b \in Admins : TracedSoFar(b)'
<1>1. a \notin changed \cup late /\ audit[a] = "none"
  BY DEF TraceInv, TracedSoFar, BeforeWrite, TermSteps
<1>2. OthersSame(a)
  BY HandlerOnly DEF TraceInv, OthersSame
<1>3. CASE Finish(a, "failed")
  <2>1. pc'[a] = "audit" /\ status'[a] = "failed" /\ audit'[a] = "none"
    BY <1>1, <1>3 DEF Finish, Goto, TraceInv, TypeInv, TypeOK
  <2>2. TracedSoFar(a)'
    BY <1>1, <2>1 DEF TracedSoFar, BeforeWrite, TermSteps
  <2>3. QED
    BY <1>2, <2>2, OthersTraced
<1>4. CASE Answer(a)
  <2>1. pc'[a] = "done" /\ audit'[a] = "none"
    BY <1>1, <1>4 DEF Answer, Goto, TraceInv, TypeInv, TypeOK
  <2>2. TracedSoFar(a)'
    BY <1>1, <2>1 DEF TracedSoFar, BeforeWrite, TermSteps
  <2>3. QED
    BY <1>2, <2>2, OthersTraced
<1>5. ASSUME NEW s \in BeforeWrite, Pass(a, s) \/ \E r : Begin(a, s, r)
      PROVE  \A b \in Admins : TracedSoFar(b)'
  <2>1. pc'[a] = s /\ audit'[a] = "none"
    BY <1>1, <1>5 DEF Pass, Begin, Goto, TraceInv, TypeInv, TypeOK
  <2>2. TracedSoFar(a)'
    BY <1>1, <2>1 DEF TracedSoFar, BeforeWrite, TermSteps
  <2>3. QED
    BY <1>2, <2>2, OthersTraced
<1>6. QED
  BY <1>3, <1>4, <1>5

\* A write, with the status it sets.
LEMMA WriteTraced ==
  ASSUME TraceInv, NEW a \in Admins, pc[a] \in {"write", "delete", "commit", "list"},
         UNCHANGED <<audit, untraced>>,
         changed' \in {changed, changed \cup {a}}, late' \in {late, late \cup {a}},
         \/ Finish(a, "success") /\ doubtful' = doubtful /\ (a \in changed' \cup late')
         \/ Finish(a, "failed") /\ doubtful' = doubtful \cup {a}
  PROVE  \A b \in Admins : TracedSoFar(b)'
<1>1. audit[a] = "none"
  BY DEF TraceInv, TracedSoFar
<1>2. OthersSame(a)
  BY HandlerOnly DEF TraceInv, OthersSame
<1>3. /\ pc'[a] = "audit" /\ audit'[a] = "none"
      /\ \/ status'[a] = "success" /\ (a \in changed' \cup late')
         \/ status'[a] = "failed" /\ a \in doubtful'
  BY <1>1 DEF Finish, Goto, TraceInv, TypeInv, TypeOK
<1>4. TracedSoFar(a)'
  BY <1>3 DEF TracedSoFar, BeforeWrite, TermSteps
<1>5. QED
  BY <1>2, <1>4, OthersTraced

LEMMA NextTraceInv == TraceInv /\ [Next]_vars => \A b \in Admins : TracedSoFar(b)'
<1> SUFFICES ASSUME TraceInv, [Next]_vars PROVE \A b \in Admins : TracedSoFar(b)'
  OBVIOUS
<1>1. ASSUME NEW a \in Admins,
             \/ \E x \in Texts, e \in BOOLEAN : Post(a, x, e)
             \/ \E i \in Ids, x \in Texts, n \in BOOLEAN, e \in BOOLEAN : Patch(a, i, x, n, e)
             \/ \E i \in Ids : Delete(a, i)
             \/ Load(a) \/ Reload(a) \/ EnsureUnique(a) \/ FindTerm(a) \/ TermFails(a)
      PROVE  \A b \in Admins : TracedSoFar(b)'
  <2>1. UNCHANGED <<audit, changed, doubtful, late, untraced>> /\ pc[a] \in BeforeWrite
    BY <1>1 DEF Post, Patch, Delete, Load, Reload, EnsureUnique, FindTerm, TermFails, history,
                BeforeWrite, TermSteps
  <2>2. \/ Finish(a, "failed")
        \/ Answer(a)
        \/ \E s \in BeforeWrite : Pass(a, s) \/ \E r : Begin(a, s, r)
    BY <1>1 DEF Post, Patch, Delete, Load, Reload, EnsureUnique, FindTerm, TermFails,
                BeforeWrite, TermSteps
  <2>3. QED
    BY <2>1, <2>2, NoWriteTraced
<1>2. ASSUME NEW a \in Admins, WriteTerm(a) PROVE \A b \in Admins : TracedSoFar(b)'
  <2>1. CASE Accepts(req[a]) /\ Store(a) /\ Finish(a, "success")
    BY <1>2, <2>1, WriteTraced DEF WriteTerm, Store, UpdateTerm, StoreAt
  <2>2. CASE Finish(a, "failed") /\ UNCHANGED <<changed, late>>
    BY <1>2, <2>2, NoWriteTraced DEF WriteTerm, BeforeWrite, TermSteps
  <2>3. QED
    BY <1>2, <2>1, <2>2 DEF WriteTerm
<1>3. ASSUME NEW a \in Admins, WriteTermDoubtful(a) PROVE \A b \in Admins : TracedSoFar(b)'
  BY <1>3, WriteTraced DEF WriteTermDoubtful, Store, UpdateTerm, StoreAt
<1>4. ASSUME NEW a \in Admins, DeleteTerm(a) \/ DeleteTermDoubtful(a)
      PROVE  \A b \in Admins : TracedSoFar(b)'
  BY <1>4, WriteTraced DEF DeleteTerm, DeleteTermDoubtful, Remove
<1>5. ASSUME NEW a \in Admins, NEW p \in Payloads, PatchPolicies(a, p)
      PROVE  \A b \in Admins : TracedSoFar(b)'
  BY <1>5, NoWriteTraced DEF PatchPolicies, BeforeWrite, history
<1>6. ASSUME NEW a \in Admins, Upsert(a) PROVE \A b \in Admins : TracedSoFar(b)'
  BY <1>6, NoWriteTraced DEF Upsert, AfterUpsert, BeforeWrite, history
<1>7. ASSUME NEW a \in Admins, CommitPolicies(a) PROVE \A b \in Admins : TracedSoFar(b)'
  <2>1. /\ pc' = [pc EXCEPT ![a] = "list"] /\ changed' = changed \cup {a}
        /\ UNCHANGED <<status, audit, doubtful, late, untraced>> /\ pc[a] = "commit"
    BY <1>7 DEF CommitPolicies, Commit, Pass, Goto
  <2>2. OthersSame(a)
    BY <2>1 DEF OthersSame, TraceInv, TypeInv, TypeOK
  <2>3. audit[a] = "none"
    BY <2>1 DEF TraceInv, TracedSoFar
  <2>4. TracedSoFar(a)'
    BY <2>1, <2>3 DEF TracedSoFar, TraceInv, TypeInv, TypeOK, BeforeWrite, TermSteps
  <2>5. QED
    BY <2>2, <2>4, OthersTraced
<1>8. ASSUME NEW a \in Admins, CommitDoubtful(a) PROVE \A b \in Admins : TracedSoFar(b)'
  BY <1>8, WriteTraced DEF CommitDoubtful, Commit
<1>9. ASSUME NEW a \in Admins, ListPolicies(a) \/ ListFails(a)
      PROVE  \A b \in Admins : TracedSoFar(b)'
  <2>1. a \in changed
    BY <1>9 DEF ListPolicies, ListFails, TraceInv, TracedSoFar
  <2>2. QED
    BY <1>9, <2>1, WriteTraced DEF ListPolicies, ListFails, history
<1>10. ASSUME NEW a \in Admins, UpsertFails(a) \/ DeadlockFound(a)
       PROVE  \A b \in Admins : TracedSoFar(b)'
  <2>1. AbortPolicies(a) /\ pc[a] \in BeforeWrite
    BY <1>10 DEF UpsertFails, DeadlockFound, Waits, BeforeWrite
  <2>2. QED
    BY <2>1, NoWriteTraced DEF AbortPolicies, history
<1>11. ASSUME NEW a \in Admins, WriteAudit(a) \/ AuditFails(a)
       PROVE  \A b \in Admins : TracedSoFar(b)'
  <2>1. /\ pc' = [pc EXCEPT ![a] = "done"] /\ pc[a] = "audit"
        /\ UNCHANGED <<status, changed, doubtful, late>>
        /\ \/ audit' = [audit EXCEPT ![a] = status[a]] /\ UNCHANGED untraced
           \/ /\ \E s \in {"none", status[a]} : audit' = [audit EXCEPT ![a] = s]
              /\ untraced' = untraced \cup {a}
    BY <1>11 DEF WriteAudit, AuditFails, Goto, history
  <2>2. OthersSame(a)
    BY <2>1 DEF OthersSame, TraceInv, TypeInv, TypeOK
  <2>3. /\ pc'[a] = "done"
        /\ \/ audit'[a] = status[a] /\ UNCHANGED untraced
           \/ audit'[a] \in {"none", status[a]} /\ a \in untraced'
    BY <2>1 DEF TraceInv, TypeInv, TypeOK
  <2>4. TracedSoFar(a)
    BY DEF TraceInv
  <2>5. TracedSoFar(a)'
    BY <2>1, <2>3, <2>4 DEF TracedSoFar, BeforeWrite, TermSteps
  <2>6. QED
    BY <2>2, <2>5, OthersTraced
<1>12. ASSUME Crash, NEW b \in Admins PROVE TracedSoFar(b)'
  <2>1. (pc'[b] = "died" /\ pc[b] \in Running) \/ (pc'[b] = pc[b] /\ pc[b] \notin Running)
    BY <1>12 DEF Crash
  <2>2. UNCHANGED <<status, audit, changed, doubtful, late, untraced>> /\ TracedSoFar(b)
    BY <1>12 DEF Crash, history, TraceInv
  <2>3. QED
    BY <2>1, <2>2 DEF TracedSoFar, BeforeWrite, TermSteps, PolicySteps, Running
<1>13. ASSUME UNCHANGED vars, NEW b \in Admins PROVE TracedSoFar(b)'
  <2>1. TracedSoFar(b)
    BY DEF TraceInv
  <2>2. QED
    BY <1>13, <2>1 DEF vars, history, TracedSoFar
<1>14. QED
  BY StepCases, <1>1, <1>2, <1>3, <1>4, <1>5, <1>6, <1>7, <1>8, <1>9, <1>10, <1>11, <1>12, <1>13

\* The audit trail and the tables agree on every finished request: a change that took effect
\* left a "success" event and such an event tells of one, but for an event that could not be
\* written, an answer that was lost, and a row that was deleted just before its PATCH.
THEOREM EveryChangeTraced == Spec => []ChangesTraced
<1>1. Init => TraceInv
  <2> SUFFICES ASSUME Init PROVE TraceInv
    OBVIOUS
  <2>1. \A a \in Admins : TracedSoFar(a)
    BY DEF Init, TracedSoFar
  <2>2. QED
    BY <2>1, InitTypeInv DEF TraceInv
<1>2. TraceInv /\ [Next]_vars => TraceInv'
  BY NextTypeInv, NextTraceInv DEF TraceInv
<1>3. TraceInv => ChangesTraced
  BY DEF TraceInv, TracedSoFar, ChangesTraced
<1>4. QED
  BY <1>1, <1>2, <1>3, PTL DEF Spec

-----------------------------------------------------------------------------
(* The switch of a term. *)

\* A PATCH that does not name "enabled" holds what was last said, unless someone said
\* otherwise since it read the row.
CopiesHold ==
  \A b \in Admins : \A i \in Ids \ overlapped : HoldsCopy(b, i) => req[b].enabled = intended[i]

SwitchParts == intended \in [Ids -> BOOLEAN] /\ SwitchHolds /\ CopiesHold

SwitchInv == TypeInv /\ SwitchParts

\* No row gets another value, and nobody reads one.
LEMMA QuietSwitch ==
  ASSUME SwitchInv, UNCHANGED <<intended, overlapped>>,
         \A i \in Ids : terms'[i] \in {terms[i], NoTerm},
         \A b \in Admins, i \in Ids :
           HoldsCopy(b, i)' => HoldsCopy(b, i) /\ req'[b].enabled = req[b].enabled
  PROVE  SwitchParts'
<1>1. SwitchHolds'
  BY DEF SwitchInv, SwitchParts, SwitchHolds, Exists
<1>2. CopiesHold'
  BY DEF SwitchInv, SwitchParts, CopiesHold
<1>3. QED
  BY <1>1, <1>2 DEF SwitchInv, SwitchParts

LEMMA HoldersAfter ==
  ASSUME TypeInv, NEW a \in Admins, NEW s, NEW r,
         pc' = [pc EXCEPT ![a] = s], req' = [req EXCEPT ![a] = r],
         \/ s \notin {"reload", "unique", "write"}
         \/ r = req[a] /\ pc[a] \in {"reload", "unique", "write"}
         \/ r.named
  PROVE  \A b \in Admins, i \in Ids : HoldsCopy(b, i)' => HoldsCopy(b, i) /\ req'[b] = req[b]
<1> SUFFICES ASSUME NEW b \in Admins, NEW i \in Ids, HoldsCopy(b, i)'
             PROVE  HoldsCopy(b, i) /\ req'[b] = req[b]
  OBVIOUS
<1>1. CASE b = a
  <2>1. pc'[b] = s /\ req'[b] = r
    BY <1>1 DEF TypeInv, TypeOK
  <2>2. r = req[a] /\ pc[a] \in {"reload", "unique", "write"}
    BY <2>1 DEF HoldsCopy
  <2>3. QED
    BY <1>1, <2>1, <2>2 DEF HoldsCopy
<1>2. CASE b # a
  <2>1. pc'[b] = pc[b] /\ req'[b] = req[b]
    BY <1>2 DEF TypeInv, TypeOK
  <2>2. QED
    BY <2>1 DEF HoldsCopy
<1>3. QED
  BY <1>1, <1>2

\* A handler takes a step without a write of a term.
LEMMA QuietStep ==
  ASSUME SwitchInv, NEW a \in Admins, UNCHANGED <<terms, intended, overlapped>>,
         \/ Answer(a)
         \/ Finish(a, "failed") \/ Finish(a, "success")
         \/ \E s \in {"load", "find", "delete", "upsert", "commit", "list"} :
              Pass(a, s) \/ \E r : Begin(a, s, r)
         \/ pc[a] \in {"reload", "unique"} /\ \E s : Pass(a, s)
  PROVE  SwitchParts'
<1>1. TypeInv /\ req = [req EXCEPT ![a] = req[a]]
  BY DEF SwitchInv, TypeInv
<1>2. \A b \in Admins, i \in Ids : HoldsCopy(b, i)' => HoldsCopy(b, i) /\ req'[b] = req[b]
  <2>1. CASE Answer(a) \/ Finish(a, "failed") \/ Finish(a, "success")
    BY <1>1, <2>1, HoldersAfter DEF Answer, Finish, Goto
  <2>2. ASSUME NEW s \in {"load", "find", "delete", "upsert", "commit", "list"}, Pass(a, s)
        PROVE  \A b \in Admins, i \in Ids : HoldsCopy(b, i)' => HoldsCopy(b, i) /\ req'[b] = req[b]
    BY <1>1, <2>2, HoldersAfter DEF Pass, Goto
  <2>3. ASSUME NEW s \in {"load", "find", "delete", "upsert", "commit", "list"}, NEW r, Begin(a, s, r)
        PROVE  \A b \in Admins, i \in Ids : HoldsCopy(b, i)' => HoldsCopy(b, i) /\ req'[b] = req[b]
    BY <1>1, <2>3, HoldersAfter DEF Begin, Goto
  <2>4. ASSUME pc[a] \in {"reload", "unique"}, NEW s, Pass(a, s)
        PROVE  \A b \in Admins, i \in Ids : HoldsCopy(b, i)' => HoldsCopy(b, i) /\ req'[b] = req[b]
    BY <1>1, <2>4, HoldersAfter DEF Pass, Goto
  <2>5. QED
    BY <2>1, <2>2, <2>3, <2>4
<1>3. QED
  BY <1>2, QuietSwitch

\* A PATCH reads the row: it holds what was last said, if the row does.
LEMMA LoadKeepsSwitch ==
  ASSUME SwitchInv, NEW a \in Admins, Load(a)
  PROVE  SwitchParts'
<1> DEFINE i == req[a].id
           r == [req[a] EXCEPT !.enabled = Merged(req[a])]
<1>1. UNCHANGED <<terms, intended, overlapped>> /\ pc[a] = "load"
  BY DEF Load, tables, history
<1>2. CASE Answer(a)
  BY <1>1, <1>2, QuietStep
<1>3. CASE Exists(i) /\ Begin(a, "reload", r)
  <2>1. req[a] \in Locals /\ i \in Ids
    BY <1>1, FitsBefore DEF SwitchInv, Fits
  <2>2. r.id = i /\ r.named = req[a].named /\ r.enabled = Merged(req[a])
    BY <2>1 DEF Locals
  <2>3. \A b \in Admins : pc'[b] = (IF b = a THEN "reload" ELSE pc[b]) /\ req'[b] = (IF b = a THEN r ELSE req[b])
    BY <1>3 DEF Begin, Goto, SwitchInv, TypeInv, TypeOK
  <2>4. ASSUME NEW b \in Admins, NEW j \in Ids \ overlapped', HoldsCopy(b, j)'
        PROVE  req'[b].enabled = intended'[j]
    <3>1. CASE b = a
      <4>1. j = i /\ ~req[a].named
        BY <2>2, <2>3, <2>4, <3>1 DEF HoldsCopy
      <4>2. r.enabled = terms[i].enabled
        BY <2>2, <4>1 DEF Merged
      <4>3. terms[i].enabled = intended[i]
        BY <1>1, <1>3, <2>1, <2>4, <4>1 DEF SwitchInv, SwitchParts, SwitchHolds
      <4>4. QED
        BY <1>1, <2>3, <3>1, <4>1, <4>2, <4>3
    <3>2. CASE b # a
      BY <1>1, <2>3, <2>4, <3>2 DEF HoldsCopy, SwitchInv, SwitchParts, CopiesHold
    <3>3. QED
      BY <3>1, <3>2
  <2>5. SwitchHolds'
    BY <1>1 DEF SwitchInv, SwitchParts, SwitchHolds, Exists
  <2>6. QED
    BY <1>1, <2>4, <2>5 DEF CopiesHold, SwitchInv, SwitchParts
<1>4. QED
  BY <1>2, <1>3 DEF Load

\* A row is stored: with the value that is named, or with what the handler holds.
LEMMA StoreKeepsSwitch ==
  ASSUME SwitchInv, NEW a \in Admins, pc[a] = "write", Store(a), NEW s, Finish(a, s)
  PROVE  SwitchParts'
<1>0. TypeInv /\ req[a] \in Locals /\ (req[a].id \in Ids \/ (req[a].id = 0 /\ req[a].named))
  BY FitsBefore DEF SwitchInv, Fits
<1>1. \A b \in Admins, i \in Ids : HoldsCopy(b, i)' => HoldsCopy(b, i) /\ req'[b] = req[b]
  BY <1>0, HoldersAfter DEF Finish, Goto
<1>2. ASSUME NEW i, StoreAt(a, i), i \in Ids => req[a].named \/ req[a].id = i
      PROVE  SwitchParts'
  <2>1. \A j \in Ids : terms'[j] = IF j = i THEN NewTerm(req[a]) ELSE terms[j]
    BY <1>2 DEF StoreAt, SwitchInv, TypeInv, TypeOK
  <2>2. NewTerm(req[a]).enabled = req[a].enabled
    BY DEF NewTerm
  <2>3. CASE req[a].named
    <3>1. /\ intended' = [intended EXCEPT ![i] = req[a].enabled]
          /\ overlapped' = IF \E b \in Admins : HoldsCopy(b, i)
                           THEN overlapped \cup {i} ELSE overlapped \ {i}
      BY <1>2, <2>3 DEF StoreAt, Name
    <3>2. \A j \in Ids : j # i => intended'[j] = intended[j] /\ (j \in overlapped' <=> j \in overlapped)
      BY <3>1 DEF SwitchInv, SwitchParts
    <3>3. ASSUME i \in Ids, NEW b \in Admins, HoldsCopy(b, i) PROVE i \in overlapped'
      BY <3>1, <3>3
    <3>4. intended' \in [Ids -> BOOLEAN] /\ (i \in Ids => intended'[i] = req[a].enabled)
      BY <1>0, <3>1 DEF SwitchInv, SwitchParts, Locals
    <3>5. SwitchHolds'
      BY <2>1, <2>2, <3>2, <3>4 DEF SwitchInv, SwitchParts, SwitchHolds, Exists
    <3>6. CopiesHold'
      BY <1>1, <3>2, <3>3 DEF SwitchInv, SwitchParts, CopiesHold
    <3>7. QED
      BY <3>4, <3>5, <3>6 DEF SwitchParts
  <2>4. CASE ~req[a].named
    <3>1. UNCHANGED <<intended, overlapped>>
      BY <1>2, <2>4 DEF StoreAt, Name
    <3>2. CopiesHold'
      BY <1>1, <3>1 DEF SwitchInv, SwitchParts, CopiesHold
    <3>3. i \in Ids \ overlapped => req[a].enabled = intended[i]
      BY <1>2, <2>4 DEF HoldsCopy, SwitchInv, SwitchParts, CopiesHold
    <3>4. SwitchHolds'
      BY <2>1, <2>2, <3>1, <3>3 DEF SwitchInv, SwitchParts, SwitchHolds, Exists
    <3>5. QED
      BY <3>1, <3>2, <3>4 DEF SwitchInv, SwitchParts
  <2>5. QED
    BY <2>3, <2>4
<1>3. CASE req[a].id = 0
  BY <1>0, <1>2, <1>3, IdsAssumption DEF Store
<1>4. CASE req[a].id # 0 /\ Exists(req[a].id)
  BY <1>2, <1>4 DEF Store, UpdateTerm
<1>5. CASE req[a].id # 0 /\ ~Exists(req[a].id)
  BY <1>1, <1>5, QuietSwitch DEF Store, UpdateTerm
<1>6. QED
  BY <1>3, <1>4, <1>5

LEMMA NextSwitchInv == SwitchInv /\ [Next]_vars => SwitchParts'
<1> SUFFICES ASSUME SwitchInv, [Next]_vars PROVE SwitchParts'
  OBVIOUS
<1>1. ASSUME NEW a \in Admins, NEW x \in Texts, NEW e \in BOOLEAN, Post(a, x, e) PROVE SwitchParts'
  <2> DEFINE r == [Nothing EXCEPT !.word = NormOf[x], !.named = TRUE, !.enabled = e]
  <2>1. UNCHANGED <<terms, intended, overlapped>>
    BY <1>1 DEF Post, tables, history
  <2>2. CASE Finish(a, "failed")
    BY <2>1, <2>2, QuietStep
  <2>3. CASE Begin(a, "unique", r)
    <3>1. r.named
      BY DEF Nothing
    <3>2. \A b \in Admins, i \in Ids : HoldsCopy(b, i)' => HoldsCopy(b, i) /\ req'[b] = req[b]
      BY <2>3, <3>1, HoldersAfter DEF Begin, Goto, SwitchInv
    <3>3. QED
      BY <2>1, <3>2, QuietSwitch
  <2>4. QED
    BY <1>1, <2>2, <2>3 DEF Post
<1>2. ASSUME NEW a \in Admins,
             \/ \E i \in Ids, x \in Texts, n \in BOOLEAN, e \in BOOLEAN : Patch(a, i, x, n, e)
             \/ \E i \in Ids : Delete(a, i)
             \/ \E p \in Payloads : PatchPolicies(a, p)
             \/ Upsert(a) \/ ListPolicies(a) \/ FindTerm(a)
      PROVE  SwitchParts'
  BY <1>2, QuietStep DEF Patch, Delete, PatchPolicies, Upsert, AfterUpsert, ListPolicies, FindTerm,
                         tables, history
<1>3. ASSUME NEW a \in Admins,
             \/ Reload(a) \/ EnsureUnique(a) \/ TermFails(a)
             \/ CommitPolicies(a) \/ CommitDoubtful(a) \/ ListFails(a) \/ UpsertFails(a)
             \/ DeadlockFound(a)
      PROVE  SwitchParts'
  BY <1>3, QuietStep DEF Reload, EnsureUnique, TermFails, CommitPolicies, CommitDoubtful, ListFails,
                         UpsertFails, DeadlockFound, AbortPolicies, tables, history
<1>4. ASSUME NEW a \in Admins, Load(a) PROVE SwitchParts'
  BY <1>4, LoadKeepsSwitch
<1>5. ASSUME NEW a \in Admins, WriteTerm(a) \/ WriteTermDoubtful(a) PROVE SwitchParts'
  BY <1>5, StoreKeepsSwitch, QuietStep DEF WriteTerm, WriteTermDoubtful
<1>6. ASSUME NEW a \in Admins, DeleteTerm(a) \/ DeleteTermDoubtful(a) PROVE SwitchParts'
  <2>1. Remove(a) /\ UNCHANGED <<intended, overlapped>> /\ \E s : Finish(a, s)
    BY <1>6 DEF DeleteTerm, DeleteTermDoubtful
  <2>2. \A i \in Ids : terms'[i] \in {terms[i], NoTerm}
    BY <2>1 DEF Remove, SwitchInv, TypeInv, TypeOK
  <2>3. \A b \in Admins, i \in Ids : HoldsCopy(b, i)' => HoldsCopy(b, i) /\ req'[b] = req[b]
    BY <2>1, HoldersAfter DEF Finish, Goto, SwitchInv
  <2>4. QED
    BY <2>1, <2>2, <2>3, QuietSwitch
<1>7. ASSUME NEW a \in Admins, WriteAudit(a) \/ AuditFails(a) PROVE SwitchParts'
  <2>1. UNCHANGED <<terms, intended, overlapped, req>> /\ pc' = [pc EXCEPT ![a] = "done"]
    BY <1>7 DEF WriteAudit, AuditFails, Goto, tables, history
  <2>2. \A b \in Admins, i \in Ids : HoldsCopy(b, i)' => HoldsCopy(b, i)
    BY <2>1 DEF HoldsCopy, SwitchInv, TypeInv, TypeOK
  <2>3. QED
    BY <2>1, <2>2, QuietSwitch
<1>8. CASE Crash
  <2>1. UNCHANGED <<terms, intended, overlapped>>
    BY <1>8 DEF Crash, tables, history
  <2>2. \A b \in Admins, i \in Ids : ~HoldsCopy(b, i)'
    BY <1>8 DEF Crash, HoldsCopy, Running, TermSteps, SwitchInv, TypeInv, TypeOK
  <2>3. QED
    BY <2>1, <2>2, QuietSwitch
<1>9. CASE UNCHANGED vars
  BY <1>9, QuietSwitch DEF vars, tables, history, HoldsCopy
<1>10. QED
  BY StepCases, <1>1, <1>2, <1>3, <1>4, <1>5, <1>6, <1>7, <1>8, <1>9

\* A term is on or off as an administrator last said.  An edit of its text writes the switch
\* back as it read it, which loses what was said between: only terms where that happened are
\* exempt.
THEOREM SwitchIsAsSaid == Spec => []SwitchHolds
<1>1. Init => SwitchInv
  <2> SUFFICES ASSUME Init PROVE SwitchInv
    OBVIOUS
  <2>1. \A b \in Admins, i \in Ids : ~HoldsCopy(b, i)
    BY DEF Init, HoldsCopy
  <2>2. \A i \in Ids : Exists(i) => terms[i].enabled = TRUE
    BY DEF Init, Exists
  <2>3. intended = [i \in Ids |-> TRUE]
    BY DEF Init
  <2>4. QED
    BY <2>1, <2>2, <2>3, InitTypeInv DEF SwitchInv, SwitchParts, SwitchHolds, CopiesHold
<1>2. SwitchInv /\ [Next]_vars => SwitchInv'
  BY NextTypeInv, NextSwitchInv DEF SwitchInv
<1>3. SwitchInv => SwitchHolds
  BY DEF SwitchInv, SwitchParts
<1>4. QED
  BY <1>1, <1>2, <1>3, PTL DEF Spec
=============================================================================

--------------------------- MODULE DashboardProofs ---------------------------
(***************************************************************************)
(* Proofs about Dashboard: what the pages show of requests recorded before *)
(* they were opened, for any number of requests and users, any texts,      *)
(* policies and windows, and any number of failures.                       *)
(***************************************************************************)
EXTENDS Dashboard, FiniteSetTheorems, FunctionTheorems, SequenceTheorems, TLAPS

-----------------------------------------------------------------------------
(* Sums. *)

\* Numbers that are the sizes of disjoint sets sum up to the size of their union.
LEMMA SumOfParts ==
  ASSUME NEW f, NEW R, NEW F, NEW D, IsFiniteSet(D),
         \A x \in R : F[x] \subseteq D /\ f[x] = Cardinality(F[x]),
         \A x, y \in R : \A d \in F[x] \cap F[y] : x = y,
         \A d \in D : \E x \in R : d \in F[x]
  PROVE  SumOver(f, R) = Cardinality(D)
<1> DEFINE U == Units(f, R)
           G == [x \in R |-> CHOOSE g \in Bijection(1 .. f[x], F[x]) : TRUE]
           H == [p \in U |-> G[p[1]][p[2]]]
<1>1. \A x \in R : G[x] \in Bijection(1 .. f[x], F[x])
  <2> SUFFICES ASSUME NEW x \in R PROVE G[x] \in Bijection(1 .. f[x], F[x])
    OBVIOUS
  <2>1. IsFiniteSet(F[x])
    BY FS_Subset
  <2>2. ExistsBijection(1 .. f[x], F[x])
    BY <2>1, FS_CardinalityType
  <2>3. Bijection(1 .. f[x], F[x]) # {}
    BY <2>2, Fun_ExistsBij
  <2>4. QED
    BY <2>3
<1> HIDE DEF G
<1>2. ASSUME NEW x \in R
      PROVE  /\ \A k \in 1 .. f[x] : G[x][k] \in F[x]
             /\ \A j, k \in 1 .. f[x] : G[x][j] = G[x][k] => j = k
             /\ \A d \in F[x] : \E k \in 1 .. f[x] : G[x][k] = d
  <2> DEFINE g == G[x]
             S == 1 .. f[x]
             T == F[x]
  <2>1. g \in Bijection(S, T)
    BY <1>1
  <2> HIDE DEF g, S, T
  <2>2. /\ g \in [S -> T]
        /\ \A j, k \in S : g[j] = g[k] => j = k
        /\ \A d \in T : \E k \in S : g[k] = d
    BY <2>1, Fun_BijectionProperties
  <2>3. QED
    BY <2>2 DEF g, S, T
<1>3. ASSUME NEW p \in U
      PROVE  p[1] \in R /\ p[2] \in 1 .. f[p[1]] /\ p = <<p[1], p[2]>>
  BY DEF Units
<1>4. ASSUME NEW x \in R, NEW k \in 1 .. f[x] PROVE <<x, k>> \in U
  BY DEF Units
<1> HIDE DEF U
<1>5. H \in [U -> D]
  BY <1>2, <1>3
<1>6. \A p, q \in U : H[p] = H[q] => p = q
  <2> SUFFICES ASSUME NEW p \in U, NEW q \in U, G[p[1]][p[2]] = G[q[1]][q[2]]
               PROVE  p = q
    OBVIOUS
  <2> DEFINE x == p[1]
             y == q[1]
             j == p[2]
             k == q[2]
  <2>1. /\ x \in R /\ j \in 1 .. f[x] /\ p = <<x, j>>
        /\ y \in R /\ k \in 1 .. f[y] /\ q = <<y, k>> /\ G[x][j] = G[y][k]
    BY <1>3
  <2> HIDE DEF x, y, j, k
  <2>2. G[x][j] \in F[x] /\ G[y][k] \in F[y]
    BY <1>2, <2>1
  <2>3. x = y
    BY <2>1, <2>2
  <2>4. j = k
    BY <1>2, <2>1, <2>3
  <2>5. QED
    BY <2>1, <2>3, <2>4
<1>7. \A d \in D : \E p \in U : H[p] = d
  <2> SUFFICES ASSUME NEW d \in D PROVE \E p \in U : H[p] = d
    OBVIOUS
  <2>1. PICK x \in R : d \in F[x]
    OBVIOUS
  <2>2. PICK k \in 1 .. f[x] : G[x][k] = d
    BY <1>2, <2>1
  <2>3. <<x, k>> \in U /\ H[<<x, k>>] = d
    BY <1>4, <2>2
  <2>4. QED
    BY <2>3
<1>8. H \in Bijection(U, D)
  BY <1>5, <1>6, <1>7, Fun_IsBij
<1>9. ExistsBijection(D, U)
  BY <1>8, Fun_ExistsBij, Fun_ExistsBijSymmetric
<1>10. Cardinality(U) = Cardinality(D)
  BY <1>9, FS_Bijection
<1>11. QED
  BY <1>10 DEF SumOver, U

-----------------------------------------------------------------------------
(* Windows: the text order against the order of time. *)

LEMMA InsideIn ==
  ASSUME NEW t \in Nat, NEW w \in Windows, Inside(t, w)
  PROVE  InWindow(t, w)
<1>1. w[1] \in Nat \cup {None} /\ w[2] \in Nat \cup {None}
  BY WindowsAssumption
<1>2. w[1] # None => TextAtOrAfter(t, w[1])
  BY <1>1 DEF Inside, Second, TextAtOrAfter, TextKey
<1>3. w[2] # None => TextBefore(t, w[2])
  BY <1>1 DEF Inside, Second, TextBefore, TextKey
<1>4. QED
  BY <1>2, <1>3 DEF InWindow

LEMMA OutsideOut ==
  ASSUME NEW t \in Nat, NEW w \in Windows, InWindow(t, w)
  PROVE  ~Outside(t, w)
<1>1. w[1] \in Nat \cup {None} /\ w[2] \in Nat \cup {None}
  BY WindowsAssumption
<1>2. w[1] # None => ~(Second(t) < Second(w[1]))
  BY <1>1 DEF InWindow, Second, TextAtOrAfter, TextKey
<1>3. w[2] # None => t # w[2] /\ ~(Second(t) > Second(w[2]))
  BY <1>1 DEF InWindow, Second, TextBefore, TextKey
<1>4. QED
  BY <1>2, <1>3 DEF Outside

LEMMA NotBeforeSecond ==
  ASSUME NEW s \in Nat, NEW t \in Nat, ~TextBefore(s, t)
  PROVE  Second(s) >= Second(t)
BY DEF TextBefore, TextKey, Second

-----------------------------------------------------------------------------
(* What is found in a text. *)

\* The positions of the matches that a finding of a policy counts.
Positions(text, f) == {k \in DOMAIN text : text[k] = [entity |-> f.entity, value |-> f.value]}

Texts(c) == Seq([entity : DOMAIN c.policy, value : STRING])

\* The finding of a match.
Finding(text, policy, direction, m) ==
  [direction |-> direction, entity |-> m.entity, action |-> policy[m.entity],
   value |-> m.value, count |-> Cardinality({k \in DOMAIN text : text[k] = m})]

LEMMA FindingsAre ==
  ASSUME NEW text, NEW policy, NEW direction
  PROVE  /\ \A f : f \in Findings(text, policy, direction)
                <=> \E k \in Matches(text, policy) : f = Finding(text, policy, direction, text[k])
         /\ \A m : /\ Finding(text, policy, direction, m).direction = direction
                  /\ Finding(text, policy, direction, m).action = policy[m.entity]
<1>1. Findings(text, policy, direction)
        = {Finding(text, policy, direction, m) : m \in {text[k] : k \in Matches(text, policy)}}
  BY DEF Findings, Finding, Matches
<1>2. \A m : /\ Finding(text, policy, direction, m).direction = direction
           /\ Finding(text, policy, direction, m).action = policy[m.entity]
  BY DEF Finding
<1>3. QED
  BY <1>1, <1>2

\* Each finding counts matches of its own, and each match is in one.
Partition(fs, text, matches) ==
  /\ \A f \in fs : /\ f.count = Cardinality(Positions(text, f))
                   /\ Positions(text, f) \subseteq matches
  /\ \A f, g \in fs : \A k \in Positions(text, f) \cap Positions(text, g) : f = g
  /\ \A k \in matches : \E f \in fs : k \in Positions(text, f)
  /\ IsFiniteSet(matches)
  /\ fs = {} <=> matches = {}

LEMMA FindingsPartition ==
  ASSUME NEW c \in Cases, NEW text \in Texts(c), NEW direction
  PROVE  Partition(Findings(text, c.policy, direction), text, Matches(text, c.policy))
<1> DEFINE fs == Findings(text, c.policy, direction)
           M == Matches(text, c.policy)
           FindingOf(m) == Finding(text, c.policy, direction, m)
<1>1. \A k \in DOMAIN text : text[k] = [entity |-> text[k].entity, value |-> text[k].value]
  <2> DEFINE S == [entity : DOMAIN c.policy, value : STRING]
  <2>1. text \in Seq(S)
    BY DEF Texts
  <2>2. \A m \in S : m = [entity |-> m.entity, value |-> m.value]
    OBVIOUS
  <2> HIDE DEF S
  <2>3. \A k \in DOMAIN text : text[k] \in S
    BY <2>1
  <2>4. QED
    BY <2>2, <2>3
<1>2. \A f : f \in fs <=> \E k \in M : f = FindingOf(text[k])
  BY FindingsAre
<1>3. ASSUME NEW k \in M
      PROVE  Positions(text, FindingOf(text[k])) = {l \in DOMAIN text : text[l] = text[k]}
  BY <1>1 DEF Positions, Matches, Finding
<1>4. \A f \in fs : /\ f.count = Cardinality(Positions(text, f))
                    /\ Positions(text, f) \subseteq M
  <2> SUFFICES ASSUME NEW k \in M, NEW f, f = FindingOf(text[k])
               PROVE  /\ f.count = Cardinality(Positions(text, f))
                      /\ Positions(text, f) \subseteq M
    BY <1>2
  <2>1. f.count = Cardinality({l \in DOMAIN text : text[l] = text[k]})
    BY DEF Finding
  <2>2. Positions(text, f) = {l \in DOMAIN text : text[l] = text[k]}
    BY <1>3
  <2>3. {l \in DOMAIN text : text[l] = text[k]} \subseteq M
    BY DEF Matches
  <2>4. QED
    BY <2>1, <2>2, <2>3
<1>5. \A f, g \in fs : \A k \in Positions(text, f) \cap Positions(text, g) : f = g
  <2> SUFFICES ASSUME NEW f \in fs, NEW g \in fs,
                      NEW l \in Positions(text, f) \cap Positions(text, g)
               PROVE  f = g
    OBVIOUS
  <2>1. PICK j \in M, k \in M : f = FindingOf(text[j]) /\ g = FindingOf(text[k])
    <3> HIDE DEF fs, M, FindingOf
    <3> QED
      BY <1>2
  <2>2. /\ Positions(text, f) = {i \in DOMAIN text : text[i] = text[j]}
        /\ Positions(text, g) = {i \in DOMAIN text : text[i] = text[k]}
    BY <1>3, <2>1
  <2>3. text[j] = text[k]
    BY <2>2
  <2> HIDE DEF FindingOf
  <2>4. QED
    BY <2>1, <2>3
<1>6. \A k \in M : \E f \in fs : k \in Positions(text, f)
  <2> SUFFICES ASSUME NEW k \in M PROVE FindingOf(text[k]) \in fs /\ k \in Positions(text, FindingOf(text[k]))
    BY Zenon
  <2>1. FindingOf(text[k]) \in fs
    BY <1>2
  <2>2. k \in {l \in DOMAIN text : text[l] = text[k]}
    BY DEF Matches
  <2>3. QED
    BY <1>3, <2>1, <2>2
<1>7. IsFiniteSet(M)
  <2>1. DOMAIN text = 1 .. Len(text) /\ Len(text) \in Nat
    BY DEF Texts
  <2>2. IsFiniteSet(DOMAIN text)
    BY <2>1, FS_Interval
  <2>3. M \subseteq DOMAIN text
    BY DEF Matches
  <2>4. QED
    BY <2>2, <2>3, FS_Subset
<1>8. fs = {} <=> M = {}
  BY <1>2
<1> HIDE DEF fs, M
<1>9. Partition(fs, text, M)
  BY <1>4, <1>5, <1>6, <1>7, <1>8 DEF Partition
<1>10. QED
  BY <1>9 DEF fs, M

-----------------------------------------------------------------------------
(* What is stored of a request. *)

Directions == {"ingress", "egress"}

Text(c, d) == IF d = "ingress" THEN c.ingress ELSE c.egress

\* The answer of a request that is stopped for its PII is never asked for.
Barred(c) == \E k \in DOMAIN c.ingress : c.policy[c.ingress[k].entity] = "block"

\* The matches that evidence counts in a direction.
Found(c, d) ==
  IF Blocked(c) \/ (d = "egress" /\ Barred(c)) THEN {} ELSE Matches(Text(c, d), c.policy)

LEMMA TextType ==
  ASSUME NEW c \in Cases, NEW d
  PROVE  Text(c, d) \in Texts(c)
BY CasesAssumption DEF Text, Texts

\* The request is blocked for a finding exactly when a match has a policy that blocks.
LEMMA BlockingIs ==
  ASSUME NEW c \in Cases
  PROVE  HasBlockingPIIFinding(Findings(c.ingress, c.policy, "ingress")) <=> Barred(c)
<1> DEFINE M == Matches(c.ingress, c.policy)
           fs == Findings(c.ingress, c.policy, "ingress")
<1>1. \A f : f \in fs <=> \E k \in M : f = Finding(c.ingress, c.policy, "ingress", c.ingress[k])
  BY FindingsAre
<1>2. \A m : /\ Finding(c.ingress, c.policy, "ingress", m).direction = "ingress"
           /\ Finding(c.ingress, c.policy, "ingress", m).action = c.policy[m.entity]
  BY DEF Finding
<1> HIDE DEF fs, M
<1>3. (\E f \in fs : f.action = "block" /\ f.direction = "ingress")
        <=> \E k \in M : c.policy[c.ingress[k].entity] = "block"
  BY <1>1, <1>2
<1>4. QED
  BY <1>3 DEF fs, M, Matches, HasBlockingPIIFinding, Barred

LEMMA EvidenceIs ==
  ASSUME NEW c \in Cases
  PROVE  /\ \A d \in Directions :
              {f \in Evidence(c).findings : f.direction = d}
                = IF Blocked(c) \/ (d = "egress" /\ Barred(c)) THEN {}
                  ELSE Findings(Text(c, d), c.policy, d)
         /\ \A f \in Evidence(c).findings : f.direction \in Directions
<1> DEFINE ingress == Findings(c.ingress, c.policy, "ingress")
           egress == Findings(c.egress, c.policy, "egress")
<1>1. /\ \A f \in ingress : f.direction = "ingress"
      /\ \A f \in egress : f.direction = "egress"
  BY FindingsAre
<1>2. Evidence(c).findings = IF Blocked(c) THEN {}
                             ELSE IF Barred(c) THEN ingress ELSE ingress \cup egress
  <2> DEFINE bars == HasBlockingPIIFinding(ingress)
  <2>1. bars <=> Barred(c)
    BY BlockingIs
  <2> HIDE DEF ingress, egress
  <2>2. Evidence(c) = IF c.gate # "open"
                      THEN [findings |-> {}, outcomes |-> {Outcome(c.gate, 0)}]
                      ELSE IF c.terms # <<>>
                      THEN [findings |-> {}, outcomes |-> NSFWOutcomes(c.terms)]
                      ELSE [findings |-> IF bars THEN ingress ELSE ingress \cup egress,
                            outcomes |-> {}]
    BY DEF Evidence, ingress, egress
  <2> HIDE DEF bars
  <2>3. QED
    BY <2>1, <2>2 DEF Blocked
<1>3. Text(c, "ingress") = c.ingress /\ Text(c, "egress") = c.egress
  BY DEF Text
<1> HIDE DEF ingress, egress
<1>4. /\ {f \in Evidence(c).findings : f.direction = "ingress"} = IF Blocked(c) THEN {} ELSE ingress
      /\ {f \in Evidence(c).findings : f.direction = "egress"}
            = IF Blocked(c) \/ Barred(c) THEN {} ELSE egress
      /\ \A f \in Evidence(c).findings : f.direction \in Directions
  BY <1>1, <1>2 DEF Directions
<1>5. QED
  BY <1>3, <1>4 DEF Directions, ingress, egress

\* The findings of a direction partition its matches.
LEMMA EvidenceParts ==
  ASSUME NEW c \in Cases, NEW d \in Directions
  PROVE  Partition({f \in Evidence(c).findings : f.direction = d}, Text(c, d), Found(c, d))
<1> DEFINE fs == {f \in Evidence(c).findings : f.direction = d}
           text == Text(c, d)
           skip == Blocked(c) \/ (d = "egress" /\ Barred(c))
<1>1. text \in Texts(c)
  BY TextType
<1>2. fs = IF skip THEN {} ELSE Findings(text, c.policy, d)
  BY EvidenceIs
<1>3. Found(c, d) = IF skip THEN {} ELSE Matches(text, c.policy)
  BY DEF Found
<1> HIDE DEF text, skip, fs
<1>4. CASE skip
  <2>1. fs = {} /\ Found(c, d) = {}
    BY <1>2, <1>3, <1>4
  <2>2. Partition({}, text, {})
    BY FS_EmptySet DEF Partition
  <2>3. QED
    BY <2>1, <2>2 DEF fs, text
<1>5. CASE ~skip
  <2>1. fs = Findings(text, c.policy, d) /\ Found(c, d) = Matches(text, c.policy)
    BY <1>2, <1>3, <1>5
  <2>2. Partition(fs, text, Found(c, d))
    BY <1>1, <2>1, FindingsPartition
  <2>3. QED
    BY <2>2 DEF fs, text
<1>6. QED
  BY <1>4, <1>5

\* The outcomes of a request, and that its evidence is a record of two sets.
LEMMA OutcomesAre ==
  ASSUME NEW c \in Cases
  PROVE  /\ Evidence(c) = [findings |-> Evidence(c).findings, outcomes |-> Evidence(c).outcomes]
         /\ \A type : (\E o \in Evidence(c).outcomes : o.type = type)
              <=> IF c.gate # "open" THEN type = c.gate
                  ELSE c.terms # <<>> /\ type = "nsfw_keyword"
<1> DEFINE terms == c.terms
<1>1. terms # <<>> => 1 \in DOMAIN terms
  <2>1. terms \in Seq(Nat)
    BY CasesAssumption
  <2> HIDE DEF terms
  <2>2. terms # <<>> => Len(terms) # 0
    BY <2>1, EmptySeq
  <2>3. QED
    BY <2>1, <2>2
<1> HIDE DEF terms
<1>2. terms # <<>> =>
        \A type : (\E o \in NSFWOutcomes(terms) : o.type = type) <=> type = "nsfw_keyword"
  <2>1. \A o : o \in NSFWOutcomes(terms) <=>
               \E k \in DOMAIN terms : o = [type |-> "nsfw_keyword", policy |-> terms[k]]
    BY DEF NSFWOutcomes, Outcome
  <2>2. \A o \in NSFWOutcomes(terms) : o.type = "nsfw_keyword"
    BY <2>1
  <2>3. terms # <<>> => [type |-> "nsfw_keyword", policy |-> terms[1]] \in NSFWOutcomes(terms)
    BY <1>1, <2>1
  <2>4. [type |-> "nsfw_keyword", policy |-> terms[1]].type = "nsfw_keyword"
    OBVIOUS
  <2>5. QED
    BY <2>2, <2>3, <2>4
<1> USE DEF terms
<1> DEFINE e == Evidence(c)
<1>3. \A type : (\E o \in {Outcome(c.gate, 0)} : o.type = type) <=> type = c.gate
  BY DEF Outcome
<1>4. CASE c.gate # "open"
  <2>1. e = [findings |-> {}, outcomes |-> {Outcome(c.gate, 0)}]
    BY <1>4 DEF Evidence
  <2> HIDE DEF e
  <2>2. e.outcomes = {Outcome(c.gate, 0)} /\ e = [findings |-> e.findings, outcomes |-> e.outcomes]
    BY <2>1
  <2>3. QED
    BY <1>3, <1>4, <2>2 DEF e
<1>5. CASE c.gate = "open" /\ c.terms # <<>>
  <2>1. e = [findings |-> {}, outcomes |-> NSFWOutcomes(c.terms)]
    <3> HIDE DEF e
    <3> QED
      BY <1>5 DEF Evidence, e
  <2> HIDE DEF e
  <2>2. e.outcomes = NSFWOutcomes(c.terms) /\ e = [findings |-> e.findings, outcomes |-> e.outcomes]
    BY <2>1
  <2>3. QED
    BY <1>2, <1>5, <2>2 DEF e
<1>6. CASE c.gate = "open" /\ c.terms = <<>>
  <2>1. \E S : e = [findings |-> S, outcomes |-> {}]
    <3> DEFINE ingress == Findings(c.ingress, c.policy, "ingress")
               egress == Findings(c.egress, c.policy, "egress")
    <3> HIDE DEF ingress, egress
    <3>1. e = [findings |-> IF HasBlockingPIIFinding(ingress) THEN ingress ELSE ingress \cup egress,
               outcomes |-> {}]
      BY <1>6 DEF Evidence, ingress, egress
    <3> HIDE DEF e
    <3> QED
      BY <3>1
  <2> HIDE DEF e
  <2>2. e.outcomes = {} /\ e = [findings |-> e.findings, outcomes |-> e.outcomes]
    BY <2>1
  <2>3. QED
    BY <1>6, <2>2 DEF e
<1>7. QED
  BY <1>4, <1>5, <1>6

-----------------------------------------------------------------------------
(* Counts as sizes of sets of matches, each with its request; a is asked. *)

\* The matches of the requests of S.
Cells(a, S, d) == UNION {{r} \X Found(a[r].case, d) : r \in S}

\* The matches that rows of pii_findings count.
Spots(a, rows, d) ==
  UNION {{x.req} \X Positions(Text(a[x.req].case, d), x.f) : x \in {y \in rows : y.f.direction = d}}

\* A row of pii_findings of a request.
RowOf(a, x) ==
  /\ x.req \in Requests
  /\ a[x.req].case \in Cases
  /\ x.f \in Evidence(a[x.req].case).findings
  /\ x = [req |-> x.req, f |-> x.f]

LEMMA FoundFinite ==
  ASSUME NEW c \in Cases, NEW d \in Directions
  PROVE  IsFiniteSet(Found(c, d))
BY EvidenceParts DEF Partition

LEMMA PairSize ==
  ASSUME NEW r, NEW M, IsFiniteSet(M)
  PROVE  IsFiniteSet({r} \X M) /\ Cardinality({r} \X M) = Cardinality(M)
<1> DEFINE S == {r}
<1>1. IsFiniteSet(S) /\ Cardinality(S) = 1
  BY FS_Singleton
<1> HIDE DEF S
<1>2. IsFiniteSet(S \X M) /\ Cardinality(S \X M) = Cardinality(S) * Cardinality(M)
  BY <1>1, FS_Product
<1>3. Cardinality(M) \in Nat
  BY FS_CardinalityType
<1>4. 1 * Cardinality(M) = Cardinality(M)
  BY <1>3
<1>5. IsFiniteSet(S \X M) /\ Cardinality(S \X M) = Cardinality(M)
  BY <1>1, <1>2, <1>4
<1>6. QED
  BY <1>5 DEF S

LEMMA CellsFinite ==
  ASSUME NEW a, NEW S \in SUBSET Requests, NEW d \in Directions,
         \A r \in S : a[r].case \in Cases
  PROVE  IsFiniteSet(Cells(a, S, d))
<1> DEFINE Q(r) == {r} \X Found(a[r].case, d)
           F == [r \in S |-> Q(r)]
           T == {Q(r) : r \in S}
<1>1. IsFiniteSet(S)
  BY RequestsAssumption, FS_Subset
<1>2. \A r \in S : IsFiniteSet(Q(r))
  BY FoundFinite, PairSize
<1> HIDE DEF Q
<1>3. F \in Surjection(S, T)
  <2>1. F \in [S -> T]
    OBVIOUS
  <2>2. \A t \in T : \E r \in S : F[r] = t
    OBVIOUS
  <2> HIDE DEF F, T
  <2>3. QED
    BY <2>1, <2>2, Fun_IsSurj
<1>4. \A t \in T : IsFiniteSet(t)
  BY <1>2
<1> HIDE DEF F, T
<1>5. IsFiniteSet(T)
  BY <1>1, <1>3, FS_Surjection
<1>6. IsFiniteSet(UNION T)
  BY <1>4, <1>5, FS_UNION
<1>7. QED
  BY <1>6 DEF T, Q, Cells

\* The findings of a request that rows name, by the matches they count.
LEMMA RowParts ==
  ASSUME NEW a, NEW x, RowOf(a, x), NEW d \in Directions, x.f.direction = d
  PROVE  /\ x.f.count = Cardinality(Positions(Text(a[x.req].case, d), x.f))
         /\ Positions(Text(a[x.req].case, d), x.f) \subseteq Found(a[x.req].case, d)
<1> DEFINE c == a[x.req].case
<1>1. c \in Cases /\ x.f \in {f \in Evidence(c).findings : f.direction = d}
  BY DEF RowOf
<1>2. Partition({f \in Evidence(c).findings : f.direction = d}, Text(c, d), Found(c, d))
  BY <1>1, EvidenceParts
<1> HIDE DEF c
<1>3. /\ x.f.count = Cardinality(Positions(Text(c, d), x.f))
      /\ Positions(Text(c, d), x.f) \subseteq Found(c, d)
  BY <1>1, <1>2 DEF Partition
<1>4. QED
  BY <1>3 DEF c

\* What rows count: as much as they have matches.
LEMMA CountIs ==
  ASSUME NEW a, NEW rows, NEW d \in Directions, NEW S \in SUBSET Requests,
         \A x \in rows : RowOf(a, x) /\ x.req \in S,
         \A r \in S : a[r].case \in Cases
  PROVE  /\ Count(rows, d) = Cardinality(Spots(a, rows, d))
         /\ Spots(a, rows, d) \subseteq Cells(a, S, d)
<1> DEFINE R == {y \in rows : y.f.direction = d}
           P(x) == Positions(Text(a[x.req].case, d), x.f)
           F == [x \in R |-> {x.req} \X P(x)]
           f == [x \in rows |-> x.f.count]
           D == Spots(a, rows, d)
           E == Cells(a, S, d)
<1>1. \A x \in R : x.f.count = Cardinality(P(x)) /\ P(x) \subseteq Found(a[x.req].case, d)
  BY RowParts
<1>2. \A x, y \in R : x.req = y.req => \A k \in P(x) \cap P(y) : x = y
  <2> SUFFICES ASSUME NEW x \in R, NEW y \in R, x.req = y.req, NEW k \in P(x) \cap P(y)
               PROVE  x = y
    BY Zenon
  <2> DEFINE c == a[x.req].case
             fs == {g \in Evidence(c).findings : g.direction = d}
  <2>1. c \in Cases /\ x.f \in fs /\ y.f \in fs
    BY DEF RowOf
  <2>2. Partition(fs, Text(c, d), Found(c, d))
    BY <2>1, EvidenceParts
  <2>3. k \in Positions(Text(c, d), x.f) \cap Positions(Text(c, d), y.f)
    OBVIOUS
  <2>4. x = [req |-> x.req, f |-> x.f] /\ y = [req |-> y.req, f |-> y.f]
    BY DEF RowOf
  <2> HIDE DEF fs, c
  <2>5. x.f = y.f
    BY <2>1, <2>2, <2>3 DEF Partition
  <2>6. QED
    BY <2>4, <2>5
<1>3. \A x \in R : x.req \in S
  OBVIOUS
<1>4. D = UNION {{x.req} \X P(x) : x \in R}
  BY DEF Spots
<1>5. E = UNION {{r} \X Found(a[r].case, d) : r \in S}
  BY DEF Cells
<1>6. IsFiniteSet(E)
  BY CellsFinite
<1> HIDE DEF P, D, E
<1>7. D \subseteq E
  <2> SUFFICES ASSUME NEW x \in R, NEW p \in {x.req} \X P(x) PROVE p \in E
    BY <1>4
  <2>1. p \in {x.req} \X Found(a[x.req].case, d)
    BY <1>1
  <2>2. QED
    BY <1>3, <1>5, <2>1
<1>8. IsFiniteSet(D)
  BY <1>6, <1>7, FS_Subset
<1>9. \A x \in R : IsFiniteSet(P(x))
  <2> SUFFICES ASSUME NEW x \in R PROVE IsFiniteSet(P(x))
    OBVIOUS
  <2>1. a[x.req].case \in Cases
    BY DEF RowOf
  <2>2. IsFiniteSet(Found(a[x.req].case, d))
    BY <2>1, FoundFinite
  <2>3. QED
    BY <1>1, <2>2, FS_Subset
<1>10. \A x \in R : F[x] \subseteq D /\ f[x] = Cardinality(F[x])
  <2> SUFFICES ASSUME NEW x \in R PROVE F[x] \subseteq D /\ f[x] = Cardinality(F[x])
    OBVIOUS
  <2>1. F[x] = {x.req} \X P(x)
    OBVIOUS
  <2>2. F[x] \subseteq D
    BY <1>4, <2>1
  <2>3. Cardinality({x.req} \X P(x)) = Cardinality(P(x))
    BY <1>9, PairSize
  <2>4. f[x] = x.f.count
    OBVIOUS
  <2>5. QED
    BY <1>1, <2>1, <2>2, <2>3, <2>4
<1>11. \A x, y \in R : \A p \in F[x] \cap F[y] : x = y
  BY <1>2
<1>12. \A p \in D : \E x \in R : p \in F[x]
  BY <1>4
<1> HIDE DEF F, f, R
<1>13. SumOver(f, R) = Cardinality(D)
  BY <1>8, <1>10, <1>11, <1>12, SumOfParts
<1>14. Count(rows, d) = SumOver(f, R)
  BY DEF Count, f, R
<1>15. Count(rows, d) = Cardinality(D) /\ D \subseteq E
  BY <1>7, <1>13, <1>14
<1>16. QED
  BY <1>15 DEF D, E

\* Rows with all findings of some requests count all their matches.
LEMMA CellsIn ==
  ASSUME NEW a, NEW rows, NEW d \in Directions, NEW S,
         \A r \in S : /\ a[r].case \in Cases
                      /\ \A f \in Evidence(a[r].case).findings : [req |-> r, f |-> f] \in rows
  PROVE  Cells(a, S, d) \subseteq Spots(a, rows, d)
<1> SUFFICES ASSUME NEW r \in S, NEW k \in Found(a[r].case, d)
             PROVE  <<r, k>> \in Spots(a, rows, d)
  BY DEF Cells
<1> DEFINE c == a[r].case
           fs == {g \in Evidence(c).findings : g.direction = d}
<1>1. Partition(fs, Text(c, d), Found(c, d))
  BY EvidenceParts
<1>2. PICK f \in fs : k \in Positions(Text(c, d), f)
  <2> HIDE DEF fs, c
  <2>1. k \in Found(c, d)
    BY DEF c
  <2>2. QED
    BY <1>1, <2>1 DEF Partition
<1> DEFINE x == [req |-> r, f |-> f]
<1>3. x \in rows /\ x.req = r /\ x.f = f /\ x.f.direction = d
  OBVIOUS
<1>4. <<r, k>> \in {x.req} \X Positions(Text(a[x.req].case, d), x.f)
  BY <1>2, <1>3
<1> HIDE DEF x
<1>5. QED
  BY <1>3, <1>4 DEF Spots

\* The PII of requests together is as much as they have matches.
LEMMA TotalIs ==
  ASSUME NEW S \in SUBSET Requests, \A r \in S : asked[r].case \in Cases
  PROVE  TotalIngress(S) = Cardinality(Cells(asked, S, "ingress"))
<1> DEFINE f == [r \in S |-> Ingress(r)]
           F == [r \in S |-> {r} \X Found(asked[r].case, "ingress")]
           D == Cells(asked, S, "ingress")
<1>0. "ingress" \in Directions
  BY DEF Directions
<1>1. IsFiniteSet(D)
  BY <1>0, CellsFinite
<1>2. D = UNION {{r} \X Found(asked[r].case, "ingress") : r \in S}
  BY DEF Cells
<1> HIDE DEF D
<1>3. \A r \in S : F[r] \subseteq D /\ f[r] = Cardinality(F[r])
  <2> SUFFICES ASSUME NEW r \in S PROVE F[r] \subseteq D /\ f[r] = Cardinality(F[r])
    OBVIOUS
  <2> DEFINE M == Found(asked[r].case, "ingress")
  <2>1. F[r] = {r} \X M
    OBVIOUS
  <2>2. F[r] \subseteq D
    BY <1>2, <2>1
  <2>3. IsFiniteSet(M)
    BY <1>0, FoundFinite
  <2>4. Cardinality({r} \X M) = Cardinality(M)
    BY <2>3, PairSize
  <2>5. Ingress(r) = Cardinality(M)
    BY FS_EmptySet DEF Ingress, Found, Text
  <2>6. f[r] = Ingress(r)
    OBVIOUS
  <2>7. QED
    BY <2>1, <2>2, <2>4, <2>5, <2>6
<1>4. \A r, q \in S : \A p \in F[r] \cap F[q] : r = q
  OBVIOUS
<1>5. \A p \in D : \E r \in S : p \in F[r]
  BY <1>2
<1>6. TotalIngress(S) = SumOver(f, S)
  BY DEF TotalIngress
<1> HIDE DEF f, F
<1>7. SumOver(f, S) = Cardinality(D)
  BY <1>1, <1>3, <1>4, <1>5, SumOfParts
<1>8. QED
  BY <1>6, <1>7 DEF D

-----------------------------------------------------------------------------
(* The invariant of the requests. *)

AnyFindings == UNION {Evidence(c).findings : c \in Cases}

AnyOutcomes == UNION {Evidence(c).outcomes : c \in Cases}

StoredRows == [usage : BOOLEAN, findings : SUBSET AnyFindings, outcomes : SUBSET AnyOutcomes]

TypeOK ==
  /\ now \in Nat
  /\ asked \in [Requests -> Request \cup {NoRequest}]
  /\ at \in [Requests -> Nat]
  /\ pc \in [Requests -> {"idle", "record", "rows", "done", "died"}]
  /\ left \in [Requests -> [findings : SUBSET AnyFindings, outcomes : SUBSET AnyOutcomes]]
  /\ stored \in [Requests -> StoredRows]
  /\ before \in SUBSET Requests

\* What a request found.
Met(r) == Evidence(asked[r].case)

\* A request that has lost nothing has stored its evidence or has still to.
RequestOk(r) ==
  /\ pc[r] = "idle" => stored[r].findings = {} /\ stored[r].outcomes = {}
  /\ pc[r] # "idle" =>
       /\ asked[r] \in Request
       /\ stored[r].findings \cup left[r].findings \subseteq Met(r).findings
       /\ stored[r].outcomes \cup left[r].outcomes \subseteq Met(r).outcomes
       /\ r \notin lossy =>
            /\ Met(r).findings \subseteq stored[r].findings \cup left[r].findings
            /\ Met(r).outcomes \subseteq stored[r].outcomes \cup left[r].outcomes
            /\ pc[r] # "record" => stored[r].usage
  /\ pc[r] = "done" => left[r] = Nothing
  /\ pc[r] = "died" => r \in lossy

RequestsOk == \A r \in Requests : RequestOk(r)

BeforeOk == \A r \in before : pc[r] = "done" /\ r \notin lossy

EvidenceInv == TypeOK /\ RequestsOk /\ BeforeOk

\* What is known of a request that was handled stays so.
KeptOne(r) ==
  /\ pc[r] # "idle" => /\ pc'[r] # "idle"
                       /\ asked'[r] = asked[r]
                       /\ at'[r] = at[r]
                       /\ stored[r].findings \subseteq stored'[r].findings
                       /\ stored[r].outcomes \subseteq stored'[r].outcomes
  /\ pc[r] = "done" => pc'[r] = "done"
  /\ r \notin lossy /\ pc[r] = "done" => r \notin lossy'

Kept == \A r \in Requests : KeptOne(r)

SameOne(r) ==
  /\ pc'[r] = pc[r] /\ asked'[r] = asked[r] /\ at'[r] = at[r]
  /\ left'[r] = left[r] /\ stored'[r] = stored[r]
  /\ r \in lossy' <=> r \in lossy

RequestStep(r) ==
  \/ \E q \in Request : Answer(r, q)
  \/ RecordUsage(r)
  \/ RecordPIIFinding(r)
  \/ RecordGuardrailOutcome(r)
  \/ RecordFails(r)

LEMMA EvidenceType ==
  ASSUME NEW c \in Cases
  PROVE  Evidence(c) \in [findings : SUBSET AnyFindings, outcomes : SUBSET AnyOutcomes]
<1> DEFINE e == Evidence(c)
<1>1. e.findings \in SUBSET AnyFindings /\ e.outcomes \in SUBSET AnyOutcomes
  BY DEF AnyFindings, AnyOutcomes
<1>2. e = [findings |-> e.findings, outcomes |-> e.outcomes]
  BY OutcomesAre
<1> HIDE DEF e
<1>3. e \in [findings : SUBSET AnyFindings, outcomes : SUBSET AnyOutcomes]
  BY <1>1, <1>2
<1>4. QED
  BY <1>3 DEF e

\* An insert adds to the rows of one request.
LEMMA StoreType ==
  ASSUME TypeOK, NEW r \in Requests
  PROVE  /\ [stored EXCEPT ![r].usage = TRUE] \in [Requests -> StoredRows]
         /\ \A f \in AnyFindings :
              [stored EXCEPT ![r].findings = @ \cup {f}] \in [Requests -> StoredRows]
         /\ \A o \in AnyOutcomes :
              [stored EXCEPT ![r].outcomes = @ \cup {o}] \in [Requests -> StoredRows]
<1>1. stored \in [Requests -> StoredRows] /\ stored[r] \in StoredRows
  BY DEF TypeOK
<1>2. \A row \in StoredRows : [stored EXCEPT ![r] = row] \in [Requests -> StoredRows]
  BY <1>1
<1>3. [stored[r] EXCEPT !.usage = TRUE] \in StoredRows
  BY <1>1 DEF StoredRows
<1>4. \A f \in AnyFindings : [stored[r] EXCEPT !.findings = @ \cup {f}] \in StoredRows
  BY <1>1 DEF StoredRows
<1>5. \A o \in AnyOutcomes : [stored[r] EXCEPT !.outcomes = @ \cup {o}] \in StoredRows
  BY <1>1 DEF StoredRows
<1>6. QED
  BY <1>1, <1>2, <1>3, <1>4, <1>5

LEMMA SameIsOk == ASSUME NEW r \in Requests, RequestOk(r), SameOne(r) PROVE RequestOk(r)' /\ KeptOne(r)
BY DEF SameOne, RequestOk, KeptOne, Met

\* A step of a request leaves the others alone.
LEMMA OtherRequests ==
  ASSUME TypeOK, NEW r \in Requests, RequestStep(r), NEW q \in Requests, q # r
  PROVE  SameOne(q)
<1>1. CASE \E x \in Request : Answer(r, x)
  BY <1>1 DEF TypeOK, Answer, SameOne
<1>2. CASE RecordUsage(r)
  BY <1>2 DEF TypeOK, RecordUsage, SameOne
<1>3. CASE RecordPIIFinding(r)
  BY <1>3 DEF TypeOK, RecordPIIFinding, Take, SameOne
<1>4. CASE RecordGuardrailOutcome(r)
  BY <1>4 DEF TypeOK, RecordGuardrailOutcome, Take, SameOne
<1>5. CASE RecordFails(r)
  BY <1>5 DEF TypeOK, RecordFails, Take, SameOne
<1>6. QED
  BY <1>1, <1>2, <1>3, <1>4, <1>5 DEF RequestStep

LEMMA AnswerOk ==
  ASSUME TypeOK, NEW r \in Requests, RequestOk(r), NEW q \in Request, Answer(r, q)
  PROVE  TypeOK' /\ RequestOk(r)' /\ KeptOne(r)
<1> DEFINE e == Evidence(q.case)
<1>1. e \in [findings : SUBSET AnyFindings, outcomes : SUBSET AnyOutcomes]
  BY EvidenceType DEF Request
<1>2. /\ asked'[r] = q /\ at'[r] = now /\ left'[r] = e /\ pc'[r] = "record"
      /\ stored'[r] = stored[r] /\ pc[r] = "idle"
  BY DEF Answer, TypeOK
<1>3. Met(r)' = e
  BY <1>2 DEF Met
<1> HIDE DEF e
<1>4. TypeOK'
  <2>1. left' = [left EXCEPT ![r] = e]
    BY DEF Answer, e
  <2>2. QED
    BY <1>1, <2>1 DEF Answer, TypeOK
<1>5. RequestOk(r)'
  BY <1>2, <1>3 DEF RequestOk
<1>6. KeptOne(r)
  BY <1>2 DEF KeptOne
<1>7. QED
  BY <1>4, <1>5, <1>6

LEMMA RecordUsageOk ==
  ASSUME TypeOK, NEW r \in Requests, RequestOk(r), RecordUsage(r)
  PROVE  TypeOK' /\ RequestOk(r)' /\ KeptOne(r)
<1>1. /\ asked' = asked /\ at' = at /\ left' = left /\ lossy' = lossy
      /\ stored' = [stored EXCEPT ![r].usage = TRUE]
      /\ pc' = [pc EXCEPT ![r] = After(left[r])] /\ pc[r] = "record"
  BY DEF RecordUsage
<1>2. /\ stored'[r].findings = stored[r].findings /\ stored'[r].outcomes = stored[r].outcomes
      /\ stored'[r].usage /\ pc'[r] = After(left[r])
  BY <1>1 DEF TypeOK
<1>3. After(left[r]) \in {"rows", "done"} /\ (After(left[r]) = "done" => left[r] = Nothing)
  BY DEF After
<1>4. TypeOK'
  <2>1. stored' \in [Requests -> StoredRows]
    BY <1>1, StoreType
  <2>2. QED
    BY <1>1, <1>3, <2>1 DEF RecordUsage, TypeOK
<1>5. Met(r)' = Met(r)
  BY <1>1 DEF Met
<1>6. RequestOk(r)'
  BY <1>1, <1>2, <1>3, <1>5 DEF RequestOk
<1>7. KeptOne(r)
  BY <1>1, <1>2, <1>3 DEF KeptOne
<1>8. QED
  BY <1>4, <1>6, <1>7

LEMMA RecordPIIFindingOk ==
  ASSUME TypeOK, NEW r \in Requests, RequestOk(r), RecordPIIFinding(r)
  PROVE  TypeOK' /\ RequestOk(r)' /\ KeptOne(r)
<1>0. PICK f \in NextFindings(r) :
        /\ stored' = [stored EXCEPT ![r].findings = @ \cup {f}]
        /\ Take(r, [left[r] EXCEPT !.findings = @ \ {f}])
  BY DEF RecordPIIFinding
<1>1. f \in left[r].findings
  BY DEF NextFindings
<1> DEFINE rest == [left[r] EXCEPT !.findings = @ \ {f}]
<1>2. /\ asked' = asked /\ at' = at /\ lossy' = lossy /\ pc[r] = "rows"
      /\ left' = [left EXCEPT ![r] = rest] /\ pc' = [pc EXCEPT ![r] = After(rest)]
  BY <1>0 DEF RecordPIIFinding, Take
<1>3. /\ rest \in [findings : SUBSET AnyFindings, outcomes : SUBSET AnyOutcomes]
      /\ rest.findings = left[r].findings \ {f} /\ rest.outcomes = left[r].outcomes
  BY DEF TypeOK
<1> HIDE DEF rest
<1>4. After(rest) \in {"rows", "done"} /\ (After(rest) = "done" => rest = Nothing)
  BY DEF After
<1>5. /\ stored'[r].findings = stored[r].findings \cup {f} /\ stored'[r].usage = stored[r].usage
      /\ stored'[r].outcomes = stored[r].outcomes /\ left'[r] = rest /\ pc'[r] = After(rest)
  BY <1>0, <1>2 DEF TypeOK
<1>6. TypeOK'
  <2>1. f \in AnyFindings
    BY <1>1 DEF TypeOK
  <2>2. stored' \in [Requests -> StoredRows]
    BY <1>0, <2>1, StoreType
  <2>3. QED
    BY <1>2, <1>3, <1>4, <2>2 DEF RecordPIIFinding, TypeOK
<1>7. Met(r)' = Met(r)
  BY <1>2 DEF Met
<1>8. RequestOk(r)'
  BY <1>1, <1>2, <1>3, <1>4, <1>5, <1>7 DEF RequestOk
<1>9. KeptOne(r)
  BY <1>2, <1>4, <1>5 DEF KeptOne
<1>10. QED
  BY <1>6, <1>8, <1>9

LEMMA RecordGuardrailOutcomeOk ==
  ASSUME TypeOK, NEW r \in Requests, RequestOk(r), RecordGuardrailOutcome(r)
  PROVE  TypeOK' /\ RequestOk(r)' /\ KeptOne(r)
<1>0. PICK o \in left[r].outcomes :
        /\ stored' = [stored EXCEPT ![r].outcomes = @ \cup {o}]
        /\ Take(r, [left[r] EXCEPT !.outcomes = @ \ {o}])
  BY DEF RecordGuardrailOutcome
<1> DEFINE rest == [left[r] EXCEPT !.outcomes = @ \ {o}]
<1>2. /\ asked' = asked /\ at' = at /\ lossy' = lossy /\ pc[r] = "rows"
      /\ left' = [left EXCEPT ![r] = rest] /\ pc' = [pc EXCEPT ![r] = After(rest)]
  BY <1>0 DEF RecordGuardrailOutcome, Take
<1>3. /\ rest \in [findings : SUBSET AnyFindings, outcomes : SUBSET AnyOutcomes]
      /\ rest.findings = left[r].findings /\ rest.outcomes = left[r].outcomes \ {o}
  BY DEF TypeOK
<1> HIDE DEF rest
<1>4. After(rest) \in {"rows", "done"} /\ (After(rest) = "done" => rest = Nothing)
  BY DEF After
<1>5. /\ stored'[r].outcomes = stored[r].outcomes \cup {o} /\ stored'[r].usage = stored[r].usage
      /\ stored'[r].findings = stored[r].findings /\ left'[r] = rest /\ pc'[r] = After(rest)
  BY <1>0, <1>2 DEF TypeOK
<1>6. TypeOK'
  <2>1. o \in AnyOutcomes
    BY DEF TypeOK
  <2>2. stored' \in [Requests -> StoredRows]
    BY <1>0, <2>1, StoreType
  <2>3. QED
    BY <1>2, <1>3, <1>4, <2>2 DEF RecordGuardrailOutcome, TypeOK
<1>7. Met(r)' = Met(r)
  BY <1>2 DEF Met
<1>8. RequestOk(r)'
  BY <1>2, <1>3, <1>4, <1>5, <1>7 DEF RequestOk
<1>9. KeptOne(r)
  BY <1>2, <1>4, <1>5 DEF KeptOne
<1>10. QED
  BY <1>6, <1>8, <1>9

LEMMA RecordFailsOk ==
  ASSUME TypeOK, NEW r \in Requests, RequestOk(r), RecordFails(r)
  PROVE  TypeOK' /\ RequestOk(r)' /\ KeptOne(r)
<1> DEFINE rest == IF pc[r] = "record" THEN left[r]
                   ELSE IF left[r].findings # {} THEN [left[r] EXCEPT !.findings = {}]
                   ELSE Nothing
<1>1. /\ asked' = asked /\ at' = at /\ stored' = stored /\ pc[r] \in {"record", "rows"}
      /\ left' = [left EXCEPT ![r] = rest] /\ pc' = [pc EXCEPT ![r] = After(rest)]
      /\ r \in lossy'
  BY DEF RecordFails, Take
<1>2. left[r] \in [findings : SUBSET AnyFindings, outcomes : SUBSET AnyOutcomes]
  BY DEF TypeOK
<1>3. /\ rest \in [findings : SUBSET AnyFindings, outcomes : SUBSET AnyOutcomes]
      /\ rest.findings \subseteq left[r].findings /\ rest.outcomes \subseteq left[r].outcomes
  BY <1>2 DEF Nothing
<1> HIDE DEF rest
<1>4. After(rest) \in {"rows", "done"} /\ (After(rest) = "done" => rest = Nothing)
  BY DEF After
<1>5. left'[r] = rest /\ pc'[r] = After(rest)
  BY <1>1 DEF TypeOK
<1>6. TypeOK'
  BY <1>1, <1>3, <1>4 DEF RecordFails, TypeOK
<1>7. Met(r)' = Met(r)
  BY <1>1 DEF Met
<1>8. RequestOk(r)'
  BY <1>1, <1>3, <1>4, <1>5, <1>7 DEF RequestOk
<1>9. KeptOne(r)
  BY <1>1, <1>4, <1>5 DEF KeptOne
<1>10. QED
  BY <1>6, <1>8, <1>9

LEMMA RequestStepOk ==
  ASSUME TypeOK, RequestsOk, NEW r \in Requests, RequestStep(r)
  PROVE  TypeOK' /\ RequestsOk' /\ Kept
<1>1. RequestOk(r)
  BY DEF RequestsOk
<1>2. TypeOK' /\ RequestOk(r)' /\ KeptOne(r)
  <2>1. CASE \E q \in Request : Answer(r, q)
    BY <1>1, <2>1, AnswerOk
  <2>2. CASE RecordUsage(r)
    BY <1>1, <2>2, RecordUsageOk
  <2>3. CASE RecordPIIFinding(r)
    BY <1>1, <2>3, RecordPIIFindingOk
  <2>4. CASE RecordGuardrailOutcome(r)
    BY <1>1, <2>4, RecordGuardrailOutcomeOk
  <2>5. CASE RecordFails(r)
    BY <1>1, <2>5, RecordFailsOk
  <2>6. QED
    BY <2>1, <2>2, <2>3, <2>4, <2>5 DEF RequestStep
<1>3. ASSUME NEW q \in Requests PROVE RequestOk(q)' /\ KeptOne(q)
  <2>1. CASE q = r
    BY <1>2, <2>1
  <2>2. CASE q # r
    <3>1. SameOne(q) /\ RequestOk(q)
      BY <2>2, OtherRequests DEF RequestsOk
    <3>2. QED
      BY <3>1, SameIsOk
  <2>3. QED
    BY <2>1, <2>2
<1>4. QED
  BY <1>2, <1>3 DEF RequestsOk, Kept

LEMMA CrashOk ==
  ASSUME TypeOK, RequestsOk, Crash
  PROVE  TypeOK' /\ RequestsOk' /\ Kept
<1> DEFINE S == {r \in Requests : pc[r] \in {"record", "rows"}}
<1>1. /\ asked' = asked /\ at' = at /\ stored' = stored /\ now' = now /\ before' = {}
      /\ pc' = [r \in Requests |-> IF r \in S THEN "died" ELSE pc[r]]
      /\ left' = [r \in Requests |-> Nothing]
      /\ lossy' = lossy \cup S
  BY DEF Crash
<1>2. TypeOK'
  BY <1>1 DEF TypeOK, Nothing
<1>3. ASSUME NEW r \in Requests PROVE RequestOk(r)' /\ KeptOne(r)
  <2>1. /\ RequestOk(r) /\ left'[r] = Nothing /\ Met(r)' = Met(r)
        /\ pc[r] \in {"idle", "record", "rows", "done", "died"}
    BY <1>1 DEF RequestsOk, Met, TypeOK
  <2>2. Nothing.findings = {} /\ Nothing.outcomes = {}
    BY DEF Nothing
  <2>3. CASE r \in S
    <3>1. pc'[r] = "died" /\ r \in lossy'
      BY <1>1, <2>3
    <3>2. QED
      BY <1>1, <2>1, <2>2, <2>3, <3>1 DEF RequestOk, KeptOne
  <2>4. CASE r \notin S
    <3>1. pc'[r] = pc[r] /\ (r \in lossy' <=> r \in lossy)
      BY <1>1, <2>4
    <3>2. QED
      BY <1>1, <2>1, <2>2, <2>4, <3>1 DEF RequestOk, KeptOne
  <2>5. QED
    BY <2>3, <2>4
<1>4. QED
  BY <1>2, <1>3 DEF RequestsOk, Kept

\* The steps of pages and of the clock.
LEMMA QuietOk ==
  ASSUME TypeOK, RequestsOk, UNCHANGED <<asked, at, pc, left, stored, lossy>>,
         now' \in Nat, before' \in SUBSET Requests
  PROVE  TypeOK' /\ RequestsOk' /\ Kept
<1>1. TypeOK'
  BY DEF TypeOK
<1>2. \A r \in Requests : RequestOk(r)' /\ KeptOne(r)
  <2> SUFFICES ASSUME NEW r \in Requests PROVE RequestOk(r)' /\ KeptOne(r)
    OBVIOUS
  <2>1. RequestOk(r) /\ SameOne(r)
    BY DEF RequestsOk, SameOne
  <2>2. QED
    BY <2>1, SameIsOk
<1>3. QED
  BY <1>1, <1>2 DEF RequestsOk, Kept

PageSame == page' = page /\ before' = before

PageDropped == page' = NoPage /\ before' = {}

PageOpened ==
  \E kind \in {"logs", "usage"}, users \in UserLists, w \in Windows : Open(kind, users, w)

PageRead ==
  ReadLogRecords \/ ReadTotals \/ ReadFindings \/ ReadFindingsAgain \/ ReadOutcomes

\* A step of a request or of the clock does not touch the page; a crash drops it.
LEMMA PageSteps ==
  ASSUME [Next]_vars
  PROVE  PageSame \/ PageDropped \/ PageOpened \/ PageRead
<1>1. CASE Tick
  BY <1>1 DEF Tick, PageSame
<1>2. CASE \E r \in Requests : RequestStep(r)
  BY <1>2 DEF RequestStep, Answer, RecordUsage, RecordPIIFinding, RecordGuardrailOutcome,
              RecordFails, PageSame
<1>3. CASE Crash \/ PageFails
  BY <1>3 DEF Crash, PageFails, PageDropped
<1>4. CASE UNCHANGED vars
  BY <1>4 DEF vars, PageSame
<1>5. QED
  BY <1>1, <1>2, <1>3, <1>4 DEF Next, RequestStep, PageOpened, PageRead

LEMMA NextEvidence ==
  ASSUME EvidenceInv, [Next]_vars
  PROVE  EvidenceInv' /\ Kept
<1> USE DEF EvidenceInv
<1>1. TypeOK' /\ RequestsOk' /\ Kept
  <2>1. CASE \E r \in Requests : RequestStep(r)
    BY <2>1, RequestStepOk
  <2>2. CASE Crash
    BY <2>2, CrashOk
  <2>3. CASE Tick
    <3>1. now' \in Nat
      BY <2>3, BoundsAssumption DEF Tick
    <3>2. QED
      BY <2>3, <3>1, QuietOk DEF Tick, TypeOK
  <2>4. CASE PageOpened
    BY <2>4, QuietOk DEF PageOpened, Open, TypeOK
  <2>5. CASE PageRead
    BY <2>5, QuietOk DEF PageRead, ReadLogRecords, ReadTotals, ReadFindings,
                         ReadFindingsAgain, ReadOutcomes, TypeOK
  <2>6. CASE PageFails
    BY <2>6, QuietOk DEF PageFails, TypeOK
  <2>7. CASE UNCHANGED vars
    BY <2>7, QuietOk DEF vars, TypeOK
  <2>8. QED
    BY <2>1, <2>2, <2>3, <2>4, <2>5, <2>6, <2>7 DEF Next, RequestStep, PageOpened, PageRead
<1>2. BeforeOk'
  <2>1. CASE before' = before
    BY <1>1, <2>1 DEF BeforeOk, Kept, KeptOne, TypeOK
  <2>2. CASE before' = {}
    BY <2>2 DEF BeforeOk
  <2>3. CASE PageOpened
    BY <2>3 DEF PageOpened, Open, BeforeOk
  <2>4. CASE PageRead
    <3>1. before' = before
      BY <2>4 DEF PageRead, ReadLogRecords, ReadTotals, ReadFindings, ReadFindingsAgain,
                  ReadOutcomes
    <3>2. QED
      BY <2>1, <3>1
  <2>5. QED
    BY <2>1, <2>2, <2>3, <2>4, PageSteps DEF PageSame, PageDropped
<1>3. QED
  BY <1>1, <1>2

LEMMA InitEvidence == Init => EvidenceInv
<1> SUFFICES ASSUME Init PROVE EvidenceInv
  OBVIOUS
<1>1. TypeOK
  <2>1. Nothing \in [findings : SUBSET AnyFindings, outcomes : SUBSET AnyOutcomes]
    BY DEF Nothing
  <2>2. [usage |-> FALSE, findings |-> {}, outcomes |-> {}] \in StoredRows
    BY DEF StoredRows
  <2>3. /\ left \in [Requests -> [findings : SUBSET AnyFindings, outcomes : SUBSET AnyOutcomes]]
        /\ stored \in [Requests -> StoredRows]
    BY <2>1, <2>2 DEF Init
  <2>4. now \in Nat
    BY BoundsAssumption DEF Init
  <2>5. QED
    BY <2>3, <2>4 DEF Init, TypeOK
<1>2. RequestsOk
  BY DEF Init, RequestsOk, RequestOk
<1>3. BeforeOk
  BY DEF Init, BeforeOk
<1>4. QED
  BY <1>1, <1>2, <1>3 DEF EvidenceInv

\* A request recorded in full has all its rows.
LEMMA BeforeHasAll ==
  ASSUME EvidenceInv, NEW r \in before
  PROVE  /\ r \in Requests /\ pc[r] # "idle" /\ asked[r] \in Request /\ stored[r].usage
         /\ stored[r].findings = Met(r).findings
         /\ stored[r].outcomes = Met(r).outcomes
<1>1. r \in Requests /\ pc[r] = "done" /\ r \notin lossy
  BY DEF EvidenceInv, TypeOK, BeforeOk
<1>2. RequestOk(r)
  BY <1>1 DEF EvidenceInv, RequestsOk
<1>3. left[r].findings = {} /\ left[r].outcomes = {}
  BY <1>1, <1>2 DEF RequestOk, Nothing
<1>4. QED
  BY <1>1, <1>2, <1>3 DEF RequestOk

-----------------------------------------------------------------------------
(* The invariant of the pages. *)

\* A row of pii_findings of a user's request in a window.
RowOk(x, u, w) ==
  /\ x.req \in Requests /\ pc[x.req] # "idle"
  /\ asked[x.req].user = u
  /\ InWindow(at[x.req], w)
  /\ x.f \in stored[x.req].findings
  /\ x = [req |-> x.req, f |-> x.f]

\* What a row of guardrail_outcomes tells.
OutcomeOk(x, u) ==
  /\ x.req \in Requests /\ pc[x.req] # "idle"
  /\ asked[x.req].user = u
  /\ \E o \in stored[x.req].outcomes : o.type = x.type

\* A row of usage_records.
RecordOk(q, u, w) ==
  q \in Requests /\ pc[q] # "idle" /\ asked[q].user = u /\ InWindow(at[q], w)

\* A request that a page of a user has to count.
Due(q, u, w) == q \in before /\ asked[q].user = u /\ InWindow(at[q], w)

AllFindings(q, rows) == \A f \in Met(q).findings : [req |-> q, f |-> f] \in rows

AllOutcomes(q, rows) == \A o \in Met(q).outcomes : [req |-> q, type |-> o.type] \in rows

\* The requests of T are the newest of a user in a window.
NewestOk(T, u, w) ==
  /\ IsFiniteSet(T)
  /\ \A r \in before : Due(r, u, w) /\ r \notin T =>
       Cardinality(T) = Limit /\ \A q \in T : ~TextBefore(at[q], at[r])

Reading == {"records", "findings", "again", "outcomes"}

PageType ==
  /\ page = [step |-> page.step, kind |-> page.kind, users |-> page.users, turn |-> page.turn,
             window |-> page.window, records |-> page.records, findings |-> page.findings,
             again |-> page.again, shown |-> page.shown]
  /\ page.step \in {"none", "answered"} \cup Reading
  /\ page.step = "none" => page = NoPage
  /\ page.step # "none" => /\ page.kind \in {"logs", "usage"}
                           /\ page.users \in UserLists
                           /\ page.window \in Windows
                           /\ page.turn \in 1 .. Len(page.users) + 1
  /\ page.step \in Reading => page.turn \in 1 .. Len(page.users)
  /\ page.step = "answered" => page.turn = Len(page.users) + 1
  /\ page.step = "again" => page.kind = "usage"

RecordsOk ==
  page.step \in {"findings", "again", "outcomes"} =>
    /\ \A q \in page.records : RecordOk(q, Reader, page.window)
    /\ page.kind = "usage" => \A q \in before : Due(q, Reader, page.window) => q \in page.records
    /\ page.kind = "logs" => NewestOk(page.records, Reader, page.window)

FindingsOk ==
  page.step \in {"again", "outcomes"} =>
    /\ \A x \in page.findings : RowOk(x, Reader, page.window)
    /\ \A q \in before \cap page.records : AllFindings(q, page.findings)

\* securitySummary finds again what piiSummary found.
AgainOk ==
  page.step = "outcomes" /\ page.kind = "usage" => page.findings \subseteq page.again

\* An entry of the log page adds up rows of its user under its request id.
EntryOk(e, w) ==
  /\ RecordOk(e.req, e.user, w)
  /\ \E rows, outs :
       /\ e.ingress = Count(rows, "ingress") /\ e.egress = Count(rows, "egress")
       /\ e.labels = PIILabel(rows) \cup {Label(x.type) : x \in outs}
       /\ \A x \in rows : RowOk(x, e.user, w) /\ asked[x.req].id = asked[e.req].id
       /\ \A x \in outs : OutcomeOk(x, e.user) /\ asked[x.req].id = asked[e.req].id
       /\ e.req \in before => AllFindings(e.req, rows) /\ AllOutcomes(e.req, outs)

\* An item of the usage page adds up rows of its user in the window.
ItemOk(i, w) ==
  /\ \A q \in i.counted : RecordOk(q, i.user, w)
  /\ \A q \in before : Due(q, i.user, w) => q \in i.counted
  /\ i.flagged # {} => "PII" \in i.labels
  /\ \E rows :
       /\ i.ingress = Count(rows, "ingress")
       /\ \A x \in rows : RowOk(x, i.user, w)
       /\ \A q \in before \cap i.counted : AllFindings(q, rows)

ShownOk ==
  /\ page.kind = "usage" => \A i \in page.shown : ItemOk(i, page.window)
  /\ page.kind = "logs" => \A e \in page.shown : EntryOk(e, page.window)

\* The entries of a user that was read hold the newest requests.
TurnOk(S, u, w) ==
  \A r \in before : Due(r, u, w) /\ (\A e \in S : e.req # r) =>
    Cardinality(S) = Limit /\ \A e \in S : ~TextBefore(at[e.req], at[r])

ShownTo(u) == {e \in page.shown : e.user = u}

TurnsOk ==
  page.kind = "logs" =>
    /\ \A e \in page.shown : \E k \in 1 .. page.turn - 1 : e.user = page.users[k]
    /\ \A k \in 1 .. page.turn - 1 : TurnOk(ShownTo(page.users[k]), page.users[k], page.window)

PageInv == PageType /\ RecordsOk /\ FindingsOk /\ AgainOk /\ ShownOk /\ TurnsOk

IInv == EvidenceInv /\ PageInv

-----------------------------------------------------------------------------
(* What a page has read stays true. *)

LEMMA RowKept ==
  ASSUME Kept, NEW x, NEW u, NEW w, RowOk(x, u, w)
  PROVE  RowOk(x, u, w)'
BY DEF Kept, KeptOne, RowOk

LEMMA OutcomeKept ==
  ASSUME Kept, NEW x, NEW u, OutcomeOk(x, u)
  PROVE  OutcomeOk(x, u)'
BY DEF Kept, KeptOne, OutcomeOk

LEMMA RecordKept ==
  ASSUME Kept, NEW q, NEW u, NEW w, RecordOk(q, u, w)
  PROVE  RecordOk(q, u, w)'
BY DEF Kept, KeptOne, RecordOk

LEMMA BeforeKept ==
  ASSUME EvidenceInv, Kept, before' = before, NEW q \in before
  PROVE  /\ \A u, w : Due(q, u, w)' <=> Due(q, u, w)
         /\ \A rows : AllFindings(q, rows) => AllFindings(q, rows)'
         /\ \A rows : AllOutcomes(q, rows) => AllOutcomes(q, rows)'
<1>1. q \in Requests /\ pc[q] # "idle"
  BY BeforeHasAll
<1>2. asked'[q] = asked[q] /\ at'[q] = at[q]
  BY <1>1 DEF Kept, KeptOne
<1>3. Met(q)' = Met(q)
  BY <1>2 DEF Met
<1>4. QED
  BY <1>2, <1>3 DEF Due, AllFindings, AllOutcomes

LEMMA EntryKept ==
  ASSUME EvidenceInv, Kept, before' = before, NEW e, NEW w, EntryOk(e, w)
  PROVE  EntryOk(e, w)'
<1>1. PICK rows, outs :
        /\ e.ingress = Count(rows, "ingress") /\ e.egress = Count(rows, "egress")
        /\ e.labels = PIILabel(rows) \cup {Label(x.type) : x \in outs}
        /\ \A x \in rows : RowOk(x, e.user, w) /\ asked[x.req].id = asked[e.req].id
        /\ \A x \in outs : OutcomeOk(x, e.user) /\ asked[x.req].id = asked[e.req].id
        /\ e.req \in before => AllFindings(e.req, rows) /\ AllOutcomes(e.req, outs)
  BY DEF EntryOk
<1>2. RecordOk(e.req, e.user, w) /\ asked'[e.req] = asked[e.req]
  BY DEF EntryOk, RecordOk, Kept, KeptOne
<1>3. RecordOk(e.req, e.user, w)'
  BY <1>2, RecordKept
<1>4. \A x \in rows : RowOk(x, e.user, w)' /\ asked'[x.req].id = asked'[e.req].id
  BY <1>1, <1>2, RowKept DEF RowOk, Kept, KeptOne
<1>5. \A x \in outs : OutcomeOk(x, e.user)' /\ asked'[x.req].id = asked'[e.req].id
  BY <1>1, <1>2, OutcomeKept DEF OutcomeOk, Kept, KeptOne
<1>6. e.req \in before' => AllFindings(e.req, rows)' /\ AllOutcomes(e.req, outs)'
  BY <1>1, BeforeKept
<1>7. QED
  BY <1>1, <1>3, <1>4, <1>5, <1>6 DEF EntryOk

LEMMA ItemKept ==
  ASSUME EvidenceInv, Kept, before' = before, NEW i, NEW w, ItemOk(i, w)
  PROVE  ItemOk(i, w)'
<1>1. PICK rows :
        /\ i.ingress = Count(rows, "ingress")
        /\ \A x \in rows : RowOk(x, i.user, w)
        /\ \A q \in before \cap i.counted : AllFindings(q, rows)
  BY DEF ItemOk
<1>2. \A q \in i.counted : RecordOk(q, i.user, w)'
  BY RecordKept DEF ItemOk
<1>3. \A q \in before' : Due(q, i.user, w)' => q \in i.counted
  BY BeforeKept DEF ItemOk
<1>4. \A x \in rows : RowOk(x, i.user, w)'
  BY <1>1, RowKept
<1>5. \A q \in before' \cap i.counted : AllFindings(q, rows)'
  BY <1>1, BeforeKept
<1>6. i.flagged # {} => "PII" \in i.labels
  BY DEF ItemOk
<1>7. QED
  BY <1>1, <1>2, <1>3, <1>4, <1>5, <1>6 DEF ItemOk

LEMMA NewestKept ==
  ASSUME EvidenceInv, Kept, before' = before, NEW T, NEW u, NEW w, NewestOk(T, u, w),
         \A q \in T : RecordOk(q, u, w)
  PROVE  NewestOk(T, u, w)'
<1>1. \A q \in T : at'[q] = at[q]
  BY DEF RecordOk, Kept, KeptOne
<1>2. \A r \in before : at'[r] = at[r]
  BY BeforeHasAll DEF Kept, KeptOne
<1>3. QED
  BY <1>1, <1>2, BeforeKept DEF NewestOk

LEMMA TurnKept ==
  ASSUME EvidenceInv, Kept, before' = before, NEW S, NEW u, NEW w, TurnOk(S, u, w),
         \A e \in S : EntryOk(e, w)
  PROVE  TurnOk(S, u, w)'
<1>1. \A e \in S : at'[e.req] = at[e.req]
  BY DEF EntryOk, RecordOk, Kept, KeptOne
<1>2. \A r \in before : at'[r] = at[r]
  BY BeforeHasAll DEF Kept, KeptOne
<1>3. QED
  BY <1>1, <1>2, BeforeKept DEF TurnOk

-----------------------------------------------------------------------------
(* Steps. *)

LEMMA SamePageOk ==
  ASSUME IInv, Kept, PageSame
  PROVE  PageInv'
<1> USE DEF PageSame
<1>0. EvidenceInv /\ PageInv
  BY DEF IInv
<1>1. PageType'
  BY <1>0 DEF PageInv, PageType
<1>2. RecordsOk'
  <2>1. \A q, u, w : RecordOk(q, u, w) => RecordOk(q, u, w)'
    BY RecordKept
  <2>2. \A T, u, w : NewestOk(T, u, w) /\ (\A q \in T : RecordOk(q, u, w)) => NewestOk(T, u, w)'
    BY <1>0, NewestKept
  <2>3. \A q \in before : \A u, w : Due(q, u, w)' <=> Due(q, u, w)
    BY <1>0, BeforeKept
  <2>4. QED
    BY <1>0, <2>1, <2>2, <2>3 DEF PageInv, RecordsOk, Reader
<1>3. FindingsOk'
  <2>1. \A x, u, w : RowOk(x, u, w) => RowOk(x, u, w)'
    BY RowKept
  <2>2. \A q \in before : \A rows : AllFindings(q, rows) => AllFindings(q, rows)'
    BY <1>0, BeforeKept
  <2>3. QED
    BY <1>0, <2>1, <2>2 DEF PageInv, FindingsOk, Reader
<1>4. AgainOk'
  BY <1>0 DEF PageInv, AgainOk
<1>5. ShownOk'
  <2>1. \A i, w : ItemOk(i, w) => ItemOk(i, w)'
    BY <1>0, ItemKept
  <2>2. \A e, w : EntryOk(e, w) => EntryOk(e, w)'
    BY <1>0, EntryKept
  <2>3. QED
    BY <1>0, <2>1, <2>2 DEF PageInv, ShownOk
<1>6. TurnsOk'
  <2>1. \A S, u, w : TurnOk(S, u, w) /\ (\A e \in S : EntryOk(e, w)) => TurnOk(S, u, w)'
    BY <1>0, TurnKept
  <2>2. QED
    BY <1>0, <2>1 DEF PageInv, ShownOk, TurnsOk, ShownTo
<1>7. QED
  BY <1>1, <1>2, <1>3, <1>4, <1>5, <1>6 DEF PageInv

LEMMA DroppedOk ==
  ASSUME PageDropped
  PROVE  PageInv'
<1> USE DEF PageDropped, NoPage
<1>1. PageType'
  BY DEF PageType, Reading
<1>2. RecordsOk' /\ FindingsOk' /\ AgainOk' /\ ShownOk' /\ TurnsOk'
  BY DEF RecordsOk, FindingsOk, AgainOk, ShownOk, TurnsOk
<1>3. QED
  BY <1>1, <1>2 DEF PageInv

LEMMA UserListHas ==
  ASSUME NEW users \in UserLists
  PROVE  /\ Len(users) \in Nat \ {0} /\ DOMAIN users = 1 .. Len(users)
         /\ \A j, k \in 1 .. Len(users) : users[j] = users[k] => j = k
<1>1. users \in Seq(Users) /\ users # <<>>
  BY UsersAssumption
<1>2. Len(users) \in Nat \ {0} /\ DOMAIN users = 1 .. Len(users)
  BY <1>1, EmptySeq
<1>3. QED
  BY <1>2, UsersAssumption

LEMMA OpenedOk ==
  ASSUME PageOpened
  PROVE  PageInv'
<1>1. PICK kind \in {"logs", "usage"}, users \in UserLists, w \in Windows :
        page' = [NoPage EXCEPT !.step = "records", !.kind = kind, !.users = users, !.window = w]
  BY DEF PageOpened, Open
<1>2. page' = [step |-> "records", kind |-> kind, users |-> users, turn |-> 1, window |-> w,
               records |-> {}, findings |-> {}, again |-> {}, shown |-> {}]
  BY <1>1 DEF NoPage
<1>3. 1 \in 1 .. Len(users) /\ 1 \in 1 .. Len(users) + 1
  BY UserListHas
<1>4. PageType'
  BY <1>2, <1>3 DEF PageType, Reading
<1>5. RecordsOk' /\ FindingsOk' /\ AgainOk' /\ ShownOk'
  BY <1>2 DEF RecordsOk, FindingsOk, AgainOk, ShownOk
<1>6. TurnsOk'
  BY <1>2 DEF TurnsOk
<1>7. QED
  BY <1>4, <1>5, <1>6 DEF PageInv

\* A read of the page touches nothing else.
LEMMA ReadLeaves ==
  ASSUME PageRead
  PROVE  UNCHANGED <<now, asked, at, pc, left, stored, faults, lossy, before>>
BY DEF PageRead, ReadLogRecords, ReadTotals, ReadFindings, ReadFindingsAgain, ReadOutcomes

\* What was shown stays right while the page goes on.
LEMMA ShownKept ==
  ASSUME IInv, Kept, before' = before, page'.kind = page.kind, page'.window = page.window,
         page'.users = page.users, page'.turn = page.turn, page'.shown = page.shown
  PROVE  ShownOk' /\ TurnsOk'
<1>0. EvidenceInv /\ ShownOk /\ TurnsOk
  BY DEF IInv, PageInv
<1>1. ShownOk'
  <2>1. \A i, w : ItemOk(i, w) => ItemOk(i, w)'
    BY <1>0, ItemKept
  <2>2. \A e, w : EntryOk(e, w) => EntryOk(e, w)'
    BY <1>0, EntryKept
  <2>3. QED
    BY <1>0, <2>1, <2>2 DEF ShownOk
<1>2. TurnsOk'
  <2>1. \A S, u, w : TurnOk(S, u, w) /\ (\A e \in S : EntryOk(e, w)) => TurnOk(S, u, w)'
    BY <1>0, TurnKept
  <2>2. QED
    BY <1>0, <2>1 DEF ShownOk, TurnsOk, ShownTo
<1>3. QED
  BY <1>1, <1>2

\* The next user, or the answer, after right items.
LEMMA ShowOk ==
  ASSUME IInv, Kept, before' = before, page.step \in Reading, NEW items, page' = Show(items),
         page.kind = "usage" => \A i \in items : ItemOk(i, page.window),
         page.kind = "logs" => /\ \A e \in items : EntryOk(e, page.window) /\ e.user = Reader
                               /\ TurnOk(items, Reader, page.window)
  PROVE  PageInv'
<1>0. EvidenceInv /\ PageType /\ ShownOk /\ TurnsOk
  BY DEF IInv, PageInv
<1> DEFINE users == page.users
           n == page.turn
           w == page.window
<1>1. /\ users \in UserLists /\ n \in 1 .. Len(users) /\ page.kind \in {"logs", "usage"}
      /\ w \in Windows
  BY <1>0 DEF PageType, Reading
<1>2. page' = [step |-> IF n = Len(users) THEN "answered" ELSE "records", kind |-> page.kind,
               users |-> users, turn |-> n + 1, window |-> w, records |-> {}, findings |-> {},
               again |-> {}, shown |-> page.shown \cup items]
  <2> DEFINE p == page
             q == page'
  <2>1. p = [step |-> p.step, kind |-> p.kind, users |-> p.users, turn |-> p.turn,
             window |-> p.window, records |-> p.records, findings |-> p.findings,
             again |-> p.again, shown |-> p.shown]
    BY <1>0 DEF PageType
  <2>2. q = [p EXCEPT !.step = IF n = Len(users) THEN "answered" ELSE "records",
                      !.turn = @ + 1, !.shown = @ \cup items,
                      !.records = {}, !.findings = {}, !.again = {}]
    BY DEF Show
  <2> HIDE DEF p, q
  <2>3. q = [step |-> IF n = Len(users) THEN "answered" ELSE "records", kind |-> p.kind,
             users |-> p.users, turn |-> p.turn + 1, window |-> p.window, records |-> {},
             findings |-> {}, again |-> {}, shown |-> p.shown \cup items]
    BY <2>1, <2>2
  <2>4. QED
    BY <2>3 DEF p, q
<1>3. /\ Len(users) \in Nat /\ n + 1 \in 1 .. Len(users) + 1
      /\ (n # Len(users) => n + 1 \in 1 .. Len(users))
  BY <1>1, UserListHas
<1>4. PageType'
  BY <1>1, <1>2, <1>3 DEF PageType, Reading
<1>5. RecordsOk' /\ FindingsOk' /\ AgainOk'
  BY <1>2 DEF RecordsOk, FindingsOk, AgainOk
<1>6. ShownOk'
  <2>1. \A i, v : ItemOk(i, v) => ItemOk(i, v)'
    BY <1>0, ItemKept
  <2>2. \A e, v : EntryOk(e, v) => EntryOk(e, v)'
    BY <1>0, EntryKept
  <2>3. QED
    BY <1>0, <1>2, <2>1, <2>2 DEF ShownOk
<1>7. TurnsOk'
  <2> SUFFICES ASSUME page.kind = "logs" PROVE TurnsOk'
    BY <1>2 DEF TurnsOk
  <2>0. /\ \A e \in items : EntryOk(e, w) /\ e.user = users[n]
        /\ TurnOk(items, users[n], w)
        /\ \A e \in page.shown : EntryOk(e, w)
    BY <1>0 DEF Reader, ShownOk
  <2>1. \A e \in page.shown : \E k \in 1 .. n - 1 : e.user = users[k]
    BY <1>0 DEF TurnsOk
  <2>2. \A k \in 1 .. n - 1 : TurnOk(ShownTo(users[k]), users[k], w)
    BY <1>0 DEF TurnsOk
  <2>3. \A k \in 1 .. n - 1 : k \in 1 .. Len(users) /\ k # n
    BY <1>1, <1>3
  <2>4. \A k \in 1 .. n - 1 : users[k] # users[n]
    BY <1>1, <2>3, UserListHas
  <2>5. \A e \in page'.shown : \E k \in 1 .. n : e.user = users[k]
    <3>1. n \in 1 .. n /\ \A k \in 1 .. n - 1 : k \in 1 .. n
      BY <1>1, <1>3
    <3>2. page'.shown = page.shown \cup items
      BY <1>2
    <3>3. QED
      BY <2>0, <2>1, <3>1, <3>2
  <2>6. ASSUME NEW k \in 1 .. n
        PROVE  TurnOk(ShownTo(page.users[k]), page.users[k], page.window)'
    <3> SUFFICES ASSUME NEW u, u = page'.users[k], NEW v, v = page'.window,
                        NEW S, S = ShownTo(page.users[k])'
                 PROVE  TurnOk(S, u, v)'
      OBVIOUS
    <3>0. u = users[k] /\ v = w
      BY <1>2
    <3>1. S = {e \in page.shown \cup items : e.user = u}
      BY <1>2 DEF ShownTo
    <3>2. TurnOk(S, u, v)
      <4>1. CASE k = n
        <5>1. S = items
          BY <2>0, <2>1, <2>4, <3>0, <3>1, <4>1
        <5>2. QED
          BY <2>0, <3>0, <4>1, <5>1
      <4>2. CASE k # n
        <5>1. k \in 1 .. n - 1
          BY <1>1, <1>3, <4>2
        <5>2. S = ShownTo(u)
          BY <2>0, <2>4, <3>0, <3>1, <5>1 DEF ShownTo
        <5>3. QED
          BY <2>2, <3>0, <5>1, <5>2
      <4>3. QED
        BY <4>1, <4>2
    <3>3. \A e \in S : EntryOk(e, v)
      BY <2>0, <3>0, <3>1
    <3>4. QED
      BY <1>0, <3>2, <3>3, TurnKept
  <2>7. page'.turn - 1 = n
    BY <1>1, <1>2, <1>3
  <2>8. page'.users = users /\ page'.window = w
    BY <1>2
  <2>9. QED
    BY <2>5, <2>6, <2>7, <2>8 DEF TurnsOk
<1>8. QED
  BY <1>4, <1>5, <1>6, <1>7 DEF PageInv

-----------------------------------------------------------------------------
(* What the queries return. *)

LEMMA UsageRowsAre ==
  ASSUME EvidenceInv, NEW u, NEW w
  PROVE  /\ \A q \in UsageRows(u, w) : RecordOk(q, u, w)
         /\ \A q \in before : Due(q, u, w) => q \in UsageRows(u, w)
<1>1. \A q \in UsageRows(u, w) : RecordOk(q, u, w)
  BY DEF UsageRows, RecordOk
<1>2. \A q \in before : Due(q, u, w) => q \in UsageRows(u, w)
  BY BeforeHasAll DEF Due, UsageRows
<1>3. QED
  BY <1>1, <1>2

LEMMA FindingRowsAre ==
  ASSUME EvidenceInv, NEW u, NEW w, NEW ids
  PROVE  /\ \A x \in FindingRows(u, w, ids) : RowOk(x, u, w)
         /\ \A x : RowOk(x, u, w) /\ ids = None => x \in FindingRows(u, w, ids)
         /\ \A q \in before : Due(q, u, w) /\ (ids # None => asked[q].id \in ids)
              => AllFindings(q, FindingRows(u, w, ids))
<1>1. \A x : x \in FindingRows(u, w, ids) <=>
            \E r \in Matching(u, w, ids) : \E f \in stored[r].findings : x = [req |-> r, f |-> f]
  BY DEF FindingRows
<1>2. \A r : r \in Matching(u, w, ids) <=>
            /\ r \in Requests /\ pc[r] # "idle" /\ asked[r].user = u /\ InWindow(at[r], w)
            /\ ids # None => asked[r].id \in ids
  BY DEF Matching, OfUser
<1>3. \A x \in FindingRows(u, w, ids) : RowOk(x, u, w)
  BY <1>1, <1>2 DEF RowOk
<1>4. \A x : RowOk(x, u, w) /\ ids = None => x \in FindingRows(u, w, ids)
  BY <1>1, <1>2 DEF RowOk
<1>5. ASSUME NEW q \in before, Due(q, u, w), ids # None => asked[q].id \in ids
      PROVE  AllFindings(q, FindingRows(u, w, ids))
  <2>1. q \in Matching(u, w, ids)
    BY <1>2, <1>5, BeforeHasAll DEF Due
  <2>2. stored[q].findings = Met(q).findings
    BY BeforeHasAll
  <2>3. QED
    BY <1>1, <2>1, <2>2 DEF AllFindings
<1>6. QED
  BY <1>3, <1>4, <1>5

LEMMA OutcomeRowsAre ==
  ASSUME EvidenceInv, NEW u, NEW w, NEW ids
  PROVE  /\ \A x \in OutcomeRows(u, w, ids) : OutcomeOk(x, u)
         /\ \A q \in before : Due(q, u, w) /\ (ids # None => asked[q].id \in ids)
              => AllOutcomes(q, OutcomeRows(u, w, ids))
<1>1. \A x : x \in OutcomeRows(u, w, ids) <=>
            \E r \in Matching(u, w, ids) : \E o \in stored[r].outcomes :
              x = [req |-> r, type |-> o.type]
  BY DEF OutcomeRows
<1>2. \A r : r \in Matching(u, w, ids) <=>
            /\ r \in Requests /\ pc[r] # "idle" /\ asked[r].user = u /\ InWindow(at[r], w)
            /\ ids # None => asked[r].id \in ids
  BY DEF Matching, OfUser
<1>3. \A x \in OutcomeRows(u, w, ids) : OutcomeOk(x, u)
  BY <1>1, <1>2 DEF OutcomeOk
<1>4. ASSUME NEW q \in before, Due(q, u, w), ids # None => asked[q].id \in ids
      PROVE  AllOutcomes(q, OutcomeRows(u, w, ids))
  <2>1. q \in Matching(u, w, ids)
    BY <1>2, <1>4, BeforeHasAll DEF Due
  <2>2. stored[q].outcomes = Met(q).outcomes
    BY BeforeHasAll
  <2>3. QED
    BY <1>1, <2>1, <2>2 DEF AllOutcomes
<1>5. QED
  BY <1>3, <1>4

\* ORDER BY and LIMIT: where a request is left out, the limit is reached with newer ones.
LEMMA NewestRead ==
  ASSUME EvidenceInv, NEW u, NEW w, NEW S, S = UsageRows(u, w), NEW T \in SUBSET S,
         Cardinality(T) = IF Cardinality(S) < Limit THEN Cardinality(S) ELSE Limit, Newest(S, T)
  PROVE  /\ NewestOk(T, u, w)
         /\ T = {} => \A q \in before : ~Due(q, u, w)
<1>1. IsFiniteSet(S)
  <2>1. S \subseteq Requests
    BY DEF UsageRows
  <2>2. QED
    BY <2>1, RequestsAssumption, FS_Subset
<1>2. IsFiniteSet(T) /\ Cardinality(T) <= Cardinality(S) /\ (Cardinality(S) = Cardinality(T) => S = T)
  BY <1>1, FS_Subset
<1>3. Cardinality(S) \in Nat /\ Cardinality(T) \in Nat
  BY <1>1, <1>2, FS_CardinalityType
<1>4. \A q \in before : Due(q, u, w) => q \in S
  BY UsageRowsAre
<1>5. ASSUME NEW r \in before, Due(r, u, w), r \notin T
      PROVE  Cardinality(T) = Limit /\ \A q \in T : ~TextBefore(at[q], at[r])
  <2>1. r \in S \ T
    BY <1>4, <1>5
  <2>2. Cardinality(T) # Cardinality(S)
    BY <1>2, <2>1
  <2>3. Cardinality(T) = Limit
    BY <2>2
  <2>4. QED
    BY <2>1, <2>3 DEF Newest
<1>6. T = {} => \A q \in before : ~Due(q, u, w)
  <2> SUFFICES ASSUME T = {}, NEW q \in before, Due(q, u, w) PROVE FALSE
    OBVIOUS
  <2>1. Cardinality(T) = Limit
    BY <1>5
  <2>2. Cardinality(T) = 0
    BY FS_EmptySet
  <2>3. QED
    BY <2>1, <2>2, LimitAssumption
<1>7. QED
  BY <1>2, <1>5, <1>6 DEF NewestOk

-----------------------------------------------------------------------------
(* The reads of a page. *)

\* The page after a read, which replaces its step and some of what it holds.
Moved(step, records, findings, again) ==
  [page EXCEPT !.step = step, !.records = records, !.findings = findings, !.again = again]

LEMMA ReadShape ==
  ASSUME PageType, page.step \in Reading, NEW step, NEW records, NEW findings, NEW again,
         step \in Reading, step = "again" => page.kind = "usage",
         page' = Moved(step, records, findings, again)
  PROVE  /\ PageType'
         /\ page'.step = step /\ page'.records = records /\ page'.findings = findings
         /\ page'.again = again /\ page'.kind = page.kind /\ page'.users = page.users
         /\ page'.turn = page.turn /\ page'.window = page.window /\ page'.shown = page.shown
<1> DEFINE p == page
           q == page'
<1>1. p = [step |-> p.step, kind |-> p.kind, users |-> p.users, turn |-> p.turn,
           window |-> p.window, records |-> p.records, findings |-> p.findings,
           again |-> p.again, shown |-> p.shown]
  BY DEF PageType
<1>2. q = [p EXCEPT !.step = step, !.records = records, !.findings = findings, !.again = again]
  BY DEF Moved
<1> HIDE DEF p, q
<1>3. q = [step |-> step, kind |-> p.kind, users |-> p.users, turn |-> p.turn,
           window |-> p.window, records |-> records, findings |-> findings, again |-> again,
           shown |-> p.shown]
  BY <1>1, <1>2
<1>4. page' = [step |-> step, kind |-> page.kind, users |-> page.users, turn |-> page.turn,
               window |-> page.window, records |-> records, findings |-> findings,
               again |-> again, shown |-> page.shown]
  BY <1>3 DEF p, q
<1>5. PageType'
  BY <1>4 DEF PageType, Reading
<1>6. QED
  BY <1>4, <1>5

LEMMA ReadLogRecordsOk ==
  ASSUME IInv, Kept, ReadLogRecords
  PROVE  PageInv'
<1>0. EvidenceInv /\ PageType /\ page.step \in Reading /\ page.kind = "logs" /\ before' = before
  BY DEF IInv, PageInv, ReadLogRecords, Reading
<1> DEFINE S == UsageRows(Reader, page.window)
<1>1. PICK T \in SUBSET S :
        /\ Cardinality(T) = IF Cardinality(S) < Limit THEN Cardinality(S) ELSE Limit
        /\ Newest(S, T)
        /\ page' = IF T = {} THEN Show({}) ELSE [page EXCEPT !.step = "findings", !.records = T]
  BY DEF ReadLogRecords
<1>2. /\ NewestOk(T, Reader, page.window)
      /\ T = {} => \A q \in before : ~Due(q, Reader, page.window)
  BY <1>0, <1>1, NewestRead
<1>3. \A q \in T : RecordOk(q, Reader, page.window)
  BY <1>0, UsageRowsAre
<1> HIDE DEF S
<1>4. CASE T = {}
  <2>1. page' = Show({})
    BY <1>1, <1>4
  <2>2. TurnOk({}, Reader, page.window)
    BY <1>2, <1>4 DEF TurnOk
  <2>3. QED
    BY <1>0, <2>1, <2>2, ShowOk
<1>5. CASE T # {}
  <2>1. page' = Moved("findings", T, page.findings, page.again)
    <3>1. page' = [page EXCEPT !.step = "findings", !.records = T]
      BY <1>1, <1>5
    <3>2. DOMAIN page = {"step", "kind", "users", "turn", "window", "records", "findings",
                         "again", "shown"}
      BY <1>0 DEF PageType
    <3>3. QED
      BY <3>1, <3>2 DEF Moved
  <2>2. /\ PageType' /\ page'.step = "findings" /\ page'.records = T /\ page'.kind = page.kind
        /\ page'.users = page.users /\ page'.turn = page.turn /\ page'.window = page.window
        /\ page'.shown = page.shown
    BY <1>0, <2>1, ReadShape DEF Reading
  <2>3. RecordsOk'
    <3>1. \A q, u, w : RecordOk(q, u, w) => RecordOk(q, u, w)'
      BY RecordKept
    <3>2. \A u, w : NewestOk(T, u, w) /\ (\A q \in T : RecordOk(q, u, w)) => NewestOk(T, u, w)'
      BY <1>0, NewestKept
    <3>3. QED
      BY <1>0, <1>2, <1>3, <2>2, <3>1, <3>2 DEF RecordsOk, Reader
  <2>4. FindingsOk' /\ AgainOk'
    BY <2>2 DEF FindingsOk, AgainOk
  <2>5. ShownOk' /\ TurnsOk'
    BY <1>0, <2>2, ShownKept
  <2>6. QED
    BY <2>2, <2>3, <2>4, <2>5 DEF PageInv
<1>6. QED
  BY <1>4, <1>5

LEMMA ReadTotalsOk ==
  ASSUME IInv, Kept, ReadTotals
  PROVE  PageInv'
<1>0. EvidenceInv /\ PageType /\ page.step \in Reading /\ page.kind = "usage" /\ before' = before
  BY DEF IInv, PageInv, ReadTotals, Reading
<1> DEFINE T == UsageRows(Reader, page.window)
<1>1. /\ \A q \in T : RecordOk(q, Reader, page.window)
      /\ \A q \in before : Due(q, Reader, page.window) => q \in T
  BY <1>0, UsageRowsAre
<1>2. page' = Moved("findings", T, page.findings, page.again)
  <2>1. page' = [page EXCEPT !.step = "findings", !.records = T]
    BY DEF ReadTotals
  <2>2. DOMAIN page = {"step", "kind", "users", "turn", "window", "records", "findings",
                       "again", "shown"}
    BY <1>0 DEF PageType
  <2> HIDE DEF T
  <2>3. QED
    BY <2>1, <2>2 DEF Moved
<1> HIDE DEF T
<1>3. /\ PageType' /\ page'.step = "findings" /\ page'.records = T /\ page'.kind = page.kind
      /\ page'.users = page.users /\ page'.turn = page.turn /\ page'.window = page.window
      /\ page'.shown = page.shown
  BY <1>0, <1>2, ReadShape DEF Reading
<1>4. RecordsOk'
  <2>1. \A q, u, w : RecordOk(q, u, w) => RecordOk(q, u, w)'
    BY RecordKept
  <2>2. \A q \in before : \A u, w : Due(q, u, w)' <=> Due(q, u, w)
    BY <1>0, BeforeKept
  <2>3. QED
    BY <1>0, <1>1, <1>3, <2>1, <2>2 DEF RecordsOk, Reader
<1>5. FindingsOk' /\ AgainOk'
  BY <1>3 DEF FindingsOk, AgainOk
<1>6. ShownOk' /\ TurnsOk'
  BY <1>0, <1>3, ShownKept
<1>7. QED
  BY <1>3, <1>4, <1>5, <1>6 DEF PageInv

\* The records of a page stay right while it reads on.
LEMMA RecordsKept ==
  ASSUME IInv, Kept, before' = before, page.step \in {"findings", "again", "outcomes"},
         page'.kind = page.kind, page'.window = page.window, page'.users = page.users,
         page'.turn = page.turn, page'.records = page.records
  PROVE  RecordsOk'
<1>0. EvidenceInv /\ RecordsOk
  BY DEF IInv, PageInv
<1>1. \A q, u, w : RecordOk(q, u, w) => RecordOk(q, u, w)'
  BY RecordKept
<1>2. \A T, u, w : NewestOk(T, u, w) /\ (\A q \in T : RecordOk(q, u, w)) => NewestOk(T, u, w)'
  BY <1>0, NewestKept
<1>3. \A q \in before : \A u, w : Due(q, u, w)' <=> Due(q, u, w)
  BY <1>0, BeforeKept
<1>4. QED
  BY <1>0, <1>1, <1>2, <1>3 DEF RecordsOk, Reader

\* The ids of a page are those of its records.
LEMMA PageIdsHave ==
  ASSUME NEW q \in page.records, PageIds # None
  PROVE  asked[q].id \in PageIds
BY DEF PageIds

LEMMA ReadFindingsOk ==
  ASSUME IInv, Kept, ReadFindings
  PROVE  PageInv'
<1>0. /\ EvidenceInv /\ PageType /\ RecordsOk /\ page.step = "findings" /\ page.step \in Reading
      /\ before' = before /\ page.kind \in {"logs", "usage"}
  BY DEF IInv, PageInv, PageType, ReadFindings, Reading
<1> DEFINE F == FindingRows(Reader, page.window, PageIds)
           step == IF page.kind = "logs" THEN "outcomes" ELSE "again"
<1>1. \A x \in F : RowOk(x, Reader, page.window)
  BY <1>0, FindingRowsAre
<1>2. \A q \in before \cap page.records : AllFindings(q, F)
  <2> SUFFICES ASSUME NEW q \in before, q \in page.records PROVE AllFindings(q, F)
    OBVIOUS
  <2>1. Due(q, Reader, page.window)
    BY <1>0 DEF RecordsOk, RecordOk, Due
  <2>2. PageIds # None => asked[q].id \in PageIds
    BY PageIdsHave
  <2>3. QED
    BY <1>0, <2>1, <2>2, FindingRowsAre
<1>3. page' = Moved(step, page.records, F, page.again)
  <2>1. page' = [page EXCEPT !.step = step, !.findings = F]
    BY DEF ReadFindings
  <2>2. DOMAIN page = {"step", "kind", "users", "turn", "window", "records", "findings",
                       "again", "shown"}
    BY <1>0 DEF PageType
  <2> HIDE DEF F, step
  <2>3. QED
    BY <2>1, <2>2 DEF Moved
<1>4. step \in Reading /\ (step = "again" => page.kind = "usage") /\ (step = "outcomes" => page.kind = "logs")
  BY <1>0 DEF Reading
<1> HIDE DEF F, step
<1>5. /\ PageType' /\ page'.step = step /\ page'.records = page.records /\ page'.kind = page.kind
      /\ page'.users = page.users /\ page'.turn = page.turn /\ page'.window = page.window
      /\ page'.shown = page.shown /\ page'.findings = F
  BY <1>0, <1>3, <1>4, ReadShape
<1>6. RecordsOk'
  BY <1>0, <1>5, RecordsKept
<1>7. FindingsOk'
  <2>1. \A x, u, w : RowOk(x, u, w) => RowOk(x, u, w)'
    BY RowKept
  <2>2. \A q \in before : \A rows : AllFindings(q, rows) => AllFindings(q, rows)'
    BY <1>0, BeforeKept
  <2>3. QED
    BY <1>0, <1>1, <1>2, <1>5, <2>1, <2>2 DEF FindingsOk, Reader
<1>8. AgainOk'
  BY <1>4, <1>5 DEF AgainOk
<1>9. ShownOk' /\ TurnsOk'
  BY <1>0, <1>5, ShownKept
<1>10. QED
  BY <1>5, <1>6, <1>7, <1>8, <1>9 DEF PageInv

LEMMA ReadFindingsAgainOk ==
  ASSUME IInv, Kept, ReadFindingsAgain
  PROVE  PageInv'
<1>0. /\ EvidenceInv /\ PageType /\ FindingsOk /\ page.step = "again" /\ page.step \in Reading
      /\ before' = before /\ page.kind = "usage"
  BY DEF IInv, PageInv, PageType, ReadFindingsAgain, Reading
<1> DEFINE F == FindingRows(Reader, page.window, None)
<1>1. page.findings \subseteq F
  BY <1>0, FindingRowsAre DEF FindingsOk
<1>2. page' = Moved("outcomes", page.records, page.findings, F)
  <2>1. page' = [page EXCEPT !.step = "outcomes", !.again = F]
    BY DEF ReadFindingsAgain
  <2>2. DOMAIN page = {"step", "kind", "users", "turn", "window", "records", "findings",
                       "again", "shown"}
    BY <1>0 DEF PageType
  <2> HIDE DEF F
  <2>3. QED
    BY <2>1, <2>2 DEF Moved
<1> HIDE DEF F
<1>3. /\ PageType' /\ page'.step = "outcomes" /\ page'.records = page.records
      /\ page'.kind = page.kind /\ page'.users = page.users /\ page'.turn = page.turn
      /\ page'.window = page.window /\ page'.shown = page.shown
      /\ page'.findings = page.findings /\ page'.again = F
  BY <1>0, <1>2, ReadShape DEF Reading
<1>4. RecordsOk'
  BY <1>0, <1>3, RecordsKept
<1>5. FindingsOk'
  <2>1. \A x, u, w : RowOk(x, u, w) => RowOk(x, u, w)'
    BY RowKept
  <2>2. \A q \in before : \A rows : AllFindings(q, rows) => AllFindings(q, rows)'
    BY <1>0, BeforeKept
  <2>3. QED
    BY <1>0, <1>3, <2>1, <2>2 DEF FindingsOk, Reader
<1>6. AgainOk'
  BY <1>1, <1>3 DEF AgainOk
<1>7. ShownOk' /\ TurnsOk'
  BY <1>0, <1>3, ShownKept
<1>8. QED
  BY <1>3, <1>4, <1>5, <1>6, <1>7 DEF PageInv

LEMMA LogEntryOk ==
  ASSUME IInv, page.step = "outcomes", page.kind = "logs", NEW r \in page.records,
         NEW outcomes, outcomes = OutcomeRows(Reader, page.window, PageIds)
  PROVE  EntryOk(LogEntry(Reader, r, page.findings, outcomes), page.window)
<1>0. EvidenceInv /\ RecordsOk /\ FindingsOk
  BY DEF IInv, PageInv
<1> DEFINE e == LogEntry(Reader, r, page.findings, outcomes)
           rows == {x \in page.findings : asked[x.req].id = asked[r].id}
           outs == {y \in outcomes : asked[y.req].id = asked[r].id}
<1>1. /\ e.req = r /\ e.user = Reader
      /\ e.ingress = Count(rows, "ingress") /\ e.egress = Count(rows, "egress")
      /\ e.labels = PIILabel(rows) \cup {Label(x.type) : x \in outs}
  BY DEF LogEntry
<1>2. RecordOk(r, Reader, page.window)
  BY <1>0 DEF RecordsOk
<1>3. \A x \in rows : RowOk(x, Reader, page.window) /\ asked[x.req].id = asked[r].id
  BY <1>0 DEF FindingsOk
<1>4. \A x \in outs : OutcomeOk(x, Reader) /\ asked[x.req].id = asked[r].id
  BY <1>0, OutcomeRowsAre
<1>5. ASSUME r \in before PROVE AllFindings(r, rows) /\ AllOutcomes(r, outs)
  <2>1. Due(r, Reader, page.window)
    BY <1>2, <1>5 DEF RecordOk, Due
  <2>2. PageIds # None => asked[r].id \in PageIds
    BY PageIdsHave
  <2>3. AllFindings(r, page.findings)
    BY <1>0, <1>5 DEF FindingsOk
  <2>4. AllOutcomes(r, outcomes)
    BY <1>0, <1>5, <2>1, <2>2, OutcomeRowsAre
  <2>5. QED
    BY <2>3, <2>4 DEF AllFindings, AllOutcomes
<1> HIDE DEF e, rows, outs
<1>6. EntryOk(e, page.window)
  BY <1>1, <1>2, <1>3, <1>4, <1>5 DEF EntryOk
<1>7. QED
  BY <1>6 DEF e

\* There are as many entries as records.
LEMMA EntriesSize ==
  ASSUME NEW T, IsFiniteSet(T), NEW g, DOMAIN g = T, \A r \in T : g[r].req = r, NEW E,
         \A e : e \in E <=> \E r \in T : e = g[r]
  PROVE  Cardinality(E) = Cardinality(T)
<1> DEFINE h == [r \in T |-> g[r]]
<1>1. h \in [T -> E]
  OBVIOUS
<1>2. \A q, r \in T : h[q] = h[r] => q = r
  OBVIOUS
<1>3. \A e \in E : \E r \in T : h[r] = e
  OBVIOUS
<1> HIDE DEF h
<1>4. h \in Bijection(T, E)
  BY <1>1, <1>2, <1>3, Fun_IsBij
<1>5. ExistsBijection(T, E)
  BY <1>4, Fun_ExistsBij
<1>6. QED
  BY <1>5, FS_Bijection

LEMMA UsageItemOk ==
  ASSUME IInv, page.step = "outcomes", page.kind = "usage", NEW outcomes
  PROVE  ItemOk(UsageItem(Reader, page.records, page.findings, page.again, outcomes), page.window)
<1>0. EvidenceInv /\ RecordsOk /\ FindingsOk /\ AgainOk
  BY DEF IInv, PageInv
<1> DEFINE i == UsageItem(Reader, page.records, page.findings, page.again, outcomes)
<1>1. /\ i.user = Reader /\ i.counted = page.records
      /\ i.flagged = {asked[x.req].id : x \in page.findings}
      /\ i.ingress = Count(page.findings, "ingress")
      /\ i.labels = PIILabel(page.again) \cup {Label(x.type) : x \in outcomes}
  BY DEF UsageItem
<1>2. /\ \A q \in page.records : RecordOk(q, Reader, page.window)
      /\ \A q \in before : Due(q, Reader, page.window) => q \in page.records
  BY <1>0 DEF RecordsOk
<1>3. /\ \A x \in page.findings : RowOk(x, Reader, page.window)
      /\ \A q \in before \cap page.records : AllFindings(q, page.findings)
  BY <1>0 DEF FindingsOk
<1> HIDE DEF i
<1>4. i.flagged # {} => "PII" \in i.labels
  <2> SUFFICES ASSUME i.flagged # {} PROVE "PII" \in i.labels
    OBVIOUS
  <2>1. page.findings # {}
    BY <1>1
  <2>2. page.again # {}
    BY <1>0, <2>1 DEF AgainOk
  <2>3. "PII" \in PIILabel(page.again)
    BY <2>2 DEF PIILabel
  <2>4. QED
    BY <1>1, <2>3
<1>5. ItemOk(i, page.window)
  BY <1>1, <1>2, <1>3, <1>4 DEF ItemOk
<1>6. QED
  BY <1>5 DEF i

LEMMA ReadOutcomesOk ==
  ASSUME IInv, Kept, ReadOutcomes
  PROVE  PageInv'
<1>0. /\ page.step = "outcomes" /\ page.step \in Reading /\ before' = before /\ RecordsOk
      /\ page.kind \in {"logs", "usage"}
  BY DEF IInv, PageInv, PageType, ReadOutcomes, Reading
<1> DEFINE outcomes == OutcomeRows(Reader, page.window, PageIds)
           entry(r) == LogEntry(Reader, r, page.findings, outcomes)
           entries == {entry(r) : r \in page.records}
           item == UsageItem(Reader, page.records, page.findings, page.again, outcomes)
<1>1. page' = Show(IF page.kind = "logs" THEN entries ELSE {item})
  BY DEF ReadOutcomes
<1>2. CASE page.kind = "logs"
  <2>1. \A r \in page.records : EntryOk(entry(r), page.window)
    BY <1>0, <1>2, LogEntryOk
  <2>2. \A r \in page.records : entry(r).req = r /\ entry(r).user = Reader
    BY DEF LogEntry
  <2>3. NewestOk(page.records, Reader, page.window)
    BY <1>0, <1>2 DEF RecordsOk
  <2> DEFINE g == [r \in page.records |-> entry(r)]
  <2>4. DOMAIN g = page.records /\ \A r \in page.records : g[r] = entry(r)
    OBVIOUS
  <2> HIDE DEF entry
  <2>5. \A e : e \in entries <=> \E r \in page.records : e = g[r]
    BY <2>4
  <2> HIDE DEF g
  <2>6. IsFiniteSet(page.records)
    BY <2>3 DEF NewestOk
  <2>7. Cardinality(entries) = Cardinality(page.records)
    <3> HIDE DEF entries
    <3>1. \A r \in page.records : g[r].req = r
      BY <2>2, <2>4
    <3>2. QED
      BY <2>4, <2>5, <2>6, <3>1, EntriesSize
  <2>8. \A e \in entries : EntryOk(e, page.window) /\ e.user = Reader /\ e.req \in page.records
    BY <2>1, <2>2
  <2>9. \A r \in page.records : \E e \in entries : e.req = r
    BY <2>2
  <2> HIDE DEF entries
  <2>10. TurnOk(entries, Reader, page.window)
    BY <2>3, <2>7, <2>8, <2>9 DEF TurnOk, NewestOk
  <2>11. page' = Show(entries)
    BY <1>1, <1>2
  <2>12. QED
    BY <1>0, <1>2, <2>8, <2>10, <2>11, ShowOk
<1>3. CASE page.kind = "usage"
  <2>1. ItemOk(item, page.window)
    BY <1>0, <1>3, UsageItemOk
  <2>2. page' = Show({item})
    BY <1>1, <1>3
  <2> HIDE DEF item
  <2> DEFINE items == {item}
  <2>3. \A i \in items : ItemOk(i, page.window)
    BY <2>1
  <2>4. page' = Show(items)
    BY <2>2
  <2> HIDE DEF items
  <2>5. QED
    BY <1>0, <1>3, <2>3, <2>4, ShowOk
<1>4. QED
  BY <1>0, <1>2, <1>3

LEMMA InitIInv == Init => IInv
<1> SUFFICES ASSUME Init PROVE IInv
  OBVIOUS
<1>1. EvidenceInv
  BY InitEvidence
<1>2. page = NoPage
  BY DEF Init
<1>3. PageInv
  BY <1>2 DEF NoPage, PageInv, PageType, Reading, RecordsOk, FindingsOk, AgainOk, ShownOk, TurnsOk
<1>4. QED
  BY <1>1, <1>3 DEF IInv

LEMMA NextIInv == IInv /\ [Next]_vars => IInv'
<1> SUFFICES ASSUME IInv, [Next]_vars PROVE IInv'
  OBVIOUS
<1>1. EvidenceInv' /\ Kept
  BY NextEvidence DEF IInv
<1>2. PageInv'
  <2>1. CASE PageSame
    BY <1>1, <2>1, SamePageOk
  <2>2. CASE PageDropped
    BY <2>2, DroppedOk
  <2>3. CASE PageOpened
    BY <2>3, OpenedOk
  <2>4. CASE ReadLogRecords
    BY <1>1, <2>4, ReadLogRecordsOk
  <2>5. CASE ReadTotals
    BY <1>1, <2>5, ReadTotalsOk
  <2>6. CASE ReadFindings
    BY <1>1, <2>6, ReadFindingsOk
  <2>7. CASE ReadFindingsAgain
    BY <1>1, <2>7, ReadFindingsAgainOk
  <2>8. CASE ReadOutcomes
    BY <1>1, <2>8, ReadOutcomesOk
  <2>9. QED
    BY <2>1, <2>2, <2>3, <2>4, <2>5, <2>6, <2>7, <2>8, PageSteps DEF PageRead
<1>3. QED
  BY <1>1, <1>2 DEF IInv

\* Every reachable state satisfies the invariant.
THEOREM Invariant == Spec => []IInv
<1>1. Init => IInv
  BY InitIInv
<1>2. IInv /\ [Next]_vars => IInv'
  BY NextIInv
<1>3. QED
  BY <1>1, <1>2, PTL DEF Spec

\* The parts of the usage page are read one after the other, and agree: where it counts a
\* flagged request, it carries the label.
THEOREM PartsAgree == Spec => []LabelsAgree
<1>1. IInv => LabelsAgree
  BY DEF IInv, PageInv, ShownOk, ItemOk, LabelsAgree, UsagePage
<1>2. QED
  BY <1>1, Invariant, PTL

\* A request the log page leaves out gave way to Limit requests as new as itself, to the
\* second.
THEOREM LogIsNewest == Spec => []NewestShown
<1>1. IInv => NewestShown
  <2> SUFFICES ASSUME IInv, LogPage, NEW r \in before,
                      asked[r].user \in {page.users[k] : k \in DOMAIN page.users},
                      Inside(at[r], page.window),
                      \A e \in ShownTo(asked[r].user) : e.req # r
               PROVE  /\ Cardinality(ShownTo(asked[r].user)) = Limit
                      /\ \A e \in ShownTo(asked[r].user) : Second(at[e.req]) >= Second(at[r])
    BY DEF NewestShown, ShownTo
  <2>0. /\ EvidenceInv /\ PageType /\ ShownOk /\ TurnsOk
        /\ page.step = "answered" /\ page.kind = "logs"
    BY DEF IInv, PageInv, LogPage
  <2>1. /\ page.users \in UserLists /\ page.window \in Windows /\ page.turn = Len(page.users) + 1
    BY <2>0 DEF PageType
  <2>2. PICK k \in 1 .. page.turn - 1 : page.users[k] = asked[r].user
    <3>1. DOMAIN page.users = 1 .. Len(page.users) /\ Len(page.users) \in Nat
      BY <2>1, UserListHas
    <3>2. QED
      BY <2>1, <3>1
  <2>3. TurnOk(ShownTo(asked[r].user), asked[r].user, page.window)
    BY <2>0, <2>2 DEF TurnsOk
  <2>4. at \in [Requests -> Nat] /\ r \in Requests
    BY <2>0, BeforeHasAll DEF EvidenceInv, TypeOK
  <2>5. Due(r, asked[r].user, page.window)
    BY <2>1, <2>4, InsideIn DEF Due
  <2>6. /\ Cardinality(ShownTo(asked[r].user)) = Limit
        /\ \A e \in ShownTo(asked[r].user) : ~TextBefore(at[e.req], at[r])
    BY <2>3, <2>5 DEF TurnOk
  <2>7. \A e \in ShownTo(asked[r].user) : e.req \in Requests
    BY <2>0 DEF ShownTo, ShownOk, EntryOk, RecordOk
  <2>8. QED
    BY <2>4, <2>6, <2>7, NotBeforeSecond
<1>2. QED
  BY <1>1, Invariant, PTL

\* A row of the table is of a finding that its request met.
LEMMA RowIsOf ==
  ASSUME EvidenceInv, NEW x, NEW u, NEW w, RowOk(x, u, w)
  PROVE  RowOf(asked, x)
<1>1. x.req \in Requests /\ pc[x.req] # "idle" /\ RequestOk(x.req)
  BY DEF RowOk, EvidenceInv, RequestsOk
<1>2. asked[x.req] \in Request /\ x.f \in Met(x.req).findings
  BY <1>1 DEF RowOk, RequestOk
<1>3. QED
  BY <1>1, <1>2 DEF RowOk, RowOf, Met, Request

LEMMA HandledCase ==
  ASSUME EvidenceInv, NEW r \in Requests, pc[r] # "idle"
  PROVE  asked[r].case \in Cases
BY DEF EvidenceInv, RequestsOk, RequestOk, Request

\* The usage page counts every request recorded in its window before it was opened, with
\* all its findings, and none from outside.
THEOREM TotalsComplete == Spec => []TotalsCount
<1>1. IInv => TotalsCount
  <2> SUFFICES ASSUME IInv, UsagePage, NEW i \in page.shown,
                      NEW sure, sure = {r \in before : /\ asked[r].user = i.user
                                                       /\ Inside(at[r], page.window)},
                      NEW known, known = {r \in Requests : /\ pc[r] # "idle"
                                                           /\ asked[r].user = i.user
                                                           /\ ~Outside(at[r], page.window)}
               PROVE  /\ sure \subseteq i.counted /\ i.counted \subseteq known
                      /\ TotalIngress(sure) <= i.ingress
                      /\ i.ingress <= TotalIngress(known)
    BY DEF TotalsCount
  <2> DEFINE w == page.window
             d == "ingress"
  <2>0. /\ EvidenceInv /\ w \in Windows /\ ItemOk(i, w) /\ at \in [Requests -> Nat]
        /\ d \in Directions
    BY DEF IInv, EvidenceInv, TypeOK, PageInv, PageType, ShownOk, UsagePage, Directions
  <2> HIDE DEF w
  <2>1. sure \subseteq i.counted
    <3> SUFFICES ASSUME NEW r \in sure PROVE r \in i.counted
      OBVIOUS
    <3>1. r \in before /\ asked[r].user = i.user /\ Inside(at[r], w) /\ r \in Requests
      BY <2>0, BeforeHasAll DEF w
    <3>2. InWindow(at[r], w)
      BY <2>0, <3>1, InsideIn
    <3>3. QED
      BY <2>0, <3>1, <3>2 DEF ItemOk, Due
  <2>2. \A r \in Requests : InWindow(at[r], w) => ~Outside(at[r], w)
    BY <2>0, OutsideOut
  <2>3. i.counted \subseteq known
    BY <2>0, <2>2 DEF ItemOk, RecordOk, w
  <2>4. PICK rows : /\ i.ingress = Count(rows, d)
                    /\ \A x \in rows : RowOk(x, i.user, w)
                    /\ \A q \in before \cap i.counted : AllFindings(q, rows)
    BY <2>0 DEF ItemOk
  <2>5. \A x \in rows : RowOf(asked, x) /\ x.req \in known
    BY <2>0, <2>2, <2>4, RowIsOf DEF RowOk, w
  <2>6. /\ known \in SUBSET Requests /\ sure \in SUBSET known
        /\ \A r \in known : asked[r].case \in Cases
    BY <2>0, <2>1, <2>3, HandledCase
  <2>7. /\ Count(rows, d) = Cardinality(Spots(asked, rows, d))
        /\ Spots(asked, rows, d) \subseteq Cells(asked, known, d)
    BY <2>0, <2>5, <2>6, CountIs
  <2>8. Cells(asked, sure, d) \subseteq Spots(asked, rows, d)
    <3>1. \A r \in sure : /\ asked[r].case \in Cases
                          /\ \A f \in Evidence(asked[r].case).findings : [req |-> r, f |-> f] \in rows
      BY <2>1, <2>4, <2>6 DEF AllFindings, Met
    <3>2. QED
      BY <2>0, <3>1, CellsIn
  <2>9. IsFiniteSet(Cells(asked, known, d))
    BY <2>0, <2>6, CellsFinite
  <2>10. /\ Cardinality(Spots(asked, rows, d)) <= Cardinality(Cells(asked, known, d))
         /\ Cardinality(Cells(asked, sure, d)) <= Cardinality(Spots(asked, rows, d))
    BY <2>7, <2>8, <2>9, FS_Subset
  <2>11. /\ TotalIngress(known) = Cardinality(Cells(asked, known, d))
         /\ TotalIngress(sure) = Cardinality(Cells(asked, sure, d))
    BY <2>6, TotalIs
  <2>12. QED
    BY <2>1, <2>3, <2>4, <2>7, <2>10, <2>11
<1>2. QED
  BY <1>1, Invariant, PTL

\* What the entry of a request counts when all its findings and no others are its rows.
LEMMA CountOfOne ==
  ASSUME NEW a, NEW r \in Requests, NEW c \in Cases, a[r].case = c, NEW d \in Directions, NEW rows,
         \A x : x \in rows <=> \E f \in Evidence(c).findings : x = [req |-> r, f |-> f]
  PROVE  Count(rows, d) = Cardinality(Found(c, d))
<1> DEFINE S == {r}
<1>1. \A x \in rows : RowOf(a, x) /\ x.req \in S
  BY DEF RowOf
<1>2. S \in SUBSET Requests /\ \A q \in S : a[q].case \in Cases
  OBVIOUS
<1>3. \A q \in S : \A f \in Evidence(a[q].case).findings : [req |-> q, f |-> f] \in rows
  OBVIOUS
<1>4. Cells(a, S, d) = {r} \X Found(c, d)
  BY DEF Cells
<1> HIDE DEF S
<1>5. /\ Count(rows, d) = Cardinality(Spots(a, rows, d))
      /\ Spots(a, rows, d) \subseteq Cells(a, S, d)
  BY <1>1, <1>2, CountIs
<1>6. Cells(a, S, d) \subseteq Spots(a, rows, d)
  BY <1>2, <1>3, CellsIn
<1>7. Count(rows, d) = Cardinality({r} \X Found(c, d))
  BY <1>4, <1>5, <1>6
<1>8. IsFiniteSet(Found(c, d))
  BY FoundFinite
<1>9. QED
  BY <1>7, <1>8, PairSize

LEMMA FindingsOrNone ==
  ASSUME NEW c \in Cases
  PROVE  Evidence(c).findings = {} <=> Found(c, "ingress") = {} /\ Found(c, "egress") = {}
<1> DEFINE fs(d) == {f \in Evidence(c).findings : f.direction = d}
<1>1. \A d \in Directions : fs(d) = {} <=> Found(c, d) = {}
  BY EvidenceParts DEF Partition
<1>2. \A f \in Evidence(c).findings : f.direction \in Directions
  BY EvidenceIs
<1>3. "ingress" \in Directions /\ "egress" \in Directions
  BY DEF Directions
<1>4. Evidence(c).findings = {} <=> fs("ingress") = {} /\ fs("egress") = {}
  BY <1>2 DEF Directions
<1>5. QED
  BY <1>1, <1>3, <1>4

\* What a request met, as the properties say it.
LEMMA MetIs ==
  ASSUME NEW r, NEW c \in Cases, asked[r].case = c
  PROVE  /\ Ingress(r) = Cardinality(Found(c, "ingress"))
         /\ Egress(r) = Cardinality(Found(c, "egress"))
         /\ Labels(r) = (IF Evidence(c).findings # {} THEN {"PII"} ELSE {})
                          \cup {Label(o.type) : o \in Evidence(c).outcomes}
<1>1. Ingress(r) = Cardinality(Found(c, "ingress"))
  BY FS_EmptySet DEF Ingress, Found, Text
<1>2. Egress(r) = Cardinality(Found(c, "egress"))
  BY FS_EmptySet DEF Egress, Found, Text, Barred
<1>3. "ingress" \in Directions /\ "egress" \in Directions
  BY DEF Directions
<1>4. IsFiniteSet(Found(c, "ingress")) /\ IsFiniteSet(Found(c, "egress"))
  BY <1>3, FoundFinite
<1>5. /\ Ingress(r) \in Nat /\ (Ingress(r) = 0 <=> Found(c, "ingress") = {})
      /\ Egress(r) \in Nat /\ (Egress(r) = 0 <=> Found(c, "egress") = {})
  BY <1>1, <1>2, <1>4, FS_CardinalityType, FS_EmptySet
<1>6. Ingress(r) + Egress(r) > 0 <=> Evidence(c).findings # {}
  BY <1>5, FindingsOrNone
<1> DEFINE shown == IF c.gate # "open" THEN {Label(c.gate)} ELSE IF c.terms # <<>> THEN {"NSFW"} ELSE {}
           labels == {Label(o.type) : o \in Evidence(c).outcomes}
<1>7. \A type : (\E o \in Evidence(c).outcomes : o.type = type)
        <=> IF c.gate # "open" THEN type = c.gate ELSE c.terms # <<>> /\ type = "nsfw_keyword"
  BY OutcomesAre
<1>8. \A l : l \in labels <=> \E type : (\E o \in Evidence(c).outcomes : o.type = type) /\ l = Label(type)
  OBVIOUS
<1>9. Label("nsfw_keyword") = "NSFW"
  BY DEF Label
<1> HIDE DEF labels
<1>10. labels = shown
  <2>1. CASE c.gate # "open"
    <3>1. \A type : (\E o \in Evidence(c).outcomes : o.type = type) <=> type = c.gate
      BY <1>7, <2>1
    <3>2. labels = {Label(c.gate)}
      BY <1>8, <3>1
    <3>3. QED
      BY <2>1, <3>2
  <2>2. CASE c.gate = "open" /\ c.terms # <<>>
    <3>1. \A type : (\E o \in Evidence(c).outcomes : o.type = type) <=> type = "nsfw_keyword"
      BY <1>7, <2>2
    <3>2. labels = {"NSFW"}
      BY <1>8, <1>9, <3>1
    <3>3. QED
      BY <2>2, <3>2
  <2>3. CASE c.gate = "open" /\ c.terms = <<>>
    <3>1. \A type : ~ \E o \in Evidence(c).outcomes : o.type = type
      BY <1>7, <2>3
    <3>2. labels = {}
      BY <1>8, <3>1
    <3>3. QED
      BY <2>3, <3>2
  <2>4. QED
    BY <2>1, <2>2, <2>3
<1>11. Labels(r) = (IF Ingress(r) + Egress(r) > 0 THEN {"PII"} ELSE {}) \cup shown
  BY DEF Labels
<1>12. QED
  BY <1>1, <1>2, <1>6, <1>10, <1>11 DEF labels

\* An entry of the log page tells of its request all that was found, and nothing of other
\* requests, if the request was recorded in full before the page was opened and no other
\* request of the user came with its id.
THEOREM EntryExact == Spec => []EntryTellsRequest
<1>1. IInv => EntryTellsRequest
  <2> SUFFICES ASSUME IInv, LogPage, NEW e \in page.shown, NEW r, e.req = r, r \in before, ~SharesId(r)
               PROVE  e.ingress = Ingress(r) /\ e.egress = Egress(r) /\ e.labels = Labels(r)
    BY DEF EntryTellsRequest
  <2>0. EvidenceInv /\ EntryOk(e, page.window)
    BY DEF IInv, PageInv, ShownOk, LogPage
  <2> DEFINE c == asked[r].case
             u == e.user
  <2>1. /\ r \in Requests /\ pc[r] # "idle" /\ asked[r].user = u /\ c \in Cases
        /\ stored[r].findings = Evidence(c).findings /\ stored[r].outcomes = Evidence(c).outcomes
    BY <2>0, BeforeHasAll DEF EntryOk, RecordOk, Request, Met
  <2>2. PICK rows, outs :
          /\ e.ingress = Count(rows, "ingress") /\ e.egress = Count(rows, "egress")
          /\ e.labels = PIILabel(rows) \cup {Label(x.type) : x \in outs}
          /\ \A x \in rows : RowOk(x, u, page.window) /\ asked[x.req].id = asked[r].id
          /\ \A x \in outs : OutcomeOk(x, u) /\ asked[x.req].id = asked[r].id
          /\ AllFindings(r, rows) /\ AllOutcomes(r, outs)
    BY <2>0 DEF EntryOk
  <2>3. \A q \in Requests : pc[q] # "idle" /\ asked[q].user = u /\ asked[q].id = asked[r].id => q = r
    BY <2>1 DEF SharesId
  <2>4. \A x : x \in rows <=> \E f \in Evidence(c).findings : x = [req |-> r, f |-> f]
    <3>1. \A x \in rows : x.req = r /\ x.f \in Evidence(c).findings /\ x = [req |-> x.req, f |-> x.f]
      BY <2>1, <2>2, <2>3 DEF RowOk
    <3>2. \A f \in Evidence(c).findings : [req |-> r, f |-> f] \in rows
      BY <2>2 DEF AllFindings, Met
    <3>3. QED
      BY <3>1, <3>2
  <2>5. \A type : (\E x \in outs : x.type = type) <=> \E o \in Evidence(c).outcomes : o.type = type
    <3>1. \A x \in outs : \E o \in Evidence(c).outcomes : o.type = x.type
      BY <2>1, <2>2, <2>3 DEF OutcomeOk
    <3>2. \A o \in Evidence(c).outcomes : [req |-> r, type |-> o.type] \in outs
      BY <2>2 DEF AllOutcomes, Met
    <3>3. QED
      BY <3>1, <3>2
  <2> HIDE DEF c, u
  <2>6. /\ Count(rows, "ingress") = Cardinality(Found(c, "ingress"))
        /\ Count(rows, "egress") = Cardinality(Found(c, "egress"))
    BY <2>1, <2>4, CountOfOne DEF Directions, c
  <2>7. PIILabel(rows) = IF Evidence(c).findings # {} THEN {"PII"} ELSE {}
    BY <2>4 DEF PIILabel
  <2>8. {Label(x.type) : x \in outs} = {Label(o.type) : o \in Evidence(c).outcomes}
    BY <2>5
  <2>9. /\ Ingress(r) = Cardinality(Found(c, "ingress"))
        /\ Egress(r) = Cardinality(Found(c, "egress"))
        /\ Labels(r) = (IF Evidence(c).findings # {} THEN {"PII"} ELSE {})
                         \cup {Label(o.type) : o \in Evidence(c).outcomes}
    BY <2>1, MetIs DEF c
  <2>10. QED
    BY <2>2, <2>6, <2>7, <2>8, <2>9
<1>2. QED
  BY <1>1, Invariant, PTL
=============================================================================

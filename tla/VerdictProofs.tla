---------------------------- MODULE VerdictProofs ----------------------------
(***************************************************************************)
(* What the headline of a review says, for any number of claims and       *)
(* findings, any size of the shards and any agents that die.  Sequences   *)
(* put together step by step (an agent's answers, the merged parts) are    *)
(* reasoned about by induction on their length, which comes from the       *)
(* well-foundedness of < on Nat.                                           *)
(***************************************************************************)
EXTENDS Verdict, FiniteSetTheorems, WellFoundedInduction, TLAPS

-----------------------------------------------------------------------------
(* Numbers and finite sets. *)

LEMMA Interval ==
  ASSUME NEW k \in Nat
  PROVE  IsFiniteSet(1..k) /\ Cardinality(1..k) = k
PROOF
<1>1. /\ IsFiniteSet(1..k)
      /\ Cardinality(1..k) = IF 1 > k THEN 0 ELSE k - 1 + 1
  BY FS_Interval, 1 \in Int, k \in Int
<1> QED BY <1>1

\* Cardinalities of disjoint sets add up.
LEMMA Disjoint ==
  ASSUME NEW A, IsFiniteSet(A), NEW B, IsFiniteSet(B), A \cap B = {}
  PROVE  /\ Cardinality(A) \in Nat /\ Cardinality(B) \in Nat
         /\ Cardinality(A \cup B) = Cardinality(A) + Cardinality(B)
<1>1. Cardinality(A \cap B) = 0
  BY FS_EmptySet
<1>2. Cardinality(A) \in Nat /\ Cardinality(B) \in Nat
  BY FS_CardinalityType
<1>3. Cardinality(A \cup B) = Cardinality(A) + Cardinality(B) - Cardinality(A \cap B)
  BY FS_Union
<1> QED BY <1>1, <1>2, <1>3

\* A set of numbers that has 0, and k + 1 with every k: otherwise the least number it
\* lacks would have a predecessor that it lacks too.
LEMMA Induction ==
  ASSUME NEW T, 0 \in T, \A k \in Nat : k \in T => k + 1 \in T
  PROVE  Nat \subseteq T
<1> DEFINE R == OpToRel(<, Nat)
           U == Nat \ T
<1>1. IsWellFoundedOn(R, Nat)
  BY NatLessThanWellFounded
<1>2. \A x, y \in Nat : x < y => <<x, y>> \in R
  BY DEF OpToRel
<1>3. ASSUME U # {} PROVE FALSE
  <2> HIDE DEF R
  <2>1. PICK x \in U : \A y \in U : ~(<<y, x>> \in R)
    BY <1>1, <1>3, WFMin
  <2>2. x - 1 \in Nat /\ x - 1 < x
    BY <2>1
  <2>3. x - 1 \notin T
    BY <2>1, <2>2
  <2>4. x - 1 \in U
    BY <2>2, <2>3
  <2> QED BY <1>2, <2>1, <2>2, <2>4
<1> QED BY <1>3

\* A function on 0..n defined step by step.
StepsIn(step, S, n) == step \in [S \X (1..n) -> S]
Follows(f, z, step, S, n) ==
  f \in [0..n -> S] /\ f[0] = z /\ \A i \in 1..n : f[i] = step[<<f[i - 1], i>>]
\* There is one, for any first value and any step.
LEMMA Recursion ==
  ASSUME NEW S, NEW z \in S, NEW n \in Nat, NEW step, StepsIn(step, S, n)
  PROVE  \E f : Follows(f, z, step, S, n)
<1> DEFINE Up(k) == \E f \in [0..k -> S] : f[0] = z /\ \A i \in 1..k : f[i] = step[<<f[i - 1], i>>]
           T == {k \in Nat : k <= n => Up(k)}
<1>1. step \in [S \X (1..n) -> S]
  BY DEF StepsIn
<1>2. 0 \in T
  <2>1. [i \in 0..0 |-> z] \in [0..0 -> S] /\ [i \in 0..0 |-> z][0] = z
    OBVIOUS
  <2>2. \A i \in 1..0 : FALSE
    OBVIOUS
  <2>3. Up(0)
    <3> WITNESS [i \in 0..0 |-> z] \in [0..0 -> S]
    <3> QED BY <2>1, <2>2
  <2> QED BY <2>3
<1>3. ASSUME NEW k \in Nat, k \in T PROVE k + 1 \in T
  <2> SUFFICES ASSUME k + 1 <= n PROVE Up(k + 1)
    OBVIOUS
  <2>1. PICK f \in [0..k -> S] : f[0] = z /\ \A i \in 1..k : f[i] = step[<<f[i - 1], i>>]
    BY <1>3
  <2> DEFINE g == [i \in 0..(k + 1) |-> IF i = k + 1 THEN step[<<f[k], k + 1>>] ELSE f[i]]
  <2>2. step[<<f[k], k + 1>>] \in S
    <3>1. <<f[k], k + 1>> \in S \X (1..n)
      OBVIOUS
    <3> QED BY <1>1, <3>1
  <2>3. g \in [0..(k + 1) -> S]
    BY <2>2
  <2>4. g[0] = z
    BY <2>1
  <2>5. \A i \in 1..(k + 1) : g[i] = step[<<g[i - 1], i>>]
    <3> SUFFICES ASSUME NEW i \in 1..(k + 1) PROVE g[i] = step[<<g[i - 1], i>>]
      OBVIOUS
    <3>1. g[i - 1] = f[i - 1]
      OBVIOUS
    <3>2. CASE i = k + 1
      <4>1. i - 1 = k
        BY <3>2
      <4>2. g[i] = step[<<f[k], k + 1>>]
        BY <3>2
      <4> QED BY <3>1, <3>2, <4>1, <4>2
    <3>3. CASE i # k + 1
      BY <2>1, <3>1, <3>3
    <3> QED BY <3>2, <3>3
  <2> HIDE DEF g
  <2> QED BY <2>3, <2>4, <2>5
<1>4. n \in T
  <2> HIDE DEF T
  <2> QED BY <1>2, <1>3, Induction
<1> QED BY <1>4 DEF Follows

-----------------------------------------------------------------------------
(* Findings that are proper say nothing that was not checked. *)

\* Findings about the claims of a review, no claim being answered twice.
Proper(found, claims) ==
  /\ found \in Seq(Finding)
  /\ \A i \in DOMAIN found : found[i].id \in DOMAIN claims
  /\ \A i, j \in DOMAIN found : found[i].id = found[j].id => i = j

\* The place of a finding and the claim it is about.
Subject(found) == [i \in DOMAIN found |-> found[i].id]

\* No claim is answered twice, so there are not more findings than claims; and if
\* there are as many, each claim is answered.
LEMMA FindingsFit ==
  ASSUME NEW claims \in Seq(Claim), NEW found, Proper(found, claims)
  PROVE  /\ Len(found) <= Len(claims)
         /\ Len(found) = Len(claims) =>
              \A c \in DOMAIN claims : \E i \in DOMAIN found : found[i].id = c
PROOF
<1> DEFINE m == Len(found)
           n == Len(claims)
<1>1. /\ m \in Nat /\ n \in Nat
      /\ DOMAIN found = 1..m /\ DOMAIN claims = 1..n
  BY DEF Proper
<1>2. /\ IsFiniteSet(1..m) /\ Cardinality(1..m) = m
      /\ IsFiniteSet(1..n) /\ Cardinality(1..n) = n
  BY <1>1, Interval
<1>3. Subject(found) \in Injection(1..m, 1..n)
  BY <1>1 DEF Subject, Proper, Injection, IsInjective
<1>4. /\ m <= n
      /\ m = n => Subject(found) \in Surjection(1..m, 1..n)
  BY <1>2, <1>3, FS_Injection
<1>5. ASSUME m = n, NEW c \in 1..n
      PROVE  \E i \in 1..m : found[i].id = c
  BY <1>1, <1>4, <1>5 DEF Surjection, Subject
<1> QED BY <1>1, <1>4, <1>5

\* "A review that lost a third of its claims and passed the rest still reported
\* ACCURATE, which is the one thing the verdict must never do": if findings are
\* proper, ACCURATE is said only of a description each claim of which was checked
\* and passed.
THEOREM AccurateMeansPassed ==
  ASSUME NEW claims \in Seq(Claim), NEW found, Proper(found, claims),
         OverallVerdict(found, claims) = "ACCURATE"
  PROVE  \A c \in DOMAIN claims :
           \E i \in DOMAIN found : found[i].id = c /\ found[i].status = "PASS"
PROOF
<1>1. Len(found) \in Nat /\ Len(claims) \in Nat
  BY DEF Proper
<1>2. /\ ~Some(found, {"FAIL"}) /\ ~Some(found, {"PARTIAL", "UNVERIFIED"})
      /\ ~(Lost(found, claims) > 0)
  BY DEF OverallVerdict
<1>3. Len(found) = Len(claims)
  BY <1>1, <1>2, FindingsFit DEF Lost
<1>4. \A i \in DOMAIN found : found[i].status = "PASS"
  <2>1. \A i \in DOMAIN found : found[i] \in Finding
    BY DEF Proper
  <2>2. \A i \in DOMAIN found :
          /\ found[i].status \in Status
          /\ found[i].status \notin {"FAIL"}
          /\ found[i].status \notin {"PARTIAL", "UNVERIFIED"}
    BY <1>2, <2>1 DEF Some, Finding
  <2> QED BY <2>2 DEF Status
<1> QED BY <1>3, <1>4, FindingsFit

\* verdict_label: the denominator is the number of the claims that were planned,
\* even if agents have died, and no claim is both contradicted and unproven.
THEOREM LabelCountsPlanned ==
  ASSUME NEW claims \in Seq(Claim), NEW found, Proper(found, claims)
  PROVE  /\ VerdictLabel(found, claims).total = Len(claims)
         /\ VerdictLabel(found, claims).fails + VerdictLabel(found, claims).unproven
              <= Len(claims)
PROOF
<1> DEFINE At(S) == {i \in DOMAIN found : found[i].status \in S}
           unsure == {"PARTIAL", "UNVERIFIED"}
<1>1. /\ Len(found) \in Nat /\ Len(claims) \in Nat /\ Len(found) <= Len(claims)
      /\ DOMAIN found = 1..Len(found)
  BY FindingsFit DEF Proper
<1>2. Len(found) + Lost(found, claims) = Len(claims) /\ Lost(found, claims) \in Nat
  BY <1>1 DEF Lost
<1>3. IsFiniteSet(DOMAIN found) /\ Cardinality(DOMAIN found) = Len(found)
  BY <1>1, Interval
<1>4. /\ IsFiniteSet(At({"FAIL"})) /\ IsFiniteSet(At(unsure))
      /\ At({"FAIL"}) \cup At(unsure) \in SUBSET DOMAIN found
      /\ At({"FAIL"}) \cap At(unsure) = {}
  <2>1. At({"FAIL"}) \in SUBSET DOMAIN found /\ At(unsure) \in SUBSET DOMAIN found
    OBVIOUS
  <2>2. At({"FAIL"}) \cap At(unsure) = {}
    OBVIOUS
  <2> QED BY <1>3, <2>1, <2>2, FS_Subset
<1>5. /\ Cardinality(At({"FAIL"})) \in Nat /\ Cardinality(At(unsure)) \in Nat
      /\ Cardinality(At({"FAIL"}) \cup At(unsure))
           = Cardinality(At({"FAIL"})) + Cardinality(At(unsure))
      /\ Cardinality(At({"FAIL"}) \cup At(unsure)) <= Len(found)
  <2>1. Cardinality(At({"FAIL"}) \cap At(unsure)) = 0
    BY <1>4, FS_EmptySet
  <2>2. Cardinality(At({"FAIL"})) \in Nat /\ Cardinality(At(unsure)) \in Nat
    BY <1>4, FS_CardinalityType
  <2>3. Cardinality(At({"FAIL"}) \cup At(unsure))
          = Cardinality(At({"FAIL"})) + Cardinality(At(unsure))
             - Cardinality(At({"FAIL"}) \cap At(unsure))
    BY <1>4, FS_Union
  <2>4. Cardinality(At({"FAIL"}) \cup At(unsure)) <= Len(found)
    BY <1>3, <1>4, FS_Subset
  <2> QED BY <2>1, <2>2, <2>3, <2>4
<1>6. /\ VerdictLabel(found, claims).total = Len(claims)
      /\ VerdictLabel(found, claims).fails = Cardinality(At({"FAIL"}))
      /\ VerdictLabel(found, claims).unproven
           = Cardinality(At(unsure)) + Lost(found, claims)
  BY <1>2 DEF VerdictLabel, Count
<1> HIDE DEF At
<1> QED BY <1>1, <1>2, <1>5, <1>6

-----------------------------------------------------------------------------
(* From claims to findings: each claim that has an answer is found once. *)

\* The parts merged one by one.
MergeRun(f, parts) ==
  /\ f \in [0..Len(parts) -> Seq(Finding)]
  /\ f[0] = <<>>
  /\ \A i \in 1..Len(parts) : f[i] = f[i - 1] \o parts[i]
  /\ MergeFindings(parts) = f[Len(parts)]

\* Merging parts is the same as appending one part after the other.
LEMMA MergeStepwise ==
  ASSUME NEW parts \in Seq(Seq(Finding))
  PROVE  \E f : MergeRun(f, parts)
<1> DEFINE n == Len(parts)
           S == Seq(Finding)
           step == [a \in S \X (1..n) |-> a[1] \o parts[a[2]]]
<1>1. n \in Nat /\ \A i \in 1..n : parts[i] \in S
  OBVIOUS
<1>2. step \in [S \X (1..n) -> S]
  BY <1>1
<1>3. <<>> \in S
  OBVIOUS
<1>4. \A a \in S, i \in 1..n : step[<<a, i>>] = a \o parts[i]
  OBVIOUS
<1>5. \A s \in S : <<>> \o s = s
  OBVIOUS
<1>6. n = 0 => MergeFindings(parts) = <<>>
  BY DEF MergeFindings, FlattenSeq
<1>7. PICK f \in [0..n -> S] :
        f[0] = <<>> /\ \A i \in 1..n : f[i] = step[<<f[i - 1], i>>]
  <2>1. StepsIn(step, S, n)
    BY <1>2 DEF StepsIn
  <2> HIDE DEF step, S, n
  <2>2. PICK h : Follows(h, <<>>, step, S, n)
    BY <1>1, <1>3, <2>1, Recursion
  <2> QED BY <2>2 DEF Follows
<1>8. \A i \in 1..n : f[i - 1] \in S /\ f[i] = f[i - 1] \o parts[i]
  <2> HIDE DEF step, S, n
  <2> SUFFICES ASSUME NEW i \in 1..n PROVE f[i - 1] \in S /\ f[i] = f[i - 1] \o parts[i]
    OBVIOUS
  <2>1. i - 1 \in 0..n
    BY <1>1
  <2> QED BY <1>4, <1>7, <2>1
<1>9. MergeFindings(parts) = f[n]
  <2>1. CASE n = 0
    BY <1>6, <1>7, <2>1
  <2>2. CASE n # 0
    <3> DEFINE g == [i \in 1..n |-> f[i]]
               Flat(h) == [i \in 1..n |-> IF i = 1 THEN parts[i] ELSE h[i - 1] \o parts[i]]
               F == CHOOSE h : h = Flat(h)
    <3>1. MergeFindings(parts) = F[n]
      BY <2>2 DEF MergeFindings, FlattenSeq
    <3> HIDE DEF step, S, n
    <3>2. f[1] = parts[1]
      <4>1. 1 \in 1..n /\ 1 - 1 = 0
        BY <1>1, <2>2
      <4>2. f[1] = f[0] \o parts[1] /\ parts[1] \in S
        BY <1>1, <1>8, <4>1
      <4> QED BY <4>2, <1>7, <1>5
    <3>3. g = Flat(g)
      <4>1. \A i \in 1..n : i # 1 => g[i - 1] = f[i - 1]
        BY <1>1
      <4>2. \A i \in 1..n : g[i] = IF i = 1 THEN parts[i] ELSE g[i - 1] \o parts[i]
        BY <1>8, <3>2, <4>1
      <4> QED BY <4>2
    <3>4. F = Flat(F)
      <4> HIDE DEF g, Flat
      <4> QED BY <3>3
    <3>5. \A i \in 1..n : F[i] = f[i]
      <4> DEFINE T == {i \in Nat : i + 1 \in 1..n => F[i + 1] = f[i + 1]}
      <4>1. \A i \in 1..n : F[i] = IF i = 1 THEN parts[i] ELSE F[i - 1] \o parts[i]
        <5> HIDE DEF F
        <5> QED BY <3>4
      <4> HIDE DEF F
      <4>2. 0 \in T
        BY <1>1, <2>2, <3>2, <4>1
      <4>3. ASSUME NEW i \in Nat, i \in T PROVE i + 1 \in T
        <5> SUFFICES ASSUME i + 2 \in 1..n PROVE F[i + 2] = f[i + 2]
          OBVIOUS
        <5>1. i + 1 \in 1..n /\ (i + 2) - 1 = i + 1 /\ i + 2 # 1
          BY <1>1
        <5>2. F[i + 1] = f[i + 1]
          BY <4>3, <5>1
        <5>3. F[i + 2] = F[i + 1] \o parts[i + 2]
          BY <4>1, <5>1
        <5>4. f[i + 2] = f[i + 1] \o parts[i + 2]
          BY <1>8, <5>1
        <5> QED BY <5>2, <5>3, <5>4
      <4>4. Nat \subseteq T
        <5> HIDE DEF T
        <5> QED BY <4>2, <4>3, Induction
      <4> SUFFICES ASSUME NEW i \in 1..n PROVE F[i] = f[i]
        OBVIOUS
      <4>5. i - 1 \in Nat /\ (i - 1) + 1 = i
        BY <1>1
      <4> QED BY <4>4, <4>5
    <3> HIDE DEF F
    <3> QED BY <2>2, <3>5, <3>1, <1>1
  <2> QED BY <2>1, <2>2
<1> QED BY <1>7, <1>8, <1>9 DEF MergeRun

\* What a shard may look like, and the answers to its claims put together one by one.
Answerable(shard, says, n) ==
  /\ n \in Nat /\ Len(shard) = n
  /\ \A i \in 1..n : shard[i].id \in Nat \ {0} /\ says[shard[i].id] \in Status \cup {"none"}

AnswersRun(f, shard, says, n) ==
  /\ f \in [0..n -> Seq(Finding)]
  /\ f[0] = <<>>
  /\ \A i \in 1..n :
       f[i] = LET c == shard[i].id
              IN  IF says[c] = "none" THEN f[i - 1]
                  ELSE Append(f[i - 1], [id |-> c, status |-> says[c]])
  /\ AgentAnswers(shard, says) = f[n]

\* An agent's answers can be put together claim by claim.
LEMMA AnswersStepwise ==
  ASSUME NEW shard, NEW says, NEW n, Answerable(shard, says, n)
  PROVE  \E f : AnswersRun(f, shard, says, n)
<1>1. /\ n \in Nat /\ Len(shard) = n
      /\ \A i \in 1..n : /\ shard[i].id \in Nat \ {0}
                         /\ says[shard[i].id] \in Status \cup {"none"}
  BY DEF Answerable
<1>2. n \in Nat
  BY <1>1
<1> DEFINE S == Seq(Finding)
           After(a, i) == LET c == shard[i].id
                          IN  IF says[c] = "none" THEN a
                              ELSE Append(a, [id |-> c, status |-> says[c]])
           step == [a \in S \X (1..n) |-> After(a[1], a[2])]
           Up(h) == [i \in 0..n |-> IF i = 0 THEN <<>> ELSE After(h[i - 1], i)]
           F == CHOOSE h : h = Up(h)
<1>3. <<>> \in S
  OBVIOUS
<1>4. ASSUME NEW a \in S, NEW i \in 1..n
      PROVE  After(a, i) \in S
  <2>1. says[shard[i].id] # "none" => [id |-> shard[i].id, status |-> says[shard[i].id]] \in Finding
    BY <1>1 DEF Finding
  <2> QED BY <2>1
<1>5. AgentAnswers(shard, says) = F[n]
  BY <1>1 DEF AgentAnswers
<1> HIDE DEF S, After
<1>6. \A a \in S, i \in 1..n : step[<<a, i>>] = After(a, i)
  OBVIOUS
<1>7. PICK f \in [0..n -> S] : f[0] = <<>> /\ \A i \in 1..n : f[i] = After(f[i - 1], i)
  <2>1. StepsIn(step, S, n)
    BY <1>4 DEF StepsIn
  <2> HIDE DEF step
  <2>2. PICK f : Follows(f, <<>>, step, S, n)
    BY <1>3, <1>2, <2>1, Recursion
  <2>3. \A i \in 1..n : i - 1 \in 0..n
    BY <1>2
  <2> QED BY <1>6, <2>2, <2>3 DEF Follows
<1>8. f = Up(f)
  BY <1>1, <1>7
<1>9. F = Up(F)
  <2> HIDE DEF Up
  <2> QED BY <1>8
<1>10. \A i \in 0..n : F[i] = f[i]
  <2> DEFINE T == {i \in Nat : i \in 0..n => F[i] = f[i]}
  <2>1. \A i \in 0..n : F[i] = IF i = 0 THEN <<>> ELSE After(F[i - 1], i)
    <3> HIDE DEF F
    <3> QED BY <1>9
  <2> HIDE DEF F
  <2>2. 0 \in T
    BY <1>7, <2>1
  <2>3. ASSUME NEW i \in Nat, i \in T PROVE i + 1 \in T
    <3> SUFFICES ASSUME i + 1 \in 0..n PROVE F[i + 1] = f[i + 1]
      OBVIOUS
    <3>1. i \in 0..n /\ i + 1 \in 1..n /\ (i + 1) - 1 = i /\ i + 1 # 0
      BY <1>2
    <3> QED BY <1>7, <2>1, <2>3, <3>1
  <2>4. Nat \subseteq T
    <3> HIDE DEF T
    <3> QED BY <2>2, <2>3, Induction
  <2> QED BY <2>4
<1> HIDE DEF F
<1>11. AgentAnswers(shard, says) = f[n]
  BY <1>2, <1>5, <1>10
<1> QED BY <1>7, <1>11 DEF AnswersRun, S, After

\* s has one finding for each claim in A, and no other.
Lists(s, says, A) ==
  /\ s \in Seq(Finding)
  /\ \A i \in DOMAIN s : s[i].id \in A /\ s[i].status = says[s[i].id]
  /\ \A i, j \in DOMAIN s : s[i].id = s[j].id => i = j
  /\ \A c \in A : \E i \in DOMAIN s : s[i].id = c

LEMMA ListsNothing == ASSUME NEW says PROVE Lists(<<>>, says, {})
  BY DEF Lists

\* Findings on two sets of claims, one after the other.
LEMMA ListsConcat ==
  ASSUME NEW says, NEW A, NEW B, A \cap B = {}, NEW s, NEW t,
         Lists(s, says, A), Lists(t, says, B)
  PROVE  Lists(s \o t, says, A \cup B)
<1> DEFINE m == Len(s)
           n == Len(t)
           u == s \o t
<1>1. m \in Nat /\ n \in Nat /\ DOMAIN s = 1..m /\ DOMAIN t = 1..n
  BY DEF Lists
<1>2. u \in Seq(Finding) /\ DOMAIN u = 1..(m + n)
  BY DEF Lists
<1>3. \A i \in 1..m : i \in DOMAIN u /\ u[i] = s[i]
  BY DEF Lists
<1>4. \A i \in 1..n : m + i \in DOMAIN u /\ u[m + i] = t[i]
  BY DEF Lists
<1>5. \A i \in DOMAIN u : i \in 1..m \/ (i > m /\ i - m \in 1..n /\ u[i] = t[i - m])
  <2> SUFFICES ASSUME NEW i \in DOMAIN u, i \notin 1..m
               PROVE  i > m /\ i - m \in 1..n /\ u[i] = t[i - m]
    OBVIOUS
  <2>1. i > m /\ i - m \in 1..n /\ m + (i - m) = i
    BY <1>1, <1>2
  <2> QED BY <1>4, <2>1
<1> HIDE DEF u, m, n
<1>6. \A i \in DOMAIN u : u[i].id \in A \cup B /\ u[i].status = says[u[i].id]
  BY <1>1, <1>3, <1>5 DEF Lists
<1>7. \A c \in A \cup B : \E i \in DOMAIN u : u[i].id = c
  BY <1>1, <1>3, <1>4 DEF Lists
<1>8. ASSUME NEW i \in DOMAIN u, NEW j \in DOMAIN u, u[i].id = u[j].id PROVE i = j
  <2>1. CASE i \in 1..m /\ j \in 1..m
    BY <1>1, <1>3, <1>8, <2>1 DEF Lists
  <2>2. CASE i \in 1..m /\ j \notin 1..m
    BY <1>1, <1>3, <1>5, <1>8, <2>2 DEF Lists
  <2>3. CASE i \notin 1..m /\ j \in 1..m
    BY <1>1, <1>3, <1>5, <1>8, <2>3 DEF Lists
  <2>4. CASE i \notin 1..m /\ j \notin 1..m
    <3>1. i - m = j - m
      BY <1>1, <1>5, <1>8, <2>4 DEF Lists
    <3> QED BY <1>1, <1>2, <3>1
  <2> QED BY <2>1, <2>2, <2>3, <2>4
<1>9. Lists(u, says, A \cup B)
  BY <1>2, <1>6, <1>7, <1>8 DEF Lists
<1> QED BY <1>9 DEF u

\* A finding on one more claim.
LEMMA ListsAppend ==
  ASSUME NEW says, NEW A, NEW s, Lists(s, says, A),
         NEW c \in Nat \ {0}, c \notin A, says[c] \in Status
  PROVE  Lists(Append(s, [id |-> c, status |-> says[c]]), says, A \cup {c})
<1> DEFINE e == [id |-> c, status |-> says[c]]
<1>1. e \in Finding
  BY DEF Finding
<1>2. Lists(<<e>>, says, {c})
  BY <1>1 DEF Lists
<1>3. Append(s, e) = s \o <<e>>
  BY <1>1 DEF Lists
<1> HIDE DEF e
<1>4. Lists(s \o <<e>>, says, A \cup {c})
  BY <1>2, ListsConcat
<1> QED BY <1>3, <1>4 DEF e

\* The claims from a to b that have an answer.
Answered(says, a, b) == {c \in a..b : says[c] # "none"}

\* A shard of n claims, the first of which is a + 1.
Run(shard, says, a, n) ==
  /\ a \in Nat /\ n \in Nat /\ Len(shard) = n
  /\ \A i \in 1..n : shard[i].id = a + i /\ says[a + i] \in Status \cup {"none"}

\* The answers to such a shard list those of its claims that have one.
LEMMA AnswersList ==
  ASSUME NEW shard, NEW says, NEW a, NEW n, Run(shard, says, a, n)
  PROVE  Lists(AgentAnswers(shard, says), says, Answered(says, a + 1, a + n))
<1>1. /\ a \in Nat /\ n \in Nat /\ Len(shard) = n
      /\ \A i \in 1..n : shard[i].id = a + i /\ says[a + i] \in Status \cup {"none"}
  BY DEF Run
<1>2. Answerable(shard, says, n)
  BY <1>1 DEF Answerable
<1>3. PICK f : AnswersRun(f, shard, says, n)
  BY <1>2, AnswersStepwise
<1> DEFINE T == {i \in Nat : i <= n => Lists(f[i], says, Answered(says, a + 1, a + i))}
<1>4. 0 \in T
  <2>1. Answered(says, a + 1, a + 0) = {}
    BY <1>1 DEF Answered
  <2>2. f[0] = <<>>
    BY <1>3 DEF AnswersRun
  <2> QED BY <2>1, <2>2, ListsNothing
<1>5. ASSUME NEW i \in Nat, i \in T PROVE i + 1 \in T
  <2> SUFFICES ASSUME i + 1 <= n
               PROVE  Lists(f[i + 1], says, Answered(says, a + 1, a + (i + 1)))
    OBVIOUS
  <2>1. i + 1 \in 1..n /\ (i + 1) - 1 = i /\ a + (i + 1) = (a + i) + 1 /\ i <= n
    BY <1>1
  <2>2. PICK c : c = a + (i + 1)
    OBVIOUS
  <2>3. shard[i + 1].id = c /\ c \in Nat \ {0} /\ says[c] \in Status \cup {"none"}
    BY <1>1, <2>1, <2>2
  <2>4. f[i + 1] = IF says[c] = "none" THEN f[i]
                   ELSE Append(f[i], [id |-> c, status |-> says[c]])
    BY <1>3, <2>1, <2>3 DEF AnswersRun
  <2> DEFINE A == Answered(says, a + 1, a + i)
  <2>5. Lists(f[i], says, A)
    BY <1>5, <2>1
  <2>6. c \notin A
    BY <1>1, <2>2 DEF Answered
  <2>7. (a + 1)..c = ((a + 1)..(a + i)) \cup {c}
    BY <1>1, <2>2
  <2>8. CASE says[c] = "none"
    <3>1. Answered(says, a + 1, c) = A
      BY <2>7, <2>8 DEF Answered
    <3> QED BY <2>2, <2>4, <2>5, <2>8, <3>1
  <2>9. CASE says[c] # "none"
    <3>1. Answered(says, a + 1, c) = A \cup {c}
      BY <2>7, <2>9 DEF Answered
    <3>2. says[c] \in Status
      BY <2>3, <2>9
    <3> HIDE DEF A
    <3>3. Lists(Append(f[i], [id |-> c, status |-> says[c]]), says, A \cup {c})
      BY <2>3, <2>5, <2>6, <3>2, ListsAppend
    <3> QED BY <2>2, <2>4, <2>9, <3>1, <3>3
  <2> QED BY <2>8, <2>9
<1>6. n \in T
  <2> HIDE DEF T
  <2> QED BY <1>1, <1>4, <1>5, Induction
<1> QED BY <1>1, <1>3, <1>6 DEF AnswersRun

\* K shards of n claims: every shard begins before n, the last one ends at n.
LEMMA Dealing ==
  ASSUME NEW n \in Nat, NEW K, K = (n + ShardSize - 1) \div ShardSize
  PROVE  /\ K \in Nat
         /\ n <= K * ShardSize
         /\ \A k \in 1..K : /\ (k - 1) * ShardSize \in Nat
                            /\ k * ShardSize = (k - 1) * ShardSize + ShardSize
                            /\ (k - 1) * ShardSize < n
<1>1. ShardSize \in Nat /\ ShardSize > 0
  BY ShardAssumption
<1>2. K \in Nat /\ n <= K * ShardSize /\ K * ShardSize <= n + ShardSize - 1
  BY <1>1
<1>3. ASSUME NEW k \in 1..K
      PROVE  /\ (k - 1) * ShardSize \in Nat
             /\ k * ShardSize = (k - 1) * ShardSize + ShardSize
             /\ (k - 1) * ShardSize < n
  <2>1. k \in Nat /\ k - 1 \in Nat
    BY <1>2
  <2>2. (k - 1) * ShardSize \in Nat /\ k * ShardSize = (k - 1) * ShardSize + ShardSize
    BY <1>1, <2>1
  <2>3. k * ShardSize <= K * ShardSize
    BY <1>1, <1>2, <2>1
  <2> QED BY <1>1, <1>2, <2>2, <2>3
<1> QED BY <1>2, <1>3

\* Where the k-th shard of n claims ends.
EndOf(k, n) == IF k * ShardSize < n THEN k * ShardSize ELSE n

\* The claims of a review that is to be summed up.
LEMMA InputType ==
  ASSUME NEW in \in Input
  PROVE  /\ in.source \in Source
         /\ in.says \in Seq(Status \cup {"none"})
         /\ DOMAIN in.says = 1..Len(in.says)
         /\ ClaimsOf(in) \in Seq(Claim)
         /\ Len(ClaimsOf(in)) = Len(in.says)
         /\ \A c \in 1..Len(in.says) : ClaimsOf(in)[c] = [id |-> c, source |-> in.source]
<1>1. in.source \in Source /\ in.says \in UNION {[1..m -> Status \cup {"none"}] : m \in 0..MaxClaims}
  BY DEF Input
<1>2. PICK m \in 0..MaxClaims : in.says \in [1..m -> Status \cup {"none"}]
  BY <1>1
<1>3. m \in Nat
  BY ShardAssumption
<1>4. in.says \in Seq(Status \cup {"none"}) /\ Len(in.says) = m
  BY <1>2, <1>3
<1>5. ASSUME NEW c \in 1..m PROVE [id |-> c, source |-> in.source] \in Claim
  BY <1>1, <1>3 DEF Claim
<1>6. ClaimsOf(in) = [c \in 1..m |-> [id |-> c, source |-> in.source]]
  BY <1>2 DEF ClaimsOf
<1>7. ClaimsOf(in) \in Seq(Claim) /\ Len(ClaimsOf(in)) = m
  BY <1>3, <1>5, <1>6
<1> QED BY <1>1, <1>2, <1>4, <1>6, <1>7

\* The k-th shard is a run of claims, from one multiple of ShardSize to the next or to n.
LEMMA ShardRun ==
  ASSUME NEW in \in Input, NEW n, n = Len(in.says), NEW k \in DOMAIN Shards(ClaimsOf(in))
  PROVE  Run(Shards(ClaimsOf(in))[k], in.says, (k - 1) * ShardSize,
             EndOf(k, n) - (k - 1) * ShardSize)
<1> DEFINE claims == ClaimsOf(in)
           K == (n + ShardSize - 1) \div ShardSize
           a == (k - 1) * ShardSize
           b == EndOf(k, n)
<1>1. n \in Nat /\ Len(claims) = n /\ claims \in Seq(Claim)
      /\ \A c \in 1..n : claims[c] = [id |-> c, source |-> in.source]
  BY InputType
<1>2. \A c \in 1..n : claims[c].id = c
  <2> HIDE DEF claims
  <2> SUFFICES ASSUME NEW c \in 1..n PROVE claims[c].id = c
    OBVIOUS
  <2>1. claims[c] = [id |-> c, source |-> in.source]
    BY <1>1
  <2> QED BY <2>1
<1>3. k \in 1..K /\ Shards(claims)[k] = SubSeq(claims, a + 1, b)
  BY <1>1 DEF Shards, EndOf
<1>4. a \in Nat /\ b \in Nat /\ a < b /\ b <= n
  <2> HIDE DEF claims, K
  <2>1. ShardSize \in Nat /\ ShardSize > 0
    BY ShardAssumption
  <2>2. a \in Nat /\ k * ShardSize = a + ShardSize /\ a < n
    BY <1>1, <1>3, Dealing DEF K
  <2> HIDE DEF a
  <2> QED BY <1>1, <2>1, <2>2 DEF EndOf
<1>5. ASSUME NEW i \in 1..(b - a)
      PROVE  /\ a + i \in 1..n
             /\ SubSeq(claims, a + 1, b)[i] = claims[a + i]
  <2> HIDE DEF a, b, claims
  <2>1. a + i \in 1..n /\ (a + 1) + i - 1 = a + i /\ i \in 1..(b - (a + 1) + 1)
    BY <1>1, <1>4
  <2> QED BY <1>1, <1>4, <2>1
<1>6. Len(SubSeq(claims, a + 1, b)) = b - a
  <2> HIDE DEF a, b, claims
  <2> QED BY <1>1, <1>4
<1>7. \A c \in 1..n : in.says[c] \in Status \cup {"none"}
  BY InputType
<1> HIDE DEF a, b, claims
<1>8. b - a \in Nat
  BY <1>4
<1>9. ASSUME NEW i \in 1..(b - a)
      PROVE  Shards(claims)[k][i].id = a + i /\ in.says[a + i] \in Status \cup {"none"}
  <2>1. a + i \in 1..n /\ Shards(claims)[k][i] = claims[a + i]
    BY <1>3, <1>5
  <2>2. claims[a + i].id = a + i
    BY <1>2, <2>1
  <2> QED BY <1>7, <2>1, <2>2
<1>10. Len(Shards(claims)[k]) = b - a
  BY <1>3, <1>6
<1>11. Run(Shards(claims)[k], in.says, a, b - a)
  BY <1>4, <1>8, <1>9, <1>10 DEF Run
<1> QED BY <1>11 DEF a, b, claims

\* What is found lists the claims that have an answer, each of them once.
LEMMA FindingsList ==
  ASSUME NEW in \in Input, NEW n, n = Len(in.says)
  PROVE  Lists(Findings(ClaimsOf(in), in.says), in.says, Answered(in.says, 1, n))
<1> DEFINE shards == Shards(ClaimsOf(in))
           says == in.says
           K == (n + ShardSize - 1) \div ShardSize
           parts == [k \in DOMAIN shards |-> AgentAnswers(shards[k], says)]
<1>1. n \in Nat /\ DOMAIN shards = 1..K
  BY InputType DEF Shards
<1>2. K \in Nat /\ n <= K * ShardSize
      /\ \A k \in 1..K : /\ (k - 1) * ShardSize \in Nat
                         /\ k * ShardSize = (k - 1) * ShardSize + ShardSize
                         /\ (k - 1) * ShardSize < n
  BY <1>1, Dealing
<1>3. Findings(ClaimsOf(in), says) = MergeFindings(parts)
  BY DEF Findings
<1> HIDE DEF shards, says, K
<1>4. ASSUME NEW k \in 1..K
      PROVE  Lists(parts[k], says, Answered(says, (k - 1) * ShardSize + 1, EndOf(k, n)))
  <2> DEFINE a == (k - 1) * ShardSize
  <2>1. Run(shards[k], says, a, EndOf(k, n) - a)
    BY <1>1, ShardRun DEF shards, says
  <2>2. parts[k] = AgentAnswers(shards[k], says)
    BY <1>1
  <2>3. a \in Nat /\ EndOf(k, n) - a \in Nat
    BY <2>1 DEF Run
  <2>4. EndOf(k, n) \in Int
    <3>1. k * ShardSize \in Nat
      BY <1>2, <2>3, ShardAssumption
    <3> QED BY <1>1, <3>1 DEF EndOf
  <2> HIDE DEF a
  <2>5. a + (EndOf(k, n) - a) = EndOf(k, n)
    BY <2>3, <2>4
  <2>6. Lists(AgentAnswers(shards[k], says), says, Answered(says, a + 1, a + (EndOf(k, n) - a)))
    BY <2>1, AnswersList
  <2> QED BY <2>2, <2>5, <2>6 DEF a
<1>5. parts \in Seq(Seq(Finding)) /\ Len(parts) = K
  <2>1. \A k \in 1..K : parts[k] \in Seq(Finding)
    BY <1>4 DEF Lists
  <2>2. DOMAIN parts = 1..K
    BY <1>1
  <2>3. parts = [k \in 1..K |-> parts[k]]
    BY <1>1
  <2> HIDE DEF parts
  <2> QED BY <1>2, <2>1, <2>3
<1>6. PICK f : MergeRun(f, parts)
  <2> HIDE DEF parts
  <2> QED BY <1>5, MergeStepwise
<1> HIDE DEF parts
<1> DEFINE T == {k \in Nat : k <= K => Lists(f[k], says, Answered(says, 1, EndOf(k, n)))}
<1>7. 0 \in T
  <2>1. Answered(says, 1, EndOf(0, n)) = {}
    <3>1. EndOf(0, n) = 0
      BY <1>1, ShardAssumption DEF EndOf
    <3> QED BY <3>1 DEF Answered
  <2>2. f[0] = <<>>
    BY <1>6 DEF MergeRun
  <2> QED BY <2>1, <2>2, ListsNothing
<1>8. ASSUME NEW k \in Nat, k \in T PROVE k + 1 \in T
  <2> SUFFICES ASSUME k + 1 <= K
               PROVE  Lists(f[k + 1], says, Answered(says, 1, EndOf(k + 1, n)))
    OBVIOUS
  <2>1. k + 1 \in 1..K /\ (k + 1) - 1 = k /\ k <= K
    BY <1>2
  <2>2. f[k + 1] = f[k] \o parts[k + 1]
    BY <1>5, <1>6, <2>1 DEF MergeRun
  <2> DEFINE a == k * ShardSize
             b == EndOf(k + 1, n)
  <2>3. a \in Nat /\ a < n /\ EndOf(k, n) = a
    BY <1>2, <2>1 DEF EndOf
  <2>4. b \in Nat /\ a <= b
    <3>1. (k + 1) * ShardSize = a + ShardSize /\ ShardSize \in Nat
      BY <1>2, <2>1, ShardAssumption
    <3> HIDE DEF a
    <3> QED BY <1>1, <2>3, <3>1 DEF EndOf
  <2>5. Lists(f[k], says, Answered(says, 1, a))
    BY <1>8, <2>1, <2>3
  <2>6. Lists(parts[k + 1], says, Answered(says, a + 1, b))
    BY <1>4, <2>1
  <2> HIDE DEF a, b
  <2>7. /\ Answered(says, 1, a) \cap Answered(says, a + 1, b) = {}
        /\ Answered(says, 1, a) \cup Answered(says, a + 1, b) = Answered(says, 1, b)
    <3>1. (1..a) \cap ((a + 1)..b) = {} /\ (1..a) \cup ((a + 1)..b) = 1..b
      BY <2>3, <2>4
    <3> QED BY <3>1 DEF Answered
  <2>8. Lists(f[k] \o parts[k + 1], says, Answered(says, 1, a) \cup Answered(says, a + 1, b))
    BY <2>5, <2>6, <2>7, ListsConcat
  <2> QED BY <2>2, <2>7, <2>8 DEF b
<1>9. K \in T
  <2> HIDE DEF T
  <2> QED BY <1>2, <1>7, <1>8, Induction
<1>10. EndOf(K, n) = n
  BY <1>1, <1>2, ShardAssumption DEF EndOf
<1>11. MergeFindings(parts) = f[K]
  BY <1>5, <1>6 DEF MergeRun
<1> QED BY <1>2, <1>3, <1>9, <1>10, <1>11 DEF says

-----------------------------------------------------------------------------
(* From findings to the headline. *)

Found(s, S) == {i \in DOMAIN s : s[i].status \in S}

Claims(A, says, S) == {c \in A : says[c] \in S}

LEMMA ListsCount ==
  ASSUME NEW says, NEW A, IsFiniteSet(A), NEW s, Lists(s, says, A), NEW S
  PROVE  /\ Cardinality(Found(s, S)) = Cardinality(Claims(A, says, S))
         /\ (\E i \in DOMAIN s : s[i].status \in S) <=> (\E c \in A : says[c] \in S)
<1> DEFINE I == {i \in DOMAIN s : s[i].status \in S}
           C == {c \in A : says[c] \in S}
           g == [i \in I |-> s[i].id]
<1>1. \A i \in DOMAIN s : s[i].id \in A /\ s[i].status = says[s[i].id]
  BY DEF Lists
<1>2. \A c \in A : \E i \in DOMAIN s : s[i].id = c
  BY DEF Lists
<1>3. \A i, j \in DOMAIN s : s[i].id = s[j].id => i = j
  BY DEF Lists
<1>4. g \in Injection(I, C)
  BY <1>1, <1>3 DEF Injection, IsInjective
<1>5. \A c \in C : \E i \in I : g[i] = c
  BY <1>1, <1>2
<1>6. g \in Surjection(I, C)
  BY <1>4, <1>5 DEF Injection, Surjection
<1>7. IsFiniteSet(C)
  <2>1. C \in SUBSET A
    OBVIOUS
  <2> HIDE DEF C
  <2> QED BY <2>1, FS_Subset
<1>8. (\E i \in DOMAIN s : s[i].status \in S) <=> (\E c \in A : says[c] \in S)
  BY <1>1, <1>2
<1> HIDE DEF I, C, g
<1>9. Cardinality(I) = Cardinality(C)
  BY <1>4, <1>6, <1>7, FS_Injection
<1> QED BY <1>8, <1>9 DEF I, C, Found, Claims

\* Counted over findings, or over the claims themselves.
SummedUp(in, n, claims, found) ==
  LET Silent == Claims(1..n, in.says, {"none"})
  IN  /\ n \in Nat /\ Len(found) \in Nat /\ found \in Seq(Finding)
      /\ Cardinality(Silent) \in Nat
      /\ Lost(found, claims) = Cardinality(Silent)
      /\ Lost(found, claims) > 0 <=> \E c \in 1..n : in.says[c] = "none"
      /\ Len(found) + Lost(found, claims) = n
      /\ Len(found) = 0 <=> \A c \in 1..n : in.says[c] = "none"
      /\ \A S : "none" \notin S =>
           /\ Count(found, S) = Cardinality(Claims(1..n, in.says, S))
           /\ Some(found, S) <=> \E c \in 1..n : in.says[c] \in S

LEMMA SumUp ==
  ASSUME NEW in \in Input, NEW n, n = Len(in.says),
         NEW claims, claims = ClaimsOf(in), NEW found, found = Findings(claims, in.says)
  PROVE  SummedUp(in, n, claims, found)
<1> DEFINE says == in.says
           A == Answered(says, 1, n)
           Silent == Claims(1..n, says, {"none"})
<1>1. n \in Nat /\ Len(claims) = n /\ \A c \in 1..n : says[c] \in Status \cup {"none"}
  BY InputType
<1>2. Lists(found, says, A)
  BY FindingsList
<1> HIDE DEF says
<1>3. A \in SUBSET (1..n) /\ Silent \in SUBSET (1..n) /\ A \cap Silent = {} /\ A \cup Silent = 1..n
  BY DEF Answered, Claims
<1>4. IsFiniteSet(A) /\ IsFiniteSet(Silent)
  <2>1. IsFiniteSet(1..n)
    BY <1>1, Interval
  <2> HIDE DEF A, Silent
  <2> QED BY <1>3, <2>1, FS_Subset
<1>5. found \in Seq(Finding) /\ Len(found) \in Nat /\ DOMAIN found = 1..Len(found)
  BY <1>2 DEF Lists
<1>6. Len(found) = Cardinality(A)
  <2>1. \A i \in DOMAIN found : found[i] \in Finding
    BY <1>5
  <2>2. Found(found, Status) = 1..Len(found)
    BY <1>5, <2>1 DEF Finding, Found
  <2>3. Claims(A, says, Status) = A
    BY <1>1 DEF Answered, Claims
  <2>4. Cardinality(1..Len(found)) = Len(found)
    BY <1>5, Interval
  <2>5. Cardinality(Found(found, Status)) = Cardinality(Claims(A, says, Status))
    <3> HIDE DEF A
    <3> QED BY <1>2, <1>4, ListsCount
  <2> QED BY <2>2, <2>3, <2>4, <2>5
<1>7. Cardinality(A) \in Nat /\ Cardinality(Silent) \in Nat
      /\ Cardinality(A) + Cardinality(Silent) = n
  <2>1. Cardinality(1..n) = n
    BY <1>1, Interval
  <2> HIDE DEF A, Silent
  <2>2. /\ Cardinality(A) \in Nat /\ Cardinality(Silent) \in Nat
        /\ Cardinality(A \cup Silent) = Cardinality(A) + Cardinality(Silent)
    BY <1>3, <1>4, Disjoint
  <2> QED BY <1>3, <2>1, <2>2
<1>8. Lost(found, claims) = Cardinality(Silent) /\ Len(found) + Lost(found, claims) = n
  BY <1>1, <1>6, <1>7 DEF Lost
<1>9. Cardinality(Silent) > 0 <=> \E c \in 1..n : says[c] = "none"
  <2>1. Cardinality(Silent) = 0 <=> Silent = {}
    BY <1>4, FS_EmptySet
  <2> QED BY <1>7, <2>1 DEF Claims
<1>10. Len(found) = 0 <=> \A c \in 1..n : says[c] = "none"
  <2>1. Cardinality(A) = 0 <=> A = {}
    BY <1>4, FS_EmptySet
  <2> QED BY <1>6, <2>1 DEF Answered
<1>11. ASSUME NEW S, "none" \notin S
      PROVE  /\ Count(found, S) = Cardinality(Claims(1..n, says, S))
             /\ Some(found, S) <=> \E c \in 1..n : says[c] \in S
  <2>1. Claims(A, says, S) = Claims(1..n, says, S)
    BY <1>11 DEF Answered, Claims
  <2>2. (\E c \in A : says[c] \in S) <=> (\E c \in 1..n : says[c] \in S)
    BY <1>11 DEF Answered
  <2>3. /\ Cardinality(Found(found, S)) = Cardinality(Claims(A, says, S))
        /\ (\E i \in DOMAIN found : found[i].status \in S) <=> (\E c \in A : says[c] \in S)
    <3> HIDE DEF A
    <3> QED BY <1>2, <1>4, ListsCount
  <2> QED BY <2>1, <2>2, <2>3 DEF Count, Some, Found
<1> QED BY <1>1, <1>5, <1>7, <1>8, <1>9, <1>10, <1>11 DEF SummedUp, says

\* However the claims are split and whichever agents die or leave claims out, verdict
\* and numbers are those a look at every single claim would give.
THEOREM VerdictsDeserved == \A in \in Input : VerdictDeserved(in)
<1> SUFFICES ASSUME NEW in \in Input PROVE VerdictDeserved(in)
  OBVIOUS
<1> DEFINE n == Len(in.says)
           claims == ClaimsOf(in)
           found == Findings(claims, in.says)
           Silent == Claims(1..n, in.says, {"none"})
           unsure == {"PARTIAL", "UNVERIFIED"}
           Said(S) == \E c \in 1..n : in.says[c] \in S
           HowMany(S) == Cardinality(Claims(1..n, in.says, S))
<1>1. /\ in.source \in {"stated", "inferred"}
      /\ DOMAIN in.says = 1..n
      /\ Len(claims) = n /\ claims \in Seq(Claim)
      /\ \A c \in 1..n : in.says[c] \in Status \cup {"none"}
  BY InputType DEF Source
<1>2. \A c \in 1..n : claims[c].source = in.source
  <2> HIDE DEF n, claims
  <2> SUFFICES ASSUME NEW c \in 1..n PROVE claims[c].source = in.source
    OBVIOUS
  <2>1. claims[c] = [id |-> c, source |-> in.source]
    BY InputType DEF n, claims
  <2> QED BY <2>1
<1>3. /\ n \in Nat /\ found \in Seq(Finding) /\ Len(found) \in Nat
      /\ Cardinality(Silent) \in Nat
      /\ Lost(found, claims) = Cardinality(Silent)
      /\ Lost(found, claims) > 0 <=> \E c \in 1..n : in.says[c] = "none"
      /\ Len(found) + Lost(found, claims) = n
      /\ Len(found) = 0 <=> \A c \in 1..n : in.says[c] = "none"
      /\ \A S : "none" \notin S => Count(found, S) = HowMany(S) /\ (Some(found, S) <=> Said(S))
  <2>1. n = Len(in.says) /\ claims = ClaimsOf(in) /\ found = Findings(claims, in.says)
    OBVIOUS
  <2> HIDE DEF n, claims, found
  <2>2. SummedUp(in, n, claims, found)
    BY <2>1, SumUp
  <2> QED BY <2>2 DEF SummedUp
<1>4. found = <<>> <=> ~Said(Status)
  <2>1. found = <<>> <=> Len(found) = 0
    BY <1>3
  <2> QED BY <1>1, <1>3, <2>1 DEF Status
<1>5. Said(Status) => (AllInferred(claims) <=> in.source = "inferred")
  BY <1>1, <1>2 DEF AllInferred
<1> HIDE DEF n, claims, found, Silent
<1>6. Said({"FAIL"}) => Said(Status)
  BY DEF Status
<1>7. Said({"none", "PARTIAL", "UNVERIFIED"}) <=> Said(unsure) \/ \E c \in 1..n : in.says[c] = "none"
  OBVIOUS
<1>8. (Some(found, {"FAIL"}) <=> Said({"FAIL"})) /\ (Some(found, unsure) <=> Said(unsure))
  BY <1>3
<1>9. Deserved(in) =
        CASE ~Said(Status) -> "NO CLAIMS"
          [] Said(Status) /\ in.source = "inferred" ->
               IF Said({"FAIL"}) THEN "INCONSISTENT" ELSE "NO DESCRIPTION"
          [] Said({"FAIL"}) /\ in.source = "stated" -> "CONTRADICTED"
          [] OTHER -> IF Said({"none", "PARTIAL", "UNVERIFIED"}) THEN "PARTIAL" ELSE "ACCURATE"
  BY <1>1 DEF Deserved
<1>10. OverallVerdict(found, claims) = Deserved(in)
  <2>1. CASE ~Said(Status)
    <3> HIDE DEF Answered
    <3>1. OverallVerdict(found, claims) = "NO CLAIMS"
      BY <1>4, <2>1 DEF OverallVerdict
    <3>2. Deserved(in) = "NO CLAIMS"
      BY <1>6, <1>9, <2>1
    <3> QED BY <3>1, <3>2
  <2>2. CASE Said(Status) /\ in.source = "inferred"
    <3> HIDE DEF Answered
    <3>1. CASE Said({"FAIL"})
      BY <1>4, <1>5, <1>8, <1>9, <2>2, <3>1 DEF OverallVerdict
    <3>2. CASE ~Said({"FAIL"})
      BY <1>4, <1>5, <1>8, <1>9, <2>2, <3>2 DEF OverallVerdict
    <3> QED BY <3>1, <3>2
  <2>3. CASE Said(Status) /\ in.source = "stated" /\ Said({"FAIL"})
    <3> HIDE DEF Answered
    <3>1. found # <<>> /\ ~AllInferred(claims) /\ Some(found, {"FAIL"})
      BY <1>4, <1>5, <1>8, <2>3
    <3>2. OverallVerdict(found, claims) = "CONTRADICTED"
      BY <3>1 DEF OverallVerdict
    <3>3. Deserved(in) = "CONTRADICTED"
      BY <1>9, <2>3
    <3> QED BY <3>2, <3>3
  <2>4. CASE Said(Status) /\ in.source = "stated" /\ ~Said({"FAIL"})
    <3> HIDE DEF Answered
    <3>1. OverallVerdict(found, claims)
            = IF Said({"none", "PARTIAL", "UNVERIFIED"}) THEN "PARTIAL" ELSE "ACCURATE"
      BY <1>3, <1>4, <1>5, <1>7, <1>8, <2>4 DEF OverallVerdict
    <3>2. Deserved(in) = IF Said({"none", "PARTIAL", "UNVERIFIED"}) THEN "PARTIAL" ELSE "ACCURATE"
      BY <1>9, <2>4
    <3> QED BY <3>1, <3>2
  <2> HIDE DEF Answered
  <2> QED BY <1>1, <2>1, <2>2, <2>3, <2>4
<1>11. Count(found, unsure) + Lost(found, claims) = HowMany({"none", "PARTIAL", "UNVERIFIED"})
  <2> DEFINE U == Claims(1..n, in.says, unsure)
  <2>1. /\ U \in SUBSET (1..n) /\ Silent \in SUBSET (1..n) /\ U \cap Silent = {}
        /\ U \cup Silent = Claims(1..n, in.says, {"none", "PARTIAL", "UNVERIFIED"})
    BY DEF Silent, Claims
  <2>2. Count(found, unsure) = Cardinality(U)
    BY <1>3
  <2>3. IsFiniteSet(1..n)
    BY <1>3, Interval
  <2> HIDE DEF U
  <2>4. IsFiniteSet(U) /\ IsFiniteSet(Silent)
    BY <2>1, <2>3, FS_Subset
  <2>5. Cardinality(U \cup Silent) = Cardinality(U) + Cardinality(Silent)
    BY <2>1, <2>4, Disjoint
  <2> QED BY <1>3, <2>1, <2>2, <2>5
<1>12. VerdictLabel(found, claims) =
         [total    |-> n,
          fails    |-> HowMany({"FAIL"}),
          unproven |-> HowMany({"none", "PARTIAL", "UNVERIFIED"})]
  <2>1. Count(found, {"FAIL"}) = HowMany({"FAIL"})
    BY <1>3
  <2> HIDE DEF HowMany
  <2> QED BY <1>3, <1>11, <2>1 DEF VerdictLabel
<1> QED BY <1>1, <1>10, <1>12 DEF VerdictDeserved, found, claims, n, Claims
=============================================================================

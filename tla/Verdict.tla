------------------------------- MODULE Verdict -------------------------------
(***************************************************************************)
(* The headline of a review: how the claims are dealt out to agents        *)
(* (plan_tasks), their answers put together (merge_findings), and a verdict *)
(* on the description made of them (_overall_verdict, verdict_label).      *)
(* Pure algorithms; which agents die or leave claims out is an argument.   *)
(***************************************************************************)
EXTENDS Naturals, Sequences, FiniteSets, SequencesExt

CONSTANTS
  ShardSize,     \* CLAIMS_SHARD_SIZE
  MaxClaims      \* bound: claims of one review

ASSUME ShardAssumption == ShardSize \in Nat \ {0} /\ MaxClaims \in Nat

Status == {"PASS", "FAIL", "PARTIAL", "UNVERIFIED"}

Source == {"stated", "inferred"}

\* A claim is its place in claims.json; a finding is one answer about a claim.
Claim == [id : Nat \ {0}, source : Source]

Finding == [id : Nat \ {0}, status : Status]

-----------------------------------------------------------------------------
(* From claims to findings. *)

\* plan_tasks: claims[i : i + CLAIMS_SHARD_SIZE], the last slice being shorter.
Shards(claims) ==
  [k \in 1..(Len(claims) + ShardSize - 1) \div ShardSize |->
     SubSeq(claims, (k - 1) * ShardSize + 1,
            IF k * ShardSize < Len(claims) THEN k * ShardSize ELSE Len(claims))]

\* What a shard's agent writes, given what it has to say about each claim; "none"
\* about all of them stands for an agent that has failed.
AgentAnswers(shard, says) ==
  LET upTo[i \in 0..Len(shard)] ==
        IF i = 0 THEN <<>>
        ELSE LET c == shard[i].id
             IN  IF says[c] = "none" THEN upTo[i - 1]
                 ELSE Append(upTo[i - 1], [id |-> c, status |-> says[c]])
  IN  upTo[Len(shard)]

\* merge_findings, for the axis of the claims.
MergeFindings(parts) == FlattenSeq(parts)

Findings(claims, says) ==
  LET shards == Shards(claims)
  IN  MergeFindings([k \in DOMAIN shards |-> AgentAnswers(shards[k], says)])

-----------------------------------------------------------------------------
(* From findings to the headline. *)

Some(found, S) == \E i \in DOMAIN found : found[i].status \in S

Count(found, S) == Cardinality({i \in DOMAIN found : found[i].status \in S})

AllInferred(claims) ==
  claims # <<>> /\ \A i \in DOMAIN claims : claims[i].source = "inferred"

\* Faulty: only the survivors count.
NoneLost(found, claims) == 0

\* missing: claims whose agent has died.
Lost(found, claims) == IF Len(claims) > Len(found) THEN Len(claims) - Len(found) ELSE 0

OverallVerdict(found, claims) ==
  IF found = <<>> THEN "NO CLAIMS"
  ELSE IF AllInferred(claims)
       THEN IF Some(found, {"FAIL"}) THEN "INCONSISTENT" ELSE "NO DESCRIPTION"
  ELSE IF Some(found, {"FAIL"}) THEN "CONTRADICTED"
  ELSE IF Lost(found, claims) > 0 \/ Some(found, {"PARTIAL", "UNVERIFIED"}) THEN "PARTIAL"
  ELSE "ACCURATE"

\* verdict_label: the numbers the reader is shown.
VerdictLabel(found, claims) ==
  [total    |-> Len(found) + Lost(found, claims),
   fails    |-> Count(found, {"FAIL"}),
   unproven |-> Count(found, {"PARTIAL", "UNVERIFIED"}) + Lost(found, claims)]

-----------------------------------------------------------------------------
(* Properties. *)

\* A review to be summed up: where its claims come from (extract_claims: all of them
\* from the description, or all inferred), and what the agents say about each.
Input == [source : Source, says : UNION {[1..n -> Status \cup {"none"}] : n \in 0..MaxClaims}]

ClaimsOf(in) == [i \in DOMAIN in.says |-> [id |-> i, source |-> in.source]]

\* What the headline should be, claim by claim.
Deserved(in) ==
  LET Said(S) == \E i \in DOMAIN in.says : in.says[i] \in S
  IN  CASE ~Said(Status)                               -> "NO CLAIMS"
        [] Said(Status) /\ in.source = "inferred"      ->
             IF Said({"FAIL"}) THEN "INCONSISTENT" ELSE "NO DESCRIPTION"
        [] Said({"FAIL"}) /\ in.source = "stated"      -> "CONTRADICTED"
        [] OTHER -> IF Said({"none", "PARTIAL", "UNVERIFIED"}) THEN "PARTIAL" ELSE "ACCURATE"

\* synthesize.py: "a review that lost a third of its claims and passed the rest still
\* reported ACCURATE, which is the one thing the verdict must never do".  However the
\* claims are split, and whichever agents die or leave claims out, verdict and numbers
\* are those a look at every single claim would give.  Agents are assumed to answer
\* their own claims only, and once.
VerdictDeserved(in) ==
  LET found    == Findings(ClaimsOf(in), in.says)
      HowMany(S) == Cardinality({i \in DOMAIN in.says : in.says[i] \in S})
  IN  /\ OverallVerdict(found, ClaimsOf(in)) = Deserved(in)
      /\ VerdictLabel(found, ClaimsOf(in)) =
           [total    |-> Len(in.says),
            fails    |-> HowMany({"FAIL"}),
            unproven |-> HowMany({"none", "PARTIAL", "UNVERIFIED"})]
=============================================================================

------------------------------- MODULE Verify -------------------------------
(***************************************************************************)
(* Phase 4 of a review (src/verify.py): one agent per shard of claims, one *)
(* for the docs, one for the impact, all at once in the session's          *)
(* workspace.  Each writes a part file or answers inline; the parts become *)
(* the findings.  The Claude backend (src/claude_cli.py) retries inside    *)
(* the agent, on a budget.                                                 *)
(*                                                                         *)
(* A review process may be killed while its agents run; an agent that is   *)
(* not hit, or is slow to end, outlives it and may still write its file,   *)
(* in the workspace that the next round of the review uses.                *)
(***************************************************************************)
EXTENDS Naturals, FiniteSets

CONSTANTS
  ClaimTask,     \* the shards of the claims
  OtherTask,     \* docs and impact
  Checked,       \* tasks whose items _validate_findings looks at
  Missing,       \* a part file that does not exist
  Retries,       \* DEFAULT_RETRIES
  Budget,        \* DEFAULT_MAX_BUDGET_USD, in some unit
  Overrun,       \* what the CLI may spend beyond the budget it was told
  MaxRound       \* bound: rounds of review in one workspace

Task == ClaimTask \cup OtherTask

ASSUME TaskAssumption == ClaimTask \cap OtherTask = {} /\ Checked \subseteq Task
ASSUME RetryAssumption == Retries \in Nat \ {0} /\ Budget \in Nat \ {0} /\ MaxRound \in Nat
ASSUME OverrunAssumption == Overrun \in Nat

\* What is in a part file: not what read_part accepts; of the right shape, but
\* with a status nobody knows; or acceptable.  A list that leaves items out, or has
\* none at all, is as acceptable as a full one; what the reader is told then is the
\* matter of module Verdict.
Grade == {"malformed", "unknown_status", "acceptable"}

\* A part file, with the round and the attempt that wrote it.
Part == [round : 1..MaxRound, attempt : 1..Retries, grade : Grade]

ASSUME MissingAssumption == Missing \notin Part

VARIABLES
  round,         \* rounds begun in this workspace
  backend,       \* HARNESS_PROVIDER of this round
  phase,         \* of the review process
  pc,            \* of each task
  attempt,       \* attempts begun for a task in this round
  spent,         \* what these have cost, as far as they have told
  part,          \* the part files
  result,        \* what read_part has returned
  findings,      \* tasks merged, and tasks named as gaps
  outlived       \* agents that outlived their review process

\* History of this round: what the attempts of a task have really cost, and how many
\* have not told.
VARIABLES paid, unpriced

costs == <<spent, paid, unpriced>>

vars == <<round, backend, phase, pc, attempt, part, result, findings, outlived, costs>>

process == <<round, backend, phase, findings, outlived>>

NoFindings == [merged |-> {}, gaps |-> {}]

Phase == {"none", "verify", "done", "raised", "killed"}

Stage == {"queued", "running", "retry", "answered", "ok", "failed"}

\* An agent, by its task and where it was started.
Agent == [task : Task, round : 1..MaxRound, attempt : 1..Retries]

\* Every variable has its type.
TypeOK == /\ round \in 0..MaxRound
          /\ backend \in {"claude", "deepseek"}
          /\ phase \in Phase
          /\ pc \in [Task -> Stage]
          /\ attempt \in [Task -> 0..Retries]
          /\ {spent, paid, unpriced} \subseteq [Task -> Nat]
          /\ part \in [Task -> Part \cup {Missing}]
          /\ result \in [Task -> Part \cup {Missing}]
          /\ findings \in [merged : SUBSET Task, gaps : SUBSET Task]
          /\ outlived \subseteq Agent

Init == /\ round = 0
        /\ backend \in {"claude", "deepseek"}
        /\ phase = "none"
        /\ pc = [t \in Task |-> "queued"]
        /\ attempt = [t \in Task |-> 0]
        /\ spent = [t \in Task |-> 0]
        /\ paid = spent /\ unpriced = spent
        /\ part = [t \in Task |-> Missing]
        /\ result = [t \in Task |-> Missing]
        /\ findings = NoFindings
        /\ outlived = {}

At(t, st) == phase = "verify" /\ pc[t] = st

Goto(t, st) == pc' = [pc EXCEPT ![t] = st]

-----------------------------------------------------------------------------
(* run_verify, before the agents. *)

\* Part files of the previous round are removed.
Clean == part' = [t \in Task |-> Missing]

\* One task per agent (plan_tasks); the provider may be another one than last time.
Begin == /\ phase # "verify" /\ round < MaxRound
         /\ round' = round + 1
         /\ backend' \in {"claude", "deepseek"}
         /\ phase' = "verify"
         /\ Clean
         /\ pc' = [t \in Task |-> "queued"]
         /\ attempt' = [t \in Task |-> 0]
         /\ spent' = [t \in Task |-> 0]
         /\ paid' = spent' /\ unpriced' = spent'
         /\ result' = [t \in Task |-> Missing]
         /\ findings' = NoFindings
         /\ UNCHANGED outlived

-----------------------------------------------------------------------------
(* One agent: _execute around _run_agent or _run_agent_claude.  Waiting for  *)
(* an agent slot is part of "queued" (module AgentPool).                     *)

\* Faulty: the output of a dead attempt stays for the next one.
ResetNothing(t) == UNCHANGED part

\* reset_paths: an attempt of the Claude backend starts without its part file.
Reset(t) == part' = IF backend = "claude" THEN [part EXCEPT ![t] = Missing] ELSE part

\* Faulty: every attempt has the whole budget.
FreshBudget(t) == Budget

\* What the retries have left for the next attempt.
BudgetLeft(t) == IF spent[t] <= Budget THEN Budget - spent[t] ELSE 0

Start(t) == /\ phase = "verify" /\ pc[t] \in {"queued", "retry"}
            /\ BudgetLeft(t) > 0
            /\ attempt' = [attempt EXCEPT ![t] = @ + 1]
            /\ Reset(t)
            /\ Goto(t, "running")
            /\ UNCHANGED <<process, costs, result>>

\* The part file is removed before the budget is looked at.
OutOfBudget(t) == /\ At(t, "retry") /\ BudgetLeft(t) = 0
                  /\ Reset(t)
                  /\ Goto(t, "failed")
                  /\ UNCHANGED <<process, attempt, costs, result>>

Own(t, g) == [round |-> round, attempt |-> attempt[t], grade |-> g]

\* The agent's Write tool, at any moment, any number of times.
WritePart(t) == /\ At(t, "running")
                /\ \E g \in Grade : part' = [part EXCEPT ![t] = Own(t, g)]
                /\ UNCHANGED <<process, pc, attempt, costs, result>>

\* The CLI is told its budget, which it compares with its bill only now and then.  An
\* answer without total_cost_usd counts as free, and so does one that is never parsed.
Pay(t) == \E cost \in 0..(BudgetLeft(t) + Overrun) :
            /\ paid' = [paid EXCEPT ![t] = @ + cost]
            /\ \/ spent' = [spent EXCEPT ![t] = @ + cost] /\ UNCHANGED unpriced
               \/ unpriced' = [unpriced EXCEPT ![t] = @ + 1] /\ UNCHANGED spent

\* The other backend has no budget.
Charge(t) == IF backend = "claude" THEN Pay(t) ELSE UNCHANGED costs

\* If the agent has left no file, an object found in its reply is written in its place
\* (extract_json_object).
Salvage(t) == /\ part[t] = Missing
              /\ \E g \in Grade : part' = [part EXCEPT ![t] = Own(t, g)]

\* The agent ends in success.
Answer(t) == /\ At(t, "running")
             /\ Charge(t)
             /\ Salvage(t) \/ UNCHANGED part
             /\ Goto(t, "answered")
             /\ UNCHANGED <<process, attempt, result>>

\* Faulty: the last attempt is followed by another one.
MayRetryAlways(t) == TRUE

MayRetry(t) == attempt[t] < Retries

\* The Claude run died in the API: retried while attempts are left.
ApiFailure(t) == /\ At(t, "running") /\ backend = "claude"
                 /\ Charge(t)
                 /\ Goto(t, IF MayRetry(t) THEN "retry" ELSE "failed")
                 /\ UNCHANGED <<process, attempt, part, result>>

\* The rest of what _execute catches: no slot directory, no binary, a timeout, a
\* failure that is not retried, an empty or unreadable reply, a log that cannot be
\* written.
HardFailure(t) == /\ phase = "verify" /\ pc[t] \in {"queued", "running", "answered"}
                  /\ IF pc[t] = "running" THEN Charge(t) ELSE UNCHANGED costs
                  /\ Goto(t, "failed")
                  /\ UNCHANGED <<process, attempt, part, result>>

Readable(t) == part[t] # Missing /\ part[t].grade # "malformed"

\* read_part, after the slot is given back.
ReadPart(t) == /\ At(t, "answered")
               /\ IF Readable(t)
                  THEN Goto(t, "ok") /\ result' = [result EXCEPT ![t] = part[t]]
                  ELSE Goto(t, "failed") /\ UNCHANGED result
               /\ UNCHANGED <<process, attempt, costs, part>>

-----------------------------------------------------------------------------
(* run_verify, after the agents. *)

With(st) == {t \in Task : pc[t] = st}

NoVerdict == ClaimTask # {} /\ ClaimTask \subseteq With("failed")

\* _validate_findings over the merged parts.
Valid == \A t \in With("ok") \cap Checked : result[t].grade # "unknown_status"

\* Faulty: only agents that have succeeded are waited for.
EndedWell(t) == pc[t] = "ok"

Ended(t) == pc[t] \in {"ok", "failed"}

\* pool.map returns when the last agent has.
Merge == /\ phase = "verify"
         /\ \A t \in Task : Ended(t)
         /\ IF ~NoVerdict /\ Valid
            THEN /\ phase' = "done"
                 /\ findings' = [merged |-> With("ok"), gaps |-> With("failed")]
            ELSE phase' = "raised" /\ UNCHANGED findings
         /\ UNCHANGED <<round, backend, pc, attempt, costs, part, result, outlived>>

-----------------------------------------------------------------------------

\* The review process is killed; some of the agents that run are not.
Kill == /\ phase = "verify"
        /\ phase' = "killed"
        /\ \E S \in SUBSET With("running") :
             outlived' = outlived \cup
               {[task |-> t, round |-> round, attempt |-> attempt[t]] : t \in S}
        /\ UNCHANGED <<round, backend, pc, attempt, costs, part, result, findings>>

\* An agent whose review is dead writes its part file.
LateWrite == /\ \E a \in outlived, g \in Grade :
                  part' = [part EXCEPT ![a.task] =
                             [round |-> a.round, attempt |-> a.attempt, grade |-> g]]
             /\ UNCHANGED <<process, pc, attempt, costs, result>>

Work(t) == \/ Start(t) \/ OutOfBudget(t) \/ Answer(t) \/ ApiFailure(t)
           \/ HardFailure(t) \/ ReadPart(t)

Next == \/ Begin \/ Merge \/ Kill \/ LateWrite
        \/ \E t \in Task : Work(t) \/ WritePart(t)

Spec == Init /\ [][Next]_vars

\* Agents end: the CLI is stopped after DEFAULT_TIMEOUT_SECONDS, and a review that
\* hangs is killed by the timeout of its caller.
Fairness == WF_vars(Merge) /\ \A t \in Task : WF_vars(Work(t))

FairSpec == Spec /\ Fairness

-----------------------------------------------------------------------------
(* Properties. *)

\* verify.py: "a part file left by the previous round would be read as this
\* round's result"; claude_cli.py: "the dead attempt's half-written JSON is read
\* as the result".  What is read comes from the attempt that answered, in this
\* round, or else from an agent that has outlived its review.
FreshParts ==
  \A t \in Task : result[t] # Missing =>
    \/ result[t].round = round /\ result[t].attempt = attempt[t]
    \/ \E a \in outlived : a.task = t /\ a.round = result[t].round

\* "It covers the agent, retries included [...] or three retries would make the real
\* ceiling three times the advertised one": as long as every attempt tells what it has
\* cost, the agent stays within the budget, up to the overrun of a single attempt.
\* Each attempt that does not tell may cost as much again.
BudgetCovers ==
  \A t \in Task : paid[t] <= (1 + unpriced[t]) * (Budget + Overrun)

\* A round ends, however its agents fail and retry.
RoundEnds == phase = "verify" ~> phase # "verify"
=============================================================================

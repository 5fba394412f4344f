---------------------------- MODULE VerifyProofs ----------------------------
(* Theorems about Verify for any tasks, retries, budget and number of rounds, and *)
(* about the headline for any size of the shards and any number of claims.    *)
EXTENDS MCVerify, VerdictProofs

\* Some agent for t that was started in round r has outlived its review.
Survivor(t, r) == \E a \in outlived : a.task = t /\ a.round = r

\* A part file is by the present attempt of its task, or by a survivor; before the
\* first attempt only the latter.
PartOrigin(t) ==
  \/ part[t] = Missing
  \/ pc[t] # "queued" /\ part[t].round = round /\ part[t].attempt = attempt[t]
  \/ Survivor(t, part[t].round)

\* A task is retried by the Claude backend only, and has a result once it is ok.
TaskTable ==
  /\ \A t \in Task : result[t] # Missing <=> pc[t] = "ok"
  /\ phase = "verify" => \A t \in Task : /\ PartOrigin(t)
                                         /\ pc[t] = "retry" => backend = "claude"

\* Attempts are counted from the first one, and a retry has one left.
AttemptTable ==
  phase = "verify" => /\ round > 0
                      /\ \A t \in Task : /\ pc[t] = "queued" => attempt[t] = 0
                                         /\ pc[t] = "running" => attempt[t] > 0
                                         /\ pc[t] = "retry" => attempt[t] < Retries

\* What an agent has cost is what its attempts have told and, for each that has not,
\* at most a whole budget; what they have told leaves something for the one that runs.
Bill(t) == /\ spent[t] <= Budget + Overrun
           /\ paid[t] <= spent[t] + unpriced[t] * (Budget + Overrun)

CostTable == /\ \A t \in Task : Bill(t)
             /\ \A t \in Task : At(t, "running") => spent[t] < Budget

CostType == {spent, paid, unpriced} \subseteq [Task -> Nat]

VerifyInv == TypeOK /\ AttemptTable /\ TaskTable /\ FreshParts

-----------------------------------------------------------------------------
(* Types. *)

\* An agent that runs writes a part file of its round and attempt.
LEMMA OwnPart == ASSUME TypeOK, AttemptTable, NEW t \in Task, At(t, "running"),
                        NEW g \in Grade
                 PROVE  Own(t, g) \in Part
<1>1. round \in 1..MaxRound /\ attempt[t] \in 1..Retries
  BY RetryAssumption DEF TypeOK, AttemptTable, At
<1>2. QED
  BY <1>1 DEF Own, Part

\* Moving one task to another stage.
LEMMA GotoType == ASSUME pc \in [Task -> Stage], NEW t \in Task, NEW st \in Stage, Goto(t, st)
                  PROVE  /\ pc' \in [Task -> Stage]
                         /\ pc'[t] = st
                         /\ \A u \in Task \ {t} : pc'[u] = pc[u]
  BY DEF Goto

\* A step that costs nothing, and starts only what can be paid for.
LEMMA NoCharge ==
  ASSUME CostTable, UNCHANGED costs,
         \A u \in Task : At(u, "running")' => At(u, "running") \/ spent[u] < Budget
  PROVE  CostTable'
  BY DEF CostTable, costs, Bill

\* Adding to a sum that is bounded by a product.
LEMMA OneMore == ASSUME NEW p \in Nat, NEW s \in Nat, NEW u \in Nat, NEW B \in Nat, NEW c \in Nat,
                        p <= s + u * B
                 PROVE  /\ p + c <= (s + c) + u * B
                        /\ c <= B => p + c <= s + (u + 1) * B
<1>1. u * B \in Nat /\ (u + 1) * B = u * B + B
  OBVIOUS
<1> DEFINE m == u * B
           n == (u + 1) * B
<1>2. m \in Nat /\ n = m + B /\ p <= s + m
  BY <1>1
<1> HIDE DEF m, n
<1>3. p + c <= (s + c) + m /\ (c <= B => p + c <= s + n)
  BY <1>2
<1>4. QED
  BY <1>3 DEF m, n

\* What the attempt that runs may cost is covered by what the budget has left, or is
\* not told.
LEMMA Charged ==
  ASSUME TypeOK, CostTable, NEW t \in Task, At(t, "running"), Charge(t),
         \A u \in Task : At(u, "running")' => At(u, "running") /\ u # t
  PROVE  CostType' /\ CostTable'
<1>1. CASE UNCHANGED costs
  BY <1>1, NoCharge DEF TypeOK, CostType, costs
<1>2. CASE Pay(t)
  <2>1. PICK cost \in 0..(BudgetLeft(t) + Overrun) :
          /\ paid' = [paid EXCEPT ![t] = @ + cost]
          /\ \/ spent' = [spent EXCEPT ![t] = @ + cost] /\ UNCHANGED unpriced
             \/ unpriced' = [unpriced EXCEPT ![t] = @ + 1] /\ UNCHANGED spent
    BY <1>2 DEF Pay
  <2>2. /\ spent[t] \in Nat /\ paid[t] \in Nat /\ unpriced[t] \in Nat
        /\ Budget \in Nat /\ Overrun \in Nat
    BY RetryAssumption, OverrunAssumption DEF TypeOK
  <2>3. spent[t] < Budget /\ Bill(t)
    BY DEF CostTable
  <2>4. cost \in Nat /\ spent[t] + cost <= Budget + Overrun /\ cost <= Budget + Overrun
    BY <2>1, <2>2, <2>3 DEF BudgetLeft
  <2>5. /\ paid[t] + cost <= (spent[t] + cost) + unpriced[t] * (Budget + Overrun)
        /\ paid[t] + cost <= spent[t] + (unpriced[t] + 1) * (Budget + Overrun)
    BY <2>2, <2>3, <2>4, OneMore DEF Bill
  <2>6. CostType'
    BY <2>1, <2>2, <2>4 DEF TypeOK, CostType
  <2>7. \A u \in Task \ {t} : /\ spent'[u] = spent[u]
                              /\ paid'[u] = paid[u]
                              /\ unpriced'[u] = unpriced[u]
    BY <2>1 DEF TypeOK
  <2>8. Bill(t)'
    <3>1. CASE spent' = [spent EXCEPT ![t] = @ + cost] /\ UNCHANGED unpriced
      <4>1. spent'[t] = spent[t] + cost /\ paid'[t] = paid[t] + cost /\ unpriced'[t] = unpriced[t]
        BY <2>1, <3>1 DEF TypeOK
      <4>2. QED
        BY <2>4, <2>5, <4>1 DEF Bill
    <3>2. CASE unpriced' = [unpriced EXCEPT ![t] = @ + 1] /\ UNCHANGED spent
      <4>1. spent'[t] = spent[t] /\ paid'[t] = paid[t] + cost /\ unpriced'[t] = unpriced[t] + 1
        BY <2>1, <3>2 DEF TypeOK
      <4>2. QED
        BY <2>3, <2>5, <4>1 DEF Bill
    <3>3. QED
      BY <2>1, <3>1, <3>2
  <2>9. QED
    BY <2>6, <2>7, <2>8 DEF CostTable, Bill
<1>3. QED
  BY <1>1, <1>2 DEF Charge

\* The types, the numbering of attempts and the budget, at the start.
LEMMA TypeInit == ASSUME Init PROVE TypeOK /\ AttemptTable /\ CostTable
<1>1. TypeOK /\ AttemptTable
  BY RetryAssumption DEF Init, TypeOK, AttemptTable, Phase, Stage, NoFindings
<1>2. Budget + Overrun \in Nat /\ 0 * (Budget + Overrun) = 0
  BY RetryAssumption, OverrunAssumption
<1>3. CostTable
  BY <1>2 DEF Init, CostTable, Bill, At
<1>4. QED
  BY <1>1, <1>3

\* The types, the numbering of attempts and the budget, in every step.
LEMMA TypeStep == ASSUME TypeOK, AttemptTable, CostTable, [Next]_vars
                  PROVE  TypeOK' /\ AttemptTable' /\ CostTable'
<1>1. CASE UNCHANGED vars
  BY <1>1, NoCharge DEF vars, costs, TypeOK, AttemptTable, At
<1>2. CASE Begin
  <2>1. TypeOK' /\ AttemptTable'
    BY <1>2, RetryAssumption DEF Begin, Clean, TypeOK, AttemptTable, Phase, Stage, NoFindings
  <2>2. Budget + Overrun \in Nat /\ 0 * (Budget + Overrun) = 0
    BY RetryAssumption, OverrunAssumption
  <2>3. CostTable'
    BY <1>2, <2>2 DEF Begin, CostTable, Bill, At
  <2>4. QED
    BY <2>1, <2>3
<1>3. CASE Merge
  BY <1>3, NoCharge DEF Merge, With, TypeOK, AttemptTable, Phase, costs, At
<1>4. CASE Kill
  <2>1. PICK S \in SUBSET With("running") :
          outlived' = outlived \cup {[task |-> t, round |-> round, attempt |-> attempt[t]] : t \in S}
    BY <1>4 DEF Kill
  <2>2. ASSUME NEW t \in S
        PROVE  [task |-> t, round |-> round, attempt |-> attempt[t]] \in Agent
    BY <1>4, <2>2, RetryAssumption DEF Kill, With, TypeOK, AttemptTable, Agent
  <2>3. outlived' \subseteq Agent
    BY <2>1, <2>2 DEF TypeOK
  <2>4. QED
    BY <1>4, <2>3, NoCharge DEF Kill, TypeOK, AttemptTable, Phase, costs, At
<1>5. CASE LateWrite
  <2>1. PICK a \in outlived, g \in Grade :
          part' = [part EXCEPT ![a.task] = [round |-> a.round, attempt |-> a.attempt, grade |-> g]]
    BY <1>5 DEF LateWrite
  <2>2. [round |-> a.round, attempt |-> a.attempt, grade |-> g] \in Part
    BY <2>1 DEF TypeOK, Agent, Part
  <2>3. part' \in [Task -> Part \cup {Missing}]
    BY <2>1, <2>2 DEF TypeOK
  <2>4. QED
    BY <1>5, <2>3, NoCharge DEF LateWrite, process, costs, TypeOK, AttemptTable, At
<1>6. ASSUME NEW t \in Task, Start(t) PROVE TypeOK' /\ AttemptTable' /\ CostTable'
  <2>1. attempt[t] < Retries /\ attempt[t] \in Nat
    BY <1>6, RetryAssumption DEF Start, TypeOK, AttemptTable
  <2>2. /\ attempt' \in [Task -> 0..Retries]
        /\ attempt'[t] > 0
        /\ \A u \in Task \ {t} : attempt'[u] = attempt[u]
    BY <1>6, <2>1, RetryAssumption DEF Start, TypeOK
  <2>3. /\ pc' \in [Task -> Stage]
        /\ pc'[t] = "running"
        /\ \A u \in Task \ {t} : pc'[u] = pc[u]
    BY <1>6, GotoType DEF Start, TypeOK, Stage
  <2>4. part' \in [Task -> Part \cup {Missing}]
    BY <1>6 DEF Start, Reset, TypeOK
  <2>5. UNCHANGED <<process, costs, result>>
    BY <1>6 DEF Start
  <2>6. spent[t] < Budget
    BY <1>6, RetryAssumption DEF Start, BudgetLeft, TypeOK
  <2>7. TypeOK'
    BY <2>2, <2>3, <2>4, <2>5 DEF process, costs, TypeOK
  <2>8. CostTable'
    BY <2>3, <2>5, <2>6, NoCharge DEF process, At
  <2>9. AttemptTable'
    BY <2>2, <2>3, <2>5 DEF process, AttemptTable
  <2>10. QED
    BY <2>7, <2>8, <2>9
<1>7. ASSUME NEW t \in Task, OutOfBudget(t) \/ HardFailure(t) \/ ReadPart(t)
      PROVE  TypeOK' /\ AttemptTable' /\ CostTable'
  <2>1. PICK st \in {"ok", "failed"} : Goto(t, st)
    BY <1>7 DEF OutOfBudget, HardFailure, ReadPart
  <2>2. /\ pc' \in [Task -> Stage]
        /\ pc'[t] \in {"ok", "failed"}
        /\ \A u \in Task \ {t} : pc'[u] = pc[u]
    BY <2>1, GotoType DEF TypeOK, Stage
  <2>3. UNCHANGED <<process, attempt>> /\ result' \in [Task -> Part \cup {Missing}]
    BY <1>7 DEF OutOfBudget, HardFailure, ReadPart, TypeOK
  <2>4. part' \in [Task -> Part \cup {Missing}]
    BY <1>7 DEF OutOfBudget, Reset, HardFailure, ReadPart, TypeOK
  <2>5. \A u \in Task : At(u, "running")' => At(u, "running") /\ u # t
    BY <2>2, <2>3 DEF process, At
  <2>6. CostType' /\ CostTable'
    <3>1. (At(t, "running") /\ Charge(t)) \/ UNCHANGED costs
      BY <1>7 DEF OutOfBudget, HardFailure, ReadPart, At
    <3>2. QED
      BY <2>5, <3>1, Charged, NoCharge DEF TypeOK, CostType, costs
  <2>7. QED
    BY <2>2, <2>3, <2>4, <2>6 DEF process, TypeOK, CostType, AttemptTable
<1>8. ASSUME NEW t \in Task, WritePart(t) PROVE TypeOK' /\ AttemptTable' /\ CostTable'
  <2>1. part' \in [Task -> Part \cup {Missing}]
    BY <1>8, OwnPart DEF WritePart, TypeOK
  <2>2. QED
    BY <1>8, <2>1, NoCharge DEF WritePart, process, costs, TypeOK, AttemptTable, At
<1>9. ASSUME NEW t \in Task, Answer(t) PROVE TypeOK' /\ AttemptTable' /\ CostTable'
  <2>1. part' \in [Task -> Part \cup {Missing}]
    BY <1>9, OwnPart DEF Answer, Salvage, TypeOK
  <2>2. /\ pc' \in [Task -> Stage]
        /\ pc'[t] = "answered"
        /\ \A u \in Task \ {t} : pc'[u] = pc[u]
    BY <1>9, GotoType DEF Answer, TypeOK, Stage
  <2>3. UNCHANGED <<process, attempt, result>>
    BY <1>9 DEF Answer
  <2>4. \A u \in Task : At(u, "running")' => At(u, "running") /\ u # t
    BY <2>2, <2>3 DEF process, At
  <2>5. CostType' /\ CostTable'
    BY <1>9, <2>4, Charged DEF Answer
  <2>6. QED
    BY <2>1, <2>2, <2>3, <2>5 DEF process, TypeOK, CostType, AttemptTable
<1>10. ASSUME NEW t \in Task, ApiFailure(t) PROVE TypeOK' /\ AttemptTable' /\ CostTable'
  <2>1. /\ pc' \in [Task -> Stage]
        /\ pc'[t] = IF MayRetry(t) THEN "retry" ELSE "failed"
        /\ \A u \in Task \ {t} : pc'[u] = pc[u]
    BY <1>10, GotoType DEF ApiFailure, TypeOK, Stage
  <2>2. UNCHANGED <<process, attempt, part, result>>
    BY <1>10 DEF ApiFailure
  <2>3. \A u \in Task : At(u, "running")' => At(u, "running") /\ u # t
    BY <2>1, <2>2 DEF process, At
  <2>4. CostType' /\ CostTable'
    BY <1>10, <2>3, Charged DEF ApiFailure
  <2>5. TypeOK'
    BY <2>1, <2>2, <2>4 DEF process, TypeOK, CostType
  <2>6. AttemptTable'
    BY <2>1, <2>2 DEF process, AttemptTable, MayRetry
  <2>7. QED
    BY <2>4, <2>5, <2>6
<1>11. QED
  BY <1>1, <1>2, <1>3, <1>4, <1>5, <1>6, <1>7, <1>8, <1>9, <1>10 DEF Next, Work

\* Every variable keeps its type.
THEOREM TypeCorrect == Spec => []TypeOK
<1>1. Init => TypeOK /\ AttemptTable /\ CostTable
  BY TypeInit
<1>2. TypeOK /\ AttemptTable /\ CostTable /\ [Next]_vars
        => (TypeOK /\ AttemptTable /\ CostTable)'
  BY TypeStep
<1>3. QED
  BY <1>1, <1>2, PTL DEF Spec

\* "It covers the agent, retries included": the attempts of one agent cost together
\* at most one budget and its overrun, and as much again for each attempt that does
\* not tell what it has cost.
THEOREM BudgetKept == Spec => []BudgetCovers
<1>1. Init => TypeOK /\ AttemptTable /\ CostTable
  BY TypeInit
<1>2. TypeOK /\ AttemptTable /\ CostTable /\ [Next]_vars
        => (TypeOK /\ AttemptTable /\ CostTable)'
  BY TypeStep
<1>3. ASSUME TypeOK, CostTable PROVE BudgetCovers
  <2> SUFFICES ASSUME NEW t \in Task
               PROVE  paid[t] <= (1 + unpriced[t]) * (Budget + Overrun)
    BY DEF BudgetCovers
  <2> DEFINE whole == Budget + Overrun
             untold == unpriced[t] * whole
             bound == (1 + unpriced[t]) * whole
  <2>1. /\ spent[t] \in Nat /\ paid[t] \in Nat /\ unpriced[t] \in Nat
        /\ whole \in Nat
    BY <1>3, RetryAssumption, OverrunAssumption DEF TypeOK
  <2>2. spent[t] <= whole /\ paid[t] <= spent[t] + untold
    BY <1>3 DEF CostTable, Bill
  <2> HIDE DEF whole
  <2>3. untold \in Nat /\ bound = whole + untold
    BY <2>1
  <2> HIDE DEF untold, bound
  <2>4. paid[t] <= bound
    BY <2>1, <2>2, <2>3
  <2>5. QED
    BY <2>4 DEF bound, whole
<1>4. QED
  BY <1>1, <1>2, <1>3, PTL DEF Spec

-----------------------------------------------------------------------------
(* What is read, and what is made of it. *)

TypeInv == TypeOK /\ AttemptTable

\* A step of one task that leaves its file alone, removes it or writes one of its own attempt,
\* without a new attempt and without reading.
Works(t) ==
  /\ phase = "verify" /\ pc[t] # "queued" /\ pc[t] # "ok"
  /\ UNCHANGED <<process, attempt, result>>
  /\ \A u \in Task \ {t} : part'[u] = part[u] /\ pc'[u] = pc[u]
  /\ pc'[t] \notin {"queued", "ok"}
  /\ pc'[t] = "retry" => pc[t] = "retry" \/ backend = "claude"
  /\ part'[t] \in {part[t], Missing} \/ (part'[t].round = round /\ part'[t].attempt = attempt[t])

\* Such a step keeps the invariant.
LEMMA WorksKeeps == ASSUME TypeInv, TaskTable, FreshParts,
                           NEW t \in Task, Works(t)
                    PROVE  TaskTable' /\ FreshParts'
<1>1. UNCHANGED <<round, backend, phase, outlived, attempt, result>> /\ phase = "verify"
  BY DEF Works, process
<1>2. FreshParts'
  BY <1>1 DEF FreshParts
<1>3. ASSUME NEW u \in Task PROVE result'[u] # Missing <=> pc'[u] = "ok"
  BY <1>1 DEF Works, TaskTable
<1>4. ASSUME NEW u \in Task PROVE PartOrigin(u)' /\ (pc'[u] = "retry" => backend' = "claude")
  <2>1. PartOrigin(u) /\ (pc[u] = "retry" => backend = "claude")
    BY <1>1 DEF TaskTable
  <2>2. CASE u = t
    BY <1>1, <2>1, <2>2 DEF Works, PartOrigin, Survivor
  <2>3. CASE u # t
    BY <1>1, <2>1, <2>3 DEF Works, PartOrigin, Survivor
  <2>4. QED
    BY <2>2, <2>3
<1>5. QED
  BY <1>1, <1>2, <1>3, <1>4 DEF TaskTable

\* Nothing is read and nothing is merged at the start.
LEMMA FindingsInit == ASSUME Init PROVE TaskTable /\ FreshParts
  BY DEF Init, TaskTable, FreshParts

\* Every step keeps the invariant.
LEMMA FindingsStep == ASSUME TypeInv, TaskTable, FreshParts, [Next]_vars
                      PROVE  TaskTable' /\ FreshParts'
<1> DEFINE Goal == TaskTable' /\ FreshParts'
<1>1. CASE UNCHANGED vars
  BY <1>1 DEF vars, TaskTable, PartOrigin, Survivor, FreshParts
<1>2. CASE Begin
  BY <1>2 DEF Begin, Clean, TaskTable, PartOrigin, FreshParts
<1>3. CASE Merge
  <2>1. /\ UNCHANGED <<round, backend, pc, attempt, costs, part, result, outlived>>
        /\ phase' \in {"done", "raised"}
    BY <1>3 DEF Merge
  <2>2. TaskTable' /\ FreshParts'
    BY <2>1 DEF TaskTable, FreshParts
  <2>3. QED
    BY <2>2
<1>4. CASE Kill
  <2>1. /\ UNCHANGED <<round, pc, attempt, result>>
        /\ phase' = "killed"
        /\ outlived \subseteq outlived'
    BY <1>4 DEF Kill
  <2>2. QED
    BY <2>1 DEF TaskTable, FreshParts
<1>5. CASE LateWrite
  <2>1. UNCHANGED <<round, backend, phase, findings, outlived, pc, attempt, result>>
    BY <1>5 DEF LateWrite, process
  <2>2. PICK a \in outlived, g \in Grade :
          part' = [part EXCEPT ![a.task] = [round |-> a.round, attempt |-> a.attempt, grade |-> g]]
    BY <1>5 DEF LateWrite
  <2>3. ASSUME NEW u \in Task, PartOrigin(u) PROVE PartOrigin(u)'
    <3>1. CASE u = a.task
      BY <2>1, <2>2, <3>1 DEF TypeInv, TypeOK, PartOrigin, Survivor
    <3>2. CASE u # a.task
      BY <2>1, <2>2, <2>3, <3>2 DEF TypeInv, TypeOK, PartOrigin, Survivor
    <3>3. QED
      BY <3>1, <3>2
  <2>4. TaskTable'
    BY <2>1, <2>3 DEF TaskTable
  <2>5. FreshParts'
    BY <2>1 DEF FreshParts
  <2>6. QED
    BY <2>4, <2>5
<1>6. ASSUME NEW t \in Task, Start(t) PROVE Goal
  <2>1. /\ UNCHANGED <<round, backend, phase, findings, outlived, result>>
        /\ phase = "verify" /\ pc[t] \in {"queued", "retry"}
    BY <1>6 DEF Start, process
  <2>2. /\ pc'[t] = "running"
        /\ \A u \in Task \ {t} : /\ pc'[u] = pc[u]
                                 /\ attempt'[u] = attempt[u]
                                 /\ part'[u] = part[u]
    BY <1>6, GotoType DEF Start, Reset, TypeInv, TypeOK, Stage
  <2>3. part'[t] = Missing \/ Survivor(t, part'[t].round)
    BY <1>6, <2>1 DEF Start, Reset, TypeInv, TypeOK, TaskTable, PartOrigin
  <2>4. \A u \in Task : result[u] # Missing => u # t
    BY <2>1 DEF TaskTable
  <2>5. ASSUME NEW u \in Task PROVE PartOrigin(u)' /\ (pc'[u] = "retry" => backend' = "claude")
    BY <2>1, <2>2, <2>3 DEF TaskTable, PartOrigin, Survivor
  <2>6. TaskTable'
    BY <2>1, <2>2, <2>4, <2>5 DEF TaskTable
  <2>7. FreshParts'
    BY <2>1, <2>2, <2>4 DEF FreshParts
  <2>8. QED
    BY <2>6, <2>7
<1>7. ASSUME NEW t \in Task, ReadPart(t) PROVE Goal
  <2>1. /\ UNCHANGED <<round, backend, phase, findings, outlived, attempt, part>>
        /\ phase = "verify" /\ pc[t] = "answered"
    BY <1>7 DEF ReadPart, process, At
  <2>2. \A u \in Task \ {t} : pc'[u] = pc[u] /\ result'[u] = result[u]
    BY <1>7 DEF ReadPart, Goto, TypeInv, TypeOK
  <2>3. \/ pc'[t] = "ok" /\ result'[t] = part[t] /\ part[t] # Missing
        \/ pc'[t] = "failed" /\ result'[t] = result[t]
    BY <1>7 DEF ReadPart, Readable, Goto, TypeInv, TypeOK
  <2>4. PartOrigin(t) /\ result[t] = Missing
    BY <2>1 DEF TaskTable
  <2>5. ASSUME NEW u \in Task PROVE PartOrigin(u)' /\ (pc'[u] = "retry" => backend' = "claude")
    BY <2>1, <2>2, <2>3 DEF TaskTable, PartOrigin, Survivor
  <2>6. TaskTable'
    BY <2>1, <2>2, <2>3, <2>4, <2>5 DEF TaskTable
  <2>7. FreshParts'
    BY <2>1, <2>2, <2>3, <2>4 DEF FreshParts, PartOrigin, Survivor
  <2>8. QED
    BY <2>6, <2>7
<1>8. ASSUME NEW t \in Task, HardFailure(t), pc[t] = "queued" PROVE Goal
  <2>1. /\ UNCHANGED <<round, backend, phase, findings, outlived, attempt, part, result>>
        /\ phase = "verify"
    BY <1>8 DEF HardFailure, process
  <2>2. pc'[t] = "failed" /\ \A u \in Task \ {t} : pc'[u] = pc[u]
    BY <1>8 DEF HardFailure, Goto, TypeInv, TypeOK
  <2>3. ASSUME NEW u \in Task PROVE PartOrigin(u)' /\ (pc'[u] = "retry" => backend' = "claude")
    BY <2>1, <2>2 DEF TaskTable, PartOrigin, Survivor
  <2>4. QED
    BY <1>8, <2>1, <2>2, <2>3 DEF TaskTable, FreshParts
<1>9. ASSUME NEW t \in Task, WritePart(t) PROVE Goal
  <2>1. PICK g \in Grade : part' = [part EXCEPT ![t] = Own(t, g)]
    BY <1>9 DEF WritePart
  <2>2. Works(t)
    BY <1>9, <2>1 DEF WritePart, At, Own, Works, TypeInv, TypeOK
  <2>3. QED
    BY <2>2, WorksKeeps
<1>10. ASSUME NEW t \in Task, Answer(t) PROVE Goal
  <2>1. \/ UNCHANGED part
        \/ \E g \in Grade : part' = [part EXCEPT ![t] = Own(t, g)]
    BY <1>10 DEF Answer, Salvage
  <2>2. pc'[t] = "answered" /\ \A u \in Task \ {t} : pc'[u] = pc[u]
    BY <1>10, GotoType DEF Answer, TypeInv, TypeOK, Stage
  <2>3. Works(t)
    BY <1>10, <2>1, <2>2 DEF Answer, At, Own, Works, TypeInv, TypeOK
  <2>4. QED
    BY <2>3, WorksKeeps
<1>11. ASSUME NEW t \in Task,
              \/ OutOfBudget(t) \/ ApiFailure(t)
              \/ HardFailure(t) /\ pc[t] # "queued"
       PROVE  Goal
  <2>1. Works(t)
    BY <1>11 DEF OutOfBudget, Reset, ApiFailure, HardFailure, At, Goto, Works, TypeInv, TypeOK
  <2>2. QED
    BY <2>1, WorksKeeps
<1>12. QED
  BY <1>1, <1>2, <1>3, <1>4, <1>5, <1>6, <1>7, <1>8, <1>9, <1>10, <1>11 DEF Next, Work

\* The invariant of a verification.
THEOREM VerifyInvariant == Spec => []VerifyInv
<1> DEFINE Ind == VerifyInv /\ CostTable
<1>1. Init => Ind
  BY TypeInit, FindingsInit DEF VerifyInv
<1>2. Ind /\ [Next]_vars => Ind'
  BY TypeStep, FindingsStep DEF VerifyInv, TypeInv
<1>3. Ind => VerifyInv
  OBVIOUS
<1>4. QED
  BY <1>1, <1>2, <1>3, PTL DEF Spec

\* What is read comes from the attempt that answered in this round, or from an agent
\* that has outlived its review: no dead attempt and no earlier round is read.
THEOREM PartsAreFresh == Spec => []FreshParts
<1>1. VerifyInv => FreshParts
  BY DEF VerifyInv
<1>2. QED
  BY <1>1, VerifyInvariant, PTL

-----------------------------------------------------------------------------
(* What is said of a review. *)

\* Only reviews that can occur are summed up.
InputInv == input \in Input \cup {NoInput}

LEMMA InputStep == ASSUME InputInv, [MCNext]_<<vars, input>>
                   PROVE  InputInv'
  BY DEF MCNext, PickInput, InputInv

\* "A review that lost a third of its claims and passed the rest still reported ACCURATE,
\* which is the one thing the verdict must never do": verdict and numbers are those that
\* a look at every single claim would give, however many claims there are, however they
\* are split, and whichever agents die or leave claims out.
THEOREM HeadlinesDeserved == MCSpec => []HeadlineDeserved
<1>1. MCInit => InputInv
  BY DEF MCInit, InputInv
<1>2. InputInv /\ [MCNext]_<<vars, input>> => InputInv'
  BY InputStep
<1>3. InputInv => HeadlineDeserved
  BY VerdictsDeserved DEF HeadlineDeserved, InputInv
<1>4. QED
  BY <1>1, <1>2, <1>3, PTL DEF MCSpec
=============================================================================

-------------------------- MODULE AgentCallsProofs --------------------------
(***************************************************************************)
(* Proofs about AgentCalls for any number of concurrent calls, of models,  *)
(* retries and tool calls, and any limits.                                 *)
(***************************************************************************)
EXTENDS AgentCalls, FiniteSetTheorems, TLAPS

(* The entry keeps its type through every operation.                        *)
LEMMA CircuitType ==
  ASSUME NEW s \in {"closed", "open", "half-open"}, NEW f \in 0..FailureThreshold,
         NEW n \in 0..HalfOpenMaxCalls
  PROVE  /\ Circuit(s, f, n) \in Entry
         /\ Circuit(s, f, n).state = s /\ Circuit(s, f, n).failures = f
         /\ Circuit(s, f, n).halfOpenCalls = n
BY DEF Circuit, Entry

LEMMA EntryFields ==
  ASSUME NEW e \in Entry
  PROVE  /\ e.state \in {"closed", "open", "half-open"}
         /\ e.failures \in 0..FailureThreshold
         /\ OneMore(e.failures) \in 0..FailureThreshold
         /\ e.halfOpenCalls \in 0..HalfOpenMaxCalls
         /\ 0 \in 0..FailureThreshold /\ 0 \in 0..HalfOpenMaxCalls
         /\ 1 \in 0..HalfOpenMaxCalls
BY CircuitAssumption DEF Entry, OneMore

LEMMA EntryFacts ==
  ASSUME circuit \in Entry, NEW e \in Entry
  PROVE  /\ Fresh \in Entry /\ RecordSuccess(e) \in Entry /\ RecordFailure(e) \in Entry
         /\ CanCall => Called \in Entry
<1>1. Fresh \in Entry /\ RecordSuccess(e) \in Entry
  BY CircuitType, EntryFields DEF Fresh, RecordSuccess
<1>2. RecordFailure(e) \in Entry
  BY CircuitType, EntryFields DEF RecordFailure
<1>3. ASSUME CanCall PROVE Called \in Entry
  <2>1. CASE circuit.state = "closed"
    BY <2>1 DEF Called
  <2>2. CASE circuit.state = "open"
    BY <2>2, CircuitType, EntryFields DEF Called
  <2>3. CASE circuit.state = "half-open"
    <3>1. circuit.halfOpenCalls + 1 \in 0..HalfOpenMaxCalls
      BY <1>3, <2>3, EntryFields, CircuitAssumption DEF CanCall
    <3> QED BY <2>3, <3>1, CircuitType, EntryFields DEF Called
  <2> QED BY <2>1, <2>2, <2>3, EntryFields
<1> QED BY <1>1, <1>2, <1>3

LEMMA WaitingType ==
  ASSUME NEW st \in Steps, NEW n \in AllLimits
  PROVE  Waiting(st, n) \in Calls /\ Waiting(st, n).at = st
<1>1. 1 \in 1..Models /\ 0 \in 0..MaxRetries /\ 0 \in 0..MaxToolCalls
  BY CallsAssumption
<1> QED BY <1>1 DEF Waiting, Calls

LEMMA IdleType == Idle \in Calls /\ Idle.at = "idle"
BY WaitingType DEF Idle, Steps, AllLimits

LEMMA TypeInit == Init => TypeOK
<1>1. Fresh \in Entry
  BY CircuitType, CircuitAssumption DEF Fresh
<1>2. Idle \in Calls
  BY IdleType
<1> SUFFICES ASSUME Init PROVE TypeOK
  OBVIOUS
<1>3. CircuitTypeOK
  BY <1>1 DEF Init, CircuitTypeOK
<1>4. BudgetTypeOK
  BY BudgetAssumption DEF Init, BudgetTypeOK, FreshBudget, AllLimits
<1>5. call \in [Callers -> Calls]
  BY <1>2 DEF Init
<1>6. /\ probing \subseteq Callers /\ down \in BOOLEAN
      /\ drafts \in [Callers -> Nat] /\ late \in [Callers -> Nat]
  BY DEF Init
<1> QED BY <1>3, <1>4, <1>5, <1>6 DEF TypeOK

-----------------------------------------------------------------------------
(* What the steps do to each part of the state.                             *)
LEMMA GoesType ==
  ASSUME TypeOK, NEW p \in Callers, NEW st \in Steps, Goes(p, st)
  PROVE  /\ call' \in [Callers -> Calls]
         /\ call'[p].at = st
         /\ \A q \in Callers \ {p} : call'[q] = call[q]
<1>1. Waiting(st, StarterLimit) \in Calls /\ Waiting(st, StarterLimit).at = st
  BY WaitingType DEF AllLimits
<1> QED BY <1>1 DEF TypeOK, Goes

LEMMA AttemptsType ==
  ASSUME TypeOK, NEW p \in Callers, NEW m \in 1..Models, NEW t \in 0..MaxRetries,
         NEW k \in 0..MaxToolCalls, Attempts(p, m, t, k)
  PROVE  /\ call' \in [Callers -> Calls]
         /\ call'[p].at = "model"
         /\ call'[p].model = m /\ call'[p].tries = t /\ call'[p].tools = k
         /\ \A q \in Callers \ {p} : call'[q] = call[q]
<1> DEFINE c == [at |-> "model", limit |-> StarterLimit, model |-> m, tries |-> t, tools |-> k]
<1>1. c \in Calls
  BY BudgetAssumption DEF Calls, Steps, AllLimits
<1>2. c.at = "model" /\ c.model = m /\ c.tries = t /\ c.tools = k
  OBVIOUS
<1>3. call' = [call EXCEPT ![p] = c]
  BY DEF Attempts
<1> HIDE DEF c
<1> QED BY <1>1, <1>2, <1>3 DEF TypeOK

LEMMA ReportType ==
  ASSUME TypeOK, NEW e \in Entry, Report(e)
  PROVE  circuit' \in Entry /\ cooled' \in BOOLEAN /\ probing' \subseteq Callers
BY DEF TypeOK, CircuitTypeOK, Report, Becomes

LEMMA LetThroughType ==
  ASSUME TypeOK, NEW p \in Callers, CanCall, LetThrough(p)
  PROVE  circuit' \in Entry /\ cooled' \in BOOLEAN /\ probing' \subseteq Callers
<1>1. Called \in Entry
  BY EntryFacts, CircuitAssumption DEF TypeOK, CircuitTypeOK
<1> QED BY <1>1 DEF TypeOK, CircuitTypeOK, LetThrough, Becomes

LEMMA DecideType ==
  ASSUME TypeOK, NEW p \in Callers, NEW n \in AllLimits, Decide(p, n)
  PROVE  /\ BudgetTypeOK' /\ call' \in [Callers -> Calls]
         /\ call'[p].at \in {"idle", "gate", "prompt"}
         /\ \A q \in Callers \ {p} : call'[q] = call[q]
         /\ used' \in {0, used}
         /\ call'[p].at # "idle" => used' + Estimate <= n
<1> DEFINE st == IF ~Affordable(n) THEN "idle"
                 ELSE IF p \in Orchestrated THEN "gate" ELSE "prompt"
<1>1. st \in Steps /\ st \in {"idle", "gate", "prompt"} /\ Goes(p, st)
  BY DEF Decide, Steps
<1> HIDE DEF st
<1>2. /\ call' \in [Callers -> Calls] /\ call'[p].at = st
      /\ \A q \in Callers \ {p} : call'[q] = call[q]
  BY <1>1, GoesType
<1>3. BudgetTypeOK' /\ used' = Today /\ Today \in {0, used}
  BY DEF Decide, Checked, Today, TypeOK, BudgetTypeOK
<1>4. st # "idle" => Today + Estimate <= n
  BY DEF st, Affordable
<1> QED BY <1>1, <1>2, <1>3, <1>4

(* An attempt that failed: another attempt, or a report.                    *)
LEMMA FailureFrame ==
  ASSUME TypeOK, NEW p \in Callers, At(p, "model"),
         FailTransiently(p) \/ FailForGood(p) \/ TimeOut(p)
  PROVE  /\ UNCHANGED <<budget, drafts, down>>
         /\ TimeOut(p) \/ late' = late
         /\ \/ Retry(p)
            \/ NextModel(p)
            \/ GiveUp(p)
BY DEF FailTransiently, FailForGood, TimeOut

LEMMA AttemptType ==
  ASSUME TypeOK, NEW p \in Callers, At(p, "model"),
         Retry(p) \/ NextModel(p) \/ GiveUp(p)
  PROVE  /\ circuit' \in Entry /\ cooled' \in BOOLEAN /\ probing' \subseteq Callers
         /\ call' \in [Callers -> Calls]
         /\ call'[p].at \in {"model", "idle"}
         /\ \A q \in Callers \ {p} : call'[q] = call[q]
<1>1. ASSUME Retry(p) \/ NextModel(p)
      PROVE  /\ call' \in [Callers -> Calls] /\ call'[p].at = "model"
             /\ \A q \in Callers \ {p} : call'[q] = call[q]
             /\ UNCHANGED <<circuit, cooled, probing>>
  <2>1. call[p].model \in 1..Models /\ call[p].tries \in 0..MaxRetries
    BY DEF TypeOK, Calls
  <2>2. CASE Retry(p)
    <3>1. call[p].tries + 1 \in 0..MaxRetries
      BY <2>1, <2>2, CallsAssumption DEF Retry
    <3> QED BY <2>1, <2>2, <3>1, AttemptsType, CallsAssumption DEF Retry
  <2>3. CASE NextModel(p)
    <3>1. call[p].model + 1 \in 1..Models
      BY <2>1, <2>3, CallsAssumption DEF NextModel
    <3> QED BY <2>1, <2>3, <3>1, AttemptsType, CallsAssumption DEF NextModel
  <2> QED BY <1>1, <2>2, <2>3
<1>2. ASSUME GiveUp(p)
      PROVE  /\ call' \in [Callers -> Calls] /\ call'[p].at = "idle"
             /\ \A q \in Callers \ {p} : call'[q] = call[q]
             /\ Report(Reported(p)) /\ Reported(p) \in Entry
  <2>1. circuit \in Entry /\ RecordFailure(circuit) \in Entry
    BY EntryFacts DEF TypeOK, CircuitTypeOK
  <2>2. RecordFailure(RecordFailure(circuit)) \in Entry
    BY <2>1, EntryFacts
  <2>3. Reported(p) \in Entry
    BY <2>1, <2>2 DEF Reported
  <2> HIDE DEF Reported
  <2> QED BY <1>2, <2>3, GoesType DEF GiveUp, Steps
<1>3. CASE Retry(p) \/ NextModel(p)
  BY <1>1, <1>3 DEF TypeOK, CircuitTypeOK
<1>4. CASE GiveUp(p)
  BY <1>2, <1>4, ReportType
<1> QED BY <1>3, <1>4

(* The counters of draft orders and of tool calls to come.                  *)
LEMMA FailureCounters ==
  ASSUME TypeOK, NEW p \in Callers, At(p, "model"),
         FailTransiently(p) \/ FailForGood(p) \/ TimeOut(p)
  PROVE  late' \in [Callers -> Nat] /\ drafts' = drafts
<1>1. CASE late' = late
  BY <1>1, FailureFrame DEF TypeOK
<1>2. CASE TimeOut(p)
  <2>1. call[p].tools \in 0..MaxToolCalls /\ late[p] \in Nat
    BY DEF TypeOK, Calls
  <2> QED BY <1>2, <2>1, CallsAssumption DEF TimeOut, TypeOK
<1> QED BY <1>1, <1>2, FailureFrame


-----------------------------------------------------------------------------
(* Every step, by what it does to the circuit, the budget and the calls.    *)
LEMMA BeginType == ASSUME TypeOK, NEW p \in Callers, Begin(p) PROVE TypeOK'
<1> USE DEF Begin
<1>1. CASE ~stale /\ Decide(p, limit)
  <2>1. limit \in AllLimits
    BY DEF TypeOK, BudgetTypeOK
  <2>2. BudgetTypeOK' /\ call' \in [Callers -> Calls]
    BY <1>1, <2>1, DecideType
  <2> QED BY <2>2 DEF TypeOK, CircuitTypeOK
<1>2. CASE stale /\ Goes(p, "limits") /\ UNCHANGED budget
  <2>1. call' \in [Callers -> Calls]
    BY <1>2, GoesType DEF Steps
  <2> QED BY <1>2, <2>1 DEF TypeOK, CircuitTypeOK, BudgetTypeOK, budget
<1> QED BY <1>1, <1>2

LEMMA LimitsType ==
  ASSUME TypeOK, NEW p \in Callers, ResolveLimits(p) \/ CheckBudget(p)
  PROVE  TypeOK'
<1>1. CASE ResolveLimits(p)
  <2>1. PICK n \in AllLimits :
          call' = [call EXCEPT ![p] = Waiting("resolved", n)]
    BY <1>1 DEF ResolveLimits, Resolved, TypeOK, BudgetTypeOK, AllLimits
  <2>2. Waiting("resolved", n) \in Calls
    BY WaitingType DEF Steps
  <2>3. call' \in [Callers -> Calls]
    BY <2>1, <2>2 DEF TypeOK
  <2> QED BY <1>1, <2>3 DEF ResolveLimits, TypeOK, CircuitTypeOK, BudgetTypeOK, budget
<1>2. CASE CheckBudget(p)
  <2>1. call[p].limit \in AllLimits
    BY DEF TypeOK, Calls
  <2>2. BudgetTypeOK' /\ call' \in [Callers -> Calls]
    BY <1>2, <2>1, DecideType DEF CheckBudget
  <2> QED BY <1>2, <2>2 DEF CheckBudget, TypeOK, CircuitTypeOK
<1> QED BY <1>1, <1>2

LEMMA GateType ==
  ASSUME TypeOK, NEW p \in Callers, Gate(p) \/ PromptFails(p) \/ Ask(p)
  PROVE  TypeOK'
<1>1. /\ UNCHANGED <<budget, drafts, late, down>>
      /\ Goes(p, "prompt") \/ Goes(p, "model") \/ Goes(p, "idle")
  BY DEF Gate, PromptFails, Ask
<1>2. call' \in [Callers -> Calls]
  BY <1>1, GoesType DEF Steps
<1>3. circuit' \in Entry /\ cooled' \in BOOLEAN /\ probing' \subseteq Callers
  <2>1. CASE CanCall /\ LetThrough(p)
    BY <2>1, LetThroughType
  <2>2. CASE Report(RecordFailure(circuit))
    <3>1. RecordFailure(circuit) \in Entry
      BY EntryFacts DEF TypeOK, CircuitTypeOK
    <3> QED BY <2>2, <3>1, ReportType
  <2>3. CASE UNCHANGED <<circuit, cooled, probing>>
    BY <2>3 DEF TypeOK, CircuitTypeOK
  <2> QED BY <2>1, <2>2, <2>3 DEF Gate, PromptFails, Ask
<1> QED BY <1>1, <1>2, <1>3 DEF TypeOK, CircuitTypeOK, BudgetTypeOK, budget

LEMMA AnswerType ==
  ASSUME TypeOK, NEW p \in Callers, Answer(p)
  PROVE  TypeOK' /\ \E cost \in 0..MaxCost : used' = used + cost
<1>1. circuit' \in Entry /\ cooled' \in BOOLEAN /\ probing' \subseteq Callers
  BY EntryFacts, ReportType DEF Answer, TypeOK, CircuitTypeOK
<1>2. call' \in [Callers -> Calls]
  BY GoesType DEF Answer, Steps
<1>3. \E cost \in 0..MaxCost : used' = used + cost
  BY DEF Answer, RecordUsage
<1>4. BudgetTypeOK'
  BY <1>3, BudgetAssumption DEF Answer, TypeOK, BudgetTypeOK
<1> QED BY <1>1, <1>2, <1>3, <1>4 DEF Answer, TypeOK, CircuitTypeOK

LEMMA UseToolType ==
  ASSUME TypeOK, NEW p \in Callers, UseTool(p)
  PROVE  /\ TypeOK'
         /\ call'[p].at = "model" /\ call'[p].model = call[p].model
         /\ call'[p].tries = call[p].tries /\ call'[p].tools = call[p].tools + 1
         /\ \A q \in Callers \ {p} : call'[q] = call[q]
         /\ \E n \in 0..1 : drafts' = [drafts EXCEPT ![p] = @ + n]
<1>1. /\ call[p].model \in 1..Models /\ call[p].tries \in 0..MaxRetries
      /\ call[p].tools + 1 \in 0..MaxToolCalls
  BY CallsAssumption DEF UseTool, TypeOK, Calls
<1>2. Attempts(p, call[p].model, call[p].tries, call[p].tools + 1)
  BY DEF UseTool
<1>3. /\ call' \in [Callers -> Calls]
      /\ call'[p].at = "model" /\ call'[p].model = call[p].model
      /\ call'[p].tries = call[p].tries /\ call'[p].tools = call[p].tools + 1
      /\ \A q \in Callers \ {p} : call'[q] = call[q]
  BY <1>1, <1>2, AttemptsType
<1>4. PICK n \in 0..1 : drafts' = [drafts EXCEPT ![p] = @ + n]
  BY DEF UseTool
<1>5. drafts' \in [Callers -> Nat]
  BY <1>4 DEF TypeOK
<1> QED BY <1>3, <1>4, <1>5 DEF UseTool, TypeOK, CircuitTypeOK, BudgetTypeOK, budget

LEMMA FailureType ==
  ASSUME TypeOK, NEW p \in Callers, FailTransiently(p) \/ FailForGood(p) \/ TimeOut(p)
  PROVE  TypeOK'
<1>1. At(p, "model")
  BY DEF FailTransiently, FailForGood, TimeOut
<1>2. late' \in [Callers -> Nat] /\ drafts' = drafts /\ UNCHANGED <<budget, down>>
  BY <1>1, FailureCounters, FailureFrame
<1>3. /\ circuit' \in Entry /\ cooled' \in BOOLEAN /\ probing' \subseteq Callers
      /\ call' \in [Callers -> Calls]
  BY <1>1, AttemptType, FailureFrame
<1> QED BY <1>2, <1>3 DEF TypeOK, CircuitTypeOK, BudgetTypeOK, budget

LEMMA LateType ==
  ASSUME TypeOK, NEW p \in Callers, LateTool(p) \/ LateEnd(p)
  PROVE  /\ TypeOK' /\ UNCHANGED <<circuit, cooled, budget, call, probing>>
         /\ \A q \in Callers : drafts'[q] + late'[q] <= drafts[q] + late[q]
         /\ \A q \in Callers : late[q] = 0 => late'[q] = 0 /\ drafts'[q] = drafts[q]
<1> USE DEF TypeOK, CircuitTypeOK, BudgetTypeOK, budget
<1>1. CASE LateTool(p)
  <2>1. PICK n \in 0..1 : drafts' = [drafts EXCEPT ![p] = @ + n]
    BY <1>1 DEF LateTool
  <2>2. late' = [late EXCEPT ![p] = @ - 1] /\ late[p] > 0 /\ late[p] \in Nat
    BY <1>1 DEF LateTool
  <2>3. drafts' \in [Callers -> Nat] /\ late' \in [Callers -> Nat]
    BY <2>1, <2>2
  <2>4. \A q \in Callers : /\ drafts'[q] + late'[q] <= drafts[q] + late[q]
                           /\ late[q] = 0 => late'[q] = 0 /\ drafts'[q] = drafts[q]
    BY <2>1, <2>2
  <2> QED BY <1>1, <2>3, <2>4 DEF LateTool
<1>2. CASE LateEnd(p)
  <2>1. PICK n \in 0..(late[p] - 1) : late' = [late EXCEPT ![p] = n]
    BY <1>2 DEF LateEnd
  <2>2. late[p] \in Nat /\ n \in Nat /\ n < late[p]
    BY <2>1
  <2>3. late' \in [Callers -> Nat] /\ drafts' = drafts
    BY <1>2, <2>1, <2>2 DEF LateEnd
  <2>4. \A q \in Callers : /\ drafts'[q] + late'[q] <= drafts[q] + late[q]
                           /\ late[q] = 0 => late'[q] = 0 /\ drafts'[q] = drafts[q]
    BY <2>1, <2>2, <2>3
  <2> QED BY <1>2, <2>3, <2>4 DEF LateEnd
<1> QED BY <1>1, <1>2

(* The steps that no call takes.                                            *)
Environment == Cool \/ Reset \/ Administer \/ Outage \/ Restart

LEMMA EnvironmentType ==
  ASSUME TypeOK, Environment
  PROVE  /\ TypeOK' /\ used' \in {0, used}
         /\ \/ UNCHANGED <<call, drafts, late>>
            \/ /\ call' = [p \in Callers |-> Idle]
               /\ drafts' = [p \in Callers |-> 0] /\ late' = [p \in Callers |-> 0]
<1> USE DEF TypeOK, CircuitTypeOK
<1>1. CASE Cool \/ Outage
  BY <1>1 DEF Cool, Outage, budget, BudgetTypeOK
<1>2. CASE Reset
  <2>1. circuit' \in Entry /\ cooled' \in BOOLEAN /\ probing' \subseteq Callers
    BY <1>2, EntryFacts, ReportType DEF Reset
  <2> QED BY <1>2, <2>1 DEF Reset, budget, BudgetTypeOK
<1>3. CASE Administer
  <2>1. BudgetTypeOK' /\ used' = used
    BY <1>3 DEF Administer, SetLimits, LimitsExpire, DayTurns, BudgetTypeOK, AllLimits
  <2> QED BY <1>3, <2>1 DEF Administer
<1>4. CASE Restart
  <2>1. circuit' \in Entry /\ cooled' \in BOOLEAN /\ probing' \subseteq Callers
    BY <1>4, EntryFacts, ReportType DEF Restart
  <2>2. BudgetTypeOK' /\ used' = 0
    BY <1>4, BudgetAssumption DEF Restart, ForgetBudget, BudgetTypeOK, AllLimits
  <2>3. call' \in [Callers -> Calls]
    BY <1>4, IdleType DEF Restart
  <2> QED BY <1>4, <2>1, <2>2, <2>3 DEF Restart
<1> QED BY <1>1, <1>2, <1>3, <1>4 DEF Environment

LEMMA TypeStep == TypeOK /\ [Next]_vars => TypeOK'
<1> SUFFICES ASSUME TypeOK, [Next]_vars PROVE TypeOK'
  OBVIOUS
<1>1. ASSUME NEW p \in Callers, Begin(p) \/ Continue(p) \/ LateTool(p) \/ LateEnd(p)
      PROVE  TypeOK'
  BY <1>1, BeginType, LimitsType, GateType, AnswerType, UseToolType, FailureType, LateType
     DEF Continue
<1>2. CASE Environment
  BY <1>2, EnvironmentType
<1>3. CASE UNCHANGED vars
  BY <1>3 DEF vars, budget, TypeOK, CircuitTypeOK, BudgetTypeOK
<1> QED BY <1>1, <1>2, <1>3 DEF Next, Environment

(* The state keeps its type: the counters of the circuit stay within the    *)
(* thresholds whatever is reported, and when.                               *)
THEOREM AgentTypeCorrect == Spec => []TypeOK
<1> QED BY TypeInit, TypeStep, PTL DEF Spec

-----------------------------------------------------------------------------
(* The calls let through while the circuit is half open are those that its  *)
(* entry counts.                                                            *)
ProbeInv == circuit.state = "half-open" => Cardinality(probing) <= circuit.halfOpenCalls

LEMMA OneMoreProbe ==
  ASSUME TypeOK, NEW p \in Callers
  PROVE  /\ IsFiniteSet(probing)
         /\ Cardinality(probing \cup {p}) <= Cardinality(probing) + 1
         /\ Cardinality({p}) = 1 /\ Cardinality({}) = 0
         /\ Cardinality(probing) \in Nat /\ Cardinality(probing \cup {p}) \in Nat
<1>1. IsFiniteSet(probing)
  BY CallsAssumption, FS_Subset DEF TypeOK
<1>2. Cardinality(probing) \in Nat
  BY <1>1, FS_CardinalityType
<1>3. Cardinality(probing \cup {p}) <= Cardinality(probing) + 1
  <2>1. CASE p \in probing
    <3>1. PICK T : T = probing \cup {p}
      OBVIOUS
    <3>2. T = probing
      BY <2>1, <3>1
    <3>3. Cardinality(T) <= Cardinality(probing) + 1
      BY <3>2, <1>2
    <3> QED BY <3>1, <3>3
  <2>2. CASE p \notin probing
    BY <2>2, <1>1, <1>2, FS_AddElement
  <2> QED BY <2>1, <2>2
<1>4. Cardinality(probing \cup {p}) \in Nat
  BY <1>1, FS_AddElement, FS_CardinalityType
<1> QED BY <1>1, <1>2, <1>3, <1>4, FS_Singleton, FS_EmptySet

(* Letting one through counts it; a report that leaves the circuit half     *)
(* open leaves the count.                                                   *)
LEMMA LetThroughCounts ==
  ASSUME TypeOK, ProbeInv, NEW p \in Callers, CanCall, LetThrough(p)
  PROVE  ProbeInv'
<1> USE DEF LetThrough, Becomes, ProbeInv
<1>1. CASE circuit.state = "closed"
  BY <1>1 DEF Called
<1>2. CASE circuit.state = "open"
  <2>1. probing' = {p} /\ circuit' = Circuit("half-open", circuit.failures, 1)
    BY <1>2 DEF Called
  <2>2. circuit'.halfOpenCalls = 1
    BY <2>1 DEF Circuit
  <2>3. Cardinality(probing') = 1
    BY <2>1, FS_Singleton
  <2> QED BY <2>2, <2>3
<1>3. CASE circuit.state = "half-open"
  <2>1. probing' = probing \cup {p}
    BY <1>3
  <2>2. circuit' = Circuit("half-open", circuit.failures, circuit.halfOpenCalls + 1)
    BY <1>3 DEF Called
  <2>3. circuit'.halfOpenCalls = circuit.halfOpenCalls + 1
    BY <2>2 DEF Circuit
  <2>4. circuit.halfOpenCalls \in Nat
    BY EntryFields DEF TypeOK, CircuitTypeOK
  <2>5. Cardinality(probing) <= circuit.halfOpenCalls
    BY <1>3
  <2>6. Cardinality(probing') <= circuit'.halfOpenCalls
    <3> HIDE DEF LetThrough, Becomes, ProbeInv
    <3>1. PICK T : T = probing \cup {p}
      OBVIOUS
    <3>2. Cardinality(T) <= Cardinality(probing) + 1 /\ Cardinality(T) \in Nat
      BY <3>1, OneMoreProbe
    <3>3. PICK n \in Nat : n = Cardinality(probing)
      BY OneMoreProbe
    <3>4. Cardinality(T) <= circuit.halfOpenCalls + 1
      BY <3>2, <3>3, <2>4, <2>5
    <3>5. probing' = T
      BY <2>1, <3>1
    <3> QED BY <3>4, <3>5, <2>3
  <2> QED BY <2>6
<1> QED BY <1>1, <1>2, <1>3, EntryFields DEF TypeOK, CircuitTypeOK

LEMMA ReportCounts ==
  ASSUME TypeOK, ProbeInv, NEW e, Report(e),
         e \in {Fresh, RecordSuccess(circuit), RecordFailure(circuit),
                RecordFailure(RecordFailure(circuit))}
  PROVE  ProbeInv'
<1>1. e.state # "half-open"
  <2>1. CASE e = Fresh
    BY <2>1 DEF Fresh, Circuit
  <2>2. CASE e = RecordSuccess(circuit)
    BY <2>2 DEF RecordSuccess, Circuit
  <2>3. ASSUME NEW d \in Entry PROVE RecordFailure(d).state # "half-open"
    BY EntryFields DEF RecordFailure, Circuit
  <2>4. circuit \in Entry /\ RecordFailure(circuit) \in Entry
    BY EntryFacts DEF TypeOK, CircuitTypeOK
  <2> QED BY <2>1, <2>2, <2>3, <2>4
<1> QED BY <1>1 DEF Report, Becomes, ProbeInv

LEMMA ProbeStep == TypeOK /\ ProbeInv /\ [Next]_vars => ProbeInv'
<1> SUFFICES ASSUME TypeOK, ProbeInv, [Next]_vars PROVE ProbeInv'
  OBVIOUS
<1>1. CASE UNCHANGED <<circuit, probing>>
  BY <1>1 DEF ProbeInv
<1>2. ASSUME NEW p \in Callers, Begin(p) \/ ResolveLimits(p) \/ CheckBudget(p)
                                \/ PromptFails(p) \/ UseTool(p)
      PROVE  UNCHANGED <<circuit, probing>>
  BY <1>2 DEF Begin, ResolveLimits, CheckBudget, PromptFails, UseTool
<1>3. ASSUME NEW p \in Callers, Gate(p) \/ Ask(p)
      PROVE  ProbeInv'
  <2>1. \/ CanCall /\ LetThrough(p)
        \/ Report(RecordFailure(circuit))
        \/ UNCHANGED <<circuit, probing>>
    BY <1>3 DEF Gate, Ask
  <2> QED BY <2>1, <1>1, LetThroughCounts, ReportCounts
<1>4. ASSUME NEW p \in Callers, Answer(p)
      PROVE  ProbeInv'
  BY <1>4, ReportCounts DEF Answer
<1>5. ASSUME NEW p \in Callers, FailTransiently(p) \/ FailForGood(p) \/ TimeOut(p)
      PROVE  ProbeInv'
  <2>1. At(p, "model")
    BY <1>5 DEF FailTransiently, FailForGood, TimeOut
  <2>2. CASE GiveUp(p)
    BY <2>2, ReportCounts DEF GiveUp, Reported
  <2>3. CASE Retry(p) \/ NextModel(p)
    BY <2>3, <1>1 DEF Retry, NextModel
  <2> QED BY <1>5, <2>1, <2>2, <2>3, FailureFrame
<1>6. ASSUME NEW p \in Callers, LateTool(p) \/ LateEnd(p)
      PROVE  UNCHANGED <<circuit, probing>>
  BY <1>6 DEF LateTool, LateEnd
<1>7. CASE Reset \/ Restart
  BY <1>7, ReportCounts DEF Reset, Restart
<1>8. CASE Cool \/ Administer \/ Outage \/ UNCHANGED vars
  BY <1>8, <1>1 DEF Cool, Administer, Outage, vars
<1> QED BY <1>1, <1>2, <1>3, <1>4, <1>5, <1>6, <1>7, <1>8 DEF Next, Continue

(* A half-open circuit lets no more calls through than halfOpenMaxCalls,    *)
(* for any number of calls at once and whatever order they report in.       *)
THEOREM TestCallsStayFew == Spec => []TestCallsAreFew
<1>1. Init => ProbeInv
  BY DEF Init, ProbeInv, Fresh, Circuit
<1>2. TypeOK /\ ProbeInv => TestCallsAreFew
  <2> SUFFICES ASSUME TypeOK, ProbeInv, circuit.state = "half-open"
               PROVE  Cardinality(probing) <= HalfOpenMaxCalls
    BY DEF TestCallsAreFew
  <2>1. IsFiniteSet(probing)
    BY CallsAssumption, FS_Subset DEF TypeOK
  <2>2. Cardinality(probing) \in Nat
    BY <2>1, FS_CardinalityType
  <2>3. circuit.halfOpenCalls \in 0..HalfOpenMaxCalls
    BY EntryFields DEF TypeOK, CircuitTypeOK
  <2> QED BY <2>2, <2>3, CircuitAssumption DEF ProbeInv
<1> QED BY <1>1, <1>2, AgentTypeCorrect, ProbeStep, PTL DEF Spec

-----------------------------------------------------------------------------
(* Attempts that are left to p after the one it is at.                      *)
Left(p) == (MaxRetries - call[p].tries) + (Models - call[p].model) * (MaxRetries + 1)

(* Tool calls that every attempt may make.                                  *)
AllTools == Models * (MaxRetries + 1) * MaxToolCalls

(* A call that is at the model has made its draft orders within what the    *)
(* attempts left to it leave over, and one before has made none.            *)
DraftsOf(p) ==
  /\ drafts[p] + late[p] <= AllTools
  /\ call[p].at \in {"limits", "resolved", "gate", "prompt"} =>
       drafts[p] = 0 /\ late[p] = 0
  /\ call[p].at = "model" =>
       drafts[p] + late[p] + (MaxToolCalls - call[p].tools) + MaxToolCalls * Left(p)
         <= AllTools

DraftInv == \A p \in Callers : DraftsOf(p)

LEMMA Distributes ==
  ASSUME NEW t \in Int, NEW a \in Int, NEW b \in Int
  PROVE  t * (a + b) = t * a + t * b /\ t * a \in Int /\ t * b \in Int
OBVIOUS

LEMMA OneMoreTime ==
  ASSUME NEW t \in Int, NEW c \in Int
  PROVE  (c + 1) * t = c * t + t /\ c * t \in Int
OBVIOUS

LEMMA Products ==
  ASSUME NEW t \in Nat, NEW a \in Nat, NEW b \in Nat, a < b
  PROVE  t * a + t <= t * b /\ t * a \in Nat
<1>1. PICK d \in Nat : b = a + 1 + d
  <2>1. b - a - 1 \in Nat /\ b = a + 1 + (b - a - 1)
    OBVIOUS
  <2> QED BY <2>1
<1>2. t * b = t * (a + 1) + t * d
  BY <1>1, Distributes
<1>3. t * (a + 1) = t * a + t
  BY Distributes
<1>4. t * d \in Nat /\ t * a \in Nat
  OBVIOUS
<1> QED BY <1>2, <1>3, <1>4

(* Every attempt uses one up.                                               *)
LEMMA LeftFacts ==
  ASSUME TypeOK, NEW p \in Callers
  PROVE  /\ Left(p) \in Nat
         /\ call[p].tools \in 0..MaxToolCalls
         /\ call[p].tries < MaxRetries =>
              (MaxRetries - (call[p].tries + 1))
                + (Models - call[p].model) * (MaxRetries + 1) \in 0..(Left(p) - 1)
         /\ call[p].model < Models =>
              MaxRetries + (Models - (call[p].model + 1)) * (MaxRetries + 1)
                \in 0..(Left(p) - 1)
<1>1. PICK t \in 0..MaxRetries : t = call[p].tries
  BY DEF TypeOK, Calls
<1>2. PICK m \in 1..Models : m = call[p].model
  BY DEF TypeOK, Calls
<1>3. PICK d \in Nat : d = Models - m
  BY <1>2, CallsAssumption
<1>4. call[p].tools \in 0..MaxToolCalls
  BY DEF TypeOK, Calls
<1>5. d * (MaxRetries + 1) \in Nat
  BY CallsAssumption
<1>6. Left(p) = (MaxRetries - t) + d * (MaxRetries + 1) /\ Left(p) \in Nat
  BY <1>1, <1>2, <1>3, <1>5, CallsAssumption DEF Left
<1>7. t < MaxRetries =>
        (MaxRetries - (t + 1)) + d * (MaxRetries + 1) \in 0..(Left(p) - 1)
  BY <1>5, <1>6, CallsAssumption
<1>8. m < Models =>
        MaxRetries + (Models - (m + 1)) * (MaxRetries + 1) \in 0..(Left(p) - 1)
  <2> SUFFICES ASSUME m < Models
               PROVE  MaxRetries + (Models - (m + 1)) * (MaxRetries + 1) \in 0..(Left(p) - 1)
    OBVIOUS
  <2>1. PICK c \in Nat : c = Models - (m + 1)
    BY <1>2, CallsAssumption
  <2>2. d = c + 1
    BY <2>1, <1>2, <1>3, CallsAssumption
  <2>3. d * (MaxRetries + 1) = c * (MaxRetries + 1) + MaxRetries + 1
    <3>1. PICK r \in Nat : r = MaxRetries + 1
      BY CallsAssumption
    <3>2. (c + 1) * r = c * r + r
      BY OneMoreTime
    <3> QED BY <2>2, <3>1, <3>2, CallsAssumption
  <2>4. c * (MaxRetries + 1) \in Nat
    BY <2>1, CallsAssumption
  <2> QED BY <2>1, <2>3, <2>4, <1>1, <1>6, CallsAssumption
<1> QED BY <1>1, <1>2, <1>3, <1>4, <1>6, <1>7, <1>8

LEMMA ToolsType ==
  AllTools \in Nat /\ AllTools = MaxToolCalls + MaxToolCalls * (Models * (MaxRetries + 1) - 1)
<1>1. PICK r \in Nat \ {0} : r = MaxRetries + 1
  BY CallsAssumption
<1>2. PICK m \in Nat \ {0} : m = Models
  BY CallsAssumption
<1>3. PICK t \in Nat : t = MaxToolCalls
  BY CallsAssumption
<1>4. m * r \in Nat \ {0}
  OBVIOUS
<1>5. PICK k \in Nat \ {0} : k = m * r
  BY <1>4
<1>6. k * t \in Nat /\ k * t = t + t * (k - 1)
  OBVIOUS
<1> QED BY <1>1, <1>2, <1>3, <1>5, <1>6 DEF AllTools

LEMMA SumsType ==
  ASSUME TypeOK, NEW p \in Callers
  PROVE  drafts[p] \in Nat /\ late[p] \in Nat
BY DEF TypeOK

LEMMA DraftsUntouched ==
  ASSUME NEW q \in Callers, DraftsOf(q), call'[q] = call[q],
         drafts'[q] = drafts[q], late'[q] = late[q]
  PROVE  DraftsOf(q)'
BY DEF DraftsOf, Left, AllTools

(* A call ends with what it made.                                           *)
LEMMA DraftsAtEnd ==
  ASSUME NEW q \in Callers, call'[q].at = "idle", drafts'[q] + late'[q] <= AllTools
  PROVE  DraftsOf(q)'
BY DEF DraftsOf, AllTools

LEMMA DraftsAtStart ==
  ASSUME NEW q \in Callers, call'[q].at # "model", drafts'[q] = 0, late'[q] = 0
  PROVE  DraftsOf(q)'
BY ToolsType DEF DraftsOf, AllTools

(* The first attempt has all of them before it.                             *)
LEMMA FirstAttempt ==
  ASSUME NEW p \in Callers, TypeOK, Goes(p, "model"), drafts'[p] = 0, late'[p] = 0
  PROVE  DraftsOf(p)'
<1>1. call'[p] = Waiting("model", StarterLimit)
  BY DEF Goes, TypeOK
<1>2. /\ call'[p].at = "model" /\ call'[p].model = 1
      /\ call'[p].tries = 0 /\ call'[p].tools = 0
  BY <1>1 DEF Waiting
<1>3. PICK r \in Nat \ {0} : r = MaxRetries + 1
  BY CallsAssumption
<1>4. PICK m \in Nat : m = Models - 1
  BY CallsAssumption
<1>5. (m + 1) * r = m * r + r /\ m * r \in Nat
  BY OneMoreTime
<1>6. (MaxRetries - 0) + (Models - 1) * (MaxRetries + 1) = Models * (MaxRetries + 1) - 1
  BY <1>3, <1>4, <1>5, CallsAssumption
<1>7. Left(p)' = Models * (MaxRetries + 1) - 1
  BY <1>2, <1>6 DEF Left
<1>8. AllTools' = AllTools /\ AllTools \in Nat
  BY ToolsType DEF AllTools
<1>9. 0 + 0 + (MaxToolCalls - 0) + MaxToolCalls * Left(p)' = AllTools
  <2>1. PICK x \in Int : x = MaxToolCalls * Left(p)'
    <3>1. Models * (MaxRetries + 1) - 1 \in Int
      BY CallsAssumption
    <3> QED BY <3>1, <1>7, CallsAssumption
  <2>2. AllTools = MaxToolCalls + x
    BY <2>1, <1>7, ToolsType
  <2> QED BY <2>1, <2>2, CallsAssumption
<1> QED BY <1>2, <1>8, <1>9 DEF DraftsOf

(* An attempt that failed: what its loop may still do was counted.          *)
LEMMA AttemptFailed ==
  ASSUME TypeOK, NEW p \in Callers, DraftsOf(p),
         FailTransiently(p) \/ FailForGood(p) \/ TimeOut(p)
  PROVE  /\ DraftsOf(p)'
         /\ \A q \in Callers \ {p} :
              call'[q] = call[q] /\ drafts'[q] = drafts[q] /\ late'[q] = late[q]
<1>1. At(p, "model")
  BY DEF FailTransiently, FailForGood, TimeOut
<1>2. PICK d \in Nat : d = drafts[p] /\ drafts' = drafts
  BY <1>1, SumsType, FailureCounters
<1>3. PICK s \in Nat : s = late[p]
  BY SumsType
<1>4. PICK t \in 0..MaxToolCalls : t = call[p].tools
  BY LeftFacts
<1>5. PICK r \in Nat : r = MaxToolCalls - t
  BY <1>4, CallsAssumption
<1>6. /\ late'[p] \in Nat /\ late'[p] <= s + r
      /\ \A q \in Callers \ {p} : late'[q] = late[q]
  <2>1. CASE late' = late
    BY <2>1, <1>3, <1>5
  <2>2. CASE TimeOut(p)
    <3>1. late' = [late EXCEPT ![p] = @ + MaxToolCalls - call[p].tools]
      BY <2>2 DEF TimeOut
    <3>2. late'[p] = late[p] + MaxToolCalls - call[p].tools
          /\ \A q \in Callers \ {p} : late'[q] = late[q]
      BY <3>1 DEF TypeOK
    <3>3. s + MaxToolCalls - t = s + r
      BY <1>5, <1>4, CallsAssumption
    <3> QED BY <3>2, <3>3, <1>3, <1>4
  <2> QED BY <2>1, <2>2, <1>1, FailureFrame
<1>7. \A q \in Callers \ {p} :
        call'[q] = call[q] /\ drafts'[q] = drafts[q] /\ late'[q] = late[q]
  BY <1>1, <1>2, <1>6, AttemptType, FailureFrame
<1>8. PICK l \in Nat : l = Left(p)
  BY LeftFacts
<1>9. PICK a \in Nat : a = AllTools
  BY ToolsType
<1>10. PICK x \in Nat : x = MaxToolCalls * l
  BY CallsAssumption
<1>11. d + s + r + x <= a
  BY <1>1, <1>2, <1>3, <1>4, <1>5, <1>8, <1>9, <1>10 DEF DraftsOf, At
<1>12. CASE GiveUp(p)
  <2>1. call'[p].at = "idle"
    BY <1>12, GoesType DEF GiveUp, Steps
  <2>2. drafts'[p] + late'[p] <= AllTools
    BY <1>2, <1>6, <1>9, <1>11
  <2> QED BY <2>1, <2>2, <1>7, DraftsAtEnd
<1>13. CASE Retry(p) \/ NextModel(p)
  <2>1. /\ call'[p].at = "model" /\ call'[p].tools = 0
        /\ Left(p)' \in 0..(l - 1)
    <3>1. call[p].model \in 1..Models /\ call[p].tries \in 0..MaxRetries
          /\ 0 \in 0..MaxRetries /\ 0 \in 0..MaxToolCalls
      BY CallsAssumption DEF TypeOK, Calls
    <3>2. CASE Retry(p)
      <4>1. call[p].tries + 1 \in 0..MaxRetries
        BY <3>1, <3>2, CallsAssumption DEF Retry
      <4>2. /\ call'[p].at = "model" /\ call'[p].tools = 0
            /\ call'[p].model = call[p].model /\ call'[p].tries = call[p].tries + 1
        BY <3>1, <3>2, <4>1, AttemptsType DEF Retry
      <4> QED BY <4>2, <3>2, <1>8, LeftFacts DEF Left, Retry
    <3>3. CASE NextModel(p)
      <4>1. call[p].model + 1 \in 1..Models
        BY <3>1, <3>3, CallsAssumption DEF NextModel
      <4>2. /\ call'[p].at = "model" /\ call'[p].tools = 0
            /\ call'[p].model = call[p].model + 1 /\ call'[p].tries = 0
        BY <3>1, <3>3, <4>1, AttemptsType DEF NextModel
      <4>3. MaxRetries - 0 = MaxRetries
        BY CallsAssumption
      <4> QED BY <4>2, <4>3, <3>3, <1>8, LeftFacts DEF Left, NextModel
    <3> QED BY <1>13, <3>2, <3>3
  <2>2. PICK n \in Nat : n = Left(p)' /\ n < l
    BY <2>1
  <2>3. PICK y \in Nat : y = MaxToolCalls * n
    BY CallsAssumption
  <2>4. y + MaxToolCalls <= x
    BY <2>2, <2>3, <1>10, Products, CallsAssumption
  <2>5. drafts'[p] + late'[p] + (MaxToolCalls - 0) + y <= a /\ drafts'[p] + late'[p] <= a
    <3>1. PICK z \in Nat : z = late'[p] /\ z <= s + r
      BY <1>6
    <3>2. d + z + (MaxToolCalls - 0) + y <= a /\ d + z <= a
      BY <3>1, <1>11, <2>4, CallsAssumption
    <3> QED BY <3>1, <3>2, <1>2
  <2>6. AllTools' = a
    BY <1>9 DEF AllTools
  <2>7. DraftsOf(p)'
    BY <2>1, <2>2, <2>3, <2>5, <2>6 DEF DraftsOf
  <2> QED BY <2>7, <1>7
<1> QED BY <1>1, <1>12, <1>13, FailureFrame

LEMMA ToolUsed ==
  ASSUME TypeOK, NEW p \in Callers, DraftsOf(p), UseTool(p)
  PROVE  /\ DraftsOf(p)'
         /\ \A q \in Callers \ {p} :
              call'[q] = call[q] /\ drafts'[q] = drafts[q] /\ late'[q] = late[q]
<1>1. late' = late /\ call[p].at = "model"
  BY DEF UseTool, At
<1>2. PICK n \in 0..1 : drafts' = [drafts EXCEPT ![p] = @ + n]
  BY UseToolType
<1>3. drafts'[p] = drafts[p] + n /\ \A q \in Callers \ {p} : drafts'[q] = drafts[q]
  BY <1>2 DEF TypeOK
<1>4. PICK t \in 0..MaxToolCalls : t = call[p].tools
  BY LeftFacts
<1>5. call'[p].tools = t + 1
  BY <1>4, UseToolType
<1>6. Left(p)' = Left(p) /\ AllTools' = AllTools
  BY UseToolType DEF Left, AllTools
<1>7. PICK x \in Nat : x = MaxToolCalls * Left(p)
  BY LeftFacts, CallsAssumption
<1>8. PICK d \in Nat : d = drafts[p]
  BY SumsType
<1>9. PICK s \in Nat : s = late[p]
  BY SumsType
<1>10. PICK a \in Nat : a = AllTools
  BY ToolsType
<1>11. d + s + (MaxToolCalls - t) + x <= a
  BY <1>1, <1>4, <1>7, <1>8, <1>9, <1>10 DEF DraftsOf
<1>12. t + 1 <= MaxToolCalls
  BY <1>4, CallsAssumption DEF UseTool
<1>13. d + n + s + (MaxToolCalls - (t + 1)) + x <= a /\ d + n + s <= a
  BY <1>11, <1>12, CallsAssumption
<1>14. DraftsOf(p)'
  BY <1>1, <1>3, <1>5, <1>6, <1>7, <1>8, <1>9, <1>10, <1>13, UseToolType DEF DraftsOf
<1> QED BY <1>1, <1>3, <1>14, UseToolType

(* What an abandoned loop does was counted when it was abandoned.           *)
LEMMA LateCounted ==
  ASSUME TypeOK, NEW p \in Callers, LateTool(p) \/ LateEnd(p),
         NEW q \in Callers, DraftsOf(q)
  PROVE  DraftsOf(q)'
<1>1. TypeOK' /\ call' = call
  BY LateType
<1>2. PICK d \in Nat : d = drafts[q] + late[q]
  BY SumsType
<1>3. PICK e \in Nat : e = drafts'[q] + late'[q]
  BY <1>1 DEF TypeOK
<1>4. e <= d /\ (late[q] = 0 => late'[q] = 0 /\ drafts'[q] = drafts[q])
  BY <1>2, <1>3, LateType
<1>5. AllTools' = AllTools /\ AllTools \in Nat /\ Left(q)' = Left(q) /\ Left(q) \in Nat
  BY <1>1, ToolsType, LeftFacts DEF AllTools, Left
<1>6. PICK t \in 0..MaxToolCalls : t = call[q].tools
  BY LeftFacts
<1>7. PICK x \in Nat : x = MaxToolCalls * Left(q)
  BY <1>5, CallsAssumption
<1>8. e <= AllTools /\ (call[q].at = "model" => e + (MaxToolCalls - t) + x <= AllTools)
  <2>1. d <= AllTools /\ (call[q].at = "model" => d + (MaxToolCalls - t) + x <= AllTools)
    BY <1>2, <1>6, <1>7 DEF DraftsOf
  <2> QED BY <2>1, <1>4, <1>5, CallsAssumption
<1> QED BY <1>1, <1>3, <1>4, <1>5, <1>6, <1>7, <1>8 DEF DraftsOf

(* Every other step of a call leaves its counters, or is before the model.  *)
LEMMA BeforeTheModel ==
  ASSUME TypeOK, NEW p \in Callers, DraftsOf(p),
         Begin(p) \/ ResolveLimits(p) \/ CheckBudget(p) \/ Gate(p) \/ PromptFails(p)
           \/ Ask(p) \/ Answer(p)
  PROVE  /\ DraftsOf(p)'
         /\ \A q \in Callers \ {p} :
              call'[q] = call[q] /\ drafts'[q] = drafts[q] /\ late'[q] = late[q]
<1>1. CASE Begin(p)
  <2>1. /\ drafts'[p] = 0 /\ late'[p] = 0
        /\ \A q \in Callers \ {p} : drafts'[q] = drafts[q] /\ late'[q] = late[q]
    BY <1>1 DEF Begin, TypeOK
  <2>2. \/ Goes(p, "limits")
        \/ limit \in AllLimits /\ Decide(p, limit)
    BY <1>1 DEF Begin, TypeOK, BudgetTypeOK
  <2>3. call'[p].at # "model" /\ \A q \in Callers \ {p} : call'[q] = call[q]
    BY <2>2, GoesType, DecideType DEF Steps
  <2> QED BY <2>1, <2>3, DraftsAtStart
<1>2. CASE ResolveLimits(p)
  <2>1. PICK n \in AllLimits :
          call' = [call EXCEPT ![p] = Waiting("resolved", n)]
    BY <1>2 DEF ResolveLimits, Resolved, TypeOK, BudgetTypeOK, AllLimits
  <2>2. Waiting("resolved", n).at = "resolved"
    BY DEF Waiting
  <2>3. call'[p].at = "resolved" /\ \A q \in Callers \ {p} : call'[q] = call[q]
    BY <2>1, <2>2 DEF TypeOK
  <2>4. drafts[p] = 0 /\ late[p] = 0
    BY <1>2 DEF ResolveLimits, At, DraftsOf
  <2> QED BY <1>2, <2>3, <2>4, DraftsAtStart DEF ResolveLimits
<1>3. CASE CheckBudget(p)
  <2>1. call[p].limit \in AllLimits /\ Decide(p, call[p].limit)
    BY <1>3 DEF CheckBudget, TypeOK, Calls
  <2>2. call'[p].at # "model" /\ \A q \in Callers \ {p} : call'[q] = call[q]
    BY <2>1, DecideType
  <2>3. drafts[p] = 0 /\ late[p] = 0
    BY <1>3 DEF CheckBudget, At, DraftsOf
  <2> QED BY <1>3, <2>2, <2>3, DraftsAtStart DEF CheckBudget
<1>4. CASE Gate(p) \/ PromptFails(p) \/ Ask(p)
  <2>1. drafts[p] = 0 /\ late[p] = 0 /\ drafts' = drafts /\ late' = late
    BY <1>4 DEF Gate, PromptFails, Ask, At, DraftsOf
  <2>2. Goes(p, "prompt") \/ Goes(p, "model") \/ Goes(p, "idle")
    BY <1>4 DEF Gate, PromptFails, Ask
  <2>3. \A q \in Callers \ {p} : call'[q] = call[q]
    BY <2>2, GoesType DEF Steps
  <2>4. CASE Goes(p, "model")
    BY <2>1, <2>3, <2>4, FirstAttempt
  <2>5. CASE Goes(p, "prompt") \/ Goes(p, "idle")
    <3>1. call'[p].at # "model"
      BY <2>5, GoesType DEF Steps
    <3> QED BY <3>1, <2>1, <2>3, DraftsAtStart
  <2> QED BY <2>2, <2>4, <2>5
<1>5. CASE Answer(p)
  <2>1. Goes(p, "idle") /\ drafts' = drafts /\ late' = late
    BY <1>5 DEF Answer
  <2>2. call'[p].at = "idle" /\ \A q \in Callers \ {p} : call'[q] = call[q]
    BY <2>1, GoesType DEF Steps
  <2>3. drafts'[p] + late'[p] <= AllTools
    BY <2>1 DEF DraftsOf
  <2> QED BY <2>1, <2>2, <2>3, DraftsAtEnd
<1> QED BY <1>1, <1>2, <1>3, <1>4, <1>5

LEMMA DraftStep == TypeOK /\ DraftInv /\ [Next]_vars => DraftInv'
<1> SUFFICES ASSUME TypeOK, DraftInv, [Next]_vars, NEW q \in Callers PROVE DraftsOf(q)'
  BY DEF DraftInv
<1>1. DraftsOf(q)
  BY DEF DraftInv
<1>2. ASSUME NEW p \in Callers, Begin(p) \/ Continue(p)
      PROVE  DraftsOf(q)'
  <2>1. DraftsOf(p)
    BY DEF DraftInv
  <2>2. /\ DraftsOf(p)'
        /\ \A r \in Callers \ {p} :
             call'[r] = call[r] /\ drafts'[r] = drafts[r] /\ late'[r] = late[r]
    BY <1>2, <2>1, BeforeTheModel, ToolUsed, AttemptFailed DEF Continue
  <2> QED BY <2>2, <1>1, DraftsUntouched
<1>3. ASSUME NEW p \in Callers, LateTool(p) \/ LateEnd(p)
      PROVE  DraftsOf(q)'
  BY <1>3, <1>1, LateCounted
<1>4. CASE Environment
  <2>1. CASE UNCHANGED <<call, drafts, late>>
    BY <2>1, <1>1, DraftsUntouched
  <2>2. CASE /\ call' = [p \in Callers |-> Idle]
             /\ drafts' = [p \in Callers |-> 0] /\ late' = [p \in Callers |-> 0]
    BY <2>2, IdleType, DraftsAtStart
  <2> QED BY <1>4, <2>1, <2>2, EnvironmentType
<1>5. CASE UNCHANGED vars
  BY <1>5, <1>1, DraftsUntouched DEF vars
<1> QED BY <1>2, <1>3, <1>4, <1>5 DEF Next, Environment

(* Retries, fallback models and loops that lost their race never make more  *)
(* draft orders than all attempts together may call tools, for any number   *)
(* of them.                                                                 *)
THEOREM DraftsStayBounded == Spec => []DraftsAreBounded
<1>1. Init => DraftInv
  <2> SUFFICES ASSUME Init, NEW q \in Callers PROVE DraftsOf(q)
    BY DEF DraftInv
  <2>1. call[q].at = "idle" /\ drafts[q] = 0 /\ late[q] = 0
    BY IdleType DEF Init
  <2> QED BY <2>1, ToolsType DEF DraftsOf
<1>2. DraftInv => DraftsAreBounded
  BY DEF DraftInv, DraftsOf, DraftsAreBounded, AllTools
<1> QED BY <1>1, <1>2, AgentTypeCorrect, DraftStep, PTL DEF Spec

-----------------------------------------------------------------------------
(* The calls that may still be debited.                                     *)
LEMMA FlightFacts ==
  /\ IsFiniteSet(Callers) /\ Cardinality(Callers) \in Nat
  /\ \A S \in SUBSET Callers : /\ IsFiniteSet(S) /\ Cardinality(S) \in Nat
                              /\ Cardinality(S) <= Cardinality(Callers)
BY CallsAssumption, FS_Subset, FS_CardinalityType

(* Nothing more is debited when fewer calls are in flight.                  *)
LEMMA FewerInFlight ==
  ASSUME TypeOK, OverspendIsBounded, InFlight' \subseteq InFlight, used' \in {0, used}
  PROVE  OverspendIsBounded'
<1>1. InFlight \subseteq Callers
  BY DEF InFlight
<1>2. Cardinality(InFlight') <= Cardinality(InFlight)
  BY <1>1, FlightFacts, FS_Subset
<1>3. PICK a \in Nat : a = Cardinality(InFlight')
  BY <1>1, FlightFacts
<1>4. PICK b \in Nat : b = Cardinality(InFlight) /\ a <= b
  BY <1>1, <1>2, <1>3, FlightFacts
<1>5. PICK n \in AllLimits :
        used + MaxCost * b + Estimate <= n + MaxCost * Cardinality(Callers)
  BY <1>4 DEF OverspendIsBounded
<1>6. MaxCost * a \in Nat /\ MaxCost * a <= MaxCost * b /\ MaxCost * b \in Nat
  <2>1. PICK t \in Nat : t = MaxCost
    BY BudgetAssumption
  <2>2. CASE a = b
    BY <2>1, <2>2
  <2>3. CASE a < b
    <3>1. t * a + t <= t * b /\ t * a \in Nat /\ t * b \in Nat
      BY <2>3, Products
    <3> QED BY <3>1, <2>1
  <2> QED BY <1>4, <2>2, <2>3
<1>7. PICK x \in Nat : x = MaxCost * a
  BY <1>6
<1>8. PICK y \in Nat : y = MaxCost * b /\ x <= y
  BY <1>6, <1>7
<1>9. PICK z \in Nat : z = MaxCost * Cardinality(Callers)
  BY FlightFacts, BudgetAssumption
<1>10. used \in Nat /\ used' \in Nat /\ used' <= used /\ Estimate \in Nat /\ n \in Nat
  BY BudgetAssumption DEF TypeOK, BudgetTypeOK, AllLimits
<1>11. used' + x + Estimate <= n + z
  BY <1>5, <1>8, <1>9, <1>10
<1>12. n \in AllLimits'
  BY DEF AllLimits
<1>13. Callers' = Callers
  BY DEF Callers
<1> QED BY <1>3, <1>7, <1>9, <1>11, <1>12, <1>13 DEF OverspendIsBounded

(* An answer is debited when its call leaves the flight.                    *)
LEMMA AnswerDebited ==
  ASSUME TypeOK, OverspendIsBounded, NEW p \in Callers, Answer(p)
  PROVE  OverspendIsBounded'
<1>1. InFlight \subseteq Callers /\ p \in InFlight
  BY DEF InFlight, Answer, At
<1>2. call'[p].at = "idle" /\ \A q \in Callers \ {p} : call'[q] = call[q]
  BY GoesType DEF Answer, Steps
<1>3. InFlight' = InFlight \ {p}
  BY <1>2 DEF InFlight, Callers
<1>4. PICK b \in Nat : b = Cardinality(InFlight)
  BY <1>1, FlightFacts
<1>5. PICK a \in Nat : a = Cardinality(InFlight') /\ b = a + 1
  <2>1. IsFiniteSet(InFlight) /\ InFlight' \subseteq Callers
    BY <1>1, <1>3, FlightFacts
  <2>2. Cardinality(InFlight \ {p}) = Cardinality(InFlight) - 1
    BY <1>1, <2>1, FS_RemoveElement
  <2>3. PICK c \in Nat : c = Cardinality(InFlight')
    BY <2>1, FlightFacts
  <2> QED BY <2>2, <2>3, <1>3, <1>4
<1>6. PICK n \in AllLimits :
        used + MaxCost * b + Estimate <= n + MaxCost * Cardinality(Callers)
  BY <1>4 DEF OverspendIsBounded
<1>7. PICK t \in Nat : t = MaxCost
  BY BudgetAssumption
<1>8. PICK x \in Nat : x = t * a
  OBVIOUS
<1>9. t * b = x + t
  BY <1>5, <1>8
<1>10. PICK z \in Nat : z = MaxCost * Cardinality(Callers)
  BY FlightFacts, BudgetAssumption
<1>11. PICK cost \in 0..t : used' = used + cost
  BY <1>7, AnswerType
<1>12. used \in Nat /\ Estimate \in Nat /\ n \in Nat
  BY BudgetAssumption DEF TypeOK, BudgetTypeOK, AllLimits
<1>13. used + (x + t) + Estimate <= n + z
  BY <1>6, <1>7, <1>9, <1>10
<1>14. used' + x + Estimate <= n + z
  BY <1>11, <1>12, <1>13
<1>15. n \in AllLimits' /\ Callers' = Callers
  BY DEF AllLimits, Callers
<1> QED BY <1>5, <1>7, <1>8, <1>10, <1>14, <1>15 DEF OverspendIsBounded

(* A call that the budget lets through fits into the limit as it was read,  *)
(* and the others may take their most.                                      *)
LEMMA Admitted ==
  ASSUME TypeOK, OverspendIsBounded, NEW p \in Callers, NEW n \in AllLimits, Decide(p, n)
  PROVE  OverspendIsBounded'
<1>1. CASE call'[p].at = "idle"
  <2>1. InFlight' \subseteq InFlight
    BY <1>1, DecideType DEF InFlight, Callers
  <2> QED BY <2>1, DecideType, FewerInFlight
<1>2. CASE call'[p].at # "idle"
  <2>1. PICK b \in Nat : b = Cardinality(InFlight') /\ b <= Cardinality(Callers)
    <3>1. InFlight' \subseteq Callers
      BY DEF InFlight, Callers
    <3> QED BY <3>1, FlightFacts
  <2>2. PICK c \in Nat : c = Cardinality(Callers)
    BY FlightFacts
  <2>3. PICK t \in Nat : t = MaxCost
    BY BudgetAssumption
  <2>4. PICK x \in Nat : x = t * b
    OBVIOUS
  <2>5. PICK z \in Nat : z = t * c
    OBVIOUS
  <2>6. x <= z
    <3>1. CASE b = c
      BY <3>1, <2>4, <2>5
    <3>2. CASE b < c
      <4>1. t * b + t <= t * c
        BY <3>2, Products
      <4> QED BY <4>1, <2>3, <2>4, <2>5
    <3> QED BY <2>1, <2>2, <3>1, <3>2
  <2>7. used' + Estimate <= n /\ used' \in Nat /\ Estimate \in Nat /\ n \in Nat
    BY <1>2, DecideType, BudgetAssumption DEF TypeOK, BudgetTypeOK, AllLimits
  <2>8. used' + x + Estimate <= n + z
    <3>1. PICK u \in Nat, e \in Nat, m \in Nat : u = used' /\ e = Estimate /\ m = n
      BY <2>7
    <3>2. u + e <= m
      BY <3>1, <2>7
    <3>3. u + x + e <= m + z
      BY <3>2, <2>6
    <3> QED BY <3>1, <3>3
  <2>9. n \in AllLimits' /\ Callers' = Callers
    BY DEF AllLimits, Callers
  <2> QED BY <2>1, <2>2, <2>3, <2>4, <2>5, <2>8, <2>9 DEF OverspendIsBounded
<1> QED BY <1>1, <1>2

(* A step of p that debits nothing and takes it no further than it was.     *)
LEMMA NotAdmitted ==
  ASSUME TypeOK, OverspendIsBounded, NEW p \in Callers, used' = used,
         \A q \in Callers \ {p} : call'[q] = call[q],
         p \in InFlight \/ call'[p].at \in {"idle", "limits", "resolved"}
  PROVE  OverspendIsBounded'
<1>1. InFlight' \subseteq InFlight
  BY DEF InFlight, Callers
<1> QED BY <1>1, FewerInFlight

LEMMA OverspendStep == TypeOK /\ OverspendIsBounded /\ [Next]_vars => OverspendIsBounded'
<1> SUFFICES ASSUME TypeOK, OverspendIsBounded, [Next]_vars PROVE OverspendIsBounded'
  OBVIOUS
<1>1. ASSUME NEW p \in Callers, Begin(p) PROVE OverspendIsBounded'
  <2>1. CASE limit \in AllLimits /\ Decide(p, limit)
    BY <2>1, Admitted
  <2>2. CASE Goes(p, "limits") /\ UNCHANGED budget
    BY <2>2, GoesType, NotAdmitted DEF Steps, budget
  <2> QED BY <1>1, <2>1, <2>2 DEF Begin, TypeOK, BudgetTypeOK
<1>2. ASSUME NEW p \in Callers, ResolveLimits(p) PROVE OverspendIsBounded'
  <2>1. PICK n \in AllLimits :
          call' = [call EXCEPT ![p] = Waiting("resolved", n)]
    BY <1>2 DEF ResolveLimits, Resolved, TypeOK, BudgetTypeOK, AllLimits
  <2>2. Waiting("resolved", n).at = "resolved"
    BY DEF Waiting
  <2>3. call'[p].at = "resolved" /\ \A q \in Callers \ {p} : call'[q] = call[q]
    BY <2>1, <2>2 DEF TypeOK
  <2> QED BY <1>2, <2>3, NotAdmitted DEF ResolveLimits, budget
<1>3. ASSUME NEW p \in Callers, CheckBudget(p) PROVE OverspendIsBounded'
  <2>1. call[p].limit \in AllLimits /\ Decide(p, call[p].limit)
    BY <1>3 DEF CheckBudget, TypeOK, Calls
  <2> QED BY <2>1, Admitted
<1>4. ASSUME NEW p \in Callers, Gate(p) \/ PromptFails(p) \/ Ask(p)
      PROVE  OverspendIsBounded'
  <2>1. p \in InFlight /\ used' = used
    BY <1>4 DEF InFlight, Gate, PromptFails, Ask, At, budget
  <2>2. Goes(p, "prompt") \/ Goes(p, "model") \/ Goes(p, "idle")
    BY <1>4 DEF Gate, PromptFails, Ask
  <2>3. \A q \in Callers \ {p} : call'[q] = call[q]
    BY <2>2, GoesType DEF Steps
  <2> QED BY <2>1, <2>3, NotAdmitted
<1>5. ASSUME NEW p \in Callers, UseTool(p) PROVE OverspendIsBounded'
  <2>1. p \in InFlight /\ used' = used
    BY <1>5 DEF InFlight, UseTool, At, budget
  <2> QED BY <1>5, <2>1, UseToolType, NotAdmitted
<1>6. ASSUME NEW p \in Callers, FailTransiently(p) \/ FailForGood(p) \/ TimeOut(p)
      PROVE  OverspendIsBounded'
  <2>1. p \in InFlight /\ used' = used /\ At(p, "model")
    BY <1>6 DEF InFlight, FailTransiently, FailForGood, TimeOut, At, budget
  <2>2. \A q \in Callers \ {p} : call'[q] = call[q]
    BY <1>6, <2>1, AttemptType, FailureFrame
  <2> QED BY <2>1, <2>2, NotAdmitted
<1>7. ASSUME NEW p \in Callers, Answer(p) PROVE OverspendIsBounded'
  BY <1>7, AnswerDebited
<1>8. ASSUME NEW p \in Callers, LateTool(p) \/ LateEnd(p) PROVE OverspendIsBounded'
  <2>1. call' = call /\ used' = used
    BY <1>8, LateType DEF budget
  <2>2. InFlight' \subseteq InFlight
    BY <2>1 DEF InFlight, Callers
  <2> QED BY <2>1, <2>2, FewerInFlight
<1>9. CASE Environment
  <2>1. CASE call' = call
    <3>1. InFlight' \subseteq InFlight
      BY <2>1 DEF InFlight, Callers
    <3> QED BY <1>9, <3>1, EnvironmentType, FewerInFlight
  <2>2. CASE call' = [p \in Callers |-> Idle]
    <3>1. InFlight' \subseteq InFlight
      BY <2>2, IdleType DEF InFlight, Callers
    <3> QED BY <1>9, <3>1, EnvironmentType, FewerInFlight
  <2> QED BY <1>9, <2>1, <2>2, EnvironmentType
<1>10. CASE UNCHANGED vars
  <2>1. InFlight' \subseteq InFlight /\ used' = used
    BY <1>10 DEF InFlight, Callers, vars, budget
  <2> QED BY <2>1, FewerInFlight
<1> QED BY <1>1, <1>2, <1>3, <1>4, <1>5, <1>6, <1>7, <1>8, <1>9, <1>10
        DEF Next, Continue, Environment

(* The tokens of a day go past a limit by no more than what the calls that  *)
(* were checked together take, for any number of calls and any limits.      *)
THEOREM OverspendStaysBounded == Spec => []OverspendIsBounded
<1>1. Init => OverspendIsBounded
  <2> SUFFICES ASSUME Init PROVE OverspendIsBounded
    OBVIOUS
  <2>1. used = 0 /\ InFlight = {}
    BY IdleType DEF Init, FreshBudget, InFlight
  <2>2. Cardinality(InFlight) = 0
    BY <2>1, FS_EmptySet
  <2>3. PICK z \in Nat : z = MaxCost * Cardinality(Callers)
    BY FlightFacts, BudgetAssumption
  <2>4. MaxCost * 0 = 0 /\ StarterLimit \in AllLimits
    BY BudgetAssumption DEF AllLimits
  <2>5. 0 + 0 + Estimate <= StarterLimit + z
    BY BudgetAssumption
  <2> QED BY <2>1, <2>2, <2>3, <2>4, <2>5 DEF OverspendIsBounded
<1> QED BY <1>1, AgentTypeCorrect, OverspendStep, PTL DEF Spec
=============================================================================

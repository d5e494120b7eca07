----------------------------- MODULE AgentCalls -----------------------------
(***************************************************************************)
(* The calls of one agent of one tenant: the budget, the circuit, the loop *)
(* of the model and its tools with its retries and its chain of fallback   *)
(* models.  The orchestrator's callAgent asks the circuit and reports to   *)
(* it around runToolLoopWithResilience, which does both again; the other   *)
(* routes leave them to it.  All of it is in the memory of one process.    *)
(***************************************************************************)
EXTENDS CircuitBreaker, TokenBudget, FiniteSets

CONSTANTS
  Orchestrated,  \* calls made through callAgent, at once
  Direct,        \* calls made by the routes of one agent and of ai-reply, at once
  Models,        \* length of the chain of models
  MaxRetries,    \* retries of one model after an error that may pass
  MaxToolCalls   \* MAX_TOOL_CALLS_PER_TURN

Callers == Orchestrated \cup Direct

ASSUME CallsAssumption ==
  /\ Orchestrated \cap Direct = {} /\ IsFiniteSet(Callers)
  /\ Models \in Nat \ {0} /\ MaxRetries \in Nat /\ MaxToolCalls \in Nat

VARIABLES
  call,     \* where each call is: its step, the limit it read, its attempt
  probing,  \* history: calls let through since the circuit was half open
  drafts,   \* draft orders that create_order made for each call
  late,     \* tool calls that abandoned loops of each call may still make
  down      \* external: the models, or the data of the prompt, fail or do not come in time

vars == <<circuit, cooled, budget, call, probing, drafts, late, down>>

Steps == {"idle", "limits", "resolved", "gate", "prompt", "model"}

Calls == [at : Steps, limit : AllLimits, model : 1..Models,
          tries : 0..MaxRetries, tools : 0..MaxToolCalls]

Waiting(step, n) == [at |-> step, limit |-> n, model |-> 1, tries |-> 0, tools |-> 0]
Idle == Waiting("idle", StarterLimit)

At(p, step) == call[p].at = step
Goes(p, step) == call' = [call EXCEPT ![p] = Waiting(step, StarterLimit)]

InFlight == {p \in Callers : call[p].at \in {"gate", "prompt", "model"}}

TypeOK ==
  /\ CircuitTypeOK
  /\ BudgetTypeOK
  /\ call \in [Callers -> Calls]
  /\ probing \subseteq Callers
  /\ drafts \in [Callers -> Nat] /\ late \in [Callers -> Nat]
  /\ down \in BOOLEAN

Init ==
  /\ circuit = Fresh /\ cooled = FALSE
  /\ FreshBudget /\ stored = StarterLimit
  /\ call = [p \in Callers |-> Idle]
  /\ probing = {}
  /\ drafts = [p \in Callers |-> 0] /\ late = [p \in Callers |-> 0]
  /\ down = FALSE

-----------------------------------------------------------------------------
(* checkBudget, by every route before the call.                             *)
Decide(p, n) ==
  /\ Checked(n) /\ UNCHANGED stored
  /\ Goes(p, IF ~Affordable(n) THEN "idle"
             ELSE IF p \in Orchestrated THEN "gate" ELSE "prompt")

(* A call is a name: it is taken again once the loops it left have ended.   *)
Begin(p) ==
  /\ At(p, "idle") /\ late[p] = 0
  /\ drafts' = [drafts EXCEPT ![p] = 0]
  /\ \/ ~stale /\ Decide(p, limit)
     \/ stale /\ Goes(p, "limits") /\ UNCHANGED budget
  /\ UNCHANGED <<circuit, cooled, probing, late, down>>

ResolveLimits(p) ==
  /\ At(p, "limits")
  /\ \E n \in Resolved :
       call' = [call EXCEPT ![p] = Waiting("resolved", n)]
  /\ UNCHANGED <<circuit, cooled, budget, probing, drafts, late, down>>

CheckBudget(p) ==
  /\ At(p, "resolved")
  /\ Decide(p, call[p].limit)
  /\ UNCHANGED <<circuit, cooled, probing, drafts, late, down>>

-----------------------------------------------------------------------------
(* canCall said yes to p.                                                   *)
LetThrough(p) ==
  /\ Becomes(Called)
  /\ probing' = CASE circuit.state = "closed" -> probing
                  [] circuit.state = "open" -> {p}
                  [] OTHER -> probing \cup {p}

(* The entry becomes e after a report.                                      *)
Report(e) ==
  /\ Becomes(e)
  /\ probing' = IF e.state = "half-open" THEN probing ELSE {}

(* callAgent asks before it builds the prompt.                              *)
Gate(p) ==
  /\ At(p, "gate")
  /\ \/ CanCall /\ LetThrough(p) /\ Goes(p, "prompt")
     \/ ~CanCall /\ Goes(p, "idle") /\ UNCHANGED <<circuit, cooled, probing>>
  /\ UNCHANGED <<budget, drafts, late, down>>

(* buildAgentPrompt throws: in callAgent it is outside of the try.          *)
PromptFails(p) ==
  /\ At(p, "prompt") /\ down
  /\ Goes(p, "idle")
  /\ UNCHANGED <<circuit, cooled, budget, probing, drafts, late, down>>

(* runToolLoopWithResilience asks as well; callAgent reports its refusal as *)
(* a failure.                                                               *)
Ask(p) ==
  /\ At(p, "prompt")
  /\ \/ CanCall /\ LetThrough(p) /\ Goes(p, "model")
     \/ /\ ~CanCall /\ Goes(p, "idle")
        /\ IF p \in Orchestrated THEN Report(RecordFailure(circuit))
           ELSE UNCHANGED <<circuit, cooled, probing>>
  /\ UNCHANGED <<budget, drafts, late, down>>

-----------------------------------------------------------------------------
(* An attempt of p: the model, its retry, and the tool calls made.          *)
Attempts(p, m, t, k) ==
  call' = [call EXCEPT ![p] = [at |-> "model", limit |-> StarterLimit,
                               model |-> m, tries |-> t, tools |-> k]]

(* The model asks for a tool: create_order makes a draft or fails.          *)
UseTool(p) ==
  /\ At(p, "model") /\ ~down
  /\ call[p].tools < MaxToolCalls
  /\ Attempts(p, call[p].model, call[p].tries, call[p].tools + 1)
  /\ \E n \in 0..1 : drafts' = [drafts EXCEPT ![p] = @ + n]
  /\ UNCHANGED <<circuit, cooled, budget, probing, late, down>>

(* The final reply; callAgent reports the success a second time, which      *)
(* leaves the entry as the first did.                                       *)
Answer(p) ==
  /\ At(p, "model") /\ ~down
  /\ Report(RecordSuccess(circuit))
  /\ \E cost \in 0..MaxCost : RecordUsage(cost)
  /\ Goes(p, "idle")
  /\ UNCHANGED <<limit, stale, stored, newDay, drafts, late, down>>

(* The last model of the chain failed; callAgent counts it once more.       *)
Reported(p) ==
  IF p \in Orchestrated THEN RecordFailure(RecordFailure(circuit))
  ELSE RecordFailure(circuit)

(* Mutant: an attempt that failed is not counted.                           *)
RetryUncounted(p) ==
  /\ call[p].tries < MaxRetries
  /\ Attempts(p, call[p].model, call[p].tries, 0)
  /\ UNCHANGED <<circuit, cooled, probing>>

(* The attempt ended: the same model again, the next one, or the end.  The  *)
(* loop starts from the first message and counts its tools anew.            *)
Retry(p) ==
  /\ call[p].tries < MaxRetries
  /\ Attempts(p, call[p].model, call[p].tries + 1, 0)
  /\ UNCHANGED <<circuit, cooled, probing>>

NextModel(p) ==
  /\ call[p].model < Models
  /\ Attempts(p, call[p].model + 1, 0, 0)
  /\ UNCHANGED <<circuit, cooled, probing>>

GiveUp(p) ==
  /\ call[p].model = Models
  /\ Report(Reported(p)) /\ Goes(p, "idle")

(* An error of the network or of the provider that may pass.                *)
FailTransiently(p) ==
  /\ At(p, "model") /\ down
  /\ \/ Retry(p)
     \/ call[p].tries = MaxRetries /\ (NextModel(p) \/ GiveUp(p))
  /\ UNCHANGED <<budget, drafts, late, down>>

FailForGood(p) ==
  /\ At(p, "model") /\ down
  /\ NextModel(p) \/ GiveUp(p)
  /\ UNCHANGED <<budget, drafts, late, down>>

(* "LLM timeout" is none of the errors that are retried; the loop goes on   *)
(* behind the race that it lost.                                            *)
TimeOut(p) ==
  /\ At(p, "model") /\ down
  /\ late' = [late EXCEPT ![p] = @ + MaxToolCalls - call[p].tools]
  /\ NextModel(p) \/ GiveUp(p)
  /\ UNCHANGED <<budget, drafts, down>>

LateTool(p) ==
  /\ late[p] > 0
  /\ late' = [late EXCEPT ![p] = @ - 1]
  /\ \E n \in 0..1 : drafts' = [drafts EXCEPT ![p] = @ + n]
  /\ UNCHANGED <<circuit, cooled, budget, call, probing, down>>

(* One of the abandoned loops of p ends without its other tool calls.       *)
LateEnd(p) ==
  /\ \E n \in 0..(late[p] - 1) : late' = [late EXCEPT ![p] = n]
  /\ UNCHANGED <<circuit, cooled, budget, call, probing, drafts, down>>

-----------------------------------------------------------------------------
Cool ==
  /\ circuit.state = "open" /\ ~cooled
  /\ cooled' = TRUE
  /\ UNCHANGED <<circuit, budget, call, probing, drafts, late, down>>

(* The administrator deletes the entry.                                     *)
Reset ==
  /\ Report(Fresh)
  /\ UNCHANGED <<budget, call, drafts, late, down>>

Administer ==
  /\ (\E n \in Limits : SetLimits(n)) \/ LimitsExpire \/ DayTurns
  /\ UNCHANGED <<circuit, cooled, call, probing, drafts, late, down>>

Outage ==
  /\ down' = ~down
  /\ UNCHANGED <<circuit, cooled, budget, call, probing, drafts, late>>

Restart ==
  /\ Report(Fresh) /\ ForgetBudget
  /\ call' = [p \in Callers |-> Idle]
  /\ drafts' = [p \in Callers |-> 0] /\ late' = [p \in Callers |-> 0]
  /\ UNCHANGED down

Continue(p) ==
  \/ ResolveLimits(p) \/ CheckBudget(p)
  \/ Gate(p) \/ PromptFails(p) \/ Ask(p)
  \/ UseTool(p) \/ Answer(p)
  \/ FailTransiently(p) \/ FailForGood(p) \/ TimeOut(p)

Next ==
  \/ \E p \in Callers : Begin(p) \/ Continue(p) \/ LateTool(p) \/ LateEnd(p)
  \/ Cool \/ Reset \/ Administer \/ Outage \/ Restart

Spec == Init /\ [][Next]_vars

(* Every step of a call has a time limit, and time passes.                  *)
Fairness == (\A p \in Callers : WF_vars(Continue(p))) /\ WF_vars(Cool)

FairSpec == Spec /\ Fairness

-----------------------------------------------------------------------------
(* While the circuit is half open no more than halfOpenMaxCalls calls have  *)
(* been let through since, however many come at once, are refused inside of *)
(* callAgent or report after the circuit opened again.                      *)
TestCallsAreFew ==
  circuit.state = "half-open" => Cardinality(probing) <= HalfOpenMaxCalls

(* Calls that were checked together may go past the limit together, by what *)
(* they take and no more: each is debited before it can be checked again,   *)
(* across midnight, restarts and changes of the limit.                      *)
OverspendIsBounded ==
  \E n \in AllLimits :
    used + MaxCost * Cardinality(InFlight) + Estimate
      <= n + MaxCost * Cardinality(Callers)

(* However the models fail, one message of a customer makes no more draft   *)
(* orders than every attempt of every model may make tool calls: a retry    *)
(* starts the loop over, and a loop that lost its race still counts.        *)
DraftsAreBounded ==
  \A p \in Callers : drafts[p] + late[p] <= Models * (MaxRetries + 1) * MaxToolCalls

(* A test call that reached the model settles the circuit: it closes, or    *)
(* opens for another minute.                                                *)
TestCallSettles ==
  \A p \in Callers :
    (circuit.state = "half-open" /\ p \in probing /\ At(p, "model"))
      ~> circuit.state # "half-open"

(* circuit-breaker.ts: after resetTimeoutMs one test call is allowed, and   *)
(* if it succeeds the circuit is closed.  With models that answer and calls *)
(* that keep coming, within the budget, it is closed again and again.       *)
Healthy == <>[]~down /\ []<>(\E p \in Callers : At(p, "gate") \/ At(p, "prompt"))

CircuitCloses == Healthy => []<>(circuit.state = "closed")

(* budget.ts: setLimits refreshes the in-memory cache immediately, and the  *)
(* next check reads the setting again.                                      *)
LimitIsCurrent == ~stale => limit \in {stored, StarterLimit}

(* A retry is of the call to the model: it does not repeat the draft order. *)
OneDraftEach == \A p \in Callers : drafts[p] <= MaxToolCalls
=============================================================================

---------------------------- MODULE TokenBudget ----------------------------
(***************************************************************************)
(* The daily tokens of one tenant: a counter and its limit in the memory   *)
(* of the process, the limit of the administrator in the Setting table.    *)
(* The tokens of the month are compared in the same way and are left out.  *)
(* So are the two limits in dollars, and those are compared otherwise: what*)
(* has been spent alone, without an estimate (budget.ts:297, 321), so that *)
(* one call may take the cost past them.                                   *)
(***************************************************************************)
EXTENDS Integers

CONSTANTS
  Limits,        \* limits an administrator may set
  StarterLimit,  \* the limit of the starter plan
  Estimate,      \* tokens a call is expected to take
  MaxCost        \* tokens the answer of a call may take

ASSUME BudgetAssumption ==
  /\ Limits \subseteq Nat /\ StarterLimit \in Nat
  /\ Estimate \in 0..StarterLimit /\ MaxCost \in Nat

VARIABLES
  used,    \* daily.tokensUsed: of a call, the tokens of its last iteration
  limit,   \* limits.dailyTokens as it was resolved last
  stale,   \* limitsResolvedAt is older than LIMIT_CACHE_TTL_MS, or 0
  stored,  \* agent_budget::tenant::daily::tokens
  newDay   \* daily.periodKey is not today's

budget == <<used, limit, stale, stored, newDay>>

AllLimits == Limits \cup {StarterLimit}

BudgetTypeOK ==
  /\ used \in Nat /\ limit \in AllLimits /\ stored \in AllLimits
  /\ stale \in BOOLEAN /\ newDay \in BOOLEAN

(* freshState: the counters are not read back from the TokenUsage rows.     *)
FreshBudget == used = 0 /\ limit = StarterLimit /\ stale = TRUE /\ newDay = FALSE

(* maybeResetDaily.                                                         *)
Today == IF newDay THEN 0 ELSE used

(* Mutant: what was taken is compared, without what the call will take.     *)
NotYetOver(n) == Today <= n

Affordable(n) == Today + Estimate <= n

(* checkBudget once the limit is known to be n.                             *)
Checked(n) == used' = Today /\ newDay' = FALSE /\ limit' = n /\ stale' = FALSE

(* resolveLimits: a read that fails gives the limits of the starter plan.   *)
Resolved == {stored, StarterLimit}

RecordUsage(cost) == used' = used + cost

(* setLimits: the setting is saved and the limit in memory is out of date.  *)
SetLimits(n) ==
  /\ stored' = n /\ stale' = TRUE
  /\ UNCHANGED <<used, limit, newDay>>

LimitsExpire == ~stale /\ stale' = TRUE /\ UNCHANGED <<used, limit, stored, newDay>>

(* Midnight; the counter is reset by the next check.                        *)
DayTurns == ~newDay /\ newDay' = TRUE /\ UNCHANGED <<used, limit, stale, stored>>

ForgetBudget ==
  /\ used' = 0 /\ limit' = StarterLimit /\ stale' = TRUE /\ newDay' = FALSE
  /\ UNCHANGED stored
=============================================================================

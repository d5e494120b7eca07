--------------------------- MODULE CircuitBreaker ---------------------------
(***************************************************************************)
(* The circuit of one agent of one tenant, kept in the memory of the       *)
(* process.  Its operations are run to their end without an await: they    *)
(* are operators on the entry, used in the steps of the calls.             *)
(***************************************************************************)
EXTENDS Integers

CONSTANTS
  FailureThreshold,  \* failures that open a closed circuit
  HalfOpenMaxCalls   \* calls let through while it is half open

ASSUME CircuitAssumption ==
  FailureThreshold \in Nat \ {0} /\ HalfOpenMaxCalls \in Nat \ {0}

VARIABLES
  circuit,  \* its entry; failures is read against the threshold only and stops there
  cooled    \* whether resetTimeoutMs has passed since openedAt

Entry == [state : {"closed", "open", "half-open"},
          failures : 0..FailureThreshold,
          halfOpenCalls : 0..HalfOpenMaxCalls]

Circuit(s, f, n) == [state |-> s, failures |-> f, halfOpenCalls |-> n]

Fresh == Circuit("closed", 0, 0)

CircuitTypeOK == circuit \in Entry /\ cooled \in BOOLEAN

(* Mutant: one test call too many.                                          *)
CanCallOnceMore ==
  \/ circuit.state = "closed"
  \/ circuit.state = "open" /\ cooled
  \/ circuit.state = "half-open" /\ circuit.halfOpenCalls <= HalfOpenMaxCalls

(* canCall: the answer, then the entry it leaves behind when it says yes.   *)
CanCall ==
  \/ circuit.state = "closed"
  \/ circuit.state = "open" /\ cooled
  \/ circuit.state = "half-open" /\ circuit.halfOpenCalls < HalfOpenMaxCalls

(* Mutant: the first test call is not counted.                              *)
TestNotCounted ==
  IF circuit.state = "open"
  THEN Circuit("half-open", circuit.failures, 0)
  ELSE circuit

Called ==
  CASE circuit.state = "closed" -> circuit
    [] circuit.state = "open" ->
         Circuit("half-open", circuit.failures, 1)
    [] OTHER -> Circuit("half-open", circuit.failures, circuit.halfOpenCalls + 1)

(* Mutant: a test call that succeeds is counted and closes nothing.         *)
SuccessCounted(e) == e

RecordSuccess(e) ==
  IF e.state = "half-open" THEN Circuit("closed", 0, e.halfOpenCalls) ELSE e

OneMore(n) == IF n < FailureThreshold THEN n + 1 ELSE n

RecordFailure(e) ==
  LET failures == OneMore(e.failures) IN
  CASE e.state = "half-open" -> Circuit("open", failures, 0)
    [] e.state = "closed" /\ failures = FailureThreshold ->
         Circuit("open", failures, e.halfOpenCalls)
    [] OTHER -> Circuit(e.state, failures, e.halfOpenCalls)

(* The entry becomes e: a circuit that opens sets openedAt.                 *)
Becomes(e) ==
  /\ circuit' = e
  /\ cooled' = (cooled /\ e.state = "open" /\ circuit.state = "open")
=============================================================================

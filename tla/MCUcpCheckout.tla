--------------------------- MODULE MCUcpCheckout ---------------------------
(* Instances of UcpCheckout.                                                *)
EXTENDS UcpCheckout, FiniteSets, TLC

CONSTANTS i1, i2, c1, y1

MCParent == [m \in MandateIds |-> IF m = c1 THEN i1 ELSE IF m = y1 THEN c1 ELSE None]
MCMaxAmount == [i \in Intents |-> 1]

(* Bound: one thing at a time beside an intent, its cart and a session: a   *)
(* big total, a second intent, a payment mandate (which no session uses) or *)
(* a name written by hand (without expiry, which concerns other things).    *)
Plain == \A s \in Sessions : total[s] < Threshold
Extras == {x \in {i2, y1} : status[x] # "absent"}

OneExtra ==
  \/ stamped = {} /\ Extras = {}
  \/ stamped = {} /\ Extras = {i2} /\ Plain
  \/ stamped = {} /\ Extras = {y1} /\ \A s \in Sessions : state[s] = "absent"
  \/ Cardinality(stamped) = 1 /\ Extras \cup expired = {} /\ Plain

Symmetry == Permutations(Calls) \cup Permutations(Sessions)
=============================================================================

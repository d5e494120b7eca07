---------------------------- MODULE MCDianInvoice ----------------------------
(* Instances of DianInvoice for TLC.                                        *)
EXTENDS DianInvoice, TLC

(* Bound: a person submits an invoice while it is the only one.             *)
MCOneSubmitted == submits = 0 \/ Cardinality(Used) <= 1

Drafting == {g \in Generators : draft[g] # None}

(* Bound: drafts come in any number and order before the first submission,  *)
(* then one at a time, of numbers that padStart keeps in order.             *)
MCNumbersFirst ==
  \/ /\ submits = 0 /\ accepted = {}
     /\ \A w \in Submitters : Idle(w)
     /\ \A o \in Orders : failures[o] = 0 /\ age[o] = "fresh"
     /\ \A o \in Orders : status[o] \in {"absent", "pending_submission"}
  \/ /\ Cardinality(Drafting) <= 1 /\ together = {}
     /\ \A n \in Used : n <= LastPadded /\ \A g \in Drafting : n < draft[g].number
     /\ \A g \in Drafting : draft[g].number <= LastPadded

MCSymmetry == Permutations(Submitters) \cup Permutations(Generators)
=============================================================================

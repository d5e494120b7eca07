--------------------------- MODULE MCRefundRetry ---------------------------
(* Instances of RefundRetry for TLC.                                        *)
EXTENDS RefundRetry

CONSTANT NumEvents
MCEvents == 1..NumEvents
=============================================================================

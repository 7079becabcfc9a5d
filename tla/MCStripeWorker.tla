--------------------------- MODULE MCStripeWorker ----------------------------
(* Two callers, two Stripe threads, a queue for one job, one *)
(* retry; the circuit opens after two operations failed in a row.           *)
EXTENDS StripeWorker

CONSTANTS c1, c2, w1, w2
==============================================================================

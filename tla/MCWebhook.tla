------------------------------ MODULE MCWebhook ------------------------------
(* Webhook for TLC: two workers, so that a duplicate can overlap, and two   *)
(* events, so that they can be handled out of order.                        *)
EXTENDS Webhook
==============================================================================
